----------------------------- MODULE VsmProofs ------------------------------
(***************************************************************************)
(* Vsm for any number of nodes, cpus, stores and messages: types, the      *)
(* matching of replies and requests, and the ownership of the page.  Then, *)
(* for any cluster whose node ids have a bit in the copyset: the copies of *)
(* the page, the refinement of CoherentPage, and that no request reaches a *)
(* node that can neither answer nor forward it.                            *)
(***************************************************************************)
EXTENDS VsmInvariants, SequenceTheorems, FiniteSetTheorems, TLAPS

-----------------------------------------------------------------------------
(* Sequences, and families of queues.                                      *)

\* What Append does, position by position.
LEMMA AppendAt ==
  ASSUME NEW S, NEW q \in Seq(S), NEW p \in S
  PROVE  /\ Append(q, p) \in Seq(S)
         /\ Len(q) \in Nat
         /\ Len(Append(q, p)) = Len(q) + 1
         /\ \A i \in 1..Len(q) : Append(q, p)[i] = q[i]
         /\ Append(q, p)[Len(q) + 1] = p
  OBVIOUS

\* What Head and Tail do, position by position.
LEMMA TailAt ==
  ASSUME NEW S, NEW q \in Seq(S), q # <<>>
  PROVE  /\ Tail(q) \in Seq(S)
         /\ Len(q) \in Nat /\ Len(q) >= 1
         /\ Head(q) = q[1] /\ Head(q) \in S
         /\ Len(Tail(q)) = Len(q) - 1
         /\ \A i \in 1..(Len(q) - 1) : Tail(q)[i] = q[i + 1]
  OBVIOUS

Put(E, q, b, p) == [e \in E |-> IF e = b THEN Append(q[e], p) ELSE q[e]]
Drop(E, q, a) == [e \in E |-> IF e = a THEN Tail(q[e]) ELSE q[e]]

\* A request of a node that has none under way keeps requests unique.
LEMMA PutAsk ==
  ASSUME NEW E, NEW q \in [E -> Seq(Proc)], NEW b \in E, NEW p \in Proc, IsAsk(p),
         Unique(E, q), \A r \in Asks(E, q) : r.node # p.node
  PROVE  /\ Unique(E, Put(E, q, b, p))
         /\ \A r : r \in Asks(E, Put(E, q, b, p)) <=> r \in Asks(E, q) \/ r = p
<1> DEFINE q2 == Put(E, q, b, p)
<1>1. \A e \in E : q[e] \in Seq(Proc) /\ Len(q[e]) \in Nat
  OBVIOUS
<1>2. /\ Len(q2[b]) = Len(q[b]) + 1
      /\ \A i \in 1..Len(q[b]) : q2[b][i] = q[b][i]
      /\ q2[b][Len(q[b]) + 1] = p
  BY AppendAt DEF Put
<1>3. \A e \in E : e # b => q2[e] = q[e]
  BY DEF Put
<1>a. \A e \in E : \A i \in 1..Len(q[e]) : q[e][i] \in Proc
  BY <1>1
<1>b. \A e \in E : \A i \in 1..Len(q2[e]) :
         (i \in 1..Len(q[e]) /\ q2[e][i] = q[e][i]) \/ (e = b /\ i = Len(q[b]) + 1 /\ q2[e][i] = p)
  BY <1>1, <1>2, <1>3
<1>c. \A e \in E : \A i \in 1..Len(q[e]) : i \in 1..Len(q2[e]) /\ q2[e][i] = q[e][i]
  BY <1>1, <1>2, <1>3
<1>d. Len(q[b]) + 1 \in 1..Len(q2[b])
  BY <1>1, <1>2
<1> HIDE DEF q2
<1>4. Unique(E, q2)
  <2> SUFFICES ASSUME NEW x \in E, NEW y \in E, NEW i \in 1..Len(q2[x]), NEW j \in 1..Len(q2[y]),
                   IsAsk(q2[x][i]), IsAsk(q2[y][j]), q2[x][i].node = q2[y][j].node
            PROVE x = y /\ i = j
    BY DEF Unique
  <2>1. CASE i \in 1..Len(q[x]) /\ q2[x][i] = q[x][i] /\ j \in 1..Len(q[y]) /\ q2[y][j] = q[y][j]
    BY <2>1 DEF Unique
  <2>2. ASSUME NEW e \in E, NEW k \in 1..Len(q[e]), IsAsk(q[e][k]) PROVE q[e][k].node # p.node
    BY <2>2, <1>a DEF Asks
  <2> QED BY <2>1, <2>2, <1>b
<1>5. Asks(E, q2) = Asks(E, q) \cup {p}
  <2>1. \A r \in Asks(E, q2) : r \in Asks(E, q) \cup {p}
    BY <1>b DEF Asks
  <2>2. \A r \in Asks(E, q) : r \in Asks(E, q2)
    BY <1>c DEF Asks
  <2>3. p \in Asks(E, q2)
    BY <1>d, <1>2 DEF Asks, q2
  <2> QED BY <2>1, <2>2, <2>3
<1> QED BY <1>4, <1>5 DEF q2

\* Taking the head off a queue removes its request and no other.
LEMMA DropHead ==
  ASSUME NEW E, NEW q \in [E -> Seq(Proc)], NEW a \in E, q[a] # <<>>,
         Unique(E, q)
  PROVE  /\ Unique(E, Drop(E, q, a))
         /\ IsAsk(Head(q[a])) => Asks(E, Drop(E, q, a)) = {p \in Asks(E,
              q) : p.node # Head(q[a]).node}
         /\ ~IsAsk(Head(q[a])) => Asks(E, Drop(E, q, a)) = Asks(E, q)
         /\ IsAsk(Head(q[a])) => Head(q[a]) \in Asks(E, q)
<1> DEFINE q2 == Drop(E, q, a)
<1>1. \A e \in E : q[e] \in Seq(Proc) /\ Len(q[e]) \in Nat
  OBVIOUS
<1>2. /\ Len(q2[a]) = Len(q[a]) - 1
      /\ Len(q[a]) >= 1
      /\ \A i \in 1..(Len(q[a]) - 1) : q2[a][i] = q[a][i + 1]
      /\ Head(q[a]) = q[a][1]
  BY TailAt, <1>1 DEF Drop
<1>3. \A e \in E : e # a => q2[e] = q[e]
  BY DEF Drop
<1>a. \A e \in E : \A i \in 1..Len(q[e]) : q[e][i] \in Proc
  BY <1>1
<1>b. \A e \in E : \A i \in 1..Len(q2[e]) :
         \/ e # a /\ i \in Nat /\ i \in 1..Len(q[e]) /\ q2[e][i] = q[e][i]
         \/ /\ e = a /\ i + 1 \in 1..Len(q[e]) /\ i \in Nat /\ i >= 1
            /\ q2[e][i] = q[e][i + 1]
  BY <1>1, <1>2, <1>3
<1>c. \A e \in E : \A i \in 1..Len(q[e]) : 
         \/ e # a /\ i \in 1..Len(q2[e]) /\ q2[e][i] = q[e][i]
         \/ e = a /\ i = 1
         \/ e = a /\ i - 1 \in 1..Len(q2[e]) /\ q2[e][i - 1] = q[e][i]
  BY <1>1, <1>2, <1>3
<1> HIDE DEF q2
<1>4. Unique(E, q2)
  <2> SUFFICES ASSUME NEW x \in E, NEW y \in E, NEW i \in 1..Len(q2[x]), NEW j \in 1..Len(q2[y]),
                   IsAsk(q2[x][i]), IsAsk(q2[y][j]), q2[x][i].node = q2[y][j].node
            PROVE x = y /\ i = j
    BY DEF Unique
  <2>1. PICK k \in 1..Len(q[x]) :
             q2[x][i] = q[x][k] /\ k = IF x = a THEN i + 1 ELSE i
    BY <1>b
  <2>2. PICK l \in 1..Len(q[y]) :
             q2[y][j] = q[y][l] /\ l = IF y = a THEN j + 1 ELSE j
    BY <1>b
  <2>3. x = y /\ k = l
    <3>1. IsAsk(q[x][k]) /\ IsAsk(q[y][l]) /\ q[x][k].node = q[y][l].node
      BY <2>1, <2>2
    <3> QED BY <3>1 DEF Unique
  <2>4. i \in Nat /\ j \in Nat
    BY <1>b
  <2> QED BY <2>1, <2>2, <2>3, <2>4
<1>5. \A r \in Asks(E, q2) : r \in Asks(E, q) 
    BY <1>b DEF Asks
<1>6. \A r \in Asks(E, q) : r \in Asks(E, q2) \/ r = Head(q[a])
    BY <1>c, <1>2 DEF Asks
<1>7. IsAsk(Head(q[a])) => Head(q[a]) \in Asks(E, q)
    BY <1>1, <1>2, <1>a DEF Asks
<1>8. ASSUME IsAsk(Head(q[a])) PROVE \A r \in Asks(E, q2) : r.node # Head(q[a]).node
  <2> SUFFICES ASSUME NEW e \in E, NEW i \in 1..Len(q2[e]), IsAsk(q2[e][i])
               PROVE q2[e][i].node # Head(q[a]).node
    BY DEF Asks
  <2>1. 1 \in 1..Len(q[a])
    BY <1>1, <1>2
  <2> DEFINE f(k) == IF e = a THEN k + 1 ELSE k
  <2>2. f(i) \in 1..Len(q[e]) /\ q2[e][i] = q[e][f(i)]
    BY <1>b
  <2>3. ~(e = a /\ f(i) = 1)
    OBVIOUS
  <2> HIDE DEF f
  <2> QED BY <1>2, <1>8, <2>1, <2>2, <2>3 DEF Unique
<1>9. ~IsAsk(Head(q[a])) => Head(q[a]) \notin Asks(E, q)
  BY DEF Asks
<1> HIDE DEF Asks
<1> QED BY <1>4, <1>5, <1>6, <1>7, <1>8, <1>9 DEF q2

\* The request at the head of a queue is its node's only one.
LEMMA HeadAlone ==
  ASSUME NEW E, NEW q \in [E -> Seq(Proc)], NEW a \in E, q[a] # <<>>,
         Unique(E, q), IsAsk(Head(q[a])),
         NEW r \in Asks(E, q), r.node = Head(q[a]).node
  PROVE  r = Head(q[a])
<1>1. q[a] \in Seq(Proc)
  OBVIOUS
<1>2. 1 \in 1..Len(q[a]) /\ Head(q[a]) = q[a][1]
  BY <1>1, TailAt
<1>3. PICK e \in E : \E i \in 1..Len(q[e]) : q[e][i] = r
  BY DEF Asks
<1>4. PICK i \in 1..Len(q[e]) : q[e][i] = r
  BY <1>3
<1>5. IsAsk(r)
  BY DEF Asks
<1> QED BY <1>2, <1>4, <1>5 DEF Unique

PutAll(E, q, B, p) == [e \in E |-> IF e \in B THEN Append(q[e], p) ELSE q[e]]

\* Invalidations added to queues leave the requests alone.
LEMMA PutInvs ==
  ASSUME NEW E, NEW q \in [E -> Seq(Proc)], NEW B, NEW p \in Proc, ~IsAsk(p),
         Unique(E, q)
  PROVE  /\ Unique(E, PutAll(E, q, B, p))
         /\ Asks(E, PutAll(E, q, B, p)) = Asks(E, q)
<1> DEFINE q2 == PutAll(E, q, B, p)
<1>1. \A e \in E : q[e] \in Seq(Proc) /\ Len(q[e]) \in Nat
  OBVIOUS
<1>2. \A e \in E : \/ q2[e] = q[e]
                   \/ /\ Len(q2[e]) = Len(q[e]) + 1
                      /\ \A i \in 1..Len(q[e]) : q2[e][i] = q[e][i]
                      /\ q2[e][Len(q[e]) + 1] = p
  BY AppendAt, <1>1 DEF PutAll
<1>3. \A e \in E : \A i \in 1..Len(q2[e]) : IsAsk(q2[e][i])
        => i \in 1..Len(q[e]) /\ q2[e][i] = q[e][i]
  BY <1>1, <1>2
<1>4. \A e \in E : \A i \in 1..Len(q[e]) : i \in 1..Len(q2[e]) /\ q2[e][i] = q[e][i]
  BY <1>1, <1>2
<1> HIDE DEF q2
<1>5. Unique(E, q2)
  <2> SUFFICES ASSUME NEW x \in E, NEW y \in E, NEW i \in 1..Len(q2[x]), NEW j \in 1..Len(q2[y]),
                   IsAsk(q2[x][i]), IsAsk(q2[y][j]), q2[x][i].node = q2[y][j].node
            PROVE x = y /\ i = j
    BY DEF Unique
  <2>1. i \in 1..Len(q[x]) /\ q2[x][i] = q[x][i]
    BY <1>3
  <2>2. j \in 1..Len(q[y]) /\ q2[y][j] = q[y][j]
    BY <1>3
  <2> QED BY <2>1, <2>2 DEF Unique
<1>6. Asks(E, q2) = Asks(E, q)
  BY <1>3, <1>4 DEF Asks
<1> QED BY <1>5, <1>6 DEF q2

\* Moving a head to the end of another queue loses and adds nothing.
LEMMA MoveHead ==
  ASSUME NEW E, NEW q \in [E -> Seq(Proc)], NEW a \in E, NEW b \in E, q[a] # <<>>,
         Unique(E, q)
  PROVE  LET q2 == Put(E, Drop(E, q, a), b, Head(q[a]))
         IN  Unique(E, q2) /\ Asks(E, q2) = Asks(E, q)
<1> DEFINE q1 == Drop(E, q, a)
           p  == Head(q[a])
<1>1. q1 \in [E -> Seq(Proc)] /\ p \in Proc
  <2>1. q[a] \in Seq(Proc)
    OBVIOUS
  <2>2. Tail(q[a]) \in Seq(Proc) /\ p \in Proc
    BY <2>1, TailAt
  <2> QED BY <2>2 DEF Drop
<1>2. CASE IsAsk(p)
  <2>1. Unique(E, q1) /\ Asks(E, q1) = {r \in Asks(E, q) : r.node # p.node} /\ p \in Asks(E, q)
    BY <1>2, DropHead
  <2>2. /\ Unique(E, Put(E, q1, b, p))
        /\ \A r : r \in Asks(E, Put(E, q1, b, p)) <=> r \in Asks(E, q1) \/ r = p
    <3>1. \A r \in Asks(E, q1) : r.node # p.node
      BY <2>1
    <3>2. Unique(E, q1)
      BY <2>1
    <3>3. IsAsk(p)
      BY <1>2
    <3> HIDE DEF q1, p
    <3>4. Unique(E, Put(E, q1, b, p))
      BY <1>1, <3>1, <3>2, <3>3, PutAsk
    <3>5. \A r : r \in Asks(E, Put(E, q1, b, p)) <=> r \in Asks(E, q1) \/ r = p
      BY <1>1, <3>1, <3>2, <3>3, PutAsk
    <3> QED BY <3>4, <3>5
  <2>3. \A r \in Asks(E, q) : r.node = p.node => r = p
    BY <1>2, HeadAlone
  <2> QED BY <2>1, <2>2, <2>3
<1>3. CASE ~IsAsk(p)
  <2>1. Unique(E, q1) /\ Asks(E, q1) = Asks(E, q)
    BY <1>3, DropHead
  <2>2. Unique(E, Put(E, q1, b, p)) /\ Asks(E, Put(E, q1, b, p)) = Asks(E, q1)
    <3> HIDE DEF q1, p
    <3>1. Put(E, q1, b, p) = PutAll(E, q1, {b}, p)
      BY DEF Put, PutAll
    <3> QED BY <1>1, <1>3, <2>1, <3>1, PutInvs
  <2> QED BY <2>1, <2>2
<1> QED BY <1>2, <1>3

-----------------------------------------------------------------------------
(* Types.                                                                  *)

\* A copyset bit is a copyset.
LEMMA CopysetBitType == \A n \in Nodes : CopysetBit(n) \in Copysets
  BY DEF CopysetBit, Copysets

\* The proc at the head of a waitqueue is a proc.
LEMMA CurrentType ==
  ASSUME TypeOK, NEW n \in Nodes, wq[n] # <<>>
  PROVE  Current(n) \in Proc
  BY DEF TypeOK, Current

\* A request goes to a node.
LEMMA FetchTargetType ==
  ASSUME TypeOK, NEW n \in Nodes
  PROVE  FetchTarget(n) \in Nodes
  BY VsmAssumption DEF TypeOK, FetchTarget

\* Taking the head off a waitqueue keeps its type.
LEMMA DoneType ==
  ASSUME TypeOK, NEW n \in Nodes, wq[n] # <<>>, Done(n)
  PROVE  wq' \in [Nodes -> Seq(Proc)]
  BY DEF TypeOK, Done

\* A reply sent keeps the type of reply.
LEMMA SendReplyType ==
  ASSUME TypeOK, NEW n \in Nodes, wq[n] # <<>>, NEW r \in Reply,
         SendReply(n, r)
  PROVE  reply' \in [Nodes -> [Cpus -> Seq(Reply)]]
<1>1. Current(n).node \in Nodes /\ Current(n).cpu \in Cpus
  BY CurrentType DEF Proc
<1>2. Append(reply[Current(n).node][Current(n).cpu], r) \in Seq(Reply)
  BY <1>1 DEF TypeOK
<1> QED
  BY <1>1, <1>2 DEF TypeOK, SendReply

\* Invalidations sent keep the type of req.
LEMMA InvalidateType ==
  ASSUME TypeOK, NEW n \in Nodes, NEW c \in Cpus, NEW cs, Invalidate(n, c, cs)
  PROVE  req' \in [Nodes -> [Nodes -> Seq(Proc)]]
<1> DEFINE inv == [type |-> "inv", node |-> n, cpu |-> c]
           row == [d \in Nodes |-> IF d \in cs \ {n} THEN Append(req[n][d], inv)
                                                     ELSE req[n][d]]
<1>1. inv \in Proc
  BY DEF Proc
<1>2. ASSUME NEW d \in Nodes PROVE row[d] \in Seq(Proc)
  BY <1>1 DEF TypeOK
<1>3. row \in [Nodes -> Seq(Proc)]
  BY <1>2
<1>4. req' = [req EXCEPT ![n] = row]
  BY DEF Invalidate, TypeOK
<1> QED
  BY <1>3, <1>4 DEF TypeOK

\* A request sent keeps the type of req.
LEMMA SendFetchReqType ==
  ASSUME TypeOK, NEW n \in Nodes, NEW c \in Cpus, NEW type \in {"read", "write"},
         SendFetchReq(n, c, type)
  PROVE  req' \in [Nodes -> [Nodes -> Seq(Proc)]]
<1> DEFINE p == [type |-> type, node |-> n, cpu |-> c]
<1>1. p \in Proc
  BY DEF Proc
<1>2. FetchTarget(n) \in Nodes
  BY FetchTargetType
<1>3. Append(req[n][FetchTarget(n)], p) \in Seq(Proc)
  BY <1>1, <1>2 DEF TypeOK
<1> QED
  BY <1>2, <1>3 DEF SendFetchReq, TypeOK

\* A control step keeps the type of pc.
LEMMA GotoType ==
  ASSUME TypeOK, NEW n \in Nodes, NEW c \in Cpus, NEW l \in CpuState,
         Goto(n, c, l)
  PROVE  pc' \in [Nodes -> [Cpus -> CpuState]]
  BY DEF TypeOK, Goto

\* Taking the page lock keeps the type of lock.
LEMMA SpinlockType ==
  ASSUME TypeOK, NEW n \in Nodes, NEW c \in Cpus, PageSpinlock(n, c)
  PROVE  lock' \in [Nodes -> Cpus \cup {Free, Rx}]
  BY DEF TypeOK, PageSpinlock

\* A forwarded request keeps the types of req and wq.
LEMMA ForwardType ==
  ASSUME TypeOK, NEW n \in Nodes, NEW type, Forward(n, type)
  PROVE  /\ req' \in [Nodes -> [Nodes -> Seq(Proc)]]
         /\ wq' \in [Nodes -> Seq(Proc)]
         /\ Current(n).node \in Nodes
<1>1. Current(n) \in Proc
  BY CurrentType DEF Forward, Serving
<1>2. Append(req[n][owner], Current(n)) \in Seq(Proc)
  BY <1>1 DEF TypeOK
<1>3. req' \in [Nodes -> [Nodes -> Seq(Proc)]]
  BY <1>2 DEF Forward, TypeOK
<1>4. wq' \in [Nodes -> Seq(Proc)]
  BY DoneType DEF Forward, Serving
<1> QED
  BY <1>1, <1>3, <1>4 DEF Proc

\* The entry of a node is an entry.
LEMMA EntryType ==
  ASSUME TypeOK, NEW n \in Nodes
  PROVE  pte[n] \in Pte /\ pte \in [Nodes -> Pte]
  BY DEF TypeOK

\* Setting the access flag keeps the type of pte.
LEMMA AfType ==
  ASSUME TypeOK, NEW n \in Nodes, NEW f \in BOOLEAN
  PROVE  [pte EXCEPT ![n].af = f] \in [Nodes -> Pte]
<1>1. [pte[n] EXCEPT !.af = f] \in Pte
  BY EntryType DEF Pte
<1> QED
  BY <1>1, EntryType

\* A store to the page keeps the type of pte.
LEMMA VerType ==
  ASSUME TypeOK, NEW n \in Nodes, NEW v \in Nat
  PROVE  [pte EXCEPT ![n].ver = v] \in [Nodes -> Pte]
<1>1. [pte[n] EXCEPT !.ver = v] \in Pte
  BY EntryType DEF Pte
<1> QED
  BY <1>1, EntryType

\* Setting permission and copyset keeps the type of pte.
LEMMA ApCsType ==
  ASSUME TypeOK, NEW n \in Nodes, NEW p \in {"none", "ro", "rw"},
         NEW cs \in Copysets
  PROVE  /\ [pte EXCEPT ![n].ap = p, ![n].cs = cs] \in [Nodes -> Pte]
         /\ [pte EXCEPT ![n].cs = cs, ![n].ap = p] \in [Nodes -> Pte]
<1>1. [pte[n] EXCEPT !.ap = p, !.cs = cs] \in Pte
  BY EntryType DEF Pte
<1>2. [pte[n] EXCEPT !.cs = cs, !.ap = p] \in Pte
  BY EntryType DEF Pte
<1>3. [pte EXCEPT ![n].ap = p, ![n].cs = cs] \in [Nodes -> Pte]
  BY <1>1, EntryType
<1>4. [pte EXCEPT ![n].cs = cs, ![n].ap = p] \in [Nodes -> Pte]
  BY <1>2, EntryType
<1> QED
  BY <1>3, <1>4

\* Every step keeps the types.
LEMMA TypeStep ==
  ASSUME TypeOK, [Next]_vars
  PROVE  TypeOK'
<1> USE VsmAssumption
<1>1. ASSUME NEW n \in Nodes, NEW c \in Cpus, GuestStore(n, c) PROVE TypeOK'
  <2>1. pte[n].ver + 1 \in Nat
    BY EntryType DEF Pte
  <2>4. latest' \in Nat
    <3>1. latest' = latest + 1
      BY <1>1 DEF GuestStore
    <3>2. latest \in Nat
      BY DEF TypeOK
    <3> QED
      BY <3>1, <3>2
  <2>2. pte' = [pte EXCEPT ![n].ver = pte[n].ver + 1]
    BY <1>1 DEF GuestStore
  <2>3. pte' \in [Nodes -> Pte]
    BY <2>1, <2>2, VerType
  <2> QED
    BY <1>1, <2>3, <2>4 DEF GuestStore, TypeOK
<1>2. ASSUME NEW n \in Nodes, NEW c \in Cpus, FaultHit(n, c) PROVE TypeOK'
  <2>1. pc' \in [Nodes -> [Cpus -> CpuState]]
    BY <1>2, GotoType DEF FaultHit, CpuState
  <2> QED
    BY <1>2, <2>1, SpinlockType DEF FaultHit, TypeOK
<1>3. ASSUME NEW n \in Nodes, NEW c \in Cpus, ReadFetch(n, c) PROVE TypeOK'
  <2>1. pc' \in [Nodes -> [Cpus -> CpuState]]
    BY <1>3, GotoType DEF ReadFetch, CpuState
  <2>2. req' \in [Nodes -> [Nodes -> Seq(Proc)]]
    BY <1>3, SendFetchReqType DEF ReadFetch
  <2> QED
    BY <1>3, <2>1, <2>2, SpinlockType DEF ReadFetch, TypeOK
<1>4. ASSUME NEW n \in Nodes, NEW c \in Cpus, WriteUpgrade(n, c) PROVE TypeOK'
  <2>1. pc' \in [Nodes -> [Cpus -> CpuState]]
    BY <1>4, GotoType DEF WriteUpgrade, CpuState
  <2>2. req' \in [Nodes -> [Nodes -> Seq(Proc)]]
    BY <1>4, InvalidateType DEF WriteUpgrade
  <2>3. pte' \in [Nodes -> Pte]
    BY <1>4, ApCsType DEF WriteUpgrade, Copysets
  <2> QED
    BY <1>4, <2>1, <2>2, <2>3, SpinlockType DEF WriteUpgrade, TypeOK
<1>5. ASSUME NEW n \in Nodes, NEW c \in Cpus, WriteFetch(n, c) PROVE TypeOK'
  <2>1. pc' \in [Nodes -> [Cpus -> CpuState]]
    BY <1>5, GotoType DEF WriteFetch, CpuState
  <2>2. req' \in [Nodes -> [Nodes -> Seq(Proc)]]
    BY <1>5, SendFetchReqType DEF WriteFetch
  <2>3. pte' \in [Nodes -> Pte]
    <3>1. (pte[n].af /\ ~ReadOnly(n)) \in BOOLEAN
      OBVIOUS
    <3> QED
      BY <1>5, <3>1, AfType DEF WriteFetch
  <2> QED
    BY <1>5, <2>1, <2>2, <2>3, SpinlockType DEF WriteFetch, TypeOK
<1>6. ASSUME NEW n \in Nodes, NEW c \in Cpus,
             ReadFetched(n, c) \/ WriteFetched(n, c)
      PROVE  TypeOK'
  <2>1. pc' \in [Nodes -> [Cpus -> CpuState]]
    BY <1>6, GotoType DEF ReadFetched, WriteFetched, CpuState
  <2>2. Head(reply[n][c]) \in Reply /\ Tail(reply[n][c]) \in Seq(Reply)
    BY <1>6 DEF ReadFetched, WriteFetched, TakeReply, TypeOK
  <2>3. reply' \in [Nodes -> [Cpus -> Seq(Reply)]]
    <3>1. reply' = [reply EXCEPT ![n][c] = Tail(reply[n][c])]
      BY <1>6 DEF ReadFetched, WriteFetched, TakeReply
    <3> QED
      BY <2>2, <3>1 DEF TypeOK
  <2>4. req' \in [Nodes -> [Nodes -> Seq(Proc)]]
    BY <1>6, InvalidateType DEF ReadFetched, WriteFetched, TypeOK
  <2>5. pte' \in [Nodes -> Pte]
    <3> DEFINE r == Head(reply[n][c])
    <3>1. /\ [af |-> TRUE, ap |-> "ro", cs |-> r.cs, ver |-> r.ver] \in Pte
          /\ [af |-> TRUE, ap |-> "rw", cs |-> {}, ver |-> r.ver] \in Pte
      BY <2>2 DEF Reply, Pte, Copysets
    <3>2. \E e \in Pte : pte' = [pte EXCEPT ![n] = e]
      BY <1>6, <3>1 DEF ReadFetched, WriteFetched
    <3> QED
      BY <3>2, EntryType
  <2> QED
    BY <1>6, <2>1, <2>3, <2>4, <2>5 DEF ReadFetched, WriteFetched, TypeOK
<1>7. ASSUME NEW s \in Nodes, NEW n \in Nodes, RecvRequest(s, n) PROVE TypeOK'
  <2>1. Head(req[s][n]) \in Proc /\ Tail(req[s][n]) \in Seq(Proc)
    <3>1. req[s][n] \in Seq(Proc) /\ req[s][n] # <<>>
      BY <1>7 DEF RecvRequest, TypeOK
    <3> QED
      BY <3>1
  <2>2. req' \in [Nodes -> [Nodes -> Seq(Proc)]]
    BY <1>7, <2>1 DEF RecvRequest, TypeOK
  <2>3. wq' \in [Nodes -> Seq(Proc)]
    BY <1>7, <2>1 DEF RecvRequest, TypeOK
  <2>4. lock' \in [Nodes -> Cpus \cup {Free, Rx}]
    BY <1>7 DEF RecvRequest, TypeOK
  <2> QED
    BY <1>7, <2>2, <2>3, <2>4 DEF RecvRequest, TypeOK
<1>8. ASSUME NEW n \in Nodes, ReadServer(n) PROVE TypeOK'
  <2>1. Current(n).node \in Nodes
    BY <1>8, CurrentType DEF ReadServer, Serving, Proc
  <2>2. pte[n].cs \cup CopysetBit(Current(n).node) \in Copysets
    BY <2>1, CopysetBitType DEF TypeOK, Pte, Copysets
  <2>3. pte' \in [Nodes -> Pte]
    BY <1>8, <2>2, ApCsType DEF ReadServer
  <2> QED
    BY <1>8, <2>3 DEF ReadServer, TypeOK
<1>9. ASSUME NEW n \in Nodes, WriteServer(n) PROVE TypeOK'
  <2>1. pte' \in [Nodes -> Pte]
    BY <1>9, AfType DEF WriteServer
  <2> QED
    BY <1>9, <2>1 DEF WriteServer, TypeOK
<1>10. ASSUME NEW n \in Nodes, SendReadReply(n) PROVE TypeOK'
  <2>1. [wnr |-> FALSE, cs |-> {}, ver |-> pte[n].ver] \in Reply
    BY DEF TypeOK, Pte, Reply, Copysets
  <2>2. reply' \in [Nodes -> [Cpus -> Seq(Reply)]]
    BY <1>10, <2>1, SendReplyType DEF SendReadReply, Serving
  <2>3. wq' \in [Nodes -> Seq(Proc)]
    BY <1>10, DoneType DEF SendReadReply, Serving
  <2> QED
    BY <1>10, <2>2, <2>3 DEF SendReadReply, TypeOK
<1>11. ASSUME NEW n \in Nodes, SendWriteReply(n) PROVE TypeOK'
  <2>1. [wnr |-> TRUE, cs |-> pte[n].cs, ver |-> pte[n].ver] \in Reply
    BY DEF TypeOK, Pte, Reply
  <2>2. reply' \in [Nodes -> [Cpus -> Seq(Reply)]]
    BY <1>11, <2>1, SendReplyType DEF SendWriteReply, Serving
  <2>3. wq' \in [Nodes -> Seq(Proc)]
    BY <1>11, DoneType DEF SendWriteReply, Serving
  <2>4. owner' \in Nodes
    BY <1>11, CurrentType DEF SendWriteReply, Serving, Proc, TypeOK
  <2> QED
    BY <1>11, <2>2, <2>3, <2>4 DEF SendWriteReply, TypeOK
<1>12. ASSUME NEW n \in Nodes, ForwardRead(n) \/ ForwardWrite(n) PROVE TypeOK'
  <2>1. PICK type \in {"read", "write"} : Forward(n, type)
    BY <1>12 DEF ForwardRead, ForwardWrite
  <2>2. owner' \in Nodes
    BY <1>12, <2>1, ForwardType DEF ForwardRead, ForwardWrite, TypeOK
  <2> QED
    BY <2>1, <2>2, ForwardType DEF Forward, TypeOK
<1>13. ASSUME NEW n \in Nodes, InvalidateServer(n) PROVE TypeOK'
  <2>1. wq' \in [Nodes -> Seq(Proc)]
    BY <1>13, DoneType DEF InvalidateServer, Serving
  <2>2. pte' \in [Nodes -> Pte]
    <3>1. (pte[n].af /\ IsOwner(n)) \in BOOLEAN
      OBVIOUS
    <3> QED
      BY <1>13, <3>1, AfType DEF InvalidateServer
  <2> QED
    BY <1>13, <2>1, <2>2 DEF InvalidateServer, TypeOK
<1>14. ASSUME NEW n \in Nodes, PageUnlock(n) PROVE TypeOK'
  <2>1. pc' \in [Nodes -> [Cpus -> CpuState]]
    BY <1>14 DEF PageUnlock, TypeOK, CpuState
  <2> QED
    BY <1>14, <2>1 DEF PageUnlock, TypeOK
<1>15. CASE UNCHANGED vars
  BY <1>15 DEF vars, TypeOK
<1> QED
  BY <1>1, <1>2, <1>3, <1>4, <1>5, <1>6, <1>7, <1>8, <1>9, <1>10, <1>11,
     <1>12, <1>13, <1>14, <1>15 DEF Next, FaultHandler, Server

\* The initial state has the right types.
LEMMA TypeInit == ASSUME Init PROVE TypeOK
  BY VsmAssumption DEF Init, TypeOK, Pte, Copysets, CpuState

\* The type invariant of Vsm, for any number of nodes, cpus and messages.
THEOREM TypeCorrect == Spec => []TypeOK
<1>1. Init => TypeOK
  BY TypeInit
<1>2. TypeOK /\ [Next]_vars => TypeOK'
  BY TypeStep
<1> QED
  BY <1>1, <1>2, PTL DEF Spec

-----------------------------------------------------------------------------
(* The requests under way.                                                 *)

\* The indices of channels and waitqueues.
LEMMA QueueFacts ==
  /\ Wq \notin Nodes
  /\ \A s, d \in Nodes : <<s, d>> \in Queues
  /\ \A d \in Nodes : <<Wq, d>> \in Queues
  BY VsmAssumption DEF Wq, Queues

\* The family of queues, its type and its members.
LEMMA ChansType ==
  ASSUME TypeOK
  PROVE  /\ Chans \in [Queues -> Seq(Proc)]
         /\ \A s, d \in Nodes : Chans[<<s, d>>] = req[s][d]
         /\ \A d \in Nodes : Chans[<<Wq, d>>] = wq[d]
<1>1. \A e \in Queues : e[2] \in Nodes /\ (e[1] # Wq => e[1] \in Nodes)
  BY DEF Queues
<1>2. \A e \in Queues : (IF e[1] = Wq THEN wq[e[2]] ELSE req[e[1]][e[2]]) \in Seq(Proc)
  BY <1>1 DEF TypeOK
<1>3. Chans \in [Queues -> Seq(Proc)]
  BY <1>2 DEF Chans
<1>4. \A s, d \in Nodes : Chans[<<s, d>>] = req[s][d]
  BY QueueFacts DEF Chans
<1>5. \A d \in Nodes : Chans[<<Wq, d>>] = wq[d]
  BY QueueFacts DEF Chans
<1> QED BY <1>3, <1>4, <1>5

\* Steps that touch no queue.
LEMMA ChansKept ==
  ASSUME UNCHANGED <<wq, req>>
  PROVE  Chans' = Chans
  BY DEF Chans

\* A message sent, on the family of queues.
LEMMA ChansSent ==
  ASSUME TypeOK, NEW s \in Nodes, NEW d \in Nodes, NEW p \in Proc,
         req' = [req EXCEPT ![s][d] = Append(@, p)], wq' = wq
  PROVE  Chans' = Put(Queues, Chans, <<s, d>>, p)
<1> DEFINE q2 == Put(Queues, Chans, <<s, d>>, p)
<1>1. ASSUME NEW e \in Queues PROVE Chans'[e] = q2[e]
  <2>1. PICK x \in Nodes \cup {Wq}, y \in Nodes : e = <<x, y>>
    BY DEF Queues
  <2>2. CASE x = Wq
    BY <2>1, <2>2, QueueFacts DEF Chans, Put
  <2>3. CASE x # Wq
    <3>1. Chans'[e] = req'[x][y] /\ Chans[e] = req[x][y] /\ x \in Nodes
      BY <2>1, <2>3 DEF Chans
    <3>2. e = <<s, d>> <=> x = s /\ y = d
      BY <2>1
    <3>3. req'[x][y] = IF x = s /\ y = d THEN Append(req[s][d], p) ELSE req[x][y]
      BY <3>1 DEF TypeOK
    <3> QED BY <3>1, <3>2, <3>3 DEF Put
  <2> QED BY <2>2, <2>3
<1>2. Chans' = [e \in Queues |-> Chans'[e]] /\ q2 = [e \in Queues |-> q2[e]]
  BY DEF Chans, Put
<1> QED BY <1>1, <1>2

\* A proc served, on the family of queues.
LEMMA ChansDone ==
  ASSUME TypeOK, NEW n \in Nodes, Done(n), req' = req
  PROVE  Chans' = Drop(Queues, Chans, <<Wq, n>>)
<1> DEFINE q2 == Drop(Queues, Chans, <<Wq, n>>)
<1>1. ASSUME NEW e \in Queues PROVE Chans'[e] = q2[e]
  <2>1. PICK x \in Nodes \cup {Wq}, y \in Nodes : e = <<x, y>>
    BY DEF Queues
  <2>2. e = <<Wq, n>> <=> x = Wq /\ y = n
    BY <2>1
  <2>3. wq'[y] = IF y = n THEN Tail(wq[n]) ELSE wq[y]
    BY DEF TypeOK, Done
  <2> QED BY <2>1, <2>2, <2>3 DEF Chans, Drop
<1>2. Chans' = [e \in Queues |-> Chans'[e]] /\ q2 = [e \in Queues |-> q2[e]]
  BY DEF Chans, Drop
<1> QED BY <1>1, <1>2

\* RecvRequest moves a head from a channel to a waitqueue.
LEMMA ChansMoved ==
  ASSUME TypeOK, NEW s \in Nodes, NEW n \in Nodes, RecvRequest(s, n)
  PROVE  Chans' = Put(Queues, Drop(Queues, Chans, <<s, n>>), <<Wq, n>>,
                      Head(Chans[<<s, n>>]))
<1> DEFINE p  == Head(Chans[<<s, n>>])
           q1 == Drop(Queues, Chans, <<s, n>>)
           q2 == Put(Queues, q1, <<Wq, n>>, p)
<1>0. p = Head(req[s][n])
  BY ChansType
<1>1. ASSUME NEW e \in Queues PROVE Chans'[e] = q2[e]
  <2>1. PICK x \in Nodes \cup {Wq}, y \in Nodes : e = <<x, y>>
    BY DEF Queues
  <2>2. (e = <<Wq, n>> <=> x = Wq /\ y = n) /\ (e = <<s, n>> <=> x = s /\ y = n)
    BY <2>1
  <2>3. wq'[y] = IF y = n THEN Append(wq[n], p) ELSE wq[y]
    BY <1>0 DEF TypeOK, RecvRequest
  <2>4. x # Wq => req'[x][y] = IF x = s /\ y = n THEN Tail(req[s][n]) ELSE req[x][y]
    BY DEF TypeOK, RecvRequest
  <2>5. Chans[e] = IF x = Wq THEN wq[y] ELSE req[x][y]
    BY <2>1 DEF Chans
  <2>6. Chans'[e] = IF x = Wq THEN wq'[y] ELSE req'[x][y]
    BY <2>1 DEF Chans
  <2>7. q1[e] = IF x = s /\ y = n THEN Tail(Chans[e]) ELSE Chans[e]
    BY <2>2 DEF Drop
  <2>8. q2[e] = IF x = Wq /\ y = n THEN Append(q1[e], p) ELSE q1[e]
    BY <2>2 DEF Put
  <2> HIDE DEF p, q1, q2
  <2> QED BY <2>3, <2>4, <2>5, <2>6, <2>7, <2>8, QueueFacts
<1>2. Chans' = [e \in Queues |-> Chans'[e]] /\ q2 = [e \in Queues |-> q2[e]]
  BY DEF Chans, Put
<1> QED BY <1>1, <1>2

\* Forward moves a head from a waitqueue to a channel.
LEMMA ChansForwarded ==
  ASSUME TypeOK, NEW n \in Nodes, NEW type, Forward(n, type)
  PROVE  Chans' = Put(Queues, Drop(Queues, Chans, <<Wq, n>>), <<n, owner>>,
                      Head(Chans[<<Wq, n>>]))
<1> DEFINE p  == Head(Chans[<<Wq, n>>])
           q1 == Drop(Queues, Chans, <<Wq, n>>)
           q2 == Put(Queues, q1, <<n, owner>>, p)
<1>0. p = Head(wq[n])
  BY ChansType
<1>1. ASSUME NEW e \in Queues PROVE Chans'[e] = q2[e]
  <2>1. PICK x \in Nodes \cup {Wq}, y \in Nodes : e = <<x, y>>
    BY DEF Queues
  <2>2. (e = <<Wq, n>> <=> x = Wq /\ y = n) /\ (e = <<n, owner>> <=> x = n /\ y = owner)
    BY <2>1
  <2>3. wq'[y] = IF y = n THEN Tail(wq[n]) ELSE wq[y]
    BY DEF TypeOK, Forward, Done
  <2>4. x # Wq => req'[x][y] = IF x = n /\ y = owner THEN Append(req[n][owner], p) ELSE req[x][y]
    BY <1>0 DEF TypeOK, Forward, Current
  <2>5. Chans[e] = IF x = Wq THEN wq[y] ELSE req[x][y]
    BY <2>1 DEF Chans
  <2>6. Chans'[e] = IF x = Wq THEN wq'[y] ELSE req'[x][y]
    BY <2>1 DEF Chans
  <2>7. q1[e] = IF x = Wq /\ y = n THEN Tail(Chans[e]) ELSE Chans[e]
    BY <2>2 DEF Drop
  <2>8. q2[e] = IF x = n /\ y = owner THEN Append(q1[e], p) ELSE q1[e]
    BY <2>2 DEF Put
  <2> HIDE DEF p, q1, q2
  <2> QED BY <2>3, <2>4, <2>5, <2>6, <2>7, <2>8, QueueFacts
<1>2. Chans' = [e \in Queues |-> Chans'[e]] /\ q2 = [e \in Queues |-> q2[e]]
  BY DEF Chans, Put
<1> QED BY <1>1, <1>2

\* Invalidations sent, on the family of queues.
LEMMA ChansInvalidated ==
  ASSUME TypeOK, NEW n \in Nodes, NEW c \in Cpus, NEW cs, Invalidate(n, c, cs), wq' = wq
  PROVE  Chans' = PutAll(Queues, Chans, {n} \X (cs \ {n}), [type |-> "inv", node |-> n, cpu |-> c])
<1> DEFINE p == [type |-> "inv", node |-> n, cpu |-> c]
           B == {n} \X (cs \ {n})
           q2 == PutAll(Queues, Chans, B, p)
<1>1. ASSUME NEW e \in Queues PROVE Chans'[e] = q2[e]
  <2>1. PICK x \in Nodes \cup {Wq}, y \in Nodes : e = <<x, y>>
    BY DEF Queues
  <2>2. e \in B <=> x = n /\ y \in cs \ {n}
    BY <2>1
  <2>4. x # Wq => req'[x][y] = IF x = n /\ y \in cs \ {n} THEN Append(req[x][y], p) ELSE req[x][y]
    BY DEF TypeOK, Invalidate
  <2>5. Chans[e] = IF x = Wq THEN wq[y] ELSE req[x][y]
    BY <2>1 DEF Chans
  <2>6. Chans'[e] = IF x = Wq THEN wq'[y] ELSE req'[x][y]
    BY <2>1 DEF Chans
  <2>8. q2[e] = IF x = n /\ y \in cs \ {n} THEN Append(Chans[e], p) ELSE Chans[e]
    BY <2>2 DEF PutAll
  <2> HIDE DEF p, q2
  <2> QED BY <2>4, <2>5, <2>6, <2>8, QueueFacts
<1>2. Chans' = [e \in Queues |-> Chans'[e]] /\ q2 = [e \in Queues |-> q2[e]]
  BY DEF Chans, PutAll
<1> QED BY <1>1, <1>2

\* Steps that touch no queue keep the pending requests.
LEMMA PendingKept ==
  ASSUME TypeOK, OneToken, UNCHANGED <<wq, req>>
  PROVE  OneToken' /\ Pending' = Pending
  BY ChansKept DEF OneToken, Pending, Queues, Unique, Asks

\* Receiving and forwarding keep the pending requests.
LEMMA PendingMoved ==
  ASSUME TypeOK, OneToken, NEW n \in Nodes,
         \/ \E s \in Nodes : RecvRequest(s, n)
         \/ \E type \in {"read", "write"} : Forward(n, type)
  PROVE  OneToken' /\ Pending' = Pending
<1> USE DEF OneToken, Pending
<1>1. ASSUME NEW a \in Queues, NEW b \in Queues, Chans[a] # <<>>,
             Chans' = Put(Queues, Drop(Queues, Chans, a), b, Head(Chans[a]))
      PROVE  OneToken' /\ Pending' = Pending
  <2>1. Chans \in [Queues -> Seq(Proc)]
    BY ChansType
  <2>2. LET q2 == Put(Queues, Drop(Queues, Chans, a), b, Head(Chans[a]))
        IN  Unique(Queues, q2) /\ Asks(Queues, q2) = Asks(Queues, Chans)
    BY <1>1, <2>1, MoveHead
  <2>3. Unique(Queues, Chans') /\ Asks(Queues, Chans') = Asks(Queues, Chans)
    BY <1>1, <2>2
  <2> QED BY <2>3 DEF Queues
<1>2. CASE \E s \in Nodes : RecvRequest(s, n)
  <2>1. PICK s \in Nodes : RecvRequest(s, n)
    BY <1>2
  <2>2. Chans[<<s, n>>] # <<>>
    BY <2>1, ChansType DEF RecvRequest
  <2> QED BY <1>1, <2>1, <2>2, QueueFacts, ChansMoved
<1>3. CASE \E type \in {"read", "write"} : Forward(n, type)
  <2>1. PICK type \in {"read", "write"} : Forward(n, type)
    BY <1>3
  <2>2. Chans[<<Wq, n>>] # <<>> /\ owner \in Nodes
    BY <2>1, ChansType DEF Forward, Serving, TypeOK
  <2> QED BY <1>1, <2>1, <2>2, QueueFacts, ChansForwarded
<1> QED BY <1>2, <1>3

\* Sending invalidations keeps the pending requests.
LEMMA PendingInvalidated ==
  ASSUME TypeOK, OneToken, NEW n \in Nodes, NEW c \in Cpus, NEW cs,
         Invalidate(n, c, cs), wq' = wq
  PROVE  OneToken' /\ Pending' = Pending
<1> DEFINE p == [type |-> "inv", node |-> n, cpu |-> c]
           q2 == PutAll(Queues, Chans, {n} \X (cs \ {n}), p)
<1>1. Chans' = q2
  BY ChansInvalidated
<1>2. p \in Proc /\ ~IsAsk(p)
  BY DEF Proc, IsAsk
<1>3. Chans \in [Queues -> Seq(Proc)]
  BY ChansType
<1>4. Unique(Queues, q2) /\ Asks(Queues, q2) = Asks(Queues, Chans)
  <2> HIDE DEF p
  <2> QED BY <1>2, <1>3, PutInvs DEF OneToken
<1> QED BY <1>1, <1>4 DEF OneToken, Pending, Queues

\* Serving a request ends it; serving an invalidation ends none.
LEMMA PendingDone ==
  ASSUME TypeOK, OneToken, NEW n \in Nodes, wq[n] # <<>>, Done(n), req' = req
  PROVE  /\ OneToken'
         /\ IsAsk(Current(n)) =>
              /\ Current(n) \in Pending
              /\ Pending' = {p \in Pending : p.node # Current(n).node}
              /\ \A p \in Pending : p.node = Current(n).node => p = Current(n)
         /\ ~IsAsk(Current(n)) => Pending' = Pending
<1> DEFINE a == <<Wq, n>>
<1>1. Chans \in [Queues -> Seq(Proc)] /\ a \in Queues
  BY ChansType, QueueFacts
<1>2. Chans[a] # <<>> /\ Head(Chans[a]) = Current(n)
  BY ChansType DEF Current
<1>3. Chans' = Drop(Queues, Chans, a)
  BY ChansDone
<1> HIDE DEF a
<1>4. Unique(Queues, Chans) 
  BY DEF OneToken
<1>5.    /\ Unique(Queues, Drop(Queues, Chans, a))
         /\ IsAsk(Head(Chans[a])) => Asks(Queues, Drop(Queues, Chans, a)) = {p \in Asks(Queues,
              Chans) : p.node # Head(Chans[a]).node}
         /\ ~IsAsk(Head(Chans[a])) => Asks(Queues, Drop(Queues, Chans, a)) = Asks(Queues, Chans)
         /\ IsAsk(Head(Chans[a])) => Head(Chans[a]) \in Asks(Queues, Chans)
  BY <1>1, <1>2, <1>4, DropHead
<1>6. OneToken'
  BY <1>3, <1>5 DEF OneToken, Queues
<1>7. IsAsk(Current(n)) => Current(n) \in Pending /\
        Pending' = {p \in Pending : p.node # Current(n).node}
  BY <1>2, <1>3, <1>5 DEF Pending, Queues
<1>8. IsAsk(Current(n)) => \A p \in Pending : p.node = Current(n).node => p = Current(n)
  BY <1>1, <1>2, <1>4, HeadAlone DEF Pending
<1>9. ~IsAsk(Current(n)) => Pending' = Pending
  BY <1>2, <1>3, <1>5 DEF Pending, Queues
<1> QED BY <1>6, <1>7, <1>8, <1>9

\* Sending a request adds it.
LEMMA PendingSent ==
  ASSUME TypeOK, OneToken, NEW n \in Nodes, NEW c \in Cpus, NEW type \in {"read", "write"},
         SendFetchReq(n, c, type), wq' = wq,
         \A p \in Pending : p.node # n
  PROVE  /\ OneToken'
         /\ \A r : r \in Pending' <=> r \in Pending \/ r = [type |-> type, node |-> n, cpu |-> c]
<1> DEFINE p == [type |-> type, node |-> n, cpu |-> c]
           b == <<n, FetchTarget(n)>>
<1>1. p \in Proc /\ IsAsk(p) /\ p.node = n
  BY DEF Proc, IsAsk
<1>2. FetchTarget(n) \in Nodes /\ b \in Queues
  BY FetchTargetType, QueueFacts
<1>3. req' = [req EXCEPT ![n][FetchTarget(n)] = Append(@, p)]
  BY DEF SendFetchReq
<1>4. Chans' = Put(Queues, Chans, b, p)
  <2> HIDE DEF p
  <2> QED BY <1>1, <1>2, <1>3, ChansSent
<1>5. Chans \in [Queues -> Seq(Proc)] /\ Unique(Queues, Chans)
  BY ChansType DEF OneToken
<1>6. \A r \in Asks(Queues, Chans) : r.node # p.node
  BY <1>1 DEF Pending
<1>7. /\ Unique(Queues, Put(Queues, Chans, b, p))
      /\ \A r : r \in Asks(Queues, Put(Queues, Chans, b, p)) <=> r \in Asks(Queues, Chans) \/ r = p
  <2> HIDE DEF p, b
  <2> QED BY <1>1, <1>2, <1>5, <1>6, PutAsk
<1> QED BY <1>4, <1>7 DEF OneToken, Pending, Queues

-----------------------------------------------------------------------------
(* Layer 1: waiting cpus, requests and replies.                            *)

\* The fields of a pending request.
LEMMA PendingType ==
  \A p \in Pending :
    /\ p \in Proc /\ p.type \in {"read", "write"}
    /\ p.node \in Nodes /\ p.cpu \in Cpus
  BY DEF Pending, Asks, IsAsk, Proc

\* While the holder of the lock serves, no cpu of the node waits.
LEMMA DrainingIdle ==
  ASSUME TypeOK, WaitOK, ReplyOK, NEW n \in Nodes, Draining(n), NEW c \in Cpus
  PROVE  ~Waits(n, c) /\ reply[n][c] = <<>>
  BY VsmAssumption DEF WaitOK, ReplyOK, Draining, Waits

\* A requester waits with the lock held and the page unmapped.
LEMMA PendingWaits ==
  ASSUME TypeOK, WaitOK, AskOK, NEW p \in Pending
  PROVE  Waits(p.node, p.cpu) /\ lock[p.node] = p.cpu /\ ~pte[p.node].af /\ ~Draining(p.node)
  BY PendingType, VsmAssumption DEF WaitOK, AskOK, Draining, Waits, WaitFor

\* An assignment to the access flag, field by field.
LEMMA AfAt ==
  ASSUME TypeOK, NEW n \in Nodes, NEW f \in BOOLEAN, pte' = [pte EXCEPT ![n].af = f]
  PROVE  /\ pte'[n].af <=> f
         /\ pte'[n].ap = pte[n].ap /\ pte'[n].cs = pte[n].cs /\ pte'[n].ver = pte[n].ver
         /\ \A m \in Nodes : m # n => pte'[m] = pte[m]
<1>1. pte \in [Nodes -> Pte] /\ pte[n] \in Pte
  BY EntryType
<1>2. pte'[n] = [pte[n] EXCEPT !.af = f] /\ \A m \in Nodes : m # n => pte'[m] = pte[m]
  BY <1>1
<1>3. pte'[n].af = f /\ pte'[n].ap = pte[n].ap /\ pte'[n].cs = pte[n].cs /\ pte'[n].ver = pte[n].ver
  BY <1>1, <1>2 DEF Pte
<1> QED BY <1>2, <1>3

\* An assignment to the version, field by field.
LEMMA VerAt ==
  ASSUME TypeOK, NEW n \in Nodes, NEW v, pte' = [pte EXCEPT ![n].ver = v]
  PROVE  /\ pte'[n].af <=> pte[n].af
         /\ pte'[n].ap = pte[n].ap /\ pte'[n].cs = pte[n].cs /\ pte'[n].ver = v
         /\ \A m \in Nodes : m # n => pte'[m] = pte[m]
<1>1. pte \in [Nodes -> Pte] /\ pte[n] \in Pte
  BY EntryType
<1>2. pte'[n] = [pte[n] EXCEPT !.ver = v] /\ \A m \in Nodes : m # n => pte'[m] = pte[m]
  BY <1>1
<1>3. pte'[n].af = pte[n].af /\ pte'[n].ap = pte[n].ap /\ pte'[n].cs = pte[n].cs /\ pte'[n].ver = v
  BY <1>1, <1>2 DEF Pte
<1> QED BY <1>2, <1>3

\* What ReadServer does to the entry.
LEMMA ReadServerAt ==
  ASSUME TypeOK, NEW n \in Nodes, ReadServer(n)
  PROVE  /\ pte'[n].af <=> pte[n].af
         /\ pte'[n].ap = "ro" /\ pte'[n].cs = pte[n].cs \cup CopysetBit(Current(n).node)
         /\ pte'[n].ver = pte[n].ver
         /\ \A m \in Nodes : m # n => pte'[m] = pte[m]
<1> DEFINE cs == pte[n].cs \cup CopysetBit(Current(n).node)
<1>1. pte \in [Nodes -> Pte] /\ pte[n] \in Pte
  BY EntryType
<1>2. /\ pte'[n] = [pte[n] EXCEPT !.ap = "ro", !.cs = cs]
      /\ \A m \in Nodes : m # n => pte'[m] = pte[m]
  BY <1>1 DEF ReadServer
<1> HIDE DEF cs
<1>3. pte'[n].af = pte[n].af /\ pte'[n].ap = "ro" /\ pte'[n].cs = cs /\ pte'[n].ver = pte[n].ver
  BY <1>1, <1>2 DEF Pte
<1> QED BY <1>2, <1>3 DEF cs

\* What WriteUpgrade does to the entry.
LEMMA WriteUpgradeAt ==
  ASSUME TypeOK, NEW n \in Nodes, NEW c \in Cpus, WriteUpgrade(n, c)
  PROVE  /\ pte'[n].af <=> pte[n].af
         /\ pte'[n].ap = "rw" /\ pte'[n].cs = {} /\ pte'[n].ver = pte[n].ver
         /\ \A m \in Nodes : m # n => pte'[m] = pte[m]
<1>1. pte \in [Nodes -> Pte] /\ pte[n] \in Pte
  BY EntryType
<1>2. /\ pte'[n] = [pte[n] EXCEPT !.cs = {}, !.ap = "rw"]
      /\ \A m \in Nodes : m # n => pte'[m] = pte[m]
  BY <1>1 DEF WriteUpgrade
<1>3. pte'[n].af = pte[n].af /\ pte'[n].ap = "rw" /\ pte'[n].cs = {} /\ pte'[n].ver = pte[n].ver
  BY <1>1, <1>2 DEF Pte
<1> QED BY <1>2, <1>3

\* What Goto does, cpu by cpu.
LEMMA GotoAt ==
  ASSUME TypeOK, NEW n \in Nodes, NEW c \in Cpus, NEW l, Goto(n, c, l)
  PROVE  pc'[n][c] = l /\ \A m \in Nodes, x \in Cpus : (m # n \/ x # c) => pc'[m][x] = pc[m][x]
<1>1. pc \in [Nodes -> [Cpus -> CpuState]]
  BY DEF TypeOK
<1> QED BY <1>1 DEF Goto

\* What PageSpinlock does, node by node.
LEMMA SpinlockAt ==
  ASSUME TypeOK, NEW n \in Nodes, NEW c \in Cpus, PageSpinlock(n, c)
  PROVE  /\ pc[n][c] = "guest" /\ lock[n] = Free
         /\ lock'[n] = c /\ \A m \in Nodes : m # n => lock'[m] = lock[m]
<1>1. lock \in [Nodes -> Cpus \cup {Free, Rx}]
  BY DEF TypeOK
<1> QED BY <1>1 DEF PageSpinlock

\* Taking the reply leaves none.
LEMMA TakeReplyAt ==
  ASSUME TypeOK, ReplyOK, NEW n \in Nodes, NEW c \in Cpus, TakeReply(n, c)
  PROVE  /\ reply[n][c] # <<>> /\ ~pte[n].af
         /\ reply'[n][c] = <<>>
         /\ \A m \in Nodes, x \in Cpus : (m # n \/ x # c) => reply'[m][x] = reply[m][x]
<1>1. reply \in [Nodes -> [Cpus -> Seq(Reply)]]
  BY DEF TypeOK
<1>2. reply[n][c] \in Seq(Reply) /\ reply[n][c] # <<>> /\ Len(reply[n][c]) = 1
  BY <1>1 DEF TakeReply, ReplyOK
<1>3. Tail(reply[n][c]) = <<>>
  <2>1. Tail(reply[n][c]) \in Seq(Reply) /\ Len(Tail(reply[n][c])) = 0
    BY <1>2
  <2> QED BY <2>1, EmptySeq
<1> QED BY <1>1, <1>2, <1>3 DEF TakeReply

\* Where a reply goes.
LEMMA SendReplyAt ==
  ASSUME TypeOK, NEW n \in Nodes, NEW r \in Reply, SendReply(n, r),
         Current(n).node \in Nodes, Current(n).cpu \in Cpus,
         reply[Current(n).node][Current(n).cpu] = <<>>
  PROVE  /\ reply'[Current(n).node][Current(n).cpu] = <<r>>
         /\ \A m \in Nodes, x \in Cpus : (m # Current(n).node \/ x # Current(n).cpu)
              => reply'[m][x] = reply[m][x]
<1>1. reply \in [Nodes -> [Cpus -> Seq(Reply)]]
  BY DEF TypeOK
<1>2. Append(<<>>, r) = <<r>>
  OBVIOUS
<1> QED BY <1>1, <1>2 DEF SendReply

\* What Done does, node by node.
LEMMA DoneAt ==
  ASSUME TypeOK, NEW n \in Nodes, Done(n)
  PROVE  wq'[n] = Tail(wq[n]) /\ \A m \in Nodes : m # n => wq'[m] = wq[m]
  BY DEF TypeOK, Done

\* What RecvRequest does, node by node; the head being served stays.
LEMMA RecvAt ==
  ASSUME TypeOK, NEW s \in Nodes, NEW n \in Nodes, RecvRequest(s, n)
  PROVE  /\ lock'[n] = IF lock[n] = Free THEN Rx ELSE lock[n]
         /\ \A m \in Nodes : m # n => lock'[m] = lock[m] /\ wq'[m] = wq[m]
         /\ wq'[n] = Append(wq[n], Head(req[s][n]))
         /\ \A m \in Nodes : wq[m] # <<>> => wq'[m] # <<>> /\ Head(wq'[m]) = Head(wq[m])
         /\ UNCHANGED <<pte, owner, copying, pc, reply, latest>>
<1>1. lock \in [Nodes -> Cpus \cup {Free, Rx}] /\ wq \in [Nodes -> Seq(Proc)] /\
        req[s][n] \in Seq(Proc)
  BY DEF TypeOK
<1>2. /\ lock'[n] = IF lock[n] = Free THEN Rx ELSE lock[n]
      /\ \A m \in Nodes : m # n => lock'[m] = lock[m] /\ wq'[m] = wq[m]
      /\ wq'[n] = Append(wq[n], Head(req[s][n])) /\ req[s][n] # <<>>
      /\ UNCHANGED <<pte, owner, copying, pc, reply, latest>>
  BY <1>1 DEF RecvRequest
<1>3. wq[n] \in Seq(Proc) /\ Head(req[s][n]) \in Proc
  BY <1>1, <1>2
<1>4. wq[n] # <<>> => LET w == Append(wq[n], Head(req[s][n])) IN w # <<>> /\ Head(w) = Head(wq[n])
  BY <1>3
<1> QED BY <1>2, <1>4

\* What either reply carries.
LEMMA ReplySent ==
  ASSUME TypeOK, NEW n \in Nodes, SendReadReply(n) \/ SendWriteReply(n)
  PROVE  \E r \in Reply :
           /\ SendReply(n, r)
           /\ r.wnr <=> Current(n).type = "write"
           /\ r.ver = pte[n].ver
           /\ r.cs = IF Current(n).type = "write" THEN pte[n].cs ELSE {}
<1> DEFINE rd == [wnr |-> FALSE, cs |-> {}, ver |-> pte[n].ver]
           wr == [wnr |-> TRUE, cs |-> pte[n].cs, ver |-> pte[n].ver]
<1>1. pte[n].ver \in Nat /\ pte[n].cs \in Copysets /\ {} \in Copysets
  BY EntryType DEF Pte, Copysets
<1>2. rd \in Reply /\ wr \in Reply
  BY <1>1 DEF Reply
<1>3. CASE SendReadReply(n)
  <2>1. SendReply(n, rd) /\ Current(n).type = "read"
    BY <1>3 DEF SendReadReply, Serving
  <2> QED BY <1>2, <2>1
<1>4. CASE SendWriteReply(n)
  <2>1. SendReply(n, wr) /\ Current(n).type = "write"
    BY <1>4 DEF SendWriteReply, Serving
  <2> QED BY <1>2, <2>1
<1> QED BY <1>3, <1>4

\* What InvalidateServer does to the entry.
LEMMA InvalidatedAt ==
  ASSUME TypeOK, NEW n \in Nodes, InvalidateServer(n)
  PROVE  /\ pte'[n].af <=> pte[n].af /\ IsOwner(n)
         /\ pte'[n].ap = pte[n].ap /\ pte'[n].cs = pte[n].cs /\ pte'[n].ver = pte[n].ver
         /\ \A m \in Nodes : m # n => pte'[m] = pte[m]
<1> DEFINE f == pte[n].af /\ IsOwner(n)
<1>1. f \in BOOLEAN
  OBVIOUS
<1>2. pte' = [pte EXCEPT ![n].af = f]
  BY DEF InvalidateServer
<1> HIDE DEF f
<1>3. /\ pte'[n].af <=> f
      /\ pte'[n].ap = pte[n].ap /\ pte'[n].cs = pte[n].cs /\ pte'[n].ver = pte[n].ver
      /\ \A m \in Nodes : m # n => pte'[m] = pte[m]
  BY <1>1, <1>2, AfAt
<1> QED BY <1>3 DEF f

\* What WriteFetch does to the entry: the page is unmapped.
LEMMA WriteFetchAt ==
  ASSUME TypeOK, MappedOK, NEW n \in Nodes, NEW c \in Cpus, WriteFetch(n, c)
  PROVE  /\ ~pte'[n].af
         /\ pte'[n].ap = pte[n].ap /\ pte'[n].cs = pte[n].cs /\ pte'[n].ver = pte[n].ver
         /\ \A m \in Nodes : m # n => pte'[m] = pte[m]
<1>1. ~(pte[n].af /\ ~ReadOnly(n))
  BY EntryType DEF WriteFetch, IsOwner, ReadOnly, Writable, MappedOK, Pte
<1>2. pte' = [pte EXCEPT ![n].af = FALSE]
  BY <1>1 DEF WriteFetch
<1> QED BY <1>2, AfAt

\* Layer 1 is inductive.
LEMMA TokenStep ==
  ASSUME TypeOK, TokenInv, [Next]_vars
  PROVE  TokenInv'
<1>0. MappedOK /\ WaitOK /\ AskOK /\ ReplyOK /\ CopyOK /\ OneToken
  BY DEF TokenInv
<1>1. ASSUME NEW n \in Nodes, NEW c \in Cpus, GuestStore(n, c) PROVE TokenInv'
  <2>1. OneToken' /\ Pending' = Pending
    BY <1>0, <1>1, PendingKept DEF GuestStore
  <2>2. UNCHANGED <<owner, lock, wq, copying, pc, req, reply>>
    BY <1>1 DEF GuestStore
  <2>3. \A m \in Nodes : (pte'[m].af <=> pte[m].af) /\ pte'[m].ap = pte[m].ap /\
          pte'[m].cs = pte[m].cs
    BY <1>1, VerAt DEF GuestStore
  <2>4. MappedOK'
    BY <1>0, <2>3 DEF MappedOK
  <2>5. WaitOK'
    BY <1>0, <2>2, <2>3 DEF WaitOK, Waits
  <2>6. AskOK' /\ ReplyOK'
    BY <1>0, <2>1, <2>2 DEF AskOK, ReplyOK
  <2>7. CopyOK'
    BY <1>0, <2>2, <2>3 DEF CopyOK, Draining, Current
  <2> QED BY <2>1, <2>4, <2>5, <2>6, <2>7 DEF TokenInv
\* a cpu of n that takes the lock and goes to drain
<1>2. ASSUME NEW n \in Nodes, NEW c \in Cpus, PageSpinlock(n, c), Goto(n, c, "drain"),
             UNCHANGED <<wq, copying, reply>>, OneToken', Pending' = Pending,
             pte'[n].af <=> pte[n].af, pte'[n].ap \in {pte[n].ap, "rw"},
             \A m \in Nodes : m # n => pte'[m] = pte[m]
      PROVE  TokenInv'
  <2>1. /\ pc[n][c] = "guest" /\ lock[n] = Free
        /\ lock'[n] = c /\ \A m \in Nodes : m # n => lock'[m] = lock[m]
    BY <1>2, SpinlockAt
  <2>2. /\ pc'[n][c] = "drain"
        /\ \A m \in Nodes, x \in Cpus : (m # n \/ x # c) => pc'[m][x] = pc[m][x]
    BY <1>2, GotoAt
  <2>3. \A x \in Cpus : ~Waits(n, x) /\ reply[n][x] = <<>>
    BY <1>0, <2>1, VsmAssumption DEF WaitOK, ReplyOK, Waits
  <2>4. MappedOK'
    BY <1>0, <1>2 DEF MappedOK
  <2>5. WaitOK'
    BY <1>0, <1>2, <2>1, <2>2, <2>3 DEF WaitOK, Waits
  <2>6. \A p \in Pending : p.node # n
    BY <1>0, <2>3, PendingWaits, PendingType
  <2>7. AskOK'
    BY <1>0, <1>2, <2>2, <2>6, PendingType DEF AskOK
  <2>8. ReplyOK'
    BY <1>0, <1>2, <2>2, <2>3 DEF ReplyOK
  <2>9. ~copying[n]
    BY <1>0, <2>1, VsmAssumption DEF CopyOK, Draining, Free, Rx
  <2>10. CopyOK'
    BY <1>0, <1>2, <2>1, <2>2, <2>9, VsmAssumption
       DEF CopyOK, Draining, Current, Free, Rx
  <2> QED BY <1>2, <2>4, <2>5, <2>7, <2>8, <2>10 DEF TokenInv
<1>3. ASSUME NEW n \in Nodes, NEW c \in Cpus, FaultHit(n, c) PROVE TokenInv'
  <2>1. OneToken' /\ Pending' = Pending
    BY <1>0, <1>3, PendingKept DEF FaultHit
  <2>2. UNCHANGED <<pte, wq, copying, reply>> /\ PageSpinlock(n, c) /\ Goto(n, c, "drain")
    BY <1>3 DEF FaultHit
  <2> QED BY <1>2, <2>1, <2>2
<1>4. ASSUME NEW n \in Nodes, NEW c \in Cpus, WriteUpgrade(n, c) PROVE TokenInv'
  <2>1. OneToken' /\ Pending' = Pending
    BY <1>0, <1>4, PendingInvalidated DEF WriteUpgrade
  <2>2. UNCHANGED <<wq, copying, reply>> /\ PageSpinlock(n, c) /\ Goto(n, c, "drain")
    BY <1>4 DEF WriteUpgrade
  <2>3. /\ pte'[n].af <=> pte[n].af
        /\ pte'[n].ap = "rw" /\ \A m \in Nodes : m # n => pte'[m] = pte[m]
    BY <1>4, WriteUpgradeAt
  <2> QED BY <1>2, <2>1, <2>2, <2>3
\* a cpu of n that takes the lock and sends its request
<1>5. ASSUME NEW n \in Nodes, NEW c \in Cpus, NEW type \in {"read", "write"},
             PageSpinlock(n, c), SendFetchReq(n, c, type), Goto(n, c, WaitFor(type)),
             UNCHANGED <<wq, copying, reply>>,
             ~pte'[n].af, \A m \in Nodes : m # n => pte'[m] = pte[m]
      PROVE  TokenInv'
  <2>1. /\ pc[n][c] = "guest" /\ lock[n] = Free
        /\ lock'[n] = c /\ \A m \in Nodes : m # n => lock'[m] = lock[m]
    BY <1>5, SpinlockAt
  <2>2. /\ pc'[n][c] = WaitFor(type)
        /\ \A m \in Nodes, x \in Cpus : (m # n \/ x # c) => pc'[m][x] = pc[m][x]
    BY <1>5, GotoAt
  <2>3. \A x \in Cpus : ~Waits(n, x) /\ reply[n][x] = <<>>
    BY <1>0, <2>1, VsmAssumption DEF WaitOK, ReplyOK, Waits
  <2>4. \A p \in Pending : p.node # n
    BY <1>0, <2>3, PendingWaits, PendingType
  <2>5. /\ OneToken'
        /\ \A r : r \in Pending' <=> r \in Pending \/ r = [type |-> type, node |-> n, cpu |-> c]
    BY <1>0, <1>5, <2>4, PendingSent
  <2>6. MappedOK'
    BY <1>0, <1>5 DEF MappedOK
  <2>7. WaitOK'
    BY <1>0, <1>5, <2>1, <2>2, <2>3 DEF WaitOK, Waits
  <2>8. ReplyOK'
    BY <1>0, <1>5, <2>2, <2>3 DEF ReplyOK
  <2>9. AskOK'
    <3> SUFFICES ASSUME NEW p \in Pending'
                 PROVE  pc'[p.node][p.cpu] = WaitFor(p.type) /\ reply'[p.node][p.cpu] = <<>>
      BY DEF AskOK, WaitFor
    <3>1. CASE p \in Pending
      BY <1>0, <3>1, <1>5, <2>2, <2>4, PendingType DEF AskOK
    <3>2. CASE p = [type |-> type, node |-> n, cpu |-> c]
      BY <3>2, <1>5, <2>2, <2>3
    <3> QED BY <2>5, <3>1, <3>2
  <2>10. ~copying[n]
    BY <1>0, <2>1, VsmAssumption DEF CopyOK, Draining, Free, Rx
  <2>11. CopyOK'
    BY <1>0, <1>5, <2>1, <2>2, <2>10, VsmAssumption
       DEF CopyOK, Draining, Current, Free, Rx
  <2> QED BY <2>5, <2>6, <2>7, <2>8, <2>9, <2>11 DEF TokenInv
<1>6. ASSUME NEW n \in Nodes, NEW c \in Cpus, ReadFetch(n, c) PROVE TokenInv'
  <2>1. ~pte[n].af
    BY <1>0, <1>6, EntryType DEF ReadFetch, Readable, MappedOK, Pte
  <2> QED BY <1>5, <1>6, <2>1 DEF ReadFetch, WaitFor
<1>7. ASSUME NEW n \in Nodes, NEW c \in Cpus, WriteFetch(n, c) PROVE TokenInv'
  <2>1. ~pte'[n].af /\ \A m \in Nodes : m # n => pte'[m] = pte[m]
    BY <1>0, <1>7, WriteFetchAt
  <2> QED BY <1>5, <1>7, <2>1 DEF WriteFetch, WaitFor
<1>8. ASSUME NEW n \in Nodes, NEW c \in Cpus, ReadFetched(n, c) \/ WriteFetched(n, c)
      PROVE TokenInv'
  <2>1. OneToken' /\ Pending' = Pending
    BY <1>0, <1>8, PendingKept, PendingInvalidated DEF ReadFetched, WriteFetched
  <2>2. Waits(n, c) /\ TakeReply(n, c) /\ Goto(n, c, "drain") /\ UNCHANGED <<lock, wq, copying>>
    BY <1>8 DEF ReadFetched, WriteFetched, Waits
  <2>3. /\ reply[n][c] # <<>> /\ ~pte[n].af
        /\ reply'[n][c] = <<>>
        /\ \A m \in Nodes, x \in Cpus : (m # n \/ x # c) => reply'[m][x] = reply[m][x]
    BY <1>0, <2>2, TakeReplyAt
  <2>4. lock[n] = c /\ \A x \in Cpus : Waits(n, x) => x = c
    BY <1>0, <2>2 DEF WaitOK
  <2>5. /\ pc'[n][c] = "drain"
        /\ \A m \in Nodes, x \in Cpus : (m # n \/ x # c) => pc'[m][x] = pc[m][x]
    BY <2>2, GotoAt
  <2>6. pte'[n].ap # "none" /\ \A m \in Nodes : m # n => pte'[m] = pte[m]
    BY <1>8, EntryType DEF ReadFetched, WriteFetched
  <2>7. ~copying[n]
    BY <1>0, <2>2, DrainingIdle DEF CopyOK
  <2>8. MappedOK'
    BY <1>0, <2>6 DEF MappedOK
  <2>9. ReplyOK'
    BY <1>0, <2>3, <2>5 DEF ReplyOK
  <2>10. WaitOK'
    BY <1>0, <2>2, <2>4, <2>5, <2>6 DEF WaitOK, Waits
  <2>11. \A p \in Pending : p.node # n \/ p.cpu # c
    BY <1>0, <2>3, PendingType DEF AskOK
  <2>12. AskOK'
    BY <1>0, <2>1, <2>3, <2>5, <2>11, PendingType DEF AskOK
  <2>13. CopyOK'
    BY <1>0, <2>2, <2>5, <2>6, <2>7 DEF CopyOK, Draining, Current
  <2> QED BY <2>1, <2>8, <2>9, <2>10, <2>12, <2>13 DEF TokenInv
<1>9. ASSUME NEW s \in Nodes, NEW n \in Nodes, RecvRequest(s, n) PROVE TokenInv'
  <2>1. OneToken' /\ Pending' = Pending
    BY <1>0, <1>9, PendingMoved
  <2>2. /\ lock'[n] = IF lock[n] = Free THEN Rx ELSE lock[n]
        /\ \A m \in Nodes : m # n => lock'[m] = lock[m] /\ wq'[m] = wq[m]
        /\ \A m \in Nodes : wq[m] # <<>> => wq'[m] # <<>> /\ Head(wq'[m]) = Head(wq[m])
        /\ UNCHANGED <<pte, owner, copying, pc, reply, latest>>
    BY <1>9, RecvAt
  <2>3. MappedOK' /\ ReplyOK' /\ AskOK'
    BY <1>0, <2>1, <2>2 DEF MappedOK, ReplyOK, AskOK
  <2>4. WaitOK'
    BY <1>0, <2>2, VsmAssumption DEF WaitOK, Waits
  <2>5. \A m \in Nodes : Draining(m) => Draining(m)'
    BY <2>2, VsmAssumption DEF Draining, Free, Rx
  <2>6. CopyOK'
    BY <1>0, <2>2, <2>5 DEF CopyOK, Current
  <2> QED BY <2>1, <2>3, <2>4, <2>6 DEF TokenInv
<1>10. ASSUME NEW n \in Nodes, ReadServer(n) PROVE TokenInv'
  <2>1. OneToken' /\ Pending' = Pending
    BY <1>0, <1>10, PendingKept DEF ReadServer
  <2>3. /\ pte'[n].af <=> pte[n].af
        /\ pte'[n].ap = "ro" /\ pte'[n].cs = pte[n].cs \cup CopysetBit(Current(n).node)
        /\ \A m \in Nodes : m # n => pte'[m] = pte[m]
    BY <1>10, ReadServerAt
  <2>4. pte[n].af /\ Draining(n) /\ wq[n] # <<>> /\ Current(n).type = "read"
    BY <1>10 DEF ReadServer, Serving, IsOwner, Writable, ReadOnly
  <2>5. UNCHANGED <<owner, lock, wq, pc, req, reply>> /\ \A m \in Nodes : m # n
          => copying'[m] = copying[m]
    BY <1>10 DEF ReadServer, TypeOK
  <2>6. MappedOK'
    BY <1>0, <2>3 DEF MappedOK
  <2>7. WaitOK'
    BY <1>0, <2>3, <2>5 DEF WaitOK, Waits
  <2>8. AskOK' /\ ReplyOK'
    BY <1>0, <2>1, <2>5 DEF AskOK, ReplyOK
  <2>9. CopyOK'
    BY <1>0, <2>3, <2>4, <2>5 DEF CopyOK, Draining, Current
  <2> QED BY <2>1, <2>6, <2>7, <2>8, <2>9 DEF TokenInv
<1>11. ASSUME NEW n \in Nodes, WriteServer(n) PROVE TokenInv'
  <2>1. OneToken' /\ Pending' = Pending
    BY <1>0, <1>11, PendingKept DEF WriteServer
  <2>2. ~pte'[n].af /\ \A m \in Nodes : m # n => pte'[m] = pte[m]
    BY <1>11, AfAt DEF WriteServer
  <2>3. Draining(n) /\ wq[n] # <<>> /\ Current(n).type = "write"
    BY <1>11 DEF WriteServer, Serving
  <2>4. UNCHANGED <<owner, lock, wq, pc, req, reply>> /\ \A m \in Nodes : m # n
          => copying'[m] = copying[m]
    BY <1>11 DEF WriteServer, TypeOK
  <2>5. MappedOK'
    BY <1>0, <2>2 DEF MappedOK
  <2>6. WaitOK'
    BY <1>0, <2>2, <2>4 DEF WaitOK, Waits
  <2>7. AskOK' /\ ReplyOK'
    BY <1>0, <2>1, <2>4 DEF AskOK, ReplyOK
  <2>8. CopyOK'
    BY <1>0, <2>2, <2>3, <2>4 DEF CopyOK, Draining, Current
  <2> QED BY <2>1, <2>5, <2>6, <2>7, <2>8 DEF TokenInv
<1>12. ASSUME NEW n \in Nodes, SendReadReply(n) \/ SendWriteReply(n) PROVE TokenInv'
  <2>1. /\ wq[n] # <<>> /\ Done(n) /\ Current(n).type \in {"read", "write"}
        /\ UNCHANGED <<pte, lock, pc, req>>
        /\ copying' = [copying EXCEPT ![n] = FALSE]
    BY <1>12 DEF SendReadReply, SendWriteReply, Serving
  <2>2. PICK r \in Reply : SendReply(n, r) /\ (r.wnr <=> Current(n).type = "write")
    BY <1>12, ReplySent
  <2>3. /\ OneToken' /\ Current(n) \in Pending
        /\ Pending' = {q \in Pending : q.node # Current(n).node}
    BY <1>0, <2>1, PendingDone DEF IsAsk
  <2>4. Current(n).node \in Nodes /\ Current(n).cpu \in Cpus
    BY <2>3, PendingType
  <2>5. /\ reply[Current(n).node][Current(n).cpu] = <<>>
        /\ pc[Current(n).node][Current(n).cpu] = WaitFor(Current(n).type)
    BY <1>0, <2>3 DEF AskOK
  <2>6. /\ reply'[Current(n).node][Current(n).cpu] = <<r>>
        /\ \A m \in Nodes, x \in Cpus : (m # Current(n).node \/ x # Current(n).cpu)
             => reply'[m][x] = reply[m][x]
    BY <2>2, <2>4, <2>5, SendReplyAt
  <2>7. ~copying'[n] /\ \A m \in Nodes : m # n => wq'[m] = wq[m] /\ copying'[m] = copying[m]
    BY <2>1, DoneAt DEF TypeOK
  <2>8. MappedOK' /\ WaitOK'
    BY <1>0, <2>1 DEF MappedOK, WaitOK, Waits
  <2>9. AskOK'
    BY <1>0, <2>1, <2>3, <2>6, PendingType DEF AskOK
  <2>10. ReplyOK'
    <3>1. Len(<<r>>) = 1 /\ Head(<<r>>) = r
      OBVIOUS
    <3> SUFFICES ASSUME NEW m \in Nodes, NEW x \in Cpus, reply'[m][x] # <<>>
                 PROVE  /\ Len(reply'[m][x]) = 1
                        /\ pc'[m][x] = IF Head(reply'[m][x]).wnr THEN "writewait" ELSE "readwait"
      BY DEF ReplyOK
    <3>2. CASE m = Current(n).node /\ x = Current(n).cpu
      BY <2>1, <2>2, <2>5, <2>6, <3>1, <3>2 DEF WaitFor
    <3>3. CASE m # Current(n).node \/ x # Current(n).cpu
      BY <1>0, <2>1, <2>6, <3>3 DEF ReplyOK
    <3> QED BY <3>2, <3>3
  <2>11. CopyOK'
    BY <1>0, <2>1, <2>7 DEF CopyOK, Draining, Current
  <2> QED BY <2>3, <2>8, <2>9, <2>10, <2>11 DEF TokenInv
<1>13. ASSUME NEW n \in Nodes, ForwardRead(n) \/ ForwardWrite(n) PROVE TokenInv'
  <2>1. PICK type \in {"read", "write"} : Forward(n, type)
    BY <1>13 DEF ForwardRead, ForwardWrite
  <2>2. OneToken' /\ Pending' = Pending
    BY <1>0, <2>1, PendingMoved
  <2>3. UNCHANGED <<pte, lock, copying, pc, reply, latest>> /\ Done(n) /\ ~copying[n]
    BY <2>1 DEF Forward
  <2>4. \A m \in Nodes : m # n => wq'[m] = wq[m]
    BY <2>3, DoneAt
  <2>5. MappedOK' /\ WaitOK'
    BY <1>0, <2>3 DEF MappedOK, WaitOK, Waits
  <2>6. AskOK' /\ ReplyOK'
    BY <1>0, <2>2, <2>3 DEF AskOK, ReplyOK
  <2>7. CopyOK'
    BY <1>0, <2>3, <2>4 DEF CopyOK, Draining, Current
  <2> QED BY <2>2, <2>5, <2>6, <2>7 DEF TokenInv
<1>14. ASSUME NEW n \in Nodes, InvalidateServer(n) PROVE TokenInv'
  <2>1. /\ wq[n] # <<>> /\ Current(n).type = "inv" /\ Done(n)
        /\ UNCHANGED <<owner, lock, copying, pc, req, reply, latest>>
    BY <1>14 DEF InvalidateServer, Serving
  <2>2. OneToken' /\ Pending' = Pending
    BY <1>0, <2>1, PendingDone DEF IsAsk
  <2>3. /\ pte'[n].af => pte[n].af
        /\ pte'[n].ap = pte[n].ap
        /\ \A m \in Nodes : m # n => pte'[m] = pte[m]
    BY <1>14, InvalidatedAt
  <2>4. ~copying[n] /\ \A m \in Nodes : m # n => wq'[m] = wq[m]
    BY <1>0, <2>1, DoneAt DEF CopyOK
  <2>5. MappedOK'
    BY <1>0, <2>3 DEF MappedOK
  <2>6. WaitOK'
    BY <1>0, <2>1, <2>3 DEF WaitOK, Waits
  <2>7. AskOK' /\ ReplyOK'
    BY <1>0, <2>1, <2>2 DEF AskOK, ReplyOK
  <2>8. CopyOK'
    BY <1>0, <2>1, <2>3, <2>4 DEF CopyOK, Draining, Current
  <2> QED BY <2>2, <2>5, <2>6, <2>7, <2>8 DEF TokenInv
<1>15. ASSUME NEW n \in Nodes, PageUnlock(n) PROVE TokenInv'
  <2>1. OneToken' /\ Pending' = Pending
    BY <1>0, <1>15, PendingKept DEF PageUnlock
  <2>2. \A c \in Cpus : ~Waits(n, c) /\ reply[n][c] = <<>>
    BY <1>0, <1>15, DrainingIdle DEF PageUnlock
  <2>3. /\ \A m \in Nodes : m # n => lock'[m] = lock[m] /\ pc'[m] = pc[m]
        /\ \A c \in Cpus : pc'[n][c] \in {"guest", pc[n][c]}
    BY <1>15 DEF PageUnlock, TypeOK
  <2>4. UNCHANGED <<pte, owner, wq, copying, req, reply, latest>> /\ ~copying[n]
    BY <1>0, <1>15 DEF PageUnlock, CopyOK
  <2>5. MappedOK' /\ ReplyOK'
    BY <1>0, <2>2, <2>3, <2>4 DEF MappedOK, ReplyOK
  <2>6. WaitOK'
    BY <1>0, <2>2, <2>3, <2>4 DEF WaitOK, Waits
  <2>7. \A p \in Pending : p.node # n
    BY <1>0, <2>2, PendingWaits, PendingType
  <2>8. AskOK'
    BY <1>0, <2>1, <2>3, <2>4, <2>7, PendingType DEF AskOK
  <2>9. CopyOK'
    BY <1>0, <2>3, <2>4 DEF CopyOK, Draining, Current
  <2> QED BY <2>1, <2>5, <2>6, <2>8, <2>9 DEF TokenInv
<1>16. CASE UNCHANGED vars
  <2>1. OneToken' /\ Pending' = Pending
    BY <1>0, <1>16, PendingKept DEF vars
  <2>2. UNCHANGED <<pte, owner, lock, wq, copying, pc, req, reply, latest>>
    BY <1>16 DEF vars
  <2>3. MappedOK' /\ WaitOK' /\ AskOK' /\ ReplyOK'
    BY <1>0, <2>1, <2>2 DEF MappedOK, WaitOK, Waits, AskOK, ReplyOK
  <2>4. CopyOK'
    BY <1>0, <2>2 DEF CopyOK, Draining, Current
  <2> QED BY <2>1, <2>3, <2>4 DEF TokenInv
<1> QED
  BY <1>1, <1>3, <1>4, <1>6, <1>7, <1>8, <1>9, <1>10, <1>11,
     <1>12, <1>13, <1>14, <1>15, <1>16, VsmAssumption DEF Next, FaultHandler, Server

\* Layer 1 holds initially.
LEMMA TokenInit == ASSUME Init PROVE TokenInv
<1>1. \A e \in Queues : Chans[e] = <<>>
  <2>1. \A e \in Queues : e[2] \in Nodes /\ (e[1] # Wq => e[1] \in Nodes)
    BY DEF Queues
  <2> QED BY <2>1 DEF Init, Chans
<1>2. \A e \in Queues : 1..Len(Chans[e]) = {}
  BY <1>1
<1>3. OneToken /\ Pending = {}
  BY <1>2 DEF OneToken, Unique, Pending, Asks
<1>4. MappedOK
  BY DEF Init, MappedOK
<1>5. WaitOK /\ ReplyOK /\ CopyOK
  BY DEF Init, WaitOK, Waits, ReplyOK, CopyOK
<1>6. AskOK
  BY <1>3 DEF AskOK
<1> QED BY <1>3, <1>4, <1>5, <1>6 DEF TokenInv

\* A reply finds its cpu waiting with the lock held for exactly this kind of
\* reply, and alone in reply_buf (set_reply_buf, recv_fetch_reply), for any
\* number of nodes and cpus.
THEOREM ReplyMatches == Spec => []ReplyMatchesFault
<1>1. Init => TypeOK /\ TokenInv
  BY TokenInit, TypeInit
<1>2. TypeOK /\ TokenInv /\ [Next]_vars => (TypeOK /\ TokenInv)'
  BY TypeStep, TokenStep
<1>3. TypeOK /\ TokenInv => ReplyMatchesFault
  BY DEF TokenInv, ReplyOK, WaitOK, Waits, ReplyMatchesFault
<1> QED BY <1>1, <1>2, <1>3, PTL DEF Spec

-----------------------------------------------------------------------------
(* Layer 2: the owner.                                                     *)

\* Layer 2 is inductive, when every node id has a copyset bit.
LEMMA OwnerStep ==
  ASSUME Nodes \subseteq 0..(CopysetBits - 1), TypeOK, TokenInv, TokenInv', OwnerInv, [Next]_vars
  PROVE  OwnerInv'
<1>0. /\ MappedOK /\ WaitOK /\ AskOK /\ ReplyOK /\ CopyOK /\ OneToken
      /\ ReadReplyOK /\ OneOwner /\ OwnerNewest
  BY DEF TokenInv, OwnerInv
<1>a. ASSUME UNCHANGED <<reply, latest>>,
             \A m \in Nodes : Keeps(m)' <=> Keeps(m),
             \A m \in Nodes : Keeps(m) => pte'[m].ver = pte[m].ver
      PROVE  OwnerInv'
  <2>1. ReadReplyOK' /\ OwnerNewest'
    BY <1>0, <1>a DEF ReadReplyOK, OwnerNewest
  <2>2. \A m \in Nodes : Owns(m)' <=> Owns(m)
    BY <1>a DEF Owns, Granted
  <2>3. OneOwner'
    BY <1>0, <2>2 DEF OneOwner
  <2> QED BY <2>1, <2>3 DEF OwnerInv
\* the waitqueues and copying are as before
<1>b. ASSUME UNCHANGED <<reply, latest, copying, wq>>,
             \A m \in Nodes : IsOwner(m)' <=> IsOwner(m),
             \A m \in Nodes : pte'[m].ver = pte[m].ver
      PROVE  OwnerInv'
  BY <1>a, <1>b DEF Keeps, GivesOut, Current
<1>1. ASSUME NEW n \in Nodes, NEW c \in Cpus, GuestStore(n, c) PROVE OwnerInv'
  <2>1. Writable(n) /\ UNCHANGED <<wq, copying, reply>> /\ latest' = latest + 1
    BY <1>1 DEF GuestStore
  <2>2. /\ \A m \in Nodes : (pte'[m].af <=> pte[m].af) /\ pte'[m].ap = pte[m].ap /\
             pte'[m].cs = pte[m].cs
        /\ pte'[n].ver = pte[n].ver + 1
    BY <1>1, VerAt DEF GuestStore
  <2>3. \A m \in Nodes : Keeps(m)' <=> Keeps(m)
    BY <2>1, <2>2 DEF Keeps, GivesOut, IsOwner, Writable, ReadOnly, Current
  <2>4. \A m \in Nodes : Owns(m)' <=> Owns(m)
    BY <2>1, <2>3 DEF Owns, Granted
  <2>5. Keeps(n) /\ \A m \in Nodes : Owns(m) => m = n
    BY <1>0, <2>1 DEF Keeps, IsOwner, OneOwner, Owns
  <2>6. ~Granted(n)
    BY <1>0, <2>1 DEF Granted, ReplyOK, WaitOK, Waits, Writable
  <2>7. ReadReplyOK' /\ OneOwner'
    BY <1>0, <2>1, <2>4 DEF ReadReplyOK, OneOwner
  <2>8. OwnerNewest'
    BY <1>0, <2>1, <2>2, <2>3, <2>5, <2>6 DEF OwnerNewest, Owns, Granted
  <2> QED BY <2>7, <2>8 DEF OwnerInv
<1>2. ASSUME NEW n \in Nodes, NEW c \in Cpus, FaultHit(n, c) \/ ReadFetch(n, c) PROVE OwnerInv'
  <2>1. UNCHANGED <<reply, latest, copying, wq, pte>>
    BY <1>2 DEF FaultHit, ReadFetch
  <2> QED BY <1>b, <2>1 DEF IsOwner, Writable, ReadOnly
<1>3. ASSUME NEW n \in Nodes, NEW c \in Cpus, WriteUpgrade(n, c) PROVE OwnerInv'
  <2>1. UNCHANGED <<reply, latest, copying, wq>> /\ IsOwner(n) /\ pte[n].af
    BY <1>3 DEF WriteUpgrade, IsOwner, ReadOnly
  <2>2. /\ pte'[n].af <=> pte[n].af
        /\ pte'[n].ap = "rw" /\ pte'[n].ver = pte[n].ver
        /\ \A m \in Nodes : m # n => pte'[m] = pte[m]
    BY <1>3, WriteUpgradeAt
  <2>3. \A m \in Nodes : IsOwner(m)' <=> IsOwner(m)
    BY <2>1, <2>2 DEF IsOwner, Writable, ReadOnly
  <2> QED BY <1>b, <2>1, <2>2, <2>3
<1>4. ASSUME NEW n \in Nodes, NEW c \in Cpus, WriteFetch(n, c) PROVE OwnerInv'
  <2>1. UNCHANGED <<reply, latest, copying, wq>> /\ ~IsOwner(n)
    BY <1>4 DEF WriteFetch
  <2>2. /\ ~pte'[n].af /\ pte'[n].ver = pte[n].ver
        /\ \A m \in Nodes : m # n => pte'[m] = pte[m]
    BY <1>0, <1>4, WriteFetchAt
  <2>3. \A m \in Nodes : IsOwner(m)' <=> IsOwner(m)
    BY <2>1, <2>2 DEF IsOwner, Writable, ReadOnly
  <2> QED BY <1>b, <2>1, <2>2, <2>3
<1>5. ASSUME NEW n \in Nodes, NEW c \in Cpus, ReadFetched(n, c) PROVE OwnerInv'
  <2> DEFINE r == Head(reply[n][c])
  <2>1. pc[n][c] = "readwait" /\ TakeReply(n, c) /\ UNCHANGED <<copying, wq, latest>>
    BY <1>5 DEF ReadFetched
  <2>2. /\ reply[n][c] # <<>> /\ ~pte[n].af /\ reply'[n][c] = <<>>
        /\ \A m \in Nodes, x \in Cpus : (m # n \/ x # c) => reply'[m][x] = reply[m][x]
    BY <1>0, <2>1, TakeReplyAt
  <2>3. ~r.wnr /\ r.cs = {}
    BY <1>0, <2>1, <2>2 DEF ReplyOK, ReadReplyOK
  <2>4. pte'[n].ap = "ro" /\ pte'[n].cs = r.cs /\ \A m \in Nodes : m # n => pte'[m] = pte[m]
    BY <1>5, EntryType DEF ReadFetched
  <2>5. \A m \in Nodes : Keeps(m)' <=> Keeps(m)
    BY <2>1, <2>2, <2>3, <2>4 DEF Keeps, GivesOut, IsOwner, Writable, ReadOnly, Current
  <2>6. ~Keeps(n)
    <3>1. Waits(n, c)
      BY <2>1 DEF Waits
    <3>2. ~copying[n]
      BY <1>0, <3>1, DrainingIdle DEF CopyOK
    <3> QED BY <2>2, <3>2 DEF Keeps, GivesOut, IsOwner, Writable, ReadOnly
  <2>7. \A m \in Nodes : Granted(m)' <=> Granted(m)
    BY <2>2, <2>3 DEF Granted
  <2>8. ReadReplyOK'
    BY <1>0, <2>2 DEF ReadReplyOK
  <2>9. OneOwner'
    BY <1>0, <2>5, <2>7 DEF OneOwner, Owns
  <2>10. OwnerNewest'
    BY <1>0, <2>1, <2>2, <2>4, <2>5, <2>6 DEF OwnerNewest
  <2> QED BY <2>8, <2>9, <2>10 DEF OwnerInv
<1>6. ASSUME NEW n \in Nodes, NEW c \in Cpus, WriteFetched(n, c) PROVE OwnerInv'
  <2> DEFINE r == Head(reply[n][c])
  <2>1. pc[n][c] = "writewait" /\ TakeReply(n, c) /\ UNCHANGED <<copying, wq, latest>>
    BY <1>6 DEF WriteFetched
  <2>2. /\ reply[n][c] # <<>> /\ ~pte[n].af /\ reply'[n][c] = <<>>
        /\ \A m \in Nodes, x \in Cpus : (m # n \/ x # c) => reply'[m][x] = reply[m][x]
    BY <1>0, <2>1, TakeReplyAt
  <2>3. r.wnr
    BY <1>0, <2>1, <2>2 DEF ReplyOK
  <2>4. /\ pte'[n].af /\ pte'[n].ap = "rw" /\ pte'[n].ver = r.ver
        /\ \A m \in Nodes : m # n => pte'[m] = pte[m]
    BY <1>6, EntryType DEF WriteFetched
  <2>5. Owns(n) /\ \A m \in Nodes : Owns(m) => m = n
    BY <1>0, <2>2, <2>3 DEF Owns, Granted, OneOwner
  <2>6. Keeps(n)' /\ \A m \in Nodes : m # n => (Keeps(m)' <=> Keeps(m))
    BY <2>1, <2>4 DEF Keeps, GivesOut, IsOwner, Writable, ReadOnly, Current
  <2>7. \A m \in Nodes : m # n => (Granted(m)' <=> Granted(m))
    BY <2>2 DEF Granted
  <2>8. ~Granted(n)'
    BY <1>0, <2>2 DEF Granted, ReplyOK, WaitOK, Waits
  <2>9. ReadReplyOK'
    BY <1>0, <2>2 DEF ReadReplyOK
  <2>10. OneOwner'
    BY <2>5, <2>6, <2>7 DEF OneOwner, Owns
  <2>11. OwnerNewest'
    <3>1. r.ver = latest
      BY <1>0, <2>2, <2>3 DEF OwnerNewest
    <3>2. \A m \in Nodes : Keeps(m)' => pte'[m].ver = latest'
      BY <2>1, <2>4, <2>5, <2>6, <3>1 DEF Owns
    <3>3. \A m \in Nodes, x \in Cpus : ~(reply'[m][x] # <<>> /\ Head(reply'[m][x]).wnr)
      BY <2>5, <2>7, <2>8 DEF Granted, Owns
    <3> QED BY <3>2, <3>3 DEF OwnerNewest
  <2> QED BY <2>9, <2>10, <2>11 DEF OwnerInv
<1>7. ASSUME NEW s \in Nodes, NEW n \in Nodes, RecvRequest(s, n) PROVE OwnerInv'
  <2>1. /\ \A m \in Nodes : wq[m] # <<>> => wq'[m] # <<>> /\ Head(wq'[m]) = Head(wq[m])
        /\ UNCHANGED <<pte, copying, reply, latest>>
    BY <1>7, RecvAt
  <2>2. \A m \in Nodes : Keeps(m)' <=> Keeps(m)
    BY <1>0, <2>1 DEF Keeps, GivesOut, IsOwner, Writable, ReadOnly, Current, CopyOK
  <2> QED BY <1>a, <2>1, <2>2
<1>8. ASSUME NEW n \in Nodes, ReadServer(n) PROVE OwnerInv'
  <2>1. CopysetBit(Current(n).node) # {}
    BY <1>8, CurrentType DEF ReadServer, Serving, CopysetBit, Proc
  <2>2. /\ pte'[n].af <=> pte[n].af
        /\ pte'[n].ap = "ro" /\ pte'[n].cs = pte[n].cs \cup CopysetBit(Current(n).node)
        /\ pte'[n].ver = pte[n].ver
        /\ \A m \in Nodes : m # n => pte'[m] = pte[m]
    BY <1>8, ReadServerAt
  <2>3. /\ pte[n].af /\ Current(n).type = "read" /\ IsOwner(n)
        /\ UNCHANGED <<wq, reply, latest>> /\ \A m \in Nodes : m # n => copying'[m] = copying[m]
    BY <1>8 DEF ReadServer, Serving, IsOwner, Writable, ReadOnly, TypeOK
  <2>4. \A m \in Nodes : Keeps(m)' <=> Keeps(m)
    BY <2>1, <2>2, <2>3 DEF Keeps, GivesOut, IsOwner, Writable, ReadOnly, Current
  <2> QED BY <1>a, <2>2, <2>3, <2>4
<1>9. ASSUME NEW n \in Nodes, WriteServer(n) PROVE OwnerInv'
  <2>1. /\ ~pte'[n].af /\ pte'[n].ver = pte[n].ver
        /\ \A m \in Nodes : m # n => pte'[m] = pte[m]
    BY <1>9, AfAt DEF WriteServer
  <2>2. /\ Current(n).type = "write" /\ IsOwner(n)
        /\ UNCHANGED <<wq, reply, latest>>
        /\ copying'[n] /\ \A m \in Nodes : m # n => copying'[m] = copying[m]
    BY <1>9 DEF WriteServer, Serving, TypeOK
  <2>3. \A m \in Nodes : Keeps(m)' <=> Keeps(m)
    BY <2>1, <2>2 DEF Keeps, GivesOut, IsOwner, Writable, ReadOnly, Current
  <2> QED BY <1>a, <2>1, <2>2, <2>3
<1>10. ASSUME NEW n \in Nodes, SendReadReply(n) \/ SendWriteReply(n) PROVE OwnerInv'
  <2> DEFINE p == Current(n)
  <2>1. /\ wq[n] # <<>> /\ Done(n) /\ p.type \in {"read", "write"} /\ Draining(n)
        /\ UNCHANGED <<pte, req, latest>> /\ copying[n]
        /\ copying' = [copying EXCEPT ![n] = FALSE]
    BY <1>10 DEF SendReadReply, SendWriteReply, Serving
  <2>2. PICK r \in Reply : /\ SendReply(n, r) /\ (r.wnr <=> p.type = "write")
                           /\ r.ver = pte[n].ver
                           /\ r.cs = IF p.type = "write" THEN pte[n].cs ELSE {}
    BY <1>10, ReplySent
  <2>3. p \in Pending
    BY <1>0, <2>1, PendingDone DEF IsAsk
  <2>4. /\ p.node \in Nodes /\ p.cpu \in Cpus /\ reply[p.node][p.cpu] = <<>>
        /\ p.node # n /\ ~pte[p.node].af /\ ~copying[p.node]
    BY <1>0, <2>1, <2>3, PendingType, PendingWaits DEF AskOK, CopyOK
  <2>5. /\ reply'[p.node][p.cpu] = <<r>>
        /\ \A m \in Nodes, x \in Cpus : (m # p.node \/ x # p.cpu) => reply'[m][x] = reply[m][x]
    BY <2>2, <2>4, SendReplyAt
  <2>6. <<r>> # <<>> /\ Head(<<r>>) = r
    OBVIOUS
  <2>7. ~copying'[n] /\ \A m \in Nodes : m # n => wq'[m] = wq[m] /\ copying'[m] = copying[m]
    BY <2>1, DoneAt DEF TypeOK
  <2>8. \A x \in Cpus : reply[n][x] = <<>>
    BY <1>0, <2>1, DrainingIdle
  <2>9. ReadReplyOK'
    BY <1>0, <2>2, <2>5, <2>6 DEF ReadReplyOK
  <2>10. \A m \in Nodes : m # n => (Keeps(m)' <=> Keeps(m))
    BY <2>1, <2>7 DEF Keeps, GivesOut, IsOwner, Writable, ReadOnly, Current
  <2>11. CASE p.type = "read"
    <3>1. Keeps(n)' <=> Keeps(n)
      BY <2>1, <2>7, <2>11 DEF Keeps, GivesOut, IsOwner, Writable, ReadOnly, Current
    <3>2. \A m \in Nodes : Granted(m)' <=> Granted(m)
      BY <2>2, <2>4, <2>5, <2>6, <2>11 DEF Granted
    <3>3. OneOwner'
      BY <1>0, <2>10, <3>1, <3>2 DEF OneOwner, Owns
    <3>4. OwnerNewest'
      BY <1>0, <2>1, <2>2, <2>5, <2>6, <2>10, <2>11, <3>1 DEF OwnerNewest
    <3> QED BY <2>9, <3>3, <3>4 DEF OwnerInv
  <2>12. CASE p.type = "write"
    <3>1. Keeps(n) /\ ~pte[n].af
      BY <1>0, <2>1, <2>12 DEF Keeps, GivesOut, CopyOK
    <3>2. ~Keeps(n)'
      BY <2>1, <2>7, <3>1 DEF Keeps, GivesOut, IsOwner, Writable, ReadOnly
    <3>3. \A m \in Nodes : Owns(m) => m = n
      BY <1>0, <3>1 DEF OneOwner, Owns
    <3>4. \A m \in Nodes : ~Keeps(m)'
      BY <2>10, <3>2, <3>3 DEF Owns
    <3>5. \A m \in Nodes : ~Granted(m)
      BY <2>8, <3>3 DEF Owns, Granted
    <3>6. \A m \in Nodes : Granted(m)' <=> m = p.node
      BY <2>2, <2>4, <2>5, <2>6, <2>12, <3>5 DEF Granted
    <3>7. OneOwner'
      BY <2>4, <3>4, <3>6 DEF OneOwner, Owns
    <3>8. OwnerNewest'
      <4>1. pte[n].ver = latest
        BY <1>0, <3>1 DEF OwnerNewest
      <4>2. \A m \in Nodes, x \in Cpus : (m # p.node \/ x # p.cpu)
              => ~(reply'[m][x] # <<>> /\ Head(reply'[m][x]).wnr)
        BY <2>5, <3>5 DEF Granted
      <4> QED BY <2>1, <2>2, <2>5, <2>6, <3>4, <4>1, <4>2 DEF OwnerNewest
    <3> QED BY <2>9, <3>7, <3>8 DEF OwnerInv
  <2> QED BY <2>1, <2>11, <2>12
<1>11. ASSUME NEW n \in Nodes, ForwardRead(n) \/ ForwardWrite(n) PROVE OwnerInv'
  <2>1. PICK type \in {"read", "write"} : Forward(n, type)
    BY <1>11 DEF ForwardRead, ForwardWrite
  <2>2. UNCHANGED <<pte, copying, reply, latest>> /\ Done(n) /\ ~copying[n]
    BY <2>1 DEF Forward
  <2>3. \A m \in Nodes : m # n => wq'[m] = wq[m]
    BY <2>2, DoneAt
  <2>4. \A m \in Nodes : Keeps(m)' <=> Keeps(m)
    BY <2>2, <2>3 DEF Keeps, GivesOut, IsOwner, Writable, ReadOnly, Current
  <2> QED BY <1>a, <2>2, <2>4
<1>12. ASSUME NEW n \in Nodes, InvalidateServer(n) PROVE OwnerInv'
  <2>1. /\ wq[n] # <<>> /\ Current(n).type = "inv" /\ Done(n)
        /\ UNCHANGED <<copying, reply, latest>>
    BY <1>12 DEF InvalidateServer, Serving
  <2>2. /\ pte'[n].af <=> pte[n].af /\ IsOwner(n)
        /\ pte'[n].ap = pte[n].ap /\ pte'[n].cs = pte[n].cs /\ pte'[n].ver = pte[n].ver
        /\ \A m \in Nodes : m # n => pte'[m] = pte[m]
    BY <1>12, InvalidatedAt
  <2>3. ~copying[n] /\ \A m \in Nodes : m # n => wq'[m] = wq[m]
    BY <1>0, <2>1, DoneAt DEF CopyOK
  <2>4. \A m \in Nodes : Keeps(m)' <=> Keeps(m)
    BY <2>1, <2>2, <2>3 DEF Keeps, GivesOut, IsOwner, Writable, ReadOnly, Current
  <2> QED BY <1>a, <2>1, <2>2, <2>4
<1>13. ASSUME NEW n \in Nodes, PageUnlock(n) PROVE OwnerInv'
  <2>1. UNCHANGED <<reply, latest, copying, wq, pte>>
    BY <1>13 DEF PageUnlock
  <2> QED BY <1>b, <2>1 DEF IsOwner, Writable, ReadOnly
<1>14. CASE UNCHANGED vars
  <2>1. UNCHANGED <<reply, latest, copying, wq, pte>>
    BY <1>14 DEF vars
  <2> QED BY <1>b, <2>1 DEF IsOwner, Writable, ReadOnly
<1> QED
  BY <1>1, <1>2, <1>3, <1>4, <1>5, <1>6, <1>7, <1>8, <1>9, <1>10, <1>11,
     <1>12, <1>13, <1>14, VsmAssumption DEF Next, FaultHandler, Server

\* Layer 2 holds initially.
LEMMA OwnerInit == ASSUME Init PROVE OwnerInv
<1>1. ReadReplyOK
  BY DEF Init, ReadReplyOK
<1>2. \A n \in Nodes : ~Granted(n)
  BY DEF Init, Granted
<1>3. \A n \in Nodes : Keeps(n) <=> n = Manager
  BY DEF Init, Keeps, GivesOut, IsOwner, Writable, ReadOnly
<1>4. OneOwner
  BY <1>2, <1>3, VsmAssumption DEF OneOwner, Owns
<1>5. OwnerNewest
  BY DEF Init, OwnerNewest
<1> QED BY <1>1, <1>4, <1>5 DEF OwnerInv

\* The holders of SingleOwner are the nodes that keep the page.
LEMMA HoldersAre ==
  ASSUME TypeOK, TokenInv
  PROVE  Holders = {n \in Nodes : Keeps(n)}
  BY DEF TokenInv, CopyOK, Holders, Keeps, GivesOut, Serving

\* The grants of SingleOwner are the write replies.
LEMMA GrantsAre ==
  ASSUME TypeOK, TokenInv
  PROVE  /\ \A t \in Grants : \E n \in Nodes, c \in Cpus :
               t = <<n, c, 1>> /\ reply[n][c] # <<>> /\ Head(reply[n][c]).wnr /\
                 ReplyAt(t) = Head(reply[n][c])
         /\ \A n \in Nodes, c \in Cpus :
              reply[n][c] # <<>> /\ Head(reply[n][c]).wnr =>
                <<n, c, 1>> \in Grants /\ ReplyAt(<<n, c, 1>>) = Head(reply[n][c])
<1>1. \A n \in Nodes, c \in Cpus : reply[n][c] \in Seq(Reply) /\
        DOMAIN reply[n][c] = 1..Len(reply[n][c])
  BY DEF TypeOK
<1>2. \A n \in Nodes, c \in Cpus : reply[n][c] # <<>>
        => Len(reply[n][c]) = 1 /\ Head(reply[n][c]) = reply[n][c][1]
  BY <1>1 DEF TokenInv, ReplyOK
<1>3. ASSUME NEW t \in Grants
      PROVE  \E n \in Nodes, c \in Cpus :
               t = <<n, c, 1>> /\ reply[n][c] # <<>> /\ Head(reply[n][c]).wnr /\
                 ReplyAt(t) = Head(reply[n][c])
  <2>1. PICK n \in Nodes, c \in Cpus, i \in 1..2 : t = <<n, c, i>>
    BY DEF Grants, Replies
  <2>2. i \in DOMAIN reply[n][c] /\ reply[n][c][i].wnr /\ ReplyAt(t) = reply[n][c][i]
    BY <2>1 DEF Grants, Replies, ReplyAt
  <2>3. reply[n][c] # <<>>
    BY <1>1, <2>2
  <2>4. i = 1
    BY <1>1, <1>2, <2>2, <2>3
  <2> QED BY <1>2, <2>1, <2>2, <2>3, <2>4
<1>4. ASSUME NEW n \in Nodes, NEW c \in Cpus, reply[n][c] # <<>>, Head(reply[n][c]).wnr
      PROVE  <<n, c, 1>> \in Grants /\ ReplyAt(<<n, c, 1>>) = Head(reply[n][c])
  <2>1. 1 \in DOMAIN reply[n][c] /\ Head(reply[n][c]) = reply[n][c][1]
    BY <1>1, <1>2, <1>4
  <2>2. <<n, c, 1>> \in Nodes \X Cpus \X (1..2)
    OBVIOUS
  <2> QED BY <1>4, <2>1, <2>2 DEF Grants, Replies, ReplyAt
<1> QED BY <1>3, <1>4

\* Layers 1 and 2 imply the two properties of the owner.
LEMMA OwnerSafe ==
  ASSUME TypeOK, TokenInv, OwnerInv
  PROVE  SingleOwner /\ OwnerIsLatest
<1>0. /\ MappedOK /\ WaitOK /\ AskOK /\ ReplyOK /\ CopyOK /\ OneToken
      /\ ReadReplyOK /\ OneOwner /\ OwnerNewest
  BY DEF TokenInv, OwnerInv
<1>1. OwnerIsLatest
  <2>1. \A n \in Holders : pte[n].ver = latest
    BY <1>0, HoldersAre DEF OwnerNewest
  <2>2. \A t \in Grants : ReplyAt(t).ver = latest
    BY <1>0, GrantsAre DEF OwnerNewest
  <2> QED BY <2>1, <2>2 DEF OwnerIsLatest
<1>2. PICK n \in Nodes : Owns(n) /\ \A m \in Nodes : Owns(m) => m = n
  BY <1>0 DEF OneOwner
<1>3. Cardinality({}) = 0 /\ \A x : Cardinality({x}) = 1
  BY FS_EmptySet, FS_Singleton
<1>4. CASE Keeps(n)
  <2>1. Holders = {n}
    BY <1>2, <1>4, HoldersAre DEF Owns
  <2>2. ~Granted(n)
    <3>1. CASE IsOwner(n)
      BY <1>0, <3>1 DEF Granted, ReplyOK, WaitOK, Waits, IsOwner, Writable, ReadOnly
    <3>2. CASE GivesOut(n, "write")
      <4>1. Draining(n)
        BY <1>0, <3>2 DEF CopyOK, GivesOut
      <4> QED BY <1>0, <4>1, DrainingIdle DEF Granted
    <3> QED BY <1>4, <3>1, <3>2 DEF Keeps
  <2>3. Grants = {}
    <3>1. \A t \in Grants : FALSE
      BY <1>2, <2>2, GrantsAre DEF Owns, Granted
    <3> QED BY <3>1
  <2>4. Cardinality(Holders) = 1
    BY <1>3, <2>1, Zenon
  <2>5. Cardinality(Grants) = 0
    BY <1>3, <2>3, Zenon
  <2> QED BY <1>1, <2>4, <2>5 DEF SingleOwner
<1>5. CASE ~Keeps(n)
  <2>1. Holders = {}
    BY <1>2, <1>5, HoldersAre DEF Owns
  <2>2. PICK c \in Cpus : reply[n][c] # <<>> /\ Head(reply[n][c]).wnr
    BY <1>2, <1>5 DEF Owns, Granted
  <2>3. lock[n] = c
    BY <1>0, <2>2 DEF ReplyOK, WaitOK, Waits
  <2>4. ASSUME NEW t \in Grants PROVE t = <<n, c, 1>>
    <3>1. PICK m \in Nodes, x \in Cpus :
               t = <<m, x, 1>> /\ reply[m][x] # <<>> /\ Head(reply[m][x]).wnr
      BY GrantsAre
    <3>2. m = n
      BY <1>2, <3>1 DEF Owns, Granted
    <3>3. lock[m] = x
      BY <1>0, <3>1 DEF ReplyOK, WaitOK, Waits
    <3> QED BY <2>3, <3>1, <3>2, <3>3
  <2>5. <<n, c, 1>> \in Grants
    BY <2>2, GrantsAre
  <2>6. Grants = {<<n, c, 1>>}
    BY <2>4, <2>5
  <2>7. Cardinality(Holders) = 0
    BY <1>3, <2>1, Zenon
  <2>8. Cardinality(Grants) = 1
    BY <1>3, <2>6, Zenon
  <2> QED BY <1>1, <2>7, <2>8 DEF SingleOwner
<1> QED BY <1>4, <1>5

OwnInv == TypeOK /\ TokenInv /\ OwnerInv

\* Layers 1 and 2 hold in every reachable state.
LEMMA OwnerInvariant ==
  ASSUME Nodes \subseteq 0..(CopysetBits - 1)
  PROVE  Spec => []OwnInv
<1>1. Init => OwnInv
  BY TokenInit, TypeInit, OwnerInit DEF OwnInv
<1>2. OwnInv /\ [Next]_vars => OwnInv'
  BY TypeStep, TokenStep, OwnerStep DEF OwnInv
<1> QED BY <1>1, <1>2, PTL DEF Spec

\* The ownership is never lost or duplicated (vsm_write_server_process,
\* vsm_invalidate_server_process), in any cluster whose node ids have a bit in
\* the copyset.  With a larger id a reader leaves no trace, and the owner takes
\* its own read-only entry for a copy.
THEOREM OwnershipSafe ==
  ASSUME Nodes \subseteq 0..(CopysetBits - 1)
  PROVE  Spec => []SingleOwner
<1>1. OwnInv => SingleOwner
  BY OwnerSafe DEF OwnInv
<1> QED BY <1>1, OwnerInvariant, PTL

\* The owner's frame, or the one that travels with the ownership, includes
\* every store made so far (send_write_fetch_reply after the unmapping), under
\* the same condition.
THEOREM NewestWithOwner ==
  ASSUME Nodes \subseteq 0..(CopysetBits - 1)
  PROVE  Spec => []OwnerIsLatest
<1>1. OwnInv => OwnerIsLatest
  BY OwnerSafe DEF OwnInv
<1> QED BY <1>1, OwnerInvariant, PTL

-----------------------------------------------------------------------------
(* Invalidations under way.                                                *)

\* Invalidations in a queue after a message is appended.
LEMMA HasInvAppend ==
  ASSUME NEW q \in Seq(Proc), NEW p \in Proc
  PROVE  HasInv(Append(q, p)) <=> HasInv(q) \/ ~IsAsk(p)
<1> DEFINE r == Append(q, p)
<1>1. /\ Len(q) \in Nat /\ Len(r) = Len(q) + 1
      /\ \A i \in 1..Len(q) : r[i] = q[i]
      /\ r[Len(q) + 1] = p
  BY AppendAt
<1> HIDE DEF r
<1>2. \A i \in 1..Len(r) : i \in 1..Len(q) \/ i = Len(q) + 1
  BY <1>1
<1>3. \A i \in 1..Len(q) : i \in 1..Len(r)
  BY <1>1
<1>4. Len(q) + 1 \in 1..Len(r)
  BY <1>1
<1> QED BY <1>1, <1>2, <1>3, <1>4 DEF HasInv, r

\* Invalidations in a queue after its head is taken.
LEMMA HasInvTail ==
  ASSUME NEW q \in Seq(Proc), q # <<>>, HasInv(q)
  PROVE  HasInv(Tail(q)) \/ ~IsAsk(Head(q))
<1>1. PICK i \in 1..Len(q) : ~IsAsk(q[i])
  BY DEF HasInv
<1>2. CASE i = 1
  BY <1>1, <1>2, TailAt
<1>3. CASE i # 1
  <2>1. i - 1 \in 1..Len(Tail(q)) /\ Tail(q)[i - 1] = q[i]
    BY <1>3, TailAt
  <2> QED BY <1>1, <2>1 DEF HasInv
<1> QED BY <1>2, <1>3

\* Steps that touch no queue keep the invalidations.
LEMMA DoomedKept ==
  ASSUME TypeOK, NEW m \in Nodes, Doomed(m), UNCHANGED <<wq, req>>
  PROVE  Doomed(m)'
  BY DEF Doomed, HasInv

\* A request sent keeps the invalidations.
LEMMA DoomedSent ==
  ASSUME TypeOK, NEW m \in Nodes, Doomed(m), wq' = wq,
         NEW n \in Nodes, NEW c \in Cpus, NEW type \in {"read", "write"}, SendFetchReq(n, c, type)
  PROVE  Doomed(m)'
<1> DEFINE p == [type |-> type, node |-> n, cpu |-> c]
           t == FetchTarget(n)
<1>1. p \in Proc /\ t \in Nodes
  BY FetchTargetType DEF Proc
<1>2. \A s, d \in Nodes : req[s][d] \in Seq(Proc)
  BY DEF TypeOK
<1>3. \A s, d \in Nodes : req'[s][d] = IF s = n /\ d = t THEN Append(req[s][d], p) ELSE req[s][d]
  BY <1>1 DEF SendFetchReq, TypeOK
<1> HIDE DEF p, t
<1>4. \A s \in Nodes : HasInv(req[s][m]) => HasInv(req'[s][m])
  BY <1>1, <1>2, <1>3, HasInvAppend
<1>5. \A s \in Nodes : HasInv(req[s][m]) => HasInv(req[s][m])'
  BY <1>4 DEF HasInv
<1>6. HasInv(wq[m]) => HasInv(wq[m])'
  BY DEF HasInv
<1> QED BY <1>5, <1>6 DEF Doomed

\* An invalidation sent to every member of a copyset dooms them all.
LEMMA DoomedInvalidated ==
  ASSUME TypeOK, wq' = wq, NEW n \in Nodes, NEW c \in Cpus, NEW cs, Invalidate(n, c, cs),
         NEW m \in Nodes, Doomed(m) \/ m \in cs \ {n}
  PROVE  Doomed(m)'
<1> DEFINE p == [type |-> "inv", node |-> n, cpu |-> c]
<1>1. p \in Proc /\ ~IsAsk(p)
  BY DEF Proc, IsAsk
<1>2. \A s, d \in Nodes : req[s][d] \in Seq(Proc)
  BY DEF TypeOK
<1>3. \A s, d \in Nodes : req'[s][d] = IF s = n /\
        d \in cs \ {n} THEN Append(req[s][d], p) ELSE req[s][d]
  BY <1>1 DEF Invalidate, TypeOK
<1> HIDE DEF p
<1>4. \A s \in Nodes : HasInv(req[s][m]) => HasInv(req'[s][m])
  BY <1>1, <1>2, <1>3, HasInvAppend
<1>5. \A s \in Nodes : HasInv(req[s][m]) => HasInv(req[s][m])'
  BY <1>4 DEF HasInv
<1>6. HasInv(wq[m]) => HasInv(wq[m])'
  BY DEF HasInv
<1>7. m \in cs \ {n} => HasInv(req'[n][m])
  BY <1>1, <1>2, <1>3, HasInvAppend
<1>8. m \in cs \ {n} => HasInv(req[n][m])'
  BY <1>7 DEF HasInv
<1> QED BY <1>5, <1>6, <1>8 DEF Doomed

\* Receiving keeps an invalidation pending.
LEMMA DoomedMoved ==
  ASSUME TypeOK, NEW m \in Nodes, Doomed(m), NEW s \in Nodes, NEW n \in Nodes, RecvRequest(s, n)
  PROVE  Doomed(m)'
<1>1. /\ \A x, d \in Nodes : req[x][d] \in Seq(Proc)
      /\ \A d \in Nodes : wq[d] \in Seq(Proc)
  BY DEF TypeOK
<1>2. /\ req[s][n] # <<>>
      /\ \A x, d \in Nodes : req'[x][d] = IF x = s /\ d = n THEN Tail(req[x][d]) ELSE req[x][d]
      /\ \A d \in Nodes : wq'[d] = IF d = n THEN Append(wq[d], Head(req[s][n])) ELSE wq[d]
  BY DEF RecvRequest, TypeOK
<1>3. Head(req[s][n]) \in Proc
  BY <1>1, <1>2
<1>4. HasInv(wq[m]) => HasInv(wq'[m])
  BY <1>1, <1>2, <1>3, HasInvAppend
<1>5. \A x \in Nodes : HasInv(req[x][m]) => HasInv(req'[x][m]) \/ HasInv(wq'[m])
  <2> SUFFICES ASSUME NEW x \in Nodes, HasInv(req[x][m]) PROVE HasInv(req'[x][m]) \/ HasInv(wq'[m])
    OBVIOUS
  <2>1. CASE x = s /\ m = n
    <3>1. HasInv(Tail(req[s][n])) \/ ~IsAsk(Head(req[s][n]))
      BY <1>1, <1>2, <2>1, HasInvTail
    <3>2. ~IsAsk(Head(req[s][n])) => HasInv(Append(wq[n], Head(req[s][n])))
      BY <1>1, <1>3, HasInvAppend
    <3> QED BY <1>2, <2>1, <3>1, <3>2
  <2>2. CASE ~(x = s /\ m = n)
    BY <1>2, <2>2
  <2> QED BY <2>1, <2>2
<1>6. HasInv(wq'[m]) <=> HasInv(wq[m])'
  BY DEF HasInv
<1>7. \A x \in Nodes : HasInv(req'[x][m]) <=> HasInv(req[x][m])'
  BY DEF HasInv
<1> QED BY <1>4, <1>5, <1>6, <1>7 DEF Doomed

\* Forwarding keeps an invalidation pending.
LEMMA DoomedForwarded ==
  ASSUME TypeOK, NEW m \in Nodes, Doomed(m), NEW n \in Nodes, NEW type \in {"read", "write"},
           Forward(n, type)
  PROVE  Doomed(m)'
<1>1. /\ \A x, d \in Nodes : req[x][d] \in Seq(Proc)
      /\ \A d \in Nodes : wq[d] \in Seq(Proc)
  BY DEF TypeOK
<1>2. /\ wq[n] # <<>> /\ Current(n).type # "inv"
      /\ \A x, d \in Nodes : req'[x][d] = IF x = n /\
           d = owner THEN Append(req[x][d], Current(n)) ELSE req[x][d]
      /\ \A d \in Nodes : wq'[d] = IF d = n THEN Tail(wq[d]) ELSE wq[d]
  BY DEF Forward, Serving, Done, TypeOK
<1>3. Current(n) \in Proc /\ IsAsk(Current(n)) /\ Current(n) = Head(wq[n])
  BY <1>1, <1>2, CurrentType DEF IsAsk, Current
<1>4. HasInv(wq[m]) => HasInv(wq'[m])
  BY <1>1, <1>2, <1>3, HasInvTail
<1>5. \A x \in Nodes : HasInv(req[x][m]) => HasInv(req'[x][m])
  BY <1>1, <1>2, <1>3, HasInvAppend
<1>6. HasInv(wq'[m]) <=> HasInv(wq[m])'
  BY DEF HasInv
<1>7. \A x \in Nodes : HasInv(req'[x][m]) <=> HasInv(req[x][m])'
  BY DEF HasInv
<1> QED BY <1>4, <1>5, <1>6, <1>7 DEF Doomed

\* Serving anything but an invalidation keeps the others pending.
LEMMA DoomedDone ==
  ASSUME TypeOK, NEW m \in Nodes, Doomed(m), NEW n \in Nodes, wq[n] # <<>>, Done(n), req' = req,
         m # n \/ Current(n).type # "inv"
  PROVE  Doomed(m)'
<1>1. \A d \in Nodes : wq[d] \in Seq(Proc)
  BY DEF TypeOK
<1>2. \A d \in Nodes : wq'[d] = IF d = n THEN Tail(wq[d]) ELSE wq[d]
  BY DEF Done, TypeOK
<1>3. HasInv(wq[m]) => HasInv(wq'[m])
  BY <1>1, <1>2, HasInvTail DEF IsAsk, Current
<1>4. HasInv(wq'[m]) <=> HasInv(wq[m])'
  BY DEF HasInv
<1>5. \A x \in Nodes : HasInv(req[x][m]) <=> HasInv(req[x][m])'
  BY DEF HasInv
<1> QED BY <1>3, <1>4, <1>5 DEF Doomed

-----------------------------------------------------------------------------
(* Layer 3: the copies.                                                    *)

\* Versions are natural numbers.
LEMMA VerTypes ==
  ASSUME TypeOK
  PROVE  /\ latest \in Nat /\ \A n \in Nodes : pte[n].ver \in Nat
         /\ \A n \in Nodes, c \in Cpus : reply[n][c] # <<>>
              => Head(reply[n][c]) \in Reply /\ Head(reply[n][c]).ver \in Nat
<1>1. latest \in Nat /\ \A n \in Nodes : pte[n].ver \in Nat
  BY DEF TypeOK, Pte
<1>2. \A n \in Nodes, c \in Cpus : reply[n][c] \in Seq(Reply)
  BY DEF TypeOK
<1>3. \A n \in Nodes, c \in Cpus : reply[n][c] # <<>> => Head(reply[n][c]) \in Reply
  BY <1>2
<1> QED BY <1>1, <1>3 DEF Reply

\* Layer 3 is inductive.
LEMMA CopyStep ==
  ASSUME Nodes \subseteq 0..(CopysetBits - 1), TypeOK, TokenInv, TokenInv',
         OwnerInv, OwnerInv', CopyInv, [Next]_vars
  PROVE  CopyInv'
<1>0. /\ MappedOK /\ WaitOK /\ AskOK /\ ReplyOK /\ CopyOK /\ OneToken
      /\ ReadReplyOK /\ OneOwner /\ OwnerNewest
      /\ ReadOut /\ RwAlone /\ VerOK /\ ReplyDoomed /\ StaleDoomed /\ AllTracked
  BY DEF TokenInv, OwnerInv, CopyInv
<1>t. /\ latest \in Nat /\ \A n \in Nodes : pte[n].ver \in Nat
      /\ \A n \in Nodes, c \in Cpus : reply[n][c] # <<>> => Head(reply[n][c]).ver \in Nat
  BY VerTypes
\* steps that move neither contents nor replies
<1>a. ASSUME UNCHANGED <<reply, latest>>, ReadOut', RwAlone',
             \A m \in Nodes : pte'[m].ver = pte[m].ver,
             \A m \in Nodes : Readable(m)' => Readable(m),
             \A m \in Nodes : Copy(m)' => Copy(m) /\ (Tracked(m) => Tracked(m)' \/ Doomed(m)'),
             \A m \in Nodes : Doomed(m) =>
               \/ Doomed(m)'
               \/ /\ ~Copy(m)' /\ (Readable(m)' => pte[m].ver = latest)
                  /\ \A c \in Cpus : reply[m][c] = <<>>
      PROVE  CopyInv'
  <2>1. VerOK'
    BY <1>0, <1>a DEF VerOK
  <2>2. ReplyDoomed'
    BY <1>0, <1>a DEF ReplyDoomed
  <2>3. StaleDoomed'
    BY <1>0, <1>a, <1>t DEF StaleDoomed
  <2>4. AllTracked'
    BY <1>0, <1>a DEF AllTracked
  <2> QED BY <1>a, <2>1, <2>2, <2>3, <2>4 DEF CopyInv
\* of these, the ones that keep the entries' permissions, owners and copysets
<1>b. ASSUME UNCHANGED <<pte, reply, latest>>, ReadOut',
             \A m \in Nodes : Keeps(m)' <=> Keeps(m),
             \A m \in Nodes : Doomed(m) => Doomed(m)'
      PROVE  CopyInv'
  <2>1. RwAlone'
    BY <1>0, <1>b DEF RwAlone, Writable
  <2>2. \A m \in Nodes : (Copy(m)' <=> Copy(m)) /\ (Tracked(m)' <=> Tracked(m)) /\ (Readable(m)'
          <=> Readable(m))
    BY <1>b DEF Copy, Tracked, ReadOnly, IsOwner, Writable, Readable
  <2> QED BY <1>a, <1>b, <2>1, <2>2
<1>1. ASSUME NEW n \in Nodes, NEW c \in Cpus, GuestStore(n, c) PROVE CopyInv'
  <2>1. Writable(n) /\ UNCHANGED <<wq, req, copying, reply>> /\ latest' = latest + 1
    BY <1>1 DEF GuestStore
  <2>2. /\ \A m \in Nodes : (pte'[m].af <=> pte[m].af) /\ pte'[m].ap = pte[m].ap /\
             pte'[m].cs = pte[m].cs
        /\ pte'[n].ver = pte[n].ver + 1 /\ \A m \in Nodes : m # n => pte'[m].ver = pte[m].ver
    BY <1>1, VerAt DEF GuestStore
  <2>3. \A m \in Nodes : Keeps(m)' <=> Keeps(m)
    BY <2>1, <2>2 DEF Keeps, GivesOut, IsOwner, Writable, ReadOnly, Current
  <2>4. Keeps(n) /\ \A m \in Nodes : Owns(m) => m = n
    BY <1>0, <2>1 DEF Keeps, IsOwner, OneOwner, Owns
  <2>5. \A x \in Cpus : reply[n][x] = <<>>
    BY <1>0, <2>1 DEF ReplyOK, WaitOK, Waits, Writable
  <2>6. \A m \in Nodes : ~Granted(m)
    BY <2>4, <2>5 DEF Owns, Granted
  <2>7. \A m \in Nodes : ~Tracked(m)
    BY <1>0, <2>1, <2>4, <2>6 DEF Tracked, RwAlone, Owns, Granted
  <2>8. \A m \in Nodes : Copy(m) => Doomed(m)
    BY <1>0, <2>7 DEF AllTracked
  <2>9. \A m \in Nodes : Doomed(m) => Doomed(m)'
    BY <2>1, DoomedKept
  <2>10. ReadOut' /\ RwAlone'
    BY <1>0, <2>1, <2>2 DEF ReadOut, RwAlone, GivesOut, ReadOnly, Writable, Current
  <2>11. VerOK'
    BY <1>0, <1>t, <2>1, <2>2, <2>5 DEF VerOK
  <2>12. \A m \in Nodes, x \in Cpus : reply[m][x] # <<>> => Copy(m)
    BY <2>6 DEF Copy, Granted
  <2>13. ReplyDoomed'
    BY <2>1, <2>8, <2>9, <2>12 DEF ReplyDoomed
  <2>14. \A m \in Nodes : m # n /\ Readable(m) => Copy(m)
    BY <2>4 DEF Readable, Copy, ReadOnly, Keeps, Owns, IsOwner, Writable
  <2>15. pte'[n].ver = latest'
    BY <1>0, <2>1, <2>2, <2>4 DEF OwnerNewest
  <2>16. \A m \in Nodes : Readable(m)' => Readable(m)
    BY <2>2 DEF Readable
  <2>17. StaleDoomed'
    BY <1>t, <2>1, <2>8, <2>9, <2>14, <2>15, <2>16 DEF StaleDoomed
  <2>18. \A m \in Nodes : Copy(m)' => Copy(m)
    BY <2>1, <2>2 DEF Copy, ReadOnly, IsOwner, Writable
  <2>19. AllTracked'
    BY <2>8, <2>9, <2>18 DEF AllTracked
  <2> QED BY <2>10, <2>11, <2>13, <2>17, <2>19 DEF CopyInv
<1>2. ASSUME NEW n \in Nodes, NEW c \in Cpus, FaultHit(n, c) \/ ReadFetch(n, c) PROVE CopyInv'
  <2>1. UNCHANGED <<reply, latest, copying, wq, pte>>
    BY <1>2 DEF FaultHit, ReadFetch
  <2>2. \A m \in Nodes : Keeps(m)' <=> Keeps(m)
    BY <2>1 DEF Keeps, GivesOut, IsOwner, Writable, ReadOnly, Current
  <2>3. \A m \in Nodes : Doomed(m) => Doomed(m)'
    <3>1. CASE FaultHit(n, c)
      BY <3>1, DoomedKept DEF FaultHit
    <3>2. CASE ReadFetch(n, c)
      BY <3>2, DoomedSent DEF ReadFetch
    <3> QED BY <1>2, <3>1, <3>2
  <2>4. ReadOut'
    BY <1>0, <2>1 DEF ReadOut, GivesOut, ReadOnly, Current
  <2> QED BY <1>b, <2>1, <2>2, <2>3, <2>4
<1>3. ASSUME NEW n \in Nodes, NEW c \in Cpus, WriteUpgrade(n, c) PROVE CopyInv'
  <2>1. UNCHANGED <<reply, latest, copying, wq>> /\ IsOwner(n) /\ pte[n].af /\
          Invalidate(n, c, pte[n].cs)
    BY <1>3 DEF WriteUpgrade, IsOwner, ReadOnly
  <2>2. /\ pte'[n].af <=> pte[n].af
        /\ pte'[n].ap = "rw" /\ pte'[n].ver = pte[n].ver /\ pte'[n].cs = {}
        /\ \A m \in Nodes : m # n => pte'[m] = pte[m]
    BY <1>3, WriteUpgradeAt
  <2>3. lock[n] = Free
    BY <1>3, SpinlockAt DEF WriteUpgrade
  <2>4. ~copying[n] /\ \A x \in Cpus : reply[n][x] = <<>>
    BY <1>0, <2>3, VsmAssumption DEF CopyOK, Draining, Free, Rx, ReplyOK, WaitOK, Waits
  <2>5. ReadOut'
    BY <1>0, <2>1, <2>2, <2>4 DEF ReadOut, GivesOut, ReadOnly, Current
  <2>6. RwAlone'
    BY <1>0, <2>2 DEF RwAlone, Writable
  <2>7. \A m \in Nodes : Readable(m)' => Readable(m)
    BY <1>3, <2>1, <2>2 DEF Readable, WriteUpgrade, ReadOnly
  <2>8. \A m \in Nodes : Doomed(m) \/ m \in pte[n].cs \ {n} => Doomed(m)'
    BY <2>1, DoomedInvalidated
  <2>9. ~Copy(n)' /\ \A m \in Nodes : m # n => (Copy(m)' <=> Copy(m))
    BY <2>1, <2>2, <2>4 DEF Copy, ReadOnly, IsOwner, Writable
  <2>10. \A h \in Nodes : h # n => ~Keeps(h)
    BY <1>0, <2>1 DEF OneOwner, Owns, Keeps
  <2>11. \A m \in Nodes : m # n /\ Tracked(m) => Tracked(m)' \/ Doomed(m)'
    BY <2>1, <2>8, <2>10 DEF Tracked
  <2> QED BY <1>a, <2>1, <2>2, <2>5, <2>6, <2>7, <2>8, <2>9, <2>11
<1>4. ASSUME NEW n \in Nodes, NEW c \in Cpus, WriteFetch(n, c) PROVE CopyInv'
  <2>1. UNCHANGED <<reply, latest, copying, wq>> /\ ~IsOwner(n) /\ SendFetchReq(n, c, "write")
    BY <1>4 DEF WriteFetch
  <2>2. /\ ~pte'[n].af /\ pte'[n].ver = pte[n].ver /\ pte'[n].cs = pte[n].cs
        /\ \A m \in Nodes : m # n => pte'[m] = pte[m]
    BY <1>0, <1>4, WriteFetchAt
  <2>3. lock[n] = Free
    BY <1>4, SpinlockAt DEF WriteFetch
  <2>4. ~copying[n] /\ \A x \in Cpus : reply[n][x] = <<>>
    BY <1>0, <2>3, VsmAssumption DEF CopyOK, Draining, Free, Rx, ReplyOK, WaitOK, Waits
  <2>5. ReadOut'
    BY <1>0, <2>1, <2>2, <2>4 DEF ReadOut, GivesOut, ReadOnly, Current
  <2>6. RwAlone'
    BY <1>0, <2>2 DEF RwAlone, Writable
  <2>7. \A m \in Nodes : Readable(m)' => Readable(m)
    BY <2>2 DEF Readable
  <2>8. \A m \in Nodes : Doomed(m) => Doomed(m)'
    BY <2>1, DoomedSent
  <2>9. ~Copy(n)' /\ \A m \in Nodes : m # n => (Copy(m)' <=> Copy(m))
    BY <2>1, <2>2, <2>4 DEF Copy, ReadOnly, IsOwner, Writable
  <2>10. \A h \in Nodes : Keeps(h) => Keeps(h)' /\ pte'[h].cs = pte[h].cs
    BY <2>1, <2>2 DEF Keeps, GivesOut, IsOwner, Writable, ReadOnly, Current
  <2>11. \A m \in Nodes : Tracked(m) => Tracked(m)'
    BY <2>1, <2>10 DEF Tracked
  <2> QED BY <1>a, <2>1, <2>2, <2>5, <2>6, <2>7, <2>8, <2>9, <2>11
<1>5. ASSUME NEW n \in Nodes, NEW c \in Cpus, ReadFetched(n, c) PROVE CopyInv'
  <2> DEFINE r == Head(reply[n][c])
  <2>1. pc[n][c] = "readwait" /\ TakeReply(n, c) /\ UNCHANGED <<copying, wq, req, latest>>
    BY <1>5 DEF ReadFetched
  <2>2. /\ reply[n][c] # <<>> /\ ~pte[n].af /\ reply'[n][c] = <<>>
        /\ \A m \in Nodes, x \in Cpus : (m # n \/ x # c) => reply'[m][x] = reply[m][x]
    BY <1>0, <2>1, TakeReplyAt
  <2>3. ~r.wnr /\ r.cs = {}
    BY <1>0, <2>1, <2>2 DEF ReplyOK, ReadReplyOK
  <2>4. /\ pte'[n].af /\ pte'[n].ap = "ro" /\ pte'[n].cs = r.cs /\ pte'[n].ver = r.ver
        /\ \A m \in Nodes : m # n => pte'[m] = pte[m]
    BY <1>5, EntryType DEF ReadFetched
  <2>5. ~copying[n] /\ \A x \in Cpus : reply[n][x] # <<>> => x = c
    <3>1. Waits(n, c)
      BY <2>1 DEF Waits
    <3>2. ~copying[n]
      BY <1>0, <3>1, DrainingIdle DEF CopyOK
    <3>3. \A x \in Cpus : reply[n][x] # <<>> => x = c
      BY <1>0, <3>1 DEF ReplyOK, WaitOK, Waits
    <3> QED BY <3>2, <3>3
  <2>6. \A m \in Nodes : Doomed(m) => Doomed(m)'
    BY <2>1, DoomedKept
  <2>7. ReadOut'
    BY <1>0, <2>1, <2>4, <2>5 DEF ReadOut, GivesOut, ReadOnly, Current
  <2>8. RwAlone'
    BY <1>0, <2>4 DEF RwAlone, Writable
  <2>9. VerOK'
    BY <1>0, <2>1, <2>2, <2>4, <2>5 DEF VerOK
  <2>10. ReplyDoomed'
    BY <1>0, <2>1, <2>2, <2>6 DEF ReplyDoomed
  <2>11. StaleDoomed'
    BY <1>0, <2>1, <2>2, <2>4, <2>6 DEF StaleDoomed, ReplyDoomed, Readable
  <2>12. \A h \in Nodes : Keeps(h) => h # n /\ Keeps(h)'
    BY <2>1, <2>2, <2>4, <2>5 DEF Keeps, GivesOut, IsOwner, Writable, ReadOnly, Current
  <2>13. \A m \in Nodes : Tracked(m) => Tracked(m)'
    <3> SUFFICES ASSUME NEW m \in Nodes, Tracked(m) PROVE Tracked(m)'
      OBVIOUS
    <3>1. CASE \E h \in Nodes : Keeps(h) /\ m \in pte[h].cs
      BY <2>4, <2>12, <3>1 DEF Tracked
    <3>2. CASE \E y \in Nodes, x \in Cpus : reply[y][x] # <<>> /\ Head(reply[y][x]).wnr /\
                 m \in Head(reply[y][x]).cs
      BY <2>2, <2>3, <3>2 DEF Tracked
    <3> QED BY <3>1, <3>2 DEF Tracked
  <2>14. \A m \in Nodes : Copy(m)' => Copy(m)
    BY <2>2, <2>3, <2>4 DEF Copy, ReadOnly, IsOwner, Writable
  <2>15. AllTracked'
    BY <1>0, <2>6, <2>13, <2>14 DEF AllTracked
  <2> QED BY <2>7, <2>8, <2>9, <2>10, <2>11, <2>15 DEF CopyInv
<1>6. ASSUME NEW n \in Nodes, NEW c \in Cpus, WriteFetched(n, c) PROVE CopyInv'
  <2> DEFINE r == Head(reply[n][c])
  <2>1. pc[n][c] = "writewait" /\ TakeReply(n, c) /\ Invalidate(n, c, r.cs) /\
          UNCHANGED <<copying, wq, latest>>
    BY <1>6 DEF WriteFetched
  <2>2. /\ reply[n][c] # <<>> /\ ~pte[n].af /\ reply'[n][c] = <<>>
        /\ \A m \in Nodes, x \in Cpus : (m # n \/ x # c) => reply'[m][x] = reply[m][x]
    BY <1>0, <2>1, TakeReplyAt
  <2>3. r.wnr /\ r.ver = latest
    BY <1>0, <2>1, <2>2 DEF ReplyOK, OwnerNewest
  <2>4. /\ pte'[n].af /\ pte'[n].ap = "rw" /\ pte'[n].cs = {} /\ pte'[n].ver = r.ver
        /\ \A m \in Nodes : m # n => pte'[m] = pte[m]
    BY <1>6, EntryType DEF WriteFetched
  <2>5. ~copying[n] /\ \A x \in Cpus : reply[n][x] # <<>> => x = c
    <3>1. Waits(n, c)
      BY <2>1 DEF Waits
    <3>2. ~copying[n]
      BY <1>0, <3>1, DrainingIdle DEF CopyOK
    <3>3. \A x \in Cpus : reply[n][x] # <<>> => x = c
      BY <1>0, <3>1 DEF ReplyOK, WaitOK, Waits
    <3> QED BY <3>2, <3>3
  <2>6. \A m \in Nodes : Doomed(m) \/ m \in r.cs \ {n} => Doomed(m)'
    BY <2>1, DoomedInvalidated
  <2>7. ReadOut'
    BY <1>0, <2>1, <2>4, <2>5 DEF ReadOut, GivesOut, ReadOnly, Current
  <2>8. RwAlone'
    BY <1>0, <2>4 DEF RwAlone, Writable
  <2>9. VerOK'
    BY <1>0, <1>t, <2>1, <2>2, <2>3, <2>4, <2>5 DEF VerOK
  <2>10. ReplyDoomed'
    BY <1>0, <2>1, <2>2, <2>6 DEF ReplyDoomed
  <2>11. StaleDoomed'
    BY <1>0, <1>t, <2>1, <2>3, <2>4, <2>6 DEF StaleDoomed, Readable
  <2>12. \A m \in Nodes : Tracked(m) => m \in r.cs
    <3>1. Granted(n) /\ \A m \in Nodes : Owns(m) => m = n
      BY <1>0, <2>2, <2>3 DEF Granted, OneOwner, Owns
    <3>2. ~Keeps(n)
      BY <2>2, <2>5 DEF Keeps, GivesOut, IsOwner, Writable, ReadOnly
    <3>3. \A h \in Nodes : ~Keeps(h)
      BY <3>1, <3>2 DEF Owns
    <3>4. \A m \in Nodes, x \in Cpus : reply[m][x] # <<>> /\ Head(reply[m][x]).wnr => m = n /\ x = c
      BY <2>5, <3>1 DEF Owns, Granted
    <3> QED BY <3>3, <3>4 DEF Tracked
  <2>13. ~Copy(n)' /\ \A m \in Nodes : m # n => (Copy(m)' <=> Copy(m))
    BY <2>2, <2>4, <2>5 DEF Copy, ReadOnly, IsOwner, Writable
  <2>14. AllTracked'
    BY <1>0, <2>6, <2>12, <2>13 DEF AllTracked
  <2> QED BY <2>7, <2>8, <2>9, <2>10, <2>11, <2>14 DEF CopyInv
<1>7. ASSUME NEW s \in Nodes, NEW n \in Nodes, RecvRequest(s, n) PROVE CopyInv'
  <2>1. /\ \A m \in Nodes : wq[m] # <<>> => wq'[m] # <<>> /\ Head(wq'[m]) = Head(wq[m])
        /\ UNCHANGED <<pte, copying, reply, latest>>
    BY <1>7, RecvAt
  <2>2. \A m \in Nodes, t \in {"read", "write"} : GivesOut(m, t)'
          => GivesOut(m, t) /\ Current(m)' = Current(m)
    BY <1>0, <2>1 DEF GivesOut, Current, CopyOK
  <2>3. \A m \in Nodes : Keeps(m)' <=> Keeps(m)
    BY <1>0, <2>1 DEF Keeps, GivesOut, IsOwner, Writable, ReadOnly, Current, CopyOK
  <2>4. ReadOut'
    BY <1>0, <2>1, <2>2 DEF ReadOut, ReadOnly
  <2>5. \A m \in Nodes : Doomed(m) => Doomed(m)'
    BY <1>7, DoomedMoved
  <2> QED BY <1>b, <2>1, <2>3, <2>4, <2>5
<1>8. ASSUME NEW n \in Nodes, ReadServer(n) PROVE CopyInv'
  <2>1. CopysetBit(Current(n).node) = {Current(n).node}
    BY <1>8, CurrentType DEF ReadServer, Serving, CopysetBit, Proc
  <2>2. /\ pte'[n].af <=> pte[n].af
        /\ pte'[n].ap = "ro" /\ pte'[n].cs = pte[n].cs \cup {Current(n).node}
        /\ pte'[n].ver = pte[n].ver
        /\ \A m \in Nodes : m # n => pte'[m] = pte[m]
    BY <1>8, <2>1, ReadServerAt
  <2>3. /\ pte[n].af /\ Current(n).type = "read" /\ IsOwner(n)
        /\ UNCHANGED <<wq, req, reply, latest>> /\ \A m \in Nodes : m # n
             => copying'[m] = copying[m]
    BY <1>8 DEF ReadServer, Serving, IsOwner, Writable, ReadOnly, TypeOK
  <2>4. ReadOut'
    BY <1>0, <2>2, <2>3 DEF ReadOut, GivesOut, ReadOnly, Current
  <2>5. RwAlone'
    BY <1>0, <2>2 DEF RwAlone, Writable
  <2>6. \A m \in Nodes : Readable(m)' => Readable(m)
    BY <2>2, <2>3 DEF Readable, IsOwner, Writable, ReadOnly
  <2>7. \A m \in Nodes : Doomed(m) => Doomed(m)'
    BY <2>3, DoomedKept
  <2>8. \A m \in Nodes : Copy(m)' => Copy(m)
    BY <2>2, <2>3 DEF Copy, ReadOnly, IsOwner, Writable
  <2>9. \A h \in Nodes : Keeps(h) => Keeps(h)' /\ pte[h].cs \subseteq pte'[h].cs
    BY <2>2, <2>3 DEF Keeps, GivesOut, IsOwner, Writable, ReadOnly, Current
  <2>10. \A m \in Nodes : Tracked(m) => Tracked(m)'
    BY <2>3, <2>9 DEF Tracked
  <2> QED BY <1>a, <2>2, <2>3, <2>4, <2>5, <2>6, <2>7, <2>8, <2>10
<1>9. ASSUME NEW n \in Nodes, WriteServer(n) PROVE CopyInv'
  <2>1. /\ ~pte'[n].af /\ pte'[n].ver = pte[n].ver /\ pte'[n].cs = pte[n].cs
        /\ \A m \in Nodes : m # n => pte'[m] = pte[m]
    BY <1>9, AfAt DEF WriteServer
  <2>2. /\ Current(n).type = "write" /\ IsOwner(n)
        /\ UNCHANGED <<wq, req, reply, latest>>
        /\ copying'[n] /\ \A m \in Nodes : m # n => copying'[m] = copying[m]
    BY <1>9 DEF WriteServer, Serving, TypeOK
  <2>4. ReadOut'
    BY <1>0, <2>1, <2>2 DEF ReadOut, GivesOut, ReadOnly, Current
  <2>5. RwAlone'
    BY <1>0, <2>1 DEF RwAlone, Writable
  <2>6. \A m \in Nodes : Readable(m)' => Readable(m)
    BY <2>1 DEF Readable
  <2>7. \A m \in Nodes : Doomed(m) => Doomed(m)'
    BY <2>2, DoomedKept
  <2>8. \A m \in Nodes : Copy(m)' => Copy(m)
    BY <2>1, <2>2 DEF Copy, ReadOnly, IsOwner, Writable
  <2>9. \A h \in Nodes : Keeps(h) => Keeps(h)' /\ pte'[h].cs = pte[h].cs
    BY <2>1, <2>2 DEF Keeps, GivesOut, IsOwner, Writable, ReadOnly, Current
  <2>10. \A m \in Nodes : Tracked(m) => Tracked(m)'
    BY <2>2, <2>9 DEF Tracked
  <2> QED BY <1>a, <2>1, <2>2, <2>4, <2>5, <2>6, <2>7, <2>8, <2>10
<1>10. ASSUME NEW n \in Nodes, SendReadReply(n) \/ SendWriteReply(n) PROVE CopyInv'
  <2> DEFINE p == Current(n)
  <2>1. /\ wq[n] # <<>> /\ Done(n) /\ p.type \in {"read", "write"} /\ Draining(n)
        /\ UNCHANGED <<pte, req, latest>> /\ copying[n]
        /\ copying' = [copying EXCEPT ![n] = FALSE]
    BY <1>10 DEF SendReadReply, SendWriteReply, Serving
  <2>2. PICK r \in Reply : /\ SendReply(n, r) /\ (r.wnr <=> p.type = "write")
                           /\ r.ver = pte[n].ver
                           /\ r.cs = IF p.type = "write" THEN pte[n].cs ELSE {}
    BY <1>10, ReplySent
  <2>3. p \in Pending
    BY <1>0, <2>1, PendingDone DEF IsAsk
  <2>4. /\ p.node \in Nodes /\ p.cpu \in Cpus /\ reply[p.node][p.cpu] = <<>>
        /\ p.node # n
    BY <1>0, <2>1, <2>3, PendingType, PendingWaits DEF AskOK
  <2>5. /\ reply'[p.node][p.cpu] = <<r>>
        /\ \A m \in Nodes, x \in Cpus : (m # p.node \/ x # p.cpu) => reply'[m][x] = reply[m][x]
    BY <2>2, <2>4, SendReplyAt
  <2>6. <<r>> # <<>> /\ Head(<<r>>) = r
    OBVIOUS
  <2>7. ~copying'[n] /\ \A m \in Nodes : m # n => wq'[m] = wq[m] /\ copying'[m] = copying[m]
    BY <2>1, DoneAt DEF TypeOK
  <2>8. ReadOut'
    BY <1>0, <2>1, <2>7 DEF ReadOut, GivesOut, ReadOnly, Current
  <2>9. RwAlone'
    BY <1>0, <2>1 DEF RwAlone, Writable
  <2>10. \A m \in Nodes : Doomed(m) => Doomed(m)'
    BY <2>1, DoomedDone
  <2>11. Keeps(n)
    BY <1>0, <2>1 DEF Keeps, GivesOut, ReadOut, IsOwner, ReadOnly
  <2>12. pte[n].ver = latest
    BY <1>0, <2>11 DEF OwnerNewest
  <2>13. VerOK'
    BY <1>0, <1>t, <2>1, <2>2, <2>4, <2>5, <2>6, <2>12 DEF VerOK
  <2>14. ReplyDoomed'
    BY <1>0, <1>t, <2>1, <2>2, <2>5, <2>6, <2>10, <2>12 DEF ReplyDoomed
  <2>15. StaleDoomed'
    BY <1>0, <2>1, <2>10 DEF StaleDoomed, Readable
  <2>16. CASE p.type = "read"
    <3>1. \A h \in Nodes : Keeps(h) => Keeps(h)'
      BY <2>1, <2>7, <2>16 DEF Keeps, GivesOut, IsOwner, Writable, ReadOnly, Current
    <3>2. p.node \in pte[n].cs
      BY <1>0, <2>1, <2>16 DEF ReadOut, GivesOut
    <3>3. \A m \in Nodes : m = p.node => Tracked(m)'
      BY <2>1, <2>11, <3>1, <3>2 DEF Tracked
    <3>4. \A m \in Nodes : Tracked(m) => Tracked(m)'
      <4> SUFFICES ASSUME NEW m \in Nodes, Tracked(m) PROVE Tracked(m)'
        OBVIOUS
      <4>1. CASE \E h \in Nodes : Keeps(h) /\ m \in pte[h].cs
        BY <2>1, <3>1, <4>1 DEF Tracked
      <4>2. CASE \E y \in Nodes, x \in Cpus : reply[y][x] # <<>> /\ Head(reply[y][x]).wnr /\
                   m \in Head(reply[y][x]).cs
        BY <2>4, <2>5, <4>2 DEF Tracked
      <4> QED BY <4>1, <4>2 DEF Tracked
    <3>5. \A m \in Nodes : m # p.node => (Copy(m)' <=> Copy(m))
      BY <2>1, <2>5 DEF Copy, ReadOnly, IsOwner, Writable
    <3>6. AllTracked'
      BY <1>0, <2>10, <3>3, <3>4, <3>5 DEF AllTracked
    <3> QED BY <2>8, <2>9, <2>13, <2>14, <2>15, <3>6 DEF CopyInv
  <2>17. CASE p.type = "write"
    <3>1. \A h \in Nodes : Keeps(h) => h = n
      BY <1>0, <2>11 DEF OneOwner, Owns
    <3>2. \A m \in Nodes : ~Granted(m)
      <4>1. \A x \in Cpus : reply[n][x] = <<>>
        BY <1>0, <2>1, DrainingIdle
      <4> QED BY <1>0, <2>11, <4>1 DEF OneOwner, Owns, Granted
    <3>3. \A m \in Nodes : Tracked(m) => m \in pte[n].cs
      BY <3>1, <3>2 DEF Tracked, Granted
    <3>4. \A m \in pte[n].cs : Tracked(m)'
      <4>1. reply'[p.node][p.cpu] # <<>> /\ Head(reply'[p.node][p.cpu]).wnr /\
              Head(reply'[p.node][p.cpu]).cs = pte[n].cs
        BY <2>2, <2>5, <2>6, <2>17
      <4>2. \E y \in Nodes, x \in Cpus : reply'[y][x] # <<>> /\ Head(reply'[y][x]).wnr /\
              Head(reply'[y][x]).cs = pte[n].cs
        BY <2>4, <4>1
      <4> QED BY <4>2 DEF Tracked
    <3>5. \A m \in Nodes : Copy(m)' => Copy(m)
      BY <2>1, <2>2, <2>5, <2>6, <2>17 DEF Copy, ReadOnly, IsOwner, Writable
    <3>6. AllTracked'
      BY <1>0, <2>10, <3>3, <3>4, <3>5 DEF AllTracked
    <3> QED BY <2>8, <2>9, <2>13, <2>14, <2>15, <3>6 DEF CopyInv
  <2> QED BY <2>1, <2>16, <2>17
<1>11. ASSUME NEW n \in Nodes, ForwardRead(n) \/ ForwardWrite(n) PROVE CopyInv'
  <2>1. PICK type \in {"read", "write"} : Forward(n, type)
    BY <1>11 DEF ForwardRead, ForwardWrite
  <2>2. UNCHANGED <<pte, copying, reply, latest>> /\ Done(n) /\ ~copying[n]
    BY <2>1 DEF Forward
  <2>3. \A m \in Nodes : m # n => wq'[m] = wq[m]
    BY <2>2, DoneAt
  <2>4. \A m \in Nodes : Keeps(m)' <=> Keeps(m)
    BY <2>2, <2>3 DEF Keeps, GivesOut, IsOwner, Writable, ReadOnly, Current
  <2>5. ReadOut'
    BY <1>0, <2>2, <2>3 DEF ReadOut, GivesOut, ReadOnly, Current
  <2>6. \A m \in Nodes : Doomed(m) => Doomed(m)'
    BY <2>1, DoomedForwarded
  <2> QED BY <1>b, <2>2, <2>4, <2>5, <2>6
<1>12. ASSUME NEW n \in Nodes, InvalidateServer(n) PROVE CopyInv'
  <2>1. /\ wq[n] # <<>> /\ Current(n).type = "inv" /\ Done(n) /\ Draining(n)
        /\ UNCHANGED <<copying, req, reply, latest>>
    BY <1>12 DEF InvalidateServer, Serving
  <2>2. /\ pte'[n].af <=> pte[n].af /\ IsOwner(n)
        /\ pte'[n].ap = pte[n].ap /\ pte'[n].cs = pte[n].cs /\ pte'[n].ver = pte[n].ver
        /\ \A m \in Nodes : m # n => pte'[m] = pte[m]
    BY <1>12, InvalidatedAt
  <2>3. ~copying[n] /\ \A m \in Nodes : m # n => wq'[m] = wq[m]
    BY <1>0, <2>1, DoneAt DEF CopyOK
  <2>4. \A x \in Cpus : reply[n][x] = <<>>
    BY <1>0, <2>1, DrainingIdle
  <2>5. ReadOut'
    BY <1>0, <2>1, <2>2, <2>3 DEF ReadOut, GivesOut, ReadOnly, Current
  <2>6. RwAlone'
    BY <1>0, <2>2 DEF RwAlone, Writable
  <2>7. \A m \in Nodes : Readable(m)' => Readable(m)
    BY <2>2 DEF Readable
  <2>8. \A m \in Nodes : m # n => (Doomed(m) => Doomed(m)')
    BY <2>1, DoomedDone
  <2>9. ~Copy(n)'
    BY <2>1, <2>2, <2>4 DEF Copy, ReadOnly, IsOwner, Writable
  <2>10. Readable(n)' => pte[n].ver = latest
    BY <1>0, <2>2 DEF Readable, OwnerNewest, Keeps
  <2>11. \A m \in Nodes : m # n => (Copy(m)' <=> Copy(m))
    BY <2>1, <2>2 DEF Copy, ReadOnly, IsOwner, Writable
  <2>12. \A h \in Nodes : Keeps(h) => Keeps(h)' /\ pte'[h].cs = pte[h].cs
    BY <2>1, <2>2, <2>3 DEF Keeps, GivesOut, IsOwner, Writable, ReadOnly, Current
  <2>13. \A m \in Nodes : Tracked(m) => Tracked(m)'
    BY <2>1, <2>12 DEF Tracked
  <2> QED BY <1>a, <2>1, <2>2, <2>4, <2>5, <2>6, <2>7, <2>8, <2>9, <2>10, <2>11, <2>13
<1>13. ASSUME UNCHANGED <<reply, latest, copying, wq, pte, req>> PROVE CopyInv'
  <2>1. \A m \in Nodes : Keeps(m)' <=> Keeps(m)
    BY <1>13 DEF Keeps, GivesOut, IsOwner, Writable, ReadOnly, Current
  <2>2. \A m \in Nodes : Doomed(m) => Doomed(m)'
    BY <1>13, DoomedKept
  <2>3. ReadOut'
    BY <1>0, <1>13 DEF ReadOut, GivesOut, ReadOnly, Current
  <2> QED BY <1>b, <1>13, <2>1, <2>2, <2>3
<1>14. ASSUME NEW n \in Nodes, PageUnlock(n) PROVE CopyInv'
  BY <1>13, <1>14 DEF PageUnlock
<1>15. CASE UNCHANGED vars
  BY <1>13, <1>15 DEF vars
<1> QED
  BY <1>1, <1>2, <1>3, <1>4, <1>5, <1>6, <1>7, <1>8, <1>9, <1>10, <1>11,
     <1>12, <1>14, <1>15, VsmAssumption DEF Next, FaultHandler, Server

\* Layer 3 holds initially.
LEMMA CopyInit == ASSUME Init PROVE CopyInv
<1>1. \A n \in Nodes : ~copying[n] /\ (Readable(n) => n = Manager) /\ (ReadOnly(n) => FALSE)
  BY DEF Init, Readable, ReadOnly
<1>2. ReadOut /\ RwAlone
  BY <1>1 DEF Init, ReadOut, RwAlone, GivesOut
<1>3. \A n \in Nodes, c \in Cpus : reply[n][c] = <<>>
  BY DEF Init
<1>4. VerOK /\ ReplyDoomed
  BY <1>3 DEF Init, VerOK, ReplyDoomed
<1>5. StaleDoomed
  BY DEF Init, StaleDoomed
<1>6. AllTracked
  BY <1>1, <1>3 DEF AllTracked, Copy
<1> QED BY <1>2, <1>4, <1>5, <1>6 DEF CopyInv

\* Doomed is InvPending of the properties.
LEMMA DoomedIsPending ==
  ASSUME TypeOK, NEW n \in Nodes
  PROVE  Doomed(n) => InvPending(n)
<1>1. wq[n] \in Seq(Proc) /\ DOMAIN wq[n] = 1..Len(wq[n])
  BY DEF TypeOK
<1>2. \A s \in Nodes : req[s][n] \in Seq(Proc) /\ DOMAIN req[s][n] = 1..Len(req[s][n])
  BY DEF TypeOK
<1> QED BY <1>1, <1>2 DEF Doomed, InvPending, HasInv, IsAsk

\* Layers 1 to 3 imply the two properties of the copies.
LEMMA CopySafe ==
  ASSUME TypeOK, TokenInv, OwnerInv, CopyInv
  PROVE  CopiesTracked /\ StaleIsDoomed
<1>0. ReplyOK /\ StaleDoomed /\ AllTracked
  BY DEF TokenInv, CopyInv
<1>1. StaleIsDoomed
  BY <1>0, DoomedIsPending DEF StaleIsDoomed, StaleDoomed
<1>2. ASSUME NEW n \in Nodes, HasCopy(n) PROVE Copy(n)
  <2>1. CASE ReadOnly(n) /\ ~IsOwner(n)
    BY <2>1 DEF Copy
  <2>2. CASE \E t \in Replies : t[1] = n /\ ~ReplyAt(t).wnr
    <3>1. PICK t \in Replies : t[1] = n /\ ~ReplyAt(t).wnr
      BY <2>2
    <3>2. PICK m \in Nodes, c \in Cpus, i \in 1..2 : t = <<m, c, i>>
      BY DEF Replies
    <3>3. i \in DOMAIN reply[m][c] /\ ~reply[m][c][i].wnr /\ m = n
      BY <3>1, <3>2 DEF Replies, ReplyAt
    <3>4. reply[m][c] \in Seq(Reply) /\ DOMAIN reply[m][c] = 1..Len(reply[m][c])
      BY DEF TypeOK
    <3>5. reply[m][c] # <<>>
      BY <3>3, <3>4
    <3>6. Len(reply[m][c]) = 1
      BY <1>0, <3>5 DEF ReplyOK
    <3>7. i = 1 /\ Head(reply[m][c]) = reply[m][c][1]
      BY <3>3, <3>4, <3>5, <3>6
    <3> QED BY <3>3, <3>5, <3>7 DEF Copy
  <2> QED BY <1>2, <2>1, <2>2 DEF HasCopy
<1>3. ASSUME NEW n \in Nodes, Tracked(n) PROVE InCopyset(n)
  <2>1. CASE \E h \in Nodes : Keeps(h) /\ n \in pte[h].cs
    BY <2>1, HoldersAre DEF InCopyset
  <2>2. CASE \E m \in Nodes, c \in Cpus :
               reply[m][c] # <<>> /\ Head(reply[m][c]).wnr /\ n \in Head(reply[m][c]).cs
    <3>1. PICK m \in Nodes, c \in Cpus :
               reply[m][c] # <<>> /\ Head(reply[m][c]).wnr /\ n \in Head(reply[m][c]).cs
      BY <2>2
    <3>2. <<m, c, 1>> \in Grants /\ ReplyAt(<<m, c, 1>>) = Head(reply[m][c])
      BY <3>1, GrantsAre
    <3> QED BY <3>1, <3>2 DEF InCopyset
  <2> QED BY <1>3, <2>1, <2>2 DEF Tracked
<1>4. CopiesTracked
  BY <1>0, <1>2, <1>3, DoomedIsPending DEF CopiesTracked, AllTracked
<1> QED BY <1>1, <1>4

CoherenceInv == TypeOK /\ TokenInv /\ OwnerInv /\ CopyInv

\* Layers 1 to 3 hold in every reachable state.
LEMMA CoherenceInvariant ==
  ASSUME Nodes \subseteq 0..(CopysetBits - 1)
  PROVE  Spec => []CoherenceInv
<1>1. Init => CoherenceInv
  BY TypeInit, TokenInit, OwnerInit, CopyInit DEF CoherenceInv
<1>2. CoherenceInv /\ [Next]_vars => CoherenceInv'
  BY TypeStep, TokenStep, OwnerStep, CopyStep DEF CoherenceInv
<1> QED BY <1>1, <1>2, PTL DEF Spec

\* A writer can reach every copy: each is in the copyset that travels with
\* the ownership or has an invalidation coming (s2pte_add_copyset,
\* vsm_invalidate).
THEOREM CopiesReachable ==
  ASSUME Nodes \subseteq 0..(CopysetBits - 1)
  PROVE  Spec => []CopiesTracked
<1>1. CoherenceInv => CopiesTracked
  BY CopySafe DEF CoherenceInv
<1> QED BY <1>1, CoherenceInvariant, PTL

\* A node that maps contents older than the newest store has an invalidation
\* coming, although vsm_invalidate awaits no acknowledgement.
THEOREM StaleCopiesDoomed ==
  ASSUME Nodes \subseteq 0..(CopysetBits - 1)
  PROVE  Spec => []StaleIsDoomed
<1>1. CoherenceInv => StaleIsDoomed
  BY CopySafe DEF CoherenceInv
<1> QED BY <1>1, CoherenceInvariant, PTL

\* Every step is a step of the coherent page or changes nothing of it.
LEMMA CoherentStep ==
  ASSUME CoherenceInv, [Next]_vars
  PROVE  [Coherent!Next]_<<latest, [n \in Nodes |-> pte[n].ver]>>
<1> DEFINE vw == [n \in Nodes |-> pte[n].ver]
           G  == [Coherent!Next]_<<latest, vw>>
<1>0. /\ TypeOK /\ MappedOK /\ ReplyOK /\ OwnerNewest /\ VerOK
  BY DEF CoherenceInv, TokenInv, OwnerInv, CopyInv
<1>t. /\ latest \in Nat /\ \A n \in Nodes : pte[n].ver \in Nat
      /\ \A n \in Nodes, c \in Cpus : reply[n][c] # <<>> => Head(reply[n][c]).ver \in Nat
  BY <1>0, VerTypes
<1>a. ASSUME latest' = latest, \A m \in Nodes : pte'[m].ver = pte[m].ver
      PROVE  G
  BY <1>a
<1>b. ASSUME NEW n \in Nodes, NEW v, latest' = latest, pte[n].ver <= v, v <= latest, v \in Nat,
             pte'[n].ver = v, \A m \in Nodes : m # n => pte'[m] = pte[m]
      PROVE  G
  <2>1. vw' = [vw EXCEPT ![n] = v]
    BY <1>b
  <2>2. v \in vw[n]..latest
    BY <1>b, <1>t
  <2>3. Coherent!Refresh(n)
    BY <1>b, <2>1, <2>2 DEF Coherent!Refresh
  <2> QED BY <2>3 DEF Coherent!Next
<1>1. ASSUME NEW n \in Nodes, NEW c \in Cpus, GuestStore(n, c)
      PROVE  G
  <2>1. Writable(n) /\ latest' = latest + 1
    BY <1>1 DEF GuestStore
  <2>2. pte'[n].ver = pte[n].ver + 1 /\ \A m \in Nodes : m # n => pte'[m] = pte[m]
    BY <1>0, <1>1, VerAt DEF GuestStore
  <2>3. pte[n].ver = latest
    BY <1>0, <2>1 DEF OwnerNewest, Keeps, IsOwner
  <2>4. vw' = [vw EXCEPT ![n] = latest + 1]
    BY <2>2, <2>3
  <2>5. Coherent!Store(n)
    BY <2>1, <2>3, <2>4 DEF Coherent!Store
  <2> QED BY <2>5 DEF Coherent!Next
<1>2. ASSUME NEW n \in Nodes, NEW c \in Cpus, ReadFetched(n, c) \/ WriteFetched(n, c)
      PROVE  G
  <2> DEFINE r == Head(reply[n][c])
  <2>1. reply[n][c] # <<>> /\ latest' = latest
    BY <1>2 DEF ReadFetched, WriteFetched, TakeReply
  <2>2. pte'[n].ver = r.ver /\ \A m \in Nodes : m # n => pte'[m] = pte[m]
    BY <1>0, <1>2, EntryType DEF ReadFetched, WriteFetched
  <2>3. pte[n].ver <= r.ver /\ r.ver <= latest /\ r.ver \in Nat
    BY <1>0, <1>t, <2>1 DEF VerOK
  <2> QED BY <1>b, <2>1, <2>2, <2>3
<1>3. ASSUME NEW n \in Nodes, NEW c \in Cpus, FaultHit(n, c) \/ ReadFetch(n, c)
      PROVE  G
  BY <1>a, <1>3 DEF FaultHit, ReadFetch
<1>4. ASSUME NEW n \in Nodes, NEW c \in Cpus, WriteUpgrade(n, c)
      PROVE  G
  <2>1. \A m \in Nodes : pte'[m].ver = pte[m].ver
    BY <1>0, <1>4, WriteUpgradeAt
  <2> QED BY <1>a, <1>4, <2>1 DEF WriteUpgrade
<1>5. ASSUME NEW n \in Nodes, NEW c \in Cpus, WriteFetch(n, c)
      PROVE  G
  <2>1. \A m \in Nodes : pte'[m].ver = pte[m].ver
    BY <1>0, <1>5, WriteFetchAt
  <2> QED BY <1>a, <1>5, <2>1 DEF WriteFetch
<1>6. ASSUME NEW n \in Nodes, ReadServer(n) PROVE G
  <2>1. \A m \in Nodes : pte'[m].ver = pte[m].ver
    BY <1>0, <1>6, ReadServerAt
  <2> QED BY <1>a, <1>6, <2>1 DEF ReadServer
<1>7. ASSUME NEW n \in Nodes, WriteServer(n) PROVE G
  <2>1. \A m \in Nodes : pte'[m].ver = pte[m].ver
    BY <1>0, <1>7, AfAt DEF WriteServer
  <2> QED BY <1>a, <1>7, <2>1 DEF WriteServer
<1>8. ASSUME NEW n \in Nodes, InvalidateServer(n) PROVE G
  <2>1. \A m \in Nodes : pte'[m].ver = pte[m].ver
    BY <1>0, <1>8, InvalidatedAt
  <2> QED BY <1>a, <1>8, <2>1 DEF InvalidateServer
<1>9. ASSUME UNCHANGED <<pte, latest>> PROVE G
  BY <1>a, <1>9
<1>10. ASSUME NEW s \in Nodes, NEW n \in Nodes, RecvRequest(s, n)
       PROVE  G
  BY <1>9, <1>10 DEF RecvRequest
<1>11. ASSUME NEW n \in Nodes,
              \/ SendReadReply(n) \/ SendWriteReply(n)
              \/ ForwardRead(n) \/ ForwardWrite(n) \/ PageUnlock(n)
       PROVE  G
  <2>1. UNCHANGED <<pte, latest>>
    BY <1>11
       DEF SendReadReply, SendWriteReply, ForwardRead, ForwardWrite, Forward, PageUnlock
  <2> QED BY <1>9, <2>1
<1>12. ASSUME UNCHANGED vars PROVE G
  BY <1>9, <1>12 DEF vars
<1> HIDE DEF G
<1>13. G
  BY <1>1, <1>2, <1>3, <1>4, <1>5, <1>6, <1>7, <1>8, <1>10, <1>11, <1>12, VsmAssumption
     DEF Next, FaultHandler, Server
<1> QED BY <1>13 DEF G

\* The protocol of core/vsm.c implements the coherent page: stores are
\* totally ordered, none is lost, and no node falls back to older contents.
THEOREM CoherentPageImplemented ==
  ASSUME Nodes \subseteq 0..(CopysetBits - 1)
  PROVE  Spec => ImplementsCoherentPage
<1>1. Init => Coherent!Init
  BY DEF Init, Coherent!Init
<1>2. CoherenceInv /\ [Next]_vars => [Coherent!Next]_<<latest, [n \in Nodes |-> pte[n].ver]>>
  BY CoherentStep
<1> QED BY <1>1, <1>2, CoherenceInvariant, PTL
   DEF Spec, ImplementsCoherentPage, Coherent!Spec

-----------------------------------------------------------------------------
(* Requests in a queue.                                                    *)

\* The requests of a queue after a message is appended.
LEMMA AskAppend ==
  ASSUME NEW q \in Seq(Proc), NEW p \in Proc, NEW n
  PROVE  /\ AskFrom(Append(q, p), n) <=> AskFrom(q, n) \/ (IsAsk(p) /\ p.node = n)
         /\ WriteFrom(Append(q, p), n) <=> WriteFrom(q, n) \/ (p.type = "write" /\ p.node = n)
<1> DEFINE q2 == Append(q, p)
<1>1. /\ Len(q) \in Nat /\ Len(q2) = Len(q) + 1
      /\ \A i \in 1..Len(q) : q2[i] = q[i]
      /\ q2[Len(q) + 1] = p
  BY AppendAt
<1> HIDE DEF q2
<1>2. \A i \in 1..Len(q2) : (i \in 1..Len(q) /\ q2[i] = q[i]) \/ q2[i] = p
  BY <1>1
<1>3. Len(q) + 1 \in 1..Len(q2) /\ \A i \in 1..Len(q) : i \in 1..Len(q2)
  BY <1>1
<1>4. AskFrom(q2, n) <=> AskFrom(q, n) \/ (IsAsk(p) /\ p.node = n)
  BY <1>1, <1>2, <1>3 DEF AskFrom
<1>5. WriteFrom(q2, n) <=> WriteFrom(q, n) \/ (p.type = "write" /\ p.node = n)
  BY <1>1, <1>2, <1>3 DEF WriteFrom
<1> QED BY <1>4, <1>5 DEF q2

\* The requests of a queue after its head is taken.
LEMMA AskTail ==
  ASSUME NEW q \in Seq(Proc), q # <<>>, NEW n
  PROVE  /\ AskFrom(q, n) <=> AskFrom(Tail(q), n) \/ (IsAsk(Head(q)) /\ Head(q).node = n)
         /\ WriteFrom(q, n) <=> WriteFrom(Tail(q), n) \/ (Head(q).type = "write" /\
              Head(q).node = n)
<1> DEFINE q2 == Tail(q)
<1>1. /\ Len(q) \in Nat /\ Len(q) >= 1 /\ Len(q2) = Len(q) - 1 /\ Head(q) = q[1]
      /\ \A i \in 1..(Len(q) - 1) : q2[i] = q[i + 1]
  BY TailAt
<1> HIDE DEF q2
<1>2. \A i \in 1..Len(q2) : i + 1 \in 1..Len(q) /\ q2[i] = q[i + 1]
  BY <1>1
<1>3. \A i \in 1..Len(q) : q[i] = Head(q) \/ (i - 1 \in 1..Len(q2) /\ q2[i - 1] = q[i])
  BY <1>1
<1>4. 1 \in 1..Len(q)
  BY <1>1
<1>5. AskFrom(q, n) <=> AskFrom(q2, n) \/ (IsAsk(Head(q)) /\ Head(q).node = n)
  BY <1>1, <1>2, <1>3, <1>4 DEF AskFrom
<1>6. WriteFrom(q, n) <=> WriteFrom(q2, n) \/ (Head(q).type = "write" /\ Head(q).node = n)
  BY <1>1, <1>2, <1>3, <1>4 DEF WriteFrom
<1> QED BY <1>5, <1>6 DEF q2

\* A request may be appended behind requests that are not writes.
LEMMA EndsAppend ==
  ASSUME NEW q \in Seq(Proc), NEW p \in Proc, WriteEnds(q), IsAsk(p) => ~WriteIn(q)
  PROVE  WriteEnds(Append(q, p))
<1> DEFINE q2 == Append(q, p)
<1>1. /\ Len(q) \in Nat /\ Len(q2) = Len(q) + 1
      /\ \A i \in 1..Len(q) : q2[i] = q[i]
      /\ q2[Len(q) + 1] = p
  BY AppendAt
<1> HIDE DEF q2
<1>2. \A i \in 1..Len(q2) : i \in Nat /\ i <= Len(q) + 1 /\
           ((i \in 1..Len(q) /\ q2[i] = q[i]) \/ (i = Len(q) + 1 /\ q2[i] = p))
  BY <1>1
<1>3. ASSUME NEW i \in 1..Len(q), q[i].type = "write" PROVE ~IsAsk(p)
  <2>1. q[i] \in Proc
    OBVIOUS
  <2>2. q[i].node \in Nodes
    BY <2>1 DEF Proc
  <2> QED BY <1>3, <2>2 DEF WriteIn, WriteFrom
<1>4. WriteEnds(q2)
  <2> SUFFICES ASSUME NEW i \in 1..Len(q2), NEW j \in 1..Len(q2),
                      q2[i].type = "write", IsAsk(q2[j])
               PROVE  j <= i
    BY DEF WriteEnds
  <2>1. CASE i = Len(q) + 1
    BY <2>1, <1>1, <1>2
  <2>2. CASE i \in 1..Len(q) /\ q2[i] = q[i]
    <3>1. j \in 1..Len(q) /\ q2[j] = q[j]
      BY <1>2, <1>3, <2>2
    <3> QED BY <2>2, <3>1 DEF WriteEnds
  <2> QED BY <2>1, <2>2, <1>2
<1> QED BY <1>4 DEF q2

\* Nothing is left behind a write that is taken off the head.
LEMMA EndsTail ==
  ASSUME NEW q \in Seq(Proc), q # <<>>, WriteEnds(q)
  PROVE  /\ WriteEnds(Tail(q))
         /\ Head(q).type = "write" => ~AskIn(Tail(q))
<1> DEFINE q2 == Tail(q)
<1>1. /\ Len(q) \in Nat /\ Len(q) >= 1 /\ Len(q2) = Len(q) - 1 /\ Head(q) = q[1]
      /\ \A i \in 1..(Len(q) - 1) : q2[i] = q[i + 1]
  BY TailAt
<1> HIDE DEF q2
<1>2. \A i \in 1..Len(q2) : i \in Nat /\ i >= 1 /\ i + 1 \in 1..Len(q) /\ q2[i] = q[i + 1]
  BY <1>1
<1>3. WriteEnds(q2)
  <2> SUFFICES ASSUME NEW i \in 1..Len(q2), NEW j \in 1..Len(q2),
                      q2[i].type = "write", IsAsk(q2[j])
               PROVE  j <= i
    BY DEF WriteEnds
  <2>1. j + 1 <= i + 1
    BY <1>2 DEF WriteEnds
  <2> QED BY <1>2, <2>1
<1>4. ASSUME Head(q).type = "write", NEW i \in 1..Len(q2), IsAsk(q2[i]) PROVE FALSE
  <2>1. i + 1 <= 1
    BY <1>1, <1>2, <1>4 DEF WriteEnds
  <2> QED BY <1>2, <2>1
<1>5. Head(q).type = "write" => ~AskIn(q2)
  BY <1>4 DEF AskIn, AskFrom
<1> QED BY <1>3, <1>5 DEF q2

\* A write request is a request.
LEMMA WriteIsAsk ==
  /\ \A q, n : WriteFrom(q, n) => AskFrom(q, n)
  /\ \A q : WriteIn(q) => AskIn(q)
  BY DEF WriteFrom, AskFrom, WriteIn, AskIn, IsAsk

\* A request in any queue is pending.
LEMMA AskIsPending ==
  ASSUME TypeOK, NEW e \in Queues, NEW n
  PROVE  /\ AskFrom(Chans[e], n) => \E p \in Pending : p.node = n
         /\ WriteFrom(Chans[e], n) => \E p \in Pending : p.node = n /\ p.type = "write"
<1>1. Chans[e] \in Seq(Proc)
  BY ChansType
<1>2. \A i \in 1..Len(Chans[e]) : IsAsk(Chans[e][i]) => Chans[e][i] \in Pending
  BY <1>1 DEF Pending, Asks
<1> QED BY <1>2 DEF AskFrom, WriteFrom, IsAsk

\* A request in a waitqueue or a channel is pending.
LEMMA AskPending ==
  ASSUME TypeOK, NEW d \in Nodes, NEW n
  PROVE  /\ AskFrom(wq[d], n) \/ (\E s \in Nodes : AskFrom(req[s][d], n))
              => \E p \in Pending : p.node = n
         /\ WriteFrom(wq[d], n) \/ (\E s \in Nodes : WriteFrom(req[s][d], n))
              => \E p \in Pending : p.node = n /\ p.type = "write"
<1>1. <<Wq, d>> \in Queues /\ Chans[<<Wq, d>>] = wq[d]
  BY ChansType, QueueFacts
<1>2. \A s \in Nodes : <<s, d>> \in Queues /\ Chans[<<s, d>>] = req[s][d]
  BY ChansType, QueueFacts
<1>3. /\ AskFrom(wq[d], n) => \E p \in Pending : p.node = n
      /\ WriteFrom(wq[d], n) => \E p \in Pending : p.node = n /\ p.type = "write"
  BY <1>1, AskIsPending
<1>4. ASSUME NEW s \in Nodes
      PROVE  /\ AskFrom(req[s][d], n) => \E p \in Pending : p.node = n
             /\ WriteFrom(req[s][d], n) => \E p \in Pending : p.node = n /\ p.type = "write"
  <2>1. PICK e \in Queues : Chans[e] = req[s][d]
    BY <1>2
  <2> QED BY <2>1, AskIsPending
<1> QED BY <1>3, <1>4

\* A request in a waitqueue is nowhere else.
LEMMA AskAlone ==
  ASSUME TypeOK, OneToken, NEW d \in Nodes, NEW n, AskFrom(wq[d], n)
  PROVE  /\ \A e \in Nodes : AskFrom(wq[e], n) => e = d
         /\ \A s, e \in Nodes : ~AskFrom(req[s][e], n)
<1>1. ASSUME NEW a \in Queues, NEW b \in Queues, AskFrom(Chans[a], n), AskFrom(Chans[b], n)
      PROVE  a = b
  BY <1>1 DEF OneToken, Unique, AskFrom
<1>2. AskFrom(Chans[<<Wq, d>>], n)
  BY ChansType
<1>3. \A e \in Nodes : AskFrom(wq[e], n) => e = d
  BY <1>1, <1>2, ChansType, QueueFacts
<1>4. \A s, e \in Nodes : ~AskFrom(req[s][e], n)
  BY <1>1, <1>2, ChansType, QueueFacts
<1> QED BY <1>3, <1>4

\* A node with a request under way does not own the page.
LEMMA PendingOwnsNot ==
  ASSUME TypeOK, TokenInv, NEW p \in Pending
  PROVE  ~Owns(p.node)
<1>0. WaitOK /\ AskOK /\ ReplyOK /\ CopyOK
  BY DEF TokenInv
<1>1. p.node \in Nodes /\ p.cpu \in Cpus /\ lock[p.node] = p.cpu /\ ~pte[p.node].af /\
        ~Draining(p.node)
  BY <1>0, PendingType, PendingWaits
<1>2. ~Keeps(p.node)
  BY <1>0, <1>1 DEF Keeps, GivesOut, CopyOK, IsOwner, Writable, ReadOnly
<1>3. \A c \in Cpus : reply[p.node][c] # <<>> => c = p.cpu
  BY <1>0, <1>1 DEF ReplyOK, WaitOK, Waits
<1>4. reply[p.node][p.cpu] = <<>>
  BY <1>0 DEF AskOK
<1> QED BY <1>2, <1>3, <1>4 DEF Owns, Granted

\* Steps that neither add nor move requests of the other nodes.
LEMMA RouteKept ==
  ASSUME RouteInv, owner \in Nodes, owner' = owner,
         RouteOK(req', wq'), WriteLast(req', wq'),
         \A d \in Others : AskAt(req', wq', d) => AskAt(req, wq, d),
         \A d \in Others, n \in Nodes : WriteAt(req', wq', d, n) <=> WriteAt(req, wq, d, n),
         \A n \in Nodes : Owns(n) => Owns(n)',
         ManagerHas => ManagerHas'
  PROVE  RouteInv'
<1>0. /\ AskedChained(req, wq, Owners) /\ WriteAtOwner(req, wq, owner)
      /\ OwnerKnown(req, wq, owner, Owners, ManagerHas)
  BY DEF RouteInv
<1>1. \A n \in Nodes : Sought(req, wq, n) => Sought(req', wq', n)
  BY DEF Sought
<1>2. \A n \in Owners : n \in Owners'
  BY DEF Owners
<1>3. AskedChained(req', wq', Owners')
  BY <1>0, <1>1, <1>2 DEF AskedChained, Others
<1>4. WriteAtOwner(req', wq', owner')
  BY <1>0 DEF WriteAtOwner, Others
<1>5. OwnerKnown(req', wq', owner', Owners', ManagerHas')
  BY <1>0, <1>1, <1>2 DEF OwnerKnown
<1> QED BY <1>3, <1>4, <1>5 DEF RouteInv

\* Steps that only add or take invalidations, or take read requests.
LEMMA RouteShrinks ==
  ASSUME RouteInv, owner \in Nodes, owner' = owner, 
         \A d \in Nodes :
            /\ \A n \in Nodes : AskFrom(wq'[d], n) => AskFrom(wq[d], n)
            /\ \A n \in Nodes : WriteFrom(wq'[d], n) <=> WriteFrom(wq[d], n)
            /\ WriteEnds(wq[d]) => WriteEnds(wq'[d]),
         \A s, d \in Nodes :
            /\ \A n \in Nodes : AskFrom(req'[s][d], n) => AskFrom(req[s][d], n)
            /\ \A n \in Nodes : WriteFrom(req'[s][d], n) <=> WriteFrom(req[s][d], n)
            /\ WriteEnds(req[s][d]) => WriteEnds(req'[s][d]),
         \A n \in Nodes : req'[n][n] = req[n][n],
         \A n \in Nodes : Owns(n) => Owns(n)',
         ManagerHas => ManagerHas'
  PROVE  RouteInv'
<1>0. RouteOK(req, wq) /\ WriteLast(req, wq) /\ Manager \in Nodes
  BY VsmAssumption DEF RouteInv
<1>1. RouteOK(req', wq')
  BY <1>0 DEF RouteOK
<1>2. WriteLast(req', wq')
  BY <1>0 DEF WriteLast, Others, WriteIn, AskIn
<1>3. \A d \in Others : AskAt(req', wq', d) => AskAt(req, wq, d)
  BY <1>0 DEF AskAt, Others, AskIn
<1>4. \A d \in Others, n \in Nodes : WriteAt(req', wq', d, n) <=> WriteAt(req, wq, d, n)
  BY <1>0 DEF WriteAt, Others
<1> QED BY <1>1, <1>2, <1>3, <1>4, RouteKept

-----------------------------------------------------------------------------
(* Layer 4: the routes.                                                    *)

\* Only a write reply takes the ownership away from a node.
LEMMA OwnsKept ==
  ASSUME Nodes \subseteq 0..(CopysetBits - 1), TypeOK, TokenInv, [Next]_vars,
         \A n \in Nodes : ~SendWriteReply(n)
  PROVE  (\A m \in Nodes : Owns(m) => Owns(m)') /\ (ManagerHas => ManagerHas')
<1> DEFINE G == (\A m \in Nodes : Owns(m) => Owns(m)') /\ (ManagerHas => ManagerHas')
<1>0. /\ MappedOK /\ WaitOK /\ AskOK /\ ReplyOK /\ CopyOK /\ OneToken
      /\ Manager \in Nodes /\ Users \subseteq Nodes
  BY VsmAssumption DEF TokenInv
<1>a. ASSUME \A m \in Nodes : Keeps(m) => Keeps(m)',
             \A m \in Nodes : Granted(m) => Granted(m)' \/ Keeps(m)',
             \A m \in Nodes, x \in Cpus :
               pc[m][x] = "writewait" => pc'[m][x] = "writewait" \/ Keeps(m)'
      PROVE  G
  BY <1>0, <1>a DEF Owns, ManagerHas
<1>b. ASSUME UNCHANGED <<wq, copying, reply>>,
             \A m \in Nodes : IsOwner(m) => IsOwner(m)',
             \A m \in Nodes, x \in Cpus : pc[m][x] = "writewait" => pc'[m][x] = "writewait"
      PROVE  G
  <2>1. \A m \in Nodes : Keeps(m) => Keeps(m)'
    BY <1>b DEF Keeps, GivesOut, Current
  <2>2. \A m \in Nodes : Granted(m) => Granted(m)'
    BY <1>b DEF Granted
  <2> HIDE DEF G
  <2> QED BY <1>a, <1>b, <2>1, <2>2
<1> HIDE DEF G
<1> USE DEF IsOwner, Writable, ReadOnly
<1>1. ASSUME NEW n \in Nodes, NEW c \in Cpus, GuestStore(n, c) PROVE G
  <2>1. UNCHANGED <<wq, copying, reply, pc>>
    BY <1>1 DEF GuestStore
  <2>2. \A m \in Nodes : (pte'[m].af <=> pte[m].af) /\ pte'[m].ap = pte[m].ap /\
          pte'[m].cs = pte[m].cs
    BY <1>1, VerAt DEF GuestStore
  <2> QED BY <1>b, <2>1, <2>2
<1>2. ASSUME NEW n \in Nodes, NEW c \in Cpus, 
         FaultHit(n, c) \/ ReadFetch(n, c) \/ WriteUpgrade(n, c) \/ WriteFetch(n, c) PROVE G
  <2>1. /\ UNCHANGED <<wq, copying, reply>> /\ PageSpinlock(n, c)
        /\ \E l : Goto(n, c, l)
    BY <1>2 DEF FaultHit, ReadFetch, WriteUpgrade, WriteFetch
  <2>2. \A m \in Nodes, x \in Cpus : pc[m][x] = "writewait" => pc'[m][x] = "writewait"
    BY <2>1, SpinlockAt, GotoAt
  <2>3. CASE FaultHit(n, c) \/ ReadFetch(n, c)
    <3>1. UNCHANGED pte
      BY <2>3 DEF FaultHit, ReadFetch
    <3> QED BY <1>b, <2>1, <2>2, <3>1
  <2>4. CASE WriteUpgrade(n, c)
    <3>1. /\ pte'[n].af <=> pte[n].af
          /\ pte'[n].ap = "rw"
          /\ \A m \in Nodes : m # n => pte'[m] = pte[m]
      BY <2>4, WriteUpgradeAt
    <3>2. \A m \in Nodes : IsOwner(m) => IsOwner(m)'
      BY <3>1
    <3> QED BY <1>b, <2>1, <2>2, <3>2
  <2>5. CASE WriteFetch(n, c)
    <3>1. ~IsOwner(n)
      BY <2>5 DEF WriteFetch
    <3>2. \A m \in Nodes : m # n => pte'[m] = pte[m]
      BY <1>0, <2>5, WriteFetchAt
    <3>3. \A m \in Nodes : IsOwner(m) => IsOwner(m)'
      BY <3>1, <3>2
    <3> QED BY <1>b, <2>1, <2>2, <3>3
  <2> QED BY <1>2, <2>3, <2>4, <2>5
<1>3. ASSUME NEW n \in Nodes, NEW c \in Cpus, ReadFetched(n, c) \/ WriteFetched(n, c) PROVE G
  <2>1. /\ TakeReply(n, c) /\ UNCHANGED <<copying, wq>> /\ Goto(n, c, "drain")
        /\ Waits(n, c)
        /\ ReadFetched(n, c) => pc[n][c] = "readwait"
        /\ WriteFetched(n, c) => pc[n][c] = "writewait"
    BY <1>3 DEF ReadFetched, WriteFetched, Waits
  <2>2. /\ reply[n][c] # <<>> /\ ~pte[n].af /\ reply'[n][c] = <<>>
        /\ \A m \in Nodes, x \in Cpus : (m # n \/ x # c) => reply'[m][x] = reply[m][x]
    BY <1>0, <2>1, TakeReplyAt
  <2>3. \A m \in Nodes : m # n => pte'[m] = pte[m]
    BY <1>3, EntryType DEF ReadFetched, WriteFetched
  <2>4. WriteFetched(n, c) => pte'[n].af /\ pte'[n].ap = "rw"
    BY <1>3, EntryType DEF WriteFetched
  <2>5. ~copying[n]
    BY <1>0, <2>1, DrainingIdle DEF CopyOK
  <2>6. \A m \in Nodes : Keeps(m) => Keeps(m)'
    BY <2>1, <2>2, <2>3, <2>5 DEF Keeps, GivesOut, Current
  <2>7. WriteFetched(n, c) => Keeps(n)'
    BY <2>4 DEF Keeps
  <2>8. ReadFetched(n, c) => ~Head(reply[n][c]).wnr
    BY <1>0, <2>1, <2>2 DEF ReplyOK
  <2>9. \A m \in Nodes : Granted(m) => Granted(m)' \/ Keeps(m)'
    BY <1>3, <2>2, <2>7, <2>8 DEF Granted
  <2>10. \A m \in Nodes, x \in Cpus :
               pc[m][x] = "writewait" => pc'[m][x] = "writewait" \/ Keeps(m)'
    BY <1>3, <2>1, <2>7, GotoAt
  <2> QED BY <1>a, <2>6, <2>9, <2>10
<1>4. ASSUME NEW s \in Nodes, NEW n \in Nodes, RecvRequest(s, n) PROVE G
  <2>1. /\ \A m \in Nodes : wq[m] # <<>> => wq'[m] # <<>> /\ Head(wq'[m]) = Head(wq[m])
        /\ UNCHANGED <<pte, copying, reply, pc>>
    BY <1>4, RecvAt
  <2>2. \A m \in Nodes : Keeps(m) => Keeps(m)'
    BY <1>0, <2>1 DEF Keeps, GivesOut, Current, CopyOK
  <2> QED BY <1>a, <2>1, <2>2 DEF Granted
<1>5. ASSUME NEW n \in Nodes, ReadServer(n) PROVE G
  <2>1. CopysetBit(Current(n).node) # {}
    BY <1>5, CurrentType DEF ReadServer, Serving, CopysetBit, Proc
  <2>2. /\ pte'[n].af <=> pte[n].af
        /\ pte'[n].ap = "ro" /\ pte'[n].cs = pte[n].cs \cup CopysetBit(Current(n).node)
        /\ \A m \in Nodes : m # n => pte'[m] = pte[m]
    BY <1>5, ReadServerAt
  <2>3. /\ pte[n].af
        /\ UNCHANGED <<wq, reply, pc>>
        /\ \A m \in Nodes : m # n => copying'[m] = copying[m]
    BY <1>5 DEF ReadServer, Serving, TypeOK
  <2>4. \A m \in Nodes : Keeps(m) => Keeps(m)'
    BY <2>1, <2>2, <2>3 DEF Keeps, GivesOut, Current
  <2> QED BY <1>a, <2>3, <2>4 DEF Granted
<1>6. ASSUME NEW n \in Nodes, WriteServer(n) PROVE G
  <2>1. \A m \in Nodes : m # n => pte'[m] = pte[m]
    BY <1>6, AfAt DEF WriteServer
  <2>2. /\ Current(n).type = "write"
        /\ UNCHANGED <<wq, reply, pc>>
        /\ copying'[n] /\ \A m \in Nodes : m # n => copying'[m] = copying[m]
    BY <1>6 DEF WriteServer, Serving, TypeOK
  <2>3. \A m \in Nodes : Keeps(m) => Keeps(m)'
    BY <2>1, <2>2 DEF Keeps, GivesOut, Current
  <2> QED BY <1>a, <2>2, <2>3 DEF Granted
<1>7. ASSUME NEW n \in Nodes, SendReadReply(n) PROVE G
  <2>1. /\ wq[n] # <<>> /\ Done(n) /\ Current(n).type = "read"
        /\ UNCHANGED <<pte, req, pc>> /\ copying' = [copying EXCEPT ![n] = FALSE]
    BY <1>7 DEF SendReadReply, Serving
  <2>2. PICK r \in Reply : SendReply(n, r)
    BY <1>7, ReplySent
  <2>3. Current(n) \in Pending
    BY <1>0, <2>1, PendingDone DEF IsAsk
  <2>4. /\ Current(n).node \in Nodes /\ Current(n).cpu \in Cpus
        /\ reply[Current(n).node][Current(n).cpu] = <<>>
    BY <1>0, <2>3, PendingType DEF AskOK
  <2>5. \A m \in Nodes, x \in Cpus :
          (m # Current(n).node \/ x # Current(n).cpu) => reply'[m][x] = reply[m][x]
    BY <2>2, <2>4, SendReplyAt
  <2>6. \A m \in Nodes : m # n => wq'[m] = wq[m] /\ copying'[m] = copying[m]
    BY <2>1, DoneAt DEF TypeOK
  <2>7. \A m \in Nodes : Keeps(m) => Keeps(m)'
    BY <2>1, <2>6 DEF Keeps, GivesOut, Current
  <2>8. \A m \in Nodes : Granted(m) => Granted(m)'
    BY <2>4, <2>5 DEF Granted
  <2> QED BY <1>a, <2>1, <2>7, <2>8
<1>8. ASSUME NEW n \in Nodes, ForwardRead(n) \/ ForwardWrite(n) \/ InvalidateServer(n) PROVE G
  <2>1. ~copying[n] /\ Done(n) /\ UNCHANGED <<copying, pc, reply>>
    BY <1>0, <1>8 DEF ForwardRead, ForwardWrite, Forward, InvalidateServer, Serving, CopyOK
  <2>2. \A m \in Nodes : m # n => wq'[m] = wq[m]
    BY <2>1, DoneAt
  <2>3. \A m \in Nodes : IsOwner(m) => IsOwner(m)'
    <3>1. CASE ForwardRead(n) \/ ForwardWrite(n)
      BY <3>1 DEF ForwardRead, ForwardWrite, Forward
    <3>2. CASE InvalidateServer(n)
      BY <3>2, InvalidatedAt
    <3> QED BY <1>8, <3>1, <3>2
  <2>4. \A m \in Nodes : Keeps(m) => Keeps(m)'
    BY <2>1, <2>2, <2>3 DEF Keeps, GivesOut, Current
  <2> QED BY <1>a, <2>1, <2>4 DEF Granted
<1>9. ASSUME NEW n \in Nodes, PageUnlock(n) PROVE G
  <2>1. \A m \in Nodes : m # n => pc'[m] = pc[m]
    BY <1>9 DEF PageUnlock, TypeOK
  <2>2. \A x \in Cpus : pc[n][x] # "writewait"
    BY <1>0, <1>9, DrainingIdle DEF PageUnlock, Waits
  <2> QED BY <1>b, <1>9, <2>1, <2>2 DEF PageUnlock
<1> HIDE DEF IsOwner, Writable, ReadOnly
<1>10. ASSUME UNCHANGED vars PROVE G
  <2>1. UNCHANGED <<pte, wq, copying, reply, pc>>
    BY <1>10 DEF vars
  <2>2. \A m \in Nodes : IsOwner(m) => IsOwner(m)'
    BY <2>1 DEF IsOwner, Writable, ReadOnly
  <2> QED BY <1>b, <2>1, <2>2
<1>11. G
  BY <1>0, <1>1, <1>2, <1>3, <1>4, <1>5, <1>6, <1>7, <1>8, <1>9, <1>10
     DEF Next, FaultHandler, Server
<1> QED BY <1>11 DEF G

\* The types of one channel and one waitqueue.
LEMMA ReqAt ==
  ASSUME TypeOK, NEW s \in Nodes, NEW d \in Nodes
  PROVE  req[s][d] \in Seq(Proc) /\ wq[d] \in Seq(Proc)
  BY DEF TypeOK

\* A message sent, channel by channel.
LEMMA SentAt ==
  ASSUME TypeOK, NEW n \in Nodes, NEW t \in Nodes, NEW p,
         req' = [req EXCEPT ![n][t] = Append(@, p)]
  PROVE  /\ req'[n][t] = Append(req[n][t], p)
         /\ \A x, y \in Nodes : (x # n \/ y # t) => req'[x][y] = req[x][y]
  BY DEF TypeOK

\* Invalidations sent, channel by channel.
LEMMA InvalidationsAt ==
  ASSUME TypeOK, NEW n \in Nodes, NEW c \in Cpus, NEW cs, Invalidate(n, c, cs)
  PROVE  \A x, y \in Nodes :
           req'[x][y] = IF x = n /\ y \in cs \ {n}
                          THEN Append(req[x][y], [type |-> "inv", node |-> n, cpu |-> c])
                          ELSE req[x][y]
  BY DEF TypeOK, Invalidate

\* A message received, channel by channel.
LEMMA ReceivedAt ==
  ASSUME TypeOK, NEW s \in Nodes, NEW n \in Nodes, RecvRequest(s, n)
  PROVE  /\ req'[s][n] = Tail(req[s][n])
         /\ \A x, y \in Nodes : (x # s \/ y # n) => req'[x][y] = req[x][y]
  BY DEF TypeOK, RecvRequest

\* No request waits at a node whose own request is at the manager.
LEMMA NoneAtRequester ==
  ASSUME TypeOK, TokenInv, RouteInv, NEW p, wq[Manager] # <<>>, p = Current(Manager), IsAsk(p)
  PROVE  /\ p \in Pending /\ p \in Proc /\ p.node \in Nodes /\ p.node # Manager
         /\ ~Owns(p.node) /\ ~Sought(req, wq, p.node) /\ ~AskAt(req, wq, p.node)
<1>0. OneToken /\ Manager \in Nodes /\ RouteOK(req, wq) /\ AskedChained(req, wq, Owners)
  BY VsmAssumption DEF TokenInv, RouteInv
<1>1. p \in Proc /\ p.node \in Nodes
  BY <1>0, CurrentType DEF Proc
<1>2. AskFrom(wq[Manager], p.node)
  <2>1. wq[Manager] \in Seq(Proc)
    BY <1>0, ReqAt
  <2> QED BY <2>1, AskTail DEF Current
<1>3. p.node # Manager
  BY <1>0, <1>1, <1>2 DEF RouteOK
<1>4. p \in Pending
  <2>1. <<Wq, Manager>> \in Queues /\ Chans[<<Wq, Manager>>] = wq[Manager]
    BY <1>0, ChansType, QueueFacts
  <2>2. wq[Manager] \in Seq(Proc)
    BY <1>0, ReqAt
  <2>3. 1 \in 1..Len(wq[Manager]) /\ wq[Manager][1] = p
    BY <2>2, TailAt DEF Current
  <2> QED BY <1>1, <2>1, <2>3 DEF Pending, Asks
<1>5. ~Owns(p.node)
  BY <1>4, PendingOwnsNot
<1>6. ~Sought(req, wq, p.node)
  <2>1. \A e \in Nodes : AskFrom(wq[e], p.node) => e = Manager
    BY <1>0, <1>2, AskAlone
  <2>2. \A e \in Nodes : ~AskFrom(req[Manager][e], p.node)
    BY <1>0, <1>2, AskAlone
  <2> QED BY <2>1, <2>2, WriteIsAsk DEF Sought, WriteAt, Others
<1>7. ~AskAt(req, wq, p.node)
  BY <1>0, <1>1, <1>3, <1>5, <1>6 DEF AskedChained, Owners, Others
<1> QED BY <1>1, <1>3, <1>4, <1>5, <1>6, <1>7

\* A manager without the page knows a node to ask, and no write waits there.
LEMMA ManagerLooksUp ==
  ASSUME TypeOK, TokenInv, RouteInv, ~ManagerHas, \A c \in Cpus : ~Waits(Manager, c)
  PROVE  /\ owner \in Others
         /\ owner \in Owners \/ Sought(req, wq, owner)
         /\ ~WriteIn(wq[owner]) /\ ~WriteIn(req[Manager][owner])
         /\ \A p \in Pending : p.node # Manager
<1>0. /\ OwnerKnown(req, wq, owner, Owners, ManagerHas) /\ WriteAtOwner(req, wq, owner)
      /\ owner \in Nodes /\ Manager \in Nodes /\ WaitOK /\ AskOK
  BY VsmAssumption DEF RouteInv, TypeOK, TokenInv
<1>1. owner # Manager /\ (owner \in Owners \/ Sought(req, wq, owner))
  BY <1>0 DEF OwnerKnown
<1>2. \A p \in Pending : p.node # Manager
  BY <1>0, PendingWaits, PendingType
<1>3. \A n \in Nodes : ~WriteFrom(wq[owner], n) /\ ~WriteFrom(req[Manager][owner], n)
  BY <1>0, <1>1, <1>2, AskPending DEF WriteAtOwner, WriteAt
<1> QED BY <1>0, <1>1, <1>2, <1>3 DEF Others, WriteIn

\* The manager may send a request to the owner it recorded.
LEMMA RouteToOwner ==
  ASSUME TypeOK, TokenInv, RouteInv, ~ManagerHas, \A c \in Cpus : ~Waits(Manager, c),
         NEW p \in Proc, IsAsk(p),
         req' = [req EXCEPT ![Manager][owner] = Append(@, p)],
         \A d \in Others : wq'[d] = wq[d],
         \A n \in Nodes : AskFrom(wq'[Manager], n) => AskFrom(wq[Manager], n),
         \A n \in Nodes : Owns(n) => Owns(n)'
  PROVE  /\ RouteOK(req', wq') /\ AskedChained(req', wq', Owners') /\ WriteLast(req', wq')
         /\ owner \in Owners' \/ Sought(req', wq', owner)
         /\ \A d \in Others : d # owner =>
              /\ AskAt(req', wq', d) <=> AskAt(req, wq, d)
              /\ \A n : WriteAt(req', wq', d, n) <=> WriteAt(req, wq, d, n)
         /\ owner \in Others
         /\ \A n \in Nodes : WriteAt(req', wq', owner, n) <=> p.type = "write" /\ p.node = n
<1>0. /\ RouteOK(req, wq) /\ AskedChained(req, wq, Owners) /\ WriteLast(req, wq)
      /\ Manager \in Nodes
  BY VsmAssumption DEF RouteInv
<1>1. /\ owner \in Others /\ owner \in Nodes /\ owner # Manager
      /\ owner \in Owners \/ Sought(req, wq, owner)
      /\ ~WriteIn(wq[owner]) /\ ~WriteIn(req[Manager][owner])
  BY ManagerLooksUp DEF Others
<1>2. /\ req'[Manager][owner] = Append(req[Manager][owner], p)
      /\ \A x, y \in Nodes : (x # Manager \/ y # owner) => req'[x][y] = req[x][y]
  BY <1>0, <1>1, SentAt
<1>3. req[Manager][owner] \in Seq(Proc)
  BY <1>0, <1>1, ReqAt
<1>4. /\ \A n : AskFrom(req'[Manager][owner], n) <=>
                  AskFrom(req[Manager][owner], n) \/ (IsAsk(p) /\ p.node = n)
      /\ \A n : WriteFrom(req'[Manager][owner], n) <=>
                  WriteFrom(req[Manager][owner], n) \/ (p.type = "write" /\ p.node = n)
  BY <1>2, <1>3, AskAppend
<1>5. RouteOK(req', wq')
  <2>1. \A x, y, n \in Nodes : AskFrom(req'[x][y], n)
          => IF y = Manager THEN n = x /\ x # Manager ELSE x = Manager
    BY <1>0, <1>1, <1>2 DEF RouteOK
  <2>2. \A n \in Nodes : AskFrom(wq'[Manager], n) => n # Manager
    BY <1>0 DEF RouteOK
  <2>3. \A n \in Nodes : req'[n][n] = <<>>
    BY <1>0, <1>1, <1>2 DEF RouteOK
  <2> QED BY <2>1, <2>2, <2>3 DEF RouteOK
<1>6. \A d \in Others : d \in Nodes /\ (d # owner => req'[Manager][d] = req[Manager][d])
  BY <1>0, <1>2 DEF Others
<1>7. \A d \in Others : d # owner =>
              /\ AskAt(req', wq', d) <=> AskAt(req, wq, d)
              /\ \A n : WriteAt(req', wq', d, n) <=> WriteAt(req, wq, d, n)
  BY <1>6 DEF AskAt, WriteAt
<1>8. \A n \in Nodes : WriteAt(req', wq', owner, n) <=> p.type = "write" /\ p.node = n
  BY <1>1, <1>4 DEF WriteAt, WriteIn
<1>9. \A n \in Nodes : Sought(req, wq, n) => Sought(req', wq', n)
  BY <1>1, <1>7 DEF Sought, WriteAt, WriteIn
<1>10. \A n \in Owners : n \in Owners'
  BY DEF Owners
<1>11. owner \in Owners' \/ Sought(req', wq', owner)
  BY <1>1, <1>9, <1>10
<1>12. AskedChained(req', wq', Owners')
  BY <1>0, <1>6, <1>7, <1>9, <1>10, <1>11 DEF AskedChained
<1>13. WriteLast(req', wq')
  <2>1. WriteEnds(req'[Manager][owner])
    BY <1>0, <1>1, <1>2, <1>3, EndsAppend DEF WriteLast
  <2>2. ~WriteIn(wq'[owner])
    BY <1>1
  <2> QED BY <1>0, <1>1, <1>6, <2>1, <2>2 DEF WriteLast
<1> QED BY <1>1, <1>5, <1>7, <1>8, <1>11, <1>12, <1>13

\* Layer 4 after a request is sent.
LEMMA RouteSent ==
  ASSUME Nodes \subseteq 0..(CopysetBits - 1), TypeOK, TokenInv, RouteInv, [Next]_vars,
         \A m \in Nodes : Owns(m) => Owns(m)', ManagerHas => ManagerHas',
         NEW n \in Nodes, NEW c \in Cpus, ReadFetch(n, c) \/ WriteFetch(n, c)
  PROVE  RouteInv'
<1>0. /\ RouteOK(req, wq) /\ WriteLast(req, wq) /\ WriteAtOwner(req, wq, owner)
      /\ Manager \in Nodes /\ owner \in Nodes /\ WaitOK /\ CopyOK
  BY VsmAssumption DEF RouteInv, TypeOK, TokenInv
<1>1. PICK type \in {"read", "write"} : SendFetchReq(n, c, type)
  BY DEF ReadFetch, WriteFetch
<1>2. wq' = wq /\ owner' = owner /\ PageSpinlock(n, c) /\ ~IsOwner(n)
  BY DEF ReadFetch, WriteFetch, IsOwner, Readable, Writable, ReadOnly
<1> DEFINE p == [type |-> type, node |-> n, cpu |-> c]
<1>3. p \in Proc /\ IsAsk(p) /\ p.node = n /\ p.type = type
  BY DEF Proc, IsAsk
<1>4. req' = [req EXCEPT ![n][FetchTarget(n)] = Append(@, p)]
  BY <1>1 DEF SendFetchReq
<1> HIDE DEF p
<1>5. CASE n # Manager
  <2>0. req' = [req EXCEPT ![n][Manager] = Append(@, p)]
    BY <1>4, <1>5 DEF FetchTarget
  <2>1. /\ req'[n][Manager] = Append(req[n][Manager], p)
        /\ \A x, y \in Nodes : (x # n \/ y # Manager) => req'[x][y] = req[x][y]
    BY <1>0, <2>0, SentAt
  <2>2. \A m : AskFrom(req'[n][Manager], m) <=> AskFrom(req[n][Manager], m) \/ m = n
    BY <1>0, <1>3, <2>1, ReqAt, AskAppend
  <2>3. RouteOK(req', wq')
    <3>1. \A x, y, m \in Nodes :
            AskFrom(req'[x][y], m) => AskFrom(req[x][y], m) \/ (x = n /\ y = Manager /\ m = n)
      BY <2>1, <2>2
    <3>2. \A m \in Nodes : req'[m][m] = req[m][m]
      BY <1>5, <2>1
    <3> QED BY <1>0, <1>2, <1>5, <3>1, <3>2 DEF RouteOK
  <2>4. \A d \in Others : req'[Manager][d] = req[Manager][d] /\ wq'[d] = wq[d]
    BY <1>0, <1>2, <1>5, <2>1 DEF Others
  <2>5. WriteLast(req', wq')
    BY <1>0, <2>4 DEF WriteLast
  <2>6. \A d \in Others : /\ AskAt(req', wq', d) <=> AskAt(req, wq, d)
                          /\ \A m : WriteAt(req', wq', d, m) <=> WriteAt(req, wq, d, m)
    BY <2>4 DEF AskAt, WriteAt
  <2> QED BY <1>0, <1>2, <2>3, <2>5, <2>6, RouteKept
<1>6. CASE n = Manager
  <2>1. lock[Manager] = Free
    BY <1>0, <1>2, <1>6 DEF PageSpinlock
  <2>2. \A x \in Cpus : ~Waits(Manager, x)
    BY <1>0, <2>1, VsmAssumption DEF WaitOK
  <2>3. ~copying[Manager]
    BY <1>0, <2>1, VsmAssumption DEF CopyOK, Draining, Free, Rx
  <2>4. ~ManagerHas
    BY <1>2, <1>6, <2>2, <2>3 DEF ManagerHas, Keeps, GivesOut, Waits
  <2>5. req' = [req EXCEPT ![Manager][owner] = Append(@, p)]
    BY <1>4, <1>6 DEF FetchTarget
  <2>6. /\ RouteOK(req', wq') /\ AskedChained(req', wq', Owners') /\ WriteLast(req', wq')
        /\ owner \in Owners' \/ Sought(req', wq', owner)
        /\ owner \in Others
        /\ \A m \in Nodes : WriteAt(req', wq', owner, m) <=> p.type = "write" /\ p.node = m
    BY <1>2, <1>3, <2>2, <2>4, <2>5, RouteToOwner
  <2>7. WriteAtOwner(req', wq', owner')
    BY <1>2, <1>3, <1>6, <2>6 DEF WriteAtOwner
  <2>8. OwnerKnown(req', wq', owner', Owners', ManagerHas')
    BY <1>2, <2>6 DEF OwnerKnown, Others
  <2> QED BY <2>6, <2>7, <2>8 DEF RouteInv
<1> QED BY <1>5, <1>6

\* Layer 4 after a request is forwarded; a write makes its sender the recorded owner.
LEMMA RouteForwarded ==
  ASSUME TypeOK, TokenInv, RouteInv,
         \A m \in Nodes : Owns(m) => Owns(m)', 
         NEW n \in Nodes, ForwardRead(n) \/ ForwardWrite(n)
  PROVE  RouteInv'
<1>0. /\ RouteOK(req, wq) /\ WriteLast(req, wq) /\ WriteAtOwner(req, wq, owner)
      /\ Manager \in Nodes /\ owner \in Nodes /\ WaitOK /\ CopyOK /\ ReplyOK
  BY VsmAssumption DEF RouteInv, TypeOK, TokenInv
<1> DEFINE p == Current(Manager)
<1>1. /\ n = Manager /\ Draining(Manager) /\ wq[Manager] # <<>> /\ p.type \in {"read", "write"}
      /\ ~copying[Manager] /\ ~IsOwner(Manager) /\ p.node # owner /\ Done(Manager)
      /\ req' = [req EXCEPT ![Manager][owner] = Append(@, p)]
      /\ ForwardRead(n) => p.type = "read" /\ owner' = owner
      /\ ForwardWrite(n) => p.type = "write" /\ owner' = p.node
  BY DEF ForwardRead, ForwardWrite, Forward, Serving
<1>2. \A c \in Cpus : ~Waits(Manager, c)
  BY <1>0, <1>1, DrainingIdle
<1>3. ~ManagerHas
  BY <1>1, <1>2 DEF ManagerHas, Keeps, GivesOut, Waits
<1>4. IsAsk(p)
  BY <1>1 DEF IsAsk
<1>5. /\ p \in Proc /\ p.node \in Nodes /\ p.node # Manager
      /\ ~AskAt(req, wq, p.node)
  BY <1>1, <1>4, NoneAtRequester
<1>6. \A d \in Others : wq'[d] = wq[d]
  BY <1>0, <1>1, DoneAt DEF Others
<1>7. \A m \in Nodes : AskFrom(wq'[Manager], m) => AskFrom(wq[Manager], m)
  <2>1. wq'[Manager] = Tail(wq[Manager]) /\ wq[Manager] \in Seq(Proc)
    BY <1>0, <1>1, DoneAt, ReqAt
  <2> QED BY <1>1, <2>1, AskTail
<1> HIDE DEF p
<1>8. /\ RouteOK(req', wq') /\ AskedChained(req', wq', Owners') /\ WriteLast(req', wq')
      /\ owner \in Owners' \/ Sought(req', wq', owner)
      /\ \A d \in Others : d # owner =>
           /\ AskAt(req', wq', d) <=> AskAt(req, wq, d)
           /\ \A m : WriteAt(req', wq', d, m) <=> WriteAt(req, wq, d, m)
      /\ owner \in Others
      /\ \A m \in Nodes : WriteAt(req', wq', owner, m) <=> p.type = "write" /\ p.node = m
  BY <1>1, <1>2, <1>3, <1>4, <1>5, <1>6, <1>7, RouteToOwner
<1>9. CASE ForwardRead(n)
  <2>1. WriteAtOwner(req', wq', owner')
    BY <1>1, <1>8, <1>9 DEF WriteAtOwner
  <2>2. OwnerKnown(req', wq', owner', Owners', ManagerHas')
    BY <1>1, <1>8, <1>9 DEF OwnerKnown, Others
  <2> QED BY <1>8, <2>1, <2>2 DEF RouteInv
<1>10. CASE ForwardWrite(n)
  <2>1. owner' = p.node /\ p.type = "write" /\ p.node \in Others
    BY <1>1, <1>5, <1>10 DEF Others
  <2>2. \A m \in Nodes : ~WriteAt(req, wq, p.node, m)
    BY <1>5, WriteIsAsk DEF AskAt, WriteAt, AskIn
  <2>3. WriteAtOwner(req', wq', owner')
    BY <1>1, <1>8, <2>1, <2>2 DEF WriteAtOwner
  <2>4. Sought(req', wq', p.node)
    BY <1>5, <1>8, <2>1 DEF Sought
  <2>5. OwnerKnown(req', wq', owner', Owners', ManagerHas')
    BY <1>5, <2>1, <2>4 DEF OwnerKnown
  <2> QED BY <1>8, <2>3, <2>5 DEF RouteInv
<1> QED BY <1>9, <1>10

\* Layer 4 after a message is received.
LEMMA RouteReceived ==
  ASSUME TypeOK, RouteInv, 
         \A m \in Nodes : Owns(m) => Owns(m)', ManagerHas => ManagerHas',
         NEW s \in Nodes, NEW n \in Nodes, RecvRequest(s, n)
  PROVE  RouteInv'
<1>0. /\ RouteOK(req, wq) /\ WriteLast(req, wq)
      /\ Manager \in Nodes /\ owner \in Nodes
  BY VsmAssumption DEF RouteInv, TypeOK
<1>1. s # n /\ req[s][n] # <<>> /\ owner' = owner
  BY DEF RecvRequest
<1> DEFINE p == Head(req[s][n])
<1>2. req[s][n] \in Seq(Proc) /\ wq[n] \in Seq(Proc)
  BY ReqAt
<1>3. p \in Proc /\ p.node \in Nodes
  <2>1. p \in Proc
    BY <1>1, <1>2, TailAt
  <2> QED BY <2>1 DEF Proc
<1>4. /\ wq'[n] = Append(wq[n], p)
      /\ \A m \in Nodes : m # n => wq'[m] = wq[m]
      /\ req'[s][n] = Tail(req[s][n])
      /\ \A x, y \in Nodes : (x # s \/ y # n) => req'[x][y] = req[x][y]
  BY RecvAt, ReceivedAt
<1>5. \A m : /\ AskFrom(req[s][n], m) <=> AskFrom(req'[s][n], m) \/ (IsAsk(p) /\ p.node = m)
             /\ WriteFrom(req[s][n], m) <=> WriteFrom(req'[s][n], m) \/ (p.type = "write" /\
                  p.node = m)
  BY <1>1, <1>2, <1>4, AskTail
<1>6. IsAsk(p) => AskFrom(req[s][n], p.node)
  BY <1>5
<1>7. IsAsk(p) => IF n = Manager THEN p.node = s /\ s # Manager ELSE s = Manager
  BY <1>0, <1>3, <1>6 DEF RouteOK
<1> HIDE DEF p
<1>8. \A m : /\ AskFrom(wq'[n], m) <=> AskFrom(wq[n], m) \/ (IsAsk(p) /\ p.node = m)
             /\ WriteFrom(wq'[n], m) <=> WriteFrom(wq[n], m) \/ (p.type = "write" /\ p.node = m)
  BY <1>2, <1>3, <1>4, AskAppend
<1>9. RouteOK(req', wq')
  <2>1. \A x, y, m \in Nodes : AskFrom(req'[x][y], m) => AskFrom(req[x][y], m)
    BY <1>4, <1>5
  <2>2. \A m \in Nodes : AskFrom(wq'[Manager], m) => m # Manager
    BY <1>0, <1>4, <1>7, <1>8 DEF RouteOK
  <2>3. \A m \in Nodes : req'[m][m] = <<>>
    BY <1>0, <1>1, <1>4 DEF RouteOK
  <2> QED BY <1>0, <2>1, <2>2, <2>3 DEF RouteOK
<1>10. \A d \in Others, m \in Nodes :
         /\ AskFrom(wq'[d], m) \/ AskFrom(req'[Manager][d], m)
              <=> AskFrom(wq[d], m) \/ AskFrom(req[Manager][d], m)
         /\ WriteAt(req', wq', d, m) <=> WriteAt(req, wq, d, m)
  <2> SUFFICES ASSUME NEW d \in Others, NEW m \in Nodes
               PROVE /\ AskFrom(wq'[d], m) \/ AskFrom(req'[Manager][d], m)
                          <=> AskFrom(wq[d], m) \/ AskFrom(req[Manager][d], m)
                     /\ WriteAt(req', wq', d, m) <=> WriteAt(req, wq, d, m)
    OBVIOUS
  <2>1. d \in Nodes /\ d # Manager
    BY DEF Others
  <2>2. CASE d # n
    BY <1>0, <1>4, <2>1, <2>2 DEF WriteAt
  <2>3. CASE d = n /\ s = Manager
    BY <1>5, <1>8, <2>3 DEF WriteAt
  <2>4. CASE d = n /\ s # Manager
    <3>1. req'[Manager][d] = req[Manager][d] /\ ~IsAsk(p)
      BY <1>0, <1>4, <1>7, <2>1, <2>4
    <3> QED BY <1>8, <2>4, <3>1 DEF WriteAt, IsAsk
  <2> QED BY <2>2, <2>3, <2>4
<1>11. \A d \in Others : AskAt(req', wq', d) => AskAt(req, wq, d)
  BY <1>10 DEF AskAt, AskIn
<1>12. WriteLast(req', wq')
  <2> SUFFICES ASSUME NEW d \in Others
               PROVE  /\ WriteEnds(wq'[d]) /\ WriteEnds(req'[Manager][d])
                      /\ WriteIn(wq'[d]) => ~AskIn(req'[Manager][d])
    BY DEF WriteLast
  <2>1. d \in Nodes /\ d # Manager
    BY DEF Others
  <2>2. /\ WriteEnds(wq[d]) /\ WriteEnds(req[Manager][d])
        /\ WriteIn(wq[d]) => ~AskIn(req[Manager][d])
    BY <1>0 DEF WriteLast
  <2>3. CASE d # n
    BY <1>0, <1>4, <2>1, <2>2, <2>3
  <2>4. CASE d = n /\ s = Manager
    <3>1. IsAsk(p) => AskIn(req[Manager][d])
      BY <1>3, <1>6, <2>4 DEF AskIn
    <3>2. WriteEnds(wq'[d])
      BY <1>2, <1>3, <1>4, <2>2, <2>4, <3>1, EndsAppend
    <3>3. /\ WriteEnds(req'[Manager][d])
          /\ p.type = "write" => ~AskIn(req'[Manager][d])
      BY <1>1, <1>2, <1>4, <2>2, <2>4, EndsTail DEF p
    <3>4. AskIn(req'[Manager][d]) => AskIn(req[Manager][d])
      BY <1>5, <2>4 DEF AskIn
    <3>5. WriteIn(wq'[d]) => WriteIn(wq[d]) \/ p.type = "write"
      BY <1>8, <2>4 DEF WriteIn
    <3> QED BY <2>2, <3>2, <3>3, <3>4, <3>5
  <2>5. CASE d = n /\ s # Manager
    <3>1. req'[Manager][d] = req[Manager][d] /\ ~IsAsk(p)
      BY <1>0, <1>4, <1>7, <2>1, <2>5
    <3>2. WriteEnds(wq'[d])
      BY <1>2, <1>3, <1>4, <2>2, <2>5, <3>1, EndsAppend
    <3>3. WriteIn(wq'[d]) => WriteIn(wq[d])
      BY <1>8, <2>5, <3>1 DEF WriteIn, IsAsk
    <3> QED BY <2>2, <3>1, <3>2, <3>3
  <2> QED BY <2>3, <2>4, <2>5
<1> QED BY <1>0, <1>1, <1>9, <1>10, <1>11, <1>12, RouteKept

\* Layer 4 after the ownership is sent: no request is left behind it.
LEMMA RouteGranted ==
  ASSUME TypeOK, TokenInv, OwnerInv, RouteInv, NEW n \in Nodes, SendWriteReply(n)
  PROVE  RouteInv'
<1>0. /\ RouteOK(req, wq) /\ WriteLast(req, wq) /\ WriteAtOwner(req, wq, owner)
      /\ AskedChained(req, wq, Owners) /\ OwnerKnown(req, wq, owner, Owners, ManagerHas)
      /\ Manager \in Nodes /\ owner \in Nodes /\ WaitOK /\ CopyOK /\ ReplyOK /\ AskOK /\ OneOwner /\
           OneToken
  BY VsmAssumption DEF RouteInv, TypeOK, TokenInv, OwnerInv
<1> DEFINE p == Current(n)
<1>1. /\ wq[n] # <<>> /\ p.type = "write" /\ Done(n) /\ copying[n]
      /\ UNCHANGED <<pte, pc, req>> /\ copying' = [copying EXCEPT ![n] = FALSE]
      /\ owner' = IF n = Manager THEN p.node ELSE owner
  BY DEF SendWriteReply, Serving
<1>2. p \in Pending /\ IsAsk(p)
  BY <1>0, <1>1, PendingDone DEF IsAsk
<1>3. /\ p \in Proc /\ p.node \in Nodes /\ p.cpu \in Cpus /\ reply[p.node][p.cpu] = <<>>
      /\ pc[p.node][p.cpu] = "writewait"
  BY <1>0, <1>1, <1>2, PendingType DEF AskOK, WaitFor
<1>4. PICK r \in Reply : SendReply(n, r) /\ (r.wnr <=> p.type = "write")
  BY ReplySent
<1>5. reply'[p.node][p.cpu] = <<r>>
  BY <1>3, <1>4, SendReplyAt
<1>6. <<r>> # <<>> /\ Head(<<r>>) = r
  OBVIOUS
<1>7. \A m : m = p.node => m \in Owners'
  BY <1>1, <1>3, <1>4, <1>5, <1>6 DEF Owners, Owns, Granted
<1>8. \A m \in Nodes : m \in Owners => m = n
  BY <1>0, <1>1 DEF OneOwner, Owners, Owns, Keeps, GivesOut
<1>9. /\ wq'[n] = Tail(wq[n]) /\ wq[n] \in Seq(Proc) /\ req' = req
      /\ \A m \in Nodes : m # n => wq'[m] = wq[m] /\ copying'[m] = copying[m]
  BY <1>1, DoneAt, ReqAt DEF TypeOK
<1>10. \A m : /\ AskFrom(wq[n], m) <=> AskFrom(wq'[n], m) \/ p.node = m
              /\ WriteFrom(wq[n], m) <=> WriteFrom(wq'[n], m) \/ p.node = m
  BY <1>1, <1>2, <1>9, AskTail DEF Current
<1>11. PICK r0 \in Nodes : r0 = p.node
  BY <1>3
<1>12. r0 \in Owners'
  BY <1>7, <1>11
<1>13. /\ AskFrom(wq[n], r0) /\ WriteFrom(wq[n], r0) /\ pc'[r0][p.cpu] = "writewait"
       /\ \A m : AskFrom(wq'[n], m) => AskFrom(wq[n], m)
       /\ \A m : WriteFrom(wq'[n], m) => WriteFrom(wq[n], m)
       /\ \A m : WriteFrom(wq[n], m) => WriteFrom(wq'[n], m) \/ m = r0
  BY <1>1, <1>3, <1>10, <1>11
<1>14. RouteOK(req', wq')
  BY <1>0, <1>9, <1>13 DEF RouteOK
<1>15. n # Manager => ~AskIn(wq'[n]) /\ ~AskIn(req[Manager][n])
  <2>1. ASSUME n # Manager PROVE WriteEnds(wq[n]) /\ ~AskIn(req[Manager][n])
    BY <1>0, <1>13, <2>1 DEF WriteLast, Others, WriteIn
  <2> QED BY <1>1, <1>9, <2>1, EndsTail DEF Current
<1>16. WriteLast(req', wq')
  <2>1. n # Manager => WriteEnds(wq'[n]) /\ ~WriteIn(wq'[n])
    BY <1>0, <1>1, <1>9, <1>15, EndsTail, WriteIsAsk DEF WriteLast, Others
  <2> QED BY <1>0, <1>9, <2>1 DEF WriteLast, Others
<1>17. \A d \in Others, m \in Nodes : WriteAt(req, wq, d, m)
         => WriteAt(req', wq', d, m) \/ (m = r0 /\ d = n)
  BY <1>9, <1>13 DEF WriteAt, Others
<1>18. \A d \in Others, m \in Nodes : WriteAt(req', wq', d, m) => WriteAt(req, wq, d, m)
  BY <1>9, <1>13 DEF WriteAt, Others
<1>19. \A m \in Nodes : Sought(req, wq, m) => Sought(req', wq', m) \/ m = r0
  BY <1>17 DEF Sought
<1>20. AskedChained(req', wq', Owners')
  <2> SUFFICES ASSUME NEW d \in Others, AskAt(req', wq', d)
               PROVE  d \in Owners' \/ Sought(req', wq', d)
    BY DEF AskedChained
  <2>1. d \in Nodes /\ d # Manager /\ d # n
    BY <1>9, <1>15 DEF Others, AskAt
  <2>2. AskAt(req, wq, d)
    BY <1>9, <2>1 DEF AskAt
  <2> QED BY <1>0, <1>8, <1>12, <1>19, <2>1, <2>2 DEF AskedChained
<1> HIDE DEF p
<1>21. CASE n = Manager
  <2>1. owner' = r0
    BY <1>1, <1>11, <1>21
  <2>2. r0 # Manager /\ ~AskAt(req, wq, r0)
    BY <1>1, <1>2, <1>11, <1>21, NoneAtRequester DEF p
  <2>3. r0 \in Others /\ \A m \in Nodes : ~WriteAt(req, wq, r0, m)
    BY <2>2, WriteIsAsk DEF AskAt, WriteAt, AskIn, Others
  <2>4. WriteAtOwner(req', wq', owner')
    BY <1>18, <2>1, <2>3 DEF WriteAtOwner
  <2>5. OwnerKnown(req', wq', owner', Owners', ManagerHas')
    BY <1>12, <2>1, <2>2 DEF OwnerKnown
  <2> QED BY <1>14, <1>16, <1>20, <2>4, <2>5 DEF RouteInv
<1>22. CASE n # Manager
  <2>1. owner' = owner
    BY <1>1, <1>22
  <2>2. WriteAtOwner(req', wq', owner')
    BY <1>0, <1>18, <2>1 DEF WriteAtOwner, Others
  <2>3. ManagerHas => ManagerHas'
    BY <1>0, <1>1, <1>9, <1>22
       DEF ManagerHas, Keeps, GivesOut, Current, IsOwner, Writable, ReadOnly
  <2>4. owner = n => ManagerHas'
    <3>1. ASSUME owner = n PROVE r0 = Manager
      BY <1>0, <1>13, <1>22, <3>1 DEF WriteAtOwner, WriteAt
    <3> QED BY <1>3, <1>13, <3>1 DEF ManagerHas
  <2>5. OwnerKnown(req', wq', owner', Owners', ManagerHas')
    <3>1. CASE ManagerHas
      BY <2>3, <3>1 DEF OwnerKnown
    <3>2. CASE owner # Manager /\ owner \in Owners
      BY <1>0, <1>8, <2>4, <3>2 DEF OwnerKnown
    <3>3. CASE owner # Manager /\ Sought(req, wq, owner)
      BY <1>0, <1>12, <1>19, <2>1, <3>3 DEF OwnerKnown
    <3> QED BY <1>0, <3>1, <3>2, <3>3 DEF OwnerKnown
  <2> QED BY <1>14, <1>16, <1>20, <2>2, <2>5 DEF RouteInv
<1> QED BY <1>21, <1>22

\* Layer 4 is inductive.
LEMMA RouteStep ==
  ASSUME Nodes \subseteq 0..(CopysetBits - 1), TypeOK, TokenInv, OwnerInv, RouteInv, [Next]_vars
  PROVE  RouteInv'
<1>0. OneToken /\ RouteOK(req, wq) /\ owner \in Nodes /\ Users \subseteq Nodes
  BY VsmAssumption DEF TokenInv, RouteInv, TypeOK
<1>1. CASE \E n \in Nodes : SendWriteReply(n)
  BY <1>1, RouteGranted
<1>2. CASE \A n \in Nodes : ~SendWriteReply(n)
  <2>1. (\A m \in Nodes : Owns(m) => Owns(m)') /\ (ManagerHas => ManagerHas')
    BY <1>2, OwnsKept
  \* the waiting requests stay where they are
  <2>2. ASSUME UNCHANGED <<owner, wq, req>> PROVE RouteInv'
    BY <1>0, <2>1, <2>2, RouteShrinks
  <2>3. ASSUME NEW n \in Nodes, NEW c \in Cpus, NEW cs, Invalidate(n, c, cs), UNCHANGED <<owner,
                 wq>>
        PROVE  RouteInv'
    <3> DEFINE i == [type |-> "inv", node |-> n, cpu |-> c]
    <3>1. i \in Proc /\ ~IsAsk(i) /\ i.type # "write"
      BY DEF Proc, IsAsk
    <3>2. \A x, y \in Nodes : req'[x][y] = req[x][y] \/ (x # y /\ req'[x][y] = Append(req[x][y], i))
      <4>1. \A x, y \in Nodes :
              req'[x][y] = IF x = n /\ y \in cs \ {n} THEN Append(req[x][y], i) ELSE req[x][y]
        BY <2>3, InvalidationsAt
      <4> HIDE DEF i
      <4> QED BY <4>1
    <3> HIDE DEF i
    <3>3. \A x, y \in Nodes :
            /\ \A m : AskFrom(req'[x][y], m) <=> AskFrom(req[x][y], m)
            /\ \A m : WriteFrom(req'[x][y], m) <=> WriteFrom(req[x][y], m)
            /\ WriteEnds(req[x][y]) => WriteEnds(req'[x][y])
      <4> SUFFICES ASSUME NEW x \in Nodes, NEW y \in Nodes
                   PROVE  /\ \A m : AskFrom(req'[x][y], m) <=> AskFrom(req[x][y], m)
                          /\ \A m : WriteFrom(req'[x][y], m) <=> WriteFrom(req[x][y], m)
                          /\ WriteEnds(req[x][y]) => WriteEnds(req'[x][y])
        OBVIOUS
      <4>1. CASE req'[x][y] = req[x][y]
        BY <4>1
      <4>2. CASE req'[x][y] = Append(req[x][y], i)
        <5>1. req[x][y] \in Seq(Proc)
          BY ReqAt
        <5> QED BY <3>1, <4>2, <5>1, AskAppend, EndsAppend
      <4> QED BY <3>2, <4>1, <4>2
    <3>4. \A m \in Nodes : req'[m][m] = req[m][m]
      BY <3>2
    <3> QED BY <1>0, <2>1, <2>3, <3>3, <3>4, RouteShrinks
  <2>4. ASSUME NEW n \in Nodes, wq[n] # <<>>, Current(n).type # "write", Done(n),
                 UNCHANGED <<owner, req>>
        PROVE  RouteInv'
    <3>1. /\ wq'[n] = Tail(wq[n]) /\ wq[n] \in Seq(Proc)
          /\ \A m \in Nodes : m # n => wq'[m] = wq[m]
      BY <2>4, DoneAt, ReqAt
    <3>2. /\ \A m : AskFrom(wq'[n], m) => AskFrom(wq[n], m)
          /\ \A m : WriteFrom(wq'[n], m) <=> WriteFrom(wq[n], m)
          /\ WriteEnds(wq[n]) => WriteEnds(wq'[n])
      BY <2>4, <3>1, AskTail, EndsTail DEF Current
    <3> QED BY <1>0, <2>1, <2>4, <3>1, <3>2, RouteShrinks
  <2>5. ASSUME NEW n \in Nodes, NEW c \in Cpus, GuestStore(n, c) PROVE RouteInv'
    BY <2>2, <2>5 DEF GuestStore
  <2>6. ASSUME NEW n \in Nodes, NEW c \in Cpus, FaultHandler(n, c) PROVE RouteInv'
    <3>1. CASE FaultHit(n, c) \/ ReadFetched(n, c)
      BY <2>2, <3>1 DEF FaultHit, ReadFetched
    <3>2. CASE ReadFetch(n, c) \/ WriteFetch(n, c)
      BY <2>1, <3>2, RouteSent
    <3>3. CASE WriteUpgrade(n, c) \/ WriteFetched(n, c)
      BY <2>3, <3>3 DEF WriteUpgrade, WriteFetched
    <3> QED BY <2>6, <3>1, <3>2, <3>3 DEF FaultHandler
  <2>7. ASSUME NEW s \in Nodes, NEW n \in Nodes, RecvRequest(s, n) PROVE RouteInv'
    BY <2>1, <2>7, RouteReceived
  <2>8. ASSUME NEW n \in Nodes, Server(n) PROVE RouteInv'
    <3>1. CASE ReadServer(n) \/ WriteServer(n) \/ PageUnlock(n)
      BY <2>2, <3>1 DEF ReadServer, WriteServer, PageUnlock
    <3>2. CASE SendReadReply(n) \/ InvalidateServer(n)
      BY <2>4, <3>2 DEF SendReadReply, InvalidateServer, Serving
    <3>3. CASE ForwardRead(n) \/ ForwardWrite(n)
      BY <2>1, <3>3, RouteForwarded
    <3> QED BY <1>2, <2>8, <3>1, <3>2, <3>3 DEF Server
  <2>9. CASE UNCHANGED vars
    BY <2>2, <2>9 DEF vars
  <2> QED BY <1>0, <2>5, <2>6, <2>7, <2>8, <2>9 DEF Next
<1> QED BY <1>1, <1>2

\* Layer 4 holds initially.
LEMMA RouteInit == ASSUME Init PROVE RouteInv
<1>1. /\ \A s, d \in Nodes : req[s][d] = <<>> /\ wq[d] = <<>>
      /\ owner = Manager /\ Manager \in Nodes
  BY VsmAssumption DEF Init
<1>2. \A n : ~AskFrom(<<>>, n) /\ ~WriteFrom(<<>>, n)
  BY DEF AskFrom, WriteFrom
<1>3. ~AskIn(<<>>) /\ ~WriteIn(<<>>) /\ WriteEnds(<<>>)
  BY <1>2 DEF AskIn, WriteIn, WriteEnds
<1>4. RouteOK(req, wq)
  BY <1>1, <1>2 DEF RouteOK
<1>5. AskedChained(req, wq, Owners) /\ WriteLast(req, wq) /\ WriteAtOwner(req, wq, owner)
  BY <1>1, <1>3 DEF AskedChained, AskAt, WriteLast, WriteAtOwner, Others
<1>6. OwnerKnown(req, wq, owner, Owners, ManagerHas)
  BY <1>1 DEF OwnerKnown, ManagerHas, Keeps, IsOwner, Writable, Init
<1> QED BY <1>4, <1>5, <1>6 DEF RouteInv

\* The layers imply that nothing panics.
LEMMA RouteSafe ==
  ASSUME TypeOK, TokenInv, OwnerInv, RouteInv
  PROVE  NoPanic
<1>0. /\ RouteOK(req, wq) /\ AskedChained(req, wq, Owners)
      /\ OwnerKnown(req, wq, owner, Owners, ManagerHas)
      /\ Manager \in Nodes /\ owner \in Nodes /\ WaitOK /\ ReplyOK /\ AskOK
  BY VsmAssumption DEF RouteInv, TypeOK, TokenInv
<1>1. ASSUME NEW n \in Nodes, AtBystander(n) PROVE FALSE
  <2>1. /\ Draining(n) /\ wq[n] # <<>> /\ Current(n).type \in {"read", "write"}
        /\ ~copying[n] /\ ~IsOwner(n) /\ n \in Others
    BY <1>1 DEF AtBystander, Serving, Others
  <2>2. AskAt(req, wq, n)
    <3>1. Current(n).node \in Nodes /\ wq[n] \in Seq(Proc) /\ IsAsk(Current(n))
      BY <2>1, CurrentType, ReqAt DEF Proc, IsAsk
    <3>2. AskFrom(wq[n], Current(n).node)
      BY <2>1, <3>1, AskTail DEF Current
    <3> QED BY <3>1, <3>2 DEF AskAt, AskIn
  <2>3. ~Owns(n)
    BY <1>0, <2>1, DrainingIdle DEF Owns, Keeps, GivesOut, Granted
  <2>4. PICK e \in Others : WriteAt(req, wq, e, n)
    BY <1>0, <2>1, <2>2, <2>3 DEF AskedChained, Owners, Sought
  <2>5. PICK p \in Pending : p.node = n
    BY <1>0, <2>4, AskPending DEF WriteAt, Others
  <2> QED BY <1>0, <2>1, <2>5, PendingWaits
<1>2. ASSUME Serving(Manager, "read") \/ Serving(Manager, "write"),
             ~copying[Manager], ~IsOwner(Manager), Current(Manager).node = owner
      PROVE  FALSE
  <2>1. /\ Draining(Manager) /\ wq[Manager] # <<>> /\ IsAsk(Current(Manager))
    BY <1>2 DEF Serving, IsAsk
  <2>2. ~ManagerHas
    BY <1>0, <1>2, <2>1, DrainingIdle DEF ManagerHas, Keeps, GivesOut, Waits
  <2>3. /\ Current(Manager).node \in Nodes /\ ~Owns(Current(Manager).node)
        /\ ~Sought(req, wq, Current(Manager).node)
    BY <2>1, NoneAtRequester
  <2> QED BY <1>0, <1>2, <2>2, <2>3 DEF OwnerKnown, Owners
<1>3. \A n \in Nodes : req[n][n] = <<>>
  BY <1>0 DEF RouteOK
<1> QED BY <1>1, <1>2, <1>3 DEF NoPanic, NoUnreachable

\* No request reaches the "unreachable" branches of vsm_read_server_process
\* and vsm_write_server_process, the manager never sees a "fetch request from
\* owner!", and no node sends itself a message.
THEOREM RequestsReachOwner ==
  ASSUME Nodes \subseteq 0..(CopysetBits - 1)
  PROVE  Spec => []NoPanic
<1> DEFINE I == TypeOK /\ TokenInv /\ OwnerInv /\ RouteInv
<1>1. Init => I
  BY TypeInit, TokenInit, OwnerInit, RouteInit
<1>2. I /\ [Next]_vars => I'
  <2> SUFFICES ASSUME I, [Next]_vars PROVE I'
    OBVIOUS
  <2>1. TypeOK' /\ TokenInv'
    BY TypeStep, TokenStep
  <2> QED BY <2>1, OwnerStep, RouteStep
<1>3. I => NoPanic
  BY RouteSafe
<1> QED BY <1>1, <1>2, <1>3, PTL DEF Spec
=============================================================================

---------------------------- MODULE ClusterProofs ----------------------------
(*****************************************************************************)
(* Cluster for any number of machines and vCPUs: the guest starts only when  *)
(* every node is set up, no sub-node stops except one that Node 0 left out   *)
(* of its table, and all nodes agree on a table that gives no memory and no  *)
(* vCPU id twice.                                                            *)
(*****************************************************************************)
EXTENDS Cluster, SequenceTheorems, FiniteSetTheorems, TLAPS

(* The inductive invariant.                                                *)

Entries == [mac : Machines, start : Nat, size : {1}, vcpus : [1..NVcpu -> Nat]]
DownFrames == [type : {"INIT", "BOOT_SIG"}]
              \cup [type : {"CLUSTER_INFO"}, nnodes : Nat, nvcpus : Nat, table : Seq(Entries)]
UpFrames == [type : {"INIT_ACK"}] \cup [type : {"SETUP_DONE"}, src_id : Nat]

Shapes ==
  /\ at \in [Machines -> Places]
  /\ doze \in [Machines -> {"test", "about", "asleep"}]
  /\ down \in [Subs -> Seq(DownFrames)] /\ up \in [Subs -> Seq(UpFrames)]
  /\ cluster \in [Machines -> Seq(Entries)]
  /\ nnodes \in [Machines -> Nat] /\ nvcpus \in [Machines -> Nat]
  /\ online \in [Machines -> SUBSET Nat] /\ active \in [Machines -> SUBSET Nat]
  /\ me \in [Machines -> Nat \cup {None}]
  /\ hdr \in [nnodes : Nat, nvcpus : Nat]
  /\ ready \in [Machines -> BOOLEAN] /\ bootclk \in [Machines -> BOOLEAN]

Elems(q) == {q[i] : i \in 1..Len(q)}

\* q holds a frame of type t; it holds at most one
Has(t, q) == \E f \in Elems(q) : f.type = t
Once(t, q) == \A i, j \in 1..Len(q) : q[i].type = t /\ q[j].type = t => i = j

Nodes0 == cluster[Main]
First(i) == Nodes0[i].vcpus[1]
Registered(s) == \E i \in 1..Len(Nodes0) : Nodes0[i].mac = s

\* Main has broadcast MSG_INIT, read the counters, sent the table
Asked == at[Main] \notin {"init", "request"}
Counted == at[Main] \in {"info.nvcpus", "info.send", "setup", "ready?", "start", "guest"}
Sent == at[Main] \in {"setup", "ready?", "start", "guest"}
Ready == at[Main] \in {"start", "guest"}

TableOK ==
  /\ Len(Nodes0) = nnodes[Main]
  /\ online[Main] = 0..(nnodes[Main] - 1)
  /\ at[Main] = "init" => nnodes[Main] = 0
  /\ at[Main] # "init" => nnodes[Main] > 0 /\ Nodes0[1].mac = Main
  /\ nnodes[Main] = 0 => nvcpus[Main] = 0
  /\ nnodes[Main] > 0 => First(nnodes[Main]) + NVcpu = nvcpus[Main]
  /\ \A i \in 1..Len(Nodes0) :
       /\ Nodes0[i].start = i - 1
       /\ \A k \in 1..NVcpu : Nodes0[i].vcpus[k] = First(i) + k - 1
       /\ First(i) + NVcpu <= nvcpus[Main]
  /\ \A i, j \in 1..Len(Nodes0) : i < j =>
       /\ First(i) + NVcpu <= First(j)
       /\ Nodes0[i].mac # Nodes0[j].mac

\* A sub-node is asked once, answers once and is registered once.
RegisterOK ==
  \A s \in Subs :
    /\ Once("INIT", down[s]) /\ Once("INIT_ACK", up[s])
    /\ Has("INIT", down[s]) => Asked /\ ~Has("INIT_ACK", up[s]) /\ ~Registered(s)
    /\ Has("INIT_ACK", up[s]) => Asked /\ ~Registered(s)
    /\ Registered(s) => Asked

\* Main's loops and its thread; a sub-node runs only its own part
PlacesOK ==
  /\ at[Main] \in {"init", "request", "online?", "info.nnodes", "info.nvcpus", "info.send",
                   "setup", "ready?", "start", "guest"}
  /\ me[Main] = 0
  /\ \A s \in Subs :
       /\ at[s] \in {"off", "nic", "acked?", "setup", "notify", "vcpu?", "panic"}
       /\ at[s] \in {"setup", "notify", "vcpu?"} => me[s] # None
       /\ at[s] \in {"notify", "vcpu?"} => ready[s]
       /\ me[s] # None \/ at[s] = "panic" => Sent

HeaderOK ==
  /\ at[Main] = "info.nnodes" => NrNode <= nnodes[Main]
  /\ Counted => NrNode <= hdr.nnodes /\ hdr.nnodes <= nnodes[Main]
  /\ Counted /\ at[Main] # "info.nvcpus" =>
       hdr.nvcpus = First(hdr.nnodes) + NVcpu \/ hdr.nnodes < nnodes[Main]

\* What update_cluster_info gets, and what it made of it.
InfoOK ==
  \A s \in Subs :
    /\ Once("CLUSTER_INFO", down[s])
    /\ Has("CLUSTER_INFO", down[s]) => Sent /\ me[s] = None
    /\ \A f \in Elems(down[s]) : f.type = "CLUSTER_INFO" =>
         /\ f.nnodes = hdr.nnodes /\ f.nvcpus = hdr.nvcpus
         /\ \A k \in 1..hdr.nnodes : f.table[k] = Nodes0[k]
    /\ me[s] # None =>
         /\ nnodes[s] = hdr.nnodes /\ nvcpus[s] = hdr.nvcpus
         /\ \A k \in 1..hdr.nnodes : cluster[s][k] = Nodes0[k]
         /\ me[s] + 1 \in 1..hdr.nnodes /\ Nodes0[me[s] + 1].mac = s

ActiveOK ==
  /\ \A s \in Subs : \A f \in Elems(up[s]) : f.type = "SETUP_DONE" =>
       f.src_id = me[s] /\ ready[s]
  /\ active[Main] # {} => Sent
  /\ \A id \in active[Main] :
       /\ id + 1 \in 1..hdr.nnodes
       /\ me[Nodes0[id + 1].mac] = id /\ ready[Nodes0[id + 1].mac]

ReadyOK ==
  Ready => /\ 0..(hdr.nnodes - 1) \subseteq active[Main]
           /\ hdr.nvcpus = First(hdr.nnodes) + NVcpu

SignalOK ==
  \A s \in Subs :
    /\ Once("BOOT_SIG", down[s])
    /\ Has("BOOT_SIG", down[s]) => Booted /\ ~bootclk[s]
    /\ bootclk[s] => Booted

ClusterInv ==
  /\ Shapes /\ TableOK /\ RegisterOK /\ PlacesOK /\ HeaderOK /\ InfoOK
  /\ ActiveOK /\ ReadyOK /\ SignalOK /\ NoPanic

-----------------------------------------------------------------------------
(* Machines and queues of frames.                                          *)

\* Main is no sub-node; the constants are positive.
LEMMA Basics ==
  /\ Main \in Machines /\ Subs \subseteq Machines /\ Main \notin Subs
  /\ \A m \in Machines : m = Main \/ m \in Subs
  /\ NrNode \in Nat /\ NrNode > 0 /\ NVcpu \in Nat /\ NVcpu > 0
  /\ None \notin Nat
BY ClusterAssumption DEF Machines, None

\* Nothing is in the empty sequence.
LEMMA InEmpty ==
  ASSUME NEW t
  PROVE  Elems(<<>>) = {} /\ ~Has(t, <<>>) /\ Once(t, <<>>)
<1>1. Len(<<>>) = 0
  OBVIOUS
<1>2. 1..Len(<<>>) = {}
  BY <1>1
<1> QED
  BY <1>2 DEF Elems, Has, Once

\* What Append puts into a queue of frames.
LEMMA InAppend ==
  ASSUME NEW S, NEW q \in Seq(S), NEW f \in S
  PROVE  /\ Append(q, f) \in Seq(S)
         /\ Elems(Append(q, f)) = Elems(q) \cup {f}
         /\ \A t : Has(t, Append(q, f)) <=> Has(t, q) \/ f.type = t
         /\ \A t : Once(t, q) /\ (f.type = t => ~Has(t, q)) => Once(t, Append(q, f))
<1> DEFINE p == Append(q, f)
<1>1. /\ p \in Seq(S) /\ Len(q) \in Nat /\ Len(p) = Len(q) + 1 /\ p[Len(q) + 1] = f
      /\ \A i \in 1..Len(q) : p[i] = q[i]
  BY AppendProperties, LenProperties
<1> HIDE DEF p
<1>2. Elems(p) = Elems(q) \cup {f}
  <2>1. \A i \in 1..Len(p) : i \in 1..Len(q) \/ i = Len(q) + 1
    BY <1>1
  <2>2. \A i \in 1..Len(q) : i \in 1..Len(p)
    BY <1>1
  <2>3. Len(q) + 1 \in 1..Len(p)
    BY <1>1
  <2> QED
    BY <1>1, <2>1, <2>2, <2>3 DEF Elems
<1>3. \A t : Has(t, p) <=> Has(t, q) \/ f.type = t
  BY <1>2 DEF Has
<1>4. ASSUME NEW t, Once(t, q), f.type = t => ~Has(t, q) PROVE Once(t, p)
  <2> SUFFICES ASSUME NEW i \in 1..Len(p), NEW j \in 1..Len(p), p[i].type = t, p[j].type = t
               PROVE  i = j
    BY DEF Once
  <2>1. \A k \in 1..Len(q) : q[k] \in Elems(q)
    BY DEF Elems
  <2>2. \A k \in 1..Len(q) : p[k].type = t => f.type # t
    BY <1>1, <1>4, <2>1 DEF Has
  <2>3. CASE i \in 1..Len(q) /\ j \in 1..Len(q)
    BY <1>1, <1>4, <2>3 DEF Once
  <2>4. CASE i \in 1..Len(q) /\ j = Len(q) + 1
    BY <1>1, <2>2, <2>4
  <2>5. CASE i = Len(q) + 1 /\ j \in 1..Len(q)
    BY <1>1, <2>2, <2>5
  <2> QED
    BY <1>1, <2>3, <2>4, <2>5
<1> QED
  BY <1>1, <1>2, <1>3, <1>4 DEF p

\* What Tail leaves in a queue of frames.
LEMMA InTail ==
  ASSUME NEW S, NEW q \in Seq(S), q # <<>>
  PROVE  /\ Tail(q) \in Seq(S) /\ Head(q) \in S /\ Head(q) \in Elems(q)
         /\ Elems(Tail(q)) \subseteq Elems(q)
         /\ \A t : Has(t, Tail(q)) => Has(t, q)
         /\ \A t : Once(t, q) => Once(t, Tail(q))
         /\ \A t : Once(t, q) /\ Head(q).type = t => ~Has(t, Tail(q))
<1> DEFINE p == Tail(q)
<1>1. /\ Len(q) \in Nat /\ Len(q) # 0 /\ Len(p) = Len(q) - 1 /\ q[1] = Head(q)
      /\ \A i \in 1..Len(p) : p[i] = q[i + 1]
      /\ p \in Seq(S) /\ Head(q) \in S
  BY HeadTailProperties, LenProperties, EmptySeq
<1> HIDE DEF p
<1>2. \A i \in 1..Len(p) : i + 1 \in 1..Len(q) /\ i + 1 # 1
  BY <1>1
<1>3. Elems(p) \subseteq Elems(q)
  BY <1>1, <1>2 DEF Elems
<1>4. 1 \in 1..Len(q) /\ q[1] \in Elems(q)
  BY <1>1 DEF Elems
<1>5. \A t : Has(t, p) => Has(t, q)
  BY <1>3 DEF Has
<1>6. ASSUME NEW t, Once(t, q) PROVE Once(t, p)
  <2> SUFFICES ASSUME NEW i \in 1..Len(p), NEW j \in 1..Len(p), p[i].type = t, p[j].type = t
               PROVE  i = j
    BY DEF Once
  <2>1. i + 1 = j + 1
    BY <1>1, <1>2, <1>6 DEF Once
  <2> QED
    BY <2>1
<1>7. ASSUME NEW t, Once(t, q), Head(q).type = t PROVE ~Has(t, p)
  <2> SUFFICES ASSUME NEW i \in 1..Len(p), p[i].type = t PROVE FALSE
    BY DEF Has, Elems
  <2> QED
    BY <1>1, <1>2, <1>4, <1>7 DEF Once
<1> QED
  BY <1>1, <1>3, <1>4, <1>5, <1>6, <1>7 DEF p

\* send_msg_bcast: a queue towards a sub-node gets the frame or stays as it is.
LEMMA BroadcastAt ==
  ASSUME Shapes, NEW f \in DownFrames, Broadcast(f)
  PROVE  /\ down' \in [Subs -> Seq(DownFrames)]
         /\ \A s \in Subs :
              /\ Elems(down'[s]) \subseteq Elems(down[s]) \cup {f}
              /\ \A t : Has(t, down'[s]) => Has(t, down[s]) \/ f.type = t
              /\ \A t : Once(t, down[s]) /\ (f.type = t => ~Has(t, down[s])) => Once(t, down'[s])
<1>1. ASSUME NEW s \in Subs
      PROVE  /\ down'[s] \in Seq(DownFrames)
             /\ Elems(down'[s]) \subseteq Elems(down[s]) \cup {f}
             /\ \A t : Has(t, down'[s]) => Has(t, down[s]) \/ f.type = t
             /\ \A t : Once(t, down[s]) /\ (f.type = t => ~Has(t, down[s])) => Once(t, down'[s])
  <2>1. down[s] \in Seq(DownFrames)
    BY DEF Shapes
  <2>2. CASE down'[s] = down[s]
    BY <2>1, <2>2
  <2>3. CASE down'[s] = Append(down[s], f)
    <3>1. /\ Append(down[s], f) \in Seq(DownFrames)
          /\ Elems(Append(down[s], f)) = Elems(down[s]) \cup {f}
          /\ \A t : Has(t, Append(down[s], f)) <=> Has(t, down[s]) \/ f.type = t
          /\ \A t : Once(t, down[s]) /\ (f.type = t => ~Has(t, down[s])) => Once(t, Append(down[s], f))
      BY <2>1, InAppend
    <3> QED
      BY <2>3, <3>1
  <2> QED
    BY <2>2, <2>3 DEF Broadcast
<1>2. down' = [s \in Subs |-> down'[s]]
  BY DEF Broadcast
<1> QED
  BY <1>1, <1>2

\* A sub-node takes the first frame of type t.
LEMMA DownTaken ==
  ASSUME Shapes, NEW s \in Subs, NEW t, RecvDown(s, t)
  PROVE  /\ down' \in [Subs -> Seq(DownFrames)]
         /\ IrqsOn(s)
         /\ Head(down[s]) \in Elems(down[s]) /\ Head(down[s]).type = t
         /\ Head(down[s]) \in DownFrames
         /\ Has(t, down[s])
         /\ Once(t, down[s]) => ~Has(t, down'[s])
         /\ \A r \in Subs :
              /\ Elems(down'[r]) \subseteq Elems(down[r])
              /\ \A u : Has(u, down'[r]) => Has(u, down[r])
              /\ \A u : Once(u, down[r]) => Once(u, down'[r])
<1>1. down[s] \in Seq(DownFrames) /\ down[s] # <<>> /\ Head(down[s]).type = t
  BY DEF RecvDown, Shapes
<1>2. PICK q : q = Tail(down[s])
  OBVIOUS
<1>3. down'[s] = q /\ \A r \in Subs : r # s => down'[r] = down[r]
  BY <1>2 DEF RecvDown, Shapes
<1>4. /\ q \in Seq(DownFrames) /\ Head(down[s]) \in DownFrames /\ Head(down[s]) \in Elems(down[s])
      /\ Elems(q) \subseteq Elems(down[s])
      /\ \A u : Has(u, q) => Has(u, down[s])
      /\ \A u : Once(u, down[s]) => Once(u, q)
      /\ \A u : Once(u, down[s]) /\ Head(down[s]).type = u => ~Has(u, q)
  BY <1>1, <1>2, InTail
<1>5. down' \in [Subs -> Seq(DownFrames)]
  BY <1>2, <1>4 DEF RecvDown, Shapes
<1>6. Has(t, down[s])
  BY <1>1, <1>4 DEF Has
<1>7. Once(t, down[s]) => ~Has(t, down'[s])
  BY <1>1, <1>3, <1>4
<1>8. IrqsOn(s)
  BY DEF RecvDown
<1>9. ASSUME NEW r \in Subs
      PROVE  /\ Elems(down'[r]) \subseteq Elems(down[r])
             /\ \A u : Has(u, down'[r]) => Has(u, down[r])
             /\ \A u : Once(u, down[r]) => Once(u, down'[r])
  <2>1. CASE r = s
    BY <1>3, <1>4, <2>1
  <2>2. CASE r # s
    BY <1>3, <2>2
  <2> QED
    BY <2>1, <2>2
<1> QED
  BY <1>1, <1>4, <1>5, <1>6, <1>7, <1>8, <1>9

\* Main takes the first frame of type t.
LEMMA UpTaken ==
  ASSUME Shapes, NEW s \in Subs, NEW t, RecvUp(s, t)
  PROVE  /\ up' \in [Subs -> Seq(UpFrames)]
         /\ doze' \in [Machines -> {"test", "about", "asleep"}]
         /\ IrqsOn(Main)
         /\ Head(up[s]) \in Elems(up[s]) /\ Head(up[s]).type = t
         /\ Head(up[s]) \in UpFrames
         /\ Has(t, up[s])
         /\ Once(t, up[s]) => ~Has(t, up'[s])
         /\ \A r \in Subs :
              /\ Elems(up'[r]) \subseteq Elems(up[r])
              /\ \A u : Has(u, up'[r]) => Has(u, up[r])
              /\ \A u : Once(u, up[r]) => Once(u, up'[r])
<1>1. up[s] \in Seq(UpFrames) /\ up[s] # <<>> /\ Head(up[s]).type = t
  BY DEF RecvUp, Shapes
<1>2. PICK q : q = Tail(up[s])
  OBVIOUS
<1>3. up'[s] = q /\ \A r \in Subs : r # s => up'[r] = up[r]
  BY <1>2 DEF RecvUp, Shapes
<1>4. /\ q \in Seq(UpFrames) /\ Head(up[s]) \in UpFrames /\ Head(up[s]) \in Elems(up[s])
      /\ Elems(q) \subseteq Elems(up[s])
      /\ \A u : Has(u, q) => Has(u, up[s])
      /\ \A u : Once(u, up[s]) => Once(u, q)
      /\ \A u : Once(u, up[s]) /\ Head(up[s]).type = u => ~Has(u, q)
  BY <1>1, <1>2, InTail
<1>5. up' \in [Subs -> Seq(UpFrames)]
  BY <1>2, <1>4 DEF RecvUp, Shapes
<1>6. Has(t, up[s])
  BY <1>1, <1>4 DEF Has
<1>7. Once(t, up[s]) => ~Has(t, up'[s])
  BY <1>1, <1>3, <1>4
<1>8. IrqsOn(Main) /\ doze' \in [Machines -> {"test", "about", "asleep"}]
  BY Basics DEF RecvUp, Wake, Shapes
<1>9. ASSUME NEW r \in Subs
      PROVE  /\ Elems(up'[r]) \subseteq Elems(up[r])
             /\ \A u : Has(u, up'[r]) => Has(u, up[r])
             /\ \A u : Once(u, up[r]) => Once(u, up'[r])
  <2>1. CASE r = s
    BY <1>3, <1>4, <2>1
  <2>2. CASE r # s
    BY <1>3, <2>2
  <2> QED
    BY <2>1, <2>2
<1> QED
  BY <1>1, <1>4, <1>5, <1>6, <1>7, <1>8, <1>9


-----------------------------------------------------------------------------
(* What the steps change.                                                  *)

SameTables == UNCHANGED <<cluster, nnodes, nvcpus, online, active, me>>

\* the entry of a machine is appended to Main's table
Registers(mac) ==
  /\ nnodes'[Main] = nnodes[Main] + 1 /\ nvcpus'[Main] = nvcpus[Main] + NVcpu
  /\ online'[Main] = online[Main] \cup {nnodes[Main]}
  /\ Len(cluster'[Main]) = Len(cluster[Main]) + 1
  /\ \A i \in 1..Len(cluster[Main]) : cluster'[Main][i] = cluster[Main][i]
  /\ LET e == cluster'[Main][Len(cluster[Main]) + 1]
     IN  /\ e.mac = mac /\ e.start = nnodes[Main]
         /\ \A k \in 1..NVcpu : e.vcpus[k] = nvcpus[Main] + k - 1
  /\ \A s \in Subs : cluster'[s] = cluster[s] /\ nnodes'[s] = nnodes[s] /\ nvcpus'[s] = nvcpus[s]

\* node0_ack_node appends one entry and moves the counters.
LEMMA AckNode ==
  ASSUME Shapes, NEW mac \in Machines, node0_ack_node(mac)
  PROVE  /\ Registers(mac)
         /\ cluster' \in [Machines -> Seq(Entries)]
         /\ nnodes' \in [Machines -> Nat] /\ nvcpus' \in [Machines -> Nat]
         /\ online' \in [Machines -> SUBSET Nat]
<1>1. PICK e : e = Entry(mac, nnodes[Main], nvcpus[Main])
  OBVIOUS
<1>2. nnodes[Main] \in Nat /\ nvcpus[Main] \in Nat /\ cluster[Main] \in Seq(Entries)
  BY Basics DEF Shapes
<1>3. /\ e.mac = mac /\ e.start = nnodes[Main] /\ e.size = 1
      /\ e.vcpus = [i \in 1..NVcpu |-> nvcpus[Main] + i - 1]
  BY <1>1 DEF Entry
<1>4. \A k \in 1..NVcpu : e.vcpus[k] = nvcpus[Main] + k - 1
  BY <1>3
<1>5. e \in Entries
  <2>1. \A i \in 1..NVcpu : nvcpus[Main] + i - 1 \in Nat
    BY <1>2, Basics
  <2>2. [i \in 1..NVcpu |-> nvcpus[Main] + i - 1] \in [1..NVcpu -> Nat]
    BY <2>1
  <2> QED
    BY <1>1, <1>2, <2>2 DEF Entries, Entry
<1>6. PICK q : q = Append(cluster[Main], e)
  OBVIOUS
<1>7. /\ q \in Seq(Entries) /\ Len(q) = Len(cluster[Main]) + 1
      /\ \A i \in 1..Len(cluster[Main]) : q[i] = cluster[Main][i]
      /\ q[Len(cluster[Main]) + 1] = e
  BY <1>2, <1>5, <1>6, AppendProperties
<1>8. /\ cluster' = [cluster EXCEPT ![Main] = q]
      /\ nnodes' = [nnodes EXCEPT ![Main] = @ + 1]
      /\ nvcpus' = [nvcpus EXCEPT ![Main] = @ + NVcpu]
      /\ online' = [online EXCEPT ![Main] = @ \cup {nnodes[Main]}]
  BY <1>1, <1>6 DEF node0_ack_node
<1>9. cluster' \in [Machines -> Seq(Entries)] /\ cluster'[Main] = q
  BY <1>7, <1>8, Basics DEF Shapes
<1>10. /\ nnodes' \in [Machines -> Nat] /\ nvcpus' \in [Machines -> Nat]
       /\ nnodes'[Main] = nnodes[Main] + 1 /\ nvcpus'[Main] = nvcpus[Main] + NVcpu
  BY <1>2, <1>8, Basics DEF Shapes
<1>11. /\ online' \in [Machines -> SUBSET Nat]
       /\ online'[Main] = online[Main] \cup {nnodes[Main]}
  BY <1>2, <1>8, Basics DEF Shapes
<1>12. \A s \in Subs : cluster'[s] = cluster[s] /\ nnodes'[s] = nnodes[s] /\ nvcpus'[s] = nvcpus[s]
  BY <1>8, Basics DEF Shapes
<1> QED
  BY <1>3, <1>4, <1>7, <1>9, <1>10, <1>11, <1>12 DEF Registers

\* thread m goes from one place to another
Moves(m, from, to) ==
  /\ at[m] = from /\ at'[m] = to
  /\ \A x \in Machines : x # m => at'[x] = at[x]

\* Goto moves one thread.
LEMMA GotoMoves ==
  ASSUME Shapes, NEW m \in Machines, NEW to \in Places, Goto(m, to)
  PROVE  Moves(m, at[m], to) /\ at' \in [Machines -> Places]
BY DEF Shapes, Goto, Moves

\* Wake keeps the types.
LEMMA WakeOK ==
  ASSUME Shapes, NEW m \in Machines, Wake(m)
  PROVE  doze' \in [Machines -> {"test", "about", "asleep"}]
BY DEF Shapes, Wake

\* The frames without data.
LEMMA FramesAre ==
  /\ Frame("INIT") \in DownFrames /\ Frame("BOOT_SIG") \in DownFrames
  /\ Frame("INIT").type = "INIT" /\ Frame("BOOT_SIG").type = "BOOT_SIG"
  /\ Frame("INIT_ACK") \in UpFrames /\ Frame("INIT_ACK").type = "INIT_ACK"
BY DEF Frame, DownFrames, UpFrames

\* The frame with the table.
LEMMA InfoFrameIs ==
  ASSUME Shapes
  PROVE  /\ InfoFrame \in DownFrames /\ InfoFrame.type = "CLUSTER_INFO"
         /\ InfoFrame.nnodes = hdr.nnodes /\ InfoFrame.nvcpus = hdr.nvcpus
         /\ InfoFrame.table = cluster[Main]
BY Basics DEF InfoFrame, DownFrames, Shapes

\* What a CLUSTER_INFO frame carries.
LEMMA DownFrameIs ==
  ASSUME NEW f \in DownFrames, f.type = "CLUSTER_INFO"
  PROVE  f.nnodes \in Nat /\ f.nvcpus \in Nat /\ f.table \in Seq(Entries)
BY DEF DownFrames

\* What a SETUP_DONE frame carries.
LEMMA UpFrameIs ==
  ASSUME NEW f \in UpFrames, f.type = "SETUP_DONE"
  PROVE  f.src_id \in Nat
BY DEF UpFrames

\* Main's steps

\* cluster_node0_init: Main registers itself.
LEMMA Node0InitAt ==
  ASSUME Shapes, cluster_node0_init
  PROVE  /\ Moves(Main, "init", "request") /\ Registers(Main)
         /\ UNCHANGED <<down, up, active, me, hdr, ready, bootclk>>
         /\ Shapes'
<1>1. Moves(Main, "init", "request") /\ at' \in [Machines -> Places]
  BY GotoMoves, Basics DEF cluster_node0_init, Places
<1>2. /\ Registers(Main)
      /\ cluster' \in [Machines -> Seq(Entries)]
      /\ nnodes' \in [Machines -> Nat] /\ nvcpus' \in [Machines -> Nat]
      /\ online' \in [Machines -> SUBSET Nat]
  BY AckNode, Basics DEF cluster_node0_init
<1>3. UNCHANGED <<doze, down, up, active, me, hdr, ready, bootclk>>
  BY DEF cluster_node0_init
<1> QED
  BY <1>1, <1>2, <1>3 DEF Shapes

\* MSG_INIT is broadcast.
LEMMA InitRequestAt ==
  ASSUME Shapes, broadcast_init_request
  PROVE  /\ Moves(Main, "request", "online?") /\ SameTables
         /\ Broadcast(Frame("INIT")) /\ UNCHANGED <<up, hdr, ready, bootclk>>
         /\ Shapes'
<1>1. Moves(Main, "request", "online?") /\ at' \in [Machines -> Places]
  BY GotoMoves, Basics DEF broadcast_init_request, Places
<1>2. SameTables /\ Broadcast(Frame("INIT")) /\ UNCHANGED <<doze, up, hdr, ready, bootclk>>
  BY DEF broadcast_init_request, SameTables, tables
<1>3. down' \in [Subs -> Seq(DownFrames)]
  BY <1>2, BroadcastAt, FramesAre
<1> QED
  BY <1>1, <1>2, <1>3 DEF Shapes, SameTables

\* A wait loop: on with the condition, or to sleep.
LEMMA WaitForAt ==
  ASSUME Shapes, NEW m \in Machines, NEW from, NEW cond \in BOOLEAN, NEW to \in Places,
         WaitFor(m, from, cond, to)
  PROVE  /\ (cond /\ Moves(m, from, to)) \/ at' = at
         /\ SameTables /\ UNCHANGED <<down, up, hdr, ready, bootclk>>
         /\ Shapes'
<1>1. SameTables /\ UNCHANGED <<down, up, hdr, ready, bootclk>>
  BY DEF WaitFor, SameTables, tables
<1>2. at[m] = from
  BY DEF WaitFor
<1>3. CASE cond
  <2>1. Goto(m, to) /\ doze' = doze
    BY <1>3 DEF WaitFor
  <2>2. Moves(m, from, to) /\ at' \in [Machines -> Places]
    BY <1>2, <2>1, GotoMoves
  <2> QED
    BY <1>1, <1>3, <2>1, <2>2 DEF Shapes, SameTables
<1>4. CASE ~cond
  <2>1. at' = at /\ doze' = [doze EXCEPT ![m] = "about"]
    BY <1>4 DEF WaitFor
  <2>2. doze' \in [Machines -> {"test", "about", "asleep"}]
    BY <2>1 DEF Shapes
  <2> QED
    BY <1>1, <2>1, <2>2 DEF Shapes, SameTables
<1> QED
  BY <1>3, <1>4

\* The two counters are read one after the other.
LEMMA InfoReadAt ==
  ASSUME Shapes, InfoNnodes \/ InfoNvcpus
  PROVE  /\ \/ /\ Moves(Main, "info.nnodes", "info.nvcpus")
               /\ hdr'.nnodes = nnodes[Main] /\ hdr'.nvcpus = hdr.nvcpus
            \/ /\ Moves(Main, "info.nvcpus", "info.send")
               /\ hdr'.nvcpus = nvcpus[Main] /\ hdr'.nnodes = hdr.nnodes
         /\ SameTables /\ UNCHANGED <<down, up, ready, bootclk>>
         /\ Shapes'
<1>1. SameTables /\ UNCHANGED <<doze, down, up, ready, bootclk>>
  BY DEF InfoNnodes, InfoNvcpus, SameTables, tables
<1>2. CASE InfoNnodes
  <2>1. Moves(Main, "info.nnodes", "info.nvcpus") /\ at' \in [Machines -> Places]
    BY <1>2, GotoMoves, Basics DEF InfoNnodes, Places
  <2>2. /\ hdr'.nnodes = nnodes[Main] /\ hdr'.nvcpus = hdr.nvcpus
        /\ hdr' \in [nnodes : Nat, nvcpus : Nat]
    BY <1>2, Basics DEF InfoNnodes, Shapes
  <2> QED
    BY <1>1, <2>1, <2>2 DEF Shapes, SameTables
<1>3. CASE InfoNvcpus
  <2>1. Moves(Main, "info.nvcpus", "info.send") /\ at' \in [Machines -> Places]
    BY <1>3, GotoMoves, Basics DEF InfoNvcpus, Places
  <2>2. /\ hdr'.nvcpus = nvcpus[Main] /\ hdr'.nnodes = hdr.nnodes
        /\ hdr' \in [nnodes : Nat, nvcpus : Nat]
    BY <1>3, Basics DEF InfoNvcpus, Shapes
  <2> QED
    BY <1>1, <2>1, <2>2 DEF Shapes, SameTables
<1> QED
  BY <1>2, <1>3

\* MSG_CLUSTER_INFO is broadcast.
LEMMA InfoSendAt ==
  ASSUME Shapes, broadcast_cluster_info
  PROVE  /\ Moves(Main, "info.send", "setup") /\ SameTables
         /\ Broadcast(InfoFrame) /\ UNCHANGED <<up, hdr, ready, bootclk>>
         /\ Shapes'
<1>1. Moves(Main, "info.send", "setup") /\ at' \in [Machines -> Places]
  BY GotoMoves, Basics DEF broadcast_cluster_info, Places
<1>2. SameTables /\ Broadcast(InfoFrame) /\ UNCHANGED <<doze, up, hdr, ready, bootclk>>
  BY DEF broadcast_cluster_info, SameTables, tables
<1>3. down' \in [Subs -> Seq(DownFrames)]
  BY <1>2, BroadcastAt, InfoFrameIs
<1> QED
  BY <1>1, <1>2, <1>3 DEF Shapes, SameTables

\* cluster_node_me_setup on any machine that knows its id.
LEMMA MeSetupAt ==
  ASSUME Shapes, NEW m \in Machines, NEW to \in Places, cluster_node_me_setup(m, to),
         me[m] # None
  PROVE  /\ Moves(m, "setup", to)
         /\ active'[m] = active[m] \cup {me[m]} /\ ready'[m]
         /\ \A x \in Machines : x # m => active'[x] = active[x] /\ ready'[x] = ready[x]
         /\ UNCHANGED <<down, up, cluster, nnodes, nvcpus, online, me, hdr, bootclk>>
         /\ Shapes'
<1>1. Moves(m, "setup", to) /\ at' \in [Machines -> Places]
  BY GotoMoves DEF cluster_node_me_setup
<1>2. UNCHANGED <<doze, down, up, cluster, nnodes, nvcpus, online, me, hdr, bootclk>>
  BY DEF cluster_node_me_setup
<1>3. ready' \in [Machines -> BOOLEAN] /\ ready'[m]
  BY DEF cluster_node_me_setup, Shapes
<1>4. me[m] \in Nat
  BY DEF Shapes
<1>5. active' \in [Machines -> SUBSET Nat] /\ active'[m] = active[m] \cup {me[m]}
  BY <1>4 DEF cluster_node_me_setup, Shapes
<1>6. \A x \in Machines : x # m => active'[x] = active[x] /\ ready'[x] = ready[x]
  BY DEF cluster_node_me_setup, Shapes
<1> QED
  BY <1>1, <1>2, <1>3, <1>5, <1>6 DEF Shapes

\* node0_start.
LEMMA StartAt ==
  ASSUME Shapes, node0_start
  PROVE  /\ Moves(Main, "start", "guest") /\ SameTables
         /\ \A s \in Subs : bootclk'[s] = bootclk[s]
         /\ Broadcast(Frame("BOOT_SIG")) /\ UNCHANGED <<up, hdr, ready>>
         /\ Shapes'
<1>1. Moves(Main, "start", "guest") /\ at' \in [Machines -> Places]
  BY GotoMoves, Basics DEF node0_start, Places
<1>2. SameTables /\ Broadcast(Frame("BOOT_SIG")) /\ UNCHANGED <<doze, up, hdr, ready>>
  BY DEF node0_start, SameTables, tables
<1>3. down' \in [Subs -> Seq(DownFrames)]
  BY <1>2, BroadcastAt, FramesAre
<1>4. bootclk' \in [Machines -> BOOLEAN] /\ \A s \in Subs : bootclk'[s] = bootclk[s]
  BY Basics DEF node0_start, Shapes
<1> QED
  BY <1>1, <1>2, <1>3, <1>4 DEF Shapes, SameTables


\* The sub-nodes' steps and the interrupts

\* A sub-node sends a frame.
LEMMA UpAppend ==
  ASSUME Shapes, NEW s \in Subs, NEW f \in UpFrames, up' = [up EXCEPT ![s] = Append(@, f)]
  PROVE  /\ up' \in [Subs -> Seq(UpFrames)]
         /\ \A r \in Subs : r # s => up'[r] = up[r]
         /\ Elems(up'[s]) = Elems(up[s]) \cup {f}
         /\ \A t : Has(t, up'[s]) <=> Has(t, up[s]) \/ f.type = t
         /\ \A t : Once(t, up[s]) /\ (f.type = t => ~Has(t, up[s])) => Once(t, up'[s])
<1>1. up[s] \in Seq(UpFrames)
  BY DEF Shapes
<1>2. PICK q : q = Append(up[s], f)
  OBVIOUS
<1>3. /\ q \in Seq(UpFrames)
      /\ Elems(q) = Elems(up[s]) \cup {f}
      /\ \A t : Has(t, q) <=> Has(t, up[s]) \/ f.type = t
      /\ \A t : Once(t, up[s]) /\ (f.type = t => ~Has(t, up[s])) => Once(t, q)
  BY <1>1, <1>2, InAppend
<1>4. up' = [up EXCEPT ![s] = q]
  BY <1>2
<1>5. up'[s] = q /\ up' \in [Subs -> Seq(UpFrames)] /\ \A r \in Subs : r # s => up'[r] = up[r]
  BY <1>3, <1>4 DEF Shapes
<1> QED
  BY <1>3, <1>5

\* A sub-node on its way to wait_for_acked_me and past it.
LEMMA SubMoveAt ==
  ASSUME Shapes, NEW s \in Subs, NicInit(s) \/ subnode_cluster_init(s) \/ wait_for_acked_me(s)
  PROVE  /\ \/ Moves(s, "off", "nic") \/ Moves(s, "nic", "acked?")
            \/ (me[s] # None /\ Moves(s, "acked?", "setup"))
            \/ at' = at
         /\ SameTables /\ UNCHANGED <<down, up, hdr, ready, bootclk>>
         /\ Shapes'
<1>1. s \in Machines
  BY Basics
<1>2. CASE NicInit(s)
  <2>1. Moves(s, "off", "nic") /\ at' \in [Machines -> Places]
    BY <1>1, <1>2, GotoMoves DEF NicInit, Places
  <2>2. SameTables /\ UNCHANGED <<doze, down, up, hdr, ready, bootclk>>
    BY <1>2 DEF NicInit, SameTables, tables
  <2> QED
    BY <2>1, <2>2 DEF Shapes, SameTables
<1>3. CASE subnode_cluster_init(s)
  <2>1. Moves(s, "nic", "acked?") /\ at' \in [Machines -> Places]
    BY <1>1, <1>3, GotoMoves DEF subnode_cluster_init, Places
  <2>2. SameTables /\ UNCHANGED <<doze, down, up, hdr, ready, bootclk>>
    BY <1>3 DEF subnode_cluster_init, SameTables, tables
  <2> QED
    BY <2>1, <2>2 DEF Shapes, SameTables
<1>4. CASE wait_for_acked_me(s)
  <2>1. "setup" \in Places
    BY DEF Places
  <2> QED
    BY <1>1, <1>4, <2>1, WaitForAt DEF wait_for_acked_me
<1> QED
  BY <1>2, <1>3, <1>4

\* MSG_SETUP_DONE is sent.
LEMMA NotifyAt ==
  ASSUME Shapes, NEW s \in Subs, send_setup_done_notify(s), me[s] # None
  PROVE  /\ Moves(s, "notify", "vcpu?") /\ SameTables
         /\ \A r \in Subs : r # s => up'[r] = up[r]
         /\ \A f \in Elems(up'[s]) :
              f \in Elems(up[s]) \/ (f.type = "SETUP_DONE" /\ f.src_id = me[s])
         /\ Has("INIT_ACK", up'[s]) <=> Has("INIT_ACK", up[s])
         /\ Once("INIT_ACK", up[s]) => Once("INIT_ACK", up'[s])
         /\ UNCHANGED <<down, hdr, ready, bootclk>>
         /\ Shapes'
<1>1. Moves(s, "notify", "vcpu?") /\ at' \in [Machines -> Places]
  BY GotoMoves, Basics DEF send_setup_done_notify, Places
<1>2. SameTables /\ UNCHANGED <<doze, down, hdr, ready, bootclk>>
  BY DEF send_setup_done_notify, SameTables, tables
<1>3. PICK f : f = [type |-> "SETUP_DONE", src_id |-> me[s]]
  OBVIOUS
<1>4. me[s] \in Nat
  BY Basics DEF Shapes
<1>5. f \in UpFrames /\ f.type = "SETUP_DONE" /\ f.src_id = me[s]
  BY <1>3, <1>4 DEF UpFrames
<1>6. up' = [up EXCEPT ![s] = Append(@, f)]
  BY <1>3 DEF send_setup_done_notify
<1>7. /\ up' \in [Subs -> Seq(UpFrames)]
      /\ \A r \in Subs : r # s => up'[r] = up[r]
      /\ Elems(up'[s]) = Elems(up[s]) \cup {f}
      /\ \A t : Has(t, up'[s]) <=> Has(t, up[s]) \/ f.type = t
      /\ \A t : Once(t, up[s]) /\ (f.type = t => ~Has(t, up[s])) => Once(t, up'[s])
  BY <1>5, <1>6, UpAppend
<1>8. Shapes'
  BY <1>1, <1>2, <1>7 DEF Shapes, SameTables
<1> QED
  BY <1>1, <1>2, <1>5, <1>7, <1>8

\* MSG_INIT is answered.
LEMMA InitRecvAt ==
  ASSUME Shapes, NEW s \in Subs, recv_init_request(s)
  PROVE  /\ RecvDown(s, "INIT") /\ at' = at /\ SameTables
         /\ \A r \in Subs : r # s => up'[r] = up[r]
         /\ Elems(up'[s]) = Elems(up[s]) \cup {Frame("INIT_ACK")}
         /\ Once("INIT_ACK", up[s]) /\ ~Has("INIT_ACK", up[s]) => Once("INIT_ACK", up'[s])
         /\ UNCHANGED <<hdr, ready, bootclk>>
         /\ Shapes'
<1>1. /\ RecvDown(s, "INIT") /\ Wake(s) /\ at' = at /\ SameTables /\ UNCHANGED <<hdr, ready, bootclk>>
      /\ up' = [up EXCEPT ![s] = Append(@, Frame("INIT_ACK"))]
  BY DEF recv_init_request, SameTables, tables
<1>2. /\ up' \in [Subs -> Seq(UpFrames)]
      /\ \A r \in Subs : r # s => up'[r] = up[r]
      /\ Elems(up'[s]) = Elems(up[s]) \cup {Frame("INIT_ACK")}
      /\ \A t : Once(t, up[s]) /\ (Frame("INIT_ACK").type = t => ~Has(t, up[s]))
                  => Once(t, up'[s])
  BY <1>1, FramesAre, UpAppend
<1>3. down' \in [Subs -> Seq(DownFrames)]
  BY <1>1, DownTaken
<1>4. doze' \in [Machines -> {"test", "about", "asleep"}]
  BY <1>1, WakeOK, Basics
<1>5. Shapes'
  BY <1>1, <1>2, <1>3, <1>4 DEF Shapes, SameTables
<1> QED
  BY <1>1, <1>2, <1>5

\* MSG_INIT_ACK registers the sub-node.
LEMMA InitAckAt ==
  ASSUME Shapes, NEW s \in Subs, recv_init_ack(s)
  PROVE  /\ RecvUp(s, "INIT_ACK") /\ Registers(s) /\ at' = at
         /\ UNCHANGED <<down, active, me, hdr, ready, bootclk>>
         /\ Shapes'
<1>1. /\ RecvUp(s, "INIT_ACK") /\ node0_ack_node(s) /\ at' = at
      /\ UNCHANGED <<down, active, me, hdr, ready, bootclk>>
  BY DEF recv_init_ack
<1>2. /\ Registers(s)
      /\ cluster' \in [Machines -> Seq(Entries)]
      /\ nnodes' \in [Machines -> Nat] /\ nvcpus' \in [Machines -> Nat]
      /\ online' \in [Machines -> SUBSET Nat]
  BY <1>1, AckNode, Basics
<1>3. up' \in [Subs -> Seq(UpFrames)] /\ doze' \in [Machines -> {"test", "about", "asleep"}]
  BY <1>1, UpTaken
<1>4. Shapes'
  BY <1>1, <1>2, <1>3 DEF Shapes
<1> QED
  BY <1>1, <1>2, <1>4

\* MSG_SETUP_DONE marks a node active.
LEMMA SetupDoneAt ==
  ASSUME Shapes, NEW s \in Subs, recv_sub_setup_done(s)
  PROVE  /\ RecvUp(s, "SETUP_DONE") /\ at' = at
         /\ active'[Main] = active[Main] \cup {Head(up[s]).src_id}
         /\ UNCHANGED <<down, cluster, nnodes, nvcpus, online, me, hdr, ready, bootclk>>
         /\ Shapes'
<1>1. /\ RecvUp(s, "SETUP_DONE") /\ at' = at
      /\ UNCHANGED <<down, cluster, nnodes, nvcpus, online, me, hdr, ready, bootclk>>
      /\ active' = [active EXCEPT ![Main] = @ \cup {Head(up[s]).src_id}]
  BY DEF recv_sub_setup_done
<1>2. /\ up' \in [Subs -> Seq(UpFrames)] /\ doze' \in [Machines -> {"test", "about", "asleep"}]
      /\ Head(up[s]) \in UpFrames /\ Head(up[s]).type = "SETUP_DONE"
  BY <1>1, UpTaken
<1>3. PICK id : id = Head(up[s]).src_id
  OBVIOUS
<1>4. id \in Nat
  BY <1>2, <1>3, UpFrameIs
<1>5. active' = [active EXCEPT ![Main] = @ \cup {id}]
  BY <1>1, <1>3
<1>6. active' \in [Machines -> SUBSET Nat] /\ active'[Main] = active[Main] \cup {id}
  BY <1>4, <1>5, Basics DEF Shapes
<1>7. Shapes'
  BY <1>1, <1>2, <1>6 DEF Shapes
<1> QED
  BY <1>1, <1>3, <1>6, <1>7

\* MSG_BOOT_SIG, when it is the first.
LEMMA BootSigAt ==
  ASSUME Shapes, NEW s \in Subs, recv_boot_sig(s), ~bootclk[s]
  PROVE  /\ RecvDown(s, "BOOT_SIG") /\ at' = at /\ SameTables
         /\ bootclk'[s] /\ \A x \in Machines : x # s => bootclk'[x] = bootclk[x]
         /\ UNCHANGED <<up, hdr, ready>>
         /\ Shapes'
<1>1. /\ RecvDown(s, "BOOT_SIG") /\ Wake(s) /\ at' = at /\ SameTables
      /\ bootclk' = [bootclk EXCEPT ![s] = TRUE]
      /\ UNCHANGED <<up, hdr, ready>>
  BY DEF recv_boot_sig, SameTables, tables
<1>2. down' \in [Subs -> Seq(DownFrames)]
  BY <1>1, DownTaken
<1>3. doze' \in [Machines -> {"test", "about", "asleep"}]
  BY <1>1, WakeOK, Basics
<1>4. /\ bootclk' \in [Machines -> BOOLEAN]
      /\ bootclk'[s] /\ \A x \in Machines : x # s => bootclk'[x] = bootclk[x]
  BY <1>1, Basics DEF Shapes
<1>5. Shapes'
  BY <1>1, <1>2, <1>3, <1>4 DEF Shapes, SameTables
<1> QED
  BY <1>1, <1>4, <1>5

\* Steps that only doze or wake.
LEMMA DozeAt ==
  ASSUME Shapes, NEW m \in Machines, Wfi(m) \/ OtherIrq(m)
  PROVE  SameTables /\ UNCHANGED <<at, down, up, hdr, ready, bootclk>> /\ Shapes'
<1>1. SameTables /\ UNCHANGED <<at, down, up, hdr, ready, bootclk>>
  BY DEF Wfi, OtherIrq, SameTables, tables
<1>2. doze' \in [Machines -> {"test", "about", "asleep"}]
  BY WakeOK DEF Wfi, OtherIrq, Shapes
<1> QED
  BY <1>1, <1>2 DEF Shapes, SameTables

\* update_cluster_info, when a machine is at most once in the table: the id is
\* the one of its entry, or the node stops in "whoami????".
LEMMA UpdateAt ==
  ASSUME Shapes, NEW s \in Subs, update_cluster_info(s),
         \A i, j \in MyIds(s, Head(down[s])) : i = j
  PROVE  /\ RecvDown(s, "CLUSTER_INFO")
         /\ nnodes'[s] = Head(down[s]).nnodes /\ nvcpus'[s] = Head(down[s]).nvcpus
         /\ cluster'[s] = Head(down[s]).table
         /\ \A x \in Machines : x # s =>
              /\ nnodes'[x] = nnodes[x] /\ nvcpus'[x] = nvcpus[x] /\ cluster'[x] = cluster[x]
              /\ online'[x] = online[x] /\ active'[x] = active[x] /\ me'[x] = me[x]
              /\ at'[x] = at[x]
         /\ \/ MyIds(s, Head(down[s])) = {} /\ at'[s] = "panic" /\ me'[s] = me[s]
            \/ at'[s] = at[s] /\ me'[s] \in MyIds(s, Head(down[s]))
         /\ UNCHANGED <<up, hdr, ready, bootclk>>
         /\ Shapes'
<1>1. PICK f : f = Head(down[s])
  OBVIOUS
<1>2. PICK mine : mine = MyIds(s, f)
  OBVIOUS
<1>3. RecvDown(s, "CLUSTER_INFO") /\ UNCHANGED <<up, hdr, ready, bootclk>>
  BY DEF update_cluster_info
<1>4. /\ down' \in [Subs -> Seq(DownFrames)] /\ f \in DownFrames /\ f.type = "CLUSTER_INFO"
  BY <1>1, <1>3, DownTaken
<1>5. f.nnodes \in Nat /\ f.nvcpus \in Nat /\ f.table \in Seq(Entries)
  BY <1>4, DownFrameIs
<1>6. /\ nnodes' = [nnodes EXCEPT ![s] = f.nnodes]
      /\ nvcpus' = [nvcpus EXCEPT ![s] = f.nvcpus]
      /\ cluster' = [cluster EXCEPT ![s] = f.table]
      /\ online' = [online EXCEPT ![s] = @ \cup 0..(f.nnodes - 1)]
      /\ active' = [active EXCEPT ![s] = @ \cup 0..(f.nnodes - 1)]
  BY <1>1 DEF update_cluster_info
<1>7. s \in Machines
  BY Basics
<1>8. 0..(f.nnodes - 1) \subseteq Nat
  BY <1>5
<1>9. /\ nnodes' \in [Machines -> Nat] /\ nvcpus' \in [Machines -> Nat]
      /\ cluster' \in [Machines -> Seq(Entries)]
      /\ nnodes'[s] = f.nnodes /\ nvcpus'[s] = f.nvcpus /\ cluster'[s] = f.table
      /\ \A x \in Machines : x # s =>
           nnodes'[x] = nnodes[x] /\ nvcpus'[x] = nvcpus[x] /\ cluster'[x] = cluster[x]
  BY <1>5, <1>6, <1>7 DEF Shapes
<1>10. /\ online' \in [Machines -> SUBSET Nat] /\ active' \in [Machines -> SUBSET Nat]
       /\ \A x \in Machines : x # s => online'[x] = online[x] /\ active'[x] = active[x]
  BY <1>6, <1>7, <1>8 DEF Shapes
<1>11. mine \subseteq Nat
  BY <1>2, <1>8 DEF MyIds
<1>12. /\ at' \in [Machines -> Places] /\ me' \in [Machines -> Nat \cup {None}]
       /\ doze' \in [Machines -> {"test", "about", "asleep"}]
       /\ \A x \in Machines : x # s => at'[x] = at[x] /\ me'[x] = me[x]
       /\ \/ mine = {} /\ at'[s] = "panic" /\ me'[s] = me[s]
          \/ at'[s] = at[s] /\ me'[s] \in mine
  <2>1. CASE mine = {}
    <3>1. at' = [at EXCEPT ![s] = "panic"] /\ me' = me /\ doze' = doze
      BY <1>1, <1>2, <2>1 DEF update_cluster_info
    <3>2. "panic" \in Places
      BY DEF Places
    <3> QED
      BY <1>7, <2>1, <3>1, <3>2 DEF Shapes
  <2>2. CASE mine # {}
    <3>1. PICK id : id = CHOOSE i \in mine : \A j \in mine : j <= i
      OBVIOUS
    <3>2. me' = [me EXCEPT ![s] = id] /\ at' = at /\ Wake(s)
      BY <1>1, <1>2, <2>2, <3>1 DEF update_cluster_info
    <3>3. \E i \in mine : \A j \in mine : j <= i
      BY <1>1, <1>2, <1>11, <2>2
    <3>4. id \in mine
      BY <3>1, <3>3
    <3>5. doze' \in [Machines -> {"test", "about", "asleep"}]
      BY <1>7, <3>2, WakeOK
    <3> QED
      BY <1>7, <1>11, <3>2, <3>4, <3>5 DEF Shapes
  <2> QED
    BY <2>1, <2>2
<1>13. Shapes'
  BY <1>3, <1>4, <1>9, <1>10, <1>12 DEF Shapes
<1> QED
  BY <1>1, <1>2, <1>3, <1>9, <1>10, <1>12, <1>13


-----------------------------------------------------------------------------
(* The parts of the invariant that a step cannot disturb.                  *)

SameMain == /\ cluster'[Main] = cluster[Main] /\ nnodes'[Main] = nnodes[Main]
            /\ nvcpus'[Main] = nvcpus[Main] /\ online'[Main] = online[Main]

\* A step that leaves Main's table alone.
LEMMA TableKept ==
  ASSUME TableOK, SameMain, at'[Main] = "init" <=> at[Main] = "init"
  PROVE  TableOK'
BY DEF TableOK, SameMain, Nodes0, First

\* A step that sends no INIT and no INIT_ACK and registers nobody.
LEMMA RegisterKept ==
  ASSUME RegisterOK, cluster'[Main] = cluster[Main], Asked => Asked',
         \A s \in Subs :
           /\ Once("INIT", down'[s]) /\ Once("INIT_ACK", up'[s])
           /\ Has("INIT", down'[s]) => Has("INIT", down[s])
           /\ Has("INIT_ACK", up'[s]) => Has("INIT_ACK", up[s])
  PROVE  RegisterOK'
<1>1. \A s \in Subs : Registered(s)' <=> Registered(s)
  BY DEF Registered, Nodes0
<1> QED
  BY <1>1 DEF RegisterOK

\* A step that leaves the header and the counters alone.
LEMMA HeaderKept ==
  ASSUME HeaderOK, SameMain, hdr' = hdr,
         at'[Main] = "info.nnodes" => at[Main] = "info.nnodes",
         Counted' => Counted,
         Counted' /\ at'[Main] # "info.nvcpus" => at[Main] # "info.nvcpus"
  PROVE  HeaderOK'
BY DEF HeaderOK, SameMain, First, Nodes0, Counted

\* A step that sends no table and applies none.
LEMMA InfoKept ==
  ASSUME InfoOK, hdr' = hdr, me' = me, cluster'[Main] = cluster[Main], Sent => Sent',
         \A s \in Subs :
           /\ nnodes'[s] = nnodes[s] /\ nvcpus'[s] = nvcpus[s] /\ cluster'[s] = cluster[s]
           /\ Once("CLUSTER_INFO", down'[s])
           /\ Has("CLUSTER_INFO", down'[s]) => Has("CLUSTER_INFO", down[s])
           /\ \A f \in Elems(down'[s]) : f.type = "CLUSTER_INFO" => f \in Elems(down[s])
  PROVE  InfoOK'
BY DEF InfoOK, Nodes0

\* A step that sends no SETUP_DONE and takes none.
LEMMA ActiveKept ==
  ASSUME ActiveOK, hdr' = hdr, me' = me, cluster'[Main] = cluster[Main], Sent => Sent',
         active'[Main] = active[Main], \A m \in Machines : ready[m] => ready'[m],
         \A id \in active[Main] : Nodes0[id + 1].mac \in Machines,
         \A s \in Subs : \A f \in Elems(up'[s]) : f.type = "SETUP_DONE" => f \in Elems(up[s])
  PROVE  ActiveOK'
BY Basics DEF ActiveOK, Nodes0

\* A step that does not pass wait_for_all_node_ready.
LEMMA ReadyKept ==
  ASSUME ReadyOK, hdr' = hdr, cluster'[Main] = cluster[Main], Ready' => Ready,
         active[Main] \subseteq active'[Main]
  PROVE  ReadyOK'
BY DEF ReadyOK, First, Nodes0

\* A step that sends no boot signal and takes none.
LEMMA SignalKept ==
  ASSUME SignalOK, Booted => Booted',
         \A s \in Subs :
           /\ bootclk'[s] = bootclk[s]
           /\ Once("BOOT_SIG", down'[s])
           /\ Has("BOOT_SIG", down'[s]) => Has("BOOT_SIG", down[s])
  PROVE  SignalOK'
BY DEF SignalOK

\* A step in which nobody stops.
LEMMA PanicKept ==
  ASSUME NoPanic, hdr' = hdr, cluster'[Main] = cluster[Main],
         \A m \in Machines : at'[m] = "panic" => at[m] = "panic"
  PROVE  NoPanic'
BY DEF NoPanic, LeftOut

\* what the parts say of each other
LEMMA Consequences ==
  ASSUME ClusterInv
  PROVE  /\ nnodes[Main] \in Nat /\ nvcpus[Main] \in Nat /\ hdr.nnodes \in Nat /\ hdr.nvcpus \in Nat
         /\ Len(Nodes0) \in Nat /\ Nodes0 \in Seq(Entries) /\ me[Main] = 0
         /\ \A i \in 1..Len(Nodes0) : /\ Nodes0[i].mac \in Machines /\ First(i) \in Nat
                                      /\ Nodes0[i].size = 1
         /\ Sent => Counted
         /\ Counted => hdr.nnodes > 0 /\ hdr.nnodes <= Len(Nodes0)
         /\ \A id \in active[Main] : /\ id \in Nat /\ id + 1 \in 1..Len(Nodes0)
                                     /\ Nodes0[id + 1].mac \in Machines
<1>1. /\ nnodes[Main] \in Nat /\ nvcpus[Main] \in Nat /\ hdr.nnodes \in Nat /\ hdr.nvcpus \in Nat
      /\ Nodes0 \in Seq(Entries) /\ me[Main] = 0 /\ active[Main] \subseteq Nat
  BY Basics DEF ClusterInv, Shapes, Nodes0, PlacesOK
<1>2. Len(Nodes0) \in Nat
  BY <1>1, LenProperties
<1>3. 1 \in 1..NVcpu
  BY Basics
<1>4. \A e \in Entries : e.mac \in Machines /\ e.vcpus[1] \in Nat /\ e.size = 1
  BY <1>3 DEF Entries
<1>5. \A i \in 1..Len(Nodes0) : Nodes0[i].mac \in Machines /\ First(i) \in Nat /\ Nodes0[i].size = 1
  BY <1>1, <1>4, ElementOfSeq DEF First
<1>6. Sent => Counted
  BY DEF Sent, Counted
<1>7. Counted => hdr.nnodes > 0 /\ hdr.nnodes <= Len(Nodes0)
  BY <1>1, Basics DEF ClusterInv, HeaderOK, TableOK
<1>8. \A id \in active[Main] : id \in Nat /\ id + 1 \in 1..Len(Nodes0)
  BY <1>1, <1>2, <1>6, <1>7 DEF ClusterInv, ActiveOK
<1> QED
  BY <1>1, <1>2, <1>5, <1>6, <1>7, <1>8

\* A step that changes none of what the invariant is about.
LEMMA NoneMoved ==
  ASSUME ClusterInv, Shapes', SameTables, UNCHANGED <<at, down, up, hdr, ready, bootclk>>
  PROVE  ClusterInv'
<1>1. TableOK' /\ HeaderOK'
  BY TableKept, HeaderKept DEF ClusterInv, SameMain, SameTables, Counted
<1>2. RegisterOK' /\ PlacesOK'
  BY DEF ClusterInv, RegisterOK, PlacesOK, SameTables, Asked, Sent, Registered, Nodes0
<1>3. InfoOK'
  BY DEF ClusterInv, InfoOK, SameTables, Sent, Nodes0
<1>4. ActiveOK' /\ ReadyOK'
  BY DEF ClusterInv, ActiveOK, ReadyOK, SameTables, Sent, Ready, First, Nodes0
<1>5. SignalOK' /\ NoPanic'
  BY DEF ClusterInv, SignalOK, NoPanic, LeftOut, Booted, SameTables
<1> QED
  BY <1>1, <1>2, <1>3, <1>4, <1>5 DEF ClusterInv

\* The invariant holds initially.
LEMMA InitOK == Init => ClusterInv
<1> SUFFICES ASSUME Init PROVE ClusterInv
  OBVIOUS
<1>1. /\ \A s \in Subs : down[s] = <<>> /\ up[s] = <<>> /\ me[s] = None /\ at[s] = "off"
      /\ at[Main] = "init" /\ me[Main] = 0 /\ nnodes[Main] = 0 /\ nvcpus[Main] = 0
      /\ online[Main] = {} /\ active[Main] = {} /\ cluster[Main] = <<>>
      /\ \A m \in Machines : ~bootclk[m]
  BY Basics DEF Init
<1>2. Shapes
  <2>1. /\ at \in [Machines -> Places] /\ doze \in [Machines -> {"test", "about", "asleep"}]
    BY DEF Init, Places
  <2>2. /\ down \in [Subs -> Seq(DownFrames)] /\ up \in [Subs -> Seq(UpFrames)]
        /\ cluster \in [Machines -> Seq(Entries)]
    BY EmptySeq DEF Init
  <2>3. /\ nnodes \in [Machines -> Nat] /\ nvcpus \in [Machines -> Nat]
        /\ me \in [Machines -> Nat \cup {None}] /\ hdr \in [nnodes : Nat, nvcpus : Nat]
    BY DEF Init
  <2>4. /\ online \in [Machines -> SUBSET Nat] /\ active \in [Machines -> SUBSET Nat]
    BY DEF Init
  <2>5. ready \in [Machines -> BOOLEAN] /\ bootclk \in [Machines -> BOOLEAN]
    BY DEF Init
  <2> QED
    BY <2>1, <2>2, <2>3, <2>4, <2>5 DEF Shapes
<1>3. Len(cluster[Main]) = 0 /\ 1..Len(cluster[Main]) = {} /\ 0..(nnodes[Main] - 1) = {}
  <2>1. Len(<<>>) = 0
    OBVIOUS
  <2> QED
    BY <1>1, <2>1
<1>4. TableOK
  BY <1>1, <1>3 DEF TableOK, Nodes0
<1>5. RegisterOK
  BY <1>1, <1>3, InEmpty DEF RegisterOK, Registered, Nodes0
<1>6. PlacesOK /\ HeaderOK /\ ReadyOK /\ NoPanic
  BY <1>1, Basics DEF PlacesOK, HeaderOK, ReadyOK, NoPanic, Counted, Ready
<1>7. InfoOK /\ ActiveOK /\ SignalOK
  BY <1>1, InEmpty, Basics DEF InfoOK, ActiveOK, SignalOK
<1> QED
  BY <1>2, <1>4, <1>5, <1>6, <1>7 DEF ClusterInv


-----------------------------------------------------------------------------
(* Main's thread.                                                          *)

\* Main registers itself.
LEMMA Node0InitInv == ASSUME ClusterInv, cluster_node0_init PROVE ClusterInv'
<1>1. /\ Moves(Main, "init", "request") /\ Registers(Main)
      /\ UNCHANGED <<down, up, active, me, hdr, ready, bootclk>> /\ Shapes'
  BY Node0InitAt DEF ClusterInv
<1>2. at[Main] = "init" /\ at'[Main] = "request" /\ \A s \in Subs : at'[s] = at[s]
  BY <1>1, Basics DEF Moves
<1>3. ~Asked /\ ~Sent /\ nnodes[Main] = 0 /\ nvcpus[Main] = 0 /\ Len(Nodes0) = 0
  BY <1>2 DEF Asked, Sent, ClusterInv, TableOK
<1>4. /\ nnodes'[Main] = 1 /\ nvcpus'[Main] = NVcpu /\ Len(cluster'[Main]) = 1
      /\ cluster'[Main][1].mac = Main /\ cluster'[Main][1].start = 0
      /\ \A k \in 1..NVcpu : cluster'[Main][1].vcpus[k] = k - 1
  BY <1>1, <1>3, Basics DEF Registers, Nodes0
<1>5. TableOK'
  <2>1. 1 \in 1..NVcpu
    BY Basics
  <2>2. online'[Main] = 0..(nnodes'[Main] - 1)
    <3>1. online[Main] = {}
      BY <1>3 DEF ClusterInv, TableOK
    <3>2. 0..(1 - 1) = {0}
      OBVIOUS
    <3> QED
      BY <1>1, <1>3, <1>4, <3>1, <3>2 DEF Registers
  <2> QED
    BY <1>2, <1>4, <2>1, <2>2, Basics DEF TableOK, First, Nodes0
<1>6. RegisterOK'
  <2>1. \A s \in Subs : ~Registered(s)'
    BY <1>4, Basics DEF Registered, Nodes0
  <2> QED
    BY <1>1, <1>2, <1>3, <2>1 DEF ClusterInv, RegisterOK
<1>7. PlacesOK'
  BY <1>1, <1>2, <1>3 DEF ClusterInv, PlacesOK
<1>8. HeaderOK' /\ ReadyOK'
  BY <1>2 DEF HeaderOK, ReadyOK, Counted, Ready
<1>9. InfoOK'
  BY <1>1, <1>3 DEF ClusterInv, InfoOK, PlacesOK, Has
<1>10. ActiveOK'
  BY <1>1, <1>3 DEF ClusterInv, ActiveOK
<1>11. SignalOK'
  BY <1>1, <1>2 DEF ClusterInv, SignalOK, Booted
<1>12. NoPanic'
  BY <1>2, <1>3, Basics DEF ClusterInv, PlacesOK, NoPanic
<1> QED
  BY <1>1, <1>5, <1>6, <1>7, <1>8, <1>9, <1>10, <1>11, <1>12 DEF ClusterInv

\* The only MSG_INIT.
LEMMA InitRequestInv == ASSUME ClusterInv, broadcast_init_request PROVE ClusterInv'
<1>1. /\ Moves(Main, "request", "online?") /\ SameTables
      /\ Broadcast(Frame("INIT")) /\ UNCHANGED <<up, hdr, ready, bootclk>> /\ Shapes'
  BY InitRequestAt DEF ClusterInv
<1>2. at[Main] = "request" /\ at'[Main] = "online?" /\ \A s \in Subs : at'[s] = at[s]
  BY <1>1, Basics DEF Moves
<1>3. \A s \in Subs :
        /\ \A f \in Elems(down'[s]) : f \in Elems(down[s]) \/ f.type = "INIT"
        /\ \A t : Has(t, down'[s]) => Has(t, down[s]) \/ t = "INIT"
        /\ \A t : Once(t, down[s]) /\ (t = "INIT" => ~Has(t, down[s])) => Once(t, down'[s])
  BY <1>1, BroadcastAt, FramesAre DEF ClusterInv
<1>4. ~Asked /\ ~Sent /\ Asked'
  BY <1>2 DEF Asked, Sent
<1>5. SameMain
  BY <1>1 DEF SameMain, SameTables
<1>6. TableOK'
  BY <1>2, <1>5, TableKept DEF ClusterInv
<1>7. RegisterOK'
  <2>1. \A s \in Subs : Registered(s)' <=> Registered(s)
    BY <1>5 DEF Registered, Nodes0, SameMain
  <2> QED
    BY <1>1, <1>3, <1>4, <2>1 DEF ClusterInv, RegisterOK
<1>8. PlacesOK'
  BY <1>1, <1>2, <1>4 DEF ClusterInv, PlacesOK, SameTables
<1>9. HeaderOK' /\ ReadyOK'
  BY <1>2 DEF HeaderOK, ReadyOK, Counted, Ready
<1>10. InfoOK'
  BY <1>1, <1>3, <1>4, InfoKept DEF ClusterInv, SameTables, InfoOK
<1>11. ActiveOK'
  BY <1>1, <1>4 DEF ClusterInv, ActiveOK, SameTables
<1>12. SignalOK'
  BY <1>1, <1>2, <1>3 DEF ClusterInv, SignalOK, Booted
<1>13. NoPanic'
  BY <1>2, <1>4, Basics DEF ClusterInv, PlacesOK, NoPanic
<1> QED
  BY <1>1, <1>6, <1>7, <1>8, <1>9, <1>10, <1>11, <1>12, <1>13 DEF ClusterInv

\* Steps of Main that send nothing and touch no table.
LEMMA MainMovesInv ==
  ASSUME ClusterInv, Shapes', SameTables, UNCHANGED <<down, up, ready, bootclk>>,
         NEW from, NEW to, Moves(Main, from, to),
         from \in {"online?", "info.nnodes", "info.nvcpus", "ready?"},
         to \in {"info.nnodes", "info.nvcpus", "info.send", "start"},
         Sent <=> Sent', Sent => hdr' = hdr
  PROVE  /\ TableOK' /\ RegisterOK' /\ PlacesOK' /\ InfoOK' /\ ActiveOK' /\ SignalOK' /\ NoPanic'
<1>1. at[Main] = from /\ at'[Main] = to /\ \A s \in Subs : at'[s] = at[s]
  BY Basics DEF Moves
<1>2. SameMain /\ Asked /\ Asked'
  BY <1>1 DEF SameMain, SameTables, Asked
<1>3. TableOK'
  BY <1>1, <1>2, TableKept DEF ClusterInv
<1>4. RegisterOK'
  BY <1>2, RegisterKept DEF ClusterInv, RegisterOK, SameMain
<1>5. PlacesOK'
  BY <1>1 DEF ClusterInv, PlacesOK, SameTables
<1>6. InfoOK'
  <2>1. CASE Sent
    BY <2>1, InfoKept DEF ClusterInv, InfoOK, SameTables
  <2>2. CASE ~Sent
    BY <2>2 DEF ClusterInv, InfoOK, PlacesOK, Has, SameTables
  <2> QED
    BY <2>1, <2>2
<1>7. ActiveOK'
  <2>1. CASE Sent
    BY <2>1, ActiveKept, Consequences DEF ClusterInv, SameTables
  <2>2. CASE ~Sent
    BY <2>2 DEF ClusterInv, ActiveOK, SameTables
  <2> QED
    BY <2>1, <2>2
<1>8. SignalOK'
  BY <1>1 DEF ClusterInv, SignalOK, Booted
<1>9. NoPanic'
  <2>1. CASE Sent
    BY <1>1, <2>1, PanicKept, Basics DEF ClusterInv, SameTables, PlacesOK
  <2>2. CASE ~Sent
    BY <1>1, <2>2, Basics DEF ClusterInv, PlacesOK, NoPanic
  <2> QED
    BY <2>1, <2>2
<1> QED
  BY <1>3, <1>4, <1>5, <1>6, <1>7, <1>8, <1>9

\* wait_for_all_node_online: at least NrNode nodes are registered.
LEMMA WaitOnlineInv == ASSUME ClusterInv, wait_for_all_node_online PROVE ClusterInv'
<1>1. all_node_is_online \in BOOLEAN /\ "info.nnodes" \in Places /\ Main \in Machines
  BY Basics DEF all_node_is_online, Places
<1>2. /\ (all_node_is_online /\ Moves(Main, "online?", "info.nnodes")) \/ at' = at
      /\ SameTables /\ UNCHANGED <<down, up, hdr, ready, bootclk>> /\ Shapes'
  BY <1>1, WaitForAt DEF wait_for_all_node_online, ClusterInv
<1>3. CASE at' = at
  BY <1>2, <1>3, NoneMoved
<1>4. CASE all_node_is_online /\ Moves(Main, "online?", "info.nnodes")
  <2>1. at[Main] = "online?" /\ at'[Main] = "info.nnodes"
    BY <1>4 DEF Moves
  <2>2. ~Sent /\ ~Sent' /\ ~Counted' /\ ~Ready'
    BY <2>1 DEF Sent, Counted, Ready
  <2>3. TableOK' /\ RegisterOK' /\ PlacesOK' /\ InfoOK' /\ ActiveOK' /\ SignalOK' /\ NoPanic'
    BY <1>2, <1>4, <2>2, MainMovesInv
  <2>4. NrNode - 1 \in 0..(NrNode - 1)
    BY Basics
  <2>5. NrNode - 1 \in 0..(nnodes[Main] - 1)
    BY <1>4, <2>4 DEF all_node_is_online, ClusterInv, TableOK
  <2>6. NrNode <= nnodes[Main]
    BY <2>5, Basics, Consequences
  <2>7. HeaderOK' /\ ReadyOK'
    BY <1>2, <2>2, <2>6 DEF HeaderOK, ReadyOK, SameTables
  <2> QED
    BY <1>2, <2>3, <2>7 DEF ClusterInv
<1> QED
  BY <1>2, <1>3, <1>4

\* The counters are read: when a node registers in between they disagree, and
\* then the header counts fewer nodes than the table has.
LEMMA InfoReadInv == ASSUME ClusterInv, InfoNnodes \/ InfoNvcpus PROVE ClusterInv'
<1>1. /\ \/ /\ Moves(Main, "info.nnodes", "info.nvcpus")
            /\ hdr'.nnodes = nnodes[Main] /\ hdr'.nvcpus = hdr.nvcpus
         \/ /\ Moves(Main, "info.nvcpus", "info.send")
            /\ hdr'.nvcpus = nvcpus[Main] /\ hdr'.nnodes = hdr.nnodes
      /\ SameTables /\ UNCHANGED <<down, up, ready, bootclk>> /\ Shapes'
  BY InfoReadAt DEF ClusterInv
<1>2. CASE Moves(Main, "info.nnodes", "info.nvcpus") /\ hdr'.nnodes = nnodes[Main]
  <2>1. at[Main] = "info.nnodes" /\ at'[Main] = "info.nvcpus"
    BY <1>2 DEF Moves
  <2>2. ~Sent /\ ~Sent' /\ ~Ready'
    BY <2>1 DEF Sent, Ready
  <2>3. TableOK' /\ RegisterOK' /\ PlacesOK' /\ InfoOK' /\ ActiveOK' /\ SignalOK' /\ NoPanic'
    BY <1>1, <1>2, <2>2, MainMovesInv
  <2>4. HeaderOK'
    BY <1>1, <1>2, <2>1, Consequences DEF HeaderOK, SameTables, ClusterInv
  <2> QED
    BY <1>1, <2>2, <2>3, <2>4 DEF ClusterInv, ReadyOK
<1>3. CASE /\ Moves(Main, "info.nvcpus", "info.send")
           /\ hdr'.nvcpus = nvcpus[Main] /\ hdr'.nnodes = hdr.nnodes
  <2>1. at[Main] = "info.nvcpus" /\ at'[Main] = "info.send"
    BY <1>3 DEF Moves
  <2>2. ~Sent /\ ~Sent' /\ ~Ready' /\ Counted
    BY <2>1 DEF Sent, Ready, Counted
  <2>3. TableOK' /\ RegisterOK' /\ PlacesOK' /\ InfoOK' /\ ActiveOK' /\ SignalOK' /\ NoPanic'
    BY <1>1, <1>3, <2>2, MainMovesInv
  <2>4. /\ NrNode <= hdr.nnodes /\ hdr.nnodes <= nnodes[Main]
        /\ First(nnodes[Main]) + NVcpu = nvcpus[Main]
    BY <2>1, <2>2, Basics, Consequences DEF HeaderOK, ClusterInv, TableOK
  <2>5. hdr.nnodes = nnodes[Main] \/ hdr.nnodes < nnodes[Main]
    BY <2>4, Consequences
  <2>6. HeaderOK'
    BY <1>1, <1>3, <2>1, <2>4, <2>5 DEF HeaderOK, SameTables, First, Nodes0
  <2> QED
    BY <1>1, <2>2, <2>3, <2>6 DEF ClusterInv, ReadyOK
<1> QED
  BY <1>1, <1>2, <1>3

\* The table is sent: its first hdr.nnodes entries never change again.
LEMMA InfoSendInv == ASSUME ClusterInv, broadcast_cluster_info PROVE ClusterInv'
<1>1. /\ Moves(Main, "info.send", "setup") /\ SameTables
      /\ Broadcast(InfoFrame) /\ UNCHANGED <<up, hdr, ready, bootclk>> /\ Shapes'
  BY InfoSendAt DEF ClusterInv
<1>2. at[Main] = "info.send" /\ at'[Main] = "setup" /\ \A s \in Subs : at'[s] = at[s]
  BY <1>1, Basics DEF Moves
<1>3. \A s \in Subs :
        /\ \A f \in Elems(down'[s]) : f \in Elems(down[s]) \/ f = InfoFrame
        /\ \A t : Has(t, down'[s]) => Has(t, down[s]) \/ t = "CLUSTER_INFO"
        /\ \A t : Once(t, down[s]) /\ (t = "CLUSTER_INFO" => ~Has(t, down[s])) => Once(t, down'[s])
  BY <1>1, BroadcastAt, InfoFrameIs DEF ClusterInv
<1>4. Asked /\ Asked' /\ ~Sent /\ Sent' /\ Counted /\ Counted' /\ ~Ready'
  BY <1>2 DEF Asked, Sent, Counted, Ready
<1>5. SameMain
  BY <1>1 DEF SameMain, SameTables
<1>6. TableOK'
  BY <1>2, <1>5, TableKept DEF ClusterInv
<1>7. RegisterOK'
  BY <1>1, <1>3, <1>4, <1>5, RegisterKept DEF ClusterInv, RegisterOK, SameMain
<1>8. PlacesOK'
  BY <1>1, <1>2, <1>4 DEF ClusterInv, PlacesOK, SameTables
<1>9. HeaderOK' /\ ReadyOK'
  BY <1>1, <1>2, <1>4, <1>5, HeaderKept DEF ClusterInv, ReadyOK
<1>10. InfoOK'
  <2>1. \A s \in Subs : me[s] = None /\ ~Has("CLUSTER_INFO", down[s])
    BY <1>4 DEF ClusterInv, PlacesOK, InfoOK
  <2>2. \A s \in Subs : \A f \in Elems(down'[s]) : f.type = "CLUSTER_INFO" => f = InfoFrame
    BY <1>3, <2>1 DEF Has
  <2>3. /\ InfoFrame.nnodes = hdr.nnodes /\ InfoFrame.nvcpus = hdr.nvcpus
        /\ InfoFrame.table = cluster[Main]
    BY InfoFrameIs DEF ClusterInv
  <2>4. PICK g : g = InfoFrame
    OBVIOUS
  <2>5. \A s \in Subs : Once("CLUSTER_INFO", down'[s])
    BY <1>3, <2>1 DEF ClusterInv, InfoOK
  <2> QED
    BY <1>1, <1>4, <2>1, <2>2, <2>3, <2>4, <2>5 DEF InfoOK, Nodes0, SameTables
<1>11. ActiveOK'
  BY <1>1, <1>4 DEF ClusterInv, ActiveOK, SameTables
<1>12. SignalOK'
  BY <1>1, <1>2, <1>3 DEF ClusterInv, SignalOK, Booted
<1>13. NoPanic'
  BY <1>2, <1>4, Basics DEF ClusterInv, PlacesOK, NoPanic
<1> QED
  BY <1>1, <1>6, <1>7, <1>8, <1>9, <1>10, <1>11, <1>12, <1>13 DEF ClusterInv

\* Main is active.
LEMMA MainSetupInv == ASSUME ClusterInv, cluster_node_me_setup(Main, "ready?") PROVE ClusterInv'
<1>1. "ready?" \in Places /\ Main \in Machines /\ me[Main] = 0 /\ 0 # None
  BY Basics DEF Places, ClusterInv, PlacesOK, None
<1>2. /\ Moves(Main, "setup", "ready?")
      /\ active'[Main] = active[Main] \cup {0} /\ ready'[Main]
      /\ \A x \in Machines : x # Main => active'[x] = active[x] /\ ready'[x] = ready[x]
      /\ UNCHANGED <<down, up, cluster, nnodes, nvcpus, online, me, hdr, bootclk>> /\ Shapes'
  BY <1>1, MeSetupAt DEF ClusterInv
<1>3. at[Main] = "setup" /\ at'[Main] = "ready?" /\ \A s \in Subs : at'[s] = at[s]
  BY <1>2, Basics DEF Moves
<1>4. Asked /\ Asked' /\ Sent /\ Sent' /\ Counted /\ Counted' /\ ~Ready'
  BY <1>3 DEF Asked, Sent, Counted, Ready
<1>5. SameMain /\ \A m \in Machines : ready[m] => ready'[m]
  BY <1>2 DEF SameMain
<1>6. TableOK'
  BY <1>3, <1>5, TableKept DEF ClusterInv
<1>7. RegisterOK'
  BY <1>2, <1>4, RegisterKept DEF ClusterInv, RegisterOK
<1>8. PlacesOK'
  BY <1>2, <1>3, <1>4, Basics DEF ClusterInv, PlacesOK
<1>9. HeaderOK' /\ ReadyOK'
  BY <1>2, <1>3, <1>4, <1>5, HeaderKept DEF ClusterInv, ReadyOK
<1>10. InfoOK'
  BY <1>2, <1>4, InfoKept DEF ClusterInv, InfoOK
<1>11. ActiveOK'
  <2>1. 0 + 1 \in 1..hdr.nnodes /\ Nodes0[0 + 1].mac = Main
    BY <1>3, <1>4, Consequences DEF ClusterInv, TableOK
  <2>2. Nodes0' = Nodes0 /\ hdr' = hdr /\ me' = me
    BY <1>2 DEF Nodes0
  <2>3. ASSUME NEW id \in active'[Main]
        PROVE  /\ id + 1 \in 1..hdr.nnodes
               /\ me[Nodes0[id + 1].mac] = id /\ ready'[Nodes0[id + 1].mac]
    <3>1. CASE id = 0
      BY <1>1, <1>2, <2>1, <3>1
    <3>2. CASE id \in active[Main]
      BY <1>5, <3>2, Consequences DEF ClusterInv, ActiveOK
    <3> QED
      BY <1>2, <3>1, <3>2
  <2> QED
    BY <1>2, <1>4, <1>5, <2>2, <2>3, Basics DEF ClusterInv, ActiveOK
<1>12. SignalOK'
  BY <1>2, <1>3 DEF ClusterInv, SignalOK, Booted
<1>13. NoPanic'
  BY <1>2, <1>3, PanicKept, Basics DEF ClusterInv, PlacesOK
<1> QED
  BY <1>2, <1>6, <1>7, <1>8, <1>9, <1>10, <1>11, <1>12, <1>13 DEF ClusterInv

\* wait_for_all_node_ready: a node that is not in the table sent is never active,
\* so the header counts every node and its two counters agree.
LEMMA WaitReadyInv == ASSUME ClusterInv, wait_for_all_node_ready PROVE ClusterInv'
<1>1. all_node_is_active \in BOOLEAN /\ "start" \in Places /\ Main \in Machines
  BY Basics DEF all_node_is_active, Places
<1>2. /\ (all_node_is_active /\ Moves(Main, "ready?", "start")) \/ at' = at
      /\ SameTables /\ UNCHANGED <<down, up, hdr, ready, bootclk>> /\ Shapes'
  BY <1>1, WaitForAt DEF wait_for_all_node_ready, ClusterInv
<1>3. CASE at' = at
  BY <1>2, <1>3, NoneMoved
<1>4. CASE all_node_is_active /\ Moves(Main, "ready?", "start")
  <2>1. at[Main] = "ready?" /\ at'[Main] = "start"
    BY <1>4 DEF Moves
  <2>2. Sent /\ Sent' /\ Counted /\ Counted' /\ Ready'
    BY <2>1 DEF Sent, Counted, Ready
  <2>3. TableOK' /\ RegisterOK' /\ PlacesOK' /\ InfoOK' /\ ActiveOK' /\ SignalOK' /\ NoPanic'
    BY <1>2, <1>4, <2>2, MainMovesInv
  <2>4. SameMain
    BY <1>2 DEF SameMain, SameTables
  <2>5. HeaderOK'
    BY <1>2, <2>1, <2>2, <2>4, HeaderKept DEF ClusterInv
  <2>6. nnodes[Main] \in Nat /\ nnodes[Main] > 0 /\ hdr.nnodes \in Nat /\ hdr.nnodes <= nnodes[Main]
    BY <2>1, <2>2, Consequences DEF ClusterInv, TableOK
  <2>7. nnodes[Main] - 1 \in active[Main]
    BY <1>4, <2>6 DEF all_node_is_active
  <2>8. nnodes[Main] - 1 + 1 \in 1..hdr.nnodes
    BY <2>7 DEF ClusterInv, ActiveOK
  <2>9. hdr.nnodes = nnodes[Main]
    BY <2>6, <2>8
  <2>10. hdr.nvcpus = First(hdr.nnodes) + NVcpu
    BY <2>1, <2>2, <2>6, <2>9 DEF ClusterInv, HeaderOK
  <2>11. 0..(hdr.nnodes - 1) \subseteq active[Main]
    BY <1>4, <2>9 DEF all_node_is_active
  <2>12. ReadyOK'
    BY <1>2, <2>10, <2>11 DEF ReadyOK, SameTables, First, Nodes0
  <2> QED
    BY <1>2, <2>3, <2>5, <2>12 DEF ClusterInv
<1> QED
  BY <1>2, <1>3, <1>4

\* The only boot signal.
LEMMA StartInv == ASSUME ClusterInv, node0_start PROVE ClusterInv'
<1>1. /\ Moves(Main, "start", "guest") /\ SameTables
      /\ \A s \in Subs : bootclk'[s] = bootclk[s]
      /\ Broadcast(Frame("BOOT_SIG")) /\ UNCHANGED <<up, hdr, ready>> /\ Shapes'
  BY StartAt DEF ClusterInv
<1>2. at[Main] = "start" /\ at'[Main] = "guest" /\ \A s \in Subs : at'[s] = at[s]
  BY <1>1, Basics DEF Moves
<1>3. \A s \in Subs :
        /\ \A f \in Elems(down'[s]) : f \in Elems(down[s]) \/ f.type = "BOOT_SIG"
        /\ \A t : Has(t, down'[s]) => Has(t, down[s]) \/ t = "BOOT_SIG"
        /\ \A t : Once(t, down[s]) /\ (t = "BOOT_SIG" => ~Has(t, down[s])) => Once(t, down'[s])
  BY <1>1, BroadcastAt, FramesAre DEF ClusterInv
<1>4. Asked /\ Asked' /\ Sent /\ Sent' /\ Counted /\ Counted' /\ Ready /\ Ready' /\ ~Booted /\ Booted'
  BY <1>2 DEF Asked, Sent, Counted, Ready, Booted
<1>5. SameMain
  BY <1>1 DEF SameMain, SameTables
<1>6. TableOK'
  BY <1>2, <1>5, TableKept DEF ClusterInv
<1>7. RegisterOK'
  BY <1>1, <1>3, <1>4, <1>5, RegisterKept DEF ClusterInv, RegisterOK, SameMain
<1>8. PlacesOK'
  BY <1>1, <1>2, <1>4 DEF ClusterInv, PlacesOK, SameTables
<1>9. HeaderOK' /\ ReadyOK'
  BY <1>1, <1>2, <1>4, <1>5, HeaderKept, ReadyKept DEF ClusterInv, SameTables
<1>10. InfoOK'
  BY <1>1, <1>3, <1>4, InfoKept DEF ClusterInv, InfoOK, SameTables
<1>11. ActiveOK'
  BY <1>1, <1>4, ActiveKept, Consequences DEF ClusterInv, SameTables
<1>12. SignalOK'
  BY <1>1, <1>3, <1>4 DEF ClusterInv, SignalOK
<1>13. NoPanic'
  BY <1>1, <1>2, PanicKept, Basics DEF ClusterInv, PlacesOK, SameTables
<1> QED
  BY <1>1, <1>6, <1>7, <1>8, <1>9, <1>10, <1>11, <1>12, <1>13 DEF ClusterInv


-----------------------------------------------------------------------------
(* The sub-nodes and the interrupts.                                       *)

\* A step of a sub-node's thread that sends nothing and touches no table.
LEMMA SubMovesInv ==
  ASSUME ClusterInv, NEW s \in Subs,
         NicInit(s) \/ subnode_cluster_init(s) \/ wait_for_acked_me(s)
  PROVE  ClusterInv'
<1>1. /\ \/ Moves(s, "off", "nic") \/ Moves(s, "nic", "acked?")
         \/ (me[s] # None /\ Moves(s, "acked?", "setup"))
         \/ at' = at
      /\ SameTables /\ UNCHANGED <<down, up, hdr, ready, bootclk>> /\ Shapes'
  BY SubMoveAt DEF ClusterInv
<1>2. CASE at' = at
  BY <1>1, <1>2, NoneMoved
<1>3. CASE at' # at
  <2>1. /\ at'[Main] = at[Main] /\ \A x \in Machines : x # s => at'[x] = at[x]
        /\ at'[s] \in {"nic", "acked?"} \/ (at'[s] = "setup" /\ me[s] # None)
    BY <1>1, <1>3, Basics DEF Moves
  <2>2. SameMain
    BY <1>1 DEF SameMain, SameTables
  <2>3. /\ (Asked' <=> Asked) /\ (Sent' <=> Sent) /\ (Counted' <=> Counted)
        /\ (Ready' <=> Ready) /\ (Booted' <=> Booted)
    BY <2>1 DEF Asked, Sent, Counted, Ready, Booted
  <2>4. TableOK' /\ HeaderOK'
    BY <1>1, <2>1, <2>2, <2>3, TableKept, HeaderKept DEF ClusterInv
  <2>5. RegisterOK' /\ SignalOK'
    BY <1>1, <2>2, <2>3, RegisterKept DEF ClusterInv, RegisterOK, SignalOK, SameMain
  <2>6. PlacesOK'
    BY <1>1, <2>1, <2>3, Basics DEF ClusterInv, PlacesOK, SameTables
  <2>7. InfoOK'
    BY <1>1, <2>3, InfoKept DEF ClusterInv, InfoOK, SameTables
  <2>8. ActiveOK' /\ ReadyOK'
    BY <1>1, <2>3, ActiveKept, ReadyKept, Consequences DEF ClusterInv, SameTables
  <2>9. NoPanic'
    BY <1>1, <2>1, PanicKept DEF ClusterInv, SameTables
  <2> QED
    BY <1>1, <2>4, <2>5, <2>6, <2>7, <2>8, <2>9 DEF ClusterInv
<1> QED
  BY <1>2, <1>3

\* A sub-node that knows its id sets itself up.
LEMMA SubSetupInv ==
  ASSUME ClusterInv, NEW s \in Subs, cluster_node_me_setup(s, "notify")
  PROVE  ClusterInv'
<1>1. "notify" \in Places /\ s \in Machines /\ s # Main
  BY Basics DEF Places
<1>2. at[s] = "setup"
  BY DEF cluster_node_me_setup
<1>3. me[s] # None
  BY <1>2 DEF ClusterInv, PlacesOK
<1>4. /\ Moves(s, "setup", "notify") /\ ready'[s]
      /\ \A x \in Machines : x # s => active'[x] = active[x] /\ ready'[x] = ready[x]
      /\ UNCHANGED <<down, up, cluster, nnodes, nvcpus, online, me, hdr, bootclk>> /\ Shapes'
  BY <1>1, <1>3, MeSetupAt DEF ClusterInv
<1>5. /\ at'[Main] = at[Main] /\ at'[s] = "notify" /\ active'[Main] = active[Main]
      /\ \A x \in Machines : x # s => at'[x] = at[x]
      /\ \A m \in Machines : ready[m] => ready'[m]
  BY <1>1, <1>4, Basics DEF Moves
<1>6. SameMain
  BY <1>4 DEF SameMain
<1>7. /\ (Asked' <=> Asked) /\ (Sent' <=> Sent) /\ (Counted' <=> Counted)
      /\ (Ready' <=> Ready) /\ (Booted' <=> Booted)
  BY <1>5 DEF Asked, Sent, Counted, Ready, Booted
<1>8. TableOK' /\ HeaderOK'
  BY <1>4, <1>5, <1>6, <1>7, TableKept, HeaderKept DEF ClusterInv
<1>9. RegisterOK' /\ SignalOK'
  BY <1>4, <1>7, RegisterKept DEF ClusterInv, RegisterOK, SignalOK
<1>10. PlacesOK'
  BY <1>3, <1>4, <1>5, <1>7, Basics DEF ClusterInv, PlacesOK
<1>11. InfoOK'
  BY <1>4, <1>7, InfoKept DEF ClusterInv, InfoOK
<1>12. ActiveOK' /\ ReadyOK'
  BY <1>4, <1>5, <1>7, ActiveKept, ReadyKept, Consequences DEF ClusterInv
<1>13. NoPanic'
  BY <1>4, <1>5, PanicKept DEF ClusterInv
<1> QED
  BY <1>4, <1>8, <1>9, <1>10, <1>11, <1>12, <1>13 DEF ClusterInv

\* A sub-node that is set up says so.
LEMMA NotifyInv ==
  ASSUME ClusterInv, NEW s \in Subs, send_setup_done_notify(s) PROVE ClusterInv'
<1>1. at[s] = "notify" /\ s \in Machines /\ s # Main
  BY Basics DEF send_setup_done_notify
<1>2. me[s] # None /\ ready[s]
  BY <1>1 DEF ClusterInv, PlacesOK
<1>3. /\ Moves(s, "notify", "vcpu?") /\ SameTables
      /\ \A r \in Subs : r # s => up'[r] = up[r]
      /\ \A f \in Elems(up'[s]) :
           f \in Elems(up[s]) \/ (f.type = "SETUP_DONE" /\ f.src_id = me[s])
      /\ Has("INIT_ACK", up'[s]) <=> Has("INIT_ACK", up[s])
      /\ Once("INIT_ACK", up[s]) => Once("INIT_ACK", up'[s])
      /\ UNCHANGED <<down, hdr, ready, bootclk>> /\ Shapes'
  BY <1>2, NotifyAt DEF ClusterInv
<1>4. /\ at'[Main] = at[Main] /\ at'[s] = "vcpu?"
      /\ \A x \in Machines : x # s => at'[x] = at[x]
  BY <1>1, <1>3, Basics DEF Moves
<1>5. SameMain
  BY <1>3 DEF SameMain, SameTables
<1>6. /\ (Asked' <=> Asked) /\ (Sent' <=> Sent) /\ (Counted' <=> Counted)
      /\ (Ready' <=> Ready) /\ (Booted' <=> Booted)
  BY <1>4 DEF Asked, Sent, Counted, Ready, Booted
<1>7. TableOK' /\ HeaderOK'
  BY <1>3, <1>4, <1>5, <1>6, TableKept, HeaderKept DEF ClusterInv
<1>8. RegisterOK'
  <2>1. \A r \in Subs : Once("INIT_ACK", up'[r]) /\ (Has("INIT_ACK", up'[r]) => Has("INIT_ACK", up[r]))
    BY <1>3 DEF ClusterInv, RegisterOK
  <2> QED
    BY <1>3, <1>5, <1>6, <2>1, RegisterKept DEF ClusterInv, RegisterOK, SameMain
<1>9. SignalOK'
  BY <1>3, <1>6 DEF ClusterInv, SignalOK
<1>10. PlacesOK'
  BY <1>2, <1>3, <1>4, <1>6, Basics DEF ClusterInv, PlacesOK, SameTables
<1>11. InfoOK'
  BY <1>3, <1>6, InfoKept DEF ClusterInv, InfoOK, SameTables
<1>12. ActiveOK'
  <2>1. \A r \in Subs : \A f \in Elems(up'[r]) : f.type = "SETUP_DONE" => f.src_id = me[r] /\ ready[r]
    BY <1>2, <1>3 DEF ClusterInv, ActiveOK
  <2> QED
    BY <1>3, <1>6, <2>1 DEF ClusterInv, ActiveOK, SameTables, Nodes0
<1>13. ReadyOK'
  BY <1>3, <1>6, ReadyKept DEF ClusterInv, SameTables
<1>14. NoPanic'
  BY <1>3, <1>4, PanicKept DEF ClusterInv, SameTables
<1> QED
  BY <1>3, <1>7, <1>8, <1>9, <1>10, <1>11, <1>12, <1>13, <1>14 DEF ClusterInv

\* A sub-node answers once.
LEMMA InitRecvInv ==
  ASSUME ClusterInv, NEW s \in Subs, recv_init_request(s) PROVE ClusterInv'
<1>1. /\ RecvDown(s, "INIT") /\ at' = at /\ SameTables
      /\ \A r \in Subs : r # s => up'[r] = up[r]
      /\ Elems(up'[s]) = Elems(up[s]) \cup {Frame("INIT_ACK")}
      /\ Once("INIT_ACK", up[s]) /\ ~Has("INIT_ACK", up[s]) => Once("INIT_ACK", up'[s])
      /\ UNCHANGED <<hdr, ready, bootclk>> /\ Shapes'
  BY InitRecvAt DEF ClusterInv
<1>2. /\ Has("INIT", down[s])
      /\ Once("INIT", down[s]) => ~Has("INIT", down'[s])
      /\ \A r \in Subs :
           /\ Elems(down'[r]) \subseteq Elems(down[r])
           /\ \A u : Has(u, down'[r]) => Has(u, down[r])
           /\ \A u : Once(u, down[r]) => Once(u, down'[r])
  BY <1>1, DownTaken DEF ClusterInv
<1>3. Frame("INIT_ACK").type = "INIT_ACK"
  BY FramesAre
<1>4. SameMain
  BY <1>1 DEF SameMain, SameTables
<1>5. /\ (Asked' <=> Asked) /\ (Sent' <=> Sent) /\ (Counted' <=> Counted)
      /\ (Ready' <=> Ready) /\ (Booted' <=> Booted)
  BY <1>1 DEF Asked, Sent, Counted, Ready, Booted
<1>6. TableOK' /\ HeaderOK'
  BY <1>1, <1>4, <1>5, TableKept, HeaderKept DEF ClusterInv
<1>7. RegisterOK'
  <2>1. \A r \in Subs : Registered(r)' <=> Registered(r)
    BY <1>4 DEF Registered, Nodes0, SameMain
  <2>2. /\ ~Has("INIT", down'[s]) /\ Once("INIT_ACK", up'[s])
        /\ Asked /\ ~Registered(s)
    BY <1>1, <1>2 DEF ClusterInv, RegisterOK
  <2> QED
    BY <1>1, <1>2, <1>5, <2>1, <2>2 DEF ClusterInv, RegisterOK
<1>8. PlacesOK'
  BY <1>1, <1>5 DEF ClusterInv, PlacesOK, SameTables
<1>9. InfoOK'
  BY <1>1, <1>2, <1>5, InfoKept DEF ClusterInv, InfoOK, SameTables
<1>10. ActiveOK'
  <2>1. \A r \in Subs : \A f \in Elems(up'[r]) : f.type = "SETUP_DONE" => f \in Elems(up[r])
    BY <1>1, <1>3
  <2> QED
    BY <1>1, <1>5, <2>1, ActiveKept, Consequences DEF ClusterInv, SameTables
<1>11. ReadyOK' /\ NoPanic'
  BY <1>1, <1>5, ReadyKept, PanicKept DEF ClusterInv, SameTables
<1>12. SignalOK'
  BY <1>1, <1>2, <1>5, SignalKept DEF ClusterInv, SignalOK
<1> QED
  BY <1>1, <1>6, <1>7, <1>8, <1>9, <1>10, <1>11, <1>12 DEF ClusterInv

\* A sub-node is registered once; the entries before its own stay.
LEMMA InitAckInv ==
  ASSUME ClusterInv, NEW s \in Subs, recv_init_ack(s) PROVE ClusterInv'
<1>1. /\ RecvUp(s, "INIT_ACK") /\ Registers(s) /\ at' = at
      /\ UNCHANGED <<down, active, me, hdr, ready, bootclk>> /\ Shapes'
  BY InitAckAt DEF ClusterInv
<1>2. /\ IrqsOn(Main) /\ Has("INIT_ACK", up[s])
      /\ Once("INIT_ACK", up[s]) => ~Has("INIT_ACK", up'[s])
      /\ \A r \in Subs :
           /\ Elems(up'[r]) \subseteq Elems(up[r])
           /\ \A u : Has(u, up'[r]) => Has(u, up[r])
           /\ \A u : Once(u, up[r]) => Once(u, up'[r])
  BY <1>1, UpTaken DEF ClusterInv
<1>3. PICK N : N = Len(Nodes0)
  OBVIOUS
<1>4. PICK T : T = cluster'[Main]
  OBVIOUS
<1>5. /\ N \in Nat /\ nnodes[Main] = N /\ nvcpus[Main] \in Nat
      /\ \A i \in 1..N : Nodes0[i].mac \in Machines /\ First(i) \in Nat
  BY <1>3, Consequences DEF ClusterInv, TableOK
<1>6. /\ nnodes'[Main] = N + 1 /\ nvcpus'[Main] = nvcpus[Main] + NVcpu
      /\ online'[Main] = online[Main] \cup {N}
      /\ Len(T) = N + 1 /\ \A i \in 1..N : T[i] = Nodes0[i]
      /\ T[N + 1].mac = s /\ T[N + 1].start = N
      /\ \A k \in 1..NVcpu : T[N + 1].vcpus[k] = nvcpus[Main] + k - 1
      /\ \A r \in Subs : cluster'[r] = cluster[r] /\ nnodes'[r] = nnodes[r] /\ nvcpus'[r] = nvcpus[r]
  BY <1>1, <1>3, <1>4, <1>5 DEF Registers, Nodes0
<1>7. Asked /\ ~Registered(s) /\ ~Has("INIT", down[s]) /\ ~Has("INIT_ACK", up'[s]) /\ at[Main] # "init"
  BY <1>2 DEF ClusterInv, RegisterOK, Asked
<1>8. \A i \in 1..N : Nodes0[i].mac # s
  BY <1>3, <1>7 DEF Registered
<1>9. Nodes0' = T /\ \A i \in 1..N : T[i].vcpus[1] = First(i)
  BY <1>4, <1>6 DEF Nodes0, First
<1>10. T[N + 1].vcpus[1] = nvcpus[Main]
  <2>1. 1 \in 1..NVcpu
    BY Basics
  <2>2. T[N + 1].vcpus[1] = nvcpus[Main] + 1 - 1
    BY <1>6, <2>1
  <2> QED
    BY <1>5, <2>2
<1>11. /\ (Asked' <=> Asked) /\ (Sent' <=> Sent) /\ (Counted' <=> Counted)
       /\ (Ready' <=> Ready) /\ (Booted' <=> Booted)
  BY <1>1 DEF Asked, Sent, Counted, Ready, Booted
<1>12. TableOK'
  <2>1. N > 0 /\ Nodes0[1].mac = Main /\ 1 \in 1..N
    BY <1>5, <1>7 DEF ClusterInv, TableOK
  <2>2. online'[Main] = 0..(N + 1 - 1)
    <3>1. online[Main] = 0..(N - 1)
      BY <1>5 DEF ClusterInv, TableOK
    <3>2. 0..(N + 1 - 1) = 0..(N - 1) \cup {N}
      BY <1>5
    <3> QED
      BY <1>6, <3>1, <3>2
  <2>3. ASSUME NEW i \in 1..(N + 1)
        PROVE  /\ T[i].start = i - 1
               /\ \A k \in 1..NVcpu : T[i].vcpus[k] = T[i].vcpus[1] + k - 1
               /\ T[i].vcpus[1] + NVcpu <= nvcpus'[Main]
    <3>1. CASE i \in 1..N
      <4>1. /\ Nodes0[i].start = i - 1
            /\ \A k \in 1..NVcpu : Nodes0[i].vcpus[k] = First(i) + k - 1
            /\ First(i) + NVcpu <= nvcpus[Main]
        BY <1>3, <3>1 DEF ClusterInv, TableOK
      <4>2. T[i] = Nodes0[i] /\ T[i].vcpus[1] = First(i) /\ First(i) \in Nat
        BY <1>5, <1>6, <1>9, <3>1
      <4>3. First(i) + NVcpu <= nvcpus[Main] + NVcpu
        BY <1>5, <4>1, <4>2, Basics
      <4> QED
        BY <1>6, <4>1, <4>2, <4>3
    <3>2. CASE i = N + 1
      BY <1>5, <1>6, <1>10, <3>2, Basics
    <3> QED
      BY <1>5, <3>1, <3>2
  <2>4. ASSUME NEW i \in 1..(N + 1), NEW j \in 1..(N + 1), i < j
        PROVE  T[i].vcpus[1] + NVcpu <= T[j].vcpus[1] /\ T[i].mac # T[j].mac
    <3>1. i \in 1..N
      BY <1>5, <2>4
    <3>2. CASE j \in 1..N
      <4>1. First(i) + NVcpu <= First(j) /\ Nodes0[i].mac # Nodes0[j].mac
        BY <1>3, <2>4, <3>1, <3>2 DEF ClusterInv, TableOK
      <4> QED
        BY <1>6, <1>9, <3>1, <3>2, <4>1
    <3>3. CASE j = N + 1
      <4>1. First(i) + NVcpu <= nvcpus[Main]
        BY <1>3, <3>1 DEF ClusterInv, TableOK
      <4> QED
        BY <1>6, <1>8, <1>9, <1>10, <3>1, <3>3, <4>1
    <3> QED
      BY <1>5, <3>2, <3>3
  <2>5. T[N + 1].vcpus[1] + NVcpu = nvcpus'[Main]
    BY <1>6, <1>10
  <2>6. at'[Main] # "init" /\ nnodes'[Main] > 0 /\ T[1].mac = Main
    BY <1>1, <1>5, <1>6, <1>7, <2>1
  <2> QED
    BY <1>4, <1>5, <1>6, <2>2, <2>3, <2>4, <2>5, <2>6 DEF TableOK, First, Nodes0
<1>13. RegisterOK'
  <2>1. \A r \in Subs : r # s => (Registered(r)' <=> Registered(r))
    <3> SUFFICES ASSUME NEW r \in Subs, r # s PROVE Registered(r)' <=> Registered(r)
      OBVIOUS
    <3>1. \A i \in 1..(N + 1) : i \in 1..N \/ i = N + 1
      BY <1>5
    <3>2. \A i \in 1..N : i \in 1..(N + 1)
      BY <1>5
    <3> QED
      BY <1>3, <1>6, <1>9, <3>1, <3>2 DEF Registered
  <2> QED
    BY <1>1, <1>2, <1>7, <1>11, <2>1 DEF ClusterInv, RegisterOK
<1>14. PlacesOK'
  BY <1>1, <1>11 DEF ClusterInv, PlacesOK
<1>15. Counted => hdr.nnodes \in 1..N /\ \A k \in 1..hdr.nnodes : T[k] = Nodes0[k]
  BY <1>3, <1>5, <1>6, Consequences
<1>16. HeaderOK'
  <2>1. hdr.nnodes \in Nat
    BY Consequences
  <2>2. Counted => NrNode <= hdr.nnodes /\ hdr.nnodes <= N
    BY <1>5 DEF ClusterInv, HeaderOK
  <2>3. Counted => hdr.nnodes < N + 1
    BY <1>5, <1>15
  <2>4. at[Main] = "info.nnodes" => NrNode <= N + 1
    BY <1>5, Basics DEF ClusterInv, HeaderOK
  <2> QED
    BY <1>1, <1>5, <1>6, <1>11, <2>1, <2>2, <2>3, <2>4 DEF HeaderOK
<1>17. InfoOK'
  <2>1. Sent => Counted
    BY Consequences
  <2>2. \A r \in Subs : me[r] # None => Sent
    BY DEF ClusterInv, PlacesOK
  <2>3. \A r \in Subs : \A f \in Elems(down[r]) : f.type = "CLUSTER_INFO" => Sent
    BY DEF ClusterInv, InfoOK, Has
  <2>4. \A r \in Subs : me[r] # None => me[r] + 1 \in 1..hdr.nnodes /\ T[me[r] + 1] = Nodes0[me[r] + 1]
    BY <1>15, <2>1, <2>2 DEF ClusterInv, InfoOK
  <2> QED
    BY <1>1, <1>6, <1>9, <1>11, <1>15, <2>1, <2>2, <2>3, <2>4 DEF ClusterInv, InfoOK
<1>18. ActiveOK'
  <2>1. \A id \in active[Main] : Sent /\ id + 1 \in 1..hdr.nnodes
    BY DEF ClusterInv, ActiveOK
  <2>2. \A id \in active[Main] : T[id + 1] = Nodes0[id + 1]
    BY <1>15, <2>1, Consequences
  <2> QED
    BY <1>1, <1>2, <1>9, <1>11, <2>2 DEF ClusterInv, ActiveOK
<1>19. ReadyOK'
  <2>1. Ready => Counted
    BY DEF Ready, Counted
  <2>2. Ready => T[hdr.nnodes].vcpus[1] = First(hdr.nnodes)
    BY <1>9, <1>15, <2>1
  <2> QED
    BY <1>1, <1>4, <1>11, <2>2 DEF ClusterInv, ReadyOK, First, Nodes0
<1>20. SignalOK'
  BY <1>1, <1>11 DEF ClusterInv, SignalOK
<1>21. NoPanic'
  <2>1. \A m \in Machines : at[m] = "panic" => Sent /\ LeftOut(m)
    BY Basics DEF ClusterInv, PlacesOK, NoPanic
  <2>2. Sent => \A k \in 1..hdr.nnodes : T[k] = Nodes0[k]
    BY <1>15, Consequences
  <2> QED
    BY <1>1, <1>4, <2>1, <2>2 DEF NoPanic, LeftOut, Nodes0
<1> QED
  BY <1>1, <1>12, <1>13, <1>14, <1>16, <1>17, <1>18, <1>19, <1>20, <1>21 DEF ClusterInv

\* The id that becomes active is the id of the machine that sent it.
LEMMA SetupDoneInv ==
  ASSUME ClusterInv, NEW s \in Subs, recv_sub_setup_done(s) PROVE ClusterInv'
<1>1. /\ RecvUp(s, "SETUP_DONE") /\ at' = at
      /\ active'[Main] = active[Main] \cup {Head(up[s]).src_id}
      /\ UNCHANGED <<down, cluster, nnodes, nvcpus, online, me, hdr, ready, bootclk>> /\ Shapes'
  BY SetupDoneAt DEF ClusterInv
<1>2. /\ Head(up[s]) \in Elems(up[s]) /\ Head(up[s]).type = "SETUP_DONE" /\ Head(up[s]) \in UpFrames
      /\ \A r \in Subs :
           /\ Elems(up'[r]) \subseteq Elems(up[r])
           /\ \A u : Has(u, up'[r]) => Has(u, up[r])
           /\ \A u : Once(u, up[r]) => Once(u, up'[r])
  BY <1>1, UpTaken DEF ClusterInv
<1>3. PICK id : id = Head(up[s]).src_id
  OBVIOUS
<1>4. id = me[s] /\ ready[s] /\ id \in Nat
  BY <1>2, <1>3, UpFrameIs DEF ClusterInv, ActiveOK
<1>5. me[s] # None
  BY <1>4, Basics
<1>6. Sent /\ id + 1 \in 1..hdr.nnodes /\ Nodes0[id + 1].mac = s
  BY <1>4, <1>5 DEF ClusterInv, InfoOK, PlacesOK
<1>7. SameMain
  BY <1>1 DEF SameMain
<1>8. /\ (Asked' <=> Asked) /\ (Sent' <=> Sent) /\ (Counted' <=> Counted)
      /\ (Ready' <=> Ready) /\ (Booted' <=> Booted)
  BY <1>1 DEF Asked, Sent, Counted, Ready, Booted
<1>9. TableOK' /\ HeaderOK'
  BY <1>1, <1>7, <1>8, TableKept, HeaderKept DEF ClusterInv
<1>10. RegisterOK'
  BY <1>1, <1>2, <1>8, RegisterKept DEF ClusterInv, RegisterOK
<1>11. PlacesOK'
  BY <1>1, <1>8 DEF ClusterInv, PlacesOK
<1>12. InfoOK'
  BY <1>1, <1>8, InfoKept DEF ClusterInv, InfoOK
<1>13. ActiveOK'
  <2>1. ASSUME NEW i \in active'[Main]
        PROVE  i + 1 \in 1..hdr.nnodes /\ me[Nodes0[i + 1].mac] = i /\ ready[Nodes0[i + 1].mac]
    <3>1. CASE i = id
      BY <1>4, <1>6, <3>1
    <3>2. CASE i \in active[Main]
      BY <3>2 DEF ClusterInv, ActiveOK
    <3> QED
      BY <1>1, <1>3, <3>1, <3>2
  <2>2. Nodes0' = Nodes0
    BY <1>1 DEF Nodes0
  <2> QED
    BY <1>1, <1>2, <1>6, <1>8, <2>1, <2>2 DEF ClusterInv, ActiveOK
<1>14. ReadyOK'
  BY <1>1, <1>8, ReadyKept DEF ClusterInv
<1>15. SignalOK' /\ NoPanic'
  BY <1>1, <1>8, PanicKept DEF ClusterInv, SignalOK
<1> QED
  BY <1>1, <1>9, <1>10, <1>11, <1>12, <1>13, <1>14, <1>15 DEF ClusterInv

\* The boot signal is the first one.
LEMMA BootSigInv ==
  ASSUME ClusterInv, NEW s \in Subs, recv_boot_sig(s) PROVE ClusterInv'
<1>1. RecvDown(s, "BOOT_SIG")
  BY DEF recv_boot_sig
<1>2. /\ Has("BOOT_SIG", down[s])
      /\ Once("BOOT_SIG", down[s]) => ~Has("BOOT_SIG", down'[s])
      /\ \A r \in Subs :
           /\ Elems(down'[r]) \subseteq Elems(down[r])
           /\ \A u : Has(u, down'[r]) => Has(u, down[r])
           /\ \A u : Once(u, down[r]) => Once(u, down'[r])
  BY <1>1, DownTaken DEF ClusterInv
<1>3. ~bootclk[s] /\ Booted
  BY <1>2 DEF ClusterInv, SignalOK
<1>4. /\ at' = at /\ SameTables
      /\ bootclk'[s] /\ \A x \in Machines : x # s => bootclk'[x] = bootclk[x]
      /\ UNCHANGED <<up, hdr, ready>> /\ Shapes'
  BY <1>3, BootSigAt DEF ClusterInv
<1>5. SameMain
  BY <1>4 DEF SameMain, SameTables
<1>6. /\ (Asked' <=> Asked) /\ (Sent' <=> Sent) /\ (Counted' <=> Counted)
      /\ (Ready' <=> Ready) /\ (Booted' <=> Booted)
  BY <1>4 DEF Asked, Sent, Counted, Ready, Booted
<1>7. TableOK' /\ HeaderOK'
  BY <1>4, <1>5, <1>6, TableKept, HeaderKept DEF ClusterInv
<1>8. RegisterOK'
  BY <1>2, <1>4, <1>5, <1>6, RegisterKept DEF ClusterInv, RegisterOK, SameMain
<1>9. PlacesOK'
  BY <1>4, <1>6 DEF ClusterInv, PlacesOK, SameTables
<1>10. InfoOK'
  BY <1>2, <1>4, <1>6, InfoKept DEF ClusterInv, InfoOK, SameTables
<1>11. ActiveOK' /\ ReadyOK' /\ NoPanic'
  BY <1>4, <1>6, ActiveKept, ReadyKept, PanicKept, Consequences DEF ClusterInv, SameTables
<1>12. SignalOK'
  BY <1>2, <1>3, <1>4, <1>6, Basics DEF ClusterInv, SignalOK
<1> QED
  BY <1>4, <1>7, <1>8, <1>9, <1>10, <1>11, <1>12 DEF ClusterInv

\* The id a sub-node takes is its own entry's, or Node 0 left it out.
LEMMA UpdateInv ==
  ASSUME ClusterInv, NEW s \in Subs, update_cluster_info(s) PROVE ClusterInv'
<1>1. PICK f : f = Head(down[s])
  OBVIOUS
<1>2. RecvDown(s, "CLUSTER_INFO")
  BY DEF update_cluster_info
<1>3. /\ IrqsOn(s) /\ f \in Elems(down[s]) /\ f.type = "CLUSTER_INFO"
      /\ Has("CLUSTER_INFO", down[s])
      /\ Once("CLUSTER_INFO", down[s]) => ~Has("CLUSTER_INFO", down'[s])
      /\ \A r \in Subs :
           /\ Elems(down'[r]) \subseteq Elems(down[r])
           /\ \A u : Has(u, down'[r]) => Has(u, down[r])
           /\ \A u : Once(u, down[r]) => Once(u, down'[r])
  BY <1>1, <1>2, DownTaken DEF ClusterInv
<1>4. /\ Sent /\ me[s] = None
      /\ f.nnodes = hdr.nnodes /\ f.nvcpus = hdr.nvcpus
      /\ \A k \in 1..hdr.nnodes : f.table[k] = Nodes0[k]
      /\ ~Has("CLUSTER_INFO", down'[s])
  BY <1>3 DEF ClusterInv, InfoOK
<1>5. hdr.nnodes \in Nat /\ hdr.nnodes <= Len(Nodes0) /\ Len(Nodes0) \in Nat /\ NrNode <= hdr.nnodes
  BY <1>4, Consequences DEF ClusterInv, HeaderOK
<1>6. \A i \in MyIds(s, f) : i \in Nat /\ i + 1 \in 1..hdr.nnodes /\ Nodes0[i + 1].mac = s
  BY <1>4, <1>5 DEF MyIds
<1>7. \A i, j \in MyIds(s, f) : i = j
  <2> SUFFICES ASSUME NEW i \in MyIds(s, f), NEW j \in MyIds(s, f), i < j PROVE FALSE
    BY <1>6
  <2>1. i + 1 \in 1..Len(Nodes0) /\ j + 1 \in 1..Len(Nodes0) /\ i + 1 < j + 1
    BY <1>5, <1>6
  <2>2. Nodes0[i + 1].mac # Nodes0[j + 1].mac
    BY <2>1 DEF ClusterInv, TableOK
  <2> QED
    BY <1>6, <2>2
<1>8. /\ nnodes'[s] = f.nnodes /\ nvcpus'[s] = f.nvcpus /\ cluster'[s] = f.table
      /\ \A x \in Machines : x # s =>
           /\ nnodes'[x] = nnodes[x] /\ nvcpus'[x] = nvcpus[x] /\ cluster'[x] = cluster[x]
           /\ online'[x] = online[x] /\ active'[x] = active[x] /\ me'[x] = me[x]
           /\ at'[x] = at[x]
      /\ \/ MyIds(s, f) = {} /\ at'[s] = "panic" /\ me'[s] = me[s]
         \/ at'[s] = at[s] /\ me'[s] \in MyIds(s, f)
      /\ UNCHANGED <<up, hdr, ready, bootclk>> /\ Shapes'
  BY <1>1, <1>7, UpdateAt DEF ClusterInv
<1>9. /\ SameMain /\ active'[Main] = active[Main] /\ me'[Main] = me[Main] /\ at'[Main] = at[Main]
      /\ s \in Machines
  BY <1>8, Basics DEF SameMain
<1>10. /\ (Asked' <=> Asked) /\ (Sent' <=> Sent) /\ (Counted' <=> Counted)
       /\ (Ready' <=> Ready) /\ (Booted' <=> Booted)
  BY <1>9 DEF Asked, Sent, Counted, Ready, Booted
<1>11. at[s] \notin {"setup", "notify", "vcpu?"}
  BY <1>4 DEF ClusterInv, PlacesOK
<1>12. Nodes0' = Nodes0
  BY <1>9 DEF SameMain, Nodes0
<1>13. TableOK' /\ HeaderOK'
  BY <1>8, <1>9, <1>10, TableKept, HeaderKept DEF ClusterInv
<1>14. RegisterOK'
  BY <1>3, <1>8, <1>9, <1>10, RegisterKept DEF ClusterInv, RegisterOK, SameMain
<1>15. PlacesOK'
  <2>1. at'[s] \in {"off", "nic", "acked?", "setup", "notify", "vcpu?", "panic"}
    BY <1>8 DEF ClusterInv, PlacesOK
  <2>2. at'[s] \notin {"setup", "notify", "vcpu?"}
    BY <1>8, <1>11
  <2> QED
    BY <1>4, <1>8, <1>9, <1>10, <2>1, <2>2, Basics DEF ClusterInv, PlacesOK
<1>16. InfoOK'
  <2>1. ASSUME NEW r \in Subs
        PROVE  /\ Once("CLUSTER_INFO", down'[r])
               /\ Has("CLUSTER_INFO", down'[r]) => Sent /\ me'[r] = None
               /\ \A g \in Elems(down'[r]) : g.type = "CLUSTER_INFO" =>
                    /\ g.nnodes = hdr.nnodes /\ g.nvcpus = hdr.nvcpus
                    /\ \A k \in 1..hdr.nnodes : g.table[k] = Nodes0[k]
    <3>1. CASE r = s
      BY <1>3, <1>4, <3>1 DEF ClusterInv, InfoOK
    <3>2. CASE r # s
      <4>1. me'[r] = me[r]
        BY <1>8, <3>2, Basics
      <4> QED
        BY <1>3, <3>2, <4>1 DEF ClusterInv, InfoOK
    <3> QED
      BY <3>1, <3>2
  <2>2. ASSUME NEW r \in Subs, me'[r] # None
        PROVE  /\ nnodes'[r] = hdr.nnodes /\ nvcpus'[r] = hdr.nvcpus
               /\ \A k \in 1..hdr.nnodes : cluster'[r][k] = Nodes0[k]
               /\ me'[r] + 1 \in 1..hdr.nnodes /\ Nodes0[me'[r] + 1].mac = r
    <3>1. CASE r = s
      <4>1. me'[s] \in MyIds(s, f)
        BY <1>4, <1>8, <2>2, <3>1
      <4> QED
        BY <1>4, <1>6, <1>8, <3>1, <4>1
    <3>2. CASE r # s
      BY <1>8, <2>2, <3>2, Basics DEF ClusterInv, InfoOK
    <3> QED
      BY <3>1, <3>2
  <2> QED
    BY <1>8, <1>10, <1>12, <2>1, <2>2 DEF InfoOK
<1>17. ActiveOK'
  <2>1. \A r \in Subs : \A g \in Elems(up[r]) : g.type = "SETUP_DONE" => g.src_id = me'[r] /\ ready[r]
    <3> SUFFICES ASSUME NEW r \in Subs, NEW g \in Elems(up[r]), g.type = "SETUP_DONE"
                 PROVE  g.src_id = me'[r] /\ ready[r]
      OBVIOUS
    <3>1. g.src_id = me[r] /\ ready[r]
      BY DEF ClusterInv, ActiveOK
    <3>2. g.src_id \in Nat
      <4>1. up[r] \in Seq(UpFrames)
        BY DEF ClusterInv, Shapes
      <4>2. g \in UpFrames
        BY <4>1, ElementOfSeq DEF Elems
      <4> QED
        BY <4>2, UpFrameIs
    <3>3. r # s
      BY <1>4, <3>1, <3>2, Basics
    <3> QED
      BY <1>8, <3>1, <3>3, Basics
  <2>2. \A id \in active[Main] : me'[Nodes0[id + 1].mac] = id
    <3> SUFFICES ASSUME NEW id \in active[Main] PROVE me'[Nodes0[id + 1].mac] = id
      OBVIOUS
    <3>1. /\ Nodes0[id + 1].mac \in Machines /\ id \in Nat
          /\ me[Nodes0[id + 1].mac] = id
      BY Consequences DEF ClusterInv, ActiveOK
    <3>2. Nodes0[id + 1].mac # s
      BY <1>4, <3>1, Basics
    <3> QED
      BY <1>8, <3>1, <3>2
  <2> QED
    BY <1>8, <1>9, <1>10, <1>12, <2>1, <2>2 DEF ClusterInv, ActiveOK
<1>18. ReadyOK'
  BY <1>8, <1>9, <1>10, ReadyKept DEF ClusterInv, SameMain
<1>19. SignalOK'
  BY <1>3, <1>8, <1>10, SignalKept DEF ClusterInv, SignalOK
<1>20. NoPanic'
  <2>1. ASSUME NEW m \in Machines, at'[m] = "panic" PROVE LeftOut(m)
    <3>1. CASE at[m] = "panic"
      BY <3>1 DEF ClusterInv, NoPanic
    <3>2. CASE at[m] # "panic"
      <4>1. m = s /\ MyIds(s, f) = {}
        BY <1>8, <2>1, <3>2
      <4>2. ASSUME NEW i \in 1..hdr.nnodes PROVE Nodes0[i].mac # s
        <5>1. i - 1 \in 0..(f.nnodes - 1) /\ i - 1 + 1 = i
          BY <1>4, <1>5
        <5>2. f.table[i].mac # s
          BY <4>1, <5>1 DEF MyIds
        <5> QED
          BY <1>4, <5>2
      <4> QED
        BY <1>5, <4>1, <4>2, Basics DEF LeftOut, Nodes0
    <3> QED
      BY <3>1, <3>2
  <2> QED
    BY <1>8, <1>12, <2>1 DEF NoPanic, LeftOut, Nodes0
<1> QED
  BY <1>8, <1>13, <1>14, <1>15, <1>16, <1>17, <1>18, <1>19, <1>20 DEF ClusterInv


-----------------------------------------------------------------------------
(* The theorems.                                                           *)

\* Every step keeps the invariant.
LEMMA InvStep == ASSUME ClusterInv, [Next]_vars PROVE ClusterInv'
<1> DEFINE G == ClusterInv'
<1> SUFFICES G
  OBVIOUS
<1> HIDE DEF G
<1>1. ASSUME MainThread PROVE G
  <2>1. ASSUME Wfi(Main) PROVE G
    BY <2>1, DozeAt, NoneMoved, Basics DEF G, ClusterInv
  <2> QED
    BY <1>1, <2>1, Node0InitInv, InitRequestInv, WaitOnlineInv, InfoReadInv, InfoSendInv,
       MainSetupInv, WaitReadyInv, StartInv DEF MainThread, G
<1>2. ASSUME NEW s \in Subs, NicInit(s) \/ SubThread(s) PROVE G
  <2>1. ASSUME Wfi(s) PROVE G
    BY <2>1, DozeAt, NoneMoved, Basics DEF G, ClusterInv
  <2> QED
    BY <1>2, <2>1, SubMovesInv, SubSetupInv, NotifyInv DEF SubThread, G
<1>3. ASSUME NEW s \in Subs, SubIrq(s) \/ MainIrq(s) PROVE G
  BY <1>3, InitRecvInv, UpdateInv, BootSigInv, InitAckInv, SetupDoneInv DEF SubIrq, MainIrq, G
<1>4. ASSUME NEW m \in Machines, OtherIrq(m) PROVE G
  BY <1>4, DozeAt, NoneMoved DEF G, ClusterInv
<1>5. ASSUME UNCHANGED vars PROVE G
  <2>1. SameTables /\ UNCHANGED <<at, doze, down, up, hdr, ready, bootclk>>
    BY <1>5 DEF vars, SameTables
  <2>2. Shapes'
    BY <2>1 DEF ClusterInv, Shapes, SameTables
  <2> QED
    BY <2>1, <2>2, NoneMoved DEF G
<1> QED
  BY <1>1, <1>2, <1>3, <1>4, <1>5 DEF Next

\* The invariant of the discovery protocol holds.
THEOREM ClusterInvHolds == Spec => []ClusterInv
BY InitOK, InvStep, PTL DEF Spec

\* No sub-node stops on a second boot signal, and none in "whoami????" unless
\* Node 0 sent its table without it (NoPanic).
THEOREM NoPanicHolds == Spec => []NoPanic
<1>1. ClusterInv => NoPanic
  BY DEF ClusterInv
<1> QED
  BY <1>1, ClusterInvHolds, PTL

\* What the invariant says when the guest starts.
LEMMA SetUpFrom == ASSUME ClusterInv PROVE BootAfterSetup
<1> SUFFICES ASSUME Booted, NEW i \in 1..NrNode
             PROVE  LET m == Nodes0[i].mac
                    IN  ready[m] /\ me[m] = i - 1 /\ NrNode <= nnodes[m]
  BY DEF BootAfterSetup, Nodes0
<1>1. PICK m : m = Nodes0[i].mac
  OBVIOUS
<1>2. Ready /\ Counted
  BY DEF Booted, Ready, Counted
<1>3. NrNode <= hdr.nnodes /\ hdr.nnodes <= nnodes[Main] /\ hdr.nnodes \in Nat
  BY <1>2, Consequences DEF ClusterInv, HeaderOK
<1>4. i - 1 \in 0..(hdr.nnodes - 1) /\ i - 1 + 1 = i
  BY <1>3, Basics
<1>5. i - 1 \in active[Main]
  BY <1>2, <1>4 DEF ClusterInv, ReadyOK
<1>6. me[m] = i - 1 /\ ready[m] /\ m \in Machines
  BY <1>1, <1>4, <1>5, Consequences DEF ClusterInv, ActiveOK
<1>7. NrNode <= nnodes[m]
  <2>1. CASE m = Main
    BY <1>3, <2>1, Basics, Consequences
  <2>2. CASE m \in Subs
    <3>1. me[m] # None
      BY <1>4, <1>6, Basics
    <3> QED
      BY <1>3, <2>2, <3>1 DEF ClusterInv, InfoOK
  <2> QED
    BY <1>6, <2>1, <2>2, Basics
<1> QED
  BY <1>1, <1>6, <1>7

\* When the guest starts every node it needs has set up its memory and its vCPU
\* ids and holds the table (wait_for_all_node_ready; BootAfterSetup).
THEOREM BootAfterSetupHolds == Spec => []BootAfterSetup
<1>1. ClusterInv => BootAfterSetup
  BY SetUpFrom
<1> QED
  BY <1>1, ClusterInvHolds, PTL

\* A sub-node that knows its id sees Main's table.
LEMMA TablesSame ==
  ASSUME ClusterInv, NEW s \in Subs, me[s] # None
  PROVE  /\ nnodes[s] <= Len(cluster[Main])
         /\ \A i \in 1..nnodes[s] : cluster[s][i] = cluster[Main][i]
         /\ cluster[s][me[s] + 1].mac = s
<1>1. /\ nnodes[s] = hdr.nnodes /\ me[s] + 1 \in 1..hdr.nnodes /\ Nodes0[me[s] + 1].mac = s
      /\ \A k \in 1..hdr.nnodes : cluster[s][k] = Nodes0[k]
  BY DEF ClusterInv, InfoOK
<1>2. Counted
  BY Consequences DEF ClusterInv, PlacesOK
<1> QED
  BY <1>1, <1>2, Consequences DEF Nodes0

\* Two entries share no machine, no memory and no vCPU id.
LEMMA NoOverlap ==
  ASSUME ClusterInv, NEW i \in 1..Len(cluster[Main]), NEW j \in 1..Len(cluster[Main]), i # j
  PROVE  ~Overlap(cluster[Main][i], cluster[Main][j])
<1>1. ASSUME NEW a \in 1..Len(Nodes0), NEW b \in 1..Len(Nodes0), a < b
      PROVE  /\ Nodes0[a].mac # Nodes0[b].mac
             /\ Nodes0[a].start + Nodes0[a].size <= Nodes0[b].start
             /\ \A k, l \in 1..NVcpu : Nodes0[a].vcpus[k] < Nodes0[b].vcpus[l]
             /\ Nodes0[a].start \in Nat /\ Nodes0[b].start \in Nat
             /\ Nodes0[a].size = 1 /\ Nodes0[b].size = 1
  <2>1. /\ Nodes0[a].mac # Nodes0[b].mac /\ First(a) + NVcpu <= First(b)
        /\ Nodes0[a].start = a - 1 /\ Nodes0[b].start = b - 1
        /\ \A k \in 1..NVcpu : Nodes0[a].vcpus[k] = First(a) + k - 1
        /\ \A k \in 1..NVcpu : Nodes0[b].vcpus[k] = First(b) + k - 1
    BY <1>1 DEF ClusterInv, TableOK
  <2>2. First(a) \in Nat /\ First(b) \in Nat /\ Nodes0[a].size = 1 /\ Nodes0[b].size = 1
    BY Consequences
  <2>3. \A k, l \in 1..NVcpu : First(a) + k - 1 < First(b) + l - 1
    BY <2>1, <2>2, Basics
  <2>4. \A k, l \in 1..NVcpu : Nodes0[a].vcpus[k] < Nodes0[b].vcpus[l]
    <3> SUFFICES ASSUME NEW k \in 1..NVcpu, NEW l \in 1..NVcpu
                 PROVE  Nodes0[a].vcpus[k] < Nodes0[b].vcpus[l]
      OBVIOUS
    <3>1. Nodes0[a].vcpus[k] = First(a) + k - 1 /\ Nodes0[b].vcpus[l] = First(b) + l - 1
      BY <2>1
    <3> QED
      BY <2>3, <3>1
  <2>5. a \in Nat /\ b \in Nat /\ 1 <= a /\ 1 <= b
    OBVIOUS
  <2>6. /\ Nodes0[a].start \in Nat /\ Nodes0[b].start \in Nat
        /\ Nodes0[a].start + Nodes0[a].size <= Nodes0[b].start
    <3>1. a - 1 \in Nat /\ b - 1 \in Nat /\ (a - 1) + 1 <= b - 1
      BY <1>1, <2>5
    <3> QED
      BY <2>1, <2>2, <3>1
  <2> QED
    BY <2>1, <2>2, <2>4, <2>6
<1>2. i < j \/ j < i
  BY Consequences DEF Nodes0
<1>3. CASE i < j
  <2>1. /\ Nodes0[i].mac # Nodes0[j].mac
        /\ Nodes0[i].start + Nodes0[i].size <= Nodes0[j].start
        /\ \A k, l \in 1..NVcpu : Nodes0[i].vcpus[k] < Nodes0[j].vcpus[l]
        /\ Nodes0[i].start \in Nat /\ Nodes0[j].start \in Nat
        /\ Nodes0[i].size = 1 /\ Nodes0[j].size = 1
    BY <1>1, <1>3 DEF Nodes0
  <2>2. \A k, l \in 1..NVcpu : Nodes0[i].vcpus[k] # Nodes0[j].vcpus[l]
    <3> SUFFICES ASSUME NEW k \in 1..NVcpu, NEW l \in 1..NVcpu
                 PROVE  Nodes0[i].vcpus[k] # Nodes0[j].vcpus[l]
      OBVIOUS
    <3>1. Nodes0[i].vcpus[k] < Nodes0[j].vcpus[l] /\ Nodes0[i].vcpus[k] = First(i) + k - 1
      BY <2>1 DEF ClusterInv, TableOK, Nodes0
    <3>2. First(i) \in Nat
      BY Consequences DEF Nodes0
    <3> QED
      BY <3>1, <3>2, Basics
  <2> QED
    BY <2>1, <2>2 DEF Overlap, Nodes0
<1>4. CASE j < i
  <2>1. /\ Nodes0[j].mac # Nodes0[i].mac
        /\ Nodes0[j].start + Nodes0[j].size <= Nodes0[i].start
        /\ \A k, l \in 1..NVcpu : Nodes0[j].vcpus[k] < Nodes0[i].vcpus[l]
        /\ Nodes0[i].start \in Nat /\ Nodes0[j].start \in Nat
        /\ Nodes0[i].size = 1 /\ Nodes0[j].size = 1
    BY <1>1, <1>4 DEF Nodes0
  <2>2. \A k, l \in 1..NVcpu : Nodes0[j].vcpus[k] # Nodes0[i].vcpus[l]
    <3> SUFFICES ASSUME NEW k \in 1..NVcpu, NEW l \in 1..NVcpu
                 PROVE  Nodes0[j].vcpus[k] # Nodes0[i].vcpus[l]
      OBVIOUS
    <3>1. Nodes0[j].vcpus[k] < Nodes0[i].vcpus[l] /\ Nodes0[j].vcpus[k] = First(j) + k - 1
      BY <2>1 DEF ClusterInv, TableOK, Nodes0
    <3>2. First(j) \in Nat
      BY Consequences DEF Nodes0
    <3> QED
      BY <3>1, <3>2, Basics
  <2> QED
    BY <2>1, <2>2 DEF Overlap, Nodes0
<1> QED
  BY <1>2, <1>3, <1>4

\* With at least two nodes the last vCPU of the last node in the table sent, and
\* no other, takes itself for the last.
LEMMA OneLast ==
  ASSUME ClusterInv, Booted, NrNode > 1
  PROVE  Cardinality({v \in Machines \X (1..NVcpu) : TakesItselfForLast(v[1], v[2])}) = 1
<1>1. Ready /\ Counted /\ Sent
  BY DEF Booted, Ready, Counted, Sent
<1>2. PICK n : n = hdr.nnodes
  OBVIOUS
<1>3. /\ n \in Nat /\ n > 1 /\ n <= Len(Nodes0) /\ Len(Nodes0) \in Nat
      /\ hdr.nvcpus = First(n) + NVcpu
      /\ 0..(n - 1) \subseteq active[Main]
  BY <1>1, <1>2, Basics, Consequences DEF ClusterInv, HeaderOK, ReadyOK
<1>4. PICK last : last = Nodes0[n].mac
  OBVIOUS
<1>5. n - 1 \in active[Main] /\ n - 1 + 1 = n /\ n \in 1..Len(Nodes0) /\ 1 \in 1..Len(Nodes0) /\ 1 < n
  BY <1>3
<1>6. last \in Machines /\ me[last] = n - 1 /\ First(n) \in Nat /\ First(1) \in Nat
  BY <1>4, <1>5, Consequences DEF ClusterInv, ActiveOK
<1>7. Nodes0[1].mac = Main /\ last # Main
  <2>1. at[Main] # "init"
    BY DEF Booted
  <2>2. Nodes0[1].mac = Main
    BY <2>1 DEF ClusterInv, TableOK
  <2>3. Nodes0[1].mac # Nodes0[n].mac
    BY <1>5 DEF ClusterInv, TableOK
  <2> QED
    BY <1>4, <2>2, <2>3
<1>8. last \in Subs /\ me[last] # None
  BY <1>3, <1>6, <1>7, Basics
<1>9. ASSUME NEW m \in Machines, NEW i \in 1..NVcpu
      PROVE  TakesItselfForLast(m, i) <=> m = last /\ i = NVcpu
  <2>1. CASE m = Main
    <3>1. me[Main] = 0 /\ nvcpus[Main] \in Nat
      BY Consequences
    <3>2. cluster[Main][me[Main] + 1].vcpus[i] = First(1) + i - 1
      BY <1>5, <3>1 DEF ClusterInv, TableOK, Nodes0
    <3>3. First(1) + NVcpu <= First(n) /\ First(n) + NVcpu <= nvcpus[Main]
      BY <1>5 DEF ClusterInv, TableOK
    <3>4. First(1) + i - 1 # nvcpus[Main] - 1
      BY <1>6, <3>1, <3>3, Basics
    <3> QED
      BY <1>7, <2>1, <3>2, <3>4 DEF TakesItselfForLast
  <2>2. CASE m \in Subs /\ me[m] = None
    BY <1>8, <2>2 DEF TakesItselfForLast
  <2>3. CASE m \in Subs /\ me[m] # None
    <3>1. PICK k : k = me[m] + 1
      OBVIOUS
    <3>2. /\ nvcpus[m] = First(n) + NVcpu /\ k \in 1..n /\ Nodes0[k].mac = m
          /\ cluster[m][k] = Nodes0[k]
      BY <1>2, <1>3, <2>3, <3>1 DEF ClusterInv, InfoOK
    <3>3. k \in 1..Len(Nodes0)
      BY <1>3, <3>2
    <3>4. cluster[m][k].vcpus[i] = First(k) + i - 1 /\ First(k) \in Nat
      BY <3>2, <3>3, Consequences DEF ClusterInv, TableOK
    <3>5. TakesItselfForLast(m, i) <=> First(k) + i - 1 = First(n) + NVcpu - 1
      <4>1. TakesItselfForLast(m, i) <=> cluster[m][k].vcpus[i] = nvcpus[m] - 1
        BY <2>3, <3>1 DEF TakesItselfForLast
      <4>2. nvcpus[m] - 1 = First(n) + NVcpu - 1
        BY <1>6, <3>2, Basics
      <4> QED
        BY <3>4, <4>1, <4>2
    <3>6. CASE k = n
      BY <1>4, <1>6, <3>2, <3>5, <3>6, Basics
    <3>7. CASE k # n
      <4>1. k < n
        BY <1>3, <3>2, <3>7
      <4>2. First(k) + NVcpu <= First(n) /\ Nodes0[k].mac # Nodes0[n].mac
        BY <1>5, <3>3, <4>1 DEF ClusterInv, TableOK
      <4>3. First(k) + i - 1 # First(n) + NVcpu - 1
        BY <1>6, <3>4, <4>2, Basics
      <4> QED
        BY <1>4, <3>2, <3>5, <4>2, <4>3
    <3> QED
      BY <3>6, <3>7
  <2> QED
    BY <2>1, <2>2, <2>3, Basics
<1>10. {v \in Machines \X (1..NVcpu) : TakesItselfForLast(v[1], v[2])} = {<<last, NVcpu>>}
  <2>1. <<last, NVcpu>> \in Machines \X (1..NVcpu) /\ NVcpu \in 1..NVcpu
    BY <1>6, Basics
  <2>2. TakesItselfForLast(last, NVcpu)
    BY <1>6, <1>9, <2>1
  <2>3. ASSUME NEW v \in Machines \X (1..NVcpu), TakesItselfForLast(v[1], v[2])
        PROVE  v = <<last, NVcpu>>
    BY <1>9, <2>3
  <2> QED
    BY <2>1, <2>2, <2>3
<1> QED
  BY <1>10, FS_Singleton

\* All nodes agree on one table that gives nothing twice, and once the guest runs
\* one vCPU takes itself for the last (update_cluster_info, alloc_nodeid,
\* alloc_vcpuid, vcpuid_init; TablesAgree), in a cluster of two nodes or more.
THEOREM TablesAgreeHolds == ASSUME NrNode > 1 PROVE Spec => []TablesAgree
<1>1. ASSUME ClusterInv PROVE TablesAgree
  <2>1. \A s \in Subs : me[s] # None =>
          /\ nnodes[s] <= Len(cluster[Main])
          /\ \A i \in 1..nnodes[s] : cluster[s][i] = cluster[Main][i]
          /\ cluster[s][me[s] + 1].mac = s
    BY <1>1, TablesSame
  <2>2. \A i, j \in 1..Len(cluster[Main]) :
          i # j => ~Overlap(cluster[Main][i], cluster[Main][j])
    BY <1>1, NoOverlap
  <2>3. Booted =>
          Cardinality({v \in Machines \X (1..NVcpu) : TakesItselfForLast(v[1], v[2])}) = 1
    BY <1>1, OneLast
  <2> QED
    BY <2>1, <2>2, <2>3 DEF TablesAgree
<1> QED
  BY <1>1, ClusterInvHolds, PTL
=============================================================================

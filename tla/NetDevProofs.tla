---------------------------- MODULE NetDevProofs ----------------------------
(***************************************************************************)
(* The rings of the network drivers, for every number of descriptors,      *)
(* every range of the indices that a ring divides, and every heap that can *)
(* fill the receive ring: RingsAccounted of NetDev, and that either driver *)
(* is a frame service.                                                     *)
(*                                                                         *)
(* GENET's rings are described by where their indices are (TxIndices), and *)
(* the buffers they hold by what is in them.  A virtqueue is described by  *)
(* who owns each descriptor (Layout): nobody, or the head of the chain it  *)
(* is part of; and by the chains that wait in its two rings (RingsAs).     *)
(***************************************************************************)
EXTENDS NetDev, FiniteSetTheorems, TLAPS

-----------------------------------------------------------------------------
(* Arithmetic of the indices.                                              *)

\* What % is for numbers near the modulus.
LEMMA ModSmall ==
  ASSUME NEW M \in Nat \ {0}, NEW a \in Int
  PROVE  /\ a % M \in 0..(M - 1)
         /\ a \in 0..(M - 1) => a % M = a
         /\ a \in (-M)..(-1) => a % M = a + M
         /\ a \in M..(2 * M - 1) => a % M = a - M
  OBVIOUS

\* The distance between two indices.
LEMMA Distance ==
  ASSUME NEW M \in Nat \ {0}, NEW i \in 0..(M - 1), NEW j \in 0..(M - 1)
  PROVE  /\ (j - i) % M = IF i <= j THEN j - i ELSE j - i + M
         /\ (j - i) % M \in 0..(M - 1)
<1>1. PICK a \in Int : a = j - i
  OBVIOUS
<1>2. CASE i <= j
  <2>1. a \in 0..(M - 1)
    BY <1>1, <1>2
  <2>2. a % M = a
    BY <2>1, ModSmall
  <2> QED BY <1>1, <1>2, <2>2
<1>3. CASE ~(i <= j)
  <2>1. a \in (-M)..(-1)
    BY <1>1, <1>3
  <2>2. a % M = a + M
    BY <2>1, ModSmall
  <2> QED BY <1>1, <1>3, <2>2
<1> QED BY <1>2, <1>3

\* The index that comes n after another.
LEMMA Ahead ==
  ASSUME NEW M \in Nat \ {0}, NEW i \in 0..(M - 1), NEW n \in 0..M
  PROVE  /\ (i + n) % M = IF i + n < M THEN i + n ELSE i + n - M
         /\ (i + n) % M \in 0..(M - 1)
<1>1. PICK a \in Int : a = i + n
  OBVIOUS
<1>2. CASE i + n < M
  <2>1. a \in 0..(M - 1)
    BY <1>1, <1>2
  <2>2. a % M = a
    BY <2>1, ModSmall
  <2> QED BY <1>1, <1>2, <2>2
<1>3. CASE ~(i + n < M)
  <2>1. a \in M..(2 * M - 1)
    BY <1>1, <1>3
  <2>2. a % M = a - M
    BY <2>1, ModSmall
  <2> QED BY <1>1, <1>3, <2>2
<1> QED BY <1>2, <1>3

\* The index that comes next.
LEMMA Next1 ==
  ASSUME NEW M \in Nat \ {0}, NEW i \in 0..(M - 1)
  PROVE  /\ (i + 1) % M = IF i + 1 < M THEN i + 1 ELSE 0
         /\ (i + 1) % M \in 0..(M - 1)
<1>1. 1 \in 0..M
  OBVIOUS
<1>2. (i + 1) % M = IF i + 1 < M THEN i + 1 ELSE i + 1 - M
  BY <1>1, Ahead
<1> QED BY <1>2

\* Three indices in order: the distances add up.
LEMMA Between ==
  ASSUME NEW M \in Nat \ {0}, NEW d \in 0..(M - 1), NEW c \in 0..(M - 1), NEW p \in 0..(M - 1),
         (c - d) % M <= (p - d) % M
  PROVE  /\ (p - c) % M = ((p - d) % M) - ((c - d) % M)
         /\ (p - d) % M \in 0..(M - 1) /\ (c - d) % M \in 0..(M - 1)
         /\ c # p => (((c + 1) % M) - d) % M = ((c - d) % M) + 1 /\ (c - d) % M < (p - d) % M
<1>1. PICK e \in 0..(M - 1) : e = (c + 1) % M
  BY Next1
<1>2. /\ e = IF c + 1 < M THEN c + 1 ELSE 0
      /\ (c - d) % M = IF d <= c THEN c - d ELSE c - d + M
      /\ (p - d) % M = IF d <= p THEN p - d ELSE p - d + M
      /\ (p - c) % M = IF c <= p THEN p - c ELSE p - c + M
      /\ (e - d) % M = IF d <= e THEN e - d ELSE e - d + M
  BY <1>1, Next1, Distance
<1>3. \A x, y, z, w \in Int :
         /\ x = (IF d <= c THEN c - d ELSE c - d + M) /\ y = (IF d <= p THEN p - d ELSE p - d + M)
         /\ z = (IF c <= p THEN p - c ELSE p - c + M) /\ w = (IF d <= e THEN e - d ELSE e - d + M)
         /\ x <= y
         => z = y - x /\ y \in 0..(M - 1) /\ x \in 0..(M - 1) /\ (c # p => w = x + 1 /\ x < y)
  BY <1>2
<1>4. (c - d) % M \in Int /\ (p - d) % M \in Int /\ (p - c) % M \in Int /\ (e - d) % M \in Int
  BY <1>2
<1> QED BY <1>1, <1>2, <1>3, <1>4

\* The end of an interval that does not fill the range moves on.
LEMMA Longer ==
  ASSUME NEW M \in Nat \ {0}, NEW c \in 0..(M - 1), NEW p \in 0..(M - 1), ((p - c) % M) + 1 < M
  PROVE  (((p + 1) % M) - c) % M = ((p - c) % M) + 1
<1>1. PICK e \in 0..(M - 1) : e = (p + 1) % M
  BY Next1
<1>2. /\ e = IF p + 1 < M THEN p + 1 ELSE 0
      /\ (p - c) % M = IF c <= p THEN p - c ELSE p - c + M
      /\ (e - c) % M = IF c <= e THEN e - c ELSE e - c + M
  BY <1>1, Next1, Distance
<1> QED BY <1>1, <1>2

\* Going n and then k is going n + k.
LEMMA Further ==
  ASSUME NEW M \in Nat \ {0}, NEW i \in 0..(M - 1), NEW n \in 0..M, NEW k \in 0..M, n + k <= M
  PROVE  (((i + n) % M) + k) % M = (i + (n + k)) % M
<1>1. PICK e \in 0..(M - 1) : e = (i + n) % M
  BY Ahead
<1>2. /\ e = IF i + n < M THEN i + n ELSE i + n - M
      /\ (e + k) % M = IF e + k < M THEN e + k ELSE e + k - M
  BY <1>1, Ahead
<1>3. (i + (n + k)) % M = IF i + (n + k) < M THEN i + (n + k) ELSE i + (n + k) - M
  <2>1. n + k \in 0..M
    OBVIOUS
  <2> QED BY <2>1, Ahead
<1> QED BY <1>1, <1>2, <1>3

\* A nonempty set of numbers has a least one.
LEMMA LeastExists ==
  ASSUME NEW T, T \subseteq Nat, T # {}
  PROVE  \E t \in T : \A e \in T : t <= e
<1>1. PICK n \in T : TRUE
  OBVIOUS
<1> DEFINE S == 0..n
           U == {A \in SUBSET S : \E t \in T : A = 0..t}
<1>2. IsFiniteSet(S)
  BY <1>1, FS_Interval
<1>3. IsWellFoundedOn(StrictSubsetOrdering(S), FiniteSubsetsOf(S))
  BY FS_StrictSubsetOrderingWellFounded
<1>4. U \subseteq FiniteSubsetsOf(S) /\ U # {}
  BY <1>1, <1>2, FS_FiniteSubsetsOfFinite
<1>5. PICK A \in U : \A B \in U : ~(<<B, A>> \in StrictSubsetOrdering(S))
  <2> HIDE DEF U, S
  <2> QED BY <1>3, <1>4, WFMin
<1>6. PICK t \in T : A = 0..t
  BY <1>5
<1>7. ASSUME NEW e \in T, ~(t <= e) PROVE FALSE
  <2>1. e < t /\ e \in Nat /\ t \in Nat
    BY <1>7
  <2>2. 0..e \subseteq A /\ t \in A /\ t \notin 0..e
    BY <2>1, <1>6
  <2>3. 0..e \in U
    BY <2>2, <1>5
  <2>4. <<0..e, A>> \in StrictSubsetOrdering(S)
    BY <2>2, <2>3, <1>5 DEF StrictSubsetOrdering
  <2> QED BY <1>5, <2>3, <2>4
<1> QED BY <1>7

\* A multiple of a number that is not 0 is at least that far from 0.
LEMMA Multiple ==
  ASSUME NEW N \in Nat \ {0}, NEW d \in Int, d # 0
  PROVE  N * d >= N \/ N * d <= -N
  OBVIOUS

\* The remainder is what is left over.
LEMMA ModIs ==
  ASSUME NEW N \in Nat \ {0}, NEW d \in Int, NEW r \in 0..(N - 1)
  PROVE  (N * d + r) % N = r
  OBVIOUS

\* Every number has a quotient and a remainder.
LEMMA DivIs ==
  ASSUME NEW N \in Nat \ {0}, NEW x \in Nat
  PROVE  \E d \in Nat, r \in 0..(N - 1) : x = N * d + r
<1> DEFINE T == {y \in Nat : ~\E d \in Nat, r \in 0..(N - 1) : y = N * d + r}
<1>1. SUFFICES ASSUME T # {} PROVE FALSE
  OBVIOUS
<1>2. PICK y \in T : \A e \in T : y <= e
  BY <1>1, LeastExists
<1>3. CASE y < N
  <2>1. N * 0 = 0
    OBVIOUS
  <2>2. y = N * 0 + y /\ y \in 0..(N - 1)
    BY <1>2, <1>3, <2>1
  <2> QED BY <1>2, <2>2
<1>4. CASE ~(y < N)
  <2>1. y - N \in Nat /\ y - N < y
    BY <1>2, <1>4
  <2>2. y - N \notin T
    BY <1>2, <2>1
  <2>3. PICK d \in Nat, r \in 0..(N - 1) : y - N = N * d + r
    BY <2>1, <2>2
  <2>4. N * (d + 1) = N * d + N /\ N * d \in Int /\ N * (d + 1) \in Int
    OBVIOUS
  <2>5. y = N * (d + 1) + r /\ d + 1 \in Nat
    BY <1>2, <2>3, <2>4
  <2> QED BY <1>2, <2>5
<1> QED BY <1>3, <1>4

\* A whole number of turns leads back.
LEMMA ModPlus ==
  ASSUME NEW N \in Nat \ {0}, NEW x \in Nat, NEW m \in Nat
  PROVE  (x + N * m) % N = x % N
<1>1. PICK d \in Nat, r \in 0..(N - 1) : x = N * d + r
  BY DivIs
<1>2. N * m \in Int /\ N * d \in Int /\ N * (d + m) = N * d + N * m /\ N * (d + m) \in Int
  OBVIOUS
<1>3. (N * (d + m) + r) % N = r /\ (N * d + r) % N = r
  BY ModIs
<1>4. x + N * m = N * (d + m) + r
  BY <1>1, <1>2
<1> QED BY <1>1, <1>3, <1>4

\* Two places less than a turn apart differ.
LEMMA ModDiffer ==
  ASSUME NEW N \in Nat \ {0}, NEW x \in Nat, NEW y \in Nat, x < y, y < x + N
  PROVE  x % N # y % N
<1>1. PICK d \in Nat, r \in 0..(N - 1) : x = N * d + r
  BY DivIs
<1>2. PICK e \in Nat, s \in 0..(N - 1) : y = N * e + s
  BY DivIs
<1>3. x % N = r /\ y % N = s
  BY <1>1, <1>2, ModIs
<1>4. SUFFICES ASSUME r = s PROVE FALSE
  BY <1>3
<1>5. PICK g \in Int : g = e - d
  OBVIOUS
<1>6. N * g = N * e - N * d /\ N * g \in Int /\ N * e \in Int /\ N * d \in Int
  BY <1>5
<1>7. N * g = y - x
  BY <1>1, <1>2, <1>4, <1>6
<1>8. g # 0
  <2>1. N * 0 = 0
    OBVIOUS
  <2> QED BY <1>7, <2>1
<1>9. N * g >= N \/ N * g <= -N
  BY <1>8, Multiple
<1> QED BY <1>7, <1>9

\* The distance from one index to another leads there.
LEMMA Reaches ==
  ASSUME NEW M \in Nat \ {0}, NEW i \in 0..(M - 1), NEW j \in 0..(M - 1)
  PROVE  (i + ((j - i) % M)) % M = j
<1>1. PICK n \in 0..(M - 1) : n = (j - i) % M
  BY Distance
<1>2. n = IF i <= j THEN j - i ELSE j - i + M
  BY <1>1, Distance
<1>3. n \in 0..M
  OBVIOUS
<1>4. (i + n) % M = IF i + n < M THEN i + n ELSE i + n - M
  BY <1>3, Ahead
<1>5. (IF i + n < M THEN i + n ELSE i + n - M) = j
  BY <1>2
<1> QED BY <1>1, <1>4, <1>5

\* The next index is one nearer.
LEMMA Nearer ==
  ASSUME NEW M \in Nat \ {0}, NEW i \in 0..(M - 1), NEW j \in 0..(M - 1), i # j
  PROVE  (j - ((i + 1) % M)) % M = ((j - i) % M) - 1 /\ (j - i) % M # 0
<1>1. PICK e \in 0..(M - 1) : e = (i + 1) % M
  BY Next1
<1>2. /\ e = IF i + 1 < M THEN i + 1 ELSE 0
      /\ (j - i) % M = IF i <= j THEN j - i ELSE j - i + M
      /\ (j - e) % M = IF e <= j THEN j - e ELSE j - e + M
  BY <1>1, Next1, Distance
<1> QED BY <1>1, <1>2

-----------------------------------------------------------------------------
(* GENET.                                                                  *)

TxRings == [cb : [0..(NTx - 1) -> Bufs \cup {0}], eop : [0..(NTx - 1) -> BOOLEAN],
            write_ptr : 0..(NTx - 1), clean_ptr : 0..(NTx - 1), free_bds : Int,
            prod_index : 0..(IndexMod - 1), c_index : 0..(IndexMod - 1),
            PROD : 0..(IndexMod - 1), CONS : 0..(IndexMod - 1)]

RxRings == [cb : [0..(NRx - 1) -> Bufs \cup {0}], read_ptr : 0..(NRx - 1),
            c_index : 0..(IndexMod - 1), PROD : 0..(IndexMod - 1), CONS : 0..(IndexMod - 1),
            discards : Nat, old_discards : Nat]

Contents == GenetTx \cup RxFrames \cup {Genet!Free, Genet!Empty, Genet!InStack}

\* The transmit ring in itself: what the hardware has consumed lies between
\* what the driver has reclaimed and what it has produced.
TxIndices(t) ==
  LET busy == (t.prod_index - t.c_index) % IndexMod
  IN  /\ t.PROD = t.prod_index
      /\ busy < NTx
      /\ t.free_bds = NTx - busy
      /\ (t.CONS - t.c_index) % IndexMod <= busy
      /\ t.write_ptr = (t.clean_ptr + busy) % NTx

\* The buffers of the transmit ring hold frames, and each uses one descriptor.
TxBuffers(t, m) ==
  \A i \in 0..(NTx - 1) : t.cb[i] # 0 =>
    /\ m[t.cb[i]] \in GenetTx
    /\ \A j \in (0..(NTx - 1)) \ {i} : t.cb[j] # t.cb[i]

\* The buffers of the receive ring are the ring's own and nobody else's.
RxBuffers(r, m) ==
  \A i \in 0..(NRx - 1) :
    /\ r.cb[i] \in Bufs
    /\ m[r.cb[i]] \in RxFrames \cup {Genet!Empty}
    /\ \A j \in (0..(NRx - 1)) \ {i} : r.cb[j] # r.cb[i]

GenetInv ==
  /\ rings \in [tx : TxRings, rx : RxRings]
  /\ mem \in [Bufs -> Contents]
  /\ "cmd" \in DOMAIN dev /\ (dev.cmd # {} => stage = "up")
  /\ TxIndices(rings.tx)
  /\ TxBuffers(rings.tx, mem)
  /\ stage \in {"dma", "mii", "up"} => RxBuffers(rings.rx, mem)

-----------------------------------------------------------------------------
(* The transmit ring.                                                      *)

\* A frame takes the next descriptor.
LEMMA TxQueued ==
  ASSUME NEW t, NEW u, t \in TxRings, u \in TxRings, TxIndices(t), t.free_bds >= 2,
         u.write_ptr = (t.write_ptr + 1) % NTx, u.free_bds = t.free_bds - 1,
         u.prod_index = (t.prod_index + 1) % IndexMod, u.PROD = u.prod_index,
         u.c_index = t.c_index, u.CONS = t.CONS, u.clean_ptr = t.clean_ptr
  PROVE  TxIndices(u)
<1>1. NTx \in Nat \ {0} /\ IndexMod \in Nat \ {0} /\ NTx <= IndexMod
  BY NetDevAssumption
<1>2. PICK p \in 0..(IndexMod - 1), d \in 0..(IndexMod - 1), c \in 0..(IndexMod - 1),
           w \in 0..(NTx - 1), z \in 0..(NTx - 1) :
         p = t.prod_index /\ d = t.c_index /\ c = t.CONS /\ w = t.write_ptr /\ z = t.clean_ptr
  BY DEF TxRings
<1>3. PICK busy \in 0..(IndexMod - 1), ready \in 0..(IndexMod - 1) :
         busy = (p - d) % IndexMod /\ ready = (c - d) % IndexMod
  BY <1>1, Distance
<1>4. busy < NTx /\ t.free_bds = NTx - busy /\ ready <= busy /\ w = (z + busy) % NTx
  BY <1>2, <1>3 DEF TxIndices
<1>5. busy + 1 < NTx /\ busy \in 0..NTx /\ 1 \in 0..NTx /\ busy + 1 <= NTx /\ busy + 1 < IndexMod
  BY <1>1, <1>4
<1>6. (((p + 1) % IndexMod) - d) % IndexMod = busy + 1
  BY <1>1, <1>3, <1>5, Longer
<1>7. (w + 1) % NTx = (z + (busy + 1)) % NTx
  BY <1>1, <1>4, <1>5, Further
<1>8. u.free_bds = NTx - (busy + 1) /\ ready <= busy + 1
  BY <1>1, <1>4
<1> QED BY <1>2, <1>3, <1>5, <1>6, <1>7, <1>8 DEF TxIndices

\* The hardware reads one more descriptor.
LEMMA TxConsumed ==
  ASSUME NEW t, NEW u, t \in TxRings, TxIndices(t), t.CONS # t.PROD,
         u = [t EXCEPT !.CONS = (@ + 1) % IndexMod]
  PROVE  u \in TxRings /\ TxIndices(u)
<1>1. IndexMod \in Nat \ {0}
  BY NetDevAssumption
<1>2. PICK p \in 0..(IndexMod - 1), d \in 0..(IndexMod - 1), c \in 0..(IndexMod - 1) :
         p = t.prod_index /\ d = t.c_index /\ c = t.CONS
  BY DEF TxRings
<1>11. PICK e \in 0..(IndexMod - 1) : e = (c + 1) % IndexMod
  BY <1>1, Next1
<1>3. u = [t EXCEPT !.CONS = e]
  BY <1>2, <1>11
<1>4. u \in TxRings
  BY <1>3 DEF TxRings
<1>5. /\ u.PROD = t.PROD /\ u.prod_index = t.prod_index /\ u.c_index = t.c_index /\ u.CONS = e
      /\ u.free_bds = t.free_bds /\ u.write_ptr = t.write_ptr /\ u.clean_ptr = t.clean_ptr
  BY <1>3 DEF TxRings
<1>6. PICK busy \in 0..(IndexMod - 1), ready \in 0..(IndexMod - 1) :
         busy = (p - d) % IndexMod /\ ready = (c - d) % IndexMod
  BY <1>1, Distance
<1>8. ready <= busy /\ c # p
  BY <1>2, <1>6 DEF TxIndices
<1>9. (e - d) % IndexMod = ready + 1 /\ ready < busy
  BY <1>1, <1>6, <1>8, <1>11, Between
<1>10. (e - d) % IndexMod <= busy
  BY <1>9
<1> QED BY <1>2, <1>4, <1>5, <1>6, <1>10 DEF TxIndices

\* The driver reclaims what the hardware has read.
LEMMA TxReclaimed ==
  ASSUME NEW t, t \in TxRings, TxIndices(t)
  PROVE  /\ Genet!tx_reclaim(t) \in TxRings
         /\ TxIndices(Genet!tx_reclaim(t))
         /\ \A i \in 0..(NTx - 1) : Genet!tx_reclaim(t).cb[i] \in {0, t.cb[i]}
<1> DEFINE u == Genet!tx_reclaim(t)
<1>1. /\ NTx \in Nat \ {0} /\ IndexMod \in Nat \ {0} /\ NTx <= IndexMod
      /\ t.prod_index \in 0..(IndexMod - 1) /\ t.c_index \in 0..(IndexMod - 1)
      /\ t.CONS \in 0..(IndexMod - 1) /\ t.write_ptr \in 0..(NTx - 1)
      /\ t.clean_ptr \in 0..(NTx - 1) /\ t.free_bds \in Int
      /\ t.cb \in [0..(NTx - 1) -> Bufs \cup {0}]
  BY NetDevAssumption DEF TxRings
<1>2. PICK p \in 0..(IndexMod - 1), d \in 0..(IndexMod - 1), c \in 0..(IndexMod - 1),
           w \in 0..(NTx - 1), z \in 0..(NTx - 1) :
         p = t.prod_index /\ d = t.c_index /\ c = t.CONS /\ w = t.write_ptr /\ z = t.clean_ptr
  BY <1>1
<1>3. PICK busy \in 0..(IndexMod - 1), ready \in 0..(IndexMod - 1) :
         busy = (p - d) % IndexMod /\ ready = (c - d) % IndexMod
  BY <1>1, Distance
<1>4. busy < NTx /\ t.free_bds = NTx - busy /\ ready <= busy /\ t.PROD = t.prod_index
      /\ w = (z + busy) % NTx
  BY <1>2, <1>3 DEF TxIndices
<1>5. /\ busy \in 0..NTx /\ ready \in 0..NTx /\ busy - ready \in 0..NTx
      /\ ready + (busy - ready) = busy
  BY <1>1, <1>4
<1>6. PICK clean \in 0..(NTx - 1) : clean = (z + ready) % NTx
  BY <1>1, <1>5, Ahead
<1>7. PICK cb \in [0..(NTx - 1) -> Bufs \cup {0}] :
         cb = [i \in 0..(NTx - 1) |-> IF (i - t.clean_ptr) % NTx < ready THEN 0 ELSE t.cb[i]]
  BY <1>1
<1>8. u = [t EXCEPT !.cb = cb, !.clean_ptr = clean, !.free_bds = @ + ready, !.c_index = t.CONS]
  <2>1. DOMAIN t.cb = 0..(NTx - 1)
    BY <1>1
  <2> QED BY <1>2, <1>3, <1>6, <1>7, <2>1 DEF Genet!tx_reclaim
<1> HIDE DEF u
<1>9. /\ u.cb = cb /\ u.clean_ptr = clean /\ u.free_bds = t.free_bds + ready
      /\ u.c_index = t.CONS /\ u.prod_index = t.prod_index /\ u.PROD = t.PROD
      /\ u.CONS = t.CONS /\ u.write_ptr = t.write_ptr
  BY <1>8 DEF TxRings
<1>10. u \in TxRings
  <2>1. t.free_bds + ready \in Int
    BY <1>1
  <2> QED BY <1>1, <1>8, <2>1 DEF TxRings
<1>11. (p - c) % IndexMod = busy - ready
  <2>1. PICK r \in 0..(IndexMod - 1) : r = (p - c) % IndexMod
    BY <1>1, Distance
  <2>2. /\ ready = IF d <= c THEN c - d ELSE c - d + IndexMod
        /\ busy = IF d <= p THEN p - d ELSE p - d + IndexMod
        /\ r = IF c <= p THEN p - c ELSE p - c + IndexMod
    BY <1>1, <1>3, <2>1, Distance
  <2>3. ready <= busy /\ IndexMod \in Nat \ {0}
    BY <1>1, <1>4
  <2>4. r = busy - ready
    BY <2>2, <2>3
  <2> QED BY <2>1, <2>4
<1>12. (c - c) % IndexMod = 0
  BY <1>1, Distance
<1>13. w = (clean + (busy - ready)) % NTx
  <2>1. ready + (busy - ready) <= NTx
    BY <1>1, <1>5
  <2>2. (((z + ready) % NTx) + (busy - ready)) % NTx = (z + (ready + (busy - ready))) % NTx
    BY <1>1, <1>5, <2>1, Further
  <2> QED BY <1>4, <1>5, <1>6, <2>2
<1>14. busy - ready < NTx /\ t.free_bds + ready = NTx - (busy - ready) /\ 0 <= busy - ready
  BY <1>1, <1>4, <1>5
<1>15. TxIndices(u)
  BY <1>2, <1>4, <1>9, <1>11, <1>12, <1>13, <1>14 DEF TxIndices
<1>16. \A i \in 0..(NTx - 1) : u.cb[i] \in {0, t.cb[i]}
  BY <1>7, <1>9
<1> QED BY <1>10, <1>15, <1>16 DEF u

-----------------------------------------------------------------------------
(* The steps of GENET.                                                     *)

\* What is assumed of the frames.
LEMMA FramesAre ==
  /\ \A f \in TxFrames : f.id \in Nat \ {0} /\ f.to = "peer"
  /\ \A f \in RxFrames : f.id \in Nat \ {0} /\ f.to # "peer"
  BY NetDevAssumption DEF Frame

\* Frames of either direction and the marks of an unused buffer differ.
LEMMA Kinds ==
  /\ \A f \in GenetTx : f \notin RxFrames \cup {Genet!Free, Genet!Empty, Genet!InStack}
  /\ \A f \in RxFrames : f \notin {Genet!Free, Genet!Empty, Genet!InStack}
  /\ Genet!Free # Genet!Empty /\ Genet!Free # Genet!InStack /\ Genet!Empty # Genet!InStack
  BY FramesAre, NetDevAssumption DEF Genet!Free, Genet!Empty, Genet!InStack

\* A header-only frame needs one descriptor.
LEMMA ShortDescs ==
  ASSUME HeaderOnly, NEW f \in GenetTx
  PROVE  Genet!Descs(f) = 1
<1>1. f.body = 0
  BY DEF HeaderOnly
<1>2. Genet!alloc_iobuf_headsize(64, 14) = [data |-> 14, tail |-> 64, len |-> 50, body |-> FALSE, body_len |-> 0]
  BY DEF Genet!alloc_iobuf_headsize
<1>3. PICK r : r = [data |-> 14, tail |-> 64, len |-> 50, body |-> FALSE, body_len |-> 0]
  OBVIOUS
<1>4. Genet!iobuf_push(r, 14) = [r EXCEPT !.data = 0, !.len = 64]
  <2>1. r.data = 14 /\ r.len = 50
    BY <1>3
  <2> QED BY <2>1 DEF Genet!iobuf_push
<1>5. PICK p : p = [r EXCEPT !.data = 0, !.len = 64]
  OBVIOUS
<1>6. "body" \in DOMAIN p
  BY <1>3, <1>5
<1>7. Genet!SendBuffer(f) = [p EXCEPT !.body = f.body # 0, !.body_len = f.body]
  BY <1>2, <1>3, <1>4, <1>5 DEF Genet!SendBuffer, Genet!MsgHdrSize, Genet!EtherSize
<1>8. Genet!SendBuffer(f).body = FALSE
  BY <1>1, <1>6, <1>7
<1> QED BY <1>8 DEF Genet!Descs

\* An unused buffer.
LEMMA GenetSomeFree ==
  ASSUME Genet!FreeBufs # {}
  PROVE  Genet!SomeFree \in Bufs /\ mem[Genet!SomeFree] = Genet!Free
  BY DEF Genet!SomeFree, Genet!FreeBufs

\* The buffers of the two rings stay what they are when others change.
LEMMA Apart ==
  ASSUME NEW t, NEW r, NEW m, NEW m2,
         t.cb \in [0..(NTx - 1) -> Bufs \cup {0}],
         TxBuffers(t, m), RxBuffers(r, m)
  PROVE  /\ (\A b \in Bufs : m[b] \in GenetTx => m2[b] = m[b]) => TxBuffers(t, m2)
         /\ (\A b \in Bufs : m[b] \in RxFrames \cup {Genet!Empty} => m2[b] = m[b]) => RxBuffers(r, m2)
  BY DEF TxBuffers, RxBuffers

\* A transmit ring starts empty.
LEMMA TxRingStarts ==
  ASSUME NEW t, t = Genet!init_tx_ring
  PROVE  t \in TxRings /\ TxIndices(t) /\ t.cb = [i \in 0..(NTx - 1) |-> 0]
<1>1. NTx \in Nat \ {0} /\ IndexMod \in Nat \ {0}
  BY NetDevAssumption
<1>2. t \in TxRings /\ t.prod_index = 0 /\ t.c_index = 0 /\ t.CONS = 0 /\ t.PROD = 0
      /\ t.free_bds = NTx /\ t.write_ptr = 0 /\ t.clean_ptr = 0 /\ t.cb = [i \in 0..(NTx - 1) |-> 0]
  BY <1>1 DEF Genet!init_tx_ring, TxRings
<1>3. TxIndices(t)
  <2>1. (0 - 0) % IndexMod = 0 /\ (0 + 0) % NTx = 0
    BY <1>1, ModSmall
  <2> QED BY <1>1, <1>2, <2>1 DEF TxIndices
<1> QED BY <1>2, <1>3

\* GenetInv after a step, part by part.
LEMMA GenetInvPrime ==
  ASSUME NEW t \in TxRings, NEW r \in RxRings, rings' = [tx |-> t, rx |-> r],
         mem' \in [Bufs -> Contents],
         "cmd" \in DOMAIN dev' /\ (dev'.cmd # {} => stage' = "up"),
         TxIndices(t), TxBuffers(t, mem'),
         stage' \in {"dma", "mii", "up"} => RxBuffers(r, mem')
  PROVE  GenetInv'
<1>1. rings'.tx = t /\ rings'.rx = r /\ rings' \in [tx : TxRings, rx : RxRings]
  OBVIOUS
<1>2. TxRings' = TxRings /\ RxRings' = RxRings /\ Contents' = Contents
  BY DEF TxRings, RxRings, Contents, Genet!Free, Genet!Empty, Genet!InStack
<1>3. TxIndices(rings.tx)'
  BY <1>1 DEF TxIndices
<1>4. TxBuffers(rings.tx, mem)'
  BY <1>1 DEF TxBuffers
<1>5. stage' \in {"dma", "mii", "up"} => RxBuffers(rings.rx, mem)'
  BY <1>1 DEF RxBuffers, Genet!Empty
<1> QED BY <1>1, <1>2, <1>3, <1>4, <1>5 DEF GenetInv

\* GENET starts without buffers in its rings.
LEMMA GenetStarts ==
  ASSUME Genet!Init
  PROVE  GenetInv
<1>1. NRx \in Nat \ {0} /\ IndexMod \in Nat \ {0}
  BY NetDevAssumption
<1>2. PICK t : t = Genet!init_tx_ring
  OBVIOUS
<1>3. t \in TxRings /\ TxIndices(t) /\ t.cb = [i \in 0..(NTx - 1) |-> 0]
  BY <1>2, TxRingStarts
<1>5. PICK r : r = Genet!init_rx_ring([i \in 0..(NRx - 1) |-> 0])
  OBVIOUS
<1>6. r \in RxRings
  BY <1>1, <1>5 DEF Genet!init_rx_ring, RxRings
<1>7. rings = [tx |-> t, rx |-> r]
  BY <1>2, <1>5 DEF Genet!Init
<1>8. mem \in [Bufs -> Contents] /\ stage = "dt"
  BY DEF Genet!Init, Contents
<1>9. "cmd" \in DOMAIN dev /\ dev.cmd = {}
  BY DEF Genet!Init
<1>10. TxBuffers(t, mem)
  BY <1>3 DEF TxBuffers
<1> QED BY <1>3, <1>6, <1>7, <1>8, <1>9, <1>10 DEF GenetInv

\* The steps that leave the rings and the buffers alone.
LEMMA GenetElsewhere ==
  ASSUME GenetInv, UNCHANGED <<rings, mem>>,
         "cmd" \in DOMAIN dev', dev'.cmd # {} => stage' = "up",
         stage' \in {"dma", "mii", "up"} => stage \in {"dma", "mii", "up"}
  PROVE  GenetInv'
  BY DEF GenetInv, TxIndices, TxBuffers, RxBuffers, TxRings, RxRings, Contents,
         Genet!Free, Genet!Empty, Genet!InStack

\* The start up to the rings.
LEMMA GenetStartStep ==
  ASSUME GenetInv, Genet!Start
  PROVE  GenetInv'
<1>1. "cmd" \in DOMAIN dev /\ (dev.cmd # {} => stage = "up")
  BY DEF GenetInv
<1>2. CASE Genet!init_umac
  BY <1>1, <1>2, GenetElsewhere DEF Genet!init_umac, Genet!Starting
<1>3. CASE Genet!mii_probe
  BY <1>1, <1>3, GenetElsewhere DEF Genet!mii_probe, Genet!Starting
<1>4. CASE Genet!netif_start
  BY <1>1, <1>4, GenetElsewhere DEF Genet!netif_start, Genet!Starting
<1>5. CASE Genet!init_dma /\ stage' # "dma"
  BY <1>1, <1>5, GenetElsewhere DEF Genet!init_dma, Genet!Starting
<1>6. CASE Genet!init_dma /\ stage' = "dma"
  <2> DEFINE cbs == [i \in 0..(NRx - 1) |-> i + 1]
  <2>1. PICK t, r : t = Genet!init_tx_ring /\ r = Genet!init_rx_ring(cbs)
    OBVIOUS
  <2>2. /\ stage = "umac" /\ stage' = "dma" /\ dev' = [dev EXCEPT !.dma = TRUE]
        /\ rings' = [tx |-> t, rx |-> r]
        /\ mem' = [b \in Bufs |-> IF b <= NRx THEN Genet!Empty ELSE Genet!Free]
    BY <1>6, <2>1 DEF Genet!init_dma, Genet!Starting
  <2>3. t \in TxRings /\ TxIndices(t) /\ t.cb = [i \in 0..(NTx - 1) |-> 0]
    BY <2>1, TxRingStarts
  <2>4. NRx \in Nat \ {0} /\ 1..NRx \subseteq Bufs /\ IndexMod \in Nat \ {0}
    BY NetDevAssumption
  <2>5. cbs \in [0..(NRx - 1) -> Bufs \cup {0}] /\ r.cb = cbs
    BY <2>1, <2>4 DEF Genet!init_rx_ring
  <2>6. r \in RxRings
    <3> HIDE DEF cbs
    <3> QED BY <2>1, <2>4, <2>5 DEF Genet!init_rx_ring, RxRings
  <2>7. mem' \in [Bufs -> Contents]
    BY <2>2 DEF Contents
  <2>8. TxBuffers(t, mem')
    BY <2>3 DEF TxBuffers
  <2>9. RxBuffers(r, mem')
    BY <2>2, <2>4, <2>5 DEF RxBuffers
  <2>10. "cmd" \in DOMAIN dev' /\ dev'.cmd = {}
    BY <1>1, <2>2
  <2> HIDE DEF cbs
  <2> QED BY <2>2, <2>3, <2>6, <2>7, <2>8, <2>9, <2>10, GenetInvPrime
<1> QED BY <1>2, <1>3, <1>4, <1>5, <1>6 DEF Genet!Start

\* A frame is queued, or dropped for want of room.
LEMMA GenetXmit ==
  ASSUME HeaderOnly, GenetInv, NEW f \in GenetTx, Genet!bcmgenet_xmit(f)
  PROVE  GenetInv'
<1>1. PICK b : b = Genet!SomeFree
  OBVIOUS
<1>2. b \in Bufs /\ mem[b] = Genet!Free
  BY <1>1, GenetSomeFree DEF Genet!bcmgenet_xmit
<1>3. PICK t, r : t = rings.tx /\ r = rings.rx
  OBVIOUS
<1>4. /\ t \in TxRings /\ r \in RxRings /\ rings = [tx |-> t, rx |-> r]
      /\ mem \in [Bufs -> Contents] /\ "cmd" \in DOMAIN dev
      /\ TxIndices(t) /\ TxBuffers(t, mem) /\ stage = "up" /\ RxBuffers(r, mem)
  BY <1>3 DEF GenetInv, Genet!bcmgenet_xmit, Genet!Running
<1>5. stage' = "up" /\ mem' = [mem EXCEPT ![b] = f] /\ dev' = [dev EXCEPT !.ntx = @ + 1]
  BY <1>1, <1>4 DEF Genet!bcmgenet_xmit
<1>6. mem' \in [Bufs -> Contents] /\ \A c \in Bufs : mem[c] # Genet!Free => mem'[c] = mem[c]
  BY <1>2, <1>4, <1>5 DEF Contents
<1>7. "cmd" \in DOMAIN dev'
  BY <1>4, <1>5
<1>8. t.cb \in [0..(NTx - 1) -> Bufs \cup {0}]
  BY <1>4 DEF TxRings
<1>9. TxBuffers(t, mem') /\ RxBuffers(r, mem')
  BY <1>4, <1>6, <1>8, Kinds, Apart
<1>10. CASE t.free_bds < 2
  <2>1. rings' = [tx |-> t, rx |-> r]
    BY <1>3, <1>4, <1>10 DEF Genet!bcmgenet_xmit
  <2> QED BY <1>4, <1>5, <1>6, <1>7, <1>9, <2>1, GenetInvPrime
<1>11. CASE ~(t.free_bds < 2)
  <2>1. /\ NTx \in Nat \ {0} /\ IndexMod \in Nat \ {0}
        /\ t.write_ptr \in 0..(NTx - 1) /\ t.prod_index \in 0..(IndexMod - 1) /\ t.free_bds \in Int
        /\ t.eop \in [0..(NTx - 1) -> BOOLEAN]
    BY <1>4, NetDevAssumption DEF TxRings
  <2>2. PICK w \in 0..(NTx - 1), p \in 0..(IndexMod - 1) :
           w = (t.write_ptr + 1) % NTx /\ p = (t.prod_index + 1) % IndexMod
    BY <2>1, Next1
  <2>3. PICK s : s = {Genet!TxSlot(t, k) : k \in 0..0}
    OBVIOUS
  <2>4. PICK cb \in [0..(NTx - 1) -> Bufs \cup {0}] :
          cb = [i \in DOMAIN t.cb |-> IF i \in s THEN b ELSE t.cb[i]]
    BY <1>2, <1>8
  <2>5. PICK eop \in [0..(NTx - 1) -> BOOLEAN] :
          eop = [i \in DOMAIN t.eop |-> IF i \in s THEN i = Genet!TxSlot(t, 0) ELSE t.eop[i]]
    BY <2>1
  <2> DEFINE u == [t EXCEPT !.cb = cb, !.eop = eop, !.write_ptr = w, !.free_bds = @ - 1,
                            !.prod_index = p, !.PROD = p]
  <2>6. rings' = [tx |-> u, rx |-> r]
    <3>1. Genet!Descs(f) = 1
      BY ShortDescs
    <3>2. 1 - 1 = 0
      OBVIOUS
    <3> QED BY <1>1, <1>3, <1>4, <1>11, <2>2, <2>3, <2>4, <2>5, <3>1, <3>2 DEF Genet!bcmgenet_xmit
  <2>7. u \in TxRings /\ u.write_ptr = w /\ u.free_bds = t.free_bds - 1 /\ u.prod_index = p
        /\ u.PROD = p /\ u.c_index = t.c_index /\ u.CONS = t.CONS /\ u.clean_ptr = t.clean_ptr
        /\ u.cb = cb
    <3>1. PICK v \in Int : v = t.free_bds - 1
      BY <2>1
    <3>2. PICK x : x = [t EXCEPT !.cb = cb, !.eop = eop, !.write_ptr = w, !.free_bds = v,
                                 !.prod_index = p, !.PROD = p]
      OBVIOUS
    <3>3. x \in TxRings
      BY <1>4, <3>2 DEF TxRings
    <3>4. /\ x.write_ptr = w /\ x.free_bds = v /\ x.prod_index = p
          /\ x.PROD = p /\ x.c_index = t.c_index /\ x.CONS = t.CONS /\ x.clean_ptr = t.clean_ptr
          /\ x.cb = cb
      BY <1>4, <3>2 DEF TxRings
    <3> QED BY <3>1, <3>2, <3>3, <3>4
  <2> HIDE DEF u
  <2>8. TxIndices(u)
    <3>1. t.free_bds >= 2
      BY <1>11, <2>1
    <3> QED BY <1>4, <2>2, <2>7, <3>1, TxQueued
  <2>9. TxBuffers(u, mem')
    <3>1. mem'[b] = f
      BY <1>2, <1>4, <1>5
    <3>2. PICK slot : slot = Genet!TxSlot(t, 0)
      OBVIOUS
    <3>3. s = {slot}
      <4>1. 0..0 = {0}
        OBVIOUS
      <4> QED BY <2>3, <3>2, <4>1
    <3>4. \A i \in 0..(NTx - 1) : u.cb[i] = IF i = slot THEN b ELSE t.cb[i]
      BY <1>8, <2>4, <2>7, <3>3
    <3>5. \A i \in 0..(NTx - 1) : t.cb[i] # b
      <4>1. \A i \in 0..(NTx - 1) : t.cb[i] # 0 => mem[t.cb[i]] \in GenetTx
        BY <1>4 DEF TxBuffers
      <4>2. 0 \notin Bufs
        BY NetDevAssumption
      <4> QED BY <1>2, <4>1, <4>2, Kinds
    <3> QED BY <1>9, <3>1, <3>4, <3>5 DEF TxBuffers
  <2> QED BY <1>4, <1>5, <1>6, <1>7, <1>9, <2>6, <2>7, <2>8, <2>9, GenetInvPrime
<1> QED BY <1>10, <1>11

\* The control blocks the hardware is done with are cleared, their buffers freed.
LEMMA GenetReclaim ==
  ASSUME GenetInv, Genet!Reclaim
  PROVE  GenetInv'
<1>1. PICK t, r, u : t = rings.tx /\ r = rings.rx /\ u = Genet!tx_reclaim(t)
  OBVIOUS
<1>2. /\ t \in TxRings /\ r \in RxRings /\ rings = [tx |-> t, rx |-> r]
      /\ mem \in [Bufs -> Contents] /\ "cmd" \in DOMAIN dev
      /\ TxIndices(t) /\ TxBuffers(t, mem) /\ stage = "up" /\ RxBuffers(r, mem)
      /\ t.cb \in [0..(NTx - 1) -> Bufs \cup {0}]
  BY <1>1 DEF GenetInv, Genet!Reclaim, Genet!Running, TxRings
<1>3. PICK freed : freed = Genet!Reclaimed(t)
  OBVIOUS
<1>4. /\ stage' = "up" /\ dev' = dev /\ rings' = [tx |-> u, rx |-> r]
      /\ mem' = [b \in Bufs |-> IF b \in freed THEN Genet!Free ELSE mem[b]]
  BY <1>1, <1>2, <1>3 DEF Genet!Reclaim
<1>5. u \in TxRings /\ TxIndices(u) /\ \A i \in 0..(NTx - 1) : u.cb[i] \in {0, t.cb[i]}
  BY <1>1, <1>2, TxReclaimed
<1>6. u.cb \in [0..(NTx - 1) -> Bufs \cup {0}]
  BY <1>5 DEF TxRings
<1>7. freed = {t.cb[i] : i \in {j \in 0..(NTx - 1) : u.cb[j] = 0}} \ {0}
  BY <1>1, <1>2, <1>3, <1>6 DEF Genet!Reclaimed
<1>8. mem' \in [Bufs -> Contents]
  BY <1>2, <1>4 DEF Contents
<1>9. TxBuffers(u, mem')
  <2> SUFFICES ASSUME NEW i \in 0..(NTx - 1), u.cb[i] # 0
               PROVE  /\ mem'[u.cb[i]] \in GenetTx
                      /\ \A j \in (0..(NTx - 1)) \ {i} : u.cb[j] # u.cb[i]
    BY DEF TxBuffers
  <2>1. u.cb[i] = t.cb[i] /\ t.cb[i] \in Bufs
    BY <1>2, <1>5
  <2>2. mem[t.cb[i]] \in GenetTx /\ \A j \in (0..(NTx - 1)) \ {i} : t.cb[j] # t.cb[i]
    BY <1>2, <2>1 DEF TxBuffers
  <2>3. t.cb[i] \notin freed
    BY <1>7, <2>1, <2>2
  <2> QED BY <1>2, <1>4, <1>5, <2>1, <2>2, <2>3
<1>10. \A b \in Bufs : b \in freed => mem[b] \in GenetTx
  <2>1. 0 \notin Bufs
    BY NetDevAssumption
  <2> QED BY <1>2, <1>7, <2>1 DEF TxBuffers
<1>11. RxBuffers(r, mem')
  <2>1. \A b \in Bufs : mem[b] \in RxFrames \cup {Genet!Empty} => mem'[b] = mem[b]
    BY <1>4, <1>10, Kinds
  <2> QED BY <1>2, <2>1, Apart
<1> QED BY <1>2, <1>4, <1>5, <1>8, <1>9, <1>11, GenetInvPrime

\* The message layer frees a buffer of its own.
LEMMA GenetMsgFree ==
  ASSUME GenetInv, NEW b \in Bufs, Genet!MsgFree(b)
  PROVE  GenetInv'
<1>1. PICK t, r : t = rings.tx /\ r = rings.rx
  OBVIOUS
<1>2. /\ t \in TxRings /\ r \in RxRings /\ rings = [tx |-> t, rx |-> r]
      /\ mem \in [Bufs -> Contents] /\ "cmd" \in DOMAIN dev
      /\ TxIndices(t) /\ TxBuffers(t, mem) /\ stage = "up" /\ RxBuffers(r, mem)
      /\ t.cb \in [0..(NTx - 1) -> Bufs \cup {0}]
  BY <1>1 DEF GenetInv, Genet!MsgFree, Genet!Running, TxRings
<1>3. /\ stage' = "up" /\ dev' = dev /\ rings' = [tx |-> t, rx |-> r]
      /\ mem' = [mem EXCEPT ![b] = Genet!Free] /\ mem[b] = Genet!InStack
  BY <1>2 DEF Genet!MsgFree
<1>4. mem' \in [Bufs -> Contents] /\ \A c \in Bufs : mem[c] # Genet!InStack => mem'[c] = mem[c]
  BY <1>2, <1>3 DEF Contents
<1>5. \A c \in Bufs : mem[c] \in GenetTx \cup RxFrames \cup {Genet!Empty} => mem'[c] = mem[c]
  BY <1>4, Kinds
<1>6. TxBuffers(t, mem') /\ RxBuffers(r, mem')
  BY <1>2, <1>5, Apart
<1> QED BY <1>2, <1>3, <1>4, <1>6, GenetInvPrime

\* The count of discarded frames is a matter of its own.
LEMMA CountsDiscards ==
  ASSUME NEW r \in RxRings, NEW c, c = Genet!CountDiscards(r)
  PROVE  c \in RxRings /\ c.cb = r.cb /\ c.read_ptr = r.read_ptr /\ c.c_index = r.c_index
         /\ c.PROD = r.PROD
  BY DEF Genet!CountDiscards, RxRings

\* A packet is taken from the ring and an unused buffer takes its place;
\* without memory the buffer stays and the packet is dropped.
LEMMA GenetRxintr ==
  ASSUME GenetInv, Genet!bcmgenet_rxintr
  PROVE  GenetInv'
<1>1. PICK t, r, c : t = rings.tx /\ r = rings.rx /\ c = Genet!CountDiscards(rings.rx)
  OBVIOUS
<1>2. /\ t \in TxRings /\ r \in RxRings /\ rings = [tx |-> t, rx |-> r]
      /\ mem \in [Bufs -> Contents] /\ "cmd" \in DOMAIN dev
      /\ TxIndices(t) /\ TxBuffers(t, mem) /\ stage = "up" /\ RxBuffers(r, mem)
      /\ t.cb \in [0..(NTx - 1) -> Bufs \cup {0}]
  BY <1>1 DEF GenetInv, Genet!bcmgenet_rxintr, Genet!Running, TxRings
<1>3. /\ c \in RxRings /\ c.cb = r.cb /\ c.read_ptr \in 0..(NRx - 1) /\ c.c_index \in 0..(IndexMod - 1)
      /\ r.cb \in [0..(NRx - 1) -> Bufs \cup {0}]
  BY <1>1, <1>2, CountsDiscards DEF RxRings
<1>4. RxBuffers(c, mem)
  BY <1>2, <1>3 DEF RxBuffers
<1>5. PICK b : b = c.cb[c.read_ptr]
  OBVIOUS
<1>6. b \in Bufs /\ mem[b] \in RxFrames \cup {Genet!Empty}
  BY <1>3, <1>4, <1>5 DEF RxBuffers
<1>7. PICK new : new = Genet!rx_refill(b)
  OBVIOUS
<1>8. new \in Bufs /\ (new = b \/ mem[new] = Genet!Free)
  BY <1>6, <1>7, GenetSomeFree DEF Genet!rx_refill
<1>9. stage' = "up" /\ dev' = dev
  BY <1>2 DEF Genet!bcmgenet_rxintr
<1>10. CASE c.PROD = c.c_index
  <2>1. rings' = [tx |-> t, rx |-> c] /\ mem' = mem
    BY <1>1, <1>2, <1>10 DEF Genet!bcmgenet_rxintr
  <2> QED BY <1>2, <1>3, <1>4, <1>9, <2>1, GenetInvPrime
<1>11. CASE c.PROD # c.c_index
  <2>1. PICK p \in 0..(NRx - 1), q \in 0..(IndexMod - 1) :
           p = (c.read_ptr + 1) % NRx /\ q = (c.c_index + 1) % IndexMod
    <3>1. NRx \in Nat \ {0} /\ IndexMod \in Nat \ {0}
      BY NetDevAssumption
    <3>2. (c.read_ptr + 1) % NRx \in 0..(NRx - 1)
      BY <1>3, <3>1, Next1
    <3>3. (c.c_index + 1) % IndexMod \in 0..(IndexMod - 1)
      BY <1>3, <3>1, Next1
    <3> QED BY <3>2, <3>3
  <2>2. PICK d : d = [c EXCEPT !.cb = [@ EXCEPT ![c.read_ptr] = new], !.read_ptr = p, !.c_index = q,
                               !.CONS = q]
    OBVIOUS
  <2>3. rings' = [tx |-> t, rx |-> d]
    BY <1>1, <1>2, <1>5, <1>7, <1>11, <2>1, <2>2 DEF Genet!bcmgenet_rxintr
  <2>4. d \in RxRings /\ d.cb = [r.cb EXCEPT ![c.read_ptr] = new]
    BY <1>3, <1>8, <2>2 DEF RxRings
  <2>5. PICK g \in {Genet!InStack, Genet!Free} :
           mem' = IF new = b THEN [mem EXCEPT ![b] = Genet!Empty]
                  ELSE [mem EXCEPT ![new] = Genet!Empty, ![b] = g]
    BY <1>1, <1>5, <1>7, <1>11 DEF Genet!bcmgenet_rxintr
  <2>6. mem' \in [Bufs -> Contents]
    BY <1>2, <1>6, <1>8, <2>5 DEF Contents
  <2>7. /\ mem'[new] = Genet!Empty
        /\ \A x \in Bufs \ {b, new} : mem'[x] = mem[x]
    BY <1>2, <1>6, <1>8, <2>5
  <2>8. mem[new] \notin GenetTx /\ mem[b] \notin GenetTx
    BY <1>6, <1>8, Kinds
  <2>9. \A x \in Bufs : mem[x] \in GenetTx => mem'[x] = mem[x]
    BY <2>7, <2>8
  <2>10. TxBuffers(t, mem')
    BY <1>2, <2>9, Apart
  <2>11. \A i \in 0..(NRx - 1) : d.cb[i] = IF i = c.read_ptr THEN new ELSE r.cb[i]
    BY <1>3, <2>4
  <2>12. \A i \in (0..(NRx - 1)) \ {c.read_ptr} : r.cb[i] \notin {b, new} /\ r.cb[i] \in Bufs
                                                  /\ mem[r.cb[i]] \in RxFrames \cup {Genet!Empty}
    BY <1>3, <1>4, <1>5, <1>8, Kinds DEF RxBuffers
  <2>13. RxBuffers(d, mem')
    <3>1. ASSUME NEW i \in 0..(NRx - 1)
          PROVE  d.cb[i] \in Bufs /\ mem'[d.cb[i]] \in RxFrames \cup {Genet!Empty}
      BY <1>8, <2>7, <2>11, <2>12
    <3>2. ASSUME NEW i \in 0..(NRx - 1), NEW j \in (0..(NRx - 1)) \ {i}
          PROVE  d.cb[j] # d.cb[i]
      BY <1>3, <1>4, <2>11, <2>12 DEF RxBuffers
    <3> QED BY <3>1, <3>2 DEF RxBuffers
  <2> QED BY <1>2, <1>9, <2>3, <2>4, <2>6, <2>10, <2>13, GenetInvPrime
<1> QED BY <1>10, <1>11

\* The hardware reads a descriptor.
LEMMA GenetTransmit ==
  ASSUME GenetInv, Genet!DevTransmit
  PROVE  GenetInv'
<1>1. PICK t, r : t = rings.tx /\ r = rings.rx
  OBVIOUS
<1>2. /\ t \in TxRings /\ r \in RxRings /\ rings = [tx |-> t, rx |-> r]
      /\ mem \in [Bufs -> Contents] /\ "cmd" \in DOMAIN dev
      /\ TxIndices(t) /\ TxBuffers(t, mem) /\ stage = "up" /\ RxBuffers(r, mem)
  BY <1>1 DEF GenetInv, Genet!DevTransmit
<1>3. PICK u : u = [t EXCEPT !.CONS = (@ + 1) % IndexMod]
  OBVIOUS
<1>4. stage' = "up" /\ mem' = mem /\ rings' = [tx |-> u, rx |-> r] /\ t.CONS # t.PROD
  BY <1>1, <1>2, <1>3 DEF Genet!DevTransmit
<1>5. "cmd" \in DOMAIN dev'
  BY <1>2 DEF Genet!DevTransmit
<1>6. u \in TxRings /\ TxIndices(u)
  BY <1>2, <1>3, <1>4, TxConsumed
<1>7. TxBuffers(u, mem)
  <2>1. u.cb = t.cb
    BY <1>2, <1>3 DEF TxRings
  <2> QED BY <1>2, <2>1 DEF TxBuffers
<1> QED BY <1>2, <1>4, <1>5, <1>6, <1>7, GenetInvPrime

\* The hardware fills a receive buffer, or counts the frame it has no buffer for.
LEMMA GenetReceive ==
  ASSUME GenetInv, NEW f \in RxFrames, Genet!DevReceive(f)
  PROVE  GenetInv'
<1>1. PICK t, r : t = rings.tx /\ r = rings.rx
  OBVIOUS
<1>2. /\ t \in TxRings /\ r \in RxRings /\ rings = [tx |-> t, rx |-> r]
      /\ mem \in [Bufs -> Contents] /\ "cmd" \in DOMAIN dev
      /\ TxIndices(t) /\ TxBuffers(t, mem) /\ stage = "up" /\ RxBuffers(r, mem)
      /\ t.cb \in [0..(NTx - 1) -> Bufs \cup {0}]
  BY <1>1 DEF GenetInv, Genet!DevReceive, TxRings
<1>3. stage' = "up" /\ dev' = [dev EXCEPT !.nrx = @ + 1]
  BY <1>2 DEF Genet!DevReceive
<1>4. "cmd" \in DOMAIN dev'
  BY <1>2, <1>3
<1>5. /\ NRx \in Nat \ {0} /\ IndexMod \in Nat \ {0} /\ r.PROD \in 0..(IndexMod - 1)
      /\ r.discards \in Nat
  BY <1>2, NetDevAssumption DEF RxRings
<1>6. PICK p \in 0..(IndexMod - 1), i \in 0..(NRx - 1) : p = (r.PROD + 1) % IndexMod /\ i = r.PROD % NRx
  <2>1. (r.PROD + 1) % IndexMod \in 0..(IndexMod - 1)
    BY <1>5, Next1
  <2>2. r.PROD \in Int
    BY <1>5
  <2>3. r.PROD % NRx \in 0..(NRx - 1)
    BY <1>5, <2>2, ModSmall
  <2> QED BY <2>1, <2>3
<1>7. CASE (r.PROD - r.CONS) % IndexMod = NRx
  <2>1. PICK d : d = [r EXCEPT !.discards = @ + 1]
    OBVIOUS
  <2>2. rings' = [tx |-> t, rx |-> d] /\ mem' = mem
    BY <1>1, <1>2, <1>7, <2>1 DEF Genet!DevReceive
  <2>3. d \in RxRings /\ d.cb = r.cb
    BY <1>2, <2>1 DEF RxRings
  <2>4. RxBuffers(d, mem)
    BY <1>2, <2>3 DEF RxBuffers
  <2> QED BY <1>2, <1>3, <1>4, <2>2, <2>3, <2>4, GenetInvPrime
<1>8. CASE (r.PROD - r.CONS) % IndexMod # NRx
  <2>1. PICK d : d = [r EXCEPT !.PROD = p]
    OBVIOUS
  <2>2. rings' = [tx |-> t, rx |-> d] /\ mem' = [mem EXCEPT ![r.cb[i]] = f]
    BY <1>1, <1>2, <1>6, <1>8, <2>1 DEF Genet!DevReceive
  <2>3. d \in RxRings /\ d.cb = r.cb
    BY <1>2, <2>1 DEF RxRings
  <2>4. r.cb[i] \in Bufs /\ mem[r.cb[i]] \in RxFrames \cup {Genet!Empty}
    BY <1>2 DEF RxBuffers
  <2>5. mem' \in [Bufs -> Contents] /\ mem'[r.cb[i]] = f
        /\ \A x \in Bufs \ {r.cb[i]} : mem'[x] = mem[x]
    BY <1>2, <2>2, <2>4 DEF Contents
  <2>6. RxBuffers(d, mem')
    BY <1>2, <2>3, <2>5 DEF RxBuffers
  <2>7. \A x \in Bufs : mem[x] \in GenetTx => mem'[x] = mem[x]
    BY <2>4, <2>5, Kinds
  <2>8. TxBuffers(t, mem')
    BY <1>2, <2>7, Apart
  <2> QED BY <1>2, <1>3, <1>4, <2>2, <2>3, <2>5, <2>6, <2>8, GenetInvPrime
<1> QED BY <1>7, <1>8

\* Every step of GENET keeps its rings accounted for.
LEMMA GenetKeeps ==
  ASSUME HeaderOnly, GenetInv, Genet!Next
  PROVE  GenetInv'
<1>1. CASE Genet!Start
  BY <1>1, GenetStartStep
<1>2. CASE \E f \in GenetTx : Genet!bcmgenet_xmit(f)
  BY <1>2, GenetXmit
<1>3. CASE Genet!bcmgenet_intr_irq0 \/ Genet!bcmgenet_intr_irq1
  <2>1. "cmd" \in DOMAIN dev /\ (dev.cmd # {} => stage = "up")
    BY DEF GenetInv
  <2>2. UNCHANGED <<rings, mem, dev, stage>>
    BY <1>3 DEF Genet!bcmgenet_intr_irq0, Genet!bcmgenet_intr_irq1
  <2> QED BY <2>1, <2>2, GenetElsewhere
<1>4. CASE Genet!Reclaim
  BY <1>4, GenetReclaim
<1>5. CASE Genet!bcmgenet_rxintr
  BY <1>5, GenetRxintr
<1>6. CASE Genet!DevTransmit
  BY <1>6, GenetTransmit
<1>7. CASE \E f \in RxFrames : Genet!DevReceive(f)
  BY <1>7, GenetReceive
<1>8. CASE \E b \in Bufs : Genet!MsgFree(b)
  BY <1>8, GenetMsgFree
<1> QED BY <1>1, <1>2, <1>3, <1>4, <1>5, <1>6, <1>7, <1>8 DEF Genet!Next, Genet!Handler

\* What the invariant says of the rings.
LEMMA GenetRings ==
  ASSUME GenetInv
  PROVE  Genet!RingsAccounted
  BY DEF GenetInv, Genet!RingsAccounted, Genet!TxBusy, TxIndices, TxBuffers, RxBuffers

-----------------------------------------------------------------------------
(* Virtqueues.                                                             *)

\* The values a virtqueue can have.
Lens == {0} \cup {Virtio!VnetHdrSize + Virtio!FrameLen(f) : f \in RxFrames}

Results == [id : Virtio!Idx, len : Lens]

Descriptors == [buf : Bufs \cup {0}, more : BOOLEAN, next : Virtio!Idx \cup {Virtio!Nil}]

Queues ==
  [desc : [Virtio!Idx -> Descriptors],
   free_head : Virtio!Idx \cup {Virtio!Nil}, last_used_idx : 0..(IndexMod - 1),
   xdata : [Virtio!Idx -> Bufs \cup {0}],
   avail : [Virtio!Idx -> Virtio!Idx], avail_idx : 0..(IndexMod - 1),
   used : [Virtio!Idx -> Results], used_idx : 0..(IndexMod - 1)]

\* The free list is the first nf entries of F.
FreeAs(q, F, nf) ==
  /\ nf \in Nat
  /\ F \in [Nat -> Virtio!Idx \cup {Virtio!Nil}]
  /\ F[0] = q.free_head /\ F[nf] = Virtio!Nil
  /\ \A k \in 0..(nf - 1) : F[k] \in Virtio!Idx /\ F[k + 1] = q.desc[F[k]].next
  /\ \A j, k \in 0..(nf - 1) : j # k => F[j] # F[k]

\* The descriptors of the chain that starts at h, and the last of them.
Second(q, h)  == q.desc[h].next
Three(q, h)   == q.desc[Second(q, h)].more
Last(q, h)    == IF Three(q, h) THEN q.desc[Second(q, h)].next ELSE Second(q, h)
Members(q, h) == {h, Second(q, h), Last(q, h)}

\* A chain has two or three descriptors and ends.
ChainAs(q, h) ==
  /\ Second(q, h) \in Virtio!Idx /\ Last(q, h) \in Virtio!Idx
  /\ q.desc[h].more /\ ~q.desc[Last(q, h)].more
  /\ h # Second(q, h) /\ h # Last(q, h) /\ (Three(q, h) => Last(q, h) # Second(q, h))

\* Every descriptor is owned by the head of its chain, or by nobody and free.
Layout(q, F, nf, own) ==
  /\ FreeAs(q, F, nf)
  /\ own \in [Virtio!Idx -> Virtio!Heads(q) \cup {Virtio!Nil}]
  /\ \A i \in Virtio!Idx : own[i] = Virtio!Nil <=> \E k \in 0..(nf - 1) : F[k] = i
  /\ \A h \in Virtio!Heads(q) :
       ChainAs(q, h) /\ \A i \in Virtio!Idx : own[i] = h <=> i \in Members(q, h)

\* The n entries of a ring from index at on are different members of S.
RingHolds(r, at, n, S) ==
  /\ n < NQueue
  /\ \A k \in 0..(n - 1) : r[(at + k) % NQueue] \in S
  /\ \A j, k \in 0..(n - 1) : j # k => r[(at + j) % NQueue] # r[(at + k) % NQueue]

UsedIds(q) == [i \in Virtio!Idx |-> q.used[i].id]

\* The device has seen the available ring up to at and works on the chains in
\* busy; P waits for the device, U for the driver, and no chain is in two places.
RingsAs(q, at, busy, P, U) ==
  /\ at \in 0..(IndexMod - 1)
  /\ P \subseteq Virtio!Heads(q) /\ U \subseteq Virtio!Heads(q) /\ busy \subseteq Virtio!Heads(q)
  /\ P \cap U = {} /\ P \cap busy = {} /\ U \cap busy = {}
  /\ RingHolds(q.avail, at, (q.avail_idx - at) % IndexMod, P)
  /\ RingHolds(UsedIds(q), q.last_used_idx, (q.used_idx - q.last_used_idx) % IndexMod, U)

QueueInv(q, at, busy) ==
  /\ q \in Queues
  /\ \E F, nf, own : Layout(q, F, nf, own)
  /\ \E P, U : RingsAs(q, at, busy, P, U)

VirtioInv ==
  /\ {"tx_at", "rx_at", "busy"} \subseteq DOMAIN dev
  /\ rings = [x \in {"tx", "rx"} |-> rings[x]]
  /\ QueueInv(rings["tx"], dev.tx_at, dev.busy)
  /\ QueueInv(rings["rx"], dev.rx_at, {})
  /\ halted # "xdata"
  /\ aux = Cardinality(Virtio!Heads(rings["rx"]))

-----------------------------------------------------------------------------
(* The free list and the chains.                                           *)

\* Two sequences that start alike and step alike, and that are alike.
StepAlike(s, f, N) == s[0] = f[0] /\ \A k \in 1..N : s[k - 1] = f[k - 1] => s[k] = f[k]
Alike(s, f, N)     == \A k \in 0..N : s[k] = f[k]

\* What a free list and what a chain are, step by step.
FreeRec(q, n, f) ==
  f = [k \in 0..n |-> IF k = 0 THEN q.free_head
                      ELSE IF f[k - 1] = Virtio!Nil THEN Virtio!Nil ELSE q.desc[f[k - 1]].next]

ChainRec(q, h, f) ==
  f = [k \in Virtio!Idx |-> IF k = 0 THEN h
                            ELSE IF q.desc[f[k - 1]].more THEN q.desc[f[k - 1]].next
                                 ELSE f[k - 1]]

\* Two sequences that start alike and step alike are the same.
LEMMA SameSteps ==
  ASSUME NEW N \in Nat, NEW s, NEW f, StepAlike(s, f, N)
  PROVE  Alike(s, f, N)
<1> USE DEF StepAlike, Alike
<1> DEFINE T == {k \in 0..N : s[k] # f[k]}
<1>1. SUFFICES ASSUME T # {} PROVE FALSE
  OBVIOUS
<1>2. PICK n \in T : \A e \in T : n <= e
  <2>1. T \subseteq Nat
    OBVIOUS
  <2> HIDE DEF T
  <2> QED BY <1>1, <2>1, LeastExists
<1>3. n \in 0..N /\ s[n] # f[n] /\ n # 0
  BY <1>2
<1>4. n \in 1..N /\ n - 1 \in 0..N /\ n - 1 < n
  BY <1>3
<1>5. s[n - 1] = f[n - 1]
  BY <1>2, <1>4
<1> QED BY <1>3, <1>4, <1>5

\* What is assumed of the size of a queue.
LEMMA IdxIs ==
  /\ NQueue \in Nat /\ NQueue >= 4 /\ NQueue - 1 \in Nat
  /\ Virtio!Idx = 0..(NQueue - 1) /\ Virtio!Nil = NQueue /\ Virtio!Nil \notin Virtio!Idx
  /\ IndexMod \in Nat \ {0} /\ NQueue \in Nat \ {0}
  BY NetDevAssumption DEF Virtio!Idx, Virtio!Nil

\* The free list is what follows it.
LEMMA FreeSlotsIs ==
  ASSUME NEW q, NEW n \in Nat, NEW f, FreeRec(q, n, f)
  PROVE  Alike(Virtio!FreeSlots(q, n), f, n)
<1> DEFINE Rec(s) == [k \in 0..n |-> IF k = 0 THEN q.free_head
                                     ELSE IF s[k - 1] = Virtio!Nil THEN Virtio!Nil
                                          ELSE q.desc[s[k - 1]].next]
<1>1. PICK s : s = Virtio!FreeSlots(q, n)
  OBVIOUS
<1>2. s = Rec(s)
  <2>1. s = CHOOSE r : r = Rec(r)
    BY <1>1 DEF Virtio!FreeSlots
  <2>2. f = Rec(f)
    BY DEF FreeRec
  <2> HIDE DEF Rec
  <2> QED BY <2>1, <2>2
<1>3. s[0] = q.free_head
      /\ \A k \in 1..n : s[k] = IF s[k - 1] = Virtio!Nil THEN Virtio!Nil ELSE q.desc[s[k - 1]].next
  <2>1. \A k \in 0..n : s[k] = Rec(s)[k]
    BY <1>2
  <2> HIDE <1>2
  <2> QED BY <2>1
<1>4. f[0] = q.free_head
      /\ \A k \in 1..n : f[k] = IF f[k - 1] = Virtio!Nil THEN Virtio!Nil ELSE q.desc[f[k - 1]].next
  <2>1. f = Rec(f)
    BY DEF FreeRec
  <2>2. \A k \in 0..n : f[k] = Rec(f)[k]
    BY <2>1
  <2> HIDE <2>1
  <2> QED BY <2>2
<1>5. StepAlike(s, f, n)
  BY <1>3, <1>4 DEF StepAlike
<1> QED BY <1>1, <1>5, SameSteps

\* A chain is what follows its head.
LEMMA ChainIs ==
  ASSUME NEW q, NEW h, NEW f, ChainRec(q, h, f)
  PROVE  Alike(Virtio!Chain(q, h), f, NQueue - 1)
<1> DEFINE Rec(s) == [k \in Virtio!Idx |-> IF k = 0 THEN h
                             ELSE IF q.desc[s[k - 1]].more THEN q.desc[s[k - 1]].next
                                  ELSE s[k - 1]]
<1>1. PICK s : s = Virtio!Chain(q, h)
  OBVIOUS
<1>2. s = Rec(s)
  <2>1. s = CHOOSE r : r = Rec(r)
    BY <1>1 DEF Virtio!Chain
  <2>2. f = Rec(f)
    BY DEF ChainRec
  <2> HIDE DEF Rec
  <2> QED BY <2>1, <2>2
<1>0. PICK n \in Nat : n = NQueue - 1 /\ Virtio!Idx = 0..n
  BY IdxIs
<1>3. s[0] = h
      /\ \A k \in 1..n : s[k] = IF q.desc[s[k - 1]].more THEN q.desc[s[k - 1]].next ELSE s[k - 1]
  <2>1. \A k \in 0..n : s[k] = Rec(s)[k]
    BY <1>2
  <2> HIDE <1>2
  <2>2. s[0] = h
    BY <1>0, <2>1
  <2>3. ASSUME NEW k \in 1..n
        PROVE  s[k] = IF q.desc[s[k - 1]].more THEN q.desc[s[k - 1]].next ELSE s[k - 1]
    <3>1. k \in 0..n /\ k # 0 /\ k \in Virtio!Idx
      BY <1>0
    <3>2. s[k] = Rec(s)[k]
      BY <2>1, <3>1
    <3> HIDE <2>1
    <3> QED BY <3>1, <3>2
  <2> QED BY <2>2, <2>3
<1>4. f[0] = h
      /\ \A k \in 1..n : f[k] = IF q.desc[f[k - 1]].more THEN q.desc[f[k - 1]].next ELSE f[k - 1]
  <2>1. f = Rec(f)
    BY DEF ChainRec
  <2>2. f[0] = h
    <3>1. f[0] = Rec(f)[0] /\ 0 \in Virtio!Idx
      BY <1>0, <2>1
    <3> HIDE <2>1
    <3> QED BY <3>1
  <2>3. ASSUME NEW k \in 1..n
        PROVE  f[k] = IF q.desc[f[k - 1]].more THEN q.desc[f[k - 1]].next ELSE f[k - 1]
    <3>1. k \in 0..n /\ k # 0 /\ k \in Virtio!Idx
      BY <1>0
    <3>2. f[k] = Rec(f)[k]
      BY <2>1
    <3> HIDE <2>1
    <3> QED BY <3>1, <3>2
  <2> QED BY <2>2, <2>3
<1>5. StepAlike(s, f, n)
  <2>1. ASSUME NEW k \in 1..n, s[k - 1] = f[k - 1] PROVE s[k] = f[k]
    <3>1. s[k] = IF q.desc[s[k - 1]].more THEN q.desc[s[k - 1]].next ELSE s[k - 1]
      BY <1>3
    <3>2. f[k] = IF q.desc[f[k - 1]].more THEN q.desc[f[k - 1]].next ELSE f[k - 1]
      BY <1>4
    <3> QED BY <2>1, <3>1, <3>2
  <2>2. s[0] = f[0]
    BY <1>3, <1>4
  <2> QED BY <2>1, <2>2 DEF StepAlike
<1>6. Alike(s, f, n)
  BY <1>5, SameSteps
<1> QED BY <1>0, <1>1, <1>6

\* A free list without a descriptor in it twice fits into the queue.
LEMMA FreeFits ==
  ASSUME NEW q, NEW F, NEW nf, FreeAs(q, F, nf)
  PROVE  nf \in 0..NQueue
<1>1. /\ nf \in Nat /\ \A k \in 0..(nf - 1) : F[k] \in Virtio!Idx
      /\ \A j, k \in 0..(nf - 1) : j # k => F[j] # F[k]
  BY DEF FreeAs
<1>2. SUFFICES ASSUME ~(nf <= NQueue) PROVE FALSE
  BY <1>1, IdxIs
<1>3. PICK S : S = 0..(nf - 1)
  OBVIOUS
<1>4. IsFiniteSet(S) /\ Cardinality(S) = nf
  BY <1>1, <1>2, <1>3, FS_Interval, IdxIs
<1>5. IsFiniteSet(Virtio!Idx) /\ Cardinality(Virtio!Idx) = NQueue
  BY FS_Interval, IdxIs
<1>6. PICK f : f = [k \in S |-> F[k]]
  OBVIOUS
<1>7. f \in [S -> Virtio!Idx]
  BY <1>1, <1>3, <1>6
<1>8. Cardinality(Virtio!Idx) < Cardinality(S)
  BY <1>1, <1>2, <1>4, <1>5, IdxIs
<1>9. \E j, k \in S : j # k /\ f[j] = f[k]
  BY <1>4, <1>5, <1>7, <1>8, FS_PigeonHole
<1> QED BY <1>1, <1>3, <1>6, <1>9

\* What virtq_enqueue and HasRoom find on the free list.
LEMMA SlotsAre ==
  ASSUME NEW q, NEW F, NEW nf, FreeAs(q, F, nf), NEW n \in Nat
  PROVE  \A k \in 0..n : Virtio!FreeSlots(q, n)[k] = IF k <= nf THEN F[k] ELSE Virtio!Nil
<1>1. /\ nf \in Nat /\ F[0] = q.free_head /\ F[nf] = Virtio!Nil
      /\ \A k \in 0..(nf - 1) : F[k] \in Virtio!Idx /\ F[k + 1] = q.desc[F[k]].next
  BY DEF FreeAs
<1>2. PICK f : f = [k \in 0..n |-> IF k <= nf THEN F[k] ELSE Virtio!Nil]
  OBVIOUS
<1>3. ASSUME NEW k \in 0..n, k # 0
      PROVE  f[k] = IF f[k - 1] = Virtio!Nil THEN Virtio!Nil ELSE q.desc[f[k - 1]].next
  <2>1. PICK j \in 0..n : j = k - 1 /\ k = j + 1 /\ j \in Nat
    BY <1>3
  <2>2. f[j] = (IF j <= nf THEN F[j] ELSE Virtio!Nil) /\ f[k] = (IF k <= nf THEN F[k] ELSE Virtio!Nil)
    BY <1>2, <2>1
  <2>3. CASE j < nf
    <3>1. k <= nf /\ j <= nf /\ j \in 0..(nf - 1)
      BY <1>1, <2>1, <2>3
    <3>2. F[j] # Virtio!Nil /\ F[k] = q.desc[F[j]].next
      BY <1>1, <2>1, <3>1, IdxIs
    <3> QED BY <2>1, <2>2, <3>1, <3>2
  <2>4. CASE ~(j < nf)
    <3>1. ~(k <= nf) /\ (j <= nf => j = nf)
      BY <1>1, <2>1, <2>4
    <3> QED BY <1>1, <2>1, <2>2, <3>1
  <2> QED BY <2>3, <2>4
<1>4. f[0] = q.free_head
  <2>1. 0 <= nf /\ 0 \in 0..n
    BY <1>1
  <2> QED BY <1>1, <1>2, <2>1
<1>5. FreeRec(q, n, f)
  <2>1. DOMAIN f = 0..n /\ f = [k \in 0..n |-> f[k]]
    BY <1>2
  <2> HIDE <1>2
  <2> QED BY <1>3, <1>4, <2>1 DEF FreeRec
<1>6. Alike(Virtio!FreeSlots(q, n), f, n)
  BY <1>5, FreeSlotsIs
<1>7. PICK s : s = Virtio!FreeSlots(q, n)
  OBVIOUS
<1>8. \A k \in 0..n : s[k] = f[k]
  BY <1>6, <1>7 DEF Alike
<1> QED BY <1>2, <1>7, <1>8

\* The free list holds the descriptors that nobody owns.
LEMMA FreeListIs ==
  ASSUME NEW q, NEW F, NEW nf, NEW own, Layout(q, F, nf, own)
  PROVE  Virtio!FreeList(q) = {i \in Virtio!Idx : own[i] = Virtio!Nil}
<1>1. FreeAs(q, F, nf) /\ \A i \in Virtio!Idx : own[i] = Virtio!Nil <=> \E k \in 0..(nf - 1) : F[k] = i
  BY DEF Layout
<1>2. nf \in 0..NQueue
  BY <1>1, FreeFits
<1>3. \A k \in 0..(nf - 1) : F[k] \in Virtio!Idx
  BY <1>1 DEF FreeAs
<1>4. F[nf] = Virtio!Nil
  BY <1>1 DEF FreeAs
<1>5. PICK s : s = Virtio!FreeSlots(q, NQueue)
  OBVIOUS
<1>6. \A k \in 0..NQueue : s[k] = IF k <= nf THEN F[k] ELSE Virtio!Nil
  BY <1>1, <1>5, IdxIs, SlotsAre
<1>7. Virtio!FreeList(q) = {s[k] : k \in 0..NQueue} \ {Virtio!Nil}
  BY <1>5 DEF Virtio!FreeList
<1>8. ASSUME NEW k \in 0..NQueue, s[k] # Virtio!Nil
      PROVE  k \in 0..(nf - 1) /\ s[k] = F[k]
  <2>1. k <= nf /\ s[k] = F[k]
    BY <1>6, <1>8
  <2>2. k # nf
    BY <1>4, <1>8, <2>1
  <2> QED BY <1>2, <2>1, <2>2
<1>9. ASSUME NEW k \in 0..(nf - 1) PROVE k \in 0..NQueue /\ s[k] = F[k] /\ s[k] # Virtio!Nil
  <2>1. k \in 0..NQueue /\ k <= nf
    BY <1>2, IdxIs
  <2>2. s[k] = F[k]
    BY <1>6, <2>1
  <2> QED BY <1>3, <2>1, <2>2, IdxIs
<1>10. ASSUME NEW i \in Virtio!FreeList(q) PROVE i \in Virtio!Idx /\ own[i] = Virtio!Nil
  <2>1. PICK k \in 0..NQueue : s[k] = i /\ i # Virtio!Nil
    BY <1>7
  <2>2. k \in 0..(nf - 1) /\ F[k] = i
    BY <1>8, <2>1
  <2> QED BY <1>1, <1>3, <2>2
<1>11. ASSUME NEW i \in Virtio!Idx, own[i] = Virtio!Nil PROVE i \in Virtio!FreeList(q)
  <2>1. PICK k \in 0..(nf - 1) : F[k] = i
    BY <1>1, <1>11
  <2> QED BY <1>7, <1>9, <2>1
<1> QED BY <1>10, <1>11

\* A chain of two or three descriptors, position by position.
LEMMA ChainHas ==
  ASSUME NEW q, NEW h \in Virtio!Idx, ChainAs(q, h)
  PROVE  /\ Virtio!ChainSet(q, h) = Members(q, h)
         /\ Virtio!Chain(q, h)[NQueue - 1] = Last(q, h)
<1>1. PICK a, b : a = Second(q, h) /\ b = Last(q, h)
  OBVIOUS
<1>2. /\ q.desc[h].more /\ q.desc[h].next = a /\ ~q.desc[b].more
      /\ IF q.desc[a].more THEN q.desc[a].next = b ELSE a = b
  BY <1>1 DEF ChainAs, Second, Last, Three
<1>3. PICK f : f = [k \in Virtio!Idx |-> IF k = 0 THEN h ELSE IF k = 1 THEN a ELSE b]
  OBVIOUS
<1>4. {0, 1, 2, NQueue - 1} \subseteq Virtio!Idx /\ NQueue - 1 \notin {0, 1}
  BY IdxIs
<1>5. f[0] = h /\ f[1] = a /\ \A k \in Virtio!Idx \ {0, 1} : f[k] = b
  BY <1>3, <1>4
<1>6. ASSUME NEW k \in Virtio!Idx, k # 0
      PROVE  f[k] = IF q.desc[f[k - 1]].more THEN q.desc[f[k - 1]].next ELSE f[k - 1]
  <2>1. k = 1 \/ k = 2 \/ k - 1 \in Virtio!Idx \ {0, 1}
    BY <1>6, IdxIs
  <2>2. CASE k = 1
    <3>1. k - 1 = 0
      BY <2>2
    <3> QED BY <1>2, <1>5, <2>2, <3>1
  <2>3. CASE k = 2
    <3>1. k - 1 = 1 /\ k \in Virtio!Idx \ {0, 1}
      BY <2>3
    <3>2. f[k - 1] = a /\ f[k] = b
      BY <1>5, <3>1
    <3> QED BY <1>2, <3>2
  <2>4. CASE k - 1 \in Virtio!Idx \ {0, 1}
    <3>1. k \in Virtio!Idx \ {0, 1}
      BY <2>4, <1>6, IdxIs
    <3>2. f[k - 1] = b /\ f[k] = b
      BY <1>5, <2>4, <3>1
    <3> QED BY <1>2, <3>2
  <2> QED BY <2>1, <2>2, <2>3, <2>4
<1>7. ChainRec(q, h, f)
  <2>1. f = [k \in Virtio!Idx |-> f[k]]
    BY <1>3
  <2>2. f[0] = h
    BY <1>5
  <2> HIDE <1>3, <1>5
  <2> QED BY <1>6, <2>1, <2>2 DEF ChainRec
<1>8. PICK s : s = Virtio!Chain(q, h)
  OBVIOUS
<1>9. \A k \in Virtio!Idx : s[k] = f[k]
  BY <1>7, <1>8, IdxIs, ChainIs DEF Alike
<1>10. Virtio!ChainSet(q, h) = {s[k] : k \in Virtio!Idx}
  BY <1>8 DEF Virtio!ChainSet
<1>11. {s[k] : k \in Virtio!Idx} = {h, a, b}
  BY <1>4, <1>5, <1>9
<1> QED BY <1>1, <1>4, <1>5, <1>8, <1>9, <1>10, <1>11 DEF Members

\* Every descriptor is free or part of one chain.
LEMMA LayoutAccounts ==
  ASSUME NEW q, NEW F, NEW nf, NEW own, Layout(q, F, nf, own)
  PROVE  /\ Virtio!FreeList(q) \cup UNION {Virtio!ChainSet(q, h) : h \in Virtio!Heads(q)} = Virtio!Idx
         /\ \A h \in Virtio!Heads(q) :
              /\ Virtio!ChainSet(q, h) \cap Virtio!FreeList(q) = {}
              /\ \A g \in Virtio!Heads(q) \ {h} : Virtio!ChainSet(q, h) \cap Virtio!ChainSet(q, g) = {}
<1>1. PICK I, H, N : I = Virtio!Idx /\ H = Virtio!Heads(q) /\ N = Virtio!Nil
  OBVIOUS
<1>2. H \subseteq I /\ N \notin I
  BY <1>1, IdxIs DEF Virtio!Heads
<1>3. Virtio!FreeList(q) = {i \in I : own[i] = N}
  BY <1>1, FreeListIs
<1>4. ASSUME NEW h \in H
      PROVE  Virtio!ChainSet(q, h) = {i \in I : own[i] = h}
  <2>1. ChainAs(q, h) /\ \A i \in I : own[i] = h <=> i \in Members(q, h)
    BY <1>1 DEF Layout
  <2>2. Members(q, h) \subseteq I
    BY <1>1, <1>2, <2>1 DEF Members, ChainAs
  <2> QED BY <1>1, <1>2, <2>1, <2>2, ChainHas
<1>5. own \in [I -> H \cup {N}]
  BY <1>1 DEF Layout
<1> QED BY <1>1, <1>2, <1>3, <1>4, <1>5

-----------------------------------------------------------------------------
(* The rings of a queue.                                                   *)

\* The place of an index in a ring does not depend on whether the index wraps.
LEMMA SlotWrap ==
  ASSUME NEW x \in Nat, NEW k \in Nat
  PROVE  ((x % IndexMod) + k) % NQueue = (x + k) % NQueue
<1>1. PICK N \in Nat \ {0}, M \in Nat \ {0} : N = NQueue /\ M = IndexMod /\ M % N = 0
  BY NetDevAssumption
<1>2. PICK m \in Nat, r \in 0..(N - 1) : M = N * m + r
  BY <1>1, DivIs
<1>3. (N * m + r) % N = r
  BY ModIs
<1>4. r = 0
  BY <1>1, <1>2, <1>3
<1>5. PICK e \in Nat, y \in 0..(M - 1) : x = M * e + y
  BY DivIs
<1>6. x % M = y
  BY <1>5, ModIs
<1>7. PICK p \in Nat : p = m * e
  OBVIOUS
<1>8. N * m \in Nat /\ N * p \in Nat /\ (N * m) * e = N * p
  BY <1>7
<1>9. M = N * m
  BY <1>2, <1>4, <1>8
<1>10. M * e = N * p
  BY <1>8, <1>9
<1>11. x + k = (y + k) + N * p
  BY <1>5, <1>8, <1>10
<1>12. ((y + k) + N * p) % N = (y + k) % N
  <2>1. y + k \in Nat
    OBVIOUS
  <2> QED BY <2>1, ModPlus
<1> QED BY <1>1, <1>6, <1>11, <1>12

\* A ring has a slot for every index.
LEMMA SlotIs ==
  ASSUME NEW x \in Nat
  PROVE  x % NQueue \in Virtio!Idx
  BY IdxIs, ModSmall

\* An entry is added behind the others.
LEMMA RingPut ==
  ASSUME NEW r, NEW at \in Nat, NEW n \in Nat, NEW S, NEW x, RingHolds(r, at, n, S),
         n + 1 < NQueue, x \notin S, NEW r2,
         r2 = [i \in Virtio!Idx |-> IF i = (at + n) % NQueue THEN x ELSE r[i]]
  PROVE  RingHolds(r2, at, n + 1, S \cup {x})
<1>1. /\ \A k \in 0..(n - 1) : r[(at + k) % NQueue] \in S
      /\ \A j, k \in 0..(n - 1) : j # k => r[(at + j) % NQueue] # r[(at + k) % NQueue]
  BY DEF RingHolds
<1>2. PICK e \in [0..n -> Virtio!Idx] : e = [k \in 0..n |-> (at + k) % NQueue]
  <2>1. ASSUME NEW k \in 0..n PROVE (at + k) % NQueue \in Virtio!Idx
    <3>1. at + k \in Nat
      OBVIOUS
    <3> QED BY <3>1, SlotIs
  <2> QED BY <2>1
<1>3. ASSUME NEW k \in 0..(n - 1) PROVE e[k] # e[n]
  <2>1. at + k \in Nat /\ at + n \in Nat /\ at + k < at + n /\ at + n < at + k + NQueue
    BY IdxIs
  <2>2. (at + k) % NQueue # (at + n) % NQueue
    BY <2>1, ModDiffer, IdxIs
  <2> QED BY <1>2, <2>2
<1>4. r2[e[n]] = x /\ \A k \in 0..(n - 1) : r2[e[k]] = r[e[k]]
  <2>1. e[n] = (at + n) % NQueue /\ e[n] \in Virtio!Idx
    BY <1>2
  <2>2. r2[e[n]] = x
    BY <2>1
  <2>3. ASSUME NEW k \in 0..(n - 1) PROVE r2[e[k]] = r[e[k]]
    <3>1. k \in 0..n
      OBVIOUS
    <3>2. e[k] \in Virtio!Idx /\ e[k] # e[n]
      BY <1>3, <3>1
    <3> QED BY <2>1, <3>2
  <2> QED BY <2>2, <2>3
<1>9. /\ \A k \in 0..(n - 1) : r[e[k]] \in S
      /\ \A j, k \in 0..(n - 1) : j # k => r[e[j]] # r[e[k]]
  <2>1. \A k \in 0..(n - 1) : e[k] = (at + k) % NQueue
    BY <1>2
  <2>2. \A k \in 0..(n - 1) : r[e[k]] \in S
    BY <1>1, <2>1
  <2>3. ASSUME NEW j \in 0..(n - 1), NEW k \in 0..(n - 1), j # k PROVE r[e[j]] # r[e[k]]
    <3>1. e[j] = (at + j) % NQueue /\ e[k] = (at + k) % NQueue
      BY <2>1
    <3>2. r[(at + j) % NQueue] # r[(at + k) % NQueue]
      BY <1>1, <2>3
    <3> QED BY <3>1, <3>2
  <2> QED BY <2>2, <2>3
<1>5. ASSUME NEW k \in 0..n PROVE r2[e[k]] \in S \cup {x}
  <2>1. k = n \/ k \in 0..(n - 1)
    OBVIOUS
  <2> QED BY <1>4, <1>9, <2>1
<1>6. ASSUME NEW j \in 0..n, NEW k \in 0..n, j # k PROVE r2[e[j]] # r2[e[k]]
  <2>1. \A k1 \in 0..(n - 1) : r2[e[k1]] # x
    BY <1>4, <1>9
  <2>2. j = n \/ j \in 0..(n - 1)
    OBVIOUS
  <2>3. k = n \/ k \in 0..(n - 1)
    OBVIOUS
  <2>4. CASE j \in 0..(n - 1) /\ k \in 0..(n - 1)
    BY <1>4, <1>6, <1>9, <2>4
  <2> QED BY <1>4, <1>6, <2>1, <2>2, <2>3, <2>4
<1>7. (n + 1) - 1 = n
  OBVIOUS
<1>8. \A k \in 0..n : e[k] = (at + k) % NQueue
  BY <1>2
<1>10. \A k \in 0..n : r2[(at + k) % NQueue] \in S \cup {x}
  BY <1>5, <1>8
<1>11. \A j, k \in 0..n : j # k => r2[(at + j) % NQueue] # r2[(at + k) % NQueue]
  BY <1>6, <1>8
<1>12. 0..((n + 1) - 1) = 0..n
  BY <1>7
<1> QED BY <1>10, <1>11, <1>12 DEF RingHolds

\* The first entry is taken.
LEMMA RingTake ==
  ASSUME NEW r, NEW at \in Nat, NEW n \in Nat, n # 0, NEW S, RingHolds(r, at, n, S)
  PROVE  /\ r[at % NQueue] \in S
         /\ RingHolds(r, (at + 1) % IndexMod, n - 1, S \ {r[at % NQueue]})
<1>1. /\ n < NQueue /\ \A k \in 0..(n - 1) : r[(at + k) % NQueue] \in S
      /\ \A j, k \in 0..(n - 1) : j # k => r[(at + j) % NQueue] # r[(at + k) % NQueue]
  BY DEF RingHolds
<1>2. 0 \in 0..(n - 1) /\ at + 0 = at
  OBVIOUS
<1>3. r[at % NQueue] \in S
  BY <1>1, <1>2
<1>4. PICK b : b = (at + 1) % IndexMod
  OBVIOUS
<1>5. ASSUME NEW k \in 0..(n - 1 - 1)
      PROVE  (b + k) % NQueue = (at + (k + 1)) % NQueue /\ k + 1 \in 0..(n - 1) /\ k + 1 # 0
  <2>1. at + 1 \in Nat /\ k \in Nat /\ (at + 1) + k = at + (k + 1)
    OBVIOUS
  <2>2. (((at + 1) % IndexMod) + k) % NQueue = ((at + 1) + k) % NQueue
    BY <2>1, SlotWrap
  <2> QED BY <1>4, <2>1, <2>2
<1>6. PICK g \in [0..(n - 1) -> S] : g = [k \in 0..(n - 1) |-> r[(at + k) % NQueue]]
  BY <1>1
<1>7. /\ r[at % NQueue] = g[0]
      /\ \A j, k \in 0..(n - 1) : j # k => g[j] # g[k]
  BY <1>1, <1>2, <1>6
<1>8. \A k \in 0..(n - 1 - 1) : r[(b + k) % NQueue] = g[k + 1]
  BY <1>5, <1>6
<1>9. n - 1 < NQueue
  BY <1>1, IdxIs
<1>10. ASSUME NEW k \in 0..(n - 1 - 1) PROVE r[(b + k) % NQueue] \in S \ {g[0]}
  <2>1. k + 1 \in 0..(n - 1) /\ k + 1 # 0
    OBVIOUS
  <2> QED BY <1>2, <1>6, <1>7, <1>8, <2>1
<1>11. ASSUME NEW j \in 0..(n - 1 - 1), NEW k \in 0..(n - 1 - 1), j # k
       PROVE  r[(b + j) % NQueue] # r[(b + k) % NQueue]
  <2>1. k + 1 \in 0..(n - 1) /\ j + 1 \in 0..(n - 1) /\ k + 1 # j + 1
    BY <1>11
  <2> QED BY <1>7, <1>8, <2>1
<1> QED BY <1>3, <1>4, <1>7, <1>9, <1>10, <1>11 DEF RingHolds

\* While two descriptors are not in a ring, it has room.
LEMMA RingRoom ==
  ASSUME NEW r, NEW at \in Nat, NEW n \in Nat, NEW S, RingHolds(r, at, n, S),
         S \subseteq Virtio!Idx, NEW x \in Virtio!Idx \ S, NEW y \in Virtio!Idx \ S, x # y
  PROVE  n + 1 < NQueue
<1>1. /\ n < NQueue /\ \A k \in 0..(n - 1) : r[(at + k) % NQueue] \in S
      /\ \A j, k \in 0..(n - 1) : j # k => r[(at + j) % NQueue] # r[(at + k) % NQueue]
  BY DEF RingHolds
<1>2. SUFFICES ASSUME n = NQueue - 1 PROVE FALSE
  BY <1>1, IdxIs
<1>3. PICK T : T = (Virtio!Idx \ {x}) \ {y}
  OBVIOUS
<1>4. IsFiniteSet(Virtio!Idx) /\ Cardinality(Virtio!Idx) = NQueue
  BY FS_Interval, IdxIs
<1>5. IsFiniteSet(Virtio!Idx \ {x}) /\ Cardinality(Virtio!Idx \ {x}) = NQueue - 1
  BY <1>4, FS_RemoveElement
<1>6. IsFiniteSet(T) /\ Cardinality(T) = NQueue - 1 - 1
  BY <1>3, <1>5, FS_RemoveElement
<1>7. PICK D : D = 0..(n - 1)
  OBVIOUS
<1>8. IsFiniteSet(D) /\ Cardinality(D) = n
  BY <1>2, <1>7, FS_Interval, IdxIs
<1>9. PICK g : g = [k \in D |-> r[(at + k) % NQueue]]
  OBVIOUS
<1>10. g \in [D -> T]
  BY <1>1, <1>3, <1>7, <1>9
<1>11. Cardinality(T) < Cardinality(D)
  BY <1>2, <1>6, <1>8, IdxIs
<1>12. \E j, k \in D : j # k /\ g[j] = g[k]
  BY <1>6, <1>8, <1>10, <1>11, FS_PigeonHole
<1> QED BY <1>1, <1>7, <1>9, <1>12

\* The indices of a queue have at least as many values as its rings slots.
LEMMA RangeIs == NQueue <= IndexMod
<1>1. PICK N \in Nat \ {0}, M \in Nat \ {0} : N = NQueue /\ M = IndexMod /\ M % N = 0
  BY NetDevAssumption
<1>2. M \in 0..(N - 1) => M % N = M
  BY ModSmall
<1> QED BY <1>1, <1>2

\* An entry is written at the end of a ring.
LEMMA Grows ==
  ASSUME NEW r \in [Virtio!Idx -> Virtio!Idx], NEW at \in 0..(IndexMod - 1),
         NEW p \in 0..(IndexMod - 1), NEW S, RingHolds(r, at, (p - at) % IndexMod, S),
         S \subseteq Virtio!Idx, NEW u \in Virtio!Idx \ S, NEW w \in Virtio!Idx \ S, u # w,
         NEW x, x \notin S, NEW r2, r2 = [r EXCEPT ![p % NQueue] = x]
  PROVE  RingHolds(r2, at, (((p + 1) % IndexMod) - at) % IndexMod, S \cup {x})
<1>1. PICK n \in 0..(IndexMod - 1) : n = (p - at) % IndexMod
  BY Distance, IdxIs
<1>2. RingHolds(r, at, n, S)
  BY <1>1
<1>3. n + 1 < NQueue /\ n \in Nat /\ at \in Nat
  <2>1. n \in Nat /\ at \in Nat
    OBVIOUS
  <2> QED BY <1>2, <2>1, RingRoom
<1>4. (((p + 1) % IndexMod) - at) % IndexMod = n + 1
  <2>1. ((p - at) % IndexMod) + 1 < IndexMod
    BY <1>1, <1>3, RangeIs, IdxIs
  <2> QED BY <1>1, <2>1, Longer, IdxIs
<1>5. p % NQueue = (at + n) % NQueue
  <2>1. (at + n) % IndexMod = p
    BY <1>1, Reaches, IdxIs
  <2>2. at + n \in Nat /\ 0 \in Nat /\ at + n + 0 = at + n /\ p + 0 = p
    BY <1>3
  <2>3. (((at + n) % IndexMod) + 0) % NQueue = (at + n + 0) % NQueue
    BY <2>2, SlotWrap
  <2> QED BY <2>1, <2>2, <2>3
<1>6. r2 = [i \in Virtio!Idx |-> IF i = (at + n) % NQueue THEN x ELSE r[i]]
  BY <1>5
<1>7. RingHolds(r2, at, n + 1, S \cup {x})
  BY <1>2, <1>3, <1>6, RingPut
<1> QED BY <1>4, <1>7

\* The first entry of a ring is read.
LEMMA Shrinks ==
  ASSUME NEW r, NEW at \in 0..(IndexMod - 1),
         NEW p \in 0..(IndexMod - 1), p # at, NEW S, RingHolds(r, at, (p - at) % IndexMod, S),
         NEW x, x = r[at % NQueue]
  PROVE  /\ x \in S
         /\ RingHolds(r, (at + 1) % IndexMod, (p - ((at + 1) % IndexMod)) % IndexMod, S \ {x})
<1>1. PICK n \in 0..(IndexMod - 1) : n = (p - at) % IndexMod
  BY Distance, IdxIs
<1>2. RingHolds(r, at, n, S)
  BY <1>1
<1>3. n # 0 /\ (p - ((at + 1) % IndexMod)) % IndexMod = n - 1
  BY <1>1, Nearer, IdxIs
<1>4. n \in Nat /\ at \in Nat
  OBVIOUS
<1>5. /\ r[at % NQueue] \in S
      /\ RingHolds(r, (at + 1) % IndexMod, n - 1, S \ {r[at % NQueue]})
  BY <1>2, <1>3, <1>4, RingTake
<1> QED BY <1>3, <1>5

-----------------------------------------------------------------------------
(* Chaining and freeing descriptors.                                       *)

\* The descriptors of q after the first n of F were chained for buffer x.
ChainedDesc(q, F, n, x) ==
  [i \in Virtio!Idx |-> IF \E k \in 0..(n - 1) : F[k] = i
                          THEN [q.desc[i] EXCEPT !.buf = x, !.more = i # F[n - 1]]
                          ELSE q.desc[i]]

\* q2 is q with the first n descriptors of F chained for buffer x and published.
Enqueued(q, F, n, x, q2) ==
  /\ q2 \in Queues
  /\ q2.desc = ChainedDesc(q, F, n, x)
  /\ q2.free_head = F[n]
  /\ q2.xdata = [q.xdata EXCEPT ![F[0]] = x]
  /\ q2.avail = [q.avail EXCEPT ![q.avail_idx % NQueue] = F[0]]
  /\ q2.avail_idx = (q.avail_idx + 1) % IndexMod
  /\ q2.used = q.used /\ q2.used_idx = q.used_idx /\ q2.last_used_idx = q.last_used_idx

\* A queue with a free list has room for n descriptors when the list has n.
LEMMA RoomIs ==
  ASSUME NEW q, NEW F, NEW nf, FreeAs(q, F, nf), NEW n \in Nat \ {0}, Virtio!HasRoom(q, n)
  PROVE  n <= nf
<1>1. PICK s : s = Virtio!FreeSlots(q, n)
  OBVIOUS
<1>2. s[n - 1] # Virtio!Nil
  BY <1>1 DEF Virtio!HasRoom
<1>3. n - 1 \in 0..n /\ n \in Nat
  OBVIOUS
<1>4. \A k \in 0..n : s[k] = IF k <= nf THEN F[k] ELSE Virtio!Nil
  BY <1>1, <1>3, SlotsAre
<1>5. nf \in Nat /\ F[nf] = Virtio!Nil
  BY DEF FreeAs
<1>6. n - 1 <= nf /\ n - 1 # nf
  BY <1>2, <1>3, <1>4, <1>5
<1> QED BY <1>5, <1>6

\* What virtq_enqueue writes.
LEMMA EnqueueIs ==
  ASSUME NEW q \in Queues, NEW F, NEW nf, FreeAs(q, F, nf), NEW n \in {2, 3}, n <= nf, NEW x \in Bufs,
         NEW q2, q2 = Virtio!virtq_enqueue(q, n, x)
  PROVE  Enqueued(q, F, n, x, q2)
<1>1. PICK s : s = Virtio!FreeSlots(q, n)
  OBVIOUS
<1>2. /\ nf \in Nat /\ F \in [Nat -> Virtio!Idx \cup {Virtio!Nil}]
      /\ \A k \in 0..(nf - 1) : F[k] \in Virtio!Idx
  BY DEF FreeAs
<1>3. n \in Nat /\ \A k \in 0..n : k <= nf
  BY <1>2
<1>4. \A k \in 0..n : s[k] = F[k]
  <2>1. \A k \in 0..n : s[k] = IF k <= nf THEN F[k] ELSE Virtio!Nil
    BY <1>1, <1>3, SlotsAre
  <2> QED BY <1>3, <2>1
<1>5. /\ s[0] = F[0] /\ s[n] = F[n] /\ s[n - 1] = F[n - 1]
      /\ \A k \in 0..(n - 1) : s[k] = F[k]
  BY <1>3, <1>4
<1>6. F[0] \in Virtio!Idx /\ F[n] \in Virtio!Idx \cup {Virtio!Nil} /\ F[n - 1] \in Virtio!Idx
  <2>1. 0 \in 0..(nf - 1) /\ n - 1 \in 0..(nf - 1)
    BY <1>2
  <2> QED BY <1>2, <1>3, <2>1
<1>7. PICK a, b, c : a = F[0] /\ b = F[n] /\ c = F[n - 1]
  OBVIOUS
<1>8. PICK d : d = ChainedDesc(q, F, n, x)
  OBVIOUS
<1>9. /\ q.desc \in [Virtio!Idx -> Descriptors] /\ q.avail_idx \in 0..(IndexMod - 1)
      /\ q.xdata \in [Virtio!Idx -> Bufs \cup {0}] /\ q.avail \in [Virtio!Idx -> Virtio!Idx]
  BY DEF Queues
<1>10. d \in [Virtio!Idx -> Descriptors]
  <2>1. ASSUME NEW i \in Virtio!Idx
        PROVE  q.desc[i] \in Descriptors /\ [q.desc[i] EXCEPT !.buf = x, !.more = i # F[n - 1]] \in Descriptors
    <3>1. q.desc[i] \in Descriptors
      BY <1>9
    <3>2. (i # F[n - 1]) \in BOOLEAN
      OBVIOUS
    <3> QED BY <3>1, <3>2 DEF Descriptors
  <2> QED BY <1>8, <2>1 DEF ChainedDesc
<1>11. PICK e \in Virtio!Idx, v \in 0..(IndexMod - 1) :
         e = q.avail_idx % NQueue /\ v = (q.avail_idx + 1) % IndexMod
  <2>1. q.avail_idx \in Nat
    BY <1>9
  <2> QED BY <1>9, <2>1, SlotIs, Next1, IdxIs
<1>12. q2 = [q EXCEPT !.desc = d, !.xdata = [@ EXCEPT ![a] = x], !.free_head = b,
                      !.avail = [@ EXCEPT ![e] = a], !.avail_idx = v]
  <2>1. d = [i \in Virtio!Idx |-> IF \E k \in 0..(n - 1) : s[k] = i
                          THEN [q.desc[i] EXCEPT !.buf = x, !.more = i # s[n - 1]]
                          ELSE q.desc[i]]
    BY <1>5, <1>8 DEF ChainedDesc
  <2>2. q2 = [q EXCEPT !.desc = [i \in Virtio!Idx |-> IF \E k \in 0..(n - 1) : s[k] = i
                          THEN [q.desc[i] EXCEPT !.buf = x, !.more = i # s[n - 1]]
                          ELSE q.desc[i]],
                       !.xdata[s[0]] = x, !.free_head = s[n],
                       !.avail[q.avail_idx % NQueue] = s[0],
                       !.avail_idx = (@ + 1) % IndexMod]
    BY <1>1 DEF Virtio!virtq_enqueue
  <2>3. q2 = [q EXCEPT !.desc = d,
                       !.xdata[s[0]] = x, !.free_head = s[n],
                       !.avail[q.avail_idx % NQueue] = s[0],
                       !.avail_idx = (@ + 1) % IndexMod]
    BY <2>1, <2>2, Zenon
  <2>4. s[0] = a /\ s[n] = b
    BY <1>5, <1>7
  <2> HIDE <1>8
  <2> QED BY <1>11, <2>3, <2>4
<1>13. q2 \in Queues
  <2>1. a \in Virtio!Idx /\ b \in Virtio!Idx \cup {Virtio!Nil}
    BY <1>6, <1>7
  <2>2. PICK xs, av : xs = [q.xdata EXCEPT ![a] = x] /\ av = [q.avail EXCEPT ![e] = a]
    OBVIOUS
  <2>3. xs \in [Virtio!Idx -> Bufs \cup {0}] /\ av \in [Virtio!Idx -> Virtio!Idx]
    BY <1>9, <2>1, <2>2
  <2>4. q2 = [q EXCEPT !.desc = d, !.xdata = xs, !.free_head = b, !.avail = av, !.avail_idx = v]
    BY <1>12, <2>2
  <2> QED BY <1>10, <1>11, <2>1, <2>3, <2>4 DEF Queues
<1> QED BY <1>7, <1>8, <1>11, <1>12, <1>13 DEF Queues, Enqueued

\* The head of a chain is one of its descriptors, and none of them is free.
LEMMA HeadOwns ==
  ASSUME NEW q, NEW F, NEW nf, NEW own, Layout(q, F, nf, own), NEW h \in Virtio!Heads(q)
  PROVE  /\ h \in Virtio!Idx /\ own[h] = h
         /\ Members(q, h) \subseteq Virtio!Idx
         /\ \A i \in Members(q, h) : own[i] = h
         /\ \A k \in 0..(nf - 1) : F[k] \notin Members(q, h)
<1>1. h \in Virtio!Idx
  BY DEF Virtio!Heads
<1>2. ChainAs(q, h) /\ \A i \in Virtio!Idx : own[i] = h <=> i \in Members(q, h)
  BY DEF Layout
<1>3. Members(q, h) \subseteq Virtio!Idx /\ h \in Members(q, h)
  BY <1>1, <1>2 DEF Members, ChainAs
<1>4. \A k \in 0..(nf - 1) : F[k] \in Virtio!Idx /\ own[F[k]] = Virtio!Nil
  BY DEF Layout, FreeAs
<1>5. h # Virtio!Nil
  BY <1>1, IdxIs
<1> QED BY <1>1, <1>2, <1>3, <1>4, <1>5

\* virtq_enqueue makes a chain of the first descriptors of the free list.
LEMMA EnqueueKeeps ==
  ASSUME NEW q \in Queues, NEW F, NEW nf, NEW own, Layout(q, F, nf, own),
         NEW n \in {2, 3}, n <= nf, NEW x \in Bufs, NEW q2, q2 = Virtio!virtq_enqueue(q, n, x)
  PROVE  /\ \E F2, nf2, own2 : Layout(q2, F2, nf2, own2)
         /\ F[0] \in Virtio!Idx \ Virtio!Heads(q)
         /\ F[1] \in Virtio!Idx \ Virtio!Heads(q) /\ F[0] # F[1]
         /\ Virtio!Heads(q2) = Virtio!Heads(q) \cup {F[0]}
<1>0. n \in Nat /\ n # 0
  OBVIOUS
<1>1. FreeAs(q, F, nf)
  BY DEF Layout
<1>2. /\ nf \in Nat /\ F \in [Nat -> Virtio!Idx \cup {Virtio!Nil}] /\ F[nf] = Virtio!Nil
      /\ \A k \in 0..(nf - 1) : F[k] \in Virtio!Idx /\ F[k + 1] = q.desc[F[k]].next
      /\ \A j, k \in 0..(nf - 1) : j # k => F[j] # F[k]
  BY <1>1 DEF FreeAs
<1>3. q2.desc = ChainedDesc(q, F, n, x) /\ q2.free_head = F[n] /\ q2.xdata = [q.xdata EXCEPT ![F[0]] = x]
  <2>1. Enqueued(q, F, n, x, q2)
    BY <1>1, EnqueueIs
  <2> QED BY <2>1 DEF Enqueued
<1>4. q.desc \in [Virtio!Idx -> Descriptors] /\ q.xdata \in [Virtio!Idx -> Bufs \cup {0}]
  BY DEF Queues
<1>5. PICK T : T = {F[k] : k \in 0..(n - 1)}
  OBVIOUS
<1>6. \A k \in 0..(n - 1) : k \in 0..(nf - 1) /\ F[k] \in T
  BY <1>2, <1>5
<1>7. T \subseteq Virtio!Idx
  BY <1>2, <1>5, <1>6
<1>8. PICK H : H = Virtio!Heads(q)
  OBVIOUS
<1>9. /\ H \subseteq Virtio!Idx
      /\ \A h \in H : own[h] = h /\ Members(q, h) \subseteq Virtio!Idx
                      /\ \A i \in Members(q, h) : own[i] = h /\ i \notin T
  <2>1. H \subseteq Virtio!Idx
    BY <1>8 DEF Virtio!Heads
  <2>2. ASSUME NEW h \in H
        PROVE  own[h] = h /\ Members(q, h) \subseteq Virtio!Idx
               /\ \A i \in Members(q, h) : own[i] = h /\ i \notin T
    <3>1. /\ own[h] = h /\ Members(q, h) \subseteq Virtio!Idx
          /\ \A i \in Members(q, h) : own[i] = h
          /\ \A k \in 0..(nf - 1) : F[k] \notin Members(q, h)
      BY <1>8, HeadOwns
    <3>2. \A i \in T : \E k \in 0..(nf - 1) : F[k] = i
      BY <1>5, <1>6
    <3> QED BY <3>1, <3>2
  <2> QED BY <2>1, <2>2
<1>10. \A i \in T : own[i] = Virtio!Nil /\ i \notin H
  <2>1. \A i \in T : \E k \in 0..(nf - 1) : F[k] = i
    BY <1>5, <1>6
  <2>2. \A i \in T : own[i] = Virtio!Nil
    BY <1>7, <2>1 DEF Layout
  <2> QED BY <1>7, <1>9, <2>2, IdxIs
<1>11. /\ \A i \in Virtio!Idx : q2.desc[i].next = q.desc[i].next
       /\ \A i \in T : q2.desc[i].more = (i # F[n - 1])
       /\ \A i \in Virtio!Idx \ T : q2.desc[i].more = q.desc[i].more
  <2>1. ASSUME NEW i \in Virtio!Idx
        PROVE  q2.desc[i] = IF i \in T THEN [q.desc[i] EXCEPT !.buf = x, !.more = i # F[n - 1]]
                            ELSE q.desc[i]
    <3>1. i \in T <=> \E k \in 0..(n - 1) : F[k] = i
      BY <1>5
    <3> QED BY <1>3, <3>1 DEF ChainedDesc
  <2>2. ASSUME NEW i \in Virtio!Idx
        PROVE  /\ q2.desc[i].next = q.desc[i].next
               /\ i \in T => q2.desc[i].more = (i # F[n - 1])
               /\ i \notin T => q2.desc[i].more = q.desc[i].more
    <3>1. q.desc[i] \in Descriptors
      BY <1>4
    <3>2. DOMAIN q.desc[i] = {"buf", "more", "next"}
      BY <3>1 DEF Descriptors
    <3> QED BY <2>1, <3>2
  <2> QED BY <1>7, <2>2
<1>12. PICK a, b : a = F[0] /\ b = F[1]
  OBVIOUS
<1>13. a \in T /\ b \in T /\ a # b /\ 0 \in 0..(n - 1) /\ 1 \in 0..(n - 1)
  BY <1>2, <1>6, <1>12
<1>14. Virtio!Heads(q2) = H \cup {a}
  <2>1. x # 0
    BY NetDevAssumption
  <2>2. \A i \in Virtio!Idx : q2.xdata[i] = IF i = a THEN x ELSE q.xdata[i]
    BY <1>3, <1>4, <1>12
  <2> QED BY <1>7, <1>8, <1>13, <2>1, <2>2 DEF Virtio!Heads
<1>15. PICK F2 : F2 = [k \in Nat |-> F[k + n]]
  OBVIOUS
<1>16. PICK nf2 \in Nat : nf2 = nf - n
  BY <1>2
<1>17. PICK own2 : own2 = [i \in Virtio!Idx |-> IF i \in T THEN a ELSE own[i]]
  OBVIOUS
<1>18. FreeAs(q2, F2, nf2)
  <2>1. F2 \in [Nat -> Virtio!Idx \cup {Virtio!Nil}]
    <3>1. \A k \in Nat : k + n \in Nat
      BY <1>0
    <3> QED BY <1>2, <1>15, <3>1
  <2>2. F2[0] = q2.free_head /\ F2[nf2] = Virtio!Nil
    <3>1. 0 + n = n /\ nf2 + n = nf /\ 0 \in Nat
      BY <1>2, <1>16
    <3> QED BY <1>2, <1>3, <1>15, <1>16, <3>1
  <2>3. ASSUME NEW k \in 0..(nf2 - 1)
        PROVE  F2[k] \in Virtio!Idx /\ F2[k + 1] = q2.desc[F2[k]].next
    <3>1. k + n \in 0..(nf - 1) /\ (k + 1) + n = (k + n) + 1 /\ k \in Nat /\ k + 1 \in Nat
      BY <1>0, <1>2, <1>16
    <3>2. F2[k] = F[k + n] /\ F2[k + 1] = F[(k + n) + 1]
      BY <1>15, <3>1
    <3> QED BY <1>2, <1>11, <3>1, <3>2
  <2>4. ASSUME NEW j \in 0..(nf2 - 1), NEW k \in 0..(nf2 - 1), j # k PROVE F2[j] # F2[k]
    <3>1. k + n \in 0..(nf - 1) /\ j + n \in 0..(nf - 1) /\ k + n # j + n /\ k \in Nat /\ j \in Nat
      BY <1>2, <1>16, <2>4
    <3> QED BY <1>2, <1>15, <3>1
  <2> QED BY <1>16, <2>1, <2>2, <2>3, <2>4 DEF FreeAs
<1>19. own2 \in [Virtio!Idx -> Virtio!Heads(q2) \cup {Virtio!Nil}]
  <2>1. own \in [Virtio!Idx -> H \cup {Virtio!Nil}]
    BY <1>8 DEF Layout
  <2> QED BY <1>14, <1>17, <2>1
<1>20. ASSUME NEW i \in Virtio!Idx
       PROVE  own2[i] = Virtio!Nil <=> \E k \in 0..(nf2 - 1) : F2[k] = i
  <2>1. own[i] = Virtio!Nil <=> \E k \in 0..(nf - 1) : F[k] = i
    BY DEF Layout
  <2>2. ASSUME NEW k \in 0..(nf2 - 1), F2[k] = i PROVE i \notin T /\ own[i] = Virtio!Nil
    <3>1. k \in Nat /\ k + n \in 0..(nf - 1) /\ F[k + n] = i
      BY <1>2, <1>15, <1>16, <2>2
    <3>2. \A j \in 0..(n - 1) : j # k + n /\ j \in 0..(nf - 1)
      BY <1>6
    <3>3. \A j \in 0..(n - 1) : F[j] # i
      BY <1>2, <3>1, <3>2
    <3> QED BY <1>5, <2>1, <3>1, <3>3
  <2>3. ASSUME own[i] = Virtio!Nil, i \notin T PROVE \E k \in 0..(nf2 - 1) : F2[k] = i
    <3>1. PICK j \in 0..(nf - 1) : F[j] = i
      BY <2>1, <2>3
    <3>2. ~(j \in 0..(n - 1))
      BY <1>5, <2>3, <3>1
    <3>3. PICK k \in Nat : k = j - n
      BY <1>2, <3>2
    <3>4. k \in 0..(nf2 - 1) /\ k + n = j
      BY <1>2, <1>16, <3>3
    <3>5. F2[k] = i
      BY <1>15, <3>1, <3>4
    <3> QED BY <3>4, <3>5
  <2>4. own2[i] = IF i \in T THEN a ELSE own[i]
    BY <1>17
  <2>5. a # Virtio!Nil
    BY <1>7, <1>13, IdxIs
  <2> QED BY <2>2, <2>3, <2>4, <2>5
<1>21. ASSUME NEW h \in H
       PROVE  ChainAs(q2, h) /\ \A i \in Virtio!Idx : own2[i] = h <=> i \in Members(q2, h)
  <2>1. ChainAs(q, h) /\ \A i \in Virtio!Idx : own[i] = h <=> i \in Members(q, h)
    BY <1>8 DEF Layout
  <2>2. Members(q, h) \subseteq Virtio!Idx \ T /\ h \in Members(q, h)
    BY <1>9 DEF Members
  <2>3. PICK u, v : u = Second(q, h) /\ v = Last(q, h)
    OBVIOUS
  <2>4. {h, u, v} \subseteq Virtio!Idx \ T
    BY <2>2, <2>3 DEF Members
  <2>5. Second(q2, h) = u
    BY <1>11, <2>3, <2>4 DEF Second
  <2>6. Three(q2, h) = Three(q, h) /\ q2.desc[u].next = q.desc[u].next
    BY <1>11, <2>3, <2>4, <2>5 DEF Three
  <2>7. Last(q2, h) = v
    BY <2>3, <2>5, <2>6 DEF Last
  <2>8. Members(q2, h) = Members(q, h)
    BY <2>3, <2>5, <2>7 DEF Members
  <2>9. q2.desc[h].more = q.desc[h].more /\ q2.desc[v].more = q.desc[v].more
    BY <1>11, <2>4
  <2>10. ChainAs(q2, h)
    BY <2>1, <2>3, <2>5, <2>6, <2>7, <2>9 DEF ChainAs
  <2>11. a # h /\ h # Virtio!Nil
    BY <1>9, <1>10, <1>13, IdxIs
  <2>12. \A i \in Virtio!Idx : own2[i] = h <=> own[i] = h
    BY <1>10, <1>17, <2>11
  <2> QED BY <2>1, <2>8, <2>10, <2>12
<1>22. ChainAs(q2, a) /\ \A i \in Virtio!Idx : own2[i] = a <=> i \in Members(q2, a)
  <2>1. \A i \in Virtio!Idx : own2[i] = a <=> i \in T
    <3>1. a \notin H /\ a # Virtio!Nil
      BY <1>7, <1>10, <1>13, IdxIs
    <3>2. own \in [Virtio!Idx -> H \cup {Virtio!Nil}]
      BY <1>8 DEF Layout
    <3> QED BY <1>17, <3>1, <3>2
  <2>2. Second(q2, a) = b
    <3>1. 0 \in 0..(nf - 1) /\ 0 + 1 = 1
      BY <1>6, <1>13
    <3>2. q.desc[a].next = b
      BY <1>2, <1>12, <3>1
    <3> QED BY <1>7, <1>11, <1>13, <3>2 DEF Second
  <2>3. CASE n = 2
    <3>1. n - 1 = 1 /\ 0..(n - 1) = {0, 1}
      BY <2>3
    <3>2. T = {a, b} /\ F[n - 1] = b
      BY <1>5, <1>12, <3>1
    <3>3. q2.desc[a].more /\ ~q2.desc[b].more
      BY <1>11, <1>13, <3>2
    <3>4. ~Three(q2, a) /\ Last(q2, a) = b
      BY <2>2, <3>3 DEF Three, Last
    <3>5. Members(q2, a) = T
      BY <2>2, <3>2, <3>4 DEF Members
    <3>6. ChainAs(q2, a)
      BY <1>7, <1>13, <2>2, <3>3, <3>4 DEF ChainAs
    <3> QED BY <2>1, <3>5, <3>6
  <2>4. CASE n = 3
    <3>1. n - 1 = 2 /\ 0..(n - 1) = {0, 1, 2}
      BY <2>4
    <3>2. PICK c : c = F[2]
      OBVIOUS
    <3>3. T = {a, b, c} /\ F[n - 1] = c
      BY <1>5, <1>12, <3>1, <3>2
    <3>4. a # c /\ b # c
      <4>1. {0, 1, 2} \subseteq 0..(nf - 1)
        BY <1>6, <3>1
      <4> QED BY <1>2, <1>12, <3>2, <4>1
    <3>5. q2.desc[a].more /\ q2.desc[b].more /\ ~q2.desc[c].more
      BY <1>11, <3>3, <3>4
    <3>6. q2.desc[b].next = c
      <4>1. 1 \in 0..(nf - 1) /\ 1 + 1 = 2
        BY <1>6, <1>13
      <4>2. q.desc[b].next = c
        BY <1>2, <1>12, <3>2, <4>1
      <4> QED BY <1>7, <1>11, <1>13, <4>2
    <3>7. Three(q2, a) /\ Last(q2, a) = c
      BY <2>2, <3>5, <3>6 DEF Three, Last
    <3>8. Members(q2, a) = T
      BY <2>2, <3>3, <3>7 DEF Members
    <3>9. ChainAs(q2, a)
      BY <1>7, <1>13, <2>2, <3>3, <3>4, <3>5, <3>7 DEF ChainAs
    <3> QED BY <2>1, <3>8, <3>9
  <2> QED BY <2>3, <2>4
<1>23. Layout(q2, F2, nf2, own2)
  BY <1>14, <1>18, <1>19, <1>20, <1>21, <1>22 DEF Layout
<1> QED BY <1>7, <1>8, <1>10, <1>12, <1>13, <1>14, <1>23

\* q2 is q with the chain of h at the head of its free list and its buffer taken.
Released(q, h, q2) ==
  /\ q2 \in Queues
  /\ q2.desc = [q.desc EXCEPT ![Last(q, h)].next = q.free_head]
  /\ q2.free_head = h
  /\ q2.xdata = [q.xdata EXCEPT ![h] = 0]
  /\ q2.last_used_idx = (q.last_used_idx + 1) % IndexMod
  /\ q2.used = q.used /\ q2.used_idx = q.used_idx
  /\ q2.avail = q.avail /\ q2.avail_idx = q.avail_idx

\* What virtq_dequeue writes.
LEMMA DequeueIs ==
  ASSUME NEW q \in Queues, NEW h \in Virtio!Idx, h = Virtio!UsedElem(q).id, ChainAs(q, h),
         NEW q2, q2 = Virtio!virtq_dequeue(q)
  PROVE  Released(q, h, q2)
<1>1. /\ q.desc \in [Virtio!Idx -> Descriptors] /\ q.free_head \in Virtio!Idx \cup {Virtio!Nil}
      /\ q.xdata \in [Virtio!Idx -> Bufs \cup {0}] /\ q.last_used_idx \in 0..(IndexMod - 1)
  BY DEF Queues
<1>2. PICK v \in 0..(IndexMod - 1) : v = (q.last_used_idx + 1) % IndexMod
  BY <1>1, Next1, IdxIs
<1>3. PICK xs \in [Virtio!Idx -> Bufs \cup {0}] : xs = [q.xdata EXCEPT ![h] = 0]
  BY <1>1
<1>4. PICK q1 : q1 = [q EXCEPT !.xdata = xs, !.last_used_idx = v]
  OBVIOUS
<1>5. q1 \in Queues /\ q1.desc = q.desc /\ q1.free_head = q.free_head
  BY <1>2, <1>3, <1>4 DEF Queues
<1>6. q2 = Virtio!virtq_free_chain(q1, h)
  <2>1. q1 = [q EXCEPT !.xdata[h] = 0, !.last_used_idx = (@ + 1) % IndexMod]
    BY <1>2, <1>3, <1>4
  <2>2. q2 = Virtio!virtq_free_chain([q EXCEPT !.xdata[h] = 0, !.last_used_idx = (@ + 1) % IndexMod], h)
    BY DEF Virtio!virtq_dequeue
  <2> QED BY <2>1, <2>2
<1>7. PICK l : l = Last(q, h)
  OBVIOUS
<1>8. l = Last(q1, h) /\ ChainAs(q1, h) /\ l \in Virtio!Idx
  BY <1>5, <1>7 DEF ChainAs, Last, Three, Second
<1>9. Virtio!Chain(q1, h)[NQueue - 1] = l
  BY <1>8, ChainHas
<1>10. PICK d : d = [q.desc EXCEPT ![l] = [@ EXCEPT !.next = q.free_head]]
  OBVIOUS
<1>11. d \in [Virtio!Idx -> Descriptors]
  <2>1. q.desc[l] \in Descriptors
    BY <1>1, <1>8
  <2>2. [q.desc[l] EXCEPT !.next = q.free_head] \in Descriptors
    BY <1>1, <2>1 DEF Descriptors
  <2> QED BY <1>1, <1>10, <2>2
<1>12. q2 = [q1 EXCEPT !.desc = d, !.free_head = h]
  <2>1. q2 = [q1 EXCEPT !.desc[l].next = q1.free_head, !.free_head = h]
    BY <1>6, <1>9 DEF Virtio!virtq_free_chain
  <2> QED BY <1>5, <1>10, <2>1
<1>13. q2 = [q EXCEPT !.xdata = xs, !.last_used_idx = v, !.desc = d, !.free_head = h]
  BY <1>4, <1>12 DEF Queues
<1>14. q2 \in Queues
  BY <1>2, <1>3, <1>11, <1>13 DEF Queues
<1>15. d = [q.desc EXCEPT ![l].next = q.free_head]
  BY <1>10
<1> QED BY <1>2, <1>3, <1>7, <1>13, <1>14, <1>15 DEF Queues, Released

\* virtq_free_chain puts a chain in front of the free list.
LEMMA ReleaseKeeps ==
  ASSUME NEW q \in Queues, NEW F, NEW nf, NEW own, Layout(q, F, nf, own),
         NEW h \in Virtio!Heads(q), NEW q2, Released(q, h, q2)
  PROVE  /\ \E F2, nf2, own2 : Layout(q2, F2, nf2, own2)
         /\ Virtio!Heads(q2) = Virtio!Heads(q) \ {h}
<1>1. FreeAs(q, F, nf) /\ ChainAs(q, h)
  BY DEF Layout
<1>2. /\ nf \in Nat /\ F \in [Nat -> Virtio!Idx \cup {Virtio!Nil}] /\ F[nf] = Virtio!Nil
      /\ F[0] = q.free_head
      /\ \A k \in 0..(nf - 1) : F[k] \in Virtio!Idx /\ F[k + 1] = q.desc[F[k]].next
      /\ \A j, k \in 0..(nf - 1) : j # k => F[j] # F[k]
  BY <1>1 DEF FreeAs
<1>3. PICK a, l : a = Second(q, h) /\ l = Last(q, h)
  OBVIOUS
<1>4. PICK M : M = Members(q, h)
  OBVIOUS
<1>5. /\ M = {h, a, l} /\ h # a /\ h # l /\ M \subseteq Virtio!Idx
      /\ \A i \in Virtio!Idx : own[i] = h <=> i \in M
      /\ \A k \in 0..(nf - 1) : F[k] \notin M
  BY <1>1, <1>3, <1>4, HeadOwns DEF ChainAs, Members, Layout
<1>6. q.desc \in [Virtio!Idx -> Descriptors] /\ q.xdata \in [Virtio!Idx -> Bufs \cup {0}]
  BY DEF Queues
<1>7. /\ \A i \in Virtio!Idx : q2.desc[i].more = q.desc[i].more
      /\ \A i \in Virtio!Idx \ {l} : q2.desc[i].next = q.desc[i].next
      /\ q2.desc[l].next = q.free_head /\ q2.free_head = h
  <2>1. q2.desc = [q.desc EXCEPT ![l].next = q.free_head] /\ q2.free_head = h
    BY <1>3 DEF Released
  <2>2. ASSUME NEW i \in Virtio!Idx
        PROVE  /\ q2.desc[i].more = q.desc[i].more
               /\ q2.desc[i].next = IF i = l THEN q.free_head ELSE q.desc[i].next
    <3>1. q.desc[i] \in Descriptors
      BY <1>6
    <3>2. DOMAIN q.desc[i] = {"buf", "more", "next"}
      BY <3>1 DEF Descriptors
    <3>3. q2.desc[i] = IF i = l THEN [q.desc[i] EXCEPT !.next = q.free_head] ELSE q.desc[i]
      BY <1>6, <2>1
    <3> QED BY <3>2, <3>3
  <2> QED BY <1>5, <2>1, <2>2
<1>8. PICK H : H = Virtio!Heads(q)
  OBVIOUS
<1>9. H \subseteq Virtio!Idx /\ h \in H
  BY <1>8 DEF Virtio!Heads
<1>10. Virtio!Heads(q2) = H \ {h}
  <2>1. q2.xdata = [q.xdata EXCEPT ![h] = 0]
    BY DEF Released
  <2> QED BY <1>6, <1>8, <1>9, <2>1 DEF Virtio!Heads
<1>11. PICK n : n = IF a = l THEN 2 ELSE 3
  OBVIOUS
<1>12. n \in Nat /\ n \in {2, 3}
  BY <1>11
<1>13. PICK C \in [0..(n - 1) -> M] :
         /\ C[0] = h /\ C[n - 1] = l
         /\ \A k \in 0..(n - 2) : C[k] # l /\ C[k + 1] = q.desc[C[k]].next
         /\ \A j, k \in 0..(n - 1) : j # k => C[j] # C[k]
         /\ \A i \in M : \E k \in 0..(n - 1) : C[k] = i
  <2>1. CASE a = l
    <3>1. n = 2 /\ 0..(n - 1) = {0, 1} /\ 0..(n - 2) = {0} /\ n - 1 = 1
      BY <1>11, <2>1
    <3>2. PICK c : c = [k \in {0, 1} |-> IF k = 0 THEN h ELSE a]
      OBVIOUS
    <3>3. q.desc[h].next = a
      BY <1>3 DEF Second
    <3>4. c \in [{0, 1} -> M] /\ c[0] = h /\ c[1] = a
      BY <1>5, <3>2
    <3> QED BY <1>5, <2>1, <3>1, <3>3, <3>4
  <2>2. CASE a # l
    <3>1. n = 3 /\ 0..(n - 1) = {0, 1, 2} /\ 0..(n - 2) = {0, 1} /\ n - 1 = 2
      BY <1>11, <2>2
    <3>2. PICK c : c = [k \in {0, 1, 2} |-> IF k = 0 THEN h ELSE IF k = 1 THEN a ELSE l]
      OBVIOUS
    <3>3. q.desc[h].next = a /\ q.desc[a].next = l
      BY <1>3, <2>2 DEF Second, Last
    <3>4. c \in [{0, 1, 2} -> M] /\ c[0] = h /\ c[1] = a /\ c[2] = l
      BY <1>5, <3>2
    <3> QED BY <1>5, <2>2, <3>1, <3>3, <3>4
  <2> QED BY <2>1, <2>2
<1>14. PICK F2 : F2 = [k \in Nat |-> IF k < n THEN C[k] ELSE F[k - n]]
  OBVIOUS
<1>15. PICK nf2 \in Nat : nf2 = nf + n
  BY <1>2, <1>12
<1>16. PICK own2 : own2 = [i \in Virtio!Idx |-> IF i \in M THEN Virtio!Nil ELSE own[i]]
  OBVIOUS
<1>17. /\ \A k \in 0..(n - 1) : F2[k] = C[k]
       /\ \A k \in Nat : F2[k + n] = F[k]
  <2>1. ASSUME NEW k \in 0..(n - 1) PROVE k \in Nat /\ k < n
    BY <1>12
  <2>2. ASSUME NEW k \in Nat PROVE k + n \in Nat /\ ~(k + n < n) /\ (k + n) - n = k
    BY <1>12
  <2> QED BY <1>14, <2>1, <2>2
<1>18. ASSUME NEW k \in 0..(nf2 - 1)
       PROVE  k \in 0..(n - 1) \/ \E j \in 0..(nf - 1) : k = j + n
  <2>1. CASE k < n
    BY <1>12, <2>1
  <2>2. CASE ~(k < n)
    <3>1. k - n \in 0..(nf - 1) /\ k = (k - n) + n
      BY <1>2, <1>12, <1>15, <2>2
    <3> QED BY <3>1
  <2> QED BY <2>1, <2>2
<1>19. FreeAs(q2, F2, nf2)
  <2>1. F2 \in [Nat -> Virtio!Idx \cup {Virtio!Nil}]
    <3>1. ASSUME NEW k \in Nat PROVE F2[k] \in Virtio!Idx \cup {Virtio!Nil}
      <4>1. CASE k < n
        <5>1. k \in 0..(n - 1)
          BY <1>12, <4>1
        <5> QED BY <1>5, <1>13, <1>17, <5>1
      <4>2. CASE ~(k < n)
        <5>1. k - n \in Nat
          BY <1>12, <4>2
        <5> QED BY <1>2, <1>14, <4>2, <5>1
      <4> QED BY <4>1, <4>2
    <3> QED BY <1>14, <3>1
  <2>2. F2[0] = q2.free_head
    <3>1. 0 \in 0..(n - 1)
      BY <1>12
    <3> QED BY <1>7, <1>13, <1>17, <3>1
  <2>3. F2[nf2] = Virtio!Nil
    BY <1>2, <1>15, <1>17
  <2>4. ASSUME NEW k \in 0..(nf2 - 1)
        PROVE  F2[k] \in Virtio!Idx /\ F2[k + 1] = q2.desc[F2[k]].next
    <3>1. CASE k \in 0..(n - 2)
      <4>1. k \in 0..(n - 1) /\ k + 1 \in 0..(n - 1)
        BY <1>12, <3>1
      <4>2. F2[k] = C[k] /\ F2[k + 1] = C[k + 1]
        BY <1>17, <4>1
      <4>3. C[k] \in Virtio!Idx \ {l} /\ C[k + 1] = q.desc[C[k]].next
        BY <1>5, <1>13, <3>1, <4>1
      <4> QED BY <1>7, <4>2, <4>3
    <3>2. CASE k = n - 1
      <4>1. k \in 0..(n - 1) /\ k + 1 = 0 + n /\ 0 \in Nat
        BY <1>12, <3>2
      <4>2. F2[k] = l /\ F2[k + 1] = F[0]
        BY <1>13, <1>17, <3>2, <4>1
      <4> QED BY <1>2, <1>5, <1>7, <4>2
    <3>3. CASE \E j \in 0..(nf - 1) : k = j + n
      <4>1. PICK j \in 0..(nf - 1) : k = j + n
        BY <3>3
      <4>2. j \in Nat /\ j + 1 \in Nat /\ k + 1 = (j + 1) + n
        BY <1>12, <4>1
      <4>3. F2[k] = F[j] /\ F2[k + 1] = F[j + 1]
        BY <1>17, <4>1, <4>2
      <4>4. F[j] \in Virtio!Idx \ {l}
        BY <1>2, <1>5
      <4> QED BY <1>2, <1>7, <4>3, <4>4
    <3>4. k \in 0..(n - 1) => k \in 0..(n - 2) \/ k = n - 1
      BY <1>12
    <3> QED BY <1>18, <3>1, <3>2, <3>3, <3>4
  <2>5. ASSUME NEW j \in 0..(nf2 - 1), NEW k \in 0..(nf2 - 1), F2[j] = F2[k] PROVE j = k
    <3>1. CASE j \in 0..(n - 1) /\ k \in 0..(n - 1)
      BY <1>13, <1>17, <2>5, <3>1
    <3>2. CASE \E i \in 0..(nf - 1) : j = i + n
      <4>1. PICK i \in 0..(nf - 1) : j = i + n
        BY <3>2
      <4>2. F2[j] = F[i] /\ F[i] \notin M
        BY <1>5, <1>17, <4>1
      <4>3. ASSUME k \in 0..(n - 1) PROVE FALSE
        <5>1. F2[k] = C[k] /\ C[k] \in M
          BY <1>13, <1>17, <4>3
        <5> QED BY <2>5, <4>2, <5>1
      <4>4. PICK m \in 0..(nf - 1) : k = m + n
        BY <1>18, <4>3
      <4>5. F2[k] = F[m]
        BY <1>17, <4>4
      <4> QED BY <1>2, <2>5, <4>1, <4>2, <4>4, <4>5
    <3>3. CASE \E i \in 0..(nf - 1) : k = i + n
      <4>1. PICK i \in 0..(nf - 1) : k = i + n
        BY <3>3
      <4>2. F2[k] = F[i] /\ F[i] \notin M
        BY <1>5, <1>17, <4>1
      <4>3. ~(j \in 0..(n - 1))
        BY <1>13, <1>17, <2>5, <4>2
      <4>4. \E m \in 0..(nf - 1) : j = m + n
        BY <1>18, <4>3
      <4> QED BY <3>2, <4>4
    <3> QED BY <1>18, <3>1, <3>2, <3>3
  <2> QED BY <1>15, <2>1, <2>2, <2>3, <2>4, <2>5 DEF FreeAs
<1>20. own \in [Virtio!Idx -> H \cup {Virtio!Nil}]
       /\ \A i \in Virtio!Idx : own[i] = Virtio!Nil <=> \E k \in 0..(nf - 1) : F[k] = i
  BY <1>8 DEF Layout
<1>21. own2 \in [Virtio!Idx -> Virtio!Heads(q2) \cup {Virtio!Nil}]
  BY <1>5, <1>10, <1>16, <1>20
<1>22. ASSUME NEW i \in Virtio!Idx
       PROVE  own2[i] = Virtio!Nil <=> \E k \in 0..(nf2 - 1) : F2[k] = i
  <2>1. ASSUME i \in M PROVE \E k \in 0..(nf2 - 1) : F2[k] = i
    <3>1. PICK k \in 0..(n - 1) : C[k] = i
      BY <1>13, <2>1
    <3>2. k \in 0..(nf2 - 1)
      BY <1>2, <1>12, <1>15
    <3> QED BY <1>17, <3>1, <3>2
  <2>2. ASSUME own[i] = Virtio!Nil PROVE \E k \in 0..(nf2 - 1) : F2[k] = i
    <3>1. PICK j \in 0..(nf - 1) : F[j] = i
      BY <1>20, <2>2
    <3>2. j \in Nat /\ j + n \in 0..(nf2 - 1)
      BY <1>2, <1>12, <1>15
    <3>3. F2[j + n] = i
      BY <1>17, <3>1, <3>2
    <3> QED BY <3>2, <3>3
  <2>3. ASSUME NEW k \in 0..(nf2 - 1), F2[k] = i PROVE i \in M \/ own[i] = Virtio!Nil
    <3>1. CASE k \in 0..(n - 1)
      BY <1>13, <1>17, <2>3, <3>1
    <3>2. CASE \E j \in 0..(nf - 1) : k = j + n
      <4>1. PICK j \in 0..(nf - 1) : k = j + n
        BY <3>2
      <4>2. F2[k] = F[j]
        BY <1>17, <4>1
      <4> QED BY <1>20, <2>3, <4>2
    <3> QED BY <1>18, <3>1, <3>2
  <2>4. own2[i] = IF i \in M THEN Virtio!Nil ELSE own[i]
    BY <1>16
  <2> QED BY <2>1, <2>2, <2>3, <2>4
<1>23. ASSUME NEW g \in H \ {h}
       PROVE  ChainAs(q2, g) /\ \A i \in Virtio!Idx : own2[i] = g <=> i \in Members(q2, g)
  <2>1. ChainAs(q, g) /\ \A i \in Virtio!Idx : own[i] = g <=> i \in Members(q, g)
    BY <1>8 DEF Layout
  <2>2. Members(q, g) \subseteq Virtio!Idx /\ \A i \in Members(q, g) : own[i] = g
    BY <1>8, HeadOwns
  <2>3. PICK u, v : u = Second(q, g) /\ v = Last(q, g)
    OBVIOUS
  <2>4. {g, u, v} \subseteq Virtio!Idx \ M
    BY <1>5, <2>2, <2>3 DEF Members
  <2>5. l \in M
    BY <1>5
  <2>6. Second(q2, g) = u
    BY <1>7, <2>3, <2>4, <2>5 DEF Second
  <2>7. Three(q2, g) = Three(q, g) /\ q2.desc[u].next = q.desc[u].next
    BY <1>7, <2>3, <2>4, <2>5, <2>6 DEF Three
  <2>8. Last(q2, g) = v
    BY <2>3, <2>6, <2>7 DEF Last
  <2>9. Members(q2, g) = Members(q, g)
    BY <2>3, <2>6, <2>8 DEF Members
  <2>10. q2.desc[g].more = q.desc[g].more /\ q2.desc[v].more = q.desc[v].more
    BY <1>7, <2>4
  <2>11. ChainAs(q2, g)
    BY <2>1, <2>3, <2>6, <2>7, <2>8, <2>10 DEF ChainAs
  <2>12. g # Virtio!Nil
    BY <1>9, IdxIs
  <2>13. \A i \in Virtio!Idx : own2[i] = g <=> own[i] = g
    BY <1>5, <1>16, <2>12
  <2> QED BY <2>1, <2>9, <2>11, <2>13
<1>24. Layout(q2, F2, nf2, own2)
  BY <1>10, <1>19, <1>21, <1>22, <1>23 DEF Layout
<1> QED BY <1>8, <1>10, <1>24

\* Descriptors, free list and buffers are all there is to a layout.
LEMMA LayoutSame ==
  ASSUME NEW q, NEW F, NEW nf, NEW own, Layout(q, F, nf, own),
         NEW q2, q2.desc = q.desc, q2.free_head = q.free_head, q2.xdata = q.xdata
  PROVE  Layout(q2, F, nf, own) /\ Virtio!Heads(q2) = Virtio!Heads(q)
<1>1. Virtio!Heads(q2) = Virtio!Heads(q)
  BY DEF Virtio!Heads
<1>2. \A h : ChainAs(q2, h) = ChainAs(q, h) /\ Members(q2, h) = Members(q, h)
  BY DEF ChainAs, Members, Second, Three, Last
<1>3. FreeAs(q2, F, nf) = FreeAs(q, F, nf)
  BY DEF FreeAs
<1> QED BY <1>1, <1>2, <1>3 DEF Layout

-----------------------------------------------------------------------------
(* The steps of a queue.                                                   *)

\* The values in a queue.
LEMMA QueueTypes ==
  ASSUME NEW q \in Queues
  PROVE  /\ q.avail \in [Virtio!Idx -> Virtio!Idx] /\ q.avail_idx \in 0..(IndexMod - 1)
         /\ q.used \in [Virtio!Idx -> Results] /\ q.used_idx \in 0..(IndexMod - 1)
         /\ q.last_used_idx \in 0..(IndexMod - 1)
         /\ q.xdata \in [Virtio!Idx -> Bufs \cup {0}]
         /\ UsedIds(q) \in [Virtio!Idx -> Virtio!Idx]
         /\ Virtio!Heads(q) \subseteq Virtio!Idx
  BY DEF Queues, Results, UsedIds, Virtio!Heads

\* A queue starts with every descriptor free.
LEMMA QueueStarts ==
  ASSUME NEW q, q = Virtio!virtq_create
  PROVE  QueueInv(q, 0, {}) /\ Virtio!Heads(q) = {}
<1>1. PICK last \in Virtio!Idx : last = NQueue - 1
  BY IdxIs
<1>2. 0 \in Virtio!Idx /\ 0 \in 0..(IndexMod - 1)
  BY IdxIs
<1>3. PICK nx \in [Virtio!Idx -> Virtio!Idx \cup {Virtio!Nil}] :
        nx = [i \in Virtio!Idx |-> IF i = last THEN Virtio!Nil ELSE i + 1]
  <2>1. ASSUME NEW i \in Virtio!Idx, i # last PROVE i + 1 \in Virtio!Idx
    BY <1>1, <2>1, IdxIs
  <2> QED BY <2>1
<1>4. PICK d \in [Virtio!Idx -> Descriptors] :
        d = [i \in Virtio!Idx |-> [buf |-> 0, more |-> FALSE, next |-> nx[i]]]
  BY DEF Descriptors
<1>5. PICK z \in [Virtio!Idx -> Bufs \cup {0}], av \in [Virtio!Idx -> Virtio!Idx],
           us \in [Virtio!Idx -> Results] :
        /\ z = [i \in Virtio!Idx |-> 0] /\ av = [i \in Virtio!Idx |-> 0]
        /\ us = [i \in Virtio!Idx |-> [id |-> 0, len |-> 0]]
  BY <1>2 DEF Results, Lens
<1>6. q = [desc |-> d, free_head |-> 0, last_used_idx |-> 0, xdata |-> z,
           avail |-> av, avail_idx |-> 0, used |-> us, used_idx |-> 0]
  BY <1>1, <1>3, <1>4, <1>5 DEF Virtio!virtq_create
<1>7. q \in Queues
  BY <1>2, <1>6 DEF Queues
<1>8. Virtio!Heads(q) = {}
  BY <1>5, <1>6 DEF Virtio!Heads
<1>9. PICK F : F = [k \in Nat |-> IF k \in Virtio!Idx THEN k ELSE Virtio!Nil]
  OBVIOUS
<1>10. FreeAs(q, F, NQueue)
  <2>1. F \in [Nat -> Virtio!Idx \cup {Virtio!Nil}] /\ NQueue \in Nat
    BY <1>9, IdxIs
  <2>2. F[0] = q.free_head /\ F[NQueue] = Virtio!Nil
    BY <1>2, <1>6, <1>9, IdxIs
  <2>3. ASSUME NEW k \in 0..(NQueue - 1) PROVE F[k] = k /\ k \in Virtio!Idx
    BY <1>9, IdxIs
  <2>4. ASSUME NEW k \in 0..(NQueue - 1) PROVE F[k + 1] = q.desc[F[k]].next
    <3>1. q.desc[F[k]].next = nx[k]
      BY <1>4, <1>6, <2>3
    <3>2. CASE k = last
      <4>1. F[k + 1] = Virtio!Nil
        BY <1>1, <2>2, <3>2, IdxIs
      <4> QED BY <1>3, <3>1, <3>2, <4>1
    <3>3. CASE k # last
      <4>1. k + 1 \in Virtio!Idx /\ k + 1 \in Nat
        BY <1>1, <3>3, IdxIs
      <4>2. F[k + 1] = k + 1
        BY <1>9, <4>1
      <4> QED BY <1>3, <2>3, <3>1, <3>3, <4>2
    <3> QED BY <3>2, <3>3
  <2>5. \A j, k \in 0..(NQueue - 1) : j # k => F[j] # F[k]
    BY <2>3
  <2> QED BY <2>1, <2>2, <2>3, <2>4, <2>5 DEF FreeAs
<1>11. PICK own : own = [i \in Virtio!Idx |-> Virtio!Nil]
  OBVIOUS
<1>12. Layout(q, F, NQueue, own)
  <2>1. \A i \in Virtio!Idx : \E k \in 0..(NQueue - 1) : F[k] = i
    BY <1>9, IdxIs
  <2> QED BY <1>8, <1>10, <1>11, <2>1 DEF Layout
<1>13. RingsAs(q, 0, {}, {}, {})
  <2>1. (0 - 0) % IndexMod = 0
    BY Distance, IdxIs, <1>2
  <2>2. RingHolds(q.avail, 0, 0, {}) /\ RingHolds(UsedIds(q), 0, 0, {})
    BY IdxIs DEF RingHolds
  <2> QED BY <1>2, <1>6, <2>1, <2>2 DEF RingsAs
<1> QED BY <1>7, <1>8, <1>12, <1>13 DEF QueueInv

\* A chain is published: it waits for the device.
LEMMA QueueEnqueue ==
  ASSUME NEW q, NEW at, NEW busy, QueueInv(q, at, busy), NEW n \in {2, 3}, Virtio!HasRoom(q, n),
         NEW x \in Bufs, NEW q2, q2 = Virtio!virtq_enqueue(q, n, x)
  PROVE  /\ QueueInv(q2, at, busy)
         /\ \E h \in Virtio!Idx \ Virtio!Heads(q) : Virtio!Heads(q2) = Virtio!Heads(q) \cup {h}
<1>1. q \in Queues
  BY DEF QueueInv
<1>2. PICK F, nf, own : Layout(q, F, nf, own)
  BY DEF QueueInv
<1>3. PICK P, U : RingsAs(q, at, busy, P, U)
  BY DEF QueueInv
<1>4. FreeAs(q, F, nf)
  BY <1>2 DEF Layout
<1>5. n <= nf
  <2>1. n \in Nat \ {0}
    OBVIOUS
  <2> QED BY <1>4, <2>1, RoomIs
<1>6. Enqueued(q, F, n, x, q2)
  BY <1>1, <1>4, <1>5, EnqueueIs
<1>7. PICK a, b : a = F[0] /\ b = F[1]
  OBVIOUS
<1>8. PICK H : H = Virtio!Heads(q)
  OBVIOUS
<1>9. /\ \E F2, nf2, own2 : Layout(q2, F2, nf2, own2)
      /\ a \in Virtio!Idx \ H /\ b \in Virtio!Idx \ H /\ a # b
      /\ Virtio!Heads(q2) = H \cup {a}
  BY <1>1, <1>2, <1>5, <1>7, <1>8, EnqueueKeeps
<1>10. /\ at \in 0..(IndexMod - 1) /\ P \subseteq H /\ U \subseteq H /\ busy \subseteq H
       /\ P \cap U = {} /\ P \cap busy = {} /\ U \cap busy = {}
       /\ RingHolds(q.avail, at, (q.avail_idx - at) % IndexMod, P)
       /\ RingHolds(UsedIds(q), q.last_used_idx, (q.used_idx - q.last_used_idx) % IndexMod, U)
  BY <1>3, <1>8 DEF RingsAs
<1>11. /\ q.avail \in [Virtio!Idx -> Virtio!Idx] /\ q.avail_idx \in 0..(IndexMod - 1)
       /\ H \subseteq Virtio!Idx
  BY <1>1, <1>8, QueueTypes
<1>12. PICK r, p, r2 : r = q.avail /\ p = q.avail_idx /\ r2 = q2.avail
  OBVIOUS
<1>13. /\ r2 = [r EXCEPT ![p % NQueue] = a]
       /\ q2.avail_idx = (p + 1) % IndexMod
       /\ UsedIds(q2) = UsedIds(q) /\ q2.used_idx = q.used_idx /\ q2.last_used_idx = q.last_used_idx
  BY <1>6, <1>7, <1>12 DEF Enqueued, UsedIds
<1>14. RingHolds(r2, at, (((p + 1) % IndexMod) - at) % IndexMod, P \cup {a})
  <2>1. a \in Virtio!Idx \ P /\ b \in Virtio!Idx \ P /\ P \subseteq Virtio!Idx /\ a \notin P
    BY <1>9, <1>10, <1>11
  <2>2. RingHolds(r, at, (p - at) % IndexMod, P)
    BY <1>10, <1>12
  <2> QED BY <1>9, <1>10, <1>11, <1>12, <1>13, <2>1, <2>2, Grows
<1>15. RingHolds(q2.avail, at, (q2.avail_idx - at) % IndexMod, P \cup {a})
  BY <1>12, <1>13, <1>14
<1>16. RingHolds(UsedIds(q2), q2.last_used_idx, (q2.used_idx - q2.last_used_idx) % IndexMod, U)
  BY <1>10, <1>13
<1>17. RingsAs(q2, at, busy, P \cup {a}, U)
  <2>1. /\ P \cup {a} \subseteq Virtio!Heads(q2) /\ U \subseteq Virtio!Heads(q2)
        /\ busy \subseteq Virtio!Heads(q2)
        /\ (P \cup {a}) \cap U = {} /\ (P \cup {a}) \cap busy = {}
    BY <1>9, <1>10
  <2> QED BY <1>10, <1>15, <1>16, <2>1 DEF RingsAs
<1>18. QueueInv(q2, at, busy)
  <2>1. q2 \in Queues
    BY <1>6 DEF Enqueued
  <2> QED BY <1>9, <1>17, <2>1 DEF QueueInv
<1> QED BY <1>8, <1>9, <1>18

\* What the device returned is a chain that is out, with its buffer; the driver
\* takes the buffer and frees the chain.
LEMMA QueueDequeue ==
  ASSUME NEW q, NEW at, NEW busy, QueueInv(q, at, busy), ~Virtio!NothingUsed(q),
         NEW q2, q2 = Virtio!virtq_dequeue(q)
  PROVE  /\ Virtio!Dequeued(q) # 0
         /\ QueueInv(q2, at, busy)
         /\ \E h \in Virtio!Heads(q) : Virtio!Heads(q2) = Virtio!Heads(q) \ {h}
<1>1. q \in Queues
  BY DEF QueueInv
<1>2. PICK F, nf, own : Layout(q, F, nf, own)
  BY DEF QueueInv
<1>3. PICK P, U : RingsAs(q, at, busy, P, U)
  BY DEF QueueInv
<1>4. PICK H : H = Virtio!Heads(q)
  OBVIOUS
<1>5. /\ at \in 0..(IndexMod - 1) /\ P \subseteq H /\ U \subseteq H /\ busy \subseteq H
      /\ P \cap U = {} /\ P \cap busy = {} /\ U \cap busy = {}
      /\ RingHolds(q.avail, at, (q.avail_idx - at) % IndexMod, P)
      /\ RingHolds(UsedIds(q), q.last_used_idx, (q.used_idx - q.last_used_idx) % IndexMod, U)
  BY <1>3, <1>4 DEF RingsAs
<1>6. PICK r, l, p : r = UsedIds(q) /\ l = q.last_used_idx /\ p = q.used_idx
  OBVIOUS
<1>7. /\ r \in [Virtio!Idx -> Virtio!Idx] /\ l \in 0..(IndexMod - 1) /\ p \in 0..(IndexMod - 1)
      /\ H \subseteq Virtio!Idx /\ p # l
  BY <1>1, <1>4, <1>6, QueueTypes DEF Virtio!NothingUsed
<1>8. PICK h : h = r[l % NQueue]
  OBVIOUS
<1>9. h = Virtio!UsedElem(q).id
  <2>1. l \in Nat
    BY <1>7
  <2>2. l % NQueue \in Virtio!Idx
    BY <2>1, SlotIs
  <2> QED BY <1>6, <1>8, <2>2 DEF Virtio!UsedElem, UsedIds
<1>10. /\ h \in U
       /\ RingHolds(r, (l + 1) % IndexMod, (p - ((l + 1) % IndexMod)) % IndexMod, U \ {h})
  <2>1. RingHolds(r, l, (p - l) % IndexMod, U)
    BY <1>5, <1>6
  <2> QED BY <1>7, <1>8, <2>1, Shrinks
<1>11. h \in H /\ h \in Virtio!Idx
  BY <1>5, <1>7, <1>10
<1>12. Virtio!Dequeued(q) # 0
  BY <1>4, <1>9, <1>11 DEF Virtio!Dequeued, Virtio!Heads
<1>13. Released(q, h, q2)
  <2>1. ChainAs(q, h)
    BY <1>2, <1>4, <1>11 DEF Layout
  <2> QED BY <1>1, <1>9, <1>11, <2>1, DequeueIs
<1>14. /\ \E F2, nf2, own2 : Layout(q2, F2, nf2, own2)
       /\ Virtio!Heads(q2) = H \ {h}
  BY <1>1, <1>2, <1>4, <1>11, <1>13, ReleaseKeeps
<1>15. /\ q2 \in Queues /\ q2.avail = q.avail /\ q2.avail_idx = q.avail_idx
       /\ UsedIds(q2) = r /\ q2.used_idx = p /\ q2.last_used_idx = (l + 1) % IndexMod
  BY <1>6, <1>13 DEF Released, UsedIds
<1>16. RingHolds(q2.avail, at, (q2.avail_idx - at) % IndexMod, P)
  BY <1>5, <1>15
<1>17. RingHolds(UsedIds(q2), q2.last_used_idx, (q2.used_idx - q2.last_used_idx) % IndexMod, U \ {h})
  BY <1>10, <1>15
<1>18. RingsAs(q2, at, busy, P, U \ {h})
  <2>1. /\ P \subseteq Virtio!Heads(q2) /\ U \ {h} \subseteq Virtio!Heads(q2)
        /\ busy \subseteq Virtio!Heads(q2) /\ P \cap (U \ {h}) = {} /\ (U \ {h}) \cap busy = {}
    BY <1>5, <1>10, <1>14
  <2> QED BY <1>5, <1>16, <1>17, <2>1 DEF RingsAs
<1>19. QueueInv(q2, at, busy)
  BY <1>14, <1>15, <1>18 DEF QueueInv
<1> QED BY <1>4, <1>11, <1>12, <1>14, <1>19

\* The device takes the next chain.
LEMMA QueueTaken ==
  ASSUME NEW q, NEW at, NEW busy, QueueInv(q, at, busy), at # q.avail_idx,
         NEW h, h = q.avail[at % NQueue]
  PROVE  h \in Virtio!Heads(q) /\ h \notin busy /\ QueueInv(q, (at + 1) % IndexMod, busy \cup {h})
<1>1. q \in Queues
  BY DEF QueueInv
<1>2. PICK P, U : RingsAs(q, at, busy, P, U)
  BY DEF QueueInv
<1>3. PICK H : H = Virtio!Heads(q)
  OBVIOUS
<1>4. /\ at \in 0..(IndexMod - 1) /\ P \subseteq H /\ U \subseteq H /\ busy \subseteq H
      /\ P \cap U = {} /\ P \cap busy = {} /\ U \cap busy = {}
      /\ RingHolds(q.avail, at, (q.avail_idx - at) % IndexMod, P)
      /\ RingHolds(UsedIds(q), q.last_used_idx, (q.used_idx - q.last_used_idx) % IndexMod, U)
  BY <1>2, <1>3 DEF RingsAs
<1>5. q.avail_idx \in 0..(IndexMod - 1)
  BY <1>1, QueueTypes
<1>6. PICK e \in 0..(IndexMod - 1) : e = (at + 1) % IndexMod
  BY <1>4, Next1, IdxIs
<1>7. h \in P /\ RingHolds(q.avail, e, (q.avail_idx - e) % IndexMod, P \ {h})
  BY <1>4, <1>5, <1>6, Shrinks
<1>8. RingsAs(q, e, busy \cup {h}, P \ {h}, U)
  <2>1. /\ P \ {h} \subseteq H /\ busy \cup {h} \subseteq H /\ (P \ {h}) \cap U = {}
        /\ (P \ {h}) \cap (busy \cup {h}) = {} /\ U \cap (busy \cup {h}) = {}
    BY <1>4, <1>7
  <2> QED BY <1>3, <1>4, <1>6, <1>7, <2>1 DEF RingsAs
<1>9. QueueInv(q, e, busy \cup {h})
  BY <1>1, <1>8 DEF QueueInv
<1>10. h \in H /\ h \notin busy
  BY <1>4, <1>7
<1> QED BY <1>3, <1>6, <1>9, <1>10

\* The device returns a chain it works on, whichever it is.
LEMMA QueueReturned ==
  ASSUME NEW q, NEW at, NEW busy, QueueInv(q, at, busy), NEW h \in busy, NEW len \in Lens,
         NEW q2, q2 = Virtio!PushUsed(q, h, len)
  PROVE  QueueInv(q2, at, busy \ {h}) /\ Virtio!Heads(q2) = Virtio!Heads(q)
<1>1. q \in Queues
  BY DEF QueueInv
<1>2. PICK F, nf, own : Layout(q, F, nf, own)
  BY DEF QueueInv
<1>3. PICK P, U : RingsAs(q, at, busy, P, U)
  BY DEF QueueInv
<1>4. PICK H : H = Virtio!Heads(q)
  OBVIOUS
<1>5. /\ at \in 0..(IndexMod - 1) /\ P \subseteq H /\ U \subseteq H /\ busy \subseteq H
      /\ P \cap U = {} /\ P \cap busy = {} /\ U \cap busy = {}
      /\ RingHolds(q.avail, at, (q.avail_idx - at) % IndexMod, P)
      /\ RingHolds(UsedIds(q), q.last_used_idx, (q.used_idx - q.last_used_idx) % IndexMod, U)
  BY <1>3, <1>4 DEF RingsAs
<1>6. PICK r, l, p : r = UsedIds(q) /\ l = q.last_used_idx /\ p = q.used_idx
  OBVIOUS
<1>7. /\ r \in [Virtio!Idx -> Virtio!Idx] /\ l \in 0..(IndexMod - 1) /\ p \in 0..(IndexMod - 1)
      /\ H \subseteq Virtio!Idx /\ q.used \in [Virtio!Idx -> Results]
  BY <1>1, <1>4, <1>6, QueueTypes
<1>8. PICK e \in 0..(IndexMod - 1), s \in Virtio!Idx : e = (p + 1) % IndexMod /\ s = p % NQueue
  <2>1. p \in Nat
    BY <1>7
  <2> QED BY <1>7, <2>1, SlotIs, Next1, IdxIs
<1>9. h \in H /\ h \in Virtio!Idx /\ h \notin U
  BY <1>5, <1>7
<1>10. PICK v \in Results : v = [id |-> h, len |-> len]
  BY <1>9 DEF Results
<1>11. PICK us \in [Virtio!Idx -> Results] : us = [q.used EXCEPT ![s] = v]
  BY <1>7
<1>12. q2 = [q EXCEPT !.used = us, !.used_idx = e]
  BY <1>6, <1>8, <1>10, <1>11 DEF Virtio!PushUsed
<1>13. /\ q2 \in Queues /\ q2.desc = q.desc /\ q2.free_head = q.free_head /\ q2.xdata = q.xdata
       /\ q2.avail = q.avail /\ q2.avail_idx = q.avail_idx /\ q2.last_used_idx = l
       /\ q2.used_idx = e /\ q2.used = us
  BY <1>1, <1>6, <1>12 DEF Queues
<1>14. PICK r2 : r2 = UsedIds(q2)
  OBVIOUS
<1>15. r2 = [r EXCEPT ![s] = h]
  <2>1. \A i \in Virtio!Idx : us[i].id = IF i = s THEN h ELSE q.used[i].id
    BY <1>7, <1>10, <1>11
  <2> QED BY <1>6, <1>7, <1>13, <1>14, <2>1 DEF UsedIds
<1>16. PICK a : a = Second(q, h)
  OBVIOUS
<1>17. a \in Virtio!Idx \ U /\ a # h
  <2>1. ChainAs(q, h) /\ a \in Members(q, h)
    BY <1>2, <1>4, <1>9, <1>16 DEF Layout, Members
  <2>2. a # h /\ a \in Virtio!Idx
    BY <1>16, <2>1 DEF ChainAs
  <2>3. own[a] = h
    BY <1>2, <1>4, <1>9, <2>1, HeadOwns
  <2>4. \A g \in H : own[g] = g
    BY <1>2, <1>4, HeadOwns
  <2> QED BY <1>5, <2>2, <2>3, <2>4
<1>18. RingHolds(r2, l, (((p + 1) % IndexMod) - l) % IndexMod, U \cup {h})
  <2>1. RingHolds(r, l, (p - l) % IndexMod, U)
    BY <1>5, <1>6
  <2>2. h \in Virtio!Idx \ U /\ U \subseteq Virtio!Idx
    BY <1>5, <1>7, <1>9
  <2>3. r2 = [r EXCEPT ![p % NQueue] = h]
    BY <1>8, <1>15
  <2> QED BY <1>7, <1>9, <1>17, <2>1, <2>2, <2>3, Grows
<1>19. RingHolds(UsedIds(q2), q2.last_used_idx, (q2.used_idx - q2.last_used_idx) % IndexMod, U \cup {h})
  BY <1>8, <1>13, <1>14, <1>18
<1>20. RingHolds(q2.avail, at, (q2.avail_idx - at) % IndexMod, P)
  BY <1>5, <1>13
<1>21. Layout(q2, F, nf, own) /\ Virtio!Heads(q2) = H
  BY <1>2, <1>4, <1>13, LayoutSame
<1>22. RingsAs(q2, at, busy \ {h}, P, U \cup {h})
  <2>1. /\ P \subseteq H /\ U \cup {h} \subseteq H /\ busy \ {h} \subseteq H
        /\ P \cap (U \cup {h}) = {} /\ P \cap (busy \ {h}) = {} /\ (U \cup {h}) \cap (busy \ {h}) = {}
    BY <1>5, <1>9
  <2> QED BY <1>5, <1>19, <1>20, <1>21, <2>1 DEF RingsAs
<1>23. QueueInv(q2, at, busy \ {h})
  BY <1>13, <1>21, <1>22 DEF QueueInv
<1> QED BY <1>4, <1>21, <1>23

-----------------------------------------------------------------------------
(* The steps of the virtio driver and of its device.                       *)

\* A pair of queues.
Pair(t, r) == [x \in {"tx", "rx"} |-> IF x = "tx" THEN t ELSE r]

\* Changing one queue of a pair leaves the other.
LEMMA PairIs ==
  ASSUME NEW t, NEW r, NEW c
  PROVE  /\ Pair(t, r)["tx"] = t /\ Pair(t, r)["rx"] = r
         /\ Pair(t, r) = [x \in {"tx", "rx"} |-> Pair(t, r)[x]]
         /\ [Pair(t, r) EXCEPT !["tx"] = c] = Pair(c, r)
         /\ [Pair(t, r) EXCEPT !["rx"] = c] = Pair(t, c)
  BY DEF Pair

\* The invariant of the next state, from its parts.
LEMMA VirtioInvPrime ==
  ASSUME NEW t, NEW r, NEW i, NEW j, NEW b, rings' = Pair(t, r),
         {"tx_at", "rx_at", "busy"} \subseteq DOMAIN dev',
         dev'.tx_at = i, dev'.rx_at = j, dev'.busy = b,
         QueueInv(t, i, b), QueueInv(r, j, {}), halted' # "xdata",
         aux' = Cardinality(Virtio!Heads(r))
  PROVE  VirtioInv'
<1>1. rings'["tx"] = t /\ rings'["rx"] = r /\ rings' = [x \in {"tx", "rx"} |-> rings'[x]]
  BY PairIs
<1> QED BY <1>1 DEF VirtioInv

\* The parts of the invariant.
LEMMA VirtioParts ==
  ASSUME VirtioInv
  PROVE  \E t, r, i, j, b :
           /\ rings = Pair(t, r) /\ rings["tx"] = t /\ rings["rx"] = r
           /\ {"tx_at", "rx_at", "busy"} \subseteq DOMAIN dev
           /\ dev.tx_at = i /\ dev.rx_at = j /\ dev.busy = b
           /\ QueueInv(t, i, b) /\ QueueInv(r, j, {}) /\ halted # "xdata"
           /\ aux = Cardinality(Virtio!Heads(r))
<1>1. rings = Pair(rings["tx"], rings["rx"])
  BY DEF VirtioInv, Pair
<1> QED BY <1>1 DEF VirtioInv

\* Steps that leave the rings and the device's place in them alone.
LEMMA VirtioElsewhere ==
  ASSUME VirtioInv, rings' = rings, aux' = aux, halted' # "xdata",
         {"tx_at", "rx_at", "busy"} \subseteq DOMAIN dev',
         dev'.tx_at = dev.tx_at, dev'.rx_at = dev.rx_at, dev'.busy = dev.busy
  PROVE  VirtioInv'
  BY DEF VirtioInv

\* The chains that are out are counted.
LEMMA HeadsCount ==
  ASSUME NEW q, NEW at, NEW busy, QueueInv(q, at, busy)
  PROVE  /\ \A h \in Virtio!Idx \ Virtio!Heads(q) :
              Cardinality(Virtio!Heads(q) \cup {h}) = Cardinality(Virtio!Heads(q)) + 1
         /\ \A h \in Virtio!Heads(q) :
              Cardinality(Virtio!Heads(q) \ {h}) = Cardinality(Virtio!Heads(q)) - 1
<1>1. Virtio!Heads(q) \subseteq Virtio!Idx
  BY DEF Virtio!Heads
<1>2. IsFiniteSet(Virtio!Idx)
  BY FS_Interval, IdxIs
<1>3. IsFiniteSet(Virtio!Heads(q))
  BY <1>1, <1>2, FS_Subset
<1> QED BY <1>3, FS_AddElement, FS_RemoveElement

\* The heap gives a buffer when it has one.
LEMMA VirtioSomeFree ==
  ASSUME Virtio!FreeBufs # {}
  PROVE  Virtio!SomeFree \in Bufs
  BY DEF Virtio!SomeFree, Virtio!FreeBufs

\* Both queues start empty.
LEMMA VirtioStarts ==
  ASSUME Virtio!Init
  PROVE  VirtioInv
<1>1. PICK q : q = Virtio!virtq_create
  OBVIOUS
<1>2. QueueInv(q, 0, {}) /\ Virtio!Heads(q) = {}
  BY <1>1, QueueStarts
<1>3. rings = [x \in {"tx", "rx"} |-> q] /\ aux = 0 /\ halted = "" /\ dev \in Virtio!Devices
  BY <1>1 DEF Virtio!Init
<1>4. /\ {"tx_at", "rx_at", "busy"} \subseteq DOMAIN dev
      /\ dev.tx_at = 0 /\ dev.rx_at = 0 /\ dev.busy = {}
  BY <1>3 DEF Virtio!Devices
<1> QED BY <1>2, <1>3, <1>4, FS_EmptySet DEF VirtioInv

\* A receive buffer is queued.
LEMMA VirtioFill ==
  ASSUME VirtioInv, Virtio!FillRecvQueue, UNCHANGED <<dev, halted>>
  PROVE  VirtioInv'
<1>1. PICK t, r, i, j, b :
        /\ rings = Pair(t, r) /\ rings["tx"] = t /\ rings["rx"] = r
        /\ {"tx_at", "rx_at", "busy"} \subseteq DOMAIN dev
        /\ dev.tx_at = i /\ dev.rx_at = j /\ dev.busy = b
        /\ QueueInv(t, i, b) /\ QueueInv(r, j, {}) /\ halted # "xdata"
        /\ aux = Cardinality(Virtio!Heads(r))
  BY VirtioParts
<1>2. PICK x, r2 : x = Virtio!SomeFree /\ r2 = Virtio!virtq_enqueue(r, 2, x)
  OBVIOUS
<1>3. x \in Bufs /\ Virtio!HasRoom(r, 2) /\ aux' = aux + 1
  BY <1>1, <1>2, VirtioSomeFree DEF Virtio!FillRecvQueue
<1>4. rings' = [Pair(t, r) EXCEPT !["rx"] = r2]
  BY <1>1, <1>2 DEF Virtio!FillRecvQueue
<1>5. rings' = Pair(t, r2)
  BY <1>4, PairIs
<1>6. /\ QueueInv(r2, j, {})
      /\ \E h \in Virtio!Idx \ Virtio!Heads(r) : Virtio!Heads(r2) = Virtio!Heads(r) \cup {h}
  BY <1>1, <1>2, <1>3, QueueEnqueue
<1>7. aux' = Cardinality(Virtio!Heads(r2))
  BY <1>1, <1>3, <1>6, HeadsCount
<1> QED BY <1>1, <1>5, <1>6, <1>7, VirtioInvPrime

\* A frame is queued for transmission.
LEMMA VirtioXmit ==
  ASSUME VirtioInv, NEW f, Virtio!virtio_net_xmit(f)
  PROVE  VirtioInv'
<1>1. PICK t, r, i, j, b :
        /\ rings = Pair(t, r) /\ rings["tx"] = t /\ rings["rx"] = r
        /\ {"tx_at", "rx_at", "busy"} \subseteq DOMAIN dev
        /\ dev.tx_at = i /\ dev.rx_at = j /\ dev.busy = b
        /\ QueueInv(t, i, b) /\ QueueInv(r, j, {}) /\ halted # "xdata"
        /\ aux = Cardinality(Virtio!Heads(r))
  BY VirtioParts
<1>2. PICK x, n, t2 : x = Virtio!SomeFree /\ n = Virtio!Descs(f) /\ t2 = Virtio!virtq_enqueue(t, n, x)
  OBVIOUS
<1>3. n \in {2, 3}
  BY <1>2 DEF Virtio!Descs
<1>4. x \in Bufs /\ Virtio!HasRoom(t, n) /\ aux' = aux /\ halted' = halted
  BY <1>1, <1>2, VirtioSomeFree DEF Virtio!virtio_net_xmit
<1>5. dev' = [dev EXCEPT !.ntx = @ + 1]
  BY DEF Virtio!virtio_net_xmit
<1>6. rings' = [Pair(t, r) EXCEPT !["tx"] = t2]
  BY <1>1, <1>2 DEF Virtio!virtio_net_xmit
<1>7. rings' = Pair(t2, r)
  BY <1>6, PairIs
<1>8. QueueInv(t2, i, b)
  BY <1>1, <1>2, <1>3, <1>4, QueueEnqueue
<1>9. /\ {"tx_at", "rx_at", "busy"} \subseteq DOMAIN dev'
      /\ dev'.tx_at = i /\ dev'.rx_at = j /\ dev'.busy = b
  BY <1>1, <1>5
<1> QED BY <1>1, <1>4, <1>7, <1>8, <1>9, VirtioInvPrime

\* A transmitted frame's chain and buffer are freed.
LEMMA VirtioTxintr ==
  ASSUME VirtioInv, Virtio!txintr
  PROVE  VirtioInv'
<1>1. PICK t, r, i, j, b :
        /\ rings = Pair(t, r) /\ rings["tx"] = t /\ rings["rx"] = r
        /\ {"tx_at", "rx_at", "busy"} \subseteq DOMAIN dev
        /\ dev.tx_at = i /\ dev.rx_at = j /\ dev.busy = b
        /\ QueueInv(t, i, b) /\ QueueInv(r, j, {}) /\ halted # "xdata"
        /\ aux = Cardinality(Virtio!Heads(r))
  BY VirtioParts
<1>2. PICK t2 : t2 = Virtio!virtq_dequeue(t)
  OBVIOUS
<1>3. ~Virtio!NothingUsed(t) /\ dev' = dev /\ aux' = aux
  BY <1>1 DEF Virtio!txintr
<1>4. Virtio!Dequeued(t) # 0 /\ QueueInv(t2, i, b)
  BY <1>1, <1>2, <1>3, QueueDequeue
<1>5. rings' = [Pair(t, r) EXCEPT !["tx"] = t2] /\ halted' = halted
  BY <1>1, <1>2, <1>4 DEF Virtio!txintr
<1>6. rings' = Pair(t2, r)
  BY <1>5, PairIs
<1> QED BY <1>1, <1>3, <1>4, <1>5, <1>6, VirtioInvPrime

\* A received frame's chain is freed and its buffer handed on.
LEMMA VirtioRxintr ==
  ASSUME VirtioInv, Virtio!rxintr
  PROVE  VirtioInv'
<1>1. PICK t, r, i, j, b :
        /\ rings = Pair(t, r) /\ rings["tx"] = t /\ rings["rx"] = r
        /\ {"tx_at", "rx_at", "busy"} \subseteq DOMAIN dev
        /\ dev.tx_at = i /\ dev.rx_at = j /\ dev.busy = b
        /\ QueueInv(t, i, b) /\ QueueInv(r, j, {}) /\ halted # "xdata"
        /\ aux = Cardinality(Virtio!Heads(r))
  BY VirtioParts
<1>2. PICK r2 : r2 = Virtio!virtq_dequeue(r)
  OBVIOUS
<1>3. ~Virtio!NothingUsed(r) /\ dev' = dev
  BY <1>1 DEF Virtio!rxintr
<1>4. /\ Virtio!Dequeued(r) # 0 /\ QueueInv(r2, j, {})
      /\ \E h \in Virtio!Heads(r) : Virtio!Heads(r2) = Virtio!Heads(r) \ {h}
  BY <1>1, <1>2, <1>3, QueueDequeue
<1>5. rings' = [Pair(t, r) EXCEPT !["rx"] = r2] /\ halted' = halted /\ aux' = aux - 1
  BY <1>1, <1>2, <1>4 DEF Virtio!rxintr
<1>6. rings' = Pair(t, r2)
  BY <1>5, PairIs
<1>7. aux' = Cardinality(Virtio!Heads(r2))
  BY <1>1, <1>4, <1>5, HeadsCount
<1> QED BY <1>1, <1>3, <1>4, <1>5, <1>6, <1>7, VirtioInvPrime

\* The device reads a chain.
LEMMA VirtioTransmit ==
  ASSUME VirtioInv, Virtio!DevTransmit
  PROVE  VirtioInv'
<1>1. PICK t, r, i, j, b :
        /\ rings = Pair(t, r) /\ rings["tx"] = t /\ rings["rx"] = r
        /\ {"tx_at", "rx_at", "busy"} \subseteq DOMAIN dev
        /\ dev.tx_at = i /\ dev.rx_at = j /\ dev.busy = b
        /\ QueueInv(t, i, b) /\ QueueInv(r, j, {}) /\ halted # "xdata"
        /\ aux = Cardinality(Virtio!Heads(r))
  BY VirtioParts
<1>2. PICK h, i2 : h = t.avail[i % NQueue] /\ i2 = (i + 1) % IndexMod
  OBVIOUS
<1>3. i # t.avail_idx /\ rings' = Pair(t, r) /\ aux' = aux /\ halted' = halted
  BY <1>1 DEF Virtio!DevTransmit
<1>4. dev' = [dev EXCEPT !.tx_at = i2, !.busy = @ \cup {h}]
  BY <1>1, <1>2 DEF Virtio!DevTransmit
<1>5. QueueInv(t, i2, b \cup {h})
  BY <1>1, <1>2, <1>3, QueueTaken
<1>6. /\ {"tx_at", "rx_at", "busy"} \subseteq DOMAIN dev'
      /\ dev'.tx_at = i2 /\ dev'.rx_at = j /\ dev'.busy = b \cup {h}
  BY <1>1, <1>4
<1> QED BY <1>1, <1>3, <1>5, <1>6, VirtioInvPrime

\* The device returns a chain.
LEMMA VirtioTxDone ==
  ASSUME VirtioInv, Virtio!DevTxDone
  PROVE  VirtioInv'
<1>1. PICK t, r, i, j, b :
        /\ rings = Pair(t, r) /\ rings["tx"] = t /\ rings["rx"] = r
        /\ {"tx_at", "rx_at", "busy"} \subseteq DOMAIN dev
        /\ dev.tx_at = i /\ dev.rx_at = j /\ dev.busy = b
        /\ QueueInv(t, i, b) /\ QueueInv(r, j, {}) /\ halted # "xdata"
        /\ aux = Cardinality(Virtio!Heads(r))
  BY VirtioParts
<1>2. PICK h \in b : /\ rings' = [rings EXCEPT !["tx"] = Virtio!PushUsed(@, h, 0)]
                     /\ dev' = [dev EXCEPT !.busy = @ \ {h}]
  BY <1>1 DEF Virtio!DevTxDone
<1>3. PICK t2 : t2 = Virtio!PushUsed(t, h, 0)
  OBVIOUS
<1>4. aux' = aux /\ halted' = halted
  BY DEF Virtio!DevTxDone
<1>5. rings' = [Pair(t, r) EXCEPT !["tx"] = t2]
  BY <1>1, <1>2, <1>3
<1>6. rings' = Pair(t2, r)
  BY <1>5, PairIs
<1>7. QueueInv(t2, i, b \ {h})
  <2>1. 0 \in Lens
    BY DEF Lens
  <2> QED BY <1>1, <1>3, <2>1, QueueReturned
<1>8. /\ {"tx_at", "rx_at", "busy"} \subseteq DOMAIN dev'
      /\ dev'.tx_at = i /\ dev'.rx_at = j /\ dev'.busy = b \ {h}
  BY <1>1, <1>2
<1> QED BY <1>1, <1>4, <1>6, <1>7, <1>8, VirtioInvPrime

\* The device fills the next receive buffer and returns it.
LEMMA VirtioReceive ==
  ASSUME VirtioInv, NEW f \in RxFrames, Virtio!DevReceive(f)
  PROVE  VirtioInv'
<1>1. PICK t, r, i, j, b :
        /\ rings = Pair(t, r) /\ rings["tx"] = t /\ rings["rx"] = r
        /\ {"tx_at", "rx_at", "busy"} \subseteq DOMAIN dev
        /\ dev.tx_at = i /\ dev.rx_at = j /\ dev.busy = b
        /\ QueueInv(t, i, b) /\ QueueInv(r, j, {}) /\ halted # "xdata"
        /\ aux = Cardinality(Virtio!Heads(r))
  BY VirtioParts
<1>2. PICK h, j2, len : h = r.avail[j % NQueue] /\ j2 = (j + 1) % IndexMod
                        /\ len = Virtio!VnetHdrSize + Virtio!FrameLen(f)
  OBVIOUS
<1>3. PICK r2 : r2 = Virtio!PushUsed(r, h, len)
  OBVIOUS
<1>4. j # r.avail_idx /\ aux' = aux /\ halted' = halted
  BY <1>1 DEF Virtio!DevReceive
<1>5. rings' = [Pair(t, r) EXCEPT !["rx"] = r2]
  BY <1>1, <1>2, <1>3 DEF Virtio!DevReceive
<1>6. rings' = Pair(t, r2)
  BY <1>5, PairIs
<1>7. dev' = [dev EXCEPT !.rx_at = j2, !.nrx = @ + 1]
  BY <1>1, <1>2 DEF Virtio!DevReceive
<1>8. QueueInv(r, j2, {} \cup {h})
  BY <1>1, <1>2, <1>4, QueueTaken
<1>9. QueueInv(r2, j2, ({} \cup {h}) \ {h}) /\ Virtio!Heads(r2) = Virtio!Heads(r)
  <2>1. len \in Lens /\ h \in {} \cup {h}
    BY <1>2 DEF Lens
  <2> QED BY <1>3, <1>8, <2>1, QueueReturned
<1>10. ({} \cup {h}) \ {h} = {}
  OBVIOUS
<1>11. QueueInv(r2, j2, {})
  BY <1>9, <1>10
<1>12. /\ {"tx_at", "rx_at", "busy"} \subseteq DOMAIN dev'
       /\ dev'.tx_at = i /\ dev'.rx_at = j2 /\ dev'.busy = b
  BY <1>1, <1>7
<1> QED BY <1>1, <1>4, <1>6, <1>9, <1>11, <1>12, VirtioInvPrime

\* The steps of the driver and the device that neither take nor return a chain.
LEMMA VirtioQuiet ==
  ASSUME VirtioInv,
         \/ Virtio!vtmmio_probe \/ Virtio!vtmmio_negotiate \/ Virtio!vtmmio_driver_ok
         \/ Virtio!vtmmio_set_virtq("rx", "features", "rxdone")
         \/ Virtio!vtmmio_set_virtq("tx", "rxdone", "queues")
         \/ \E f \in TxFrames : Virtio!XmitPanic(f)
         \/ Virtio!virtq_kick \/ Virtio!vtmmio_intr \/ Virtio!TxIntrDone
         \/ Virtio!RxIntrEmpty \/ Virtio!RefillDone \/ Virtio!FillFault
         \/ Virtio!DevWake \/ Virtio!DevPause
         \/ \E b \in Bufs : Virtio!MsgFree(b)
  PROVE  VirtioInv'
<1> DEFINE Stay == dev' = dev
           SetReady(q) == dev' = [dev EXCEPT !.ready = @ \cup ({q} \cap dev.big)]
<1>1. {"tx_at", "rx_at", "busy"} \subseteq DOMAIN dev /\ halted # "xdata"
  BY DEF VirtioInv
<1>2. SUFFICES /\ rings' = rings /\ aux' = aux /\ halted' # "xdata"
               /\ {"tx_at", "rx_at", "busy"} \subseteq DOMAIN dev'
               /\ dev'.tx_at = dev.tx_at /\ dev'.rx_at = dev.rx_at /\ dev'.busy = dev.busy
  BY VirtioElsewhere
<1>3. CASE Virtio!vtmmio_probe
  BY <1>1, <1>3 DEF Virtio!vtmmio_probe
<1>4. CASE Virtio!vtmmio_negotiate
  BY <1>1, <1>4 DEF Virtio!vtmmio_negotiate
<1>5. CASE Virtio!vtmmio_driver_ok
  BY <1>1, <1>5 DEF Virtio!vtmmio_driver_ok
<1>6. CASE Virtio!vtmmio_set_virtq("rx", "features", "rxdone")
  BY <1>1, <1>6 DEF Virtio!vtmmio_set_virtq
<1>7. CASE Virtio!vtmmio_set_virtq("tx", "rxdone", "queues")
  BY <1>1, <1>7 DEF Virtio!vtmmio_set_virtq
<1>8. CASE \E f \in TxFrames : Virtio!XmitPanic(f)
  BY <1>1, <1>8 DEF Virtio!XmitPanic
<1>9. CASE Virtio!virtq_kick
  BY <1>1, <1>9 DEF Virtio!virtq_kick
<1>10. CASE Virtio!vtmmio_intr
  BY <1>1, <1>10 DEF Virtio!vtmmio_intr
<1>11. CASE Virtio!TxIntrDone
  BY <1>1, <1>11 DEF Virtio!TxIntrDone
<1>12. CASE Virtio!RxIntrEmpty
  BY <1>1, <1>12 DEF Virtio!RxIntrEmpty
<1>13. CASE Virtio!RefillDone
  BY <1>1, <1>13 DEF Virtio!RefillDone
<1>14. CASE Virtio!DevWake
  BY <1>1, <1>14 DEF Virtio!DevWake
<1>15. CASE Virtio!DevPause
  BY <1>1, <1>15 DEF Virtio!DevPause
<1>16. CASE \E b \in Bufs : Virtio!MsgFree(b)
  BY <1>1, <1>16 DEF Virtio!MsgFree
<1>17. CASE Virtio!FillFault
  BY <1>1, <1>17 DEF Virtio!FillFault
<1> QED BY <1>3, <1>4, <1>5, <1>6, <1>7, <1>8, <1>9, <1>10, <1>11, <1>12, <1>13, <1>14,
           <1>15, <1>16, <1>17

\* Every step with virtio keeps its queues accounted for.
LEMMA VirtioKeeps ==
  ASSUME VirtioInv, Virtio!Next
  PROVE  VirtioInv'
<1>1. CASE Virtio!FirstFill \/ Virtio!Refill
  <2>1. Virtio!FillRecvQueue /\ UNCHANGED <<dev, halted>>
    BY <1>1 DEF Virtio!FirstFill, Virtio!Refill
  <2> QED BY <2>1, VirtioFill
<1>2. CASE \E f \in TxFrames : Virtio!virtio_net_xmit(f)
  BY <1>2, VirtioXmit
<1>3. CASE Virtio!txintr
  BY <1>3, VirtioTxintr
<1>4. CASE Virtio!rxintr
  BY <1>4, VirtioRxintr
<1>5. CASE Virtio!DevTransmit
  BY <1>5, VirtioTransmit
<1>6. CASE Virtio!DevTxDone
  BY <1>6, VirtioTxDone
<1>7. CASE \E f \in {f \in RxFrames : f.to # "bad"} : Virtio!DevReceive(f)
  BY <1>7, VirtioReceive
<1> QED BY <1>1, <1>2, <1>3, <1>4, <1>5, <1>6, <1>7, VirtioQuiet
        DEF Virtio!Next, Virtio!Probe, Virtio!Handler, Virtio!Device

\* The instance's name for the number of elements.
LEMMA CardinalityIs == \A S : Virtio!Cardinality(S) = Cardinality(S)
  BY DEF Virtio!Cardinality, Cardinality

\* What the invariant says of the queues.
LEMMA VirtioRings ==
  ASSUME VirtioInv
  PROVE  Virtio!DescAccounted
<1>1. ASSUME NEW q \in {rings["tx"], rings["rx"]}
      PROVE  /\ Virtio!FreeList(q) \cup UNION {Virtio!ChainSet(q, h) : h \in Virtio!Heads(q)} = Virtio!Idx
             /\ \A h \in Virtio!Heads(q) :
                  /\ Virtio!ChainSet(q, h) \cap Virtio!FreeList(q) = {}
                  /\ \A g \in Virtio!Heads(q) \ {h} :
                       Virtio!ChainSet(q, h) \cap Virtio!ChainSet(q, g) = {}
  <2>1. \E F, nf, own : Layout(q, F, nf, own)
    BY DEF VirtioInv, QueueInv
  <2> QED BY <2>1, LayoutAccounts
<1>2. halted # "xdata" /\ aux = Virtio!Cardinality(Virtio!Heads(rings["rx"]))
  BY CardinalityIs DEF VirtioInv
<1> QED BY <1>1, <1>2 DEF Virtio!DescAccounted

-----------------------------------------------------------------------------
(* The rings are accounted for.                                            *)

\* Whichever driver is in use, every descriptor, control block and buffer of
\* its rings is in exactly one place (virtq_enqueue, virtq_free_chain; get_txcb,
\* tx_reclaim, rx_refill): with virtio a chain that comes back was out, "xdata"
\* is never reached, and n_rxbuf counts the receive buffers that are queued.
\* Hypothesis HeaderOnly: no frame with a page is sent on a node with GENET,
\* whose tx_reclaim frees such a frame's buffer with its first descriptor.
THEOREM Accounted ==
  ASSUME HeaderOnly
  PROVE  Spec => []RingsAccounted
<1> DEFINE Inv == (ops = "virtio" => VirtioInv) /\ (ops # "virtio" => ops = "genet" /\ GenetInv)
<1>1. Init => Inv
  BY GenetStarts, VirtioStarts DEF Init
<1>2. Inv /\ [Next]_vars => Inv'
  <2> SUFFICES ASSUME Inv, [Next]_vars PROVE Inv'
    OBVIOUS
  <2>1. CASE Next
    <3>1. ops' = ops
      BY <2>1 DEF Next
    <3>2. CASE VirtioNext
      <4>1. VirtioInv'
        BY <3>2, VirtioKeeps DEF VirtioNext
      <4> QED BY <3>1, <3>2, <4>1 DEF VirtioNext
    <3>3. CASE GenetNext
      <4>1. GenetInv'
        BY <3>3, GenetKeeps DEF GenetNext
      <4>2. ops # "virtio"
        BY <3>3 DEF GenetNext
      <4> QED BY <3>1, <3>3, <4>1, <4>2 DEF GenetNext
    <3> QED BY <2>1, <3>2, <3>3 DEF Next
  <2>2. CASE UNCHANGED vars
    <3>1. UNCHANGED <<ops, rings, mem, dev, stage, aux, halted>>
      BY <2>2 DEF vars, dvars
    <3>2. CASE ops = "virtio"
      <4>1. VirtioInv
        BY <3>2
      <4>2. VirtioInv'
        BY <3>1, <4>1 DEF VirtioInv
      <4> QED BY <3>1, <3>2, <4>2
    <3>3. CASE ops # "virtio"
      <4>1. GenetInv
        BY <3>3
      <4>2. "cmd" \in DOMAIN dev /\ (dev.cmd # {} => stage = "up")
        BY <4>1 DEF GenetInv
      <4>3. GenetInv'
        BY <3>1, <4>1, <4>2, GenetElsewhere
      <4> QED BY <3>1, <3>3, <4>3
    <3> QED BY <3>2, <3>3
  <2> QED BY <2>1, <2>2
<1>3. Inv => RingsAccounted
  <2>1. CASE ops = "virtio"
    BY <2>1, VirtioRings DEF RingsAccounted
  <2>2. CASE ops # "virtio"
    BY <2>2, GenetRings DEF RingsAccounted
  <2> QED BY <2>1, <2>2
<1> QED BY <1>1, <1>2, <1>3, PTL DEF Spec

-----------------------------------------------------------------------------
(* GENET is a frame service.  The frames that wait are a window of the     *)
(* ring: a step adds one at its end, takes one from its start or leaves it *)
(* alone, wherever the window wraps.                                       *)

\* The n entries of a ring of N places from index at on, as a sequence.
Window(r, at, n, N) == [k \in 1..n |-> r[(at + k - 1) % N]]

\* Two rings hold the same there, from the d-th entry on.
SameWindow(r, r2, at, d, n, N) == \A k \in d..(n - 1) : r2[(at + k) % N] = r[(at + k) % N]

\* The range of the indices is a multiple of the number of places.
Divides(N, M) == M % N = 0

\* The place of an index does not depend on whether the index wraps.
LEMMA PlaceWrap ==
  ASSUME NEW M \in Nat \ {0}, NEW N \in Nat \ {0}, Divides(N, M), NEW x \in Nat, NEW k \in Nat
  PROVE  ((x % M) + k) % N = (x + k) % N
<1>2. PICK m \in Nat, r \in 0..(N - 1) : M = N * m + r
  BY DivIs
<1>3. (N * m + r) % N = r
  BY ModIs
<1>4. r = 0
  BY <1>2, <1>3 DEF Divides
<1>5. PICK e \in Nat, y \in 0..(M - 1) : x = M * e + y
  BY DivIs
<1>6. x % M = y
  BY <1>5, ModIs
<1>7. PICK p \in Nat : p = m * e
  OBVIOUS
<1>8. N * m \in Nat /\ N * p \in Nat /\ (N * m) * e = N * p
  BY <1>7
<1>9. M = N * m
  BY <1>2, <1>4, <1>8
<1>10. M * e = N * p
  BY <1>8, <1>9
<1>11. x + k = (y + k) + N * p
  BY <1>5, <1>8, <1>10
<1>12. ((y + k) + N * p) % N = (y + k) % N
  <2>1. y + k \in Nat
    OBVIOUS
  <2> QED BY <2>1, ModPlus
<1> QED BY <1>6, <1>11, <1>12

\* k after x is the same place whether x wraps or not.
Wraps(x, k, N, M) == ((x % M) + k) % N = (x + k) % N

\* Wraps holds of every place and every distance.
LEMMA Wrap ==
  ASSUME NEW M \in Nat \ {0}, NEW N \in Nat \ {0}, Divides(N, M), NEW x \in Nat, NEW k \in Nat
  PROVE  Wraps(x, k, N, M)
  BY PlaceWrap DEF Wraps

\* Where the next entry of a ring goes.
LEMMA NextPlace ==
  ASSUME NEW M \in Nat \ {0}, NEW N \in Nat \ {0}, Divides(N, M),
         NEW at \in 0..(M - 1), NEW p \in 0..(M - 1)
  PROVE  (p - at) % M \in Nat /\ p % N = (at + ((p - at) % M)) % N /\ p % N \in 0..(N - 1)
<1>1. PICK n \in 0..(M - 1) : n = (p - at) % M
  BY Distance
<1>2. p % N = (at + n) % N
  <2>1. (at + n) % M = p
    BY <1>1, Reaches
  <2>2. at + n \in Nat /\ 0 \in Nat /\ at + n + 0 = at + n /\ p + 0 = p
    BY <1>1
  <2>3. (((at + n) % M) + 0) % N = (at + n + 0) % N
    BY <2>2, PlaceWrap
  <2> QED BY <2>1, <2>2, <2>3
<1>3. p % N \in 0..(N - 1)
  <2>1. p \in Int
    OBVIOUS
  <2> QED BY <2>1, ModSmall
<1> QED BY <1>1, <1>2, <1>3

\* While the ring is not full, no entry is there.
LEMMA NextUnused ==
  ASSUME NEW M \in Nat \ {0}, NEW N \in Nat \ {0}, Divides(N, M),
         NEW at \in 0..(M - 1), NEW p \in 0..(M - 1), (p - at) % M < N,
         NEW k \in 0..(((p - at) % M) - 1)
  PROVE  (at + k) % N # p % N
<1>1. PICK n \in 0..(M - 1) : n = (p - at) % M
  BY Distance
<1>2. p % N = (at + n) % N
  BY <1>1, NextPlace
<1>3. at + k \in Nat /\ at + n \in Nat /\ at + k < at + n /\ at + n < at + k + N
  BY <1>1
<1>4. (at + k) % N # (at + n) % N
  BY <1>3, ModDiffer
<1> QED BY <1>2, <1>4

\* The same entries are the same sequence.
LEMMA WindowSame ==
  ASSUME NEW N \in Nat \ {0}, NEW n \in Nat, NEW at \in Nat, NEW r, NEW r2,
         SameWindow(r, r2, at, 0, n, N)
  PROVE  Window(r2, at, n, N) = Window(r, at, n, N)
<1>1. ASSUME NEW k \in 1..n PROVE r2[(at + k - 1) % N] = r[(at + k - 1) % N]
  <2>1. k - 1 \in 0..(n - 1) /\ at + (k - 1) = at + k - 1
    OBVIOUS
  <2> QED BY <2>1 DEF SameWindow
<1> QED BY <1>1 DEF Window

\* Another entry is less than the range.
Room(n, M) == n + 1 < M

\* An entry is put behind the others: place is where, n2 how many there are then.
Puts(r, r2, at, p, n, n2, place, N, M) ==
  /\ Divides(N, M) /\ n = (p - at) % M /\ Room(n, M) /\ SameWindow(r, r2, at, 0, n, N)
  /\ n2 = (((p + 1) % M) - at) % M /\ place = p % N

\* An entry put behind the others is appended.
LEMMA WindowPuts ==
  ASSUME NEW M \in Nat \ {0}, NEW N \in Nat \ {0}, NEW at \in 0..(M - 1), NEW p \in 0..(M - 1),
         NEW n, NEW n2, NEW place, NEW r, NEW r2, Puts(r, r2, at, p, n, n2, place, N, M)
  PROVE  Window(r2, at, n2, N) = Append(Window(r, at, n, N), r2[place])
<1>0. Divides(N, M) /\ n = (p - at) % M /\ Room(n, M) /\ SameWindow(r, r2, at, 0, n, N)
      /\ n2 = (((p + 1) % M) - at) % M /\ place = p % N
  BY DEF Puts
<1>1. n \in Nat /\ p % N = (at + n) % N /\ at \in Nat
  <2>1. at \in Nat
    OBVIOUS
  <2>2. (p - at) % M \in Nat /\ p % N = (at + ((p - at) % M)) % N
    BY <1>0, NextPlace
  <2> QED BY <1>0, <2>1, <2>2
<1>2. (((p + 1) % M) - at) % M = n + 1
  BY <1>0, Longer DEF Room
<1>3. PICK s, t, x : s = Window(r, at, n, N) /\ t = Window(r2, at, n + 1, N) /\ x = r2[place]
  OBVIOUS
<1>4. PICK S : S = {r[(at + k - 1) % N] : k \in 1..n} \cup {x}
  OBVIOUS
<1>5. s \in Seq(S) /\ Len(s) = n /\ \A k \in 1..n : s[k] = r[(at + k - 1) % N]
  <2>1. PICK e : e = [k \in 1..n |-> (at + k - 1) % N]
    OBVIOUS
  <2>2. s = [k \in 1..n |-> r[e[k]]]
    BY <1>3, <2>1 DEF Window
  <2>3. S = {r[e[k]] : k \in 1..n} \cup {x}
    BY <1>4, <2>1
  <2>4. s \in [1..n -> S]
    BY <2>2, <2>3
  <2>5. s \in Seq(S) /\ Len(s) = n
    BY <1>1, <2>4
  <2>6. \A k \in 1..n : s[k] = r[(at + k - 1) % N]
    BY <2>1, <2>2
  <2> QED BY <2>5, <2>6
<1>6. t = [k \in 1..(n + 1) |-> IF k = n + 1 THEN x ELSE s[k]]
  <2>1. ASSUME NEW k \in 1..(n + 1)
        PROVE  r2[(at + k - 1) % N] = IF k = n + 1 THEN x ELSE s[k]
    <3>1. CASE k = n + 1
      <4>1. at + k - 1 = at + n
        BY <1>1, <3>1
      <4> QED BY <1>0, <1>1, <1>3, <3>1, <4>1
    <3>2. CASE k # n + 1
      <4>1. k - 1 \in 0..(n - 1) /\ at + (k - 1) = at + k - 1 /\ k \in 1..n
        BY <1>1, <3>2
      <4>2. r2[(at + (k - 1)) % N] = r[(at + (k - 1)) % N]
        BY <1>0, <4>1 DEF SameWindow
      <4> QED BY <1>5, <3>2, <4>1, <4>2
    <3> QED BY <3>1, <3>2
  <2> QED BY <1>3, <2>1 DEF Window
<1>7. t = Append(s, x)
  <2>1. x \in S
    BY <1>4
  <2> QED BY <1>1, <1>5, <1>6, <2>1
<1> QED BY <1>0, <1>2, <1>3, <1>7

\* What Head and Tail are.
LEMMA TailIs ==
  ASSUME NEW S, NEW q \in Seq(S), q # <<>>
  PROVE  Head(q) = q[1] /\ Tail(q) = [k \in 1..(Len(q) - 1) |-> q[k + 1]]
<1>1. Tail(q) \in Seq(S) /\ Len(Tail(q)) = Len(q) - 1
  OBVIOUS
<1>2. \A k \in 1..(Len(q) - 1) : Tail(q)[k] = q[k + 1]
  OBVIOUS
<1>3. Tail(q) = [k \in 1..(Len(q) - 1) |-> Tail(q)[k]]
  <2>1. \A s \in Seq(S) : s = [k \in 1..Len(s) |-> s[k]]
    OBVIOUS
  <2> QED BY <1>1, <2>1
<1> QED BY <1>2, <1>3

\* The first entry is taken: at2 is the next, n2 how many are left.
Takes(r, r2, at, at2, p, n, n2, N, M) ==
  /\ Divides(N, M) /\ at # p /\ n = (p - at) % M /\ SameWindow(r, r2, at, 1, n, N)
  /\ at2 = (at + 1) % M /\ n2 = (p - at2) % M

\* Taking the first entry takes the head of the sequence, wherever it is.
LEMMA WindowTakes ==
  ASSUME NEW M \in Nat \ {0}, NEW N \in Nat \ {0}, NEW at \in 0..(M - 1), NEW p \in 0..(M - 1),
         NEW n, NEW n2, NEW at2, NEW r, NEW r2, Takes(r, r2, at, at2, p, n, n2, N, M)
  PROVE  /\ Window(r, at, n, N) # <<>>
         /\ Head(Window(r, at, n, N)) = r[at % N]
         /\ Window(r2, at2, n2, N) = Tail(Window(r, at, n, N))
<1>0. Divides(N, M) /\ at # p /\ n = (p - at) % M /\ SameWindow(r, r2, at, 1, n, N)
      /\ at2 = (at + 1) % M /\ n2 = (p - at2) % M
  BY DEF Takes
<1>1. n \in Nat /\ at \in Nat
  <2>1. at \in Nat
    OBVIOUS
  <2> QED BY <1>0, <2>1, NextPlace
<1>2. (p - ((at + 1) % M)) % M = n - 1 /\ n # 0
  BY <1>0, Nearer
<1>3. PICK b \in 0..(M - 1) : b = (at + 1) % M
  BY Next1
<1>4. PICK s, t : s = Window(r, at, n, N) /\ t = Window(r2, b, n - 1, N)
  OBVIOUS
<1>5. PICK S : S = {r[(at + k - 1) % N] : k \in 1..n}
  OBVIOUS
<1>6. s \in Seq(S) /\ Len(s) = n /\ \A k \in 1..n : s[k] = r[(at + k - 1) % N]
  <2>1. PICK e : e = [k \in 1..n |-> (at + k - 1) % N]
    OBVIOUS
  <2>2. s = [k \in 1..n |-> r[e[k]]]
    BY <1>4, <2>1 DEF Window
  <2>3. S = {r[e[k]] : k \in 1..n}
    BY <1>5, <2>1
  <2>4. s \in [1..n -> S]
    BY <2>2, <2>3
  <2>5. s \in Seq(S) /\ Len(s) = n
    BY <1>1, <2>4
  <2>6. \A k \in 1..n : s[k] = r[(at + k - 1) % N]
    BY <2>1, <2>2
  <2> QED BY <2>5, <2>6
<1>7. t = [k \in 1..(n - 1) |-> s[k + 1]]
  <2>1. ASSUME NEW k \in 1..(n - 1) PROVE r2[(b + k - 1) % N] = s[k + 1]
    <3>0. PICK o : o = (at + k) % N
      OBVIOUS
    <3>1. /\ k - 1 \in Nat /\ at + 1 \in Nat /\ (at + 1) + (k - 1) = at + k /\ b + (k - 1) = b + k - 1
          /\ k \in 1..(n - 1) /\ k + 1 \in 1..n /\ at + (k + 1) - 1 = at + k
      BY <1>1, <1>3
    <3>2. (b + (k - 1)) % N = (at + k) % N
      <4>1. (((at + 1) % M) + (k - 1)) % N = ((at + 1) + (k - 1)) % N
        BY <1>0, <3>1, PlaceWrap
      <4>2. ((at + 1) % M) + (k - 1) = b + (k - 1)
        BY <1>3
      <4> QED BY <3>1, <4>1, <4>2
    <3>3. r2[o] = r[o]
      BY <1>0, <3>0 DEF SameWindow
    <3>4. s[k + 1] = r[o]
      BY <1>6, <3>0, <3>1
    <3>5. (b + k - 1) % N = o
      BY <3>0, <3>1, <3>2
    <3> QED BY <3>3, <3>4, <3>5
  <2> QED BY <1>4, <2>1 DEF Window
<1>8. s # <<>> /\ Head(s) = s[1] /\ Tail(s) = [k \in 1..(n - 1) |-> s[k + 1]]
  <2>1. s \in Seq(S) /\ Len(s) = n /\ n # 0 /\ n \in Nat
    BY <1>1, <1>2, <1>6
  <2>2. s # <<>>
    BY <2>1
  <2>3. Head(s) = s[1] /\ Tail(s) = [k \in 1..(Len(s) - 1) |-> s[k + 1]]
    BY <2>1, <2>2, TailIs
  <2> QED BY <2>1, <2>2, <2>3
<1>9. s[1] = r[at % N]
  <2>1. 1 \in 1..n /\ at + 1 - 1 = at
    BY <1>1, <1>2
  <2> QED BY <1>6, <2>1
<1> QED BY <1>0, <1>2, <1>3, <1>4, <1>7, <1>8, <1>9

\* What is waiting in the transmit ring for the hardware, and in the receive
\* ring for the driver.
TxLen(t)   == (t.PROD - t.CONS) % IndexMod
RxLen(r)   == (r.PROD - r.c_index) % IndexMod
TxAt(t, m) == [i \in 0..(NTx - 1) |-> m[t.cb[i]]]
RxAt(r, m) == [i \in 0..(NRx - 1) |-> m[r.cb[i]]]
TxQ(t, m)  == Window(TxAt(t, m), t.CONS, TxLen(t), NTx)
RxQ(r, m)  == Window(RxAt(r, m), r.c_index, RxLen(r), NRx)

\* A place of the transmit ring that holds a whole frame.
Whole(t, i) == t.cb[i] # 0 /\ t.eop[i]

\* The pointers of the transmit ring are where the indices are, and what the
\* hardware has not consumed is there.
TxPlaces(t) ==
  /\ t.write_ptr = t.prod_index % NTx /\ t.clean_ptr = t.c_index % NTx
  /\ \A k \in 0..(TxLen(t) - 1) : Whole(t, (t.CONS + k) % NTx)

\* The receive ring holds what was received and not handed up.
RxPlaces(r, m) ==
  /\ r.CONS = r.c_index /\ r.read_ptr = r.c_index % NRx
  /\ RxLen(r) <= NRx
  /\ \A k \in 0..(RxLen(r) - 1) : m[r.cb[(r.c_index + k) % NRx]] \in RxFrames

\* What is assumed of the rings.
LEMMA GenetSizes ==
  /\ NTx \in Nat \ {0} /\ NRx \in Nat \ {0} /\ IndexMod \in Nat \ {0}
  /\ NTx <= IndexMod /\ NRx < IndexMod /\ Divides(NTx, IndexMod) /\ Divides(NRx, IndexMod)
  BY NetDevAssumption DEF Divides

\* The pointer moves with the index.
LEMMA PointerMoves ==
  ASSUME NEW M \in Nat \ {0}, NEW N \in Nat \ {0}, Divides(N, M), NEW x \in 0..(M - 1), NEW k \in Nat
  PROVE  ((x % N) + k) % N = ((x + k) % M) % N
<1>1. Divides(N, N)
  BY ModSmall DEF Divides
<1>2. ((x % N) + k) % N = (x + k) % N
  BY <1>1, PlaceWrap
<1>3. x + k \in Nat /\ 0 \in Nat /\ (x + k) + 0 = x + k
  OBVIOUS
<1>4. (((x + k) % M) + 0) % N = ((x + k) + 0) % N
  BY <1>3, PlaceWrap
<1>5. (x + k) % M \in Int
  BY <1>3, ModSmall
<1> QED BY <1>2, <1>3, <1>4, <1>5

\* The values in the transmit ring.
LEMMA TxTypes ==
  ASSUME NEW t \in TxRings
  PROVE  /\ t.PROD \in 0..(IndexMod - 1) /\ t.CONS \in 0..(IndexMod - 1)
         /\ t.prod_index \in 0..(IndexMod - 1) /\ t.c_index \in 0..(IndexMod - 1)
         /\ t.cb \in [0..(NTx - 1) -> Bufs \cup {0}] /\ t.eop \in [0..(NTx - 1) -> BOOLEAN]
         /\ t.clean_ptr \in 0..(NTx - 1) /\ t.write_ptr \in 0..(NTx - 1)
  BY DEF TxRings

\* The hardware is never further behind than the ring is long.
LEMMA TxLenIs ==
  ASSUME NEW t \in TxRings, TxIndices(t)
  PROVE  /\ TxLen(t) \in Nat /\ TxLen(t) < NTx
         /\ TxLen(t) + ((t.CONS - t.c_index) % IndexMod) = (t.prod_index - t.c_index) % IndexMod
         /\ (t.CONS - t.c_index) % IndexMod \in Nat
<1>1. PICK p \in 0..(IndexMod - 1), d \in 0..(IndexMod - 1), c \in 0..(IndexMod - 1) :
         p = t.prod_index /\ d = t.c_index /\ c = t.CONS
  BY TxTypes
<1>2. t.PROD = p /\ (p - d) % IndexMod < NTx /\ (c - d) % IndexMod <= (p - d) % IndexMod
  BY <1>1 DEF TxIndices
<1>3. /\ (p - c) % IndexMod = ((p - d) % IndexMod) - ((c - d) % IndexMod)
      /\ (p - d) % IndexMod \in 0..(IndexMod - 1) /\ (c - d) % IndexMod \in 0..(IndexMod - 1)
  BY <1>2, GenetSizes, Between
<1> QED BY <1>1, <1>2, <1>3, GenetSizes DEF TxLen

\* The places of the frames that wait for the hardware.
LEMMA TxPlaceIs ==
  ASSUME NEW t \in TxRings, TxIndices(t), NEW k \in 0..(TxLen(t) - 1)
  PROVE  (t.CONS + k) % NTx \in 0..(NTx - 1)
<1>1. t.CONS + k \in Int
  BY TxTypes, TxLenIs
<1> QED BY <1>1, ModSmall, GenetSizes

\* b is put into the transmit ring t, which becomes u.
TxAdds(t, u, b) ==
  /\ u.write_ptr = (t.write_ptr + 1) % NTx /\ u.prod_index = (t.prod_index + 1) % IndexMod
  /\ u.PROD = u.prod_index /\ u.CONS = t.CONS /\ u.c_index = t.c_index /\ u.clean_ptr = t.clean_ptr
  /\ \A i \in 0..(NTx - 1) : u.cb[i] = IF i = t.write_ptr THEN b ELSE t.cb[i]
  /\ u.eop[t.write_ptr]
  /\ \A i \in 0..(NTx - 1) : i # t.write_ptr => u.eop[i] = t.eop[i]

Stays(m, m2) == \A c \in Bufs : m[c] \in GenetTx => m2[c] = m[c]

\* A frame is put behind the others.
LEMMA TxPut ==
  ASSUME NEW t \in TxRings, NEW u \in TxRings, TxIndices(t), TxPlaces(t), NEW mm, TxBuffers(t, mm),
         t.free_bds >= 2, NEW m, NEW b \in Bufs, NEW f, m[b] = f, Stays(mm, m), TxAdds(t, u, b)
  PROVE  TxPlaces(u) /\ TxQ(u, m) = Append(TxQ(t, mm), f)
<1>1. PICK c \in 0..(IndexMod - 1), p \in 0..(IndexMod - 1), n \in Nat :
         c = t.CONS /\ p = t.prod_index /\ n = TxLen(t)
  BY TxTypes, TxLenIs
<1>2. t.PROD = p /\ n = (p - c) % IndexMod
  BY <1>1 DEF TxIndices, TxLen
<1>3. n + 1 < NTx /\ n + 1 < IndexMod /\ n < NTx
  <2>1. t.free_bds = NTx - ((t.prod_index - t.c_index) % IndexMod)
    BY DEF TxIndices
  <2>2. /\ n + ((t.CONS - t.c_index) % IndexMod) = (t.prod_index - t.c_index) % IndexMod
        /\ (t.CONS - t.c_index) % IndexMod \in Nat
    BY <1>1, TxLenIs
  <2> QED BY <1>1, <2>1, <2>2, GenetSizes
<1>4. TxLen(u) = n + 1 /\ TxLen(u) = (((p + 1) % IndexMod) - c) % IndexMod
  <2>1. ((p - c) % IndexMod) + 1 < IndexMod
    BY <1>2, <1>3
  <2>2. (((p + 1) % IndexMod) - c) % IndexMod = ((p - c) % IndexMod) + 1
    BY <2>1, Longer, GenetSizes
  <2>3. TxLen(u) = (((p + 1) % IndexMod) - c) % IndexMod
    BY <1>1 DEF TxLen, TxAdds
  <2> QED BY <1>2, <2>2, <2>3
<1>5. PICK w \in 0..(NTx - 1) : w = t.write_ptr /\ w = p % NTx
  BY <1>1, TxTypes DEF TxPlaces
<1>6. w = (c + n) % NTx
  <2>1. p % NTx = (c + ((p - c) % IndexMod)) % NTx
    BY NextPlace, GenetSizes
  <2> QED BY <1>2, <1>5, <2>1
<1>7. ASSUME NEW k \in 0..(n - 1)
      PROVE  \E i \in (0..(NTx - 1)) \ {w} :
               i = (c + k) % NTx /\ Whole(t, i) /\ mm[t.cb[i]] \in GenetTx /\ t.cb[i] \in Bufs
  <2>1. (c + k) % NTx \in 0..(NTx - 1)
    BY <1>1, TxPlaceIs
  <2>2. (c + k) % NTx # p % NTx
    BY <1>2, <1>3, NextUnused, GenetSizes
  <2>3. Whole(t, (c + k) % NTx)
    BY <1>1 DEF TxPlaces
  <2>4. PICK i \in 0..(NTx - 1) : i = (c + k) % NTx
    BY <2>1
  <2>5. t.cb[i] # 0 /\ Whole(t, i)
    BY <2>3, <2>4 DEF Whole
  <2>6. mm[t.cb[i]] \in GenetTx
    <3>1. \A j \in 0..(NTx - 1) : t.cb[j] # 0 => mm[t.cb[j]] \in GenetTx
      BY DEF TxBuffers
    <3> QED BY <2>5, <3>1
  <2>8. t.cb[i] \in Bufs
    <3>1. t.cb \in [0..(NTx - 1) -> Bufs \cup {0}]
      BY TxTypes
    <3> QED BY <2>5, <3>1
  <2>7. i # w
    BY <1>5, <2>2, <2>4
  <2> QED BY <2>4, <2>5, <2>6, <2>7, <2>8
<1>16. /\ \A i \in 0..(NTx - 1) : u.cb[i] = IF i = t.write_ptr THEN b ELSE t.cb[i]
       /\ u.eop[t.write_ptr]
       /\ \A i \in 0..(NTx - 1) : i # t.write_ptr => u.eop[i] = t.eop[i]
  BY DEF TxAdds
<1>8. ASSUME NEW k \in 0..n PROVE Whole(u, (c + k) % NTx)
  <2>1. CASE k = n
    <3>1. u.cb[w] = b /\ u.eop[w] /\ b # 0
      BY <1>5, <1>16, NetDevAssumption
    <3> QED BY <1>6, <2>1, <3>1 DEF Whole
  <2>2. CASE k # n
    <3>1. k \in 0..(n - 1)
      BY <1>1, <2>2
    <3>2. PICK i \in (0..(NTx - 1)) \ {w} : i = (c + k) % NTx /\ Whole(t, i)
      BY <1>7, <3>1
    <3>3. Whole(u, i)
      BY <1>5, <1>16, <3>2 DEF Whole
    <3> QED BY <3>2, <3>3
  <2> QED BY <2>1, <2>2
<1>9. TxPlaces(u)
  <2>1. u.write_ptr = u.prod_index % NTx
    <3>1. ((p % NTx) + 1) % NTx = ((p + 1) % IndexMod) % NTx
      BY PointerMoves, GenetSizes
    <3> QED BY <1>1, <1>5, <3>1 DEF TxAdds
  <2>2. u.clean_ptr = u.c_index % NTx
    BY DEF TxPlaces, TxAdds
  <2>3. \A k \in 0..(TxLen(u) - 1) : Whole(u, (u.CONS + k) % NTx)
    <3>1. TxLen(u) - 1 = n
      BY <1>1, <1>4
    <3> QED BY <1>1, <1>8, <3>1 DEF TxAdds
  <2> QED BY <2>1, <2>2, <2>3 DEF TxPlaces
<1>10. PICK r, r2 : r = TxAt(t, mm) /\ r2 = TxAt(u, m)
  OBVIOUS
<1>11. SameWindow(r, r2, c, 0, n, NTx)
  <2>1. ASSUME NEW k \in 0..(n - 1) PROVE r2[(c + k) % NTx] = r[(c + k) % NTx]
    <3>1. PICK i \in (0..(NTx - 1)) \ {w} :
             i = (c + k) % NTx /\ mm[t.cb[i]] \in GenetTx /\ t.cb[i] \in Bufs
      BY <1>7
    <3>2. u.cb[i] = t.cb[i]
      BY <1>5, <1>16, <3>1
    <3>3. r2[i] = r[i]
      BY <1>10, <3>1, <3>2 DEF TxAt, Stays
    <3> QED BY <3>1, <3>3
  <2> QED BY <2>1 DEF SameWindow
<1>12. r2[w] = f
  BY <1>5, <1>10, <1>16 DEF TxAt
<1>13. Window(r2, c, TxLen(u), NTx) = Append(Window(r, c, n, NTx), r2[w])
  <2>1. Puts(r, r2, c, p, n, TxLen(u), w, NTx, IndexMod)
    BY <1>2, <1>3, <1>4, <1>5, <1>11, GenetSizes DEF Room, Puts
  <2> QED BY <2>1, WindowPuts, GenetSizes
<1>14. TxQ(u, m) = Append(TxQ(t, mm), f)
  BY <1>1, <1>4, <1>10, <1>12, <1>13 DEF TxQ, TxAdds
<1> QED BY <1>9, <1>14

\* The hardware takes the first frame.
TxSent(t, u) == t.CONS # t.PROD /\ u = [t EXCEPT !.CONS = (@ + 1) % IndexMod]

\* What the hardware takes is the head of what waits, and a whole frame.
LEMMA TxTake ==
  ASSUME NEW t \in TxRings, NEW u, TxSent(t, u), TxIndices(t), TxPlaces(t), NEW m
  PROVE  /\ TxPlaces(u) /\ Whole(t, t.CONS % NTx)
         /\ TxQ(t, m) # <<>> /\ Head(TxQ(t, m)) = m[t.cb[t.CONS % NTx]]
         /\ TxQ(u, m) = Tail(TxQ(t, m))
<1>1. PICK c \in 0..(IndexMod - 1), p \in 0..(IndexMod - 1), n \in Nat :
         c = t.CONS /\ p = t.prod_index /\ n = TxLen(t)
  BY TxTypes, TxLenIs
<1>2. t.PROD = p /\ n = (p - c) % IndexMod /\ c # p
  BY <1>1 DEF TxIndices, TxLen, TxSent
<1>3. PICK e \in 0..(IndexMod - 1) : e = (c + 1) % IndexMod
  BY Next1, GenetSizes
<1>4. /\ u.CONS = e /\ u.PROD = p /\ u.cb = t.cb /\ u.eop = t.eop
      /\ u.write_ptr = t.write_ptr /\ u.clean_ptr = t.clean_ptr
      /\ u.prod_index = t.prod_index /\ u.c_index = t.c_index
  BY <1>1, <1>2, <1>3 DEF TxRings, TxSent
<1>5. TxLen(u) = (p - e) % IndexMod /\ TxLen(u) = n - 1 /\ n # 0
  <2>1. (p - ((c + 1) % IndexMod)) % IndexMod = ((p - c) % IndexMod) - 1 /\ (p - c) % IndexMod # 0
    BY <1>2, Nearer, GenetSizes
  <2> QED BY <1>2, <1>3, <1>4, <2>1 DEF TxLen
<1>6. Whole(t, c % NTx)
  <2>1. 0 \in 0..(n - 1) /\ c + 0 = c
    BY <1>1, <1>5
  <2> QED BY <1>1, <2>1 DEF TxPlaces
<1>7. ASSUME NEW k \in 0..(TxLen(u) - 1) PROVE Whole(u, (u.CONS + k) % NTx)
  <2>1. PICK x \in Nat, j \in Nat : x = c + 1 /\ j = k
    BY <1>5
  <2>2. j + 1 \in 0..(n - 1) /\ x + j = c + (j + 1)
    BY <1>1, <1>5, <2>1
  <2>3. Wraps(x, j, NTx, IndexMod)
    BY Wrap, GenetSizes
  <2>4. (e + j) % NTx = (c + (j + 1)) % NTx
    BY <1>3, <2>1, <2>2, <2>3 DEF Wraps
  <2>5. Whole(t, (c + (j + 1)) % NTx)
    BY <1>1, <2>2 DEF TxPlaces
  <2> QED BY <1>4, <2>1, <2>4, <2>5 DEF Whole
<1>8. TxPlaces(u)
  BY <1>4, <1>7 DEF TxPlaces
<1>9. PICK r : r = TxAt(t, m)
  OBVIOUS
<1>10. r = TxAt(u, m)
  BY <1>4, <1>9 DEF TxAt
<1>11. r[c % NTx] = m[t.cb[c % NTx]]
  <2>1. c % NTx \in 0..(NTx - 1)
    BY NextPlace, GenetSizes
  <2> QED BY <1>9, <2>1 DEF TxAt
<1>12. /\ Window(r, c, n, NTx) # <<>>
       /\ Head(Window(r, c, n, NTx)) = r[c % NTx]
       /\ Window(r, e, TxLen(u), NTx) = Tail(Window(r, c, n, NTx))
  <2>1. SameWindow(r, r, c, 1, n, NTx)
    BY DEF SameWindow
  <2>2. Takes(r, r, c, e, p, n, TxLen(u), NTx, IndexMod)
    BY <1>2, <1>3, <1>5, <2>1, GenetSizes DEF Takes
  <2> QED BY <2>2, WindowTakes, GenetSizes
<1>13. TxQ(u, m) = Tail(TxQ(t, m)) /\ TxQ(t, m) # <<>> /\ Head(TxQ(t, m)) = r[c % NTx]
  BY <1>1, <1>3, <1>4, <1>5, <1>9, <1>10, <1>12 DEF TxQ
<1> QED BY <1>1, <1>6, <1>8, <1>11, <1>13

\* Nothing waits.
LEMMA WindowNone ==
  ASSUME NEW r, NEW at, NEW N
  PROVE  Window(r, at, 0, N) = <<>>
  BY DEF Window

\* What waits for the hardware stays when its buffers do.
LEMMA TxKept ==
  ASSUME NEW t \in TxRings, NEW u, TxIndices(t), u.CONS = t.CONS, u.PROD = t.PROD, NEW m, NEW m2,
         \A k \in 0..(TxLen(t) - 1) : m2[u.cb[(t.CONS + k) % NTx]] = m[t.cb[(t.CONS + k) % NTx]]
  PROVE  TxLen(u) = TxLen(t) /\ TxQ(u, m2) = TxQ(t, m)
<1>1. PICK c \in Nat, n \in Nat : c = t.CONS /\ n = TxLen(t)
  BY TxTypes, TxLenIs
<1>2. PICK r, r2 : r = TxAt(t, m) /\ r2 = TxAt(u, m2)
  OBVIOUS
<1>3. ASSUME NEW k \in 0..(n - 1) PROVE r2[(c + k) % NTx] = r[(c + k) % NTx]
  <2>1. PICK i \in 0..(NTx - 1) : i = (c + k) % NTx
    BY <1>1, TxPlaceIs
  <2>2. m2[u.cb[i]] = m[t.cb[i]]
    BY <1>1, <2>1
  <2>3. r2[i] = r[i]
    BY <1>2, <2>2 DEF TxAt
  <2> QED BY <2>1, <2>3
<1>4. SameWindow(r, r2, c, 0, n, NTx)
  BY <1>3 DEF SameWindow
<1>5. Window(r2, c, n, NTx) = Window(r, c, n, NTx)
  BY <1>4, WindowSame, GenetSizes
<1>6. TxLen(u) = n
  BY <1>1 DEF TxLen
<1> QED BY <1>1, <1>2, <1>5, <1>6 DEF TxQ

\* A frame that waits is in memory.
LEMMA TxWaits ==
  ASSUME NEW t \in TxRings, TxIndices(t), TxPlaces(t), NEW m, TxBuffers(t, m),
         NEW k \in 0..(TxLen(t) - 1)
  PROVE  \E i \in 0..(NTx - 1) : /\ i = (t.CONS + k) % NTx /\ Whole(t, i)
                                 /\ t.cb[i] \in Bufs /\ m[t.cb[i]] \in GenetTx
<1>1. PICK i \in 0..(NTx - 1) : i = (t.CONS + k) % NTx
  BY TxPlaceIs
<1>2. Whole(t, i)
  BY <1>1 DEF TxPlaces
<1>3. t.cb[i] # 0
  BY <1>2 DEF Whole
<1>4. t.cb \in [0..(NTx - 1) -> Bufs \cup {0}]
  BY TxTypes
<1>5. t.cb[i] \in Bufs
  BY <1>3, <1>4
<1>6. m[t.cb[i]] \in GenetTx
  BY <1>3 DEF TxBuffers
<1> QED BY <1>1, <1>2, <1>5, <1>6

\* The same transmit ring, while frames stay where they are.
LEMMA TxSame ==
  ASSUME NEW t \in TxRings, TxIndices(t), TxPlaces(t), NEW m, NEW m2, TxBuffers(t, m),
         \A b \in Bufs : m[b] \in GenetTx => m2[b] = m[b]
  PROVE  TxQ(t, m2) = TxQ(t, m)
<1>1. ASSUME NEW k \in 0..(TxLen(t) - 1)
      PROVE  m2[t.cb[(t.CONS + k) % NTx]] = m[t.cb[(t.CONS + k) % NTx]]
  <2>1. PICK i \in 0..(NTx - 1) : i = (t.CONS + k) % NTx /\ t.cb[i] \in Bufs /\ m[t.cb[i]] \in GenetTx
    BY TxWaits
  <2> QED BY <2>1
<1> QED BY <1>1, TxKept

\* The place of a frame that waits is not one the driver reclaims.
LEMMA TxNotReady ==
  ASSUME NEW t \in TxRings, TxIndices(t), TxPlaces(t), NEW k \in 0..(TxLen(t) - 1)
  PROVE  ~(((((t.CONS + k) % NTx) - t.clean_ptr) % NTx) < ((t.CONS - t.c_index) % IndexMod))
<1>1. PICK d \in 0..(IndexMod - 1), c \in 0..(IndexMod - 1), ready \in Nat, n \in Nat,
           z \in 0..(NTx - 1) :
         d = t.c_index /\ c = t.CONS /\ ready = (c - d) % IndexMod /\ n = TxLen(t) /\ z = t.clean_ptr
  BY TxTypes, TxLenIs
<1>0. k \in Nat /\ k < n
  BY <1>1
<1>2. ready + k < NTx /\ ready + k \in Nat
  <2>1. PICK busy : busy = (t.prod_index - t.c_index) % IndexMod
    OBVIOUS
  <2>2. n + ready = busy
    BY <1>1, <2>1, TxLenIs
  <2>3. busy < NTx
    BY <2>1 DEF TxIndices
  <2> QED BY <1>0, <1>1, <2>2, <2>3, GenetSizes
<1>3. z = d % NTx
  BY <1>1 DEF TxPlaces
<1>4. (d + ready) % IndexMod = c
  BY <1>1, Reaches, GenetSizes
<1>5. PICK j \in Nat, x \in Nat, e \in Nat : j = k /\ x = d + ready /\ e = ready + k
  BY <1>0, <1>1
<1>6. e < NTx /\ x + j = d + e
  BY <1>2, <1>5
<1>7. (c + j) % NTx = (d + e) % NTx
  <2>1. ((x % IndexMod) + j) % NTx = (x + j) % NTx
    <3>1. Wraps(x, j, NTx, IndexMod)
      BY Wrap, GenetSizes
    <3> QED BY <3>1 DEF Wraps
  <2>2. x % IndexMod = c
    BY <1>4, <1>5
  <2> QED BY <1>6, <2>1, <2>2
<1>8. (z + e) % NTx = (d + e) % NTx
  <2>1. Divides(NTx, NTx)
    BY ModSmall, GenetSizes DEF Divides
  <2>2. d \in Nat
    OBVIOUS
  <2>3. ((d % NTx) + e) % NTx = (d + e) % NTx
    <3>1. Wraps(d, e, NTx, NTx)
      BY <2>1, <2>2, Wrap, GenetSizes
    <3> QED BY <3>1 DEF Wraps
  <2> QED BY <1>3, <2>3
<1>9. PICK i \in 0..(NTx - 1) : i = (z + e) % NTx
  BY <1>6, Ahead, GenetSizes
<1>10. (i - z) % NTx = e
  <2>1. e \in 0..NTx
    BY <1>6, GenetSizes
  <2>2. i = IF z + e < NTx THEN z + e ELSE z + e - NTx
    BY <1>9, <2>1, Ahead, GenetSizes
  <2>3. (i - z) % NTx = IF z <= i THEN i - z ELSE i - z + NTx
    BY Distance, GenetSizes
  <2> QED BY <1>6, <2>2, <2>3, GenetSizes
<1>11. ~(e < ready)
  BY <1>0, <1>5
<1>12. (t.CONS + k) % NTx = i
  BY <1>1, <1>5, <1>7, <1>8, <1>9
<1> QED BY <1>1, <1>10, <1>11, <1>12

\* Reclaiming leaves the frames that wait alone.
LEMMA TxReclaim ==
  ASSUME NEW t \in TxRings, TxIndices(t), TxPlaces(t), NEW m, TxBuffers(t, m), NEW u,
         u = Genet!tx_reclaim(t), NEW m2,
         \A b \in Bufs : b \notin Genet!Reclaimed(t) => m2[b] = m[b]
  PROVE  TxPlaces(u) /\ TxQ(u, m2) = TxQ(t, m)
<1>1. t.cb \in [0..(NTx - 1) -> Bufs \cup {0}]
  BY TxTypes
<1>2. PICK ready \in Nat : ready = (t.CONS - t.c_index) % IndexMod
  BY TxLenIs
<1>3. PICK cb : cb = [i \in 0..(NTx - 1) |-> IF (i - t.clean_ptr) % NTx < ready THEN 0 ELSE t.cb[i]]
  OBVIOUS
<1>4. PICK clean : clean = (t.clean_ptr + ready) % NTx
  OBVIOUS
<1>5. u = [t EXCEPT !.cb = cb, !.clean_ptr = clean, !.free_bds = @ + ready, !.c_index = t.CONS]
  BY <1>1, <1>2, <1>3, <1>4 DEF Genet!tx_reclaim
<1>6. /\ u.cb = cb /\ u.eop = t.eop /\ u.clean_ptr = clean /\ u.c_index = t.CONS
      /\ u.prod_index = t.prod_index /\ u.PROD = t.PROD /\ u.CONS = t.CONS /\ u.write_ptr = t.write_ptr
  BY <1>5 DEF TxRings
<1>7. ASSUME NEW k \in 0..(TxLen(t) - 1)
      PROVE  \E i \in 0..(NTx - 1) : /\ i = (t.CONS + k) % NTx /\ Whole(t, i) /\ u.cb[i] = t.cb[i]
                                     /\ m2[t.cb[i]] = m[t.cb[i]]
  <2>1. PICK i \in 0..(NTx - 1) : /\ i = (t.CONS + k) % NTx /\ Whole(t, i) /\ t.cb[i] \in Bufs
    BY TxWaits
  <2>2. ~((i - t.clean_ptr) % NTx < ready)
    BY <1>2, <2>1, TxNotReady
  <2>3. u.cb[i] = t.cb[i]
    BY <1>3, <1>6, <2>2
  <2>4. t.cb[i] \notin Genet!Reclaimed(t)
    <3>1. i \in DOMAIN t.cb
      BY <1>1
    <3>2. t.cb[i] # 0 /\ \A j \in (0..(NTx - 1)) \ {i} : t.cb[j] # t.cb[i]
      BY <2>1 DEF TxBuffers, Whole
    <3>3. ASSUME NEW j \in DOMAIN t.cb, u.cb[j] = 0 PROVE t.cb[j] # t.cb[i]
      <4>1. j # i
        BY <2>3, <3>2, <3>3
      <4> QED BY <1>1, <3>2, <4>1
    <3> QED BY <3>3 DEF Genet!Reclaimed
  <2> QED BY <2>1, <2>3, <2>4
<1>8. TxQ(u, m2) = TxQ(t, m) /\ TxLen(u) = TxLen(t)
  <2>1. ASSUME NEW k \in 0..(TxLen(t) - 1)
        PROVE  m2[u.cb[(t.CONS + k) % NTx]] = m[t.cb[(t.CONS + k) % NTx]]
    BY <1>7
  <2> QED BY <1>6, <2>1, TxKept
<1>9. u.clean_ptr = u.c_index % NTx
  <2>1. PICK d \in 0..(IndexMod - 1), c \in 0..(IndexMod - 1) : d = t.c_index /\ c = t.CONS
    BY TxTypes
  <2>2. ((d % NTx) + ready) % NTx = ((d + ready) % IndexMod) % NTx
    BY PointerMoves, GenetSizes
  <2>3. (d + ready) % IndexMod = c
    BY <1>2, <2>1, Reaches, GenetSizes
  <2>4. t.clean_ptr = d % NTx
    BY <2>1 DEF TxPlaces
  <2> QED BY <1>4, <1>6, <2>1, <2>2, <2>3, <2>4
<1>10. ASSUME NEW k \in 0..(TxLen(u) - 1) PROVE Whole(u, (u.CONS + k) % NTx)
  <2>1. PICK i \in 0..(NTx - 1) : i = (t.CONS + k) % NTx /\ Whole(t, i) /\ u.cb[i] = t.cb[i]
    BY <1>7, <1>8
  <2> QED BY <1>6, <2>1 DEF Whole
<1>11. u.write_ptr = u.prod_index % NTx
  BY <1>6 DEF TxPlaces
<1> QED BY <1>8, <1>9, <1>10, <1>11 DEF TxPlaces

\* The values in the receive ring.
LEMMA RxTypes ==
  ASSUME NEW r \in RxRings
  PROVE  /\ r.PROD \in 0..(IndexMod - 1) /\ r.CONS \in 0..(IndexMod - 1)
         /\ r.c_index \in 0..(IndexMod - 1) /\ r.read_ptr \in 0..(NRx - 1)
         /\ r.cb \in [0..(NRx - 1) -> Bufs \cup {0}]
  BY DEF RxRings

\* A length is a number.
LEMMA RxLenIs ==
  ASSUME NEW r \in RxRings
  PROVE  RxLen(r) \in Nat
  BY RxTypes, Distance, GenetSizes DEF RxLen

\* A frame that was received is in a buffer of the ring.
LEMMA RxWaits ==
  ASSUME NEW r \in RxRings, NEW m, RxPlaces(r, m), NEW k \in 0..(RxLen(r) - 1)
  PROVE  \E i \in 0..(NRx - 1) : i = (r.c_index + k) % NRx /\ m[r.cb[i]] \in RxFrames
<1>1. r.c_index + k \in Int
  BY RxTypes, RxLenIs
<1>2. (r.c_index + k) % NRx \in 0..(NRx - 1)
  BY <1>1, ModSmall, GenetSizes
<1>3. m[r.cb[(r.c_index + k) % NRx]] \in RxFrames
  BY DEF RxPlaces
<1> QED BY <1>2, <1>3

\* What was received stays when its buffers do.
LEMMA RxKept ==
  ASSUME NEW r \in RxRings, NEW d, NEW m, NEW m2, RxPlaces(r, m),
         d.c_index = r.c_index, d.PROD = r.PROD, d.CONS = r.CONS, d.read_ptr = r.read_ptr,
         \A k \in 0..(RxLen(r) - 1) : m2[d.cb[(r.c_index + k) % NRx]] = m[r.cb[(r.c_index + k) % NRx]]
  PROVE  RxPlaces(d, m2) /\ RxLen(d) = RxLen(r) /\ RxQ(d, m2) = RxQ(r, m)
<1>1. PICK c \in Nat, n \in Nat : c = r.c_index /\ n = RxLen(r)
  BY RxTypes, RxLenIs
<1>2. PICK s, s2 : s = RxAt(r, m) /\ s2 = RxAt(d, m2)
  OBVIOUS
<1>3. ASSUME NEW k \in 0..(n - 1) PROVE s2[(c + k) % NRx] = s[(c + k) % NRx]
  <2>1. PICK i \in 0..(NRx - 1) : i = (c + k) % NRx
    BY <1>1, RxWaits
  <2>2. m2[d.cb[i]] = m[r.cb[i]]
    BY <1>1, <2>1
  <2>3. s2[i] = s[i]
    BY <1>2, <2>2 DEF RxAt
  <2> QED BY <2>1, <2>3
<1>4. SameWindow(s, s2, c, 0, n, NRx)
  BY <1>3 DEF SameWindow
<1>5. Window(s2, c, n, NRx) = Window(s, c, n, NRx)
  BY <1>4, WindowSame, GenetSizes
<1>6. RxLen(d) = n
  BY <1>1 DEF RxLen
<1>7. RxPlaces(d, m2)
  BY <1>1, <1>6 DEF RxPlaces
<1> QED BY <1>1, <1>2, <1>5, <1>6, <1>7 DEF RxQ

\* The same receive ring, while frames stay where they are.
LEMMA RxSame ==
  ASSUME NEW r \in RxRings, NEW d, NEW m, NEW m2, RxPlaces(r, m), RxBuffers(r, m),
         d.c_index = r.c_index, d.PROD = r.PROD, d.CONS = r.CONS, d.read_ptr = r.read_ptr,
         d.cb = r.cb, \A b \in Bufs : m[b] \in RxFrames => m2[b] = m[b]
  PROVE  RxPlaces(d, m2) /\ RxLen(d) = RxLen(r) /\ RxQ(d, m2) = RxQ(r, m)
<1>1. ASSUME NEW k \in 0..(RxLen(r) - 1)
      PROVE  m2[d.cb[(r.c_index + k) % NRx]] = m[r.cb[(r.c_index + k) % NRx]]
  <2>1. PICK i \in 0..(NRx - 1) : i = (r.c_index + k) % NRx /\ m[r.cb[i]] \in RxFrames
    BY RxWaits
  <2>2. r.cb[i] \in Bufs
    BY DEF RxBuffers
  <2> QED BY <2>1, <2>2
<1> QED BY <1>1, RxKept

\* A frame is received.
RxArrives(r, d, m, m2, f) ==
  /\ RxLen(r) # NRx
  /\ d = [r EXCEPT !.PROD = (@ + 1) % IndexMod]
  /\ m2[r.cb[r.PROD % NRx]] = f
  /\ \A b \in Bufs : b # r.cb[r.PROD % NRx] => m2[b] = m[b]

\* A frame that is received is put at the end of what waits.
LEMMA RxPut ==
  ASSUME NEW r \in RxRings, NEW d, NEW m, NEW m2, RxPlaces(r, m), RxBuffers(r, m),
         NEW f \in RxFrames, RxArrives(r, d, m, m2, f)
  PROVE  RxPlaces(d, m2) /\ RxQ(d, m2) = Append(RxQ(r, m), f)
<1>1. PICK c \in 0..(IndexMod - 1), p \in 0..(IndexMod - 1), n \in Nat :
         c = r.c_index /\ p = r.PROD /\ n = RxLen(r)
  BY RxTypes, RxLenIs
<1>2. n = (p - c) % IndexMod
  BY <1>1 DEF RxLen
<1>3. n < NRx /\ n + 1 < IndexMod
  <2>1. n <= NRx
    BY <1>1 DEF RxPlaces
  <2>2. n # NRx
    BY <1>1 DEF RxArrives
  <2> QED BY <1>1, <2>1, <2>2, GenetSizes
<1>4. PICK p2 \in 0..(IndexMod - 1) : p2 = (p + 1) % IndexMod
  BY Next1, GenetSizes
<1>5. /\ d.PROD = p2 /\ d.c_index = c /\ d.CONS = r.CONS /\ d.read_ptr = r.read_ptr /\ d.cb = r.cb
  BY <1>1, <1>4 DEF RxRings, RxArrives
<1>6. RxLen(d) = n + 1 /\ RxLen(d) = (((p + 1) % IndexMod) - c) % IndexMod
  <2>1. ((p - c) % IndexMod) + 1 < IndexMod
    BY <1>2, <1>3
  <2>2. (((p + 1) % IndexMod) - c) % IndexMod = ((p - c) % IndexMod) + 1
    BY <2>1, Longer, GenetSizes
  <2>3. RxLen(d) = (((p + 1) % IndexMod) - c) % IndexMod
    BY <1>4, <1>5 DEF RxLen
  <2> QED BY <1>2, <2>2, <2>3
<1>7. PICK w \in 0..(NRx - 1) : w = p % NRx /\ w = (c + n) % NRx
  BY <1>2, NextPlace, GenetSizes
<1>8. ASSUME NEW k \in 0..(n - 1)
      PROVE  \E i \in (0..(NRx - 1)) \ {w} :
               i = (c + k) % NRx /\ m[r.cb[i]] \in RxFrames /\ m2[r.cb[i]] = m[r.cb[i]]
  <2>1. PICK i \in 0..(NRx - 1) : i = (c + k) % NRx /\ m[r.cb[i]] \in RxFrames
    BY <1>1, RxWaits
  <2>2. (c + k) % NRx # p % NRx
    BY <1>2, <1>3, NextUnused, GenetSizes
  <2>3. i # w
    BY <1>7, <2>1, <2>2
  <2>4. r.cb[i] \in Bufs /\ r.cb[i] # r.cb[w]
    BY <2>3 DEF RxBuffers
  <2>5. m2[r.cb[i]] = m[r.cb[i]]
    BY <1>1, <1>7, <2>4 DEF RxArrives
  <2> QED BY <2>1, <2>3, <2>5
<1>9. ASSUME NEW k \in 0..n PROVE m2[d.cb[(c + k) % NRx]] \in RxFrames
  <2>1. CASE k = n
    BY <1>1, <1>5, <1>7, <2>1 DEF RxArrives
  <2>2. CASE k # n
    <3>1. k \in 0..(n - 1)
      BY <1>1, <2>2
    <3> QED BY <1>5, <1>8, <3>1
  <2> QED BY <2>1, <2>2
<1>10. RxPlaces(d, m2)
  <2>1. RxLen(d) - 1 = n
    BY <1>1, <1>6
  <2>2. RxLen(d) <= NRx
    BY <1>3, <1>6, GenetSizes
  <2>3. d.CONS = d.c_index /\ d.read_ptr = d.c_index % NRx
    BY <1>1, <1>5 DEF RxPlaces
  <2> QED BY <1>5, <1>9, <2>1, <2>2, <2>3 DEF RxPlaces
<1>11. PICK s, s2 : s = RxAt(r, m) /\ s2 = RxAt(d, m2)
  OBVIOUS
<1>12. SameWindow(s, s2, c, 0, n, NRx)
  <2>1. ASSUME NEW k \in 0..(n - 1) PROVE s2[(c + k) % NRx] = s[(c + k) % NRx]
    <3>1. PICK i \in 0..(NRx - 1) : i = (c + k) % NRx /\ m2[r.cb[i]] = m[r.cb[i]]
      BY <1>8
    <3>2. s2[i] = s[i]
      BY <1>5, <1>11, <3>1 DEF RxAt
    <3> QED BY <3>1, <3>2
  <2> QED BY <2>1 DEF SameWindow
<1>13. s2[w] = f
  BY <1>1, <1>5, <1>7, <1>11 DEF RxAt, RxArrives
<1>14. Window(s2, c, RxLen(d), NRx) = Append(Window(s, c, n, NRx), s2[w])
  <2>1. Puts(s, s2, c, p, n, RxLen(d), w, NRx, IndexMod)
    BY <1>2, <1>3, <1>6, <1>7, <1>12, GenetSizes DEF Room, Puts
  <2> QED BY <2>1, WindowPuts, GenetSizes
<1>15. RxQ(d, m2) = Append(RxQ(r, m), f)
  BY <1>1, <1>5, <1>11, <1>13, <1>14 DEF RxQ
<1> QED BY <1>10, <1>15

\* The driver takes the first frame; the buffer new takes its buffer's place.
RxLeaves(r, d, m, m2, b, new) ==
  /\ r.PROD # r.c_index /\ b = r.cb[r.read_ptr]
  /\ new = b \/ m[new] \notin RxFrames \cup {Genet!Empty}
  /\ \A x \in Bufs \ {b, new} : m2[x] = m[x]
  /\ d.c_index = (r.c_index + 1) % IndexMod /\ d.CONS = d.c_index /\ d.PROD = r.PROD
  /\ d.read_ptr = (r.read_ptr + 1) % NRx
  /\ \A i \in 0..(NRx - 1) : d.cb[i] = IF i = r.read_ptr THEN new ELSE r.cb[i]

\* What the driver takes is the head of what waits.
LEMMA RxTake ==
  ASSUME NEW r \in RxRings, NEW d, NEW m, NEW m2, RxPlaces(r, m), RxBuffers(r, m), NEW b, NEW new,
         RxLeaves(r, d, m, m2, b, new)
  PROVE  /\ RxPlaces(d, m2) /\ m[b] \in RxFrames
         /\ RxQ(r, m) # <<>> /\ Head(RxQ(r, m)) = m[b] /\ RxQ(d, m2) = Tail(RxQ(r, m))
<1>1. PICK c \in 0..(IndexMod - 1), p \in 0..(IndexMod - 1), n \in Nat :
         c = r.c_index /\ p = r.PROD /\ n = RxLen(r)
  BY RxTypes, RxLenIs
<1>2. n = (p - c) % IndexMod /\ c # p
  BY <1>1 DEF RxLen, RxLeaves
<1>3. PICK e \in 0..(IndexMod - 1) : e = (c + 1) % IndexMod
  BY Next1, GenetSizes
<1>4. d.PROD = p /\ d.c_index = e /\ d.CONS = e
  BY <1>1, <1>3 DEF RxLeaves
<1>5. RxLen(d) = (p - e) % IndexMod /\ RxLen(d) = n - 1 /\ n # 0 /\ n <= NRx
  <2>1. (p - ((c + 1) % IndexMod)) % IndexMod = ((p - c) % IndexMod) - 1 /\ (p - c) % IndexMod # 0
    BY <1>2, Nearer, GenetSizes
  <2>2. n <= NRx
    BY <1>1 DEF RxPlaces
  <2> QED BY <1>2, <1>3, <1>4, <2>1, <2>2 DEF RxLen
<1>6. PICK i0 \in 0..(NRx - 1) : i0 = r.read_ptr /\ i0 = c % NRx
  BY <1>1, RxTypes DEF RxPlaces
<1>7. m[b] \in RxFrames /\ b = r.cb[i0]
  <2>1. 0 \in 0..(n - 1) /\ c + 0 = c
    BY <1>1, <1>5
  <2>2. m[r.cb[(c + 0) % NRx]] \in RxFrames
    BY <1>1, <2>1 DEF RxPlaces
  <2> QED BY <1>6, <2>1, <2>2 DEF RxLeaves
<1>8. ASSUME NEW k \in 1..(n - 1)
      PROVE  \E i \in 0..(NRx - 1) : /\ i = (c + k) % NRx /\ m[r.cb[i]] \in RxFrames
                                     /\ d.cb[i] = r.cb[i] /\ m2[r.cb[i]] = m[r.cb[i]]
  <2>1. k \in 0..(n - 1)
    OBVIOUS
  <2>2. PICK i \in 0..(NRx - 1) : i = (c + k) % NRx /\ m[r.cb[i]] \in RxFrames
    BY <1>1, <2>1, RxWaits
  <2>3. i # i0
    <3>1. PICK x \in Nat, y \in Nat : x = c /\ y = c + k
      BY <1>1
    <3>2. x < y /\ y < x + NRx
      BY <1>1, <1>5, <3>1, GenetSizes
    <3>3. x % NRx # y % NRx
      BY <3>2, ModDiffer, GenetSizes
    <3> QED BY <1>6, <2>2, <3>1, <3>3
  <2>4. d.cb[i] = r.cb[i]
    BY <1>6, <2>3 DEF RxLeaves
  <2>5. r.cb[i] \in Bufs \ {b, new}
    BY <1>6, <1>7, <2>2, <2>3 DEF RxBuffers, RxLeaves
  <2>6. m2[r.cb[i]] = m[r.cb[i]]
    BY <2>5 DEF RxLeaves
  <2> QED BY <2>2, <2>4, <2>6
<1>9. ASSUME NEW k \in 0..(RxLen(d) - 1) PROVE m2[d.cb[(e + k) % NRx]] \in RxFrames
  <2>1. PICK x \in Nat, j \in Nat : x = c + 1 /\ j = k
    BY <1>5
  <2>2. j + 1 \in 1..(n - 1) /\ x + j = c + (j + 1)
    BY <1>1, <1>5, <2>1
  <2>3. Wraps(x, j, NRx, IndexMod)
    BY Wrap, GenetSizes
  <2>4. (e + j) % NRx = (c + (j + 1)) % NRx
    BY <1>3, <2>1, <2>2, <2>3 DEF Wraps
  <2>5. PICK i \in 0..(NRx - 1) : /\ i = (c + (j + 1)) % NRx /\ m[r.cb[i]] \in RxFrames
                                  /\ d.cb[i] = r.cb[i] /\ m2[r.cb[i]] = m[r.cb[i]]
    BY <1>8, <2>2
  <2> QED BY <2>1, <2>4, <2>5
<1>10. RxPlaces(d, m2)
  <2>1. ((c % NRx) + 1) % NRx = ((c + 1) % IndexMod) % NRx
    BY PointerMoves, GenetSizes
  <2>2. d.read_ptr = d.c_index % NRx
    BY <1>3, <1>4, <1>6, <2>1 DEF RxLeaves
  <2>3. RxLen(d) <= NRx
    BY <1>5, GenetSizes
  <2> QED BY <1>4, <1>9, <2>2, <2>3 DEF RxPlaces
<1>11. PICK s, s2 : s = RxAt(r, m) /\ s2 = RxAt(d, m2)
  OBVIOUS
<1>12. s[c % NRx] = m[b]
  BY <1>6, <1>7, <1>11 DEF RxAt
<1>13. SameWindow(s, s2, c, 1, n, NRx)
  <2>1. ASSUME NEW k \in 1..(n - 1) PROVE s2[(c + k) % NRx] = s[(c + k) % NRx]
    <3>1. PICK i \in 0..(NRx - 1) : i = (c + k) % NRx /\ d.cb[i] = r.cb[i] /\ m2[r.cb[i]] = m[r.cb[i]]
      BY <1>8
    <3>2. s2[i] = s[i]
      BY <1>11, <3>1 DEF RxAt
    <3> QED BY <3>1, <3>2
  <2> QED BY <2>1 DEF SameWindow
<1>14. /\ Window(s, c, n, NRx) # <<>>
       /\ Head(Window(s, c, n, NRx)) = s[c % NRx]
       /\ Window(s2, e, RxLen(d), NRx) = Tail(Window(s, c, n, NRx))
  <2>1. Takes(s, s2, c, e, p, n, RxLen(d), NRx, IndexMod)
    BY <1>2, <1>3, <1>5, <1>13, GenetSizes DEF Takes
  <2> QED BY <2>1, WindowTakes, GenetSizes
<1>15. RxQ(d, m2) = Tail(RxQ(r, m)) /\ RxQ(r, m) # <<>> /\ Head(RxQ(r, m)) = s[c % NRx]
  BY <1>1, <1>3, <1>4, <1>5, <1>11, <1>14 DEF RxQ
<1> QED BY <1>7, <1>10, <1>12, <1>15

\* Between two steps the hardware has no frame in hand, the pointers are where
\* the indices are, and nothing waits before the start is over.
GenetServes ==
  /\ "part" \in DOMAIN dev /\ dev.part = <<>>
  /\ TxPlaces(rings.tx)
  /\ RxPlaces(rings.rx, mem)
  /\ stage # "up" => TxLen(rings.tx) = 0 /\ RxLen(rings.rx) = 0

\* A step of the frame service, from the frames before and after.
Served(tq, w, rq, u, tq2, w2, rq2, u2) ==
  \/ tq2 = tq /\ w2 = w /\ rq2 = rq /\ u2 = u
  \/ \E f \in TxFrames : tq2 = Append(tq, f) /\ w2 = w /\ rq2 = rq /\ u2 = u
  \/ tq # <<>> /\ w2 = Append(w, Head(tq)) /\ tq2 = Tail(tq) /\ rq2 = rq /\ u2 = u
  \/ \E f \in RxFrames : rq2 = Append(rq, f) /\ tq2 = tq /\ w2 = w /\ u2 = u
  \/ /\ rq # <<>> /\ rq2 = Tail(rq) /\ tq2 = tq /\ w2 = w
     /\ u2 = (IF Head(rq).to = "us" THEN Append(u, Head(rq)) ELSE u)
  \/ rq # <<>> /\ rq2 = Tail(rq) /\ tq2 = tq /\ w2 = w /\ u2 = u

\* What a step of GENET does to the frames that wait.
GenetServed ==
  Served(TxQ(rings.tx, mem), wire, RxQ(rings.rx, mem), up,
         TxQ(rings'.tx, mem'), wire', RxQ(rings'.rx, mem'), up')

\* GenetServes after a step, part by part.
LEMMA GenetServesPrime ==
  ASSUME NEW t, NEW r, rings' = [tx |-> t, rx |-> r], TxPlaces(t), RxPlaces(r, mem'),
         "part" \in DOMAIN dev' /\ dev'.part = <<>>,
         stage' # "up" => TxLen(t) = 0 /\ RxLen(r) = 0
  PROVE  GenetServes'
<1>1. rings'.tx = t /\ rings'.rx = r
  OBVIOUS
<1>2. TxPlaces(rings.tx)'
  BY <1>1 DEF TxPlaces, TxLen, Whole
<1>3. RxPlaces(rings.rx, mem)'
  BY <1>1 DEF RxPlaces, RxLen
<1>4. (stage # "up" => TxLen(rings.tx) = 0 /\ RxLen(rings.rx) = 0)'
  BY <1>1 DEF TxLen, RxLen
<1> QED BY <1>2, <1>3, <1>4 DEF GenetServes

\* The rings before a step.
LEMMA GenetParts ==
  ASSUME GenetInv, GenetServes
  PROVE  \E t \in TxRings, r \in RxRings :
           /\ t = rings.tx /\ r = rings.rx /\ rings = [tx |-> t, rx |-> r]
           /\ TxIndices(t) /\ TxBuffers(t, mem) /\ TxPlaces(t) /\ RxPlaces(r, mem)
           /\ (stage \in {"dma", "mii", "up"} => RxBuffers(r, mem))
           /\ (stage # "up" => TxLen(t) = 0 /\ RxLen(r) = 0)
  BY DEF GenetInv, GenetServes

\* A ring without frames.
LEMMA EmptyRings ==
  ASSUME NEW t, NEW r, NEW m
  PROVE  /\ TxLen(t) = 0 => TxQ(t, m) = <<>>
         /\ RxLen(r) = 0 => RxQ(r, m) = <<>>
  BY WindowNone DEF TxQ, RxQ

\* The rings start empty.
LEMMA RingsStart ==
  ASSUME NEW t, NEW r, NEW cbs, NEW m, t = Genet!init_tx_ring, r = Genet!init_rx_ring(cbs)
  PROVE  TxPlaces(t) /\ RxPlaces(r, m) /\ TxLen(t) = 0 /\ RxLen(r) = 0
<1>1. 0 % IndexMod = 0 /\ 0 % NTx = 0 /\ 0 % NRx = 0 /\ 0 - 0 = 0
  BY ModSmall, GenetSizes
<1>2. TxLen(t) = 0 /\ RxLen(r) = 0
  BY <1>1 DEF Genet!init_tx_ring, Genet!init_rx_ring, TxLen, RxLen
<1>3. TxPlaces(t)
  BY <1>1, <1>2 DEF Genet!init_tx_ring, TxPlaces
<1>4. RxPlaces(r, m)
  BY <1>1, <1>2, GenetSizes DEF Genet!init_rx_ring, RxPlaces
<1> QED BY <1>2, <1>3, <1>4

\* GENET starts as a frame service does.
LEMMA GenetServesStarts ==
  ASSUME Genet!Init
  PROVE  /\ GenetServes /\ wire = <<>> /\ up = <<>>
         /\ TxQ(rings.tx, mem) = <<>> /\ RxQ(rings.rx, mem) = <<>>
<1>1. PICK t, r, cbs : t = Genet!init_tx_ring /\ cbs = [i \in 0..(NRx - 1) |-> 0] /\ r = Genet!init_rx_ring(cbs)
  OBVIOUS
<1>2. rings = [tx |-> t, rx |-> r]
  BY <1>1 DEF Genet!Init
<1>3. TxPlaces(t) /\ RxPlaces(r, mem) /\ TxLen(t) = 0 /\ RxLen(r) = 0
  BY <1>1, RingsStart
<1>4. "part" \in DOMAIN dev /\ dev.part = <<>> /\ wire = <<>> /\ up = <<>>
  BY DEF Genet!Init
<1>5. rings.tx = t /\ rings.rx = r
  BY <1>2
<1> QED BY <1>3, <1>4, <1>5, EmptyRings DEF GenetServes

\* Steps that leave the rings and the buffers alone.
LEMMA GenetStill ==
  ASSUME GenetServes, UNCHANGED <<rings, mem, wire, up>>,
         "part" \in DOMAIN dev' /\ dev'.part = <<>>, stage' # "up" => stage # "up"
  PROVE  GenetServes' /\ GenetServed
<1>1. GenetServed
  BY DEF GenetServed, Served
<1>2. GenetServes'
  BY DEF GenetServes, TxPlaces, RxPlaces, TxLen, RxLen, Whole
<1> QED BY <1>1, <1>2

\* The start up to the rings.
LEMMA GenetStartServes ==
  ASSUME GenetInv, GenetServes, Genet!Start
  PROVE  GenetServes' /\ GenetServed
<1>1. "part" \in DOMAIN dev /\ dev.part = <<>>
  BY DEF GenetServes
<1>2. CASE Genet!init_umac
  BY <1>1, <1>2, GenetStill DEF Genet!init_umac, Genet!Starting
<1>3. CASE Genet!mii_probe
  BY <1>1, <1>3, GenetStill DEF Genet!mii_probe, Genet!Starting
<1>4. CASE Genet!netif_start
  BY <1>1, <1>4, GenetStill DEF Genet!netif_start, Genet!Starting
<1>5. CASE Genet!init_dma /\ stage' # "dma"
  BY <1>1, <1>5, GenetStill DEF Genet!init_dma, Genet!Starting
<1>6. CASE Genet!init_dma /\ stage' = "dma"
  <2>1. PICK t, r, cbs : t = Genet!init_tx_ring /\ cbs = [i \in 0..(NRx - 1) |-> i + 1]
                         /\ r = Genet!init_rx_ring(cbs)
    OBVIOUS
  <2>2. /\ stage = "umac" /\ dev' = [dev EXCEPT !.dma = TRUE]
        /\ rings' = [tx |-> t, rx |-> r] /\ UNCHANGED <<wire, up>>
    BY <1>6, <2>1 DEF Genet!init_dma, Genet!Starting
  <2>3. TxPlaces(t) /\ RxPlaces(r, mem') /\ TxLen(t) = 0 /\ RxLen(r) = 0
    BY <2>1, RingsStart
  <2>4. GenetServes'
    BY <1>1, <2>2, <2>3, GenetServesPrime
  <2>5. TxLen(rings.tx) = 0 /\ RxLen(rings.rx) = 0
    BY <2>2 DEF GenetServes
  <2>6. rings'.tx = t /\ rings'.rx = r
    BY <2>2
  <2>7. /\ TxQ(rings.tx, mem) = <<>> /\ RxQ(rings.rx, mem) = <<>>
        /\ TxQ(rings'.tx, mem') = <<>> /\ RxQ(rings'.rx, mem') = <<>>
    BY <2>3, <2>5, <2>6, EmptyRings
  <2>8. GenetServed
    BY <2>2, <2>7 DEF GenetServed, Served
  <2> QED BY <2>4, <2>8
<1> QED BY <1>2, <1>3, <1>4, <1>5, <1>6 DEF Genet!Start

\* The rings and the frames after a step of a running driver.
LEMMA GenetGoesOn ==
  ASSUME stage' = "up", "part" \in DOMAIN dev' /\ dev'.part = <<>>,
         NEW t, NEW r, rings' = [tx |-> t, rx |-> r], TxPlaces(t), RxPlaces(r, mem'),
         Served(TxQ(rings.tx, mem), wire, RxQ(rings.rx, mem), up,
                TxQ(t, mem'), wire', RxQ(r, mem'), up')
  PROVE  GenetServes' /\ GenetServed
<1>1. rings'.tx = t /\ rings'.rx = r
  OBVIOUS
<1>2. GenetServes'
  BY GenetServesPrime
<1> QED BY <1>1, <1>2 DEF GenetServed

\* A frame is accepted, or dropped for want of room.
LEMMA GenetXmitServes ==
  ASSUME HeaderOnly, GenetInv, GenetInv', GenetServes, NEW f \in GenetTx, Genet!bcmgenet_xmit(f)
  PROVE  GenetServes' /\ GenetServed
<1>1. PICK b : b = Genet!SomeFree
  OBVIOUS
<1>2. b \in Bufs /\ mem[b] = Genet!Free
  BY <1>1, GenetSomeFree DEF Genet!bcmgenet_xmit
<1>3. stage = "up" /\ mem \in [Bufs -> Contents]
  BY DEF Genet!bcmgenet_xmit, Genet!Running, GenetInv
<1>4. PICK t \in TxRings, r \in RxRings :
           /\ t = rings.tx /\ r = rings.rx /\ rings = [tx |-> t, rx |-> r]
           /\ TxIndices(t) /\ TxBuffers(t, mem) /\ TxPlaces(t) /\ RxPlaces(r, mem) /\ RxBuffers(r, mem)
  BY <1>3, GenetParts
<1>5. /\ stage' = "up" /\ mem' = [mem EXCEPT ![b] = f] /\ dev' = [dev EXCEPT !.ntx = @ + 1]
      /\ wire' = wire /\ up' = up
  BY <1>1, <1>3 DEF Genet!bcmgenet_xmit
<1>6. \A c \in Bufs : mem[c] # Genet!Free => mem'[c] = mem[c]
  BY <1>2, <1>3, <1>5
<1>7. /\ \A c \in Bufs : mem[c] \in GenetTx => mem'[c] = mem[c]
      /\ \A c \in Bufs : mem[c] \in RxFrames => mem'[c] = mem[c]
  BY <1>6, Kinds
<1>8. "part" \in DOMAIN dev' /\ dev'.part = <<>>
  BY <1>5 DEF GenetServes
<1>9. RxPlaces(r, mem') /\ RxQ(r, mem') = RxQ(r, mem)
  BY <1>4, <1>7, RxSame
<1>10. CASE t.free_bds < 2
  <2>1. rings' = [tx |-> t, rx |-> r]
    BY <1>3, <1>4, <1>10 DEF Genet!bcmgenet_xmit
  <2>2. TxQ(t, mem') = TxQ(t, mem)
    BY <1>4, <1>7, TxSame
  <2>3. Served(TxQ(rings.tx, mem), wire, RxQ(rings.rx, mem), up, TxQ(t, mem'), wire', RxQ(r, mem'), up')
    BY <1>4, <1>5, <1>9, <2>2 DEF Served
  <2> QED BY <1>4, <1>5, <1>8, <1>9, <2>1, <2>3, GenetGoesOn
<1>11. CASE ~(t.free_bds < 2)
  <2>1. /\ t.write_ptr \in 0..(NTx - 1) /\ t.prod_index \in 0..(IndexMod - 1) /\ t.free_bds \in Int
        /\ t.eop \in [0..(NTx - 1) -> BOOLEAN] /\ t.cb \in [0..(NTx - 1) -> Bufs \cup {0}]
    BY <1>4 DEF TxRings
  <2>2. PICK w, p : w = (t.write_ptr + 1) % NTx /\ p = (t.prod_index + 1) % IndexMod
    OBVIOUS
  <2>3. PICK s : s = {Genet!TxSlot(t, k) : k \in 0..0}
    OBVIOUS
  <2>4. s = {t.write_ptr} /\ Genet!TxSlot(t, 0) = t.write_ptr
    <3>1. t.write_ptr + 0 = t.write_ptr
      BY <2>1
    <3>2. t.write_ptr % NTx = t.write_ptr
      <4>1. PICK x \in 0..(NTx - 1) : x = t.write_ptr
        BY <2>1
      <4>2. x \in Int /\ NTx \in Nat \ {0}
        BY GenetSizes
      <4>3. x % NTx = x
        BY <4>2, ModSmall
      <4> QED BY <4>1, <4>3
    <3>3. Genet!TxSlot(t, 0) = t.write_ptr
      BY <3>1, <3>2 DEF Genet!TxSlot
    <3>4. 0..0 = {0}
      OBVIOUS
    <3> QED BY <2>3, <3>3, <3>4
  <2>5. PICK cb : cb = [i \in DOMAIN t.cb |-> IF i \in s THEN b ELSE t.cb[i]]
    OBVIOUS
  <2>6. PICK eop : eop = [i \in DOMAIN t.eop |-> IF i \in s THEN i = Genet!TxSlot(t, 0) ELSE t.eop[i]]
    OBVIOUS
  <2>7. PICK u : u = [t EXCEPT !.cb = cb, !.eop = eop, !.write_ptr = w, !.free_bds = @ - 1,
                               !.prod_index = p, !.PROD = p]
    OBVIOUS
  <2>8. rings' = [tx |-> u, rx |-> r]
    <3>1. Genet!Descs(f) = 1
      BY ShortDescs
    <3>2. 1 - 1 = 0
      OBVIOUS
    <3> QED BY <1>1, <1>3, <1>4, <1>11, <2>2, <2>3, <2>5, <2>6, <2>7, <3>1, <3>2 DEF Genet!bcmgenet_xmit
  <2>9. u \in TxRings
    <3>1. (rings \in [tx : TxRings, rx : RxRings])'
      BY DEF GenetInv
    <3>2. rings' \in [tx : TxRings, rx : RxRings]
      BY <3>1 DEF TxRings, RxRings
    <3> QED BY <2>8, <3>2
  <2>10. /\ u.write_ptr = w /\ u.prod_index = p /\ u.PROD = p /\ u.CONS = t.CONS
         /\ u.c_index = t.c_index /\ u.clean_ptr = t.clean_ptr /\ u.cb = cb /\ u.eop = eop
    BY <2>7 DEF TxRings
  <2>11. \A i \in 0..(NTx - 1) : u.cb[i] = IF i = t.write_ptr THEN b ELSE t.cb[i]
    BY <2>1, <2>4, <2>5, <2>10
  <2>15. u.eop[t.write_ptr]
    <3>1. t.write_ptr \in s /\ t.write_ptr = Genet!TxSlot(t, 0) /\ t.write_ptr \in DOMAIN t.eop
      BY <2>1, <2>4
    <3>2. eop[t.write_ptr] = IF t.write_ptr \in s THEN t.write_ptr = Genet!TxSlot(t, 0) ELSE t.eop[t.write_ptr]
      BY <2>6, <3>1, Zenon
    <3>3. eop[t.write_ptr]
      BY <3>1, <3>2, Zenon
    <3> QED BY <2>10, <3>3
  <2>16. \A i \in 0..(NTx - 1) : i # t.write_ptr => u.eop[i] = t.eop[i]
    <3> SUFFICES ASSUME NEW i \in 0..(NTx - 1), i # t.write_ptr PROVE u.eop[i] = t.eop[i]
      OBVIOUS
    <3>1. i \notin s /\ i \in DOMAIN t.eop
      BY <2>1, <2>4
    <3>2. eop[i] = t.eop[i]
      BY <2>6, <3>1, Zenon
    <3> QED BY <2>10, <3>2
  <2>12. t.free_bds >= 2 /\ mem'[b] = f
    BY <1>2, <1>3, <1>5, <1>11, <2>1
  <2>13. TxPlaces(u) /\ TxQ(u, mem') = Append(TxQ(t, mem), f)
    <3>1. /\ u.write_ptr = (t.write_ptr + 1) % NTx /\ u.prod_index = (t.prod_index + 1) % IndexMod
          /\ u.PROD = u.prod_index /\ u.CONS = t.CONS /\ u.c_index = t.c_index /\ u.clean_ptr = t.clean_ptr
      BY <2>2, <2>10
    <3>2. TxAdds(t, u, b)
      BY <2>11, <2>15, <2>16, <3>1 DEF TxAdds
    <3>3. Stays(mem, mem') /\ mem'[b] = f
      BY <1>7, <2>12 DEF Stays
    <3> QED BY <1>2, <1>4, <2>9, <2>12, <3>2, <3>3, TxPut
  <2>14. Served(TxQ(rings.tx, mem), wire, RxQ(rings.rx, mem), up, TxQ(u, mem'), wire', RxQ(r, mem'), up')
    <3>1. f \in TxFrames
      BY NetDevAssumption
    <3> QED BY <1>4, <1>5, <1>9, <2>13, <3>1 DEF Served
  <2> QED BY <1>5, <1>8, <1>9, <2>8, <2>13, <2>14, GenetGoesOn
<1> QED BY <1>10, <1>11

\* Reclaiming is not seen.
LEMMA GenetReclaimServes ==
  ASSUME GenetInv, GenetServes, Genet!Reclaim
  PROVE  GenetServes' /\ GenetServed
<1>1. stage = "up" /\ mem \in [Bufs -> Contents]
  BY DEF Genet!Reclaim, Genet!Running, GenetInv
<1>2. PICK t \in TxRings, r \in RxRings :
           /\ t = rings.tx /\ r = rings.rx /\ rings = [tx |-> t, rx |-> r]
           /\ TxIndices(t) /\ TxBuffers(t, mem) /\ TxPlaces(t) /\ RxPlaces(r, mem) /\ RxBuffers(r, mem)
  BY <1>1, GenetParts
<1>3. PICK u, freed : u = Genet!tx_reclaim(t) /\ freed = Genet!Reclaimed(t)
  OBVIOUS
<1>4. /\ stage' = "up" /\ dev' = dev /\ rings' = [tx |-> u, rx |-> r] /\ wire' = wire /\ up' = up
      /\ mem' = [b \in Bufs |-> IF b \in freed THEN Genet!Free ELSE mem[b]]
  BY <1>1, <1>2, <1>3 DEF Genet!Reclaim
<1>5. TxPlaces(u) /\ TxQ(u, mem') = TxQ(t, mem)
  <2>1. \A b \in Bufs : b \notin Genet!Reclaimed(t) => mem'[b] = mem[b]
    BY <1>3, <1>4
  <2> QED BY <1>2, <1>3, <2>1, TxReclaim
<1>6. \A b \in freed : mem[b] \in GenetTx \/ b \notin Bufs
  <2>1. t.cb \in [0..(NTx - 1) -> Bufs \cup {0}] /\ 0 \notin Bufs
    BY TxTypes, NetDevAssumption
  <2>2. freed \subseteq {t.cb[i] : i \in 0..(NTx - 1)}
    BY <1>3, <2>1 DEF Genet!Reclaimed
  <2> QED BY <1>2, <2>1, <2>2 DEF TxBuffers
<1>7. \A b \in Bufs : mem[b] \in RxFrames => mem'[b] = mem[b]
  BY <1>4, <1>6, Kinds
<1>8. RxPlaces(r, mem') /\ RxQ(r, mem') = RxQ(r, mem)
  BY <1>2, <1>7, RxSame
<1>9. Served(TxQ(rings.tx, mem), wire, RxQ(rings.rx, mem), up, TxQ(u, mem'), wire', RxQ(r, mem'), up')
  BY <1>2, <1>4, <1>5, <1>8 DEF Served
<1>10. "part" \in DOMAIN dev' /\ dev'.part = <<>>
  BY <1>4 DEF GenetServes
<1> QED BY <1>4, <1>5, <1>8, <1>9, <1>10, GenetGoesOn

\* The message layer frees a buffer of its own.
LEMMA GenetMsgFreeServes ==
  ASSUME GenetInv, GenetServes, NEW b \in Bufs, Genet!MsgFree(b)
  PROVE  GenetServes' /\ GenetServed
<1>1. stage = "up" /\ mem \in [Bufs -> Contents]
  BY DEF Genet!MsgFree, Genet!Running, GenetInv
<1>2. PICK t \in TxRings, r \in RxRings :
           /\ t = rings.tx /\ r = rings.rx /\ rings = [tx |-> t, rx |-> r]
           /\ TxIndices(t) /\ TxBuffers(t, mem) /\ TxPlaces(t) /\ RxPlaces(r, mem) /\ RxBuffers(r, mem)
  BY <1>1, GenetParts
<1>3. /\ stage' = "up" /\ dev' = dev /\ rings' = [tx |-> t, rx |-> r] /\ wire' = wire /\ up' = up
      /\ mem' = [mem EXCEPT ![b] = Genet!Free] /\ mem[b] = Genet!InStack
  BY <1>1, <1>2 DEF Genet!MsgFree
<1>4. \A c \in Bufs : mem[c] # Genet!InStack => mem'[c] = mem[c]
  BY <1>1, <1>3
<1>5. /\ \A c \in Bufs : mem[c] \in GenetTx => mem'[c] = mem[c]
      /\ \A c \in Bufs : mem[c] \in RxFrames => mem'[c] = mem[c]
  BY <1>4, Kinds
<1>6. RxPlaces(r, mem') /\ RxQ(r, mem') = RxQ(r, mem) /\ TxQ(t, mem') = TxQ(t, mem)
  BY <1>2, <1>5, RxSame, TxSame
<1>7. Served(TxQ(rings.tx, mem), wire, RxQ(rings.rx, mem), up, TxQ(t, mem'), wire', RxQ(r, mem'), up')
  BY <1>2, <1>3, <1>6 DEF Served
<1>8. "part" \in DOMAIN dev' /\ dev'.part = <<>>
  BY <1>3 DEF GenetServes
<1> QED BY <1>2, <1>3, <1>6, <1>7, <1>8, GenetGoesOn

\* A buffer of 8 KiB of which z bytes were written.
Written(b, z) ==
  /\ b.data = 0 /\ b.tail = 8192 /\ b.len = z /\ b.body = FALSE /\ b.body_len = 0
  /\ DOMAIN b = {"data", "tail", "len", "body", "body_len"}

\* The buffer rxintr hands up is such a buffer.
LEMMA GenetBuffer ==
  ASSUME NEW z \in Nat
  PROVE  Written([Genet!alloc_iobuf_headsize(2 * Genet!PAGESIZE, 0) EXCEPT !.len = z], z)
<1>1. Genet!alloc_iobuf_headsize(2 * Genet!PAGESIZE, 0)
        = [data |-> 0, tail |-> 8192, len |-> 8192, body |-> FALSE, body_len |-> 0]
  BY DEF Genet!alloc_iobuf_headsize, Genet!PAGESIZE
<1>2. PICK a : a = Genet!alloc_iobuf_headsize(2 * Genet!PAGESIZE, 0)
  OBVIOUS
<1>3. PICK b : b = [a EXCEPT !.len = z]
  OBVIOUS
<1>4. Written(b, z)
  BY <1>1, <1>2, <1>3 DEF Written
<1> QED BY <1>2, <1>3, <1>4, Zenon

\* The body of a frame is found behind the header, the padding and the frame
\* check sequence taken off.
LEMMA GenetBody ==
  ASSUME NEW f \in RxFrames
  PROVE  [f EXCEPT !.body = Genet!RecvBody(Genet!RecvBuffer(Genet!LEADING_PAD + Genet!FrameLen(f) + Genet!FcsLen))] = f
<1>1. PICK n : n = f.body
  OBVIOUS
<1>2. n \in {0, 4096} /\ f \in [id : Nat \ {0}, to : {"us", "other", "bad", "peer"}, body : {0, 4096}]
  BY <1>1, NetDevAssumption DEF Frame, PAGESIZE
<1>3. PICK z \in Nat : z = 70 + n
  BY <1>2
<1>4. Genet!LEADING_PAD + Genet!FrameLen(f) + Genet!FcsLen = z
  BY <1>1, <1>2, <1>3 DEF Genet!LEADING_PAD, Genet!FrameLen, Genet!FcsLen, Genet!MsgHdrSize
<1>5. PICK b : /\ b = [Genet!alloc_iobuf_headsize(2 * Genet!PAGESIZE, 0) EXCEPT !.len = z]
               /\ b.data = 0 /\ b.tail = 8192 /\ b.len = z /\ b.body = FALSE /\ b.body_len = 0
               /\ DOMAIN b = {"data", "tail", "len", "body", "body_len"}
  <2>1. PICK b : b = [Genet!alloc_iobuf_headsize(2 * Genet!PAGESIZE, 0) EXCEPT !.len = z]
    OBVIOUS
  <2>2. Written(b, z)
    BY <2>1, GenetBuffer, Zenon
  <2> QED BY <2>1, <2>2 DEF Written
<1>7. Genet!iobuf_pull(b, 2) = [b EXCEPT !.data = 2, !.len = z - 2]
  <2>1. b.data + 2 = 2 /\ ~(2 >= b.tail) /\ b.len = z /\ b.data = 0
    BY <1>5
  <2> QED BY <2>1 DEF Genet!iobuf_pull
<1>8. PICK p : p = [b EXCEPT !.data = 2, !.len = z - 2]
  OBVIOUS
<1>9. p.data = 2 /\ p.len = z - 2 /\ p.tail = 8192 /\ p.body = FALSE /\ p.body_len = 0
      /\ {"data", "tail", "len", "body", "body_len"} = DOMAIN p
  BY <1>5, <1>8
<1>10. Genet!RecvBuffer(z) = p
  BY <1>5, <1>7, <1>8 DEF Genet!RecvBuffer, Genet!LEADING_PAD
<1>11. PICK e : e = [p EXCEPT !.data = 16, !.len = z - 16]
  OBVIOUS
<1>12. Genet!iobuf_pull(p, 14) = e
  <2>1. p.data + 14 = 16 /\ ~(16 >= p.tail) /\ p.len - 14 = z - 16
    BY <1>3, <1>9
  <2> QED BY <1>11, <2>1 DEF Genet!iobuf_pull
<1>13. e.len = z - 16 /\ e.body = FALSE
  BY <1>9, <1>11
<1>14. Genet!RecvBody(p) = n
  <2>1. Genet!RecvBody(p) = IF e.len > 64 THEN e.len - 54 ELSE IF e.body THEN e.body_len ELSE 0
    BY <1>12 DEF Genet!RecvBody, Genet!EtherSize
  <2>2. CASE n = 0
    <3>1. ~(e.len > 64)
      BY <1>3, <1>13, <2>2
    <3> QED BY <1>13, <2>1, <2>2, <3>1
  <2>3. CASE n = 4096
    <3>1. e.len > 64 /\ e.len - 54 = 4096
      BY <1>3, <1>13, <2>3
    <3> QED BY <2>1, <2>3, <3>1
  <2> QED BY <1>2, <2>2, <2>3
<1>15. [f EXCEPT !.body = n] = f
  BY <1>1, <1>2
<1> QED BY <1>4, <1>10, <1>14, <1>15

\* A frame is handed to the message layer or dropped.
LEMMA GenetRxintrServes ==
  ASSUME GenetInv, GenetServes, Genet!bcmgenet_rxintr
  PROVE  GenetServes' /\ GenetServed
<1>1. stage = "up" /\ mem \in [Bufs -> Contents]
  BY DEF Genet!bcmgenet_rxintr, Genet!Running, GenetInv
<1>2. PICK t \in TxRings, r \in RxRings :
           /\ t = rings.tx /\ r = rings.rx /\ rings = [tx |-> t, rx |-> r]
           /\ TxIndices(t) /\ TxBuffers(t, mem) /\ TxPlaces(t) /\ RxPlaces(r, mem) /\ RxBuffers(r, mem)
  BY <1>1, GenetParts
<1>3. PICK c : c = Genet!CountDiscards(r)
  OBVIOUS
<1>4. c \in RxRings /\ c.cb = r.cb /\ c.read_ptr = r.read_ptr /\ c.c_index = r.c_index
      /\ c.PROD = r.PROD /\ c.CONS = r.CONS
  <2>1. c.CONS = r.CONS
    BY <1>2, <1>3 DEF Genet!CountDiscards, RxRings
  <2> QED BY <1>2, <1>3, <2>1, CountsDiscards
<1>5. RxBuffers(c, mem) /\ RxPlaces(c, mem) /\ RxQ(c, mem) = RxQ(r, mem)
  <2>1. RxBuffers(c, mem)
    BY <1>2, <1>4 DEF RxBuffers
  <2>2. RxPlaces(c, mem) /\ RxQ(c, mem) = RxQ(r, mem)
    BY <1>2, <1>4, RxSame
  <2> QED BY <2>1, <2>2
<1>6. PICK b : b = c.cb[c.read_ptr]
  OBVIOUS
<1>7. b \in Bufs /\ mem[b] \in RxFrames \cup {Genet!Empty}
  BY <1>4, <1>5, <1>6, RxTypes DEF RxBuffers
<1>8. PICK new : new = Genet!rx_refill(b)
  OBVIOUS
<1>9. new \in Bufs /\ (new = b \/ mem[new] = Genet!Free)
  BY <1>7, <1>8, GenetSomeFree DEF Genet!rx_refill
<1>10. stage' = "up" /\ dev' = dev /\ wire' = wire
  BY <1>1 DEF Genet!bcmgenet_rxintr
<1>11. "part" \in DOMAIN dev' /\ dev'.part = <<>>
  BY <1>10 DEF GenetServes
<1>12. CASE c.PROD = c.c_index
  <2>1. rings' = [tx |-> t, rx |-> c] /\ mem' = mem /\ up' = up
    BY <1>1, <1>2, <1>3, <1>12 DEF Genet!bcmgenet_rxintr
  <2>2. Served(TxQ(rings.tx, mem), wire, RxQ(rings.rx, mem), up, TxQ(t, mem'), wire', RxQ(c, mem'), up')
    BY <1>2, <1>5, <1>10, <2>1 DEF Served
  <2> QED BY <1>2, <1>5, <1>10, <1>11, <2>1, <2>2, GenetGoesOn
<1>13. CASE c.PROD # c.c_index
  <2>1. PICK p, q : p = (c.read_ptr + 1) % NRx /\ q = (c.c_index + 1) % IndexMod
    OBVIOUS
  <2>2. PICK d : d = [c EXCEPT !.cb = [@ EXCEPT ![c.read_ptr] = new], !.read_ptr = p, !.c_index = q,
                               !.CONS = q]
    OBVIOUS
  <2>3. rings' = [tx |-> t, rx |-> d]
    BY <1>1, <1>2, <1>3, <1>6, <1>8, <1>13, <2>1, <2>2 DEF Genet!bcmgenet_rxintr
  <2>4. /\ d.cb = [c.cb EXCEPT ![c.read_ptr] = new] /\ d.read_ptr = p /\ d.c_index = q /\ d.CONS = q
        /\ d.PROD = c.PROD
    BY <1>4, <2>2 DEF RxRings
  <2>5. PICK f : f = mem[b]
    OBVIOUS
  <2>6. /\ new = b => mem' = [mem EXCEPT ![b] = Genet!Empty] /\ up' = up
        /\ new # b => mem' = [mem EXCEPT ![new] = Genet!Empty,
                                         ![b] = IF f.to = "us" THEN Genet!InStack ELSE Genet!Free]
    BY <1>1, <1>2, <1>3, <1>6, <1>8, <1>13, <2>5 DEF Genet!bcmgenet_rxintr
  <2>7. \A x \in Bufs \ {b, new} : mem'[x] = mem[x]
    <3>1. CASE new = b
      BY <1>1, <2>6, <3>1
    <3>2. CASE new # b
      BY <1>1, <2>6, <3>2
    <3> QED BY <3>1, <3>2
  <2>8. RxLeaves(c, d, mem, mem', b, new)
    <3>1. new = b \/ mem[new] \notin RxFrames \cup {Genet!Empty}
      BY <1>9, Kinds
    <3>2. \A i \in 0..(NRx - 1) : d.cb[i] = IF i = c.read_ptr THEN new ELSE c.cb[i]
      BY <1>4, <2>4, RxTypes
    <3> QED BY <1>6, <1>13, <2>1, <2>4, <2>7, <3>1, <3>2 DEF RxLeaves
  <2>9. /\ RxPlaces(d, mem') /\ f \in RxFrames /\ RxQ(c, mem) # <<>> /\ Head(RxQ(c, mem)) = f
        /\ RxQ(d, mem') = Tail(RxQ(c, mem))
    BY <1>4, <1>5, <2>5, <2>8, RxTake
  <2>10. TxQ(t, mem') = TxQ(t, mem)
    <3>1. \A x \in Bufs : mem[x] \in GenetTx => mem'[x] = mem[x]
      BY <1>7, <1>9, <2>7, Kinds
    <3> QED BY <1>2, <3>1, TxSame
  <2>11. up' = up \/ up' = IF f.to = "us" THEN Append(up, f) ELSE up
    <3>1. CASE new = b
      BY <2>6, <3>1
    <3>2. CASE new # b
      <4>1. PICK g : g = [f EXCEPT !.body = Genet!RecvBody(Genet!RecvBuffer(Genet!LEADING_PAD + Genet!FrameLen(f) + Genet!FcsLen))]
        OBVIOUS
      <4>2. up' = IF f.to = "us" THEN Append(up, g) ELSE up
        BY <1>1, <1>2, <1>3, <1>6, <1>8, <1>13, <2>5, <2>9, <3>2, <4>1 DEF Genet!bcmgenet_rxintr
      <4>3. g = f
        BY <2>9, <4>1, GenetBody
      <4> QED BY <4>2, <4>3
    <3> QED BY <3>1, <3>2
  <2>12. Served(TxQ(rings.tx, mem), wire, RxQ(rings.rx, mem), up, TxQ(t, mem'), wire', RxQ(d, mem'), up')
    BY <1>2, <1>5, <1>10, <2>9, <2>10, <2>11 DEF Served
  <2> QED BY <1>2, <1>10, <1>11, <2>3, <2>9, <2>12, GenetGoesOn
<1> QED BY <1>12, <1>13

\* The hardware sends a frame.
LEMMA GenetTransmitServes ==
  ASSUME HeaderOnly, GenetInv, GenetServes, Genet!DevTransmit
  PROVE  GenetServes' /\ GenetServed
<1>1. stage = "up" /\ "part" \in DOMAIN dev /\ "cmd" \in DOMAIN dev /\ dev.part = <<>>
  BY DEF Genet!DevTransmit, GenetInv, GenetServes
<1>2. PICK t \in TxRings, r \in RxRings :
           /\ t = rings.tx /\ r = rings.rx /\ rings = [tx |-> t, rx |-> r]
           /\ TxIndices(t) /\ TxBuffers(t, mem) /\ TxPlaces(t) /\ RxPlaces(r, mem)
  BY <1>1, GenetParts
<1>3. PICK u : u = [t EXCEPT !.CONS = (@ + 1) % IndexMod]
  OBVIOUS
<1>4. stage' = "up" /\ mem' = mem /\ up' = up /\ rings' = [tx |-> u, rx |-> r] /\ t.CONS # t.PROD
  BY <1>1, <1>2, <1>3 DEF Genet!DevTransmit
<1>5. TxSent(t, u)
  BY <1>3, <1>4 DEF TxSent
<1>6. PICK i : i = t.CONS % NTx
  OBVIOUS
<1>7. /\ TxPlaces(u) /\ Whole(t, i) /\ TxQ(t, mem) # <<>> /\ Head(TxQ(t, mem)) = mem[t.cb[i]]
      /\ TxQ(u, mem) = Tail(TxQ(t, mem))
  BY <1>2, <1>5, <1>6, TxTake
<1>8. i \in 0..(NTx - 1)
  <2>1. t.CONS \in Int
    BY TxTypes, GenetSizes
  <2> QED BY <1>6, <2>1, ModSmall, GenetSizes
<1>9. PICK b : b = t.cb[i]
  OBVIOUS
<1>10. t.eop[i] /\ b # 0 /\ mem[b] \in GenetTx
  <2>1. t.eop[i] /\ b # 0
    BY <1>7, <1>9 DEF Whole
  <2>2. mem[b] \in GenetTx
    BY <1>2, <1>8, <1>9, <2>1 DEF TxBuffers
  <2> QED BY <2>1, <2>2
<1>11. Append(dev.part, b) = <<b>>
  BY <1>1
<1>12. wire' = Append(wire, Genet!FrameOf(<<b>>))
  BY <1>2, <1>6, <1>9, <1>10, <1>11 DEF Genet!DevTransmit
<1>13. Genet!FrameOf(<<b>>) = mem[b]
  <2>1. Genet!Descs(mem[b]) = 1
    BY <1>10, ShortDescs
  <2>2. PICK s : s = <<b>>
    OBVIOUS
  <2>3. s[1] = b /\ Len(s) = 1 /\ \A k \in DOMAIN s : s[k] = b
    BY <2>2
  <2>4. mem[b] \in GenetTx
    BY <1>10
  <2>5. Genet!FrameOf(s) = mem[b]
    BY <1>10, <2>1, <2>3, <2>4 DEF Genet!FrameOf
  <2> QED BY <2>2, <2>5
<1>14. "part" \in DOMAIN dev' /\ dev'.part = <<>>
  BY <1>1, <1>2, <1>6, <1>10 DEF Genet!DevTransmit
<1>15. Served(TxQ(rings.tx, mem), wire, RxQ(rings.rx, mem), up, TxQ(u, mem'), wire', RxQ(r, mem'), up')
  BY <1>2, <1>4, <1>7, <1>9, <1>12, <1>13 DEF Served
<1> QED BY <1>2, <1>4, <1>7, <1>14, <1>15, GenetGoesOn

\* The hardware takes a frame in, or counts it as discarded.
LEMMA GenetReceiveServes ==
  ASSUME GenetInv, GenetServes, NEW f \in RxFrames, Genet!DevReceive(f)
  PROVE  GenetServes' /\ GenetServed
<1>1. stage = "up" /\ "part" \in DOMAIN dev /\ dev.part = <<>> /\ mem \in [Bufs -> Contents]
  BY DEF Genet!DevReceive, GenetInv, GenetServes
<1>2. PICK t \in TxRings, r \in RxRings :
           /\ t = rings.tx /\ r = rings.rx /\ rings = [tx |-> t, rx |-> r]
           /\ TxIndices(t) /\ TxBuffers(t, mem) /\ TxPlaces(t) /\ RxPlaces(r, mem) /\ RxBuffers(r, mem)
  BY <1>1, GenetParts
<1>3. stage' = "up" /\ dev' = [dev EXCEPT !.nrx = @ + 1] /\ wire' = wire /\ up' = up
  BY <1>1 DEF Genet!DevReceive
<1>4. "part" \in DOMAIN dev' /\ dev'.part = <<>>
  BY <1>1, <1>3
<1>5. CASE (r.PROD - r.CONS) % IndexMod = NRx
  <2>1. PICK d : d = [r EXCEPT !.discards = @ + 1]
    OBVIOUS
  <2>2. rings' = [tx |-> t, rx |-> d] /\ mem' = mem
    BY <1>1, <1>2, <1>5, <2>1 DEF Genet!DevReceive
  <2>3. d.cb = r.cb /\ d.c_index = r.c_index /\ d.PROD = r.PROD /\ d.CONS = r.CONS /\ d.read_ptr = r.read_ptr
    BY <1>2, <2>1 DEF RxRings
  <2>4. RxPlaces(d, mem') /\ RxQ(d, mem') = RxQ(r, mem)
    BY <1>2, <2>2, <2>3, RxSame
  <2>5. Served(TxQ(rings.tx, mem), wire, RxQ(rings.rx, mem), up, TxQ(t, mem'), wire', RxQ(d, mem'), up')
    BY <1>2, <1>3, <2>2, <2>4 DEF Served
  <2> QED BY <1>2, <1>3, <1>4, <2>2, <2>4, <2>5, GenetGoesOn
<1>6. CASE (r.PROD - r.CONS) % IndexMod # NRx
  <2>1. PICK d : d = [r EXCEPT !.PROD = (@ + 1) % IndexMod]
    OBVIOUS
  <2>2. PICK i : i = r.PROD % NRx
    OBVIOUS
  <2>3. rings' = [tx |-> t, rx |-> d] /\ mem' = [mem EXCEPT ![r.cb[i]] = f]
    BY <1>1, <1>2, <1>6, <2>1, <2>2 DEF Genet!DevReceive
  <2>4. i \in 0..(NRx - 1)
    <3>1. r.PROD \in Int
      BY RxTypes, GenetSizes
    <3> QED BY <2>2, <3>1, ModSmall, GenetSizes
  <2>5. r.cb[i] \in Bufs /\ mem[r.cb[i]] \in RxFrames \cup {Genet!Empty}
    BY <1>2, <2>4 DEF RxBuffers
  <2>6. mem'[r.cb[i]] = f /\ \A x \in Bufs : x # r.cb[i] => mem'[x] = mem[x]
    BY <1>1, <2>3, <2>5
  <2>7. RxLen(r) # NRx
    <3>1. r.CONS = r.c_index
      BY <1>2 DEF RxPlaces
    <3> QED BY <1>6, <3>1 DEF RxLen
  <2>8. RxArrives(r, d, mem, mem', f)
    BY <2>1, <2>2, <2>6, <2>7 DEF RxArrives
  <2>9. RxPlaces(d, mem') /\ RxQ(d, mem') = Append(RxQ(r, mem), f)
    <3>1. PICK m2 : m2 = mem'
      OBVIOUS
    <3>2. RxArrives(r, d, mem, m2, f)
      BY <2>8, <3>1
    <3>3. RxPlaces(d, m2) /\ RxQ(d, m2) = Append(RxQ(r, mem), f)
      <4>1. RxPlaces(r, mem) /\ RxBuffers(r, mem) /\ r \in RxRings /\ f \in RxFrames
        BY <1>2
      <4> QED BY <3>2, <4>1, RxPut
    <3> QED BY <3>1, <3>3
  <2>10. TxQ(t, mem') = TxQ(t, mem)
    <3>1. \A x \in Bufs : mem[x] \in GenetTx => mem'[x] = mem[x]
      BY <2>5, <2>6, Kinds
    <3> QED BY <1>2, <3>1, TxSame
  <2>11. Served(TxQ(rings.tx, mem), wire, RxQ(rings.rx, mem), up, TxQ(t, mem'), wire', RxQ(d, mem'), up')
    BY <1>2, <1>3, <2>9, <2>10 DEF Served
  <2> QED BY <1>2, <1>3, <1>4, <2>3, <2>9, <2>11, GenetGoesOn
<1> QED BY <1>5, <1>6

\* A step of GENET keeps the rings in order and is one the frame service takes.
LEMMA GenetServesKeeps ==
  ASSUME HeaderOnly, GenetInv, GenetInv', GenetServes, Genet!Next
  PROVE  GenetServes' /\ GenetServed
<1>1. CASE Genet!Start
  BY <1>1, GenetStartServes
<1>2. CASE \E f \in GenetTx : Genet!bcmgenet_xmit(f)
  BY <1>2, GenetXmitServes
<1>3. CASE Genet!bcmgenet_intr_irq0 \/ Genet!bcmgenet_intr_irq1
  <2>1. UNCHANGED <<rings, mem, wire, up, dev, stage>>
    BY <1>3 DEF Genet!bcmgenet_intr_irq0, Genet!bcmgenet_intr_irq1
  <2>2. "part" \in DOMAIN dev' /\ dev'.part = <<>>
    BY <2>1 DEF GenetServes
  <2> QED BY <2>1, <2>2, GenetStill
<1>4. CASE Genet!Reclaim
  BY <1>4, GenetReclaimServes
<1>5. CASE Genet!bcmgenet_rxintr
  BY <1>5, GenetRxintrServes
<1>6. CASE Genet!DevTransmit
  BY <1>6, GenetTransmitServes
<1>7. CASE \E f \in RxFrames : Genet!DevReceive(f)
  BY <1>7, GenetReceiveServes
<1>8. CASE \E b \in Bufs : Genet!MsgFree(b)
  BY <1>8, GenetMsgFreeServes
<1> QED BY <1>1, <1>2, <1>3, <1>4, <1>5, <1>6, <1>7, <1>8 DEF Genet!Next, Genet!Handler

\* A buffer with a frame that was sent is read as that frame.
LEMMA FrameRead ==
  ASSUME HeaderOnly, NEW b, b # 0, mem[b] \in GenetTx
  PROVE  Genet!FrameOf(<<b>>) = mem[b]
<1>1. Genet!Descs(mem[b]) = 1
  BY ShortDescs
<1>2. PICK s : s = <<b>>
  OBVIOUS
<1>3. s[1] = b /\ Len(s) = 1 /\ \A k \in DOMAIN s : s[k] = b
  BY <1>2
<1>4. mem[b] \in GenetTx
  OBVIOUS
<1>5. Genet!FrameOf(s) = mem[b]
  BY <1>1, <1>3, <1>4 DEF Genet!FrameOf
<1> QED BY <1>2, <1>5

\* What the refinement mapping shows are the frames that wait in the rings.
LEMMA GenetQueues ==
  HeaderOnly /\ GenetInv /\ GenetServes
    => Genet!TxQueue = TxQ(rings.tx, mem) /\ Genet!RxQueue = RxQ(rings.rx, mem)
<1> SUFFICES ASSUME HeaderOnly, GenetInv, GenetServes
             PROVE  Genet!TxQueue = TxQ(rings.tx, mem) /\ Genet!RxQueue = RxQ(rings.rx, mem)
  OBVIOUS
<1>1. PICK t \in TxRings, r \in RxRings :
           /\ t = rings.tx /\ r = rings.rx
           /\ TxIndices(t) /\ TxBuffers(t, mem) /\ TxPlaces(t) /\ RxPlaces(r, mem)
  BY GenetParts
<1>2. Genet!TxQueue = TxQ(t, mem)
  <2>1. PICK n \in Nat, c \in 0..(IndexMod - 1), p \in 0..(IndexMod - 1) :
             n = TxLen(t) /\ c = t.CONS /\ p = t.PROD /\ n = (p - c) % IndexMod
    BY <1>1, TxTypes, TxLenIs DEF TxLen
  <2>2. PICK s : s = Genet!Slots(c, p, NTx)
    OBVIOUS
  <2>3. s = [k \in 1..n |-> (c + k - 1) % NTx]
    BY <2>1, <2>2 DEF Genet!Slots
  <2>4. PICK q : q = [k \in DOMAIN s |-> Genet!FrameOf(<<t.cb[s[k]]>>)]
    OBVIOUS
  <2>5. Genet!TxQueue = q
    BY <1>1, <2>1, <2>2, <2>4 DEF Genet!TxQueue
  <2>6. DOMAIN q = 1..n /\ q = [k \in 1..n |-> q[k]]
    BY <2>3, <2>4
  <2>7. ASSUME NEW k \in 1..n PROVE q[k] = TxAt(t, mem)[(c + k - 1) % NTx]
    <3>1. k - 1 \in 0..(n - 1) /\ c + (k - 1) = c + k - 1
      BY <2>1
    <3>2. PICK i \in 0..(NTx - 1) : i = (c + (k - 1)) % NTx /\ Whole(t, i) /\ mem[t.cb[i]] \in GenetTx
      BY <1>1, <2>1, <3>1, TxWaits
    <3>3. PICK b : b = t.cb[i]
      OBVIOUS
    <3>4. Genet!FrameOf(<<b>>) = mem[b]
      BY <3>2, <3>3, FrameRead DEF Whole
    <3>5. s[k] = i
      BY <2>3, <3>1, <3>2
    <3>6. q[k] = Genet!FrameOf(<<b>>)
      BY <2>3, <2>4, <3>3, <3>5
    <3>7. TxAt(t, mem)[i] = mem[b]
      BY <3>2, <3>3 DEF TxAt
    <3> QED BY <3>1, <3>2, <3>4, <3>6, <3>7
  <2>8. q = Window(TxAt(t, mem), c, n, NTx)
    <3>1. PICK at : at = TxAt(t, mem)
      OBVIOUS
    <3>2. \A k \in 1..n : q[k] = at[(c + k - 1) % NTx]
      BY <2>7, <3>1
    <3>3. q = Window(at, c, n, NTx)
      BY <2>6, <3>2 DEF Window
    <3> QED BY <3>1, <3>3
  <2> QED BY <2>1, <2>5, <2>8 DEF TxQ
<1>3. Genet!RxQueue = RxQ(r, mem)
  <2>1. PICK n \in Nat, c \in 0..(IndexMod - 1), p \in 0..(IndexMod - 1) :
             n = RxLen(r) /\ c = r.c_index /\ p = r.PROD /\ n = (p - c) % IndexMod
    BY <1>1, RxTypes, RxLenIs DEF RxLen
  <2>2. PICK s : s = Genet!Slots(c, p, NRx)
    OBVIOUS
  <2>3. s = [k \in 1..n |-> (c + k - 1) % NRx]
    BY <2>1, <2>2 DEF Genet!Slots
  <2>4. PICK q : q = [k \in DOMAIN s |-> mem[r.cb[s[k]]]]
    OBVIOUS
  <2>5. Genet!RxQueue = q
    BY <1>1, <2>1, <2>2, <2>4 DEF Genet!RxQueue
  <2>6. DOMAIN q = 1..n /\ q = [k \in 1..n |-> q[k]]
    BY <2>3, <2>4
  <2>7. ASSUME NEW k \in 1..n PROVE q[k] = RxAt(r, mem)[(c + k - 1) % NRx]
    <3>1. PICK i : i = (c + k - 1) % NRx
      OBVIOUS
    <3>2. i \in 0..(NRx - 1)
      <4>1. c + k - 1 \in Int
        BY <2>1, GenetSizes
      <4> QED BY <3>1, <4>1, ModSmall, GenetSizes
    <3>3. s[k] = i
      BY <2>3, <3>1
    <3>4. RxAt(r, mem)[i] = mem[r.cb[i]]
      BY <3>2 DEF RxAt
    <3>5. q[k] = mem[r.cb[i]]
      BY <2>3, <2>4, <3>3
    <3> QED BY <3>1, <3>4, <3>5
  <2>8. q = Window(RxAt(r, mem), c, n, NRx)
    <3>1. PICK at : at = RxAt(r, mem)
      OBVIOUS
    <3>2. \A k \in 1..n : q[k] = at[(c + k - 1) % NRx]
      BY <2>7, <3>1
    <3>3. q = Window(at, c, n, NRx)
      BY <2>6, <3>2 DEF Window
    <3> QED BY <3>1, <3>3
  <2> QED BY <2>1, <2>5, <2>8 DEF RxQ
<1> QED BY <1>1, <1>2, <1>3

\* The same after a step.
LEMMA GenetQueuesNext ==
  (HeaderOnly /\ GenetInv /\ GenetServes)'
    => (Genet!TxQueue = TxQ(rings.tx, mem) /\ Genet!RxQueue = RxQ(rings.rx, mem))'
  BY GenetQueues, PTL

\* A step of a node with the GENET driver is one of the frame service.
LEMMA GenetIsService ==
  ASSUME HeaderOnly, GenetInv, GenetInv', GenetServes, GenetServes', GenetServed, ops = "genet", ops' = "genet"
  PROVE  [Service!Next]_(Service!vars)
<1>1. Genet!TxQueue = TxQ(rings.tx, mem) /\ Genet!RxQueue = RxQ(rings.rx, mem)
  BY GenetQueues
<1>2. Genet!TxQueue' = TxQ(rings.tx, mem)' /\ Genet!RxQueue' = RxQ(rings.rx, mem)'
  <2>1. HeaderOnly'
    BY DEF HeaderOnly
  <2> QED BY <2>1, GenetQueuesNext
<1>3. TxQ(rings.tx, mem)' = TxQ(rings'.tx, mem') /\ RxQ(rings.rx, mem)' = RxQ(rings'.rx, mem')
  BY DEF TxQ, RxQ, TxAt, RxAt, TxLen, RxLen, Window
<1>4. Served(Genet!TxQueue, wire, Genet!RxQueue, up, Genet!TxQueue', wire', Genet!RxQueue', up')
  BY <1>1, <1>2, <1>3, Zenon DEF GenetServed
<1> QED BY <1>4 DEF Served, Service!Next, Service!vars, Service!Accept, Service!Receive,
             Service!Transmit, Service!Deliver, Service!Lose

\* A node with the GENET driver is a frame service (bcmgenet_xmit,
\* bcmgenet_rxintr, tx_reclaim): what it accepts goes out once and in order,
\* what it takes in is handed to the message layer once and in order, however
\* the indices wrap, as long as no frame that is sent has a page.
LEMMA GenetImplements ==
  ASSUME HeaderOnly
  PROVE  Spec /\ ops = "genet" => ImplementsFrameService
<1> DEFINE Inv == ops = "genet" /\ GenetInv /\ GenetServes
<1>1. Init /\ ops = "genet" => Inv /\ Service!Init
  <2> SUFFICES ASSUME Init, ops = "genet" PROVE Inv /\ Service!Init
    OBVIOUS
  <2>1. Genet!Init
    BY DEF Init
  <2>2. GenetInv
    BY <2>1, GenetStarts
  <2>3. /\ GenetServes /\ wire = <<>> /\ up = <<>>
        /\ TxQ(rings.tx, mem) = <<>> /\ RxQ(rings.rx, mem) = <<>>
    BY <2>1, GenetServesStarts
  <2>4. Genet!TxQueue = <<>> /\ Genet!RxQueue = <<>>
    BY <2>2, <2>3, GenetQueues
  <2> QED BY <2>2, <2>3, <2>4 DEF Service!Init
<1>2. Inv /\ [Next]_vars => Inv' /\ [Service!Next]_(Service!vars)
  <2> SUFFICES ASSUME Inv, [Next]_vars PROVE Inv' /\ [Service!Next]_(Service!vars)
    OBVIOUS
  <2>1. CASE Next
    <3>1. ops' = "genet" /\ Genet!Next
      BY <2>1 DEF Next, VirtioNext, GenetNext
    <3>2. GenetInv'
      BY <3>1, GenetKeeps
    <3>3. GenetServes' /\ GenetServed
      BY <3>1, <3>2, GenetServesKeeps
    <3> QED BY <3>1, <3>2, <3>3, GenetIsService
  <2>2. CASE UNCHANGED vars
    <3>1. UNCHANGED <<ops, rings, mem, dev, stage, aux, halted, wire, up>>
      BY <2>2 DEF vars, dvars
    <3>2. GenetInv'
      <4>1. "cmd" \in DOMAIN dev /\ (dev.cmd # {} => stage = "up")
        BY DEF GenetInv
      <4> QED BY <3>1, <4>1, GenetElsewhere
    <3>3. "part" \in DOMAIN dev' /\ dev'.part = <<>>
      BY <3>1 DEF GenetServes
    <3>4. GenetServes' /\ GenetServed
      BY <3>1, <3>3, GenetStill
    <3> QED BY <3>1, <3>2, <3>4, GenetIsService
  <2> QED BY <2>1, <2>2
<1> QED BY <1>1, <1>2, PTL DEF Spec, ImplementsFrameService, Service!Spec

-----------------------------------------------------------------------------
(* What waits in a virtqueue's rings.                                      *)

\* What the buffers of the entries in a queue's two rings hold, and the frames
\* that wait there: for the device, which is at at, and for the driver.
AvailLen(q, at)  == (q.avail_idx - at) % IndexMod
UsedLen(q)       == (q.used_idx - q.last_used_idx) % IndexMod
AvailAt(q, m)    == [i \in Virtio!Idx |-> m[q.xdata[q.avail[i]]]]
UsedAt(q, m)     == [i \in Virtio!Idx |-> m[q.xdata[q.used[i].id]]]
AvailQ(q, at, m) == Window(AvailAt(q, m), at, AvailLen(q, at), NQueue)
UsedQ(q, m)      == Window(UsedAt(q, m), q.last_used_idx, UsedLen(q), NQueue)

\* What is assumed of the size of a queue.
LEMMA QueueSizes ==
  /\ NQueue \in Nat \ {0} /\ IndexMod \in Nat \ {0} /\ NQueue <= IndexMod
  /\ Divides(NQueue, IndexMod)
  BY NetDevAssumption, RangeIs DEF Divides

\* Entry i of the available ring waits for the device, and is not the one the
\* driver takes next.
Waiting(q, i) ==
  /\ i \in Virtio!Idx /\ q.avail[i] \in Virtio!Heads(q)
  /\ ~Virtio!NothingUsed(q) => q.avail[i] # Virtio!UsedElem(q).id

\* What waits in the available ring are chains that are out.
LEMMA AvailWaits ==
  ASSUME NEW q, NEW at, NEW busy, QueueInv(q, at, busy), NEW k \in 0..(AvailLen(q, at) - 1)
  PROVE  \E i \in Virtio!Idx : i = (at + k) % NQueue /\ Waiting(q, i)
<1>1. q \in Queues
  BY DEF QueueInv
<1>2. PICK P, U : RingsAs(q, at, busy, P, U)
  BY DEF QueueInv
<1>3. /\ at \in 0..(IndexMod - 1) /\ P \subseteq Virtio!Heads(q) /\ P \cap U = {}
      /\ RingHolds(q.avail, at, AvailLen(q, at), P)
      /\ RingHolds(UsedIds(q), q.last_used_idx, UsedLen(q), U)
  BY <1>2 DEF RingsAs, AvailLen, UsedLen
<1>4. k \in Nat /\ at \in Nat /\ at + k \in Nat
  BY <1>3
<1>5. PICK i \in Virtio!Idx : i = (at + k) % NQueue
  BY <1>4, SlotIs
<1>6. q.avail[i] \in P
  BY <1>3, <1>5 DEF RingHolds
<1>7. ASSUME ~Virtio!NothingUsed(q) PROVE Virtio!UsedElem(q).id \in U
  <2>1. PICK l \in 0..(IndexMod - 1), p \in 0..(IndexMod - 1) :
           l = q.last_used_idx /\ p = q.used_idx /\ p # l
    BY <1>1, <1>7, QueueTypes DEF Virtio!NothingUsed
  <2>2. PICK h : h = UsedIds(q)[l % NQueue]
    OBVIOUS
  <2>3. l % NQueue \in Virtio!Idx
    BY SlotIs
  <2>4. h = Virtio!UsedElem(q).id
    BY <2>1, <2>2, <2>3 DEF Virtio!UsedElem, UsedIds
  <2>5. RingHolds(UsedIds(q), l, (p - l) % IndexMod, U)
    BY <1>3, <2>1 DEF UsedLen
  <2>6. h \in U
    BY <2>1, <2>2, <2>5, Shrinks
  <2> QED BY <2>4, <2>6
<1> QED BY <1>3, <1>5, <1>6, <1>7 DEF Waiting

\* Entry i of the used ring is a chain that is out and not in the device's
\* hands and, unless k is 0, not the one the driver takes next.
Returned(q, busy, i, k) ==
  /\ i \in Virtio!Idx /\ q.used[i].id \in Virtio!Heads(q) \ busy
  /\ k # 0 => q.used[i].id # Virtio!UsedElem(q).id

\* What waits in the used ring are different chains that are out.
LEMMA UsedWaits ==
  ASSUME NEW q, NEW at, NEW busy, QueueInv(q, at, busy), NEW k \in 0..(UsedLen(q) - 1)
  PROVE  \E i \in Virtio!Idx : i = (q.last_used_idx + k) % NQueue /\ Returned(q, busy, i, k)
<1>1. q \in Queues
  BY DEF QueueInv
<1>2. PICK P, U : RingsAs(q, at, busy, P, U)
  BY DEF QueueInv
<1>3. U \subseteq Virtio!Heads(q) \ busy /\ RingHolds(UsedIds(q), q.last_used_idx, UsedLen(q), U)
  BY <1>2 DEF RingsAs, UsedLen
<1>4. PICK l \in 0..(IndexMod - 1) : l = q.last_used_idx
  BY <1>1, QueueTypes
<1>5. k \in Nat /\ l \in Nat /\ l + k \in Nat /\ l + 0 = l
  BY <1>4
<1>6. PICK i \in Virtio!Idx : i = (l + k) % NQueue
  BY <1>5, SlotIs
<1>7. PICK o \in Virtio!Idx : o = l % NQueue
  BY <1>5, SlotIs
<1>8. UsedIds(q)[i] = q.used[i].id /\ UsedIds(q)[o] = Virtio!UsedElem(q).id
  BY <1>4, <1>7 DEF UsedIds, Virtio!UsedElem
<1>9. UsedIds(q)[i] \in U
  BY <1>3, <1>4, <1>6 DEF RingHolds
<1>10. ASSUME k # 0 PROVE UsedIds(q)[i] # UsedIds(q)[o]
  <2>1. 0 \in 0..(UsedLen(q) - 1)
    <3>1. UsedLen(q) \in Int
      BY <1>1, QueueTypes, QueueSizes, Distance DEF UsedLen
    <3> QED BY <3>1
  <2>2. \A j \in 0..(UsedLen(q) - 1) : j # k => UsedIds(q)[(l + j) % NQueue] # UsedIds(q)[(l + k) % NQueue]
    BY <1>3, <1>4 DEF RingHolds
  <2>3. UsedIds(q)[(l + 0) % NQueue] # UsedIds(q)[(l + k) % NQueue]
    BY <1>10, <2>1, <2>2
  <2> QED BY <1>5, <1>6, <1>7, <2>3
<1> QED BY <1>3, <1>4, <1>6, <1>8, <1>9, <1>10 DEF Returned

\* The buffers of the chains that wait for the device are as they were.
AvailStays(q, q2, m, m2) ==
  \A i \in Virtio!Idx : Waiting(q, i) => m2[q2.xdata[q.avail[i]]] = m[q.xdata[q.avail[i]]]

\* The buffers of the chains that wait for the driver are as they were: all of
\* them, or when k is not 0 all but the next.
UsedStays(q, q2, m, m2, busy, k) ==
  \A i \in Virtio!Idx : Returned(q, busy, i, k) => m2[q2.xdata[q.used[i].id]] = m[q.xdata[q.used[i].id]]

\* Lengths are numbers.
LEMMA QueueLens ==
  ASSUME NEW q, NEW at, NEW busy, QueueInv(q, at, busy)
  PROVE  /\ at \in 0..(IndexMod - 1) /\ q.avail_idx \in 0..(IndexMod - 1)
         /\ q.used_idx \in 0..(IndexMod - 1) /\ q.last_used_idx \in 0..(IndexMod - 1)
         /\ AvailLen(q, at) \in Nat /\ UsedLen(q) \in Nat
<1>1. q \in Queues
  BY DEF QueueInv
<1>2. at \in 0..(IndexMod - 1)
  BY DEF QueueInv, RingsAs
<1>3. AvailLen(q, at) \in Nat /\ UsedLen(q) \in Nat
  BY <1>1, <1>2, QueueTypes, QueueSizes, Distance DEF AvailLen, UsedLen
<1> QED BY <1>1, <1>2, <1>3, QueueTypes

\* The rings q and q2 hold the same frames for the device in the places of q.
LEMMA AvailSame ==
  ASSUME NEW q, NEW at, NEW busy, QueueInv(q, at, busy), NEW q2, NEW m, NEW m2,
         \A i \in Virtio!Idx : Waiting(q, i) => q2.avail[i] = q.avail[i],
         AvailStays(q, q2, m, m2)
  PROVE  SameWindow(AvailAt(q, m), AvailAt(q2, m2), at, 0, AvailLen(q, at), NQueue)
<1>1. ASSUME NEW k \in 0..(AvailLen(q, at) - 1)
      PROVE  AvailAt(q2, m2)[(at + k) % NQueue] = AvailAt(q, m)[(at + k) % NQueue]
  <2>1. PICK i \in Virtio!Idx : i = (at + k) % NQueue /\ Waiting(q, i)
    BY AvailWaits
  <2>2. AvailAt(q2, m2)[i] = AvailAt(q, m)[i]
    BY <2>1 DEF AvailAt, AvailStays
  <2> QED BY <2>1, <2>2
<1> QED BY <1>1 DEF SameWindow

\* What waits for the device stays.
LEMMA AvailKept ==
  ASSUME NEW q, NEW at, NEW busy, QueueInv(q, at, busy), NEW q2, NEW m, NEW m2,
         q2.avail = q.avail, q2.avail_idx = q.avail_idx, AvailStays(q, q2, m, m2)
  PROVE  AvailQ(q2, at, m2) = AvailQ(q, at, m)
<1>1. SameWindow(AvailAt(q, m), AvailAt(q2, m2), at, 0, AvailLen(q, at), NQueue)
  BY AvailSame
<1>2. AvailLen(q2, at) = AvailLen(q, at)
  BY DEF AvailLen
<1>3. at \in Nat /\ AvailLen(q, at) \in Nat
  BY QueueLens
<1>4. Window(AvailAt(q2, m2), at, AvailLen(q, at), NQueue) = Window(AvailAt(q, m), at, AvailLen(q, at), NQueue)
  BY <1>1, <1>3, WindowSame, QueueSizes
<1> QED BY <1>2, <1>4 DEF AvailQ

\* The sequence s2 is s and one more.
Grown(s2, s, f) == s2 = Append(s, f)

\* h is published as the next chain for the device.
Published(q, q2, at, h) ==
  /\ AvailLen(q, at) + 1 < NQueue
  /\ q2.avail = [q.avail EXCEPT ![q.avail_idx % NQueue] = h]
  /\ q2.avail_idx = (q.avail_idx + 1) % IndexMod

\* What is published comes last.
LEMMA AvailPut ==
  ASSUME NEW q, NEW at, NEW busy, QueueInv(q, at, busy), NEW q2, NEW m, NEW m2, NEW h,
         Published(q, q2, at, h), AvailStays(q, q2, m, m2)
  PROVE  Grown(AvailQ(q2, at, m2), AvailQ(q, at, m), m2[q2.xdata[h]])
<1>1. PICK c \in 0..(IndexMod - 1), p \in 0..(IndexMod - 1), n \in Nat :
         c = at /\ p = q.avail_idx /\ n = AvailLen(q, at)
  BY QueueLens
<1>2. n = (p - c) % IndexMod /\ n + 1 < NQueue
  BY <1>1 DEF AvailLen, Published
<1>3. PICK w : w = p % NQueue
  OBVIOUS
<1>4. w \in Virtio!Idx
  <2>1. p \in Nat
    OBVIOUS
  <2> QED BY <1>3, <2>1, SlotIs
<1>5. q.avail \in [Virtio!Idx -> Virtio!Idx]
  BY QueueTypes DEF QueueInv
<1>6. \A i \in Virtio!Idx : q2.avail[i] = IF i = w THEN h ELSE q.avail[i]
  BY <1>1, <1>3, <1>5 DEF Published
<1>7. PICK r, r2 : r = AvailAt(q, m) /\ r2 = AvailAt(q2, m2)
  OBVIOUS
<1>8. ASSUME NEW k \in 0..(n - 1) PROVE r2[(c + k) % NQueue] = r[(c + k) % NQueue]
  <2>1. PICK i \in Virtio!Idx : i = (c + k) % NQueue /\ Waiting(q, i)
    BY <1>1, AvailWaits
  <2>2. (c + k) % NQueue # p % NQueue
    <3>1. (p - c) % IndexMod < NQueue
      BY <1>2, QueueSizes
    <3> QED BY <1>2, <3>1, NextUnused, QueueSizes
  <2>3. q2.avail[i] = q.avail[i]
    BY <1>3, <1>6, <2>1, <2>2
  <2>4. r2[i] = r[i]
    BY <1>7, <2>1, <2>3 DEF AvailAt, AvailStays
  <2> QED BY <2>1, <2>4
<1>9. SameWindow(r, r2, c, 0, n, NQueue)
  BY <1>8 DEF SameWindow
<1>10. r2[w] = m2[q2.xdata[h]]
  BY <1>4, <1>6, <1>7 DEF AvailAt
<1>11. AvailLen(q2, at) = (((p + 1) % IndexMod) - c) % IndexMod
  BY <1>1 DEF AvailLen, Published
<1>12. Window(r2, c, AvailLen(q2, at), NQueue) = Append(Window(r, c, n, NQueue), r2[w])
  <2>1. Room(n, IndexMod)
    BY <1>2, QueueSizes DEF Room
  <2>2. Puts(r, r2, c, p, n, AvailLen(q2, at), w, NQueue, IndexMod)
    BY <1>2, <1>3, <1>9, <1>11, <2>1, QueueSizes DEF Puts
  <2> QED BY <2>2, WindowPuts, QueueSizes
<1> QED BY <1>1, <1>7, <1>10, <1>12 DEF AvailQ, Grown

\* The device takes the first of what waits for it.
LEMMA AvailTake ==
  ASSUME NEW q, NEW at, NEW busy, QueueInv(q, at, busy), at # q.avail_idx, NEW m
  PROVE  /\ AvailQ(q, at, m) # <<>>
         /\ Head(AvailQ(q, at, m)) = m[q.xdata[q.avail[at % NQueue]]]
         /\ AvailQ(q, (at + 1) % IndexMod, m) = Tail(AvailQ(q, at, m))
<1>1. PICK c \in 0..(IndexMod - 1), p \in 0..(IndexMod - 1), n \in Nat :
         c = at /\ p = q.avail_idx /\ n = AvailLen(q, at)
  BY QueueLens
<1>2. n = (p - c) % IndexMod /\ c # p
  BY <1>1 DEF AvailLen
<1>3. PICK e, l, r : e = (c + 1) % IndexMod /\ l = (p - e) % IndexMod /\ r = AvailAt(q, m)
  OBVIOUS
<1>4. SameWindow(r, r, c, 1, n, NQueue)
  BY DEF SameWindow
<1>5. Takes(r, r, c, e, p, n, l, NQueue, IndexMod)
  BY <1>2, <1>3, <1>4, QueueSizes DEF Takes
<1>6. /\ Window(r, c, n, NQueue) # <<>>
      /\ Head(Window(r, c, n, NQueue)) = r[c % NQueue]
      /\ Window(r, e, l, NQueue) = Tail(Window(r, c, n, NQueue))
  BY <1>5, WindowTakes, QueueSizes
<1>7. r[c % NQueue] = m[q.xdata[q.avail[c % NQueue]]]
  <2>1. c \in Nat
    OBVIOUS
  <2>2. c % NQueue \in Virtio!Idx
    BY <2>1, SlotIs
  <2> QED BY <1>3, <2>2 DEF AvailAt
<1>8. AvailLen(q, e) = l
  BY <1>1, <1>3 DEF AvailLen
<1> QED BY <1>1, <1>3, <1>6, <1>7, <1>8 DEF AvailQ

\* What waits for the driver stays.
LEMMA UsedKept ==
  ASSUME NEW q, NEW at, NEW busy, QueueInv(q, at, busy), NEW q2, NEW m, NEW m2,
         q2.used = q.used, q2.used_idx = q.used_idx, q2.last_used_idx = q.last_used_idx,
         UsedStays(q, q2, m, m2, busy, 0)
  PROVE  UsedQ(q2, m2) = UsedQ(q, m)
<1>1. PICK l \in Nat, n \in Nat : l = q.last_used_idx /\ n = UsedLen(q)
  BY QueueLens
<1>2. PICK r, r2 : r = UsedAt(q, m) /\ r2 = UsedAt(q2, m2)
  OBVIOUS
<1>3. ASSUME NEW k \in 0..(n - 1) PROVE r2[(l + k) % NQueue] = r[(l + k) % NQueue]
  <2>1. PICK i \in Virtio!Idx : i = (l + k) % NQueue /\ Returned(q, busy, i, k)
    BY <1>1, UsedWaits
  <2>2. Returned(q, busy, i, 0)
    BY <2>1 DEF Returned
  <2>3. r2[i] = r[i]
    BY <1>2, <2>2 DEF UsedAt, UsedStays
  <2> QED BY <2>1, <2>3
<1>4. SameWindow(r, r2, l, 0, n, NQueue)
  BY <1>3 DEF SameWindow
<1>5. Window(r2, l, n, NQueue) = Window(r, l, n, NQueue)
  BY <1>4, WindowSame, QueueSizes
<1>6. UsedLen(q2) = n /\ q2.last_used_idx = l
  BY <1>1 DEF UsedLen
<1> QED BY <1>1, <1>2, <1>5, <1>6 DEF UsedQ

\* Chain h is returned with n bytes.
Handed(q, q2, h, n) ==
  /\ UsedLen(q) + 1 < NQueue
  /\ q2.used = [q.used EXCEPT ![q.used_idx % NQueue] = [id |-> h, len |-> n]]
  /\ q2.used_idx = (q.used_idx + 1) % IndexMod /\ q2.last_used_idx = q.last_used_idx

\* The entries that wait for the driver in q2 are h's and those of q.
OneMore(q, q2, busy, h, z) ==
  \A k \in 0..(UsedLen(q2) - 1) :
    \E i \in Virtio!Idx :
      /\ i = (q2.last_used_idx + k) % NQueue
      /\ \/ q2.used[i] = [id |-> h, len |-> z]
         \/ k \in 0..(UsedLen(q) - 1) /\ Returned(q, busy, i, 0) /\ q2.used[i] = q.used[i]

\* What is returned comes last, the rest is where it was.
LEMMA UsedPut ==
  ASSUME NEW q, NEW at, NEW busy, QueueInv(q, at, busy), NEW q2, NEW m, NEW m2, NEW h, NEW z,
         Handed(q, q2, h, z), UsedStays(q, q2, m, m2, busy, 0)
  PROVE  /\ Grown(UsedQ(q2, m2), UsedQ(q, m), m2[q2.xdata[h]])
         /\ OneMore(q, q2, busy, h, z)
<1>1. PICK c \in 0..(IndexMod - 1), p \in 0..(IndexMod - 1), n \in Nat :
         c = q.last_used_idx /\ p = q.used_idx /\ n = UsedLen(q)
  BY QueueLens
<1>2. n = (p - c) % IndexMod /\ n + 1 < NQueue
  BY <1>1 DEF UsedLen, Handed
<1>3. PICK w : w = p % NQueue
  OBVIOUS
<1>4. w \in Virtio!Idx
  <2>1. p \in Nat
    OBVIOUS
  <2> QED BY <1>3, <2>1, SlotIs
<1>5. PICK v : v = [id |-> h, len |-> z]
  OBVIOUS
<1>6. \A i \in Virtio!Idx : q2.used[i] = IF i = w THEN v ELSE q.used[i]
  <2>1. q.used \in [Virtio!Idx -> Results]
    BY QueueTypes DEF QueueInv
  <2> QED BY <1>1, <1>3, <1>5, <2>1 DEF Handed
<1>7. PICK r, r2 : r = UsedAt(q, m) /\ r2 = UsedAt(q2, m2)
  OBVIOUS
<1>8. ASSUME NEW k \in 0..(n - 1)
      PROVE  \E i \in Virtio!Idx :
               i = (c + k) % NQueue /\ Returned(q, busy, i, 0) /\ q2.used[i] = q.used[i] /\ r2[i] = r[i]
  <2>1. PICK i \in Virtio!Idx : i = (c + k) % NQueue /\ Returned(q, busy, i, k)
    BY <1>1, UsedWaits
  <2>2. Returned(q, busy, i, 0)
    BY <2>1 DEF Returned
  <2>3. (c + k) % NQueue # p % NQueue
    <3>1. (p - c) % IndexMod < NQueue
      BY <1>2, QueueSizes
    <3> QED BY <1>2, <3>1, NextUnused, QueueSizes
  <2>4. q2.used[i] = q.used[i]
    BY <1>3, <1>6, <2>1, <2>3
  <2>5. r2[i] = r[i]
    BY <1>7, <2>2, <2>4 DEF UsedAt, UsedStays
  <2> QED BY <2>1, <2>2, <2>4, <2>5
<1>9. SameWindow(r, r2, c, 0, n, NQueue)
  BY <1>8 DEF SameWindow
<1>10. r2[w] = m2[q2.xdata[h]]
  <2>1. v.id = h
    BY <1>5
  <2> QED BY <1>4, <1>6, <1>7, <2>1 DEF UsedAt
<1>11. PICK n2 : n2 = UsedLen(q2)
  OBVIOUS
<1>12. n2 = (((p + 1) % IndexMod) - c) % IndexMod /\ n2 = n + 1 /\ q2.last_used_idx = c
  <2>1. Room(n, IndexMod)
    BY <1>2, QueueSizes DEF Room
  <2>2. (((p + 1) % IndexMod) - c) % IndexMod = n + 1
    BY <1>2, <2>1, Longer, QueueSizes DEF Room
  <2> QED BY <1>1, <1>11, <2>2 DEF UsedLen, Handed
<1>13. Window(r2, c, n2, NQueue) = Append(Window(r, c, n, NQueue), r2[w])
  <2>1. Room(n, IndexMod)
    BY <1>2, QueueSizes DEF Room
  <2>2. Puts(r, r2, c, p, n, n2, w, NQueue, IndexMod)
    BY <1>2, <1>3, <1>9, <1>12, <2>1, QueueSizes DEF Puts
  <2> QED BY <2>2, WindowPuts, QueueSizes
<1>14. ASSUME NEW k \in 0..(n2 - 1)
       PROVE  \E i \in Virtio!Idx :
                /\ i = (c + k) % NQueue
                /\ \/ q2.used[i] = v
                   \/ k \in 0..(n - 1) /\ Returned(q, busy, i, 0) /\ q2.used[i] = q.used[i]
  <2>1. CASE k = n
    <3>1. w = (c + n) % NQueue
      BY <1>2, <1>3, NextPlace, QueueSizes
    <3> QED BY <1>4, <1>6, <2>1, <3>1
  <2>2. CASE k # n
    <3>1. k \in 0..(n - 1)
      BY <1>12, <2>2
    <3> QED BY <1>8, <3>1
  <2> QED BY <2>1, <2>2
<1> QED BY <1>1, <1>5, <1>7, <1>10, <1>11, <1>12, <1>13, <1>14 DEF UsedQ, Grown, OneMore

\* The driver takes the first of what waits for it.
LEMMA UsedTake ==
  ASSUME NEW q, NEW at, NEW busy, QueueInv(q, at, busy), ~Virtio!NothingUsed(q),
         NEW q2, q2.used = q.used, q2.used_idx = q.used_idx,
         q2.last_used_idx = (q.last_used_idx + 1) % IndexMod,
         NEW m, NEW m2, UsedStays(q, q2, m, m2, busy, 1)
  PROVE  /\ UsedQ(q, m) # <<>>
         /\ Head(UsedQ(q, m)) = m[Virtio!Dequeued(q)]
         /\ UsedQ(q2, m2) = Tail(UsedQ(q, m))
         /\ \A k \in 0..(UsedLen(q2) - 1) :
              \E i \in Virtio!Idx :
                /\ i = (q2.last_used_idx + k) % NQueue /\ Returned(q, busy, i, 1)
                /\ k + 1 \in 0..(UsedLen(q) - 1) /\ i = (q.last_used_idx + (k + 1)) % NQueue
<1>1. PICK c \in 0..(IndexMod - 1), p \in 0..(IndexMod - 1), n \in Nat :
         c = q.last_used_idx /\ p = q.used_idx /\ n = UsedLen(q)
  BY QueueLens
<1>2. n = (p - c) % IndexMod /\ c # p
  BY <1>1 DEF UsedLen, Virtio!NothingUsed
<1>3. PICK e, l, r, r2 : /\ e = (c + 1) % IndexMod /\ l = (p - e) % IndexMod
                         /\ r = UsedAt(q, m) /\ r2 = UsedAt(q2, m2)
  OBVIOUS
<1>4. ASSUME NEW k \in 1..(n - 1)
      PROVE  \E i \in Virtio!Idx : i = (c + k) % NQueue /\ Returned(q, busy, i, 1) /\ r2[i] = r[i]
  <2>1. PICK i \in Virtio!Idx : i = (c + k) % NQueue /\ Returned(q, busy, i, k)
    BY <1>1, UsedWaits
  <2>2. Returned(q, busy, i, 1)
    BY <2>1 DEF Returned
  <2>3. r2[i] = r[i]
    BY <1>3, <2>2 DEF UsedAt, UsedStays
  <2> QED BY <2>1, <2>2, <2>3
<1>5. SameWindow(r, r2, c, 1, n, NQueue)
  BY <1>4 DEF SameWindow
<1>6. Takes(r, r2, c, e, p, n, l, NQueue, IndexMod)
  BY <1>2, <1>3, <1>5, QueueSizes DEF Takes
<1>7. /\ Window(r, c, n, NQueue) # <<>>
      /\ Head(Window(r, c, n, NQueue)) = r[c % NQueue]
      /\ Window(r2, e, l, NQueue) = Tail(Window(r, c, n, NQueue))
  BY <1>6, WindowTakes, QueueSizes
<1>8. r[c % NQueue] = m[Virtio!Dequeued(q)]
  <2>1. c \in Nat
    OBVIOUS
  <2>2. c % NQueue \in Virtio!Idx
    BY <2>1, SlotIs
  <2> QED BY <1>1, <1>3, <2>2 DEF UsedAt, Virtio!Dequeued, Virtio!UsedElem
<1>9. UsedLen(q2) = l /\ q2.last_used_idx = e
  BY <1>1, <1>3 DEF UsedLen
<1>10. l = n - 1 /\ n # 0
  BY <1>2, <1>3, Nearer, QueueSizes
<1>11. ASSUME NEW k \in 0..(l - 1)
       PROVE  \E i \in Virtio!Idx :
                /\ i = (e + k) % NQueue /\ Returned(q, busy, i, 1)
                /\ k + 1 \in 0..(n - 1) /\ i = (c + (k + 1)) % NQueue
  <2>1. PICK x \in Nat, j \in Nat : x = c + 1 /\ j = k
    BY <1>10
  <2>2. j + 1 \in 1..(n - 1) /\ j + 1 \in 0..(n - 1) /\ x + j = c + (j + 1)
    BY <1>10, <2>1
  <2>3. Wraps(x, j, NQueue, IndexMod)
    BY Wrap, QueueSizes
  <2>4. (e + j) % NQueue = (c + (j + 1)) % NQueue
    BY <1>3, <2>1, <2>2, <2>3 DEF Wraps
  <2>5. PICK i \in Virtio!Idx : i = (c + (j + 1)) % NQueue /\ Returned(q, busy, i, 1)
    BY <1>4, <2>2
  <2> QED BY <2>1, <2>2, <2>4, <2>5
<1> QED BY <1>1, <1>3, <1>7, <1>8, <1>9, <1>11 DEF UsedQ

-----------------------------------------------------------------------------
(* Chains that come and go.                                                *)

\* The chain of g is the same in q2, and points at the same buffers.
ChainSame(q, q2, g) ==
  /\ Members(q2, g) = Members(q, g) /\ (Three(q2, g) <=> Three(q, g))
  /\ \A i \in Members(q, g) : q2.desc[i].buf = q.desc[i].buf

\* The chain of h has n descriptors, all for buffer x.
ChainFor(q, h, x, n) ==
  (\A i \in Members(q, h) : q.desc[i].buf = x) /\ (Three(q, h) <=> n = 3)

\* A chain is made by its descriptors alone.
LEMMA ChainKept ==
  ASSUME NEW q, NEW q2, NEW g, \A i \in Members(q, g) : q2.desc[i] = q.desc[i]
  PROVE  ChainSame(q, q2, g)
<1>1. q2.desc[g] = q.desc[g] /\ q2.desc[Second(q, g)] = q.desc[Second(q, g)]
  BY DEF Members
<1>2. Second(q2, g) = Second(q, g)
  BY <1>1 DEF Second
<1>3. Three(q2, g) = Three(q, g)
  BY <1>1, <1>2, Zenon DEF Three
<1>4. Last(q2, g) = Last(q, g)
  BY <1>1, <1>2, <1>3, Zenon DEF Last
<1> QED BY <1>2, <1>3, <1>4 DEF ChainSame, Members

\* A chain of n descriptors for buffer x, with head h, is new in q2.
Joins(q, q2, at, h, x, n) ==
  /\ h \in Virtio!Idx \ Virtio!Heads(q) /\ Virtio!Heads(q2) = Virtio!Heads(q) \cup {h}
  /\ q2.xdata = [q.xdata EXCEPT ![h] = x]
  /\ Published(q, q2, at, h)
  /\ q2.used = q.used /\ q2.used_idx = q.used_idx /\ q2.last_used_idx = q.last_used_idx
  /\ ChainFor(q2, h, x, n)
  /\ \A g \in Virtio!Heads(q) : ChainSame(q, q2, g)

\* virtq_enqueue adds one chain and leaves the others.
LEMMA QueueJoins ==
  ASSUME NEW q, NEW at, NEW busy, QueueInv(q, at, busy), NEW n \in {2, 3}, Virtio!HasRoom(q, n),
         NEW x \in Bufs, NEW q2, q2 = Virtio!virtq_enqueue(q, n, x)
  PROVE  \E h : Joins(q, q2, at, h, x, n)
<1>1. q \in Queues
  BY DEF QueueInv
<1>2. PICK F, nf, own : Layout(q, F, nf, own)
  BY DEF QueueInv
<1>3. PICK P, U : RingsAs(q, at, busy, P, U)
  BY DEF QueueInv
<1>4. FreeAs(q, F, nf)
  BY <1>2 DEF Layout
<1>5. n <= nf
  <2>1. n \in Nat \ {0}
    OBVIOUS
  <2> QED BY <1>4, <2>1, RoomIs
<1>6. Enqueued(q, F, n, x, q2)
  BY <1>1, <1>4, <1>5, EnqueueIs
<1>7. PICK a, b : a = F[0] /\ b = F[1]
  OBVIOUS
<1>8. PICK H : H = Virtio!Heads(q)
  OBVIOUS
<1>9. /\ a \in Virtio!Idx \ H /\ b \in Virtio!Idx \ H /\ a # b
      /\ Virtio!Heads(q2) = H \cup {a}
  BY <1>1, <1>2, <1>5, <1>7, <1>8, EnqueueKeeps
<1>10. Published(q, q2, at, a)
  <2>1. /\ at \in 0..(IndexMod - 1) /\ P \subseteq H
        /\ RingHolds(q.avail, at, AvailLen(q, at), P)
    BY <1>3, <1>8 DEF RingsAs, AvailLen
  <2>2. AvailLen(q, at) \in Nat /\ at \in Nat /\ P \subseteq Virtio!Idx
    <3>1. H \subseteq Virtio!Idx
      BY <1>8 DEF Virtio!Heads
    <3> QED BY <2>1, <3>1, QueueLens
  <2>3. AvailLen(q, at) + 1 < NQueue
    BY <1>9, <2>1, <2>2, RingRoom
  <2> QED BY <1>6, <1>7, <2>3 DEF Published, Enqueued
<1>11. /\ nf \in Nat /\ \A k \in 0..(nf - 1) : F[k] \in Virtio!Idx /\ F[k + 1] = q.desc[F[k]].next
       /\ \A j, k \in 0..(nf - 1) : j # k => F[j] # F[k]
  BY <1>4 DEF FreeAs
<1>12. \A i \in Virtio!Idx : q2.desc[i] = IF \E k \in 0..(n - 1) : F[k] = i
                                            THEN [q.desc[i] EXCEPT !.buf = x, !.more = i # F[n - 1]]
                                            ELSE q.desc[i]
  BY <1>6 DEF Enqueued, ChainedDesc
<1>13. ASSUME NEW g \in H PROVE ChainSame(q, q2, g)
  <2>1. Members(q, g) \subseteq Virtio!Idx /\ \A k \in 0..(nf - 1) : F[k] \notin Members(q, g)
    BY <1>2, <1>8, HeadOwns
  <2>2. ASSUME NEW i \in Members(q, g) PROVE q2.desc[i] = q.desc[i]
    <3>1. \A k \in 0..(n - 1) : F[k] # i
      BY <1>5, <1>11, <2>1
    <3> QED BY <1>12, <2>1, <3>1
  <2> QED BY <2>2, ChainKept
<1>14. ASSUME NEW k \in 0..(n - 1)
       PROVE  /\ F[k] \in Virtio!Idx /\ q2.desc[F[k]].buf = x /\ q2.desc[F[k]].next = F[k + 1]
              /\ q2.desc[F[k]].more <=> k # n - 1
  <2>1. k \in 0..(nf - 1) /\ n - 1 \in 0..(nf - 1)
    BY <1>5, <1>11
  <2>2. PICK i \in Virtio!Idx : i = F[k]
    BY <1>11, <2>1
  <2>3. PICK d \in Descriptors : d = q.desc[i]
    BY <1>1 DEF Queues
  <2>4. PICK e : e = (i # F[n - 1])
    OBVIOUS
  <2>5. q2.desc[i] = [d EXCEPT !.buf = x, !.more = e]
    BY <1>12, <2>2, <2>3, <2>4
  <2>6. q2.desc[i].buf = x /\ q2.desc[i].next = d.next /\ q2.desc[i].more = e
    BY <2>5 DEF Descriptors
  <2>7. d.next = F[k + 1]
    BY <1>11, <2>1, <2>2, <2>3
  <2>8. e <=> k # n - 1
    <3>1. i # F[n - 1] <=> k # n - 1
      BY <1>11, <2>1, <2>2
    <3> QED BY <2>4, <3>1, Zenon
  <2>9. q2.desc[i].more <=> k # n - 1
    BY <2>6, <2>8, Zenon
  <2> QED BY <2>2, <2>6, <2>7, <2>9
<1>15. ChainFor(q2, a, x, n)
  <2>1. 0 \in 0..(n - 1) /\ 1 \in 0..(n - 1) /\ 0 + 1 = 1 /\ 1 + 1 = 2 /\ (n = 3 => 2 \in 0..(n - 1))
        /\ (1 # n - 1 <=> n = 3)
    OBVIOUS
  <2>2. Second(q2, a) = b
    BY <1>7, <1>14, <2>1 DEF Second
  <2>3. Three(q2, a) <=> n = 3
    BY <1>7, <1>14, <2>1, <2>2 DEF Three
  <2>4. q2.desc[a].buf = x /\ q2.desc[b].buf = x
    BY <1>7, <1>14, <2>1
  <2>5. n = 3 => q2.desc[F[2]].buf = x /\ q2.desc[b].next = F[2]
    BY <1>7, <1>14, <2>1
  <2>6. q2.desc[Last(q2, a)].buf = x
    BY <2>2, <2>3, <2>4, <2>5 DEF Last
  <2> QED BY <2>2, <2>3, <2>4, <2>6 DEF ChainFor, Members
<1>16. q2.xdata = [q.xdata EXCEPT ![a] = x]
       /\ q2.used = q.used /\ q2.used_idx = q.used_idx /\ q2.last_used_idx = q.last_used_idx
  BY <1>6, <1>7 DEF Enqueued
<1>17. Joins(q, q2, at, a, x, n)
  BY <1>8, <1>9, <1>10, <1>13, <1>15, <1>16 DEF Joins
<1> QED BY <1>17

\* The chain of h, the next for the driver, is gone in q2.
Leaves(q, q2, h) ==
  /\ h \in Virtio!Heads(q) /\ h = Virtio!UsedElem(q).id
  /\ Virtio!Heads(q2) = Virtio!Heads(q) \ {h}
  /\ q2.xdata = [q.xdata EXCEPT ![h] = 0]
  /\ q2.last_used_idx = (q.last_used_idx + 1) % IndexMod
  /\ q2.used = q.used /\ q2.used_idx = q.used_idx
  /\ q2.avail = q.avail /\ q2.avail_idx = q.avail_idx
  /\ \A g \in Virtio!Heads(q) \ {h} : ChainSame(q, q2, g)

\* virtq_dequeue takes one chain away and leaves the others.
LEMMA QueueLeaves ==
  ASSUME NEW q, NEW at, NEW busy, QueueInv(q, at, busy), ~Virtio!NothingUsed(q),
         NEW q2, q2 = Virtio!virtq_dequeue(q)
  PROVE  \E h : Leaves(q, q2, h)
<1>1. q \in Queues
  BY DEF QueueInv
<1>2. PICK F, nf, own : Layout(q, F, nf, own)
  BY DEF QueueInv
<1>3. PICK H : H = Virtio!Heads(q)
  OBVIOUS
<1>4. PICK h : h = Virtio!UsedElem(q).id
  OBVIOUS
<1>5. h \in H
  <2>1. PICK l \in Nat, n \in Nat : l = q.last_used_idx /\ n = UsedLen(q)
    BY QueueLens
  <2>2. n # 0
    <3>1. PICK c \in 0..(IndexMod - 1), p \in 0..(IndexMod - 1) :
             c = q.last_used_idx /\ p = q.used_idx /\ c # p
      BY QueueLens DEF Virtio!NothingUsed
    <3>2. (p - c) % IndexMod # 0
      BY <3>1, Nearer, QueueSizes
    <3> QED BY <2>1, <3>1, <3>2 DEF UsedLen
  <2>3. 0 \in 0..(UsedLen(q) - 1) /\ l + 0 = l
    BY <2>1, <2>2
  <2>4. PICK i \in Virtio!Idx : i = l % NQueue /\ Returned(q, busy, i, 0)
    <3>1. \E i \in Virtio!Idx : i = (q.last_used_idx + 0) % NQueue /\ Returned(q, busy, i, 0)
      BY <2>3, UsedWaits
    <3> QED BY <2>1, <2>3, <3>1
  <2> QED BY <1>3, <1>4, <2>1, <2>4 DEF Returned, Virtio!UsedElem
<1>6. h \in Virtio!Idx
  BY <1>3, <1>5 DEF Virtio!Heads
<1>7. Released(q, h, q2)
  <2>1. ChainAs(q, h)
    BY <1>2, <1>3, <1>5 DEF Layout
  <2> QED BY <1>1, <1>4, <1>6, <2>1, DequeueIs
<1>8. Virtio!Heads(q2) = H \ {h}
  BY <1>1, <1>2, <1>3, <1>5, <1>7, ReleaseKeeps
<1>9. ASSUME NEW g \in H \ {h} PROVE ChainSame(q, q2, g)
  <2>1. PICK z : z = Last(q, h)
    OBVIOUS
  <2>2. own[z] = h
    <3>1. z \in Members(q, h)
      BY <2>1 DEF Members
    <3> QED BY <1>2, <1>3, <1>5, <3>1, HeadOwns
  <2>3. Members(q, g) \subseteq Virtio!Idx /\ \A i \in Members(q, g) : own[i] = g
    BY <1>2, <1>3, HeadOwns
  <2>4. q2.desc = [q.desc EXCEPT ![z].next = q.free_head] /\ q.desc \in [Virtio!Idx -> Descriptors]
    BY <1>1, <1>7, <2>1 DEF Released, Queues
  <2>5. \A i \in Members(q, g) : q2.desc[i] = q.desc[i]
    BY <2>2, <2>3, <2>4
  <2> QED BY <2>5, ChainKept
<1>10. Leaves(q, q2, h)
  BY <1>3, <1>4, <1>5, <1>7, <1>8, <1>9 DEF Leaves, Released
<1> QED BY <1>10

\* The device puts chain h, which it works on, into the used ring.
LEMMA QueueHands ==
  ASSUME NEW q, NEW at, NEW busy, QueueInv(q, at, busy), NEW h \in busy, NEW z,
         NEW q2, q2 = Virtio!PushUsed(q, h, z)
  PROVE  /\ Handed(q, q2, h, z)
         /\ q2.desc = q.desc /\ q2.xdata = q.xdata /\ q2.avail = q.avail /\ q2.avail_idx = q.avail_idx
<1>1. q \in Queues
  BY DEF QueueInv
<1>2. PICK F, nf, own : Layout(q, F, nf, own)
  BY DEF QueueInv
<1>3. PICK P, U : RingsAs(q, at, busy, P, U)
  BY DEF QueueInv
<1>4. PICK H : H = Virtio!Heads(q)
  OBVIOUS
<1>5. /\ U \subseteq H /\ busy \subseteq H /\ U \cap busy = {}
      /\ RingHolds(UsedIds(q), q.last_used_idx, UsedLen(q), U)
  BY <1>3, <1>4 DEF RingsAs, UsedLen
<1>6. H \subseteq Virtio!Idx
  BY <1>4 DEF Virtio!Heads
<1>7. PICK a : a = Second(q, h)
  OBVIOUS
<1>8. a \in Virtio!Idx \ U /\ a # h
  <2>1. ChainAs(q, h) /\ a \in Members(q, h)
    BY <1>2, <1>4, <1>5, <1>7 DEF Layout, Members
  <2>2. a # h /\ a \in Virtio!Idx
    BY <1>7, <2>1 DEF ChainAs
  <2>3. own[a] = h
    BY <1>2, <1>4, <1>5, <2>1, HeadOwns
  <2>4. \A g \in H : own[g] = g
    BY <1>2, <1>4, HeadOwns
  <2> QED BY <1>5, <2>2, <2>3, <2>4
<1>9. UsedLen(q) + 1 < NQueue
  <2>1. UsedLen(q) \in Nat /\ q.last_used_idx \in Nat
    BY QueueLens
  <2>2. h \in Virtio!Idx \ U /\ U \subseteq Virtio!Idx
    BY <1>5, <1>6
  <2> QED BY <1>5, <1>8, <2>1, <2>2, RingRoom
<1>10. PICK us, e : us = [q.used EXCEPT ![q.used_idx % NQueue] = [id |-> h, len |-> z]]
                    /\ e = (q.used_idx + 1) % IndexMod
  OBVIOUS
<1>11. q2 = [q EXCEPT !.used = us, !.used_idx = e]
  BY <1>1, <1>10 DEF Virtio!PushUsed, Queues
<1>12. /\ q2.desc = q.desc /\ q2.xdata = q.xdata /\ q2.avail = q.avail /\ q2.avail_idx = q.avail_idx
       /\ q2.used = us /\ q2.used_idx = e /\ q2.last_used_idx = q.last_used_idx
  BY <1>1, <1>11 DEF Queues
<1> QED BY <1>9, <1>10, <1>12 DEF Handed

-----------------------------------------------------------------------------
(* The virtio driver as a frame service.                                   *)

\* What a buffer can hold between two steps.
Kept == TxFrames \cup RxFrames \cup {Virtio!Free, Virtio!Empty, Virtio!InStack}

\* Chains have buffers of their own.
OneEach(q) == \A g, h \in Virtio!Heads(q) : g # h => q.xdata[g] # q.xdata[h]

\* Every chain of the transmit queue is one accepted frame, whole.
TxHolds(q, m) ==
  /\ OneEach(q)
  /\ \A h \in Virtio!Heads(q) :
       m[q.xdata[h]] \in TxFrames /\ ChainFor(q, h, q.xdata[h], Virtio!Descs(m[q.xdata[h]]))

\* Every chain of the receive queue is a buffer for a frame, or with one.
RxHolds(q, m) ==
  /\ OneEach(q)
  /\ \A h \in Virtio!Heads(q) :
       m[q.xdata[h]] \in RxFrames \cup {Virtio!Empty} /\ q.desc[h].buf = q.xdata[h]

\* Entry i of the used ring names a frame and says how long it is.
FrameIn(q, m, i) ==
  LET f == m[q.xdata[q.used[i].id]]
  IN  f \in RxFrames /\ q.used[i].len = Virtio!VnetHdrSize + Virtio!FrameLen(f)

UsedAre(q, m) == \A k \in 0..(UsedLen(q) - 1) : FrameIn(q, m, (q.last_used_idx + k) % NQueue)

\* Between two steps.
VirtioServes ==
  /\ mem \in [Bufs -> Kept]
  /\ TxHolds(rings["tx"], mem)
  /\ RxHolds(rings["rx"], mem)
  /\ UsedAre(rings["rx"], mem)

\* What a step with virtio does to the frames that wait.
VirtioServed ==
  Served(AvailQ(rings["tx"], dev.tx_at, mem), wire, UsedQ(rings["rx"], mem), up,
         AvailQ(rings'["tx"], dev'.tx_at, mem'), wire', UsedQ(rings'["rx"], mem'), up')

\* Frames of either direction and the marks of an unused buffer differ.
LEMMA VirtioKinds ==
  /\ \A f \in TxFrames : f \notin RxFrames \cup {Virtio!Free, Virtio!Empty, Virtio!InStack}
  /\ \A f \in RxFrames : f \notin {Virtio!Free, Virtio!Empty, Virtio!InStack}
  /\ Virtio!Free # Virtio!Empty /\ Virtio!Free # Virtio!InStack /\ Virtio!Empty # Virtio!InStack
  BY FramesAre DEF Virtio!Free, Virtio!Empty, Virtio!InStack

\* The buffer of a chain.
LEMMA HeadBuffer ==
  ASSUME NEW q, NEW at, NEW busy, QueueInv(q, at, busy), NEW h \in Virtio!Heads(q)
  PROVE  h \in Virtio!Idx /\ q.xdata[h] \in Bufs
<1>1. q.xdata \in [Virtio!Idx -> Bufs \cup {0}]
  BY DEF QueueInv, Queues
<1> QED BY <1>1 DEF Virtio!Heads

\* The transmit queue when other buffers change.
LEMMA TxStill ==
  ASSUME NEW q, NEW at, NEW busy, QueueInv(q, at, busy), NEW m, NEW m2, TxHolds(q, m),
         \A x \in Bufs : m[x] \in TxFrames => m2[x] = m[x]
  PROVE  TxHolds(q, m2) /\ AvailQ(q, at, m2) = AvailQ(q, at, m)
<1>1. ASSUME NEW h \in Virtio!Heads(q) PROVE m2[q.xdata[h]] = m[q.xdata[h]]
  BY HeadBuffer DEF TxHolds
<1>2. TxHolds(q, m2)
  BY <1>1 DEF TxHolds
<1>3. AvailStays(q, q, m, m2)
  BY <1>1 DEF AvailStays, Waiting
<1> QED BY <1>2, <1>3, AvailKept

\* The receive queue when other buffers change.
LEMMA RxStill ==
  ASSUME NEW q, NEW at, NEW busy, QueueInv(q, at, busy), NEW m, NEW m2, RxHolds(q, m), UsedAre(q, m),
         \A x \in Bufs : m[x] \in RxFrames \cup {Virtio!Empty} => m2[x] = m[x]
  PROVE  RxHolds(q, m2) /\ UsedAre(q, m2) /\ UsedQ(q, m2) = UsedQ(q, m)
<1>1. ASSUME NEW h \in Virtio!Heads(q) PROVE m2[q.xdata[h]] = m[q.xdata[h]]
  BY HeadBuffer DEF RxHolds
<1>2. RxHolds(q, m2)
  BY <1>1 DEF RxHolds
<1>3. UsedStays(q, q, m, m2, busy, 0)
  BY <1>1 DEF UsedStays, Returned
<1>4. UsedAre(q, m2)
  <2>1. ASSUME NEW k \in 0..(UsedLen(q) - 1) PROVE FrameIn(q, m2, (q.last_used_idx + k) % NQueue)
    <3>1. PICK i \in Virtio!Idx : i = (q.last_used_idx + k) % NQueue /\ Returned(q, busy, i, k)
      BY UsedWaits
    <3>2. FrameIn(q, m, i)
      BY <3>1 DEF UsedAre
    <3>3. m2[q.xdata[q.used[i].id]] = m[q.xdata[q.used[i].id]]
      BY <1>1, <3>1 DEF Returned
    <3>4. FrameIn(q, m2, i)
      BY <3>2, <3>3 DEF FrameIn
    <3> QED BY <3>1, <3>4
  <2> QED BY <2>1 DEF UsedAre
<1> QED BY <1>2, <1>3, <1>4, UsedKept

\* The queues before a step.
LEMMA VirtioPieces ==
  ASSUME VirtioInv, VirtioServes
  PROVE  \E t, r, i, j, b :
           /\ rings = Pair(t, r) /\ rings["tx"] = t /\ rings["rx"] = r
           /\ {"tx_at", "rx_at", "busy"} \subseteq DOMAIN dev
           /\ dev.tx_at = i /\ dev.rx_at = j /\ dev.busy = b
           /\ QueueInv(t, i, b) /\ QueueInv(r, j, {})
           /\ TxHolds(t, mem) /\ RxHolds(r, mem) /\ UsedAre(r, mem) /\ mem \in [Bufs -> Kept]
<1>1. PICK t, r, i, j, b :
        /\ rings = Pair(t, r) /\ rings["tx"] = t /\ rings["rx"] = r
        /\ {"tx_at", "rx_at", "busy"} \subseteq DOMAIN dev
        /\ dev.tx_at = i /\ dev.rx_at = j /\ dev.busy = b
        /\ QueueInv(t, i, b) /\ QueueInv(r, j, {}) /\ halted # "xdata"
        /\ aux = Cardinality(Virtio!Heads(r))
  BY VirtioParts
<1>2. TxHolds(t, mem) /\ RxHolds(r, mem) /\ UsedAre(r, mem) /\ mem \in [Bufs -> Kept]
  BY <1>1 DEF VirtioServes
<1> QED BY <1>1, <1>2

\* The queues after a step, from its parts.
LEMMA VirtioGoesOn ==
  ASSUME NEW t, NEW r, NEW i, rings' = Pair(t, r), dev'.tx_at = i, mem' \in [Bufs -> Kept],
         TxHolds(t, mem'), RxHolds(r, mem'), UsedAre(r, mem'),
         Served(AvailQ(rings["tx"], dev.tx_at, mem), wire, UsedQ(rings["rx"], mem), up,
                AvailQ(t, i, mem'), wire', UsedQ(r, mem'), up')
  PROVE  VirtioServes' /\ VirtioServed
<1>1. rings'["tx"] = t /\ rings'["rx"] = r
  BY PairIs
<1>2. TxHolds(rings["tx"], mem)'
  BY <1>1 DEF TxHolds, OneEach, ChainFor, Members, Second, Three, Last, Virtio!Heads
<1>3. RxHolds(rings["rx"], mem)'
  BY <1>1 DEF RxHolds, OneEach, Virtio!Heads
<1>4. UsedAre(rings["rx"], mem)'
  BY <1>1 DEF UsedAre, UsedLen, FrameIn
<1>5. VirtioServes'
  BY <1>2, <1>3, <1>4 DEF VirtioServes
<1>6. VirtioServed
  BY <1>1 DEF VirtioServed
<1> QED BY <1>5, <1>6

\* A new chain with a buffer of its own.
LEMMA JoinsEach ==
  ASSUME NEW q, NEW at, NEW busy, QueueInv(q, at, busy), OneEach(q),
         NEW q2, NEW h, NEW x, NEW n, Joins(q, q2, at, h, x, n),
         \A g \in Virtio!Heads(q) : q.xdata[g] # x
  PROVE  /\ OneEach(q2) /\ q2.xdata[h] = x
         /\ \A g \in Virtio!Heads(q) : q2.xdata[g] = q.xdata[g]
<1>1. q.xdata \in [Virtio!Idx -> Bufs \cup {0}]
  BY DEF QueueInv, Queues
<1>2. /\ h \in Virtio!Idx \ Virtio!Heads(q) /\ Virtio!Heads(q2) = Virtio!Heads(q) \cup {h}
      /\ q2.xdata = [q.xdata EXCEPT ![h] = x]
  BY DEF Joins
<1>3. q2.xdata[h] = x /\ \A g \in Virtio!Heads(q) : q2.xdata[g] = q.xdata[g]
  <2>1. Virtio!Heads(q) \subseteq Virtio!Idx
    BY DEF Virtio!Heads
  <2> QED BY <1>1, <1>2, <2>1
<1> QED BY <1>2, <1>3 DEF OneEach

\* A chain less.
LEMMA LeavesEach ==
  ASSUME NEW q, NEW at, NEW busy, QueueInv(q, at, busy), OneEach(q),
         NEW q2, NEW h, Leaves(q, q2, h)
  PROVE  /\ OneEach(q2)
         /\ \A g \in Virtio!Heads(q) \ {h} : q2.xdata[g] = q.xdata[g] /\ q.xdata[g] # q.xdata[h]
<1>1. q.xdata \in [Virtio!Idx -> Bufs \cup {0}]
  BY DEF QueueInv, Queues
<1>2. /\ h \in Virtio!Heads(q) /\ Virtio!Heads(q2) = Virtio!Heads(q) \ {h}
      /\ q2.xdata = [q.xdata EXCEPT ![h] = 0]
  BY DEF Leaves
<1>3. \A g \in Virtio!Heads(q) \ {h} : q2.xdata[g] = q.xdata[g]
  <2>1. Virtio!Heads(q) \subseteq Virtio!Idx
    BY DEF Virtio!Heads
  <2> QED BY <1>1, <1>2, <2>1
<1> QED BY <1>2, <1>3 DEF OneEach

\* What waits for the driver is what it was.
LEMMA UsedAreKept ==
  ASSUME NEW q, NEW at, NEW busy, QueueInv(q, at, busy), NEW q2, NEW m, NEW m2,
         q2.used = q.used, q2.used_idx = q.used_idx, q2.last_used_idx = q.last_used_idx,
         UsedStays(q, q2, m, m2, busy, 0), UsedAre(q, m)
  PROVE  UsedAre(q2, m2)
<1>1. UsedLen(q2) = UsedLen(q)
  BY DEF UsedLen
<1>2. ASSUME NEW k \in 0..(UsedLen(q) - 1) PROVE FrameIn(q2, m2, (q.last_used_idx + k) % NQueue)
  <2>1. PICK i \in Virtio!Idx : i = (q.last_used_idx + k) % NQueue /\ Returned(q, busy, i, k)
    BY UsedWaits
  <2>2. FrameIn(q, m, i)
    BY <2>1 DEF UsedAre
  <2>3. Returned(q, busy, i, 0)
    BY <2>1 DEF Returned
  <2>4. m2[q2.xdata[q.used[i].id]] = m[q.xdata[q.used[i].id]]
    BY <2>1, <2>3 DEF UsedStays
  <2>5. FrameIn(q2, m2, i)
    BY <2>2, <2>4 DEF FrameIn
  <2> QED BY <2>1, <2>5
<1> QED BY <1>1, <1>2 DEF UsedAre

\* Steps that leave the queues and the buffers alone.
LEMMA VirtioStill ==
  ASSUME VirtioServes, UNCHANGED <<rings, mem, wire, up>>, dev'.tx_at = dev.tx_at
  PROVE  VirtioServes' /\ VirtioServed
<1>1. VirtioServed
  BY DEF VirtioServed, Served
<1>2. VirtioServes'
  BY DEF VirtioServes, TxHolds, RxHolds, OneEach, ChainFor, Members, Second, Three, Last,
         UsedAre, UsedLen, FrameIn, Virtio!Heads
<1> QED BY <1>1, <1>2

\* The message layer frees a buffer of its own.
LEMMA VirtioMsgFreeServes ==
  ASSUME VirtioInv, VirtioServes, NEW x \in Bufs, Virtio!MsgFree(x)
  PROVE  VirtioServes' /\ VirtioServed
<1>1. PICK t, r, i, j, b :
           /\ rings = Pair(t, r) /\ rings["tx"] = t /\ rings["rx"] = r
           /\ {"tx_at", "rx_at", "busy"} \subseteq DOMAIN dev
           /\ dev.tx_at = i /\ dev.rx_at = j /\ dev.busy = b
           /\ QueueInv(t, i, b) /\ QueueInv(r, j, {})
           /\ TxHolds(t, mem) /\ RxHolds(r, mem) /\ UsedAre(r, mem) /\ mem \in [Bufs -> Kept]
  BY VirtioPieces
<1>2. /\ rings' = Pair(t, r) /\ dev' = dev /\ wire' = wire /\ up' = up
      /\ mem[x] = Virtio!InStack /\ mem' = [mem EXCEPT ![x] = Virtio!Free]
  BY <1>1 DEF Virtio!MsgFree
<1>3. mem' \in [Bufs -> Kept] /\ \A y \in Bufs : mem[y] # Virtio!InStack => mem'[y] = mem[y]
  BY <1>1, <1>2 DEF Kept
<1>4. TxHolds(t, mem') /\ AvailQ(t, i, mem') = AvailQ(t, i, mem)
  <2>1. \A y \in Bufs : mem[y] \in TxFrames => mem'[y] = mem[y]
    BY <1>3, VirtioKinds
  <2> QED BY <1>1, <2>1, TxStill
<1>5. RxHolds(r, mem') /\ UsedAre(r, mem') /\ UsedQ(r, mem') = UsedQ(r, mem)
  <2>1. \A y \in Bufs : mem[y] \in RxFrames \cup {Virtio!Empty} => mem'[y] = mem[y]
    BY <1>3, VirtioKinds
  <2> QED BY <1>1, <2>1, RxStill
<1>6. Served(AvailQ(rings["tx"], dev.tx_at, mem), wire, UsedQ(rings["rx"], mem), up,
             AvailQ(t, i, mem'), wire', UsedQ(r, mem'), up')
  BY <1>1, <1>2, <1>4, <1>5 DEF Served
<1> QED BY <1>1, <1>2, <1>3, <1>4, <1>5, <1>6, VirtioGoesOn

\* A buffer of the heap is unused.
LEMMA VirtioUnused ==
  ASSUME Virtio!FreeBufs # {}
  PROVE  Virtio!SomeFree \in Bufs /\ mem[Virtio!SomeFree] = Virtio!Free
  BY DEF Virtio!SomeFree, Virtio!FreeBufs

\* An empty buffer is queued for reception.
LEMMA VirtioFillServes ==
  ASSUME VirtioInv, VirtioServes, Virtio!FillRecvQueue, UNCHANGED <<dev, wire, up>>
  PROVE  VirtioServes' /\ VirtioServed
<1>1. PICK t, r, i, j, b :
           /\ rings = Pair(t, r) /\ rings["tx"] = t /\ rings["rx"] = r
           /\ {"tx_at", "rx_at", "busy"} \subseteq DOMAIN dev
           /\ dev.tx_at = i /\ dev.rx_at = j /\ dev.busy = b
           /\ QueueInv(t, i, b) /\ QueueInv(r, j, {})
           /\ TxHolds(t, mem) /\ RxHolds(r, mem) /\ UsedAre(r, mem) /\ mem \in [Bufs -> Kept]
  BY VirtioPieces
<1>2. PICK x, r2 : x = Virtio!SomeFree /\ r2 = Virtio!virtq_enqueue(r, 2, x)
  OBVIOUS
<1>3. x \in Bufs /\ mem[x] = Virtio!Free /\ Virtio!HasRoom(r, 2)
      /\ mem' = [mem EXCEPT ![x] = Virtio!Empty]
  BY <1>1, <1>2, VirtioUnused DEF Virtio!FillRecvQueue
<1>4. rings' = Pair(t, r2)
  <2>1. rings' = [Pair(t, r) EXCEPT !["rx"] = r2]
    BY <1>1, <1>2 DEF Virtio!FillRecvQueue
  <2> QED BY <2>1, PairIs
<1>5. PICK h : Joins(r, r2, j, h, x, 2)
  BY <1>1, <1>2, <1>3, QueueJoins
<1>6. /\ mem' \in [Bufs -> Kept] /\ mem'[x] = Virtio!Empty
      /\ \A y \in Bufs : mem[y] # Virtio!Free => mem'[y] = mem[y]
  BY <1>1, <1>3 DEF Kept
<1>7. TxHolds(t, mem') /\ AvailQ(t, i, mem') = AvailQ(t, i, mem)
  <2>1. \A y \in Bufs : mem[y] \in TxFrames => mem'[y] = mem[y]
    BY <1>6, VirtioKinds
  <2> QED BY <1>1, <2>1, TxStill
<1>8. \A g \in Virtio!Heads(r) :
        /\ r.xdata[g] \in Bufs /\ mem[r.xdata[g]] \in RxFrames \cup {Virtio!Empty}
        /\ r.desc[g].buf = r.xdata[g]
  BY <1>1, HeadBuffer DEF RxHolds
<1>9. \A g \in Virtio!Heads(r) : r.xdata[g] # x /\ mem'[r.xdata[g]] = mem[r.xdata[g]]
  BY <1>3, <1>6, <1>8, VirtioKinds
<1>10. /\ OneEach(r2) /\ r2.xdata[h] = x
       /\ \A g \in Virtio!Heads(r) : r2.xdata[g] = r.xdata[g]
  <2>1. OneEach(r)
    BY <1>1 DEF RxHolds
  <2> QED BY <1>1, <1>5, <1>9, <2>1, JoinsEach
<1>11. RxHolds(r2, mem')
  <2>1. Virtio!Heads(r2) = Virtio!Heads(r) \cup {h}
    BY <1>5 DEF Joins
  <2>2. r2.desc[h].buf = x
    BY <1>5 DEF Joins, ChainFor, Members
  <2>3. \A g \in Virtio!Heads(r) : r2.desc[g].buf = r.desc[g].buf
    BY <1>5 DEF Joins, ChainSame, Members
  <2>4. ASSUME NEW g \in Virtio!Heads(r2)
        PROVE  mem'[r2.xdata[g]] \in RxFrames \cup {Virtio!Empty} /\ r2.desc[g].buf = r2.xdata[g]
    <3>1. CASE g = h
      BY <1>6, <1>10, <2>2, <3>1
    <3>2. CASE g \in Virtio!Heads(r)
      BY <1>8, <1>9, <1>10, <2>3, <3>2
    <3> QED BY <2>1, <3>1, <3>2
  <2> QED BY <1>10, <2>4 DEF RxHolds
<1>12. UsedStays(r, r2, mem, mem', {}, 0)
  BY <1>9, <1>10 DEF UsedStays, Returned
<1>13. UsedAre(r2, mem') /\ UsedQ(r2, mem') = UsedQ(r, mem)
  <2>1. r2.used = r.used /\ r2.used_idx = r.used_idx /\ r2.last_used_idx = r.last_used_idx
    BY <1>5 DEF Joins
  <2> QED BY <1>1, <1>12, <2>1, UsedAreKept, UsedKept
<1>14. Served(AvailQ(rings["tx"], dev.tx_at, mem), wire, UsedQ(rings["rx"], mem), up,
              AvailQ(t, i, mem'), wire', UsedQ(r2, mem'), up')
  BY <1>1, <1>7, <1>13 DEF Served
<1>15. dev'.tx_at = i
  BY <1>1
<1> QED BY <1>4, <1>6, <1>7, <1>11, <1>13, <1>14, <1>15, VirtioGoesOn

\* A frame is accepted.
LEMMA VirtioXmitServes ==
  ASSUME VirtioInv, VirtioServes, NEW f \in TxFrames, Virtio!virtio_net_xmit(f)
  PROVE  VirtioServes' /\ VirtioServed
<1>1. PICK t, r, i, j, b :
           /\ rings = Pair(t, r) /\ rings["tx"] = t /\ rings["rx"] = r
           /\ {"tx_at", "rx_at", "busy"} \subseteq DOMAIN dev
           /\ dev.tx_at = i /\ dev.rx_at = j /\ dev.busy = b
           /\ QueueInv(t, i, b) /\ QueueInv(r, j, {})
           /\ TxHolds(t, mem) /\ RxHolds(r, mem) /\ UsedAre(r, mem) /\ mem \in [Bufs -> Kept]
  BY VirtioPieces
<1>2. PICK x, n, t2 : x = Virtio!SomeFree /\ n = Virtio!Descs(f) /\ t2 = Virtio!virtq_enqueue(t, n, x)
  OBVIOUS
<1>3. /\ x \in Bufs /\ mem[x] = Virtio!Free /\ Virtio!HasRoom(t, n)
      /\ mem' = [mem EXCEPT ![x] = f] /\ wire' = wire /\ up' = up
  BY <1>1, <1>2, VirtioUnused DEF Virtio!virtio_net_xmit
<1>4. rings' = Pair(t2, r)
  <2>1. rings' = [Pair(t, r) EXCEPT !["tx"] = t2]
    BY <1>1, <1>2 DEF Virtio!virtio_net_xmit
  <2> QED BY <2>1, PairIs
<1>5. PICK h : Joins(t, t2, i, h, x, n)
  <2>1. n \in {2, 3}
    BY <1>2 DEF Virtio!Descs
  <2> QED BY <1>1, <1>2, <1>3, <2>1, QueueJoins
<1>6. /\ mem' \in [Bufs -> Kept] /\ mem'[x] = f
      /\ \A y \in Bufs : mem[y] # Virtio!Free => mem'[y] = mem[y]
  BY <1>1, <1>3 DEF Kept
<1>7. RxHolds(r, mem') /\ UsedAre(r, mem') /\ UsedQ(r, mem') = UsedQ(r, mem)
  <2>1. \A y \in Bufs : mem[y] \in RxFrames \cup {Virtio!Empty} => mem'[y] = mem[y]
    BY <1>6, VirtioKinds
  <2> QED BY <1>1, <2>1, RxStill
<1>8. \A g \in Virtio!Heads(t) :
        /\ t.xdata[g] \in Bufs /\ mem[t.xdata[g]] \in TxFrames
        /\ ChainFor(t, g, t.xdata[g], Virtio!Descs(mem[t.xdata[g]]))
  BY <1>1, HeadBuffer DEF TxHolds
<1>9. \A g \in Virtio!Heads(t) : t.xdata[g] # x /\ mem'[t.xdata[g]] = mem[t.xdata[g]]
  BY <1>3, <1>6, <1>8, VirtioKinds
<1>10. /\ OneEach(t2) /\ t2.xdata[h] = x
       /\ \A g \in Virtio!Heads(t) : t2.xdata[g] = t.xdata[g]
  <2>1. OneEach(t)
    BY <1>1 DEF TxHolds
  <2> QED BY <1>1, <1>5, <1>9, <2>1, JoinsEach
<1>11. TxHolds(t2, mem')
  <2>1. Virtio!Heads(t2) = Virtio!Heads(t) \cup {h}
    BY <1>5 DEF Joins
  <2>2. ASSUME NEW g \in Virtio!Heads(t2)
        PROVE  mem'[t2.xdata[g]] \in TxFrames
               /\ ChainFor(t2, g, t2.xdata[g], Virtio!Descs(mem'[t2.xdata[g]]))
    <3>1. CASE g = h
      <4>1. ChainFor(t2, h, x, n)
        BY <1>5 DEF Joins
      <4> QED BY <1>2, <1>6, <1>10, <3>1, <4>1
    <3>2. CASE g \in Virtio!Heads(t)
      <4>1. PICK y, d : y = t.xdata[g] /\ d = Virtio!Descs(mem[y])
        OBVIOUS
      <4>2. ChainSame(t, t2, g)
        BY <1>5, <3>2 DEF Joins
      <4>3. ChainFor(t, g, y, d)
        BY <1>8, <3>2, <4>1
      <4>4. ChainFor(t2, g, y, d)
        BY <4>2, <4>3, Zenon DEF ChainFor, ChainSame
      <4>5. t2.xdata[g] = y /\ mem'[y] = mem[y] /\ mem[y] \in TxFrames
        BY <1>8, <1>9, <1>10, <3>2, <4>1
      <4> QED BY <4>1, <4>4, <4>5
    <3> QED BY <2>1, <3>1, <3>2
  <2> QED BY <1>10, <2>2 DEF TxHolds
<1>12. AvailQ(t2, i, mem') = Append(AvailQ(t, i, mem), f)
  <2>1. PICK m, m2 : m = mem /\ m2 = mem'
    OBVIOUS
  <2>2. AvailStays(t, t2, m, m2)
    BY <1>9, <1>10, <2>1 DEF AvailStays, Waiting
  <2>3. QueueInv(t, i, b) /\ Published(t, t2, i, h)
    BY <1>1, <1>5 DEF Joins
  <2>4. Grown(AvailQ(t2, i, m2), AvailQ(t, i, m), m2[t2.xdata[h]])
    BY <2>2, <2>3, AvailPut
  <2> QED BY <1>6, <1>10, <2>1, <2>4 DEF Grown
<1>13. Served(AvailQ(rings["tx"], dev.tx_at, mem), wire, UsedQ(rings["rx"], mem), up,
              AvailQ(t2, i, mem'), wire', UsedQ(r, mem'), up')
  BY <1>1, <1>3, <1>7, <1>12 DEF Served
<1>14. dev'.tx_at = i
  BY <1>1 DEF Virtio!virtio_net_xmit
<1> QED BY <1>4, <1>6, <1>7, <1>11, <1>13, <1>14, VirtioGoesOn

\* The frame of a chain that was sent is freed.
LEMMA VirtioTxintrServes ==
  ASSUME VirtioInv, VirtioServes, Virtio!txintr
  PROVE  VirtioServes' /\ VirtioServed
<1>1. PICK t, r, i, j, b :
           /\ rings = Pair(t, r) /\ rings["tx"] = t /\ rings["rx"] = r
           /\ {"tx_at", "rx_at", "busy"} \subseteq DOMAIN dev
           /\ dev.tx_at = i /\ dev.rx_at = j /\ dev.busy = b
           /\ QueueInv(t, i, b) /\ QueueInv(r, j, {})
           /\ TxHolds(t, mem) /\ RxHolds(r, mem) /\ UsedAre(r, mem) /\ mem \in [Bufs -> Kept]
  BY VirtioPieces
<1>2. PICK t2 : t2 = Virtio!virtq_dequeue(t)
  OBVIOUS
<1>3. ~Virtio!NothingUsed(t) /\ dev' = dev /\ wire' = wire /\ up' = up
  BY <1>1 DEF Virtio!txintr
<1>4. Virtio!Dequeued(t) # 0
  BY <1>1, <1>3, QueueDequeue
<1>5. PICK h : Leaves(t, t2, h)
  BY <1>1, <1>2, <1>3, QueueLeaves
<1>6. PICK x : x = t.xdata[h]
  OBVIOUS
<1>7. /\ h \in Virtio!Heads(t) /\ h = Virtio!UsedElem(t).id
      /\ Virtio!Heads(t2) = Virtio!Heads(t) \ {h} /\ t2.avail = t.avail /\ t2.avail_idx = t.avail_idx
      /\ \A g \in Virtio!Heads(t) \ {h} : ChainSame(t, t2, g)
  BY <1>5 DEF Leaves
<1>8. Virtio!Dequeued(t) = x
  BY <1>6, <1>7 DEF Virtio!Dequeued
<1>9. rings' = Pair(t2, r) /\ mem' = [mem EXCEPT ![x] = Virtio!Free]
  <2>1. rings' = [Pair(t, r) EXCEPT !["tx"] = t2]
    BY <1>1, <1>2, <1>4 DEF Virtio!txintr
  <2>2. mem' = [mem EXCEPT ![x] = Virtio!Free]
    BY <1>1, <1>4, <1>8 DEF Virtio!txintr
  <2> QED BY <2>1, <2>2, PairIs
<1>10. \A g \in Virtio!Heads(t) :
         /\ t.xdata[g] \in Bufs /\ mem[t.xdata[g]] \in TxFrames
         /\ ChainFor(t, g, t.xdata[g], Virtio!Descs(mem[t.xdata[g]]))
  BY <1>1, HeadBuffer DEF TxHolds
<1>11. x \in Bufs /\ mem[x] \in TxFrames
  BY <1>6, <1>7, <1>10
<1>12. mem' \in [Bufs -> Kept] /\ \A y \in Bufs : y # x => mem'[y] = mem[y]
  BY <1>1, <1>9 DEF Kept
<1>13. OneEach(t2) /\ \A g \in Virtio!Heads(t) \ {h} : t2.xdata[g] = t.xdata[g] /\ t.xdata[g] # x
  <2>1. OneEach(t)
    BY <1>1 DEF TxHolds
  <2> QED BY <1>1, <1>5, <1>6, <2>1, LeavesEach
<1>14. TxHolds(t2, mem')
  <2>1. ASSUME NEW g \in Virtio!Heads(t) \ {h}
        PROVE  mem'[t2.xdata[g]] \in TxFrames
               /\ ChainFor(t2, g, t2.xdata[g], Virtio!Descs(mem'[t2.xdata[g]]))
    <3>1. PICK y, d : y = t.xdata[g] /\ d = Virtio!Descs(mem[y])
      OBVIOUS
    <3>2. ChainSame(t, t2, g) /\ ChainFor(t, g, y, d)
      BY <1>7, <1>10, <3>1
    <3>3. ChainFor(t2, g, y, d)
      BY <3>2, Zenon DEF ChainFor, ChainSame
    <3>4. t2.xdata[g] = y /\ mem'[y] = mem[y] /\ mem[y] \in TxFrames
      BY <1>10, <1>12, <1>13, <3>1
    <3> QED BY <3>1, <3>3, <3>4
  <2> QED BY <1>7, <1>13, <2>1 DEF TxHolds
<1>15. AvailQ(t2, i, mem') = AvailQ(t, i, mem)
  <2>1. PICK m, m2 : m = mem /\ m2 = mem'
    OBVIOUS
  <2>2. AvailStays(t, t2, m, m2)
    BY <1>3, <1>7, <1>10, <1>12, <1>13, <2>1 DEF AvailStays, Waiting
  <2>3. AvailQ(t2, i, m2) = AvailQ(t, i, m)
    BY <1>1, <1>7, <2>2, AvailKept
  <2> QED BY <2>1, <2>3
<1>16. RxHolds(r, mem') /\ UsedAre(r, mem') /\ UsedQ(r, mem') = UsedQ(r, mem)
  <2>1. \A y \in Bufs : mem[y] \in RxFrames \cup {Virtio!Empty} => mem'[y] = mem[y]
    BY <1>11, <1>12, VirtioKinds
  <2> QED BY <1>1, <2>1, RxStill
<1>17. Served(AvailQ(rings["tx"], dev.tx_at, mem), wire, UsedQ(rings["rx"], mem), up,
              AvailQ(t2, i, mem'), wire', UsedQ(r, mem'), up')
  BY <1>1, <1>3, <1>15, <1>16 DEF Served
<1>18. dev'.tx_at = i
  BY <1>1, <1>3
<1> QED BY <1>9, <1>12, <1>14, <1>16, <1>17, <1>18, VirtioGoesOn

\* A length is a page and more below the bound the model puts on lengths.
LEMMA LenModIs == Virtio!LenMod \in Nat /\ Virtio!LenMod > 8192
  BY SMT DEF Virtio!LenMod

\* The body of a frame is the page that is attached, as far as the device wrote.
LEMMA VirtioBody ==
  ASSUME NEW f \in RxFrames
  PROVE  [f EXCEPT !.body = Virtio!RecvBody(Virtio!RecvBuffer(Virtio!VnetHdrSize + Virtio!FrameLen(f)))] = f
<1>1. PICK n : n = f.body
  OBVIOUS
<1>2. n \in {0, 4096} /\ f \in [id : Nat \ {0}, to : {"us", "other", "bad", "peer"}, body : {0, 4096}]
  BY <1>1, NetDevAssumption DEF Frame, PAGESIZE
<1>3. PICK z \in Nat : z = 74 + n
  BY <1>2
<1>4. Virtio!VnetHdrSize + Virtio!FrameLen(f) = z
  BY <1>1, <1>2, <1>3 DEF Virtio!VnetHdrSize, Virtio!FrameLen, Virtio!MsgHdrSize
<1>5. (z - 74) % Virtio!LenMod = n
  <2>2. PICK M : M = Virtio!LenMod
    OBVIOUS
  <2>3. M \in Nat /\ M > 8192
    BY <2>2, LenModIs
  <2>4. z - 74 = n /\ n \in 0..(M - 1) /\ M \in Nat \ {0}
    BY <1>2, <1>3, <2>3
  <2>5. n % M = n
    BY <2>4, ModSmall
  <2> QED BY <2>2, <2>4, <2>5
<1>6. PICK a : a = [data |-> 0, tail |-> 74, len |-> 74, body |-> FALSE, body_len |-> 0]
  OBVIOUS
<1>7. Virtio!alloc_iobuf_headsize(Virtio!VnetHdrSize + Virtio!MsgHdrSize, 0) = a
  <2>1. Virtio!VnetHdrSize + Virtio!MsgHdrSize = 74 /\ 74 - 0 = 74 /\ ~(74 < 0)
    BY DEF Virtio!VnetHdrSize, Virtio!MsgHdrSize
  <2> QED BY <1>6, <2>1 DEF Virtio!alloc_iobuf_headsize
<1>8. PICK c : c = [a EXCEPT !.body = TRUE, !.body_len = n]
  OBVIOUS
<1>9. /\ c.data = 0 /\ c.tail = 74 /\ c.len = 74 /\ c.body = TRUE /\ c.body_len = n
      /\ {"data", "tail", "len", "body", "body_len"} = DOMAIN c
  BY <1>6, <1>8
<1>10. PICK p : p = [c EXCEPT !.data = 10, !.len = 64]
  OBVIOUS
<1>11. /\ p.data = 10 /\ p.tail = 74 /\ p.len = 64 /\ p.body = TRUE /\ p.body_len = n
       /\ {"data", "tail", "len", "body", "body_len"} = DOMAIN p
  BY <1>9, <1>10
<1>12. Virtio!iobuf_pull(c, 10) = p
  <2>1. c.data + 10 = 10 /\ ~(10 >= c.tail) /\ c.len - 10 = 64
    BY <1>9
  <2> QED BY <1>10, <2>1 DEF Virtio!iobuf_pull
<1>13. Virtio!RecvBuffer(z) = p
  <2>1. a.len = 74
    BY <1>6
  <2>2. [a EXCEPT !.body = TRUE, !.body_len = (z - a.len) % Virtio!LenMod] = c
    BY <1>5, <1>8, <2>1
  <2>3. Virtio!VnetHdrSize = 10
    BY DEF Virtio!VnetHdrSize
  <2> QED BY <1>7, <1>12, <2>2, <2>3 DEF Virtio!RecvBuffer
<1>14. PICK e : e = [p EXCEPT !.data = 24, !.len = 50]
  OBVIOUS
<1>15. Virtio!iobuf_pull(p, 14) = e
  <2>1. p.data + 14 = 24 /\ ~(24 >= p.tail) /\ p.len - 14 = 50
    BY <1>11
  <2> QED BY <1>14, <2>1 DEF Virtio!iobuf_pull
<1>16. ~(e.len > 64) /\ e.body = TRUE /\ e.body_len = n
  BY <1>11, <1>14
<1>17. Virtio!RecvBody(p) = n
  BY <1>15, <1>16 DEF Virtio!RecvBody, Virtio!EtherSize
<1>18. [f EXCEPT !.body = n] = f
  BY <1>1, <1>2
<1> QED BY <1>4, <1>13, <1>17, <1>18

\* A frame is handed to the message layer, or dropped.
LEMMA VirtioRxintrServes ==
  ASSUME VirtioInv, VirtioServes, Virtio!rxintr
  PROVE  VirtioServes' /\ VirtioServed
<1>1. PICK t, r, i, j, b :
           /\ rings = Pair(t, r) /\ rings["tx"] = t /\ rings["rx"] = r
           /\ {"tx_at", "rx_at", "busy"} \subseteq DOMAIN dev
           /\ dev.tx_at = i /\ dev.rx_at = j /\ dev.busy = b
           /\ QueueInv(t, i, b) /\ QueueInv(r, j, {})
           /\ TxHolds(t, mem) /\ RxHolds(r, mem) /\ UsedAre(r, mem) /\ mem \in [Bufs -> Kept]
  BY VirtioPieces
<1>2. PICK r2 : r2 = Virtio!virtq_dequeue(r)
  OBVIOUS
<1>3. ~Virtio!NothingUsed(r) /\ dev' = dev /\ wire' = wire
  BY <1>1 DEF Virtio!rxintr
<1>4. Virtio!Dequeued(r) # 0
  BY <1>1, <1>3, QueueDequeue
<1>5. PICK h : Leaves(r, r2, h)
  BY <1>1, <1>2, <1>3, QueueLeaves
<1>6. PICK x, f : x = r.xdata[h] /\ f = mem[x]
  OBVIOUS
<1>7. /\ h \in Virtio!Heads(r) /\ h = Virtio!UsedElem(r).id
      /\ Virtio!Heads(r2) = Virtio!Heads(r) \ {h}
      /\ r2.last_used_idx = (r.last_used_idx + 1) % IndexMod
      /\ r2.used = r.used /\ r2.used_idx = r.used_idx
      /\ \A g \in Virtio!Heads(r) \ {h} : ChainSame(r, r2, g)
  BY <1>5 DEF Leaves
<1>8. Virtio!Dequeued(r) = x
  BY <1>6, <1>7 DEF Virtio!Dequeued
<1>9. f \in RxFrames /\ Virtio!UsedElem(r).len = Virtio!VnetHdrSize + Virtio!FrameLen(f)
  <2>1. PICK l \in Nat, n \in Nat : l = r.last_used_idx /\ n = UsedLen(r)
    BY <1>1, QueueLens
  <2>2. n # 0
    <3>1. PICK c \in 0..(IndexMod - 1), p \in 0..(IndexMod - 1) :
             c = r.last_used_idx /\ p = r.used_idx /\ c # p
      BY <1>1, <1>3, QueueLens DEF Virtio!NothingUsed
    <3>2. (p - c) % IndexMod # 0
      BY <3>1, Nearer, QueueSizes
    <3> QED BY <2>1, <3>1, <3>2 DEF UsedLen
  <2>3. 0 \in 0..(UsedLen(r) - 1) /\ l + 0 = l
    BY <2>1, <2>2
  <2>4. FrameIn(r, mem, (r.last_used_idx + 0) % NQueue)
    BY <1>1, <2>3 DEF UsedAre
  <2>5. PICK o : o = r.last_used_idx % NQueue
    OBVIOUS
  <2>6. FrameIn(r, mem, o)
    BY <2>1, <2>3, <2>4, <2>5
  <2>7. r.used[o] = Virtio!UsedElem(r)
    BY <2>5 DEF Virtio!UsedElem
  <2> QED BY <1>6, <1>7, <2>6, <2>7 DEF FrameIn
<1>10. rings' = Pair(t, r2)
  <2>1. rings' = [Pair(t, r) EXCEPT !["rx"] = r2]
    BY <1>1, <1>2, <1>4 DEF Virtio!rxintr
  <2> QED BY <2>1, PairIs
<1>11. /\ up' = IF f.to = "us" THEN Append(up, f) ELSE up
       /\ mem' = [mem EXCEPT ![x] = IF f.to = "us" THEN Virtio!InStack ELSE Virtio!Free]
  <2>1. PICK g : g = [mem[x] EXCEPT !.body = Virtio!RecvBody(Virtio!RecvBuffer(Virtio!UsedElem(r).len))]
    OBVIOUS
  <2>2. g = f
    BY <1>6, <1>9, <2>1, VirtioBody
  <2>3. /\ up' = IF g.to = "us" THEN Append(up, g) ELSE up
        /\ mem' = [mem EXCEPT ![x] = IF g.to = "us" THEN Virtio!InStack ELSE Virtio!Free]
    BY <1>1, <1>4, <1>8, <2>1 DEF Virtio!rxintr
  <2> QED BY <2>2, <2>3
<1>12. \A g \in Virtio!Heads(r) :
         /\ r.xdata[g] \in Bufs /\ mem[r.xdata[g]] \in RxFrames \cup {Virtio!Empty}
         /\ r.desc[g].buf = r.xdata[g]
  BY <1>1, HeadBuffer DEF RxHolds
<1>13. x \in Bufs /\ mem' \in [Bufs -> Kept] /\ \A y \in Bufs : y # x => mem'[y] = mem[y]
  BY <1>1, <1>6, <1>7, <1>11, <1>12 DEF Kept
<1>14. OneEach(r2) /\ \A g \in Virtio!Heads(r) \ {h} : r2.xdata[g] = r.xdata[g] /\ r.xdata[g] # x
  <2>1. OneEach(r)
    BY <1>1 DEF RxHolds
  <2> QED BY <1>1, <1>5, <1>6, <2>1, LeavesEach
<1>15. RxHolds(r2, mem')
  <2>1. ASSUME NEW g \in Virtio!Heads(r) \ {h}
        PROVE  mem'[r2.xdata[g]] \in RxFrames \cup {Virtio!Empty} /\ r2.desc[g].buf = r2.xdata[g]
    <3>1. r2.desc[g].buf = r.desc[g].buf
      BY <1>7 DEF ChainSame, Members
    <3> QED BY <1>12, <1>13, <1>14, <3>1
  <2> QED BY <1>7, <1>14, <2>1 DEF RxHolds
<1>16. PICK m, m2 : m = mem /\ m2 = mem'
  OBVIOUS
<1>17. UsedStays(r, r2, m, m2, {}, 1)
  BY <1>7, <1>12, <1>13, <1>14, <1>16 DEF UsedStays, Returned
<1>18. /\ UsedQ(r, m) # <<>> /\ Head(UsedQ(r, m)) = m[Virtio!Dequeued(r)]
       /\ UsedQ(r2, m2) = Tail(UsedQ(r, m))
       /\ \A k \in 0..(UsedLen(r2) - 1) :
            \E u \in Virtio!Idx :
              /\ u = (r2.last_used_idx + k) % NQueue /\ Returned(r, {}, u, 1)
              /\ k + 1 \in 0..(UsedLen(r) - 1) /\ u = (r.last_used_idx + (k + 1)) % NQueue
  BY <1>1, <1>3, <1>7, <1>17, UsedTake
<1>19. UsedAre(r2, mem')
  <2>1. ASSUME NEW k \in 0..(UsedLen(r2) - 1) PROVE FrameIn(r2, m2, (r2.last_used_idx + k) % NQueue)
    <3>1. PICK u \in Virtio!Idx :
             /\ u = (r2.last_used_idx + k) % NQueue /\ Returned(r, {}, u, 1)
             /\ k + 1 \in 0..(UsedLen(r) - 1) /\ u = (r.last_used_idx + (k + 1)) % NQueue
      BY <1>18
    <3>2. FrameIn(r, m, u)
      BY <1>1, <1>16, <3>1 DEF UsedAre
    <3>3. m2[r2.xdata[r.used[u].id]] = m[r.xdata[r.used[u].id]]
      BY <1>17, <3>1 DEF UsedStays
    <3>4. FrameIn(r2, m2, u)
      BY <1>7, <3>2, <3>3 DEF FrameIn
    <3> QED BY <3>1, <3>4
  <2> QED BY <1>16, <2>1 DEF UsedAre
<1>20. /\ UsedQ(r, mem) # <<>> /\ Head(UsedQ(r, mem)) = f /\ UsedQ(r2, mem') = Tail(UsedQ(r, mem))
  BY <1>6, <1>8, <1>16, <1>18
<1>21. TxHolds(t, mem') /\ AvailQ(t, i, mem') = AvailQ(t, i, mem)
  <2>1. \A y \in Bufs : mem[y] \in TxFrames => mem'[y] = mem[y]
    BY <1>6, <1>9, <1>13, VirtioKinds
  <2> QED BY <1>1, <2>1, TxStill
<1>22. Served(AvailQ(rings["tx"], dev.tx_at, mem), wire, UsedQ(rings["rx"], mem), up,
              AvailQ(t, i, mem'), wire', UsedQ(r2, mem'), up')
  BY <1>1, <1>3, <1>11, <1>20, <1>21 DEF Served
<1>23. dev'.tx_at = i
  BY <1>1, <1>3
<1> QED BY <1>10, <1>13, <1>15, <1>19, <1>21, <1>22, <1>23, VirtioGoesOn

\* A chain has the descriptors its frame asks for.
LEMMA MembersCount ==
  ASSUME NEW q, NEW h, ChainAs(q, h)
  PROVE  Cardinality(Members(q, h)) = IF Three(q, h) THEN 3 ELSE 2
<1>1. PICK a, b : a = Second(q, h) /\ b = Last(q, h)
  OBVIOUS
<1>2. h # a /\ h # b
  BY <1>1 DEF ChainAs
<1>3. Cardinality({h}) = 1 /\ IsFiniteSet({h})
  BY FS_Singleton
<1>4. Cardinality({h} \cup {a}) = 2 /\ IsFiniteSet({h} \cup {a})
  BY <1>2, <1>3, FS_AddElement
<1>5. CASE Three(q, h)
  <2>1. b \notin {h} \cup {a}
    BY <1>1, <1>2, <1>5 DEF ChainAs
  <2>2. Cardinality(({h} \cup {a}) \cup {b}) = 3
    BY <1>4, <2>1, FS_AddElement
  <2>3. Members(q, h) = ({h} \cup {a}) \cup {b}
    BY <1>1 DEF Members
  <2> QED BY <1>5, <2>2, <2>3
<1>6. CASE ~Three(q, h)
  <2>1. Members(q, h) = {h} \cup {a}
    BY <1>1, <1>6 DEF Members, Last
  <2> QED BY <1>4, <1>6, <2>1
<1> QED BY <1>5, <1>6

\* The device finds the frame that was queued.
LEMMA ChainRead ==
  ASSUME NEW q, NEW at, NEW busy, QueueInv(q, at, busy), TxHolds(q, mem), NEW h \in Virtio!Heads(q)
  PROVE  Virtio!FrameAt(q, h) = mem[q.xdata[h]]
<1>1. PICK x, n : x = q.xdata[h] /\ n = Virtio!Descs(mem[x])
  OBVIOUS
<1>2. h \in Virtio!Idx /\ x \in Bufs
  BY <1>1, HeadBuffer
<1>3. mem[x] \in TxFrames /\ ChainFor(q, h, x, n)
  BY <1>1 DEF TxHolds
<1>4. ChainAs(q, h)
  <2>1. PICK F, nf, own : Layout(q, F, nf, own)
    BY DEF QueueInv
  <2> QED BY <2>1 DEF Layout
<1>5. Virtio!ChainSet(q, h) = Members(q, h) /\ h \in Members(q, h)
  BY <1>2, <1>4, ChainHas DEF Members
<1>6. \A k \in Members(q, h) : q.desc[k].buf = x
  BY <1>3 DEF ChainFor
<1>7. Virtio!Cardinality(Members(q, h)) = n
  <2>1. n \in {2, 3} /\ (Three(q, h) <=> n = 3)
    BY <1>1, <1>3 DEF ChainFor, Virtio!Descs
  <2>2. Cardinality(Members(q, h)) = IF Three(q, h) THEN 3 ELSE 2
    BY <1>4, MembersCount
  <2>3. Cardinality(Members(q, h)) = n
    <3>1. CASE Three(q, h)
      BY <2>1, <2>2, <3>1
    <3>2. CASE ~Three(q, h)
      BY <2>1, <2>2, <3>2
    <3> QED BY <3>1, <3>2
  <2> QED BY <2>3, CardinalityIs
<1> QED BY <1>1, <1>2, <1>3, <1>5, <1>6, <1>7 DEF Virtio!FrameAt

\* The device works on chains that are out.
LEMMA BusyHeads ==
  ASSUME NEW q, NEW at, NEW busy, QueueInv(q, at, busy), NEW h, h \in busy
  PROVE  h \in Virtio!Heads(q)
  BY DEF QueueInv, RingsAs

\* The device sends a frame.
LEMMA VirtioTransmitServes ==
  ASSUME VirtioInv, VirtioServes, Virtio!DevTransmit
  PROVE  VirtioServes' /\ VirtioServed
<1>1. PICK t, r, i, j, b :
           /\ rings = Pair(t, r) /\ rings["tx"] = t /\ rings["rx"] = r
           /\ {"tx_at", "rx_at", "busy"} \subseteq DOMAIN dev
           /\ dev.tx_at = i /\ dev.rx_at = j /\ dev.busy = b
           /\ QueueInv(t, i, b) /\ QueueInv(r, j, {})
           /\ TxHolds(t, mem) /\ RxHolds(r, mem) /\ UsedAre(r, mem) /\ mem \in [Bufs -> Kept]
  BY VirtioPieces
<1>2. PICK h, i2 : h = t.avail[i % NQueue] /\ i2 = (i + 1) % IndexMod
  OBVIOUS
<1>3. i # t.avail_idx /\ rings' = Pair(t, r) /\ mem' = mem /\ up' = up
  BY <1>1 DEF Virtio!DevTransmit
<1>4. dev' = [dev EXCEPT !.tx_at = i2, !.busy = @ \cup {h}] /\ wire' = Append(wire, Virtio!FrameAt(t, h))
  BY <1>1, <1>2 DEF Virtio!DevTransmit
<1>5. h \in Virtio!Heads(t)
  <2>1. QueueInv(t, i2, b \cup {h})
    BY <1>1, <1>2, <1>3, QueueTaken
  <2> QED BY <2>1, BusyHeads
<1>6. Virtio!FrameAt(t, h) = mem[t.xdata[h]]
  BY <1>1, <1>5, ChainRead
<1>7. /\ AvailQ(t, i, mem) # <<>> /\ Head(AvailQ(t, i, mem)) = mem[t.xdata[h]]
      /\ AvailQ(t, i2, mem) = Tail(AvailQ(t, i, mem))
  <2>1. PICK m : m = mem
    OBVIOUS
  <2>2. /\ AvailQ(t, i, m) # <<>> /\ Head(AvailQ(t, i, m)) = m[t.xdata[t.avail[i % NQueue]]]
        /\ AvailQ(t, (i + 1) % IndexMod, m) = Tail(AvailQ(t, i, m))
    BY <1>1, <1>3, AvailTake
  <2> QED BY <1>2, <2>1, <2>2
<1>8. Served(AvailQ(rings["tx"], dev.tx_at, mem), wire, UsedQ(rings["rx"], mem), up,
             AvailQ(t, i2, mem'), wire', UsedQ(r, mem'), up')
  BY <1>1, <1>3, <1>4, <1>6, <1>7 DEF Served
<1>9. dev'.tx_at = i2
  BY <1>1, <1>4
<1>10. mem' \in [Bufs -> Kept] /\ TxHolds(t, mem') /\ RxHolds(r, mem') /\ UsedAre(r, mem')
  BY <1>1, <1>3
<1> QED BY <1>3, <1>8, <1>9, <1>10, VirtioGoesOn

\* The device returns a chain.
LEMMA VirtioTxDoneServes ==
  ASSUME VirtioInv, VirtioServes, Virtio!DevTxDone
  PROVE  VirtioServes' /\ VirtioServed
<1>1. PICK t, r, i, j, b :
           /\ rings = Pair(t, r) /\ rings["tx"] = t /\ rings["rx"] = r
           /\ {"tx_at", "rx_at", "busy"} \subseteq DOMAIN dev
           /\ dev.tx_at = i /\ dev.rx_at = j /\ dev.busy = b
           /\ QueueInv(t, i, b) /\ QueueInv(r, j, {})
           /\ TxHolds(t, mem) /\ RxHolds(r, mem) /\ UsedAre(r, mem) /\ mem \in [Bufs -> Kept]
  BY VirtioPieces
<1>2. PICK h \in b : /\ rings' = [rings EXCEPT !["tx"] = Virtio!PushUsed(@, h, 0)]
                     /\ dev' = [dev EXCEPT !.busy = @ \ {h}]
  BY <1>1 DEF Virtio!DevTxDone
<1>3. PICK t2 : t2 = Virtio!PushUsed(t, h, 0)
  OBVIOUS
<1>4. mem' = mem /\ wire' = wire /\ up' = up
  BY DEF Virtio!DevTxDone
<1>5. rings' = Pair(t2, r)
  <2>1. rings' = [Pair(t, r) EXCEPT !["tx"] = t2]
    BY <1>1, <1>2, <1>3
  <2> QED BY <2>1, PairIs
<1>6. t2.desc = t.desc /\ t2.xdata = t.xdata /\ t2.avail = t.avail /\ t2.avail_idx = t.avail_idx
  BY <1>1, <1>3, QueueHands
<1>7. TxHolds(t2, mem)
  BY <1>1, <1>6 DEF TxHolds, OneEach, ChainFor, Members, Second, Three, Last, Virtio!Heads
<1>8. AvailQ(t2, i, mem) = AvailQ(t, i, mem)
  <2>1. AvailStays(t, t2, mem, mem)
    BY <1>6 DEF AvailStays
  <2> QED BY <1>1, <1>6, <2>1, AvailKept
<1>9. Served(AvailQ(rings["tx"], dev.tx_at, mem), wire, UsedQ(rings["rx"], mem), up,
             AvailQ(t2, i, mem'), wire', UsedQ(r, mem'), up')
  BY <1>1, <1>4, <1>8 DEF Served
<1>10. dev'.tx_at = i
  BY <1>1, <1>2
<1>11. mem' \in [Bufs -> Kept] /\ TxHolds(t2, mem') /\ RxHolds(r, mem') /\ UsedAre(r, mem')
  BY <1>1, <1>4, <1>7
<1> QED BY <1>5, <1>9, <1>10, <1>11, VirtioGoesOn

\* The device takes a frame in.
LEMMA VirtioReceiveServes ==
  ASSUME VirtioInv, VirtioServes, NEW f \in RxFrames, Virtio!DevReceive(f)
  PROVE  VirtioServes' /\ VirtioServed
<1>1. PICK t, r, i, j, b :
           /\ rings = Pair(t, r) /\ rings["tx"] = t /\ rings["rx"] = r
           /\ {"tx_at", "rx_at", "busy"} \subseteq DOMAIN dev
           /\ dev.tx_at = i /\ dev.rx_at = j /\ dev.busy = b
           /\ QueueInv(t, i, b) /\ QueueInv(r, j, {})
           /\ TxHolds(t, mem) /\ RxHolds(r, mem) /\ UsedAre(r, mem) /\ mem \in [Bufs -> Kept]
  BY VirtioPieces
<1>2. PICK h, j2, z : /\ h = r.avail[j % NQueue] /\ j2 = (j + 1) % IndexMod
                      /\ z = Virtio!VnetHdrSize + Virtio!FrameLen(f)
  OBVIOUS
<1>3. PICK r2, B : r2 = Virtio!PushUsed(r, h, z) /\ B = {} \cup {h}
  OBVIOUS
<1>4. j # r.avail_idx /\ wire' = wire /\ up' = up
  BY <1>1 DEF Virtio!DevReceive
<1>5. rings' = Pair(t, r2)
  <2>1. rings' = [Pair(t, r) EXCEPT !["rx"] = r2]
    BY <1>1, <1>2, <1>3 DEF Virtio!DevReceive
  <2> QED BY <2>1, PairIs
<1>6. dev' = [dev EXCEPT !.rx_at = j2, !.nrx = @ + 1]
  BY <1>1, <1>2 DEF Virtio!DevReceive
<1>7. h \in Virtio!Heads(r) /\ QueueInv(r, j2, B) /\ h \in B
  <2>1. QueueInv(r, j2, {} \cup {h})
    BY <1>1, <1>2, <1>4, QueueTaken
  <2>2. QueueInv(r, j2, B) /\ h \in B
    BY <1>3, <2>1
  <2> QED BY <2>2, BusyHeads
<1>8. Handed(r, r2, h, z) /\ r2.desc = r.desc /\ r2.xdata = r.xdata
  BY <1>3, <1>7, QueueHands
<1>9. \A g \in Virtio!Heads(r) :
        /\ r.xdata[g] \in Bufs /\ mem[r.xdata[g]] \in RxFrames \cup {Virtio!Empty}
        /\ r.desc[g].buf = r.xdata[g]
  BY <1>1, HeadBuffer DEF RxHolds
<1>10. PICK x : x = r.xdata[h]
  OBVIOUS
<1>11. x \in Bufs /\ mem[x] \in RxFrames \cup {Virtio!Empty} /\ mem' = [mem EXCEPT ![x] = f]
  BY <1>1, <1>2, <1>7, <1>9, <1>10 DEF Virtio!DevReceive
<1>12. mem' \in [Bufs -> Kept] /\ mem'[x] = f /\ \A y \in Bufs : y # x => mem'[y] = mem[y]
  BY <1>1, <1>11 DEF Kept
<1>13. \A g \in Virtio!Heads(r) \ {h} : mem'[r.xdata[g]] = mem[r.xdata[g]]
  BY <1>1, <1>7, <1>9, <1>10, <1>12 DEF RxHolds, OneEach
<1>14. PICK m, m2 : m = mem /\ m2 = mem'
  OBVIOUS
<1>15. Virtio!Heads(r2) = Virtio!Heads(r)
  BY <1>8 DEF Virtio!Heads
<1>16. RxHolds(r2, mem')
  <2>1. ASSUME NEW g \in Virtio!Heads(r)
        PROVE  mem'[r.xdata[g]] \in RxFrames \cup {Virtio!Empty} /\ r.desc[g].buf = r.xdata[g]
    <3>1. CASE g = h
      BY <1>9, <1>10, <1>12, <3>1
    <3>2. CASE g # h
      BY <1>9, <1>13, <3>2
    <3> QED BY <3>1, <3>2
  <2>2. OneEach(r2)
    BY <1>1, <1>8, <1>15 DEF RxHolds, OneEach
  <2> QED BY <1>8, <1>15, <2>1, <2>2 DEF RxHolds
<1>17. UsedStays(r, r2, m, m2, B, 0)
  BY <1>3, <1>8, <1>13, <1>14 DEF UsedStays, Returned
<1>18. /\ Grown(UsedQ(r2, m2), UsedQ(r, m), m2[r2.xdata[h]])
       /\ OneMore(r, r2, B, h, z)
  BY <1>7, <1>8, <1>17, UsedPut
<1>19. UsedAre(r2, mem')
  <2>1. r2.last_used_idx = r.last_used_idx
    BY <1>8 DEF Handed
  <2>2. ASSUME NEW k \in 0..(UsedLen(r2) - 1) PROVE FrameIn(r2, m2, (r2.last_used_idx + k) % NQueue)
    <3>1. PICK u \in Virtio!Idx :
              /\ u = (r2.last_used_idx + k) % NQueue
              /\ \/ r2.used[u] = [id |-> h, len |-> z]
                 \/ k \in 0..(UsedLen(r) - 1) /\ Returned(r, B, u, 0) /\ r2.used[u] = r.used[u]
      BY <1>18 DEF OneMore
    <3>2. CASE r2.used[u] = [id |-> h, len |-> z]
      <4>1. r2.used[u].id = h /\ r2.used[u].len = z
        BY <3>2
      <4>2. FrameIn(r2, m2, u)
        BY <1>2, <1>8, <1>10, <1>12, <1>14, <4>1 DEF FrameIn
      <4> QED BY <3>1, <4>2
    <3>3. CASE k \in 0..(UsedLen(r) - 1) /\ Returned(r, B, u, 0) /\ r2.used[u] = r.used[u]
      <4>1. FrameIn(r, m, u)
        BY <1>1, <1>14, <2>1, <3>1, <3>3 DEF UsedAre
      <4>2. m2[r2.xdata[r.used[u].id]] = m[r.xdata[r.used[u].id]]
        BY <1>17, <3>3 DEF UsedStays
      <4>3. FrameIn(r2, m2, u)
        BY <3>3, <4>1, <4>2 DEF FrameIn
      <4> QED BY <3>1, <4>3
    <3> QED BY <3>1, <3>2, <3>3
  <2> QED BY <1>14, <2>2 DEF UsedAre
<1>20. UsedQ(r2, mem') = Append(UsedQ(r, mem), f)
  BY <1>8, <1>10, <1>12, <1>14, <1>18 DEF Grown
<1>21. TxHolds(t, mem') /\ AvailQ(t, i, mem') = AvailQ(t, i, mem)
  <2>1. \A y \in Bufs : mem[y] \in TxFrames => mem'[y] = mem[y]
    BY <1>11, <1>12, VirtioKinds
  <2> QED BY <1>1, <2>1, TxStill
<1>22. Served(AvailQ(rings["tx"], dev.tx_at, mem), wire, UsedQ(rings["rx"], mem), up,
              AvailQ(t, i, mem'), wire', UsedQ(r2, mem'), up')
  BY <1>1, <1>4, <1>20, <1>21 DEF Served
<1>23. dev'.tx_at = i
  BY <1>1, <1>6
<1> QED BY <1>5, <1>12, <1>16, <1>19, <1>21, <1>22, <1>23, VirtioGoesOn

\* The steps of the driver and the device that neither take nor return a chain.
LEMMA VirtioQuietServes ==
  ASSUME VirtioInv, VirtioServes,
         \/ Virtio!vtmmio_probe \/ Virtio!vtmmio_negotiate \/ Virtio!vtmmio_driver_ok
         \/ Virtio!vtmmio_set_virtq("rx", "features", "rxdone")
         \/ Virtio!vtmmio_set_virtq("tx", "rxdone", "queues")
         \/ \E f \in TxFrames : Virtio!XmitPanic(f)
         \/ Virtio!virtq_kick \/ Virtio!vtmmio_intr \/ Virtio!TxIntrDone
         \/ Virtio!RxIntrEmpty \/ Virtio!RefillDone \/ Virtio!FillFault
         \/ Virtio!DevWake \/ Virtio!DevPause
  PROVE  VirtioServes' /\ VirtioServed
<1>1. "tx_at" \in DOMAIN dev
  BY DEF VirtioInv
<1>2. SUFFICES UNCHANGED <<rings, mem, wire, up>> /\ dev'.tx_at = dev.tx_at
  BY VirtioStill
<1>3. CASE Virtio!vtmmio_probe
  BY <1>3 DEF Virtio!vtmmio_probe
<1>4. CASE Virtio!vtmmio_negotiate
  BY <1>4 DEF Virtio!vtmmio_negotiate
<1>5. CASE Virtio!vtmmio_driver_ok
  BY <1>1, <1>5 DEF Virtio!vtmmio_driver_ok
<1>6. CASE Virtio!vtmmio_set_virtq("rx", "features", "rxdone")
  BY <1>1, <1>6 DEF Virtio!vtmmio_set_virtq
<1>7. CASE Virtio!vtmmio_set_virtq("tx", "rxdone", "queues")
  BY <1>1, <1>7 DEF Virtio!vtmmio_set_virtq
<1>8. CASE \E f \in TxFrames : Virtio!XmitPanic(f)
  BY <1>8 DEF Virtio!XmitPanic
<1>9. CASE Virtio!virtq_kick
  BY <1>1, <1>9 DEF Virtio!virtq_kick
<1>10. CASE Virtio!vtmmio_intr
  BY <1>10 DEF Virtio!vtmmio_intr
<1>11. CASE Virtio!TxIntrDone
  BY <1>11 DEF Virtio!TxIntrDone
<1>12. CASE Virtio!RxIntrEmpty
  BY <1>12 DEF Virtio!RxIntrEmpty
<1>13. CASE Virtio!RefillDone
  BY <1>13 DEF Virtio!RefillDone
<1>14. CASE Virtio!DevWake
  BY <1>1, <1>14 DEF Virtio!DevWake
<1>15. CASE Virtio!DevPause
  BY <1>1, <1>15 DEF Virtio!DevPause
<1>16. CASE Virtio!FillFault
  BY <1>1, <1>16 DEF Virtio!FillFault
<1> QED BY <1>3, <1>4, <1>5, <1>6, <1>7, <1>8, <1>9, <1>10, <1>11, <1>12, <1>13, <1>14, <1>15, <1>16

\* A step with virtio keeps the queues in order and is one the frame service takes.
LEMMA VirtioServesKeeps ==
  ASSUME VirtioInv, VirtioServes, Virtio!Next
  PROVE  VirtioServes' /\ VirtioServed
<1>1. CASE Virtio!FirstFill \/ Virtio!Refill
  <2>1. Virtio!FillRecvQueue /\ UNCHANGED <<dev, wire, up>>
    BY <1>1 DEF Virtio!FirstFill, Virtio!Refill
  <2> QED BY <2>1, VirtioFillServes
<1>2. CASE \E f \in TxFrames : Virtio!virtio_net_xmit(f)
  BY <1>2, VirtioXmitServes
<1>3. CASE Virtio!txintr
  BY <1>3, VirtioTxintrServes
<1>4. CASE Virtio!rxintr
  BY <1>4, VirtioRxintrServes
<1>5. CASE Virtio!DevTransmit
  BY <1>5, VirtioTransmitServes
<1>6. CASE Virtio!DevTxDone
  BY <1>6, VirtioTxDoneServes
<1>7. CASE \E f \in {f \in RxFrames : f.to # "bad"} : Virtio!DevReceive(f)
  BY <1>7, VirtioReceiveServes
<1>8. CASE \E x \in Bufs : Virtio!MsgFree(x)
  BY <1>8, VirtioMsgFreeServes
<1> QED BY <1>1, <1>2, <1>3, <1>4, <1>5, <1>6, <1>7, <1>8, VirtioQuietServes
        DEF Virtio!Next, Virtio!Probe, Virtio!Handler, Virtio!Device

\* Nothing is queued at the start.
LEMMA VirtioServesStarts ==
  ASSUME Virtio!Init
  PROVE  /\ VirtioServes /\ wire = <<>> /\ up = <<>>
         /\ AvailQ(rings["tx"], dev.tx_at, mem) = <<>> /\ UsedQ(rings["rx"], mem) = <<>>
<1>1. PICK q : q = Virtio!virtq_create
  OBVIOUS
<1>2. Virtio!Heads(q) = {}
  BY <1>1, QueueStarts
<1>3. /\ rings["tx"] = q /\ rings["rx"] = q /\ dev.tx_at = 0 /\ wire = <<>> /\ up = <<>>
      /\ mem = [x \in Bufs |-> Virtio!Free]
  BY <1>1 DEF Virtio!Init, Virtio!Devices
<1>4. q.avail_idx = 0 /\ q.used_idx = 0 /\ q.last_used_idx = 0
  BY <1>1 DEF Virtio!virtq_create
<1>5. (0 - 0) % IndexMod = 0
  <2>1. 0 \in 0..(IndexMod - 1) /\ 0 - 0 = 0
    BY QueueSizes
  <2> QED BY <2>1, ModSmall, QueueSizes
<1>6. AvailLen(q, 0) = 0 /\ UsedLen(q) = 0
  BY <1>4, <1>5 DEF AvailLen, UsedLen
<1>7. AvailQ(q, 0, mem) = <<>> /\ UsedQ(q, mem) = <<>>
  BY <1>6, WindowNone DEF AvailQ, UsedQ
<1>8. TxHolds(q, mem) /\ RxHolds(q, mem) /\ UsedAre(q, mem)
  BY <1>2, <1>6 DEF TxHolds, RxHolds, UsedAre, OneEach
<1>9. mem \in [Bufs -> Kept]
  BY <1>3 DEF Kept
<1> QED BY <1>3, <1>7, <1>8, <1>9 DEF VirtioServes

\* What the refinement mapping shows are the frames that wait in the queues.
LEMMA VirtioQueues ==
  VirtioInv /\ VirtioServes
    => /\ Virtio!TxQueue = AvailQ(rings["tx"], dev.tx_at, mem)
       /\ Virtio!RxQueue = UsedQ(rings["rx"], mem)
<1> SUFFICES ASSUME VirtioInv, VirtioServes
             PROVE  /\ Virtio!TxQueue = AvailQ(rings["tx"], dev.tx_at, mem)
                    /\ Virtio!RxQueue = UsedQ(rings["rx"], mem)
  OBVIOUS
<1>1. PICK t, r, i, j, b :
           /\ rings = Pair(t, r) /\ rings["tx"] = t /\ rings["rx"] = r
           /\ {"tx_at", "rx_at", "busy"} \subseteq DOMAIN dev
           /\ dev.tx_at = i /\ dev.rx_at = j /\ dev.busy = b
           /\ QueueInv(t, i, b) /\ QueueInv(r, j, {})
           /\ TxHolds(t, mem) /\ RxHolds(r, mem) /\ UsedAre(r, mem) /\ mem \in [Bufs -> Kept]
  BY VirtioPieces
<1>2. Virtio!TxQueue = AvailQ(t, i, mem)
  <2>1. PICK n \in Nat, c \in Nat, p \in Nat :
             n = AvailLen(t, i) /\ c = i /\ p = t.avail_idx /\ n = (p - c) % IndexMod
    BY <1>1, QueueLens DEF AvailLen
  <2>2. PICK s : s = Virtio!Ring(t.avail, c, p)
    OBVIOUS
  <2>3. s = [k \in 1..n |-> t.avail[(c + k - 1) % NQueue]]
    BY <2>1, <2>2 DEF Virtio!Ring
  <2>4. PICK q : q = [k \in DOMAIN s |-> Virtio!FrameAt(t, s[k])]
    OBVIOUS
  <2>5. Virtio!TxQueue = q
    BY <1>1, <2>1, <2>2, <2>4 DEF Virtio!TxQueue
  <2>6. DOMAIN q = 1..n /\ q = [k \in 1..n |-> q[k]]
    BY <2>3, <2>4
  <2>7. ASSUME NEW k \in 1..n PROVE q[k] = AvailAt(t, mem)[(c + k - 1) % NQueue]
    <3>1. k - 1 \in 0..(n - 1) /\ c + (k - 1) = c + k - 1
      BY <2>1
    <3>2. PICK u \in Virtio!Idx : u = (c + (k - 1)) % NQueue /\ Waiting(t, u)
      BY <1>1, <2>1, <3>1, AvailWaits
    <3>3. s[k] = t.avail[u]
      BY <2>3, <3>1, <3>2
    <3>4. q[k] = Virtio!FrameAt(t, t.avail[u])
      BY <2>3, <2>4, <3>3
    <3>5. Virtio!FrameAt(t, t.avail[u]) = mem[t.xdata[t.avail[u]]]
      BY <1>1, <3>2, ChainRead DEF Waiting
    <3>6. AvailAt(t, mem)[u] = mem[t.xdata[t.avail[u]]]
      BY DEF AvailAt
    <3> QED BY <3>1, <3>2, <3>4, <3>5, <3>6
  <2>8. q = Window(AvailAt(t, mem), c, n, NQueue)
    <3>1. PICK at : at = AvailAt(t, mem)
      OBVIOUS
    <3>2. \A k \in 1..n : q[k] = at[(c + k - 1) % NQueue]
      BY <2>7, <3>1
    <3>3. q = Window(at, c, n, NQueue)
      BY <2>6, <3>2 DEF Window
    <3> QED BY <3>1, <3>3
  <2> QED BY <2>1, <2>5, <2>8 DEF AvailQ
<1>3. Virtio!RxQueue = UsedQ(r, mem)
  <2>1. PICK n \in Nat, c \in Nat, p \in Nat :
             n = UsedLen(r) /\ c = r.last_used_idx /\ p = r.used_idx /\ n = (p - c) % IndexMod
    BY <1>1, QueueLens DEF UsedLen
  <2>2. PICK s : s = Virtio!Ring(r.used, c, p)
    OBVIOUS
  <2>3. s = [k \in 1..n |-> r.used[(c + k - 1) % NQueue]]
    BY <2>1, <2>2 DEF Virtio!Ring
  <2>4. PICK q : q = [k \in DOMAIN s |-> mem[r.xdata[s[k].id]]]
    OBVIOUS
  <2>5. Virtio!RxQueue = q
    BY <1>1, <2>1, <2>2, <2>4 DEF Virtio!RxQueue
  <2>6. DOMAIN q = 1..n /\ q = [k \in 1..n |-> q[k]]
    BY <2>3, <2>4
  <2>7. ASSUME NEW k \in 1..n PROVE q[k] = UsedAt(r, mem)[(c + k - 1) % NQueue]
    <3>1. PICK u : u = (c + k - 1) % NQueue
      OBVIOUS
    <3>2. u \in Virtio!Idx
      <4>1. c + k - 1 \in Nat
        BY <2>1
      <4> QED BY <3>1, <4>1, SlotIs
    <3>3. s[k] = r.used[u]
      BY <2>3, <3>1
    <3>4. UsedAt(r, mem)[u] = mem[r.xdata[r.used[u].id]]
      BY <3>2 DEF UsedAt
    <3>5. q[k] = mem[r.xdata[r.used[u].id]]
      BY <2>3, <2>4, <3>3
    <3> QED BY <3>1, <3>4, <3>5
  <2>8. q = Window(UsedAt(r, mem), c, n, NQueue)
    <3>1. PICK at : at = UsedAt(r, mem)
      OBVIOUS
    <3>2. \A k \in 1..n : q[k] = at[(c + k - 1) % NQueue]
      BY <2>7, <3>1
    <3>3. q = Window(at, c, n, NQueue)
      BY <2>6, <3>2 DEF Window
    <3> QED BY <3>1, <3>3
  <2> QED BY <2>1, <2>5, <2>8 DEF UsedQ
<1> QED BY <1>1, <1>2, <1>3

\* The same after a step.
LEMMA VirtioQueuesNext ==
  (VirtioInv /\ VirtioServes)'
    => (/\ Virtio!TxQueue = AvailQ(rings["tx"], dev.tx_at, mem)
        /\ Virtio!RxQueue = UsedQ(rings["rx"], mem))'
  BY VirtioQueues, PTL

\* A step of a node with the virtio driver is one of the frame service.
LEMMA VirtioIsService ==
  ASSUME VirtioInv, VirtioInv', VirtioServes, VirtioServes', VirtioServed, ops = "virtio", ops' = "virtio"
  PROVE  [Service!Next]_(Service!vars)
<1>1. /\ Virtio!TxQueue = AvailQ(rings["tx"], dev.tx_at, mem)
      /\ Virtio!RxQueue = UsedQ(rings["rx"], mem)
  BY VirtioQueues
<1>2. /\ Virtio!TxQueue' = AvailQ(rings["tx"], dev.tx_at, mem)'
      /\ Virtio!RxQueue' = UsedQ(rings["rx"], mem)'
  BY VirtioQueuesNext
<1>3. /\ AvailQ(rings["tx"], dev.tx_at, mem)' = AvailQ(rings'["tx"], dev'.tx_at, mem')
      /\ UsedQ(rings["rx"], mem)' = UsedQ(rings'["rx"], mem')
  BY DEF AvailQ, UsedQ, AvailAt, UsedAt, AvailLen, UsedLen, Window
<1>4. Served(Virtio!TxQueue, wire, Virtio!RxQueue, up, Virtio!TxQueue', wire', Virtio!RxQueue', up')
  BY <1>1, <1>2, <1>3, Zenon DEF VirtioServed
<1> QED BY <1>4 DEF Served, Service!Next, Service!vars, Service!Accept, Service!Receive,
             Service!Transmit, Service!Deliver, Service!Lose

\* A node with the virtio driver is a frame service (virtio_net_xmit, txintr,
\* rxintr): the buffers of a queue are in the order of its ring, not of its chains.
LEMMA VirtioImplements == Spec /\ ops = "virtio" => ImplementsFrameService
<1> DEFINE Inv == ops = "virtio" /\ VirtioInv /\ VirtioServes
<1>1. Init /\ ops = "virtio" => Inv /\ Service!Init
  <2> SUFFICES ASSUME Init, ops = "virtio" PROVE Inv /\ Service!Init
    OBVIOUS
  <2>1. Virtio!Init
    BY DEF Init
  <2>2. VirtioInv
    BY <2>1, VirtioStarts
  <2>3. /\ VirtioServes /\ wire = <<>> /\ up = <<>>
        /\ AvailQ(rings["tx"], dev.tx_at, mem) = <<>> /\ UsedQ(rings["rx"], mem) = <<>>
    BY <2>1, VirtioServesStarts
  <2>4. Virtio!TxQueue = <<>> /\ Virtio!RxQueue = <<>>
    BY <2>2, <2>3, VirtioQueues
  <2> QED BY <2>2, <2>3, <2>4 DEF Service!Init
<1>2. Inv /\ [Next]_vars => Inv' /\ [Service!Next]_(Service!vars)
  <2> SUFFICES ASSUME Inv, [Next]_vars PROVE Inv' /\ [Service!Next]_(Service!vars)
    OBVIOUS
  <2>1. CASE Next
    <3>1. ops' = "virtio" /\ Virtio!Next
      BY <2>1 DEF Next, VirtioNext, GenetNext
    <3>2. VirtioInv'
      BY <3>1, VirtioKeeps
    <3>3. VirtioServes' /\ VirtioServed
      BY <3>1, VirtioServesKeeps
    <3> QED BY <3>1, <3>2, <3>3, VirtioIsService
  <2>2. CASE UNCHANGED vars
    <3>1. UNCHANGED <<ops, rings, mem, dev, aux, halted, wire, up>>
      BY <2>2 DEF vars, dvars
    <3>2. VirtioInv'
      <4>1. {"tx_at", "rx_at", "busy"} \subseteq DOMAIN dev /\ halted # "xdata"
        BY DEF VirtioInv
      <4> QED BY <3>1, <4>1, VirtioElsewhere
    <3>3. VirtioServes' /\ VirtioServed
      BY <3>1, VirtioStill
    <3> QED BY <3>1, <3>2, <3>3, VirtioIsService
  <2> QED BY <2>1, <2>2
<1> QED BY <1>1, <1>2, PTL DEF Spec, ImplementsFrameService, Service!Spec

\* Whichever driver the device tree selects, a node has the frame service the
\* message layer expects: a frame that xmit accepts is sent complete, once and in
\* order, and one that was taken in is handed up the same way or dropped
\* (virtio_net_xmit, txintr, rxintr; bcmgenet_xmit, tx_reclaim, bcmgenet_rxintr),
\* whatever order a virtio device returns chains in and however indices wrap.
\* Hypothesis HeaderOnly: no frame with a page is sent on a node with GENET,
\* whose tx_reclaim frees such a frame's buffer with its first descriptor.
THEOREM Implements ==
  ASSUME HeaderOnly
  PROVE  Spec => ImplementsFrameService
<1>1. Init => ops = "virtio" \/ ops = "genet"
  BY DEF Init
<1> QED BY <1>1, VirtioImplements, GenetImplements, PTL DEF Spec
=============================================================================

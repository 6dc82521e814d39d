---------------------------- MODULE VringProofs ----------------------------
(***************************************************************************)
(* What the two sides of a virtqueue agree on, for every size of the queue *)
(* and every modulus of its indices: an invariant of the rings in terms of *)
(* counters that never wrap, and lemmas that each of the things done to a  *)
(* queue keeps it.  The device proofs cite them for each of their queues.  *)
(***************************************************************************)
EXTENDS Vring, SequencesExt, FiniteSetTheorems, SequenceTheorems,
        WellFoundedInduction, TLAPS

\* Ring slot of the k-th chain in flight when D chains have been taken back.
At(D, k) == (D + k - 1) % QueueSize

\* Of the chains in flight the first p are completed.  The heads of those are
\* in the used ring, those of the others in the avail ring, in order.
Windows(D, p, in, avail, used) ==
    /\ \A k \in 1 .. Len(in) : k <= p => used[At(D, k)].id = in[k].head
    /\ \A k \in 1 .. Len(in) : k > p => avail[At(D, k)] = in[k].head

\* The four indices are the three counts, modulo IdxMod: D chains taken back,
\* p more completed, Len(in) published and not taken back.
Indices(D, p, in, lastUsed, usedIdx, lastAvail, availIdx) ==
    /\ p <= Len(in)
    /\ lastUsed = D % IdxMod
    /\ usedIdx = (D + p) % IdxMod
    /\ lastAvail = (D + p) % IdxMod
    /\ availIdx = (D + Len(in)) % IdxMod

QueueInv(q, r, lastUsed, in) ==
    \E D \in Nat, p \in Nat :
        /\ Indices(D, p, in, lastUsed, r.usedIdx, q.lastAvail, r.availIdx)
        /\ Windows(D, p, in, r.avail, r.used)

\* What the driver does to a queue when it takes its oldest chain back.
TakenBack(r, r2, lastUsed, in, in2) ==
    /\ \E a : r2.avail = [r.avail EXCEPT ![lastUsed % QueueSize] = a]
    /\ \E u : r2.used = [r.used EXCEPT ![lastUsed % QueueSize] = u]
    /\ r2.usedIdx = r.usedIdx /\ r2.availIdx = r.availIdx
    /\ Len(in2) = Len(in) - 1
    /\ \A k \in 1 .. Len(in2) : in2[k] = in[k + 1]

\* Both rings are functions on the slots of the queue.
RingShape(r) ==
    /\ r.avail = [i \in Slots |-> r.avail[i]]
    /\ r.used = [i \in Slots |-> r.used[i]]

Heads(in) == [k \in 1 .. Len(in) |-> in[k].head]

Chains == [head : Slots, slots : Seq(Slots)]

\* Chains in flight share no descriptor.
Apart(in) ==
    /\ in \in Seq(Chains)
    /\ \A k \in 1 .. Len(in) : in[k].head \in Range(in[k].slots)
    /\ \A j, k \in 1 .. Len(in) :
          j # k => Range(in[j].slots) \cap Range(in[k].slots) = {}

-----------------------------------------------------------------------------
(* Arithmetic of the indices.                                              *)

LEMMA ModIs ==
    ASSUME NEW m \in Nat \ {0}, NEW q \in Int, NEW r \in 0 .. m - 1
    PROVE  (m * q + r) % m = r
  OBVIOUS

LEMMA ModHas ==
    ASSUME NEW x \in Int, NEW m \in Nat \ {0}
    PROVE  \E q \in Int, r \in 0 .. m - 1 : x = m * q + r /\ x % m = r
  <1>1. x \div m \in Int
    OBVIOUS
  <1>2. x % m \in 0 .. m - 1
    OBVIOUS
  <1>3. x = m * (x \div m) + (x % m)
    OBVIOUS
  <1> QED
    BY <1>1, <1>2, <1>3, Zenon

\* An index that advances stays the count modulo m.
LEMMA ModStep ==
    ASSUME NEW x \in Nat, NEW m \in Nat \ {0}
    PROVE  ((x % m) + 1) % m = (x + 1) % m
  <1>0. x \in Int
    OBVIOUS
  <1>1. PICK q \in Int, r \in 0 .. m - 1 : x = m * q + r /\ x % m = r
    BY <1>0, ModHas, Zenon
  <1>2. CASE r + 1 = m
    <2>1. x + 1 = m * (q + 1) + 0 /\ r + 1 = m * 1 + 0 /\ 0 \in 0 .. m - 1
      BY <1>1, <1>2
    <2>2. (m * (q + 1) + 0) % m = 0 /\ (m * 1 + 0) % m = 0
      <3>1. q + 1 \in Int /\ 1 \in Int
        OBVIOUS
      <3> QED
        BY <2>1, <3>1, ModIs, Zenon
    <2> QED
      BY <1>1, <2>1, <2>2
  <1>3. CASE r + 1 # m
    <2>1. x + 1 = m * q + (r + 1) /\ r + 1 = m * 0 + (r + 1) /\ r + 1 \in 0 .. m - 1
      BY <1>1, <1>3
    <2>2. (m * q + (r + 1)) % m = r + 1 /\ (m * 0 + (r + 1)) % m = r + 1
      <3>1. 0 \in Int
        OBVIOUS
      <3> QED
        BY <2>1, <3>1, ModIs, Zenon
    <2> QED
      BY <1>1, <2>1, <2>2
  <1> QED
    BY <1>2, <1>3

\* The slot of an index is the slot of the count.
LEMMA ModSum ==
    ASSUME NEW x \in Nat, NEW i \in Nat
    PROVE  ((x % IdxMod) + i) % QueueSize = (x + i) % QueueSize
  <1>1. QueueSize \in Nat \ {0} /\ IdxMod \in Nat \ {0} /\ IdxMod % QueueSize = 0
    BY QueueAssumption
  <1>2. PICK c \in Int : IdxMod = QueueSize * c
    <2>1. PICK c \in Int, r \in 0 .. QueueSize - 1 :
              IdxMod = QueueSize * c + r /\ IdxMod % QueueSize = r
      BY <1>1, ModHas
    <2> QED
      BY <1>1, <2>1
  <1>3. PICK q \in Int, r \in 0 .. IdxMod - 1 : x = IdxMod * q + r /\ x % IdxMod = r
    <2>1. x \in Int
      OBVIOUS
    <2> QED
      BY <2>1, <1>1, ModHas, Zenon
  <1>4. PICK d \in Int, s \in 0 .. QueueSize - 1 :
            r + i = QueueSize * d + s /\ (r + i) % QueueSize = s
    <2>1. r + i \in Int
      BY <1>1
    <2> QED
      BY <2>1, <1>1, ModHas, Zenon
  <1>5. x + i = QueueSize * (c * q + d) + s
    BY <1>1, <1>2, <1>3, <1>4
  <1>6. (QueueSize * (c * q + d) + s) % QueueSize = s
    BY <1>1, ModIs
  <1> QED
    BY <1>3, <1>4, <1>5, <1>6

LEMMA ModSlot ==
    ASSUME NEW x \in Nat
    PROVE  (x % IdxMod) % QueueSize = x % QueueSize
  <1>1. ((x % IdxMod) + 0) % QueueSize = (x + 0) % QueueSize
    <2>1. 0 \in Nat
      OBVIOUS
    <2> QED
      BY <2>1, ModSum, Zenon
  <1>2. x % IdxMod \in Int /\ (x % IdxMod) + 0 = x % IdxMod /\ x + 0 = x
    BY QueueAssumption
  <1> QED
    BY <1>1, <1>2

\* Counts less than m apart have different indices.
LEMMA ModNear ==
    ASSUME NEW x \in Nat, NEW y \in Nat, NEW m \in Nat \ {0},
           x < y, y < x + m
    PROVE  x % m # y % m
  <1> SUFFICES ASSUME x % m = y % m PROVE FALSE
    OBVIOUS
  <1>0. x \in Int
    OBVIOUS
  <1>1. PICK q \in Int, r \in 0 .. m - 1 : x = m * q + r /\ x % m = r
    BY <1>0, ModHas, Zenon
  <1>2. PICK p \in Int, s \in 0 .. m - 1 : y = m * p + s /\ y % m = s
    <2>1. y \in Int
      OBVIOUS
    <2> QED
      BY <2>1, ModHas, Zenon
  <1>3. PICK t \in Int : t = p - q
    BY <1>1
  <1>4. y - x = m * t
    BY <1>1, <1>2, <1>3
  <1>5. CASE t <= 0
    <2>1. m * t <= 0
      BY <1>5
    <2> QED
      BY <2>1, <1>4
  <1>6. CASE t >= 1
    <2>1. m * t >= m
      BY <1>6
    <2> QED
      BY <2>1, <1>4
  <1> QED
    BY <1>3, <1>5, <1>6

\* The difference of two indices is the difference of the counts.
LEMMA ModApart ==
    ASSUME NEW x \in Nat, NEW n \in Nat, NEW m \in Nat \ {0}, n < m
    PROVE  (((x + n) % m) - (x % m)) % m = n
  <1>0. x \in Int
    OBVIOUS
  <1>1. PICK q \in Int, r \in 0 .. m - 1 : x = m * q + r /\ x % m = r
    BY <1>0, ModHas, Zenon
  <1>2. PICK p \in Int, s \in 0 .. m - 1 : x + n = m * p + s /\ (x + n) % m = s
    <2>1. x + n \in Int
      OBVIOUS
    <2> QED
      BY <2>1, ModHas, Zenon
  <1>3. s - r = m * (q - p) + n /\ q - p \in Int /\ n \in 0 .. m - 1
    BY <1>1, <1>2
  <1>4. (m * (q - p) + n) % m = n
    BY <1>3, ModIs
  <1> QED
    BY <1>1, <1>2, <1>3, <1>4

\* Two chains in flight never share a slot of a ring.
LEMMA SlotsDiffer ==
    ASSUME NEW D \in Nat, NEW j \in Nat, NEW k \in Nat,
           1 <= j, j < k, k - j < QueueSize
    PROVE  At(D, j) # At(D, k)
  <1>1. QueueSize \in Nat \ {0}
    BY QueueAssumption
  <1>2. D + j - 1 \in Nat /\ D + k - 1 \in Nat /\ D + j - 1 < D + k - 1
        /\ D + k - 1 < (D + j - 1) + QueueSize
    BY <1>1
  <1> QED
    BY <1>1, <1>2, ModNear DEF At

\* A function on 1 .. n is a sequence of length n.
LEMMA FunctionIsSeq ==
    ASSUME NEW S, NEW n \in Nat, NEW f \in [1 .. n -> S]
    PROVE  f \in Seq(S) /\ Len(f) = n
  <1>1. f \in Seq(S)
    BY SeqDef
  <1>2. Len(f) \in Nat /\ DOMAIN f = 1 .. Len(f) /\ DOMAIN f = 1 .. n
    BY <1>1, LenProperties
  <1>3. PICK m \in Nat : m = Len(f) /\ 1 .. m = 1 .. n
    BY <1>2
  <1>4. m = n
    <2>1. m <= n
      <3>1. m >= 1 => m \in 1 .. m
        OBVIOUS
      <3>2. m >= 1 => m \in 1 .. n
        BY <3>1, <1>3
      <3> QED
        BY <3>2
    <2>2. n <= m
      <3>1. n >= 1 => n \in 1 .. n
        OBVIOUS
      <3>2. n >= 1 => n \in 1 .. m
        BY <3>1, <1>3
      <3> QED
        BY <3>2
    <2> QED
      BY <2>1, <2>2
  <1> QED
    BY <1>1, <1>3, <1>4

\* A sequence cut in two.
LEMMA Concatenated ==
    ASSUME NEW p \in Nat, NEW m \in Nat, NEW H, NEW U, NEW W,
           U = [k \in 1 .. p |-> H[k]], W = [k \in 1 .. m |-> H[p + k]],
           H = [k \in 1 .. p + m |-> H[k]]
    PROVE  U \o W = H
  <1>1. PICK S : S = {H[k] : k \in 1 .. p + m}
    OBVIOUS
  <1>2. \A k \in 1 .. p : k \in 1 .. p + m
    OBVIOUS
  <1>3. \A k \in 1 .. m : p + k \in 1 .. p + m
    OBVIOUS
  <1>4. U \in [1 .. p -> S] /\ W \in [1 .. m -> S] /\ H \in [1 .. p + m -> S] /\ p + m \in Nat
    BY <1>1, <1>2, <1>3
  <1>5. U \in Seq(S) /\ Len(U) = p /\ W \in Seq(S) /\ Len(W) = m
        /\ H \in Seq(S) /\ Len(H) = p + m
    BY <1>4, FunctionIsSeq, Zenon
  <1>6. /\ U \o W \in Seq(S) /\ Len(U \o W) = p + m
        /\ \A i \in 1 .. p + m : (U \o W)[i] = IF i <= p THEN U[i] ELSE W[i - p]
    BY <1>5, ConcatProperties
  <1>7. ASSUME NEW i \in 1 .. p + m PROVE (U \o W)[i] = H[i]
    <2>1. CASE i <= p
      <3>1. i \in 1 .. p
        BY <2>1
      <3>2. U[i] = H[i]
        BY <3>1
      <3> QED
        BY <2>1, <3>2, <1>6
    <2>2. CASE ~(i <= p)
      <3>1. i - p \in 1 .. m /\ p + (i - p) = i
        BY <2>2
      <3>2. W[i - p] = H[i]
        BY <3>1
      <3> QED
        BY <2>2, <3>2, <1>6
    <2> QED
      BY <2>1, <2>2
  <1> QED
    BY <1>5, <1>6, <1>7, SeqEqual
-----------------------------------------------------------------------------
LEMMA AtInQueue ==
    ASSUME NEW D \in Nat, NEW k \in Nat, k >= 1
    PROVE  At(D, k) \in Slots
  <1>1. QueueSize \in Nat \ {0} /\ D + k - 1 \in Int
    BY QueueAssumption
  <1> QED
    BY <1>1 DEF At, Slots

\* The slot that an index points to.
LEMMA SlotOfIndex ==
    ASSUME NEW D \in Nat, NEW n \in Nat
    PROVE  ((D + n) % IdxMod) % QueueSize = At(D, n + 1)
  <1>1. D + n \in Nat /\ D + (n + 1) - 1 = D + n
    OBVIOUS
  <1> QED
    BY <1>1, ModSlot DEF At

-----------------------------------------------------------------------------
(* The free descriptors.                                                   *)

\* A set of numbers has a least one.
LEMMA Least0 ==
    ASSUME NEW T, T \subseteq Nat, T # {}
    PROVE  \E x \in T : \A y \in T : x <= y
  <1>1. PICK x \in T : \A y \in T : ~(<<y, x>> \in OpToRel(<, Nat))
    BY NatLessThanWellFounded, WFMin, Zenon
  <1>2. \A y \in T : ~(y < x)
    BY <1>1 DEF OpToRel
  <1> QED
    BY <1>2

\* Of n numbers in a set, the k-th from below exists.
LEMMA KthLowest ==
    ASSUME NEW S, S \subseteq Slots, NEW k \in Nat, k < Cardinality(S)
    PROVE  \E i \in S : Cardinality({j \in S : j < i}) = k
  <1> DEFINE Below(m) == {j \in S : j < m}
  <1>1. QueueSize \in Nat \ {0}
    BY QueueAssumption
  <1>2. IsFiniteSet(S) /\ Cardinality(S) \in Nat
    <2>1. IsFiniteSet(Slots)
      BY <1>1, FS_Interval DEF Slots
    <2> QED
      BY <2>1, FS_Subset, FS_CardinalityType
  <1>3. \A m \in Nat : IsFiniteSet(Below(m)) /\ Cardinality(Below(m)) \in Nat
    <2> SUFFICES ASSUME NEW m \in Nat
                 PROVE  IsFiniteSet(Below(m)) /\ Cardinality(Below(m)) \in Nat
      OBVIOUS
    <2>1. PICK B : B = Below(m)
      OBVIOUS
    <2>2. B \subseteq S
      BY <2>1
    <2>3. IsFiniteSet(B) /\ Cardinality(B) \in Nat
      BY <1>2, <2>2, FS_Subset, FS_CardinalityType
    <2> QED
      BY <2>1, <2>3
  <1> DEFINE T == {m \in Nat : Cardinality(Below(m)) > k}
  <1>4. QueueSize \in T
    <2>1. \A j \in S : j < QueueSize
      BY <1>1 DEF Slots
    <2>2. Below(QueueSize) = S
      BY <2>1
    <2> QED
      BY <1>1, <2>2
  <1>5. PICK m \in T : \A y \in T : m <= y
    <2>1. T \subseteq Nat /\ T # {}
      BY <1>4
    <2> HIDE DEF T
    <2> QED
      BY <2>1, Least0
  <1>6. m \in Nat /\ Cardinality(Below(m)) > k
    BY <1>5
  <1>7. m # 0
    <2> SUFFICES ASSUME m = 0 PROVE FALSE
      OBVIOUS
    <2>1. Below(m) = {}
      <3>1. \A j \in S : ~(j < 0)
        BY <1>1 DEF Slots
      <3> QED
        BY <3>1
    <2>2. Cardinality(Below(m)) = 0
      BY <2>1, FS_EmptySet
    <2> QED
      BY <1>6, <2>2
  <1>8. PICK i \in Nat : m = i + 1
    BY <1>6, <1>7
  <1>9. ~(Cardinality(Below(i)) > k)
    BY <1>5, <1>8
  <1>10. Below(m) = IF i \in S THEN Below(i) \cup {i} ELSE Below(i)
    <2>1. \A j \in S : j \in Nat
      BY <1>1 DEF Slots
    <2>2. \A j \in S : j < m <=> (j < i \/ j = i)
      BY <2>1, <1>8
    <2> QED
      BY <2>1, <2>2
  <1>11. i \in S
    BY <1>6, <1>9, <1>10
  <1>12. Cardinality(Below(m)) = Cardinality(Below(i)) + 1
    <2>1. i \notin Below(i)
      BY <1>8
    <2>2. PICK B : B = Below(i)
      OBVIOUS
    <2>3. IsFiniteSet(B) /\ i \notin B
      BY <1>3, <1>8, <2>1, <2>2
    <2>4. Cardinality(B \cup {i}) = Cardinality(B) + 1
      BY <2>3, FS_AddElement
    <2> QED
      BY <1>10, <1>11, <2>2, <2>4
  <1>13. Cardinality(Below(i)) = k
    <2>1. PICK c \in Nat : c = Cardinality(Below(i))
      BY <1>3, <1>8
    <2>2. c + 1 > k /\ ~(c > k)
      BY <1>6, <1>9, <1>12, <2>1
    <2> QED
      BY <2>1, <2>2
  <1> QED
    BY <1>11, <1>13

\* Chains that share no descriptor are no more than there are descriptors, and
\* fewer while one is free.
LEMMA RoomInQueue ==
    ASSUME NEW in, Apart(in)
    PROVE  /\ Len(in) \in Nat /\ Len(in) <= QueueSize
           /\ \A f \in Slots : (\A k \in 1 .. Len(in) : f \notin Range(in[k].slots))
                                    => Len(in) < QueueSize
  <1>1. QueueSize \in Nat \ {0} /\ Len(in) \in Nat
    BY QueueAssumption DEF Apart
  <1> DEFINE h == [k \in 1 .. Len(in) |-> in[k].head]
  <1>2. \A k \in 1 .. Len(in) : in[k] \in Chains
    BY DEF Apart
  <1>3. h \in [1 .. Len(in) -> Slots]
    BY <1>2 DEF Chains
  <1>4. \A j, k \in 1 .. Len(in) : j # k => h[j] # h[k]
    BY DEF Apart
  <1>5. IsFiniteSet(Slots) /\ Cardinality(Slots) = QueueSize
    BY <1>1, FS_Interval DEF Slots
  <1>6. IsFiniteSet(1 .. Len(in)) /\ Cardinality(1 .. Len(in)) = Len(in)
    <2>1. \A n \in Nat : IsFiniteSet(1 .. n) /\ Cardinality(1 .. n) = n
      BY FS_Interval
    <2> QED
      BY <1>1, <2>1
  <1>7. Len(in) <= QueueSize
    <2> HIDE DEF h
    <2>1. h \in Injection(1 .. Len(in), Slots)
      BY <1>3, <1>4 DEF Injection, IsInjective
    <2>2. Cardinality(1 .. Len(in)) <= Cardinality(Slots)
      BY <2>1, <1>5, FS_Injection
    <2> QED
      BY <2>2, <1>5, <1>6
  <1>8. ASSUME NEW f \in Slots, \A k \in 1 .. Len(in) : f \notin Range(in[k].slots)
        PROVE  Len(in) < QueueSize
    <2>1. \A k \in 1 .. Len(in) : h[k] # f
      BY <1>8 DEF Apart
    <2> HIDE DEF h
    <2>2. h \in Injection(1 .. Len(in), Slots \ {f})
      BY <2>1, <1>3, <1>4 DEF Injection, IsInjective
    <2>3. IsFiniteSet(Slots \ {f}) /\ Cardinality(Slots \ {f}) = QueueSize - 1
      BY <1>5, FS_RemoveElement
    <2>4. Cardinality(1 .. Len(in)) <= Cardinality(Slots \ {f})
      BY <2>2, <2>3, FS_Injection
    <2> QED
      BY <1>1, <2>3, <2>4, <1>6
  <1> QED
    BY <1>1, <1>7, <1>8

-----------------------------------------------------------------------------
(* What is done to a queue.                                                *)

\* Fresh rings.
LEMMA FreshQueue ==
    ASSUME NEW q, NEW r, NEW lastUsed,
           lastUsed = 0, r.usedIdx = 0, q.lastAvail = 0, r.availIdx = 0
    PROVE  QueueInv(q, r, lastUsed, << >>) /\ Apart(<< >>)
  <1>1. IdxMod \in Nat \ {0}
    BY QueueAssumption
  <1>2. 0 % IdxMod = 0 /\ 0 + 0 = 0 /\ 0 \in Nat /\ Len(<< >>) = 0
    BY <1>1
  <1>3. Indices(0, 0, << >>, lastUsed, r.usedIdx, q.lastAvail, r.availIdx)
    BY <1>2 DEF Indices
  <1>4. Windows(0, 0, << >>, r.avail, r.used)
    BY <1>2 DEF Windows
  <1>5. Apart(<< >>)
    BY DEF Apart
  <1> QED
    BY <1>2, <1>3, <1>4, <1>5 DEF QueueInv

\* The driver publishes a chain: its head goes to the slot of the old index.
LEMMA PublishKeeps ==
    ASSUME NEW q, NEW r, NEW r2, NEW lastUsed, NEW in, NEW c \in Chains,
           Apart(in), QueueInv(q, r, lastUsed, in), Len(in) < QueueSize,
           r.avail = [i \in Slots |-> r.avail[i]],
           r2.avail = [r.avail EXCEPT ![r.availIdx % QueueSize] = c.head],
           r2.availIdx = (r.availIdx + 1) % IdxMod,
           r2.used = r.used, r2.usedIdx = r.usedIdx
    PROVE  QueueInv(q, r2, lastUsed, Append(in, c))
  <1>1. QueueSize \in Nat \ {0} /\ IdxMod \in Nat \ {0}
    BY QueueAssumption
  <1>2. PICK D \in Nat, p \in Nat :
           /\ Indices(D, p, in, lastUsed, r.usedIdx, q.lastAvail, r.availIdx)
           /\ Windows(D, p, in, r.avail, r.used)
    BY DEF QueueInv
  <1>3. PICK n \in Nat : n = Len(in)
    BY DEF Apart
  <1>4. PICK in2 : in2 = Append(in, c)
    OBVIOUS
  <1>5. Len(in2) = n + 1 /\ in2[n + 1] = c /\ \A k \in 1 .. n : in2[k] = in[k]
    BY <1>3, <1>4 DEF Apart
  <1>6. r2.availIdx = (D + Len(in2)) % IdxMod
    <2>1. D + n \in Nat /\ D + Len(in2) = (D + n) + 1
      BY <1>5
    <2>2. r.availIdx = (D + n) % IdxMod
      BY <1>2, <1>3 DEF Indices
    <2> QED
      BY <1>1, <2>1, <2>2, ModStep
  <1>7. Indices(D, p, in2, lastUsed, r2.usedIdx, q.lastAvail, r2.availIdx)
    <2>1. p <= n /\ lastUsed = D % IdxMod /\ r.usedIdx = (D + p) % IdxMod
          /\ q.lastAvail = (D + p) % IdxMod
      BY <1>2, <1>3 DEF Indices
    <2> QED
      BY <1>5, <1>6, <2>1 DEF Indices
  <1>8. r.availIdx % QueueSize = At(D, n + 1)
    <2>1. r.availIdx = (D + n) % IdxMod
      BY <1>2, <1>3 DEF Indices
    <2> QED
      BY <2>1, SlotOfIndex
  <1>9. At(D, n + 1) \in Slots
    BY AtInQueue
  <1>10. ASSUME NEW k \in 1 .. n PROVE At(D, k) # At(D, n + 1) /\ At(D, k) \in Slots
    <2>1. k \in Nat /\ 1 <= k /\ k < n + 1 /\ (n + 1) - k < QueueSize
      BY <1>1, <1>3
    <2> QED
      BY <2>1, SlotsDiffer, AtInQueue
  <1>11. Windows(D, p, in2, r2.avail, r2.used)
    <2>1. ASSUME NEW k \in 1 .. n + 1
          PROVE  /\ k <= p => r2.used[At(D, k)].id = in2[k].head
                 /\ k > p => r2.avail[At(D, k)] = in2[k].head
      <3>1. CASE k = n + 1
        <4>1. p <= n
          BY <1>2, <1>3 DEF Indices
        <4>2. r2.avail[At(D, k)] = c.head
          BY <3>1, <1>8, <1>9
        <4> QED
          BY <3>1, <4>1, <4>2, <1>5
      <3>2. CASE k # n + 1
        <4>1. k \in 1 .. n
          BY <3>2
        <4>2. r2.avail[At(D, k)] = r.avail[At(D, k)]
          BY <4>1, <1>8, <1>10
        <4>3. /\ k <= p => r.used[At(D, k)].id = in[k].head
              /\ k > p => r.avail[At(D, k)] = in[k].head
          BY <4>1, <1>2, <1>3 DEF Windows
        <4> QED
          BY <4>1, <4>2, <4>3, <1>5
      <3> QED
        BY <3>1, <3>2
    <2> QED
      BY <2>1, <1>5 DEF Windows
  <1> QED
    BY <1>4, <1>7, <1>11 DEF QueueInv

\* The device serves the next chain: it finds the oldest head it has not
\* taken, and puts it into the slot of the used ring that is free.
LEMMA ServeKeeps ==
    ASSUME NEW q, NEW q2, NEW r, NEW r2, NEW lastUsed, NEW in, NEW u,
           Apart(in), QueueInv(q, r, lastUsed, in),
           q.lastAvail # r.availIdx,
           r.used = [i \in Slots |-> r.used[i]],
           u.id = r.avail[q.lastAvail % QueueSize],
           r2.used = [r.used EXCEPT ![r.usedIdx % QueueSize] = u],
           r2.usedIdx = (r.usedIdx + 1) % IdxMod,
           q2.lastAvail = (q.lastAvail + 1) % IdxMod,
           r2.avail = r.avail, r2.availIdx = r.availIdx
    PROVE  QueueInv(q2, r2, lastUsed, in)
  <1>1. QueueSize \in Nat \ {0} /\ IdxMod \in Nat \ {0}
    BY QueueAssumption
  <1>2. PICK D \in Nat, p \in Nat :
           /\ Indices(D, p, in, lastUsed, r.usedIdx, q.lastAvail, r.availIdx)
           /\ Windows(D, p, in, r.avail, r.used)
    BY DEF QueueInv
  <1>3. PICK n \in Nat : n = Len(in) /\ n <= QueueSize
    BY RoomInQueue
  <1>4. p + 1 <= n
    BY <1>2, <1>3 DEF Indices
  <1>5. q.lastAvail % QueueSize = At(D, p + 1) /\ r.usedIdx % QueueSize = At(D, p + 1)
    <2>1. q.lastAvail = (D + p) % IdxMod /\ r.usedIdx = (D + p) % IdxMod
      BY <1>2 DEF Indices
    <2> QED
      BY <2>1, SlotOfIndex
  <1>6. Indices(D, p + 1, in, lastUsed, r2.usedIdx, q2.lastAvail, r2.availIdx)
    <2>1. D + p \in Nat /\ D + (p + 1) = (D + p) + 1
      OBVIOUS
    <2>2. /\ lastUsed = D % IdxMod /\ r.usedIdx = (D + p) % IdxMod
          /\ q.lastAvail = (D + p) % IdxMod /\ r.availIdx = (D + Len(in)) % IdxMod
      BY <1>2 DEF Indices
    <2>3. (((D + p) % IdxMod) + 1) % IdxMod = ((D + p) + 1) % IdxMod
      BY <1>1, <2>1, ModStep
    <2> QED
      BY <1>3, <1>4, <2>1, <2>2, <2>3 DEF Indices
  <1>7. u.id = in[p + 1].head
    <2>1. p + 1 \in 1 .. Len(in) /\ p + 1 > p
      BY <1>3, <1>4
    <2> QED
      BY <1>2, <1>5, <2>1 DEF Windows
  <1>8. Windows(D, p + 1, in, r2.avail, r2.used)
    <2>1. ASSUME NEW k \in 1 .. n, k <= p + 1
          PROVE  r2.used[At(D, k)].id = in[k].head
      <3>1. CASE k = p + 1
        <4>1. At(D, k) \in Slots
          BY AtInQueue
        <4> QED
          BY <3>1, <4>1, <1>5, <1>7
      <3>2. CASE k # p + 1
        <4>1. k \in Nat /\ 1 <= k /\ k < p + 1 /\ (p + 1) - k < QueueSize
          BY <2>1, <3>2, <1>1, <1>3, <1>4
        <4>2. At(D, k) # At(D, p + 1) /\ At(D, k) \in Slots
          BY <4>1, SlotsDiffer, AtInQueue
        <4>3. r2.used[At(D, k)] = r.used[At(D, k)]
          BY <4>2, <1>5
        <4>4. r.used[At(D, k)].id = in[k].head
          <5>1. k \in 1 .. Len(in) /\ k <= p
            BY <4>1, <1>3
          <5> QED
            BY <5>1, <1>2 DEF Windows
        <4> QED
          BY <4>3, <4>4
      <3> QED
        BY <3>1, <3>2
    <2>2. ASSUME NEW k \in 1 .. n, k > p + 1
          PROVE  r2.avail[At(D, k)] = in[k].head
      BY <2>2, <1>2, <1>3 DEF Windows
    <2> QED
      BY <2>1, <2>2, <1>3 DEF Windows
  <1> QED
    BY <1>6, <1>8 DEF QueueInv

\* The oldest unseen completion is the oldest chain in flight.
LEMMA OldestFirst ==
    ASSUME NEW q, NEW r, NEW lastUsed, NEW in,
           Apart(in), QueueInv(q, r, lastUsed, in), lastUsed # r.usedIdx
    PROVE  /\ Len(in) \in Nat \ {0}
           /\ r.used[lastUsed % QueueSize].id = in[1].head
  <1>1. PICK D \in Nat, p \in Nat :
           /\ Indices(D, p, in, lastUsed, r.usedIdx, q.lastAvail, r.availIdx)
           /\ Windows(D, p, in, r.avail, r.used)
    BY DEF QueueInv
  <1>2. Len(in) \in Nat
    BY DEF Apart
  <1>3. p # 0
    BY <1>1 DEF Indices
  <1>4. 1 \in 1 .. Len(in) /\ 1 <= p
    BY <1>1, <1>2, <1>3 DEF Indices
  <1>5. r.used[At(D, 1)].id = in[1].head
    BY <1>1, <1>4 DEF Windows
  <1>6. lastUsed % QueueSize = At(D, 1)
    <2>1. lastUsed = (D + 0) % IdxMod /\ 0 \in Nat /\ 0 + 1 = 1
      BY <1>1 DEF Indices
    <2>2. ((D + 0) % IdxMod) % QueueSize = At(D, 0 + 1)
      BY <2>1, SlotOfIndex
    <2> QED
      BY <2>1, <2>2
  <1> QED
    BY <1>2, <1>4, <1>5, <1>6

\* The driver takes that chain back; the slot it had may be cleared.
LEMMA ReclaimKeeps ==
    ASSUME NEW q, NEW r, NEW r2, NEW lastUsed, NEW in, NEW in2 \in Seq(Chains),
           Apart(in), QueueInv(q, r, lastUsed, in), lastUsed # r.usedIdx,
           RingShape(r), TakenBack(r, r2, lastUsed, in, in2)
    PROVE  QueueInv(q, r2, (lastUsed + 1) % IdxMod, in2) /\ Apart(in2)
  <1>0. PICK a, u :
           /\ r.avail = [i \in Slots |-> r.avail[i]]
           /\ r.used = [i \in Slots |-> r.used[i]]
           /\ r2.avail = [r.avail EXCEPT ![lastUsed % QueueSize] = a]
           /\ r2.used = [r.used EXCEPT ![lastUsed % QueueSize] = u]
           /\ r2.usedIdx = r.usedIdx /\ r2.availIdx = r.availIdx
           /\ Len(in2) = Len(in) - 1
           /\ \A k \in 1 .. Len(in2) : in2[k] = in[k + 1]
    BY DEF RingShape, TakenBack
  <1>1. QueueSize \in Nat \ {0} /\ IdxMod \in Nat \ {0}
    BY QueueAssumption
  <1>2. PICK D \in Nat, p \in Nat :
           /\ Indices(D, p, in, lastUsed, r.usedIdx, q.lastAvail, r.availIdx)
           /\ Windows(D, p, in, r.avail, r.used)
    BY DEF QueueInv
  <1>3. PICK n \in Nat : Len(in) = n + 1 /\ n + 1 <= QueueSize /\ Len(in2) = n
    <2>1. Len(in) \in Nat \ {0} /\ Len(in) <= QueueSize
      BY OldestFirst, RoomInQueue
    <2> QED
      BY <1>0, <2>1
  <1>4. PICK o \in Nat : p = o + 1
    <2>1. p # 0
      BY <1>2 DEF Indices
    <2> QED
      BY <2>1
  <1>5. lastUsed % QueueSize = At(D, 1)
    <2>1. lastUsed = (D + 0) % IdxMod /\ 0 \in Nat /\ 0 + 1 = 1
      BY <1>2 DEF Indices
    <2>2. ((D + 0) % IdxMod) % QueueSize = At(D, 0 + 1)
      BY <2>1, SlotOfIndex
    <2> QED
      BY <2>1, <2>2
  <1>6. Indices(D + 1, o, in2, (lastUsed + 1) % IdxMod, r2.usedIdx, q.lastAvail, r2.availIdx)
    <2>1. /\ p <= n + 1 /\ lastUsed = D % IdxMod /\ r.usedIdx = (D + p) % IdxMod
          /\ q.lastAvail = (D + p) % IdxMod /\ r.availIdx = (D + (n + 1)) % IdxMod
      BY <1>2, <1>3 DEF Indices
    <2>2. D + p = (D + 1) + o /\ D + (n + 1) = (D + 1) + n /\ o <= n
      BY <1>4, <2>1
    <2>3. (lastUsed + 1) % IdxMod = (D + 1) % IdxMod
      BY <1>1, <2>1, ModStep
    <2> QED
      BY <1>0, <1>3, <2>1, <2>2, <2>3 DEF Indices
  <1>7. ASSUME NEW k \in 1 .. n
        PROVE  /\ At(D + 1, k) = At(D, k + 1)
               /\ At(D, k + 1) # At(D, 1) /\ At(D, k + 1) \in Slots
    <2>1. (D + 1) + k - 1 = D + (k + 1) - 1
      OBVIOUS
    <2>2. k + 1 \in Nat /\ 1 \in Nat /\ 1 < k + 1 /\ (k + 1) - 1 < QueueSize
      BY <1>1, <1>3
    <2>3. At(D, 1) # At(D, k + 1) /\ At(D, k + 1) \in Slots
      BY <2>2, SlotsDiffer, AtInQueue
    <2> QED
      BY <2>1, <2>3 DEF At
  <1>8. Windows(D + 1, o, in2, r2.avail, r2.used)
    <2>1. ASSUME NEW k \in 1 .. n
          PROVE  /\ k <= o => r2.used[At(D + 1, k)].id = in2[k].head
                 /\ k > o => r2.avail[At(D + 1, k)] = in2[k].head
      <3>1. /\ r2.used[At(D + 1, k)] = r.used[At(D, k + 1)]
            /\ r2.avail[At(D + 1, k)] = r.avail[At(D, k + 1)]
        BY <1>0, <1>5, <1>7
      <3>2. k + 1 \in 1 .. Len(in) /\ (k <= o <=> k + 1 <= p) /\ (k > o <=> k + 1 > p)
        BY <1>3, <1>4
      <3>3. /\ k + 1 <= p => r.used[At(D, k + 1)].id = in[k + 1].head
            /\ k + 1 > p => r.avail[At(D, k + 1)] = in[k + 1].head
        BY <3>2, <1>2 DEF Windows
      <3>4. in2[k] = in[k + 1]
        BY <1>0, <1>3
      <3> QED
        BY <3>1, <3>2, <3>3, <3>4
    <2> QED
      BY <2>1, <1>3 DEF Windows
  <1>9. Apart(in2)
    <2>1. ASSUME NEW k \in 1 .. n
          PROVE  k + 1 \in 1 .. Len(in) /\ in2[k] = in[k + 1]
      BY <1>0, <1>3
    <2>2. ASSUME NEW k \in 1 .. n PROVE in2[k].head \in Range(in2[k].slots)
      BY <2>1 DEF Apart
    <2>3. ASSUME NEW j \in 1 .. n, NEW k \in 1 .. n, j # k
          PROVE  Range(in2[j].slots) \cap Range(in2[k].slots) = {}
      <3>1. j + 1 # k + 1
        BY <2>3
      <3> QED
        BY <2>1, <3>1 DEF Apart
    <2> QED
      BY <1>3, <2>2, <2>3 DEF Apart
  <1>10. D + 1 \in Nat
    OBVIOUS
  <1> QED
    BY <1>6, <1>8, <1>9, <1>10 DEF QueueInv

\* The windows of the two rings, one after the other, are the chains in flight.
LEMMA WindowsAreInflight ==
    ASSUME NEW q, NEW r, NEW lastUsed, NEW in,
           Apart(in), QueueInv(q, r, lastUsed, in)
    PROVE  UsedIds(r, lastUsed) \o AvailWindow(q, r) = Heads(in)
  <1>1. QueueSize \in Nat \ {0} /\ IdxMod \in Nat \ {0} /\ IdxMod > QueueSize
    BY QueueAssumption
  <1>2. PICK D \in Nat, p \in Nat :
           /\ Indices(D, p, in, lastUsed, r.usedIdx, q.lastAvail, r.availIdx)
           /\ Windows(D, p, in, r.avail, r.used)
    BY DEF QueueInv
  <1>3. PICK n \in Nat : n = Len(in) /\ n <= QueueSize /\ p <= n
    BY <1>2, RoomInQueue DEF Indices
  <1>4. PICK m \in Nat : m = n - p
    <2>1. n - p \in Nat
      BY <1>3
    <2> QED
      BY <2>1
  <1>5. (r.usedIdx - lastUsed) % IdxMod = p
    <2>1. r.usedIdx = (D + p) % IdxMod /\ lastUsed = D % IdxMod /\ p < IdxMod
      BY <1>1, <1>2, <1>3 DEF Indices
    <2> QED
      BY <1>1, <2>1, ModApart
  <1>6. (r.availIdx - q.lastAvail) % IdxMod = m
    <2>1. /\ r.availIdx = ((D + p) + m) % IdxMod
          /\ q.lastAvail = (D + p) % IdxMod /\ m < IdxMod
      <3>1. D + Len(in) = (D + p) + m
        BY <1>3, <1>4
      <3> QED
        BY <1>1, <1>2, <1>3, <1>4, <3>1 DEF Indices
    <2>2. PICK x \in Nat : x = D + p
      OBVIOUS
    <2>3. (((x + m) % IdxMod) - (x % IdxMod)) % IdxMod = m
      BY <1>1, <2>1, ModApart
    <2> QED
      BY <2>1, <2>2, <2>3
  <1>7. ASSUME NEW k \in 1 .. n
        PROVE  /\ k <= p => (lastUsed + k - 1) % QueueSize = At(D, k)
               /\ k > p => (q.lastAvail + (k - p) - 1) % QueueSize = At(D, k)
    <2>1. ASSUME NEW x \in Nat, NEW i \in Nat
          PROVE  ((x % IdxMod) + i) % QueueSize = (x + i) % QueueSize
      BY <2>1, ModSum
    <2>2. CASE k <= p
      <3>1. lastUsed = D % IdxMod /\ k - 1 \in Nat /\ lastUsed \in Nat
        BY <1>1, <1>2 DEF Indices
      <3>2. (lastUsed + (k - 1)) % QueueSize = (D + (k - 1)) % QueueSize
        BY <2>1, <3>1
      <3>3. lastUsed + (k - 1) = lastUsed + k - 1 /\ D + (k - 1) = D + k - 1
        BY <3>1
      <3> QED
        BY <2>2, <3>2, <3>3 DEF At
    <2>3. CASE k > p
      <3>1. /\ q.lastAvail = (D + p) % IdxMod /\ (k - p) - 1 \in Nat
            /\ q.lastAvail \in Nat /\ D + p \in Nat
        BY <1>1, <1>2, <2>3 DEF Indices
      <3>2. (q.lastAvail + ((k - p) - 1)) % QueueSize = ((D + p) + ((k - p) - 1)) % QueueSize
        BY <2>1, <3>1
      <3>3. /\ q.lastAvail + ((k - p) - 1) = q.lastAvail + (k - p) - 1
            /\ (D + p) + ((k - p) - 1) = D + k - 1
        BY <3>1
      <3> QED
        BY <2>3, <3>2, <3>3 DEF At
    <2> QED
      BY <2>2, <2>3
  <1>8. PICK U : U = UsedIds(r, lastUsed)
    OBVIOUS
  <1>9. U = [k \in 1 .. p |-> r.used[(lastUsed + k - 1) % QueueSize].id]
    <2>1. PICK w : w = UsedWindow(r, lastUsed)
      OBVIOUS
    <2>2. w = [k \in 1 .. p |-> r.used[(lastUsed + k - 1) % QueueSize]]
      BY <2>1, <1>5 DEF UsedWindow
    <2>3. Len(w) = p
      BY <2>2
    <2>4. U = [k \in 1 .. p |-> w[k].id]
      BY <1>8, <2>1, <2>3 DEF UsedIds
    <2> QED
      BY <2>2, <2>4
  <1>10. PICK W : W = AvailWindow(q, r)
    OBVIOUS
  <1>11. W = [k \in 1 .. m |-> r.avail[(q.lastAvail + k - 1) % QueueSize]]
    BY <1>10, <1>6 DEF AvailWindow
  <1>12. PICK H : H = [k \in 1 .. n |-> in[k].head]
    OBVIOUS
  <1>13. ASSUME NEW k \in 1 .. p PROVE U[k] = H[k]
    <2>1. k \in 1 .. n /\ k <= p
      BY <1>3
    <2>2. r.used[At(D, k)].id = in[k].head
      BY <2>1, <1>2, <1>3 DEF Windows
    <2> QED
      BY <2>1, <2>2, <1>7, <1>9, <1>12
  <1>14. ASSUME NEW k \in 1 .. m PROVE W[k] = H[p + k]
    <2>1. p + k \in 1 .. n /\ p + k > p /\ (p + k) - p = k
      BY <1>3, <1>4
    <2>2. r.avail[At(D, p + k)] = in[p + k].head
      BY <2>1, <1>2, <1>3 DEF Windows
    <2>3. (q.lastAvail + k - 1) % QueueSize = At(D, p + k)
      BY <2>1, <1>7
    <2> QED
      BY <2>1, <2>2, <2>3, <1>11, <1>12
  <1>15. U \o W = H
    <2>1. U = [k \in 1 .. p |-> H[k]] /\ W = [k \in 1 .. m |-> H[p + k]]
      BY <1>9, <1>11, <1>13, <1>14
    <2>2. H = [k \in 1 .. n |-> H[k]] /\ n = p + m
      BY <1>12, <1>3, <1>4
    <2> QED
      BY <2>1, <2>2, Concatenated
  <1> QED
    BY <1>3, <1>8, <1>10, <1>12, <1>15 DEF Heads
=============================================================================

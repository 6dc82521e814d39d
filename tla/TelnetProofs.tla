---------------------------- MODULE TelnetProofs ----------------------------
(***************************************************************************)
(* The two halves of telnet.c.  The rings between the telnet thread and    *)
(* the emulator deliver in order for every size of the rings, every batch  *)
(* and every preemption; the filter hands the guest what the client meant, *)
(* and its answers stay bounded, for every size of its buffers.            *)
(***************************************************************************)
EXTENDS TelnetConsole, TelnetFilter, SequenceTheorems, TLAPS

(* The ring.                                                               *)

\* The remainders that a ring computes.
LEMMA Wraps ==
  ASSUME NEW m \in Nat \ {0}, NEW x \in Int
  PROVE  /\ x \in 0..(m - 1) => x % m = x
         /\ x \in m..(2 * m - 1) => x % m = x - m
         /\ x \in (-m)..(-1) => x % m = x + m
  OBVIOUS

\* The slot k places after slot i.
Slot(i, k, size) == IF i + k < size THEN i + k ELSE i + k - size

\* How far slot j is behind slot i.
Gap(i, j, size) == IF i <= j THEN j - i ELSE j - i + size

LEMMA SlotIs ==
  ASSUME NEW size \in Nat \ {0, 1}, NEW i \in 0..(size - 1), NEW k \in 0..size
  PROVE  (i + k) % size = Slot(i, k, size) /\ Slot(i, k, size) \in 0..(size - 1)
  <1>1. size \in Nat \ {0} /\ i + k \in Int
    OBVIOUS
  <1>2. i + k \in 0..(size - 1) \/ i + k \in size..(2 * size - 1)
    OBVIOUS
  <1>3. /\ i + k \in 0..(size - 1) => (i + k) % size = i + k
        /\ i + k \in size..(2 * size - 1) => (i + k) % size = i + k - size
    BY <1>1, Wraps
  <1> QED
    BY <1>2, <1>3 DEF Slot

LEMMA GapIs ==
  ASSUME NEW size \in Nat \ {0, 1}, NEW i \in 0..(size - 1), NEW j \in 0..(size - 1)
  PROVE  (j - i) % size = Gap(i, j, size) /\ Gap(i, j, size) \in 0..(size - 1)
  <1>1. size \in Nat \ {0} /\ j - i \in Int
    OBVIOUS
  <1>2. j - i \in 0..(size - 1) \/ j - i \in (-size)..(-1)
    OBVIOUS
  <1>3. /\ j - i \in 0..(size - 1) => (j - i) % size = j - i
        /\ j - i \in (-size)..(-1) => (j - i) % size = j - i + size
    BY <1>1, Wraps
  <1> QED
    BY <1>2, <1>3 DEF Gap

LEMMA SlotLater ==
  ASSUME NEW size \in Nat \ {0, 1}, NEW i \in 0..(size - 1), NEW a \in Nat,
         NEW b \in Nat, a + b < size
  PROVE  Slot(Slot(i, a, size), b, size) = Slot(i, a + b, size)
  BY DEF Slot

LEMMA SlotOfGap ==
  ASSUME NEW size \in Nat \ {0, 1}, NEW i \in 0..(size - 1), NEW j \in 0..(size - 1)
  PROVE  Slot(i, Gap(i, j, size), size) = j
  BY DEF Slot, Gap

LEMMA GapOfSlot ==
  ASSUME NEW size \in Nat \ {0, 1}, NEW i \in 0..(size - 1), NEW k \in 0..(size - 1)
  PROVE  Gap(i, Slot(i, k, size), size) = k
  BY DEF Slot, Gap

LEMMA GapLess ==
  ASSUME NEW size \in Nat \ {0, 1}, NEW i \in 0..(size - 1), NEW j \in 0..(size - 1),
         NEW n \in 0..Gap(i, j, size)
  PROVE  Gap(Slot(i, n, size), j, size) = Gap(i, j, size) - n
  BY DEF Slot, Gap

LEMMA GapMore ==
  ASSUME NEW size \in Nat \ {0, 1}, NEW i \in 0..(size - 1), NEW j \in 0..(size - 1),
         NEW m \in Nat, m <= size - 1 - Gap(i, j, size)
  PROVE  Gap(i, Slot(j, m, size), size) = Gap(i, j, size) + m
  BY DEF Slot, Gap

LEMMA FirstOf ==
  ASSUME NEW S, NEW s \in Seq(S), Len(s) >= 1
  PROVE  SubSeq(s, 1, 1) = << s[1] >>
  <1>1. 1 \in 1..Len(s) + 1 /\ 1 \in 0..Len(s) /\ s[1] \in S
    OBVIOUS
  <1>2. /\ SubSeq(s, 1, 1) \in Seq(S) /\ Len(SubSeq(s, 1, 1)) = 1
        /\ SubSeq(s, 1, 1)[1] = s[1]
    BY <1>1, SubSeqProperties, SMT
  <1>3. << s[1] >> \in Seq(S) /\ Len(<< s[1] >>) = 1 /\ << s[1] >>[1] = s[1]
    BY <1>1
  <1>4. \A k \in 1..1 : SubSeq(s, 1, 1)[k] = << s[1] >>[k]
    BY <1>2, <1>3
  <1> QED
    BY <1>2, <1>3, <1>4, SeqEqual

LEMMA MovedOver ==
  ASSUME NEW S, NEW a \in Seq(S), NEW d \in Seq(S), NEW x \in S
  PROVE  a \o (<< x >> \o d) = Append(a, x) \o d
  <1>1. << x >> \in Seq(S) /\ Append(a, x) = a \o << x >>
    OBVIOUS
  <1>2. a \o (<< x >> \o d) = (a \o << x >>) \o d
    BY <1>1, ConcatAssociative
  <1> QED
    BY <1>1, <1>2

LEMMA Joined ==
  ASSUME NEW S, NEW a \in Seq(S), NEW b \in Seq(S), NEW m \in Nat, NEW n \in Nat,
         Len(a) = m, Len(b) = n
  PROVE  /\ a \o b \in Seq(S) /\ Len(a \o b) = m + n
         /\ \A k \in 1..m : (a \o b)[k] = a[k]
         /\ \A k \in 1..n : (a \o b)[m + k] = b[k]
  OBVIOUS

\* What a ring holds whose indices are h and t.
Window(h, t, b, size) == [k \in 1..Gap(h, t, size) |-> b[Slot(h, k - 1, size)]]

\* The n bytes of w are those of b from slot h on.
Holds(S, w, n, h, b, size) ==
  w \in Seq(S) /\ Len(w) = n /\ \A k \in 1..n : w[k] = b[Slot(h, k - 1, size)]

LEMMA Held ==
  ASSUME NEW S, NEW size \in Nat \ {0, 1}, NEW h \in 0..(size - 1),
         NEW t \in 0..(size - 1), NEW b \in [0..(size - 1) -> S]
  PROVE  Holds(S, Window(h, t, b, size), Gap(h, t, size), h, b, size)
  <1>0. PICK c \in 0..(size - 1) : c = Gap(h, t, size)
    BY GapIs, Zenon
  <1>2. ASSUME NEW k \in 1..c PROVE b[Slot(h, k - 1, size)] \in S
    <2>1. k - 1 \in 0..size
      BY <1>0
    <2> QED
      BY <2>1, SlotIs
  <1>3. PICK w : w = [k \in 1..c |-> b[Slot(h, k - 1, size)]]
    OBVIOUS
  <1>4. w \in Seq(S) /\ Len(w) = c /\ \A k \in 1..c : w[k] = b[Slot(h, k - 1, size)]
    BY <1>0, <1>2, <1>3
  <1>5. w = Window(h, t, b, size)
    BY <1>0, <1>3 DEF Window
  <1> QED
    BY <1>0, <1>4, <1>5, Zenon DEF Holds

\* Advancing h by n takes the first n bytes out.
Advanced(h, h2, t, b, n, size) ==
  /\ h2 \in 0..(size - 1) /\ Gap(h2, t, size) = Gap(h, t, size) - n
  /\ Window(h, t, b, size)
       = SubSeq(Window(h, t, b, size), 1, n) \o Window(h2, t, b, size)

LEMMA TakenOut ==
  ASSUME NEW S, NEW size \in Nat \ {0, 1}, NEW h \in 0..(size - 1),
         NEW t \in 0..(size - 1), NEW b \in [0..(size - 1) -> S],
         NEW n, n \in 0..Gap(h, t, size), NEW h2, h2 = Slot(h, n, size)
  PROVE  Advanced(h, h2, t, b, n, size)
  <1> DEFINE C == Window(h, t, b, size)
             C2 == Window(h2, t, b, size)
  <1>0. PICK c \in 0..(size - 1) : c = Gap(h, t, size)
    BY GapIs, Zenon
  <1>1. /\ C \in Seq(S) /\ Len(C) = c
        /\ \A k \in 1..c : C[k] = b[Slot(h, k - 1, size)]
    <2>1. Holds(S, C, Gap(h, t, size), h, b, size)
      BY Held
    <2> QED
      BY <1>0, <2>1 DEF Holds
  <1>2. n \in 0..c /\ n \in 0..size /\ n \in Nat /\ c - n \in Nat /\ n + (c - n) = c
    BY <1>0
  <1>3. h2 \in 0..(size - 1)
    BY <1>2, SlotIs
  <1>4. Gap(h2, t, size) = c - n
    BY <1>0, <1>2, GapLess
  <1>5. /\ C2 \in Seq(S) /\ Len(C2) = c - n
        /\ \A k \in 1..(c - n) : C2[k] = b[Slot(h2, k - 1, size)]
    <2>1. Holds(S, C2, Gap(h2, t, size), h2, b, size)
      BY <1>3, Held
    <2> QED
      BY <1>4, <2>1 DEF Holds
  <1>6. ASSUME NEW k \in 1..(c - n)
        PROVE  Slot(h2, k - 1, size) = Slot(h, n + k - 1, size)
    <2>1. k - 1 \in Nat /\ n + (k - 1) < size /\ n + (k - 1) = n + k - 1
      BY <1>2
    <2> QED
      BY <1>2, <2>1, SlotLater
  <1> HIDE DEF C, C2
  <1>7. /\ SubSeq(C, 1, n) \in Seq(S) /\ Len(SubSeq(C, 1, n)) = n
        /\ \A k \in 1..n : SubSeq(C, 1, n)[k] = C[k]
    BY <1>1, <1>2, SubSeqProperties, SMT
  <1>8. PICK A \in Seq(S) : A = SubSeq(C, 1, n)
    BY <1>7
  <1>9. /\ A \o C2 \in Seq(S) /\ Len(A \o C2) = c
        /\ \A k \in 1..n : (A \o C2)[k] = A[k]
        /\ \A k \in 1..(c - n) : (A \o C2)[n + k] = C2[k]
    BY <1>2, <1>5, <1>7, <1>8, Joined
  <1>10. ASSUME NEW k \in 1..c
         PROVE  C[k] = (A \o C2)[k]
    <2>1. CASE k <= n
      BY <1>2, <1>7, <1>8, <1>9, <2>1
    <2>2. CASE k > n
      <3>1. PICK j \in 1..(c - n) : k = n + j
        <4>1. k - n \in 1..(c - n) /\ k = n + (k - n)
          BY <1>2, <2>2
        <4> QED
          BY <4>1
      <3>2. C2[j] = b[Slot(h, k - 1, size)]
        BY <1>5, <1>6, <3>1
      <3> QED
        BY <1>1, <1>9, <3>1, <3>2
    <2> QED
      BY <1>2, <2>1, <2>2
  <1>11. C = A \o C2
    BY <1>1, <1>9, <1>10, SeqEqual
  <1> QED
    BY <1>0, <1>3, <1>4, <1>8, <1>11 DEF C, C2, Advanced

\* Writing m bytes behind t, and t itself, puts them in.
Written(h, t, t2, b, b2, bs, m, size) ==
  /\ m \in 0..Len(bs) /\ m <= size - 1 - Gap(h, t, size) /\ t2 = Slot(t, m, size)
  /\ \A k \in 1..m : b2[Slot(t, k - 1, size)] = bs[k]
  /\ \A k \in 1..Gap(h, t, size) :
        b2[Slot(h, k - 1, size)] = b[Slot(h, k - 1, size)]

Extended(h, t, t2, b, b2, bs, m, size) ==
  /\ t2 \in 0..(size - 1) /\ Gap(h, t2, size) = Gap(h, t, size) + m
  /\ Window(h, t2, b2, size) = Window(h, t, b, size) \o SubSeq(bs, 1, m)

LEMMA PutIn ==
  ASSUME NEW S, NEW size \in Nat \ {0, 1}, NEW h \in 0..(size - 1),
         NEW t \in 0..(size - 1), NEW b \in [0..(size - 1) -> S],
         NEW b2 \in [0..(size - 1) -> S], NEW bs \in Seq(S),
         NEW m, NEW t2, Written(h, t, t2, b, b2, bs, m, size)
  PROVE  Extended(h, t, t2, b, b2, bs, m, size)
  <1> DEFINE C == Window(h, t, b, size)
             C2 == Window(h, t2, b2, size)
  <1>0. PICK c \in 0..(size - 1) : c = Gap(h, t, size)
    BY GapIs, Zenon
  <1>1. /\ C \in Seq(S) /\ Len(C) = c
        /\ \A k \in 1..c : C[k] = b[Slot(h, k - 1, size)]
    <2>1. Holds(S, C, Gap(h, t, size), h, b, size)
      BY Held
    <2> QED
      BY <1>0, <2>1 DEF Holds
  <1>w. m \in 0..Len(bs) /\ m <= size - 1 - c /\ t2 = Slot(t, m, size)
        /\ (\A k \in 1..m : b2[Slot(t, k - 1, size)] = bs[k])
        /\ (\A k \in 1..c : b2[Slot(h, k - 1, size)] = b[Slot(h, k - 1, size)])
    BY <1>0 DEF Written
  <1>2. m \in Nat /\ c \in Nat /\ m \in 0..size /\ m <= size - 1 - c /\ c + m < size
    BY <1>0, <1>w
  <1>3. t2 \in 0..(size - 1)
    BY <1>2, <1>w, SlotIs
  <1>4. Gap(h, t2, size) = c + m
    BY <1>0, <1>2, <1>w, GapMore
  <1>5. /\ C2 \in Seq(S) /\ Len(C2) = c + m
        /\ \A k \in 1..(c + m) : C2[k] = b2[Slot(h, k - 1, size)]
    <2>1. Holds(S, C2, Gap(h, t2, size), h, b2, size)
      BY <1>3, Held
    <2> QED
      BY <1>4, <2>1 DEF Holds
  <1>6. Slot(h, c, size) = t
    BY <1>0, SlotOfGap
  <1>7. ASSUME NEW k \in 1..m
        PROVE  Slot(h, c + k - 1, size) = Slot(t, k - 1, size)
    <2>1. k - 1 \in Nat /\ c + (k - 1) < size /\ c + (k - 1) = c + k - 1
      BY <1>2
    <2> QED
      BY <1>2, <1>6, <2>1, SlotLater
  <1> HIDE DEF C, C2
  <1>8. /\ SubSeq(bs, 1, m) \in Seq(S) /\ Len(SubSeq(bs, 1, m)) = m
        /\ \A k \in 1..m : SubSeq(bs, 1, m)[k] = bs[k]
    BY <1>w, SubSeqProperties, SMT
  <1>9. PICK A \in Seq(S) : A = SubSeq(bs, 1, m)
    BY <1>8
  <1>10. /\ C \o A \in Seq(S) /\ Len(C \o A) = c + m
         /\ \A k \in 1..c : (C \o A)[k] = C[k]
         /\ \A k \in 1..m : (C \o A)[c + k] = A[k]
    <2>1. Len(C) = c /\ Len(A) = m
      BY <1>1, <1>8, <1>9
    <2>2. C \o A \in Seq(S) /\ Len(C \o A) = c + m
      <3>1. C \in Seq(S) /\ A \in Seq(S)
        BY <1>1
      <3>2. C \o A \in Seq(S) /\ Len(C \o A) = Len(C) + Len(A)
        BY <3>1, ConcatProperties, Zenon
      <3> QED
        BY <2>1, <3>2, Zenon
    <2>3. ASSUME NEW k \in 1..c PROVE (C \o A)[k] = C[k]
      BY <1>1, <1>2, <2>1
    <2>4. ASSUME NEW k \in 1..m PROVE (C \o A)[c + k] = A[k]
      BY <1>1, <1>2, <2>1
    <2> QED
      BY <2>2, <2>3, <2>4
  <1>11. ASSUME NEW k \in 1..(c + m)
         PROVE  C2[k] = (C \o A)[k]
    <2>1. CASE k <= c
      <3>1. k \in 1..c
        BY <1>2, <2>1
      <3>2. b2[Slot(h, k - 1, size)] = b[Slot(h, k - 1, size)]
        BY <1>w, <3>1
      <3> QED
        BY <1>1, <1>5, <1>10, <3>1, <3>2
    <2>2. CASE k > c
      <3>1. PICK j \in 1..m : k = c + j
        <4>1. k - c \in 1..m /\ k = c + (k - c)
          BY <1>2, <2>2
        <4> QED
          BY <4>1
      <3>2. C2[k] = b2[Slot(t, j - 1, size)]
        <4>1. C2[k] = b2[Slot(h, c + j - 1, size)]
          BY <1>5, <3>1
        <4> QED
          BY <1>7, <4>1
      <3> QED
        BY <1>w, <1>8, <1>9, <1>10, <3>1, <3>2
    <2>3. k \in Int
      BY <1>2
    <2>4. k <= c \/ k > c
      BY <1>2, <2>3
    <2> QED
      BY <2>1, <2>2, <2>4
  <1>12. C2 = C \o A
    BY <1>5, <1>10, <1>11, SeqEqual
  <1> QED
    BY <1>0, <1>3, <1>4, <1>9, <1>12 DEF C, C2, Extended
-----------------------------------------------------------------------------
(* struct spsc.                                                            *)

\* Count, Contents and Full in terms of the two indices.
View(r, h, t, size) ==
  /\ Count(r, size) = Gap(h, t, size)
  /\ Contents(r, size) = Window(h, t, r.buf, size)
  /\ Full(r, size) <=> Gap(h, t, size) = size - 1
  /\ Gap(h, t, size) = 0 <=> h = t

LEMMA RingView ==
  ASSUME NEW size \in Nat \ {0, 1}, NEW r, NEW h \in 0..(size - 1),
         NEW t \in 0..(size - 1), r.head = h, r.tail = t
  PROVE  View(r, h, t, size)
  <1>1. Count(r, size) = Gap(h, t, size) /\ Gap(h, t, size) \in 0..(size - 1)
    BY GapIs DEF Count
  <1>2. ASSUME NEW k \in 1..Gap(h, t, size)
        PROVE  (h + k - 1) % size = Slot(h, k - 1, size)
    <2>1. k - 1 \in 0..size /\ h + (k - 1) = h + k - 1
      BY <1>1
    <2> QED
      BY <2>1, SlotIs
  <1>3. Contents(r, size) = Window(h, t, r.buf, size)
    <2>1. Contents(r, size) = [k \in 1..Gap(h, t, size) |-> r.buf[(h + k - 1) % size]]
      BY <1>1 DEF Contents
    <2> QED
      BY <1>2, <2>1 DEF Window
  <1>4. (t + 1) % size = Slot(t, 1, size)
    <2>1. 1 \in 0..size
      OBVIOUS
    <2> QED
      BY <2>1, SlotIs
  <1>5. (Slot(t, 1, size) = h <=> Gap(h, t, size) = size - 1)
        /\ (Gap(h, t, size) = 0 <=> h = t)
    BY DEF Slot, Gap
  <1> QED
    BY <1>1, <1>3, <1>4, <1>5 DEF Full, View

\* The indices and the array of a ring.
LEMMA RingParts ==
  ASSUME NEW size \in Nat \ {0, 1}, NEW r \in Ring(size)
  PROVE  /\ r = [head |-> r.head, tail |-> r.tail, buf |-> r.buf]
         /\ r.head \in 0..(size - 1) /\ r.tail \in 0..(size - 1)
         /\ r.buf \in [0..(size - 1) -> Ids]
  BY DEF Ring

LEMMA RingMade ==
  ASSUME NEW size \in Nat \ {0, 1}, NEW h \in 0..(size - 1), NEW t \in 0..(size - 1),
         NEW b \in [0..(size - 1) -> Ids],
         NEW r, r = [head |-> h, tail |-> t, buf |-> b]
  PROVE  r \in Ring(size) /\ r.head = h /\ r.tail = t /\ r.buf = b
  BY DEF Ring

LEMMA RingHolds ==
  ASSUME NEW size \in Nat \ {0, 1}, NEW r \in Ring(size)
  PROVE  /\ Contents(r, size) \in Seq(Ids)
         /\ Len(Contents(r, size)) = Count(r, size)
         /\ Count(r, size) \in 0..(size - 1)
         /\ Count(r, size) = 0 <=> r.head = r.tail
         /\ Full(r, size) <=> Count(r, size) = size - 1
         /\ r.head # r.tail => Contents(r, size)[1] = r.buf[r.head]
  <1>1. PICK h \in 0..(size - 1), t \in 0..(size - 1), b \in [0..(size - 1) -> Ids] :
            r.head = h /\ r.tail = t /\ r.buf = b
    BY RingParts, Zenon
  <1>2. Holds(Ids, Window(h, t, b, size), Gap(h, t, size), h, b, size)
    BY Held
  <1>3. Count(r, size) = Gap(h, t, size) /\ Contents(r, size) = Window(h, t, b, size)
        /\ (Full(r, size) <=> Gap(h, t, size) = size - 1)
        /\ (Gap(h, t, size) = 0 <=> h = t)
    BY <1>1, RingView DEF View
  <1>4. Gap(h, t, size) \in 0..(size - 1)
    BY GapIs
  <1>5. h # t => Window(h, t, b, size)[1] = b[h]
    <2>1. Slot(h, 1 - 1, size) = h
      BY DEF Slot
    <2>2. h # t => 1 \in 1..Gap(h, t, size)
      BY <1>3, <1>4
    <2> QED
      BY <1>2, <2>1, <2>2 DEF Holds
  <1> QED
    BY <1>1, <1>2, <1>3, <1>4, <1>5, Zenon DEF Holds

\* spsc_get() of n bytes.
Got(r, r2, n, size) ==
  /\ r2 \in Ring(size) /\ r2.tail = r.tail /\ r2.buf = r.buf
  /\ Count(r2, size) = Count(r, size) - n
  /\ Contents(r, size) = SubSeq(Contents(r, size), 1, n) \o Contents(r2, size)

LEMMA GetKeeps ==
  ASSUME NEW size \in Nat \ {0, 1}, NEW r \in Ring(size),
         NEW n \in 0..Count(r, size),
         NEW r2, r2 = [r EXCEPT !.head = (r.head + n) % size]
  PROVE  Got(r, r2, n, size)
  <1>1. PICK h \in 0..(size - 1), t \in 0..(size - 1), b \in [0..(size - 1) -> Ids] :
            r = [head |-> h, tail |-> t, buf |-> b]
    BY RingParts, Zenon
  <1>2. r.head = h /\ r.tail = t /\ r.buf = b
    BY <1>1, RingMade, Zenon
  <1>3. Count(r, size) = Gap(h, t, size) /\ Contents(r, size) = Window(h, t, b, size)
    BY <1>2, RingView DEF View
  <1>4. n \in 0..size /\ n \in 0..Gap(h, t, size)
    BY <1>3, GapIs
  <1>5. PICK h2 \in 0..(size - 1) : h2 = Slot(h, n, size) /\ h2 = (h + n) % size
    BY <1>4, SlotIs, Zenon
  <1>6. /\ Gap(h2, t, size) = Gap(h, t, size) - n
        /\ Window(h, t, b, size) = SubSeq(Window(h, t, b, size), 1, n) \o Window(h2, t, b, size)
    <2>1. Advanced(h, h2, t, b, n, size)
      BY <1>4, <1>5, TakenOut, Zenon
    <2> QED
      BY <2>1 DEF Advanced
  <1>7. r2 = [head |-> h2, tail |-> t, buf |-> b]
    BY <1>1, <1>2, <1>5
  <1>8. r2 \in Ring(size) /\ r2.head = h2 /\ r2.tail = t /\ r2.buf = b
    BY <1>7 DEF Ring
  <1>9. Count(r2, size) = Gap(h2, t, size) /\ Contents(r2, size) = Window(h2, t, b, size)
    <2>1. View(r2, h2, t, size)
      BY <1>8, RingView
    <2> QED
      BY <1>8, <2>1 DEF View
  <1> QED
    BY <1>2, <1>3, <1>6, <1>8, <1>9, Zenon DEF Got

\* The slot that an spsc_put() writes is not one of those that hold a byte.
Stored(r, r2, x, size) ==
  /\ r2 \in Ring(size) /\ r2.head = r.head /\ r2.tail = r.tail
  /\ r2.buf[r.tail] = x
  /\ Contents(r2, size) = Contents(r, size)
  /\ Full(r2, size) <=> Full(r, size)

LEMMA StoreKeeps ==
  ASSUME NEW size \in Nat \ {0, 1}, NEW r \in Ring(size), NEW x \in Ids,
         NEW r2, r2 = [r EXCEPT !.buf[r.tail] = x]
  PROVE  Stored(r, r2, x, size)
  <1>1. PICK h \in 0..(size - 1), t \in 0..(size - 1), b \in [0..(size - 1) -> Ids] :
            r = [head |-> h, tail |-> t, buf |-> b]
    BY RingParts, Zenon
  <1>2. r.head = h /\ r.tail = t /\ r.buf = b
    BY <1>1, RingMade, Zenon
  <1>3. PICK b2 \in [0..(size - 1) -> Ids] : b2 = [b EXCEPT ![t] = x]
    OBVIOUS
  <1>4. r2 = [head |-> h, tail |-> t, buf |-> b2]
    BY <1>1, <1>2, <1>3
  <1>5. r2 \in Ring(size) /\ r2.head = h /\ r2.tail = t /\ r2.buf = b2
    BY <1>4 DEF Ring
  <1>6. /\ Contents(r, size) = Window(h, t, b, size)
        /\ Contents(r2, size) = Window(h, t, b2, size)
        /\ Full(r, size) <=> Gap(h, t, size) = size - 1
        /\ Full(r2, size) <=> Gap(h, t, size) = size - 1
    <2>1. View(r, h, t, size)
      BY <1>2, RingView
    <2>2. View(r2, h, t, size)
      BY <1>5, RingView
    <2> QED
      BY <1>2, <1>5, <2>1, <2>2 DEF View
  <1>7. ASSUME NEW k \in 1..Gap(h, t, size)
        PROVE  b2[Slot(h, k - 1, size)] = b[Slot(h, k - 1, size)]
    <2>1. Slot(h, k - 1, size) # t /\ Slot(h, k - 1, size) \in 0..(size - 1)
      BY DEF Slot, Gap
    <2> QED
      BY <1>3, <2>1
  <1>8. Window(h, t, b2, size) = Window(h, t, b, size)
    BY <1>7 DEF Window
  <1> QED
    BY <1>2, <1>3, <1>5, <1>6, <1>8 DEF Stored

\* Moving the tail over a slot puts its byte in.
LEMMA PublishKeeps ==
  ASSUME NEW size \in Nat \ {0, 1}, NEW r \in Ring(size), ~Full(r, size),
         NEW r2, r2 = [r EXCEPT !.tail = (r.tail + 1) % size]
  PROVE  /\ r2 \in Ring(size) /\ r2.head = r.head /\ r2.buf = r.buf
         /\ Contents(r2, size) = Append(Contents(r, size), r.buf[r.tail])
  <1>1. PICK h \in 0..(size - 1), t \in 0..(size - 1), b \in [0..(size - 1) -> Ids] :
            r = [head |-> h, tail |-> t, buf |-> b]
    BY RingParts, Zenon
  <1>2. r.head = h /\ r.tail = t /\ r.buf = b
    BY <1>1, RingMade, Zenon
  <1>3. PICK t2 \in 0..(size - 1) : t2 = Slot(t, 1, size) /\ t2 = (t + 1) % size
    <2>1. 1 \in 0..size
      OBVIOUS
    <2> QED
      BY <2>1, SlotIs, Zenon
  <1>4. r2 = [head |-> h, tail |-> t2, buf |-> b]
    BY <1>1, <1>2, <1>3
  <1>5. r2 \in Ring(size) /\ r2.head = h /\ r2.tail = t2 /\ r2.buf = b
    BY <1>4 DEF Ring
  <1>6. /\ Contents(r, size) = Window(h, t, b, size)
        /\ Contents(r2, size) = Window(h, t2, b, size)
        /\ Gap(h, t, size) # size - 1
    <2>1. View(r, h, t, size)
      BY <1>2, RingView
    <2>2. View(r2, h, t2, size)
      BY <1>5, RingView
    <2> QED
      BY <1>2, <1>5, <2>1, <2>2 DEF View
  <1>7. PICK bs \in Seq(Ids) : bs = << b[t] >>
    <2>1. b[t] \in Ids
      OBVIOUS
    <2> QED
      BY <2>1
  <1>8. Len(bs) = 1 /\ bs[1] = b[t]
    BY <1>7
  <1>9. Window(h, t2, b, size) = Window(h, t, b, size) \o SubSeq(bs, 1, 1)
    <2>1. 1 \in 0..Len(bs) /\ 1 <= size - 1 - Gap(h, t, size)
      BY <1>6, <1>8, GapIs
    <2>2. \A k \in 1..1 : b[Slot(t, k - 1, size)] = bs[k]
      BY <1>8 DEF Slot
    <2> QED
      <3>1. Written(h, t, t2, b, b, bs, 1, size)
        BY <1>3, <2>1, <2>2 DEF Written
      <3>2. Extended(h, t, t2, b, b, bs, 1, size)
        BY <3>1, PutIn, Zenon
      <3> QED
        BY <3>2 DEF Extended
  <1>10. SubSeq(bs, 1, 1) = << b[t] >>
    <2>1. SubSeq(bs, 1, Len(bs)) = bs
      BY SubSeqFull
    <2> QED
      BY <1>7, <1>8, <2>1
  <1>11. Window(h, t, b, size) \in Seq(Ids)
    BY Held DEF Holds
  <1>12. Window(h, t, b, size) \o << b[t] >> = Append(Window(h, t, b, size), b[t])
    <2>1. b[t] \in Ids
      OBVIOUS
    <2> QED
      BY <1>11, <2>1
  <1> QED
    BY <1>2, <1>5, <1>6, <1>9, <1>10, <1>12

\* PutAll: the bytes that fit are in, in order, and nothing else has changed.
AllPut(r, r2, bs, n, size) ==
  /\ r2 \in Ring(size) /\ r2.head = r.head
  /\ n \in 0..Len(bs)
  /\ Len(bs) <= size - 1 - Count(r, size) => n = Len(bs)
  /\ Contents(r2, size) = Contents(r, size) \o SubSeq(bs, 1, n)
  /\ r.head # r.tail => r2.tail # r2.head /\ r2.buf[r2.head] = r.buf[r.head]

LEMMA PutAllKeeps ==
  ASSUME NEW size \in Nat \ {0, 1}, NEW r \in Ring(size), NEW bs \in Seq(Ids),
         NEW r2, r2 = PutAll(r, size, bs).ring, NEW n, n = PutAll(r, size, bs).n
  PROVE  AllPut(r, r2, bs, n, size)
  <1>1. PICK h \in 0..(size - 1), t \in 0..(size - 1), b \in [0..(size - 1) -> Ids] :
            r = [head |-> h, tail |-> t, buf |-> b]
    BY RingParts, Zenon
  <1>2. r.head = h /\ r.tail = t /\ r.buf = b
    BY <1>1, RingMade, Zenon
  <1>3. /\ Count(r, size) = Gap(h, t, size) /\ Contents(r, size) = Window(h, t, b, size)
        /\ Gap(h, t, size) = 0 <=> h = t
    BY <1>2, RingView DEF View
  <1>4. PICK c \in 0..(size - 1) : c = Gap(h, t, size)
    BY GapIs, Zenon
  <1>5. n = IF Len(bs) > size - 1 - c THEN size - 1 - c ELSE Len(bs)
    BY <1>3, <1>4 DEF PutAll
  <1>6. n \in Nat /\ n <= Len(bs) /\ n <= size - 1 - c /\ n \in 0..size
    BY <1>4, <1>5
  <1> DEFINE Put(x) == \E k \in 1..n : x = Slot(t, k - 1, size)
             Of(x) == CHOOSE k \in 1..n : x = Slot(t, k - 1, size)
             b2 == [x \in 0..(size - 1) |-> IF Put(x) THEN bs[Of(x)] ELSE b[x]]
  <1>7. ASSUME NEW k \in 1..n
        PROVE  (t + k - 1) % size = Slot(t, k - 1, size) /\ Slot(t, k - 1, size) \in 0..(size - 1)
    <2>1. k - 1 \in 0..size /\ t + (k - 1) = t + k - 1
      BY <1>6
    <2> QED
      BY <2>1, SlotIs
  <1>8. PICK t2 \in 0..(size - 1) : t2 = Slot(t, n, size) /\ t2 = (t + n) % size
    BY <1>6, SlotIs, Zenon
  <1>9. r2 = [head |-> h, tail |-> t2, buf |-> b2]
    <2> DEFINE P2(x) == \E k \in 1..n : x = (t + k - 1) % size
               O2(x) == CHOOSE k \in 1..n : x = (t + k - 1) % size
    <2>1. r2 = [r EXCEPT !.buf = [x \in DOMAIN b |-> IF P2(x) THEN bs[O2(x)] ELSE b[x]],
                         !.tail = (t + n) % size]
      BY <1>2, <1>3, <1>4, <1>5 DEF PutAll
    <2>2. ASSUME NEW x PROVE P2(x) = Put(x) /\ O2(x) = Of(x)
      BY <1>7
    <2>3. [x \in DOMAIN b |-> IF P2(x) THEN bs[O2(x)] ELSE b[x]] = b2
      BY <2>2
    <2> HIDE DEF b2, P2, O2
    <2> QED
      BY <1>1, <1>8, <2>1, <2>3
  <1>10. ASSUME NEW k \in 1..n PROVE Put(Slot(t, k - 1, size)) /\ Of(Slot(t, k - 1, size)) = k
    <2>1. ASSUME NEW j \in 1..n, Slot(t, k - 1, size) = Slot(t, j - 1, size) PROVE j = k
      BY <1>6, <2>1 DEF Slot
    <2> QED
      BY <2>1
  <1>11. ASSUME NEW x \in 0..(size - 1), Put(x) PROVE bs[Of(x)] \in Ids
    <2>1. PICK k \in 1..n : x = Slot(t, k - 1, size)
      BY <1>11
    <2>2. Of(x) = k
      BY <1>10, <2>1
    <2>3. bs[k] \in Ids
      <3>1. k \in 1..Len(bs)
        BY <1>6
      <3> QED
        BY <3>1
    <2> HIDE DEF Of
    <2> QED
      BY <2>2, <2>3
  <1>12. b2 \in [0..(size - 1) -> Ids]
    BY <1>11
  <1>13. ASSUME NEW k \in 1..n PROVE b2[Slot(t, k - 1, size)] = bs[k]
    BY <1>7, <1>10
  <1>14. ASSUME NEW k \in 1..c PROVE b2[Slot(h, k - 1, size)] = b[Slot(h, k - 1, size)]
    <2>1. Slot(h, k - 1, size) \in 0..(size - 1)
      BY <1>4 DEF Slot
    <2>2. ASSUME NEW j \in 1..n PROVE Slot(h, k - 1, size) # Slot(t, j - 1, size)
      BY <1>4, <1>6 DEF Slot, Gap
    <2> QED
      BY <2>1, <2>2
  <1> HIDE DEF b2, Put, Of
  <1>15. r2 \in Ring(size) /\ r2.head = h /\ r2.tail = t2 /\ r2.buf = b2
    BY <1>9, <1>12 DEF Ring
  <1>16. Extended(h, t, t2, b, b2, bs, n, size)
    <2>1. Written(h, t, t2, b, b2, bs, n, size)
      BY <1>4, <1>6, <1>8, <1>13, <1>14 DEF Written
    <2> QED
      BY <1>12, <2>1, PutIn, Zenon
  <1>17. /\ Count(r2, size) = Gap(h, t2, size)
         /\ Contents(r2, size) = Window(h, t2, b2, size)
         /\ Gap(h, t2, size) = 0 <=> h = t2
    <2>1. View(r2, h, t2, size)
      BY <1>15, RingView
    <2> QED
      BY <1>15, <2>1 DEF View
  <1>18. h # t => t2 # h /\ b2[h] = b[h]
    <2>1. Slot(h, 1 - 1, size) = h
      BY DEF Slot
    <2>2. h # t => 1 \in 1..c
      BY <1>3, <1>4
    <2>3. h # t => b2[h] = b[h]
      BY <1>14, <2>1, <2>2
    <2>4. Gap(h, t2, size) = c + n
      BY <1>4, <1>16 DEF Extended
    <2> QED
      BY <1>3, <1>4, <1>6, <1>17, <2>3, <2>4
  <1>19. Contents(r2, size) = Contents(r, size) \o SubSeq(bs, 1, n)
    BY <1>3, <1>16, <1>17 DEF Extended
  <1>20. n \in 0..Len(bs) /\ (Len(bs) <= size - 1 - Count(r, size) => n = Len(bs))
    BY <1>3, <1>4, <1>5, <1>6
  <1> QED
    BY <1>2, <1>15, <1>18, <1>19, <1>20 DEF AllPut

LEMMA ResetKeeps ==
  ASSUME NEW size \in Nat \ {0, 1}, NEW r \in Ring(size), NEW r2, r2 = Reset(r)
  PROVE  r2 \in Ring(size) /\ Contents(r2, size) = << >>
  <1>1. PICK h \in 0..(size - 1), t \in 0..(size - 1), b \in [0..(size - 1) -> Ids] :
            r = [head |-> h, tail |-> t, buf |-> b]
    BY RingParts, Zenon
  <1>a. 0 \in 0..(size - 1)
    OBVIOUS
  <1>2. r2 = [head |-> 0, tail |-> 0, buf |-> b]
    BY <1>1, Zenon DEF Reset
  <1>3. r2 \in Ring(size) /\ r2.head = 0 /\ r2.tail = 0
    BY <1>2, <1>a DEF Ring
  <1>4. Contents(r2, size) \in Seq(Ids) /\ Len(Contents(r2, size)) = 0
    BY <1>3, RingHolds
  <1> QED
    BY <1>3, <1>4
-----------------------------------------------------------------------------
(* The session and the hooks.                                              *)

RingTypes == tn_tx \in Ring(TxSize) /\ tn_rx \in Ring(RxSize)
FlagTypes == tn_active \in BOOLEAN /\ replayed \in BOOLEAN /\ torn \in BOOLEAN
ThreadTypes ==
  /\ tn_dropped \in Nat
  /\ tpc \in {"accept", "hello", "poll", "flush", "send"}
  /\ out \in Seq(Ids) /\ Len(out) <= Batch
  /\ backlog \in 0..1
  /\ nout \in 0..MaxOut /\ nin \in 0..MaxIn /\ conns \in 0..MaxConns
HookTypes ==
  /\ epc \in {"idle", "put", "store", "publish", "count", "get", "advance"}
  /\ ereg \in Nat /\ ebyte \in Ids
HistoryTypes ==
  /\ sent \in Seq(Ids) /\ wire \in Seq(Ids) /\ typed \in Seq(Ids) /\ got \in Seq(Ids)
  /\ first \in 0..MaxOut /\ seen \in SUBSET Ids
ConsoleTypes == RingTypes /\ FlagTypes /\ ThreadTypes /\ HookTypes /\ HistoryTypes

LEMMA TypesAreTypeOK == ConsoleTypes => TypeOK
  BY Zenon DEF ConsoleTypes, RingTypes, FlagTypes, ThreadTypes, HookTypes, HistoryTypes,
               TypeOK

\* An emulator in a hook holds an index that is still true: of a free slot with,
\* in the end, its byte in it, or of the oldest byte, which it has read.
PutHook ==
  /\ epc \in {"store", "publish"} => ereg = tn_tx.tail /\ ~Full(tn_tx, TxSize)
  /\ epc = "publish" => tn_tx.buf[ereg] = ebyte
GetHook ==
  epc = "advance" => /\ ereg = tn_rx.head /\ tn_rx.head # tn_rx.tail
                     /\ ebyte = tn_rx.buf[ereg]

Greeted == tn_active \/ tpc = "hello"

\* Between sessions nothing is said of the rings: ClientGone empties one of them.
ConsoleInv ==
  /\ ConsoleTypes
  /\ tpc # "send" => out = << >>
  /\ tpc = "hello" => typed = << >>
  /\ ~torn => PutHook /\ GetHook
  /\ ~torn /\ Greeted => OutputInOrder /\ InputInOrder

LEMMA BytesAre == None \in Ids /\ Nudge \in Ids /\ \A k \in 1..(MaxOut + MaxIn) : k \in Ids
  BY ConsoleAssumption DEF Ids, Nudge

LEMMA SizesAre == TxSize \in Nat \ {0, 1} /\ RxSize \in Nat \ {0, 1}
  BY ConsoleAssumption

LEMMA ConsoleInit == ASSUME Init PROVE ConsoleInv
  <1>1. /\ tn_tx = EmptyRing(TxSize) /\ tn_rx = EmptyRing(RxSize)
        /\ tpc = "accept" /\ out = << >> /\ epc = "idle"
        /\ typed = << >> /\ tn_active = FALSE /\ tn_dropped = 0 /\ backlog = 0
        /\ ereg = 0 /\ ebyte = None /\ nout = 0 /\ nin = 0 /\ conns = 0
        /\ sent = << >> /\ wire = << >> /\ got = << >>
        /\ first = 0 /\ seen = {} /\ replayed = FALSE /\ torn = FALSE
    BY DEF Init
  <1>2. EmptyRing(TxSize) \in Ring(TxSize) /\ EmptyRing(RxSize) \in Ring(RxSize)
    BY ConsoleAssumption DEF EmptyRing, Ring, Ids
  <1>3. << >> \in Seq(Ids) /\ Len(<< >>) = 0
    OBVIOUS
  <1>4. ConsoleTypes
    <2>1. RingTypes
      BY <1>1, <1>2 DEF RingTypes
    <2>2. FlagTypes
      BY <1>1 DEF FlagTypes
    <2>3. ThreadTypes
      BY <1>1, <1>3, ConsoleAssumption DEF ThreadTypes
    <2>4. HookTypes
      BY <1>1, BytesAre DEF HookTypes
    <2>5. HistoryTypes
      BY <1>1, <1>3, ConsoleAssumption DEF HistoryTypes
    <2> QED
      BY <2>1, <2>2, <2>3, <2>4, <2>5 DEF ConsoleTypes
  <1> QED
    BY <1>1, <1>4 DEF ConsoleInv, PutHook, GetHook, Greeted

\* A step that touches neither ring nor history.
LEMMA QuietStep ==
  ASSUME ConsoleInv, UNCHANGED << tn_tx, tn_rx, out, sent, wire, typed, got, torn >>,
         ConsoleTypes', tpc' # "send" => out = << >>, tpc' = "hello" => tpc = "hello",
         Greeted' => Greeted, ~torn => PutHook' /\ GetHook'
  PROVE  ConsoleInv'
  BY DEF ConsoleInv, OutputInOrder, InputInOrder

LEMMA QuietSteps ==
  ASSUME ConsoleInv,
         \/ Connect \/ HelloFails \/ PollIdle \/ OutBegin \/ PutRead \/ PutCount
         \/ InBegin \/ GetRead \/ UNCHANGED vars
  PROVE  ConsoleInv'
  <1>0. /\ RingTypes /\ FlagTypes /\ ThreadTypes /\ HookTypes /\ HistoryTypes
        /\ (tpc # "send" => out = << >>)
        /\ (~torn => PutHook /\ GetHook)
    BY DEF ConsoleInv, ConsoleTypes
  <1>1. CASE Connect \/ HelloFails \/ PollIdle \/ UNCHANGED vars
    <2>1. /\ UNCHANGED << tn_tx, tn_rx, out, sent, wire, typed, got, first, seen >>
          /\ UNCHANGED << tn_active, replayed, torn, tn_dropped, epc, ereg, ebyte, nout, nin >>
          /\ tpc' # "hello" \/ tpc' = tpc
          /\ tpc' # "send" \/ tpc' = tpc
      BY <1>1 DEF Connect, HelloFails, PollIdle, vars, telnetVars, hookVars, countVars,
                  histVars
    <2>2. ThreadTypes'
      BY <1>0, <1>1, <2>1, ConsoleAssumption
         DEF ThreadTypes, Connect, HelloFails, PollIdle, vars, telnetVars, countVars
    <2>3. RingTypes' /\ HookTypes' /\ HistoryTypes'
      BY <1>0, <2>1 DEF RingTypes, HookTypes, HistoryTypes
    <2>4. FlagTypes'
      BY <1>0, <2>1 DEF FlagTypes
    <2>5. ~torn => PutHook' /\ GetHook'
      BY <1>0, <2>1 DEF PutHook, GetHook, Full
    <2>6. (tpc' # "send" => out = << >>) /\ (tpc' = "hello" => tpc = "hello")
      BY <1>0, <1>1, <2>1 DEF Connect, HelloFails, PollIdle, vars, telnetVars
    <2>7. Greeted' => Greeted
      BY <2>1 DEF Greeted
    <2> QED
      BY <2>1, <2>2, <2>3, <2>4, <2>5, <2>6, <2>7, QuietStep DEF ConsoleTypes
  <1>2. CASE OutBegin \/ PutRead \/ PutCount \/ InBegin \/ GetRead
    <2>1. /\ UNCHANGED << tn_tx, tn_rx, out, sent, wire, typed, got, first, seen >>
          /\ UNCHANGED << tn_active, replayed, torn, tpc, backlog, nin, conns >>
      BY <1>2 DEF OutBegin, PutRead, PutCount, InBegin, GetRead, telnetVars, hookVars,
                  countVars, histVars
    <2>2. HookTypes' /\ nout' \in 0..MaxOut /\ tn_dropped' \in Nat
      <3>1. CASE OutBegin
        <4>1. nout + 1 \in Ids /\ nout + 1 \in 0..MaxOut
          BY <1>0, <3>1, BytesAre, ConsoleAssumption DEF OutBegin, ThreadTypes
        <4> QED
          BY <1>0, <3>1, <4>1 DEF OutBegin, HookTypes, ThreadTypes
      <3>2. CASE PutRead
        <4>1. tn_tx.tail \in Nat /\ tn_dropped \in Nat
          BY <1>0, RingParts, SizesAre DEF RingTypes, ThreadTypes
        <4> QED
          BY <1>0, <3>2, <4>1 DEF PutRead, HookTypes, ThreadTypes, countVars
      <3>3. CASE PutCount
        BY <1>0, <3>3, BytesAre DEF PutCount, HookTypes, ThreadTypes, countVars
      <3>4. CASE InBegin
        BY <1>0, <3>4 DEF InBegin, HookTypes, ThreadTypes, countVars
      <3>5. CASE GetRead
        <4>1. tn_rx.head \in Nat /\ tn_rx.buf[tn_rx.head] \in Ids
          BY <1>0, RingParts, SizesAre DEF RingTypes
        <4> QED
          BY <1>0, <3>5, <4>1 DEF GetRead, HookTypes, ThreadTypes, countVars
      <3> QED
        BY <1>2, <3>1, <3>2, <3>3, <3>4, <3>5
    <2>3. RingTypes' /\ HistoryTypes' /\ ThreadTypes'
      BY <1>0, <2>1, <2>2 DEF RingTypes, HistoryTypes, ThreadTypes
    <2>4. FlagTypes'
      BY <1>0, <2>1 DEF FlagTypes
    <2>5. ~torn => PutHook' /\ GetHook'
      BY <1>0, <1>2, <2>1 DEF PutHook, GetHook, Full, OutBegin, PutRead, PutCount, InBegin,
                              GetRead
    <2>6. (tpc' # "send" => out = << >>) /\ (Greeted' => Greeted)
      BY <1>0, <2>1 DEF Greeted
    <2> QED
      BY <2>1, <2>2, <2>3, <2>4, <2>5, <2>6, QuietStep DEF ConsoleTypes
  <1> QED
    BY <1>1, <1>2

\* The emulator's half of the output ring.
LEMMA PutSteps ==
  ASSUME ConsoleInv, PutStore \/ PutPublish
  PROVE  ConsoleInv'
  <1>0. /\ RingTypes /\ FlagTypes /\ ThreadTypes /\ HookTypes /\ HistoryTypes
        /\ (tpc # "send" => out = << >>) /\ (tpc = "hello" => typed = << >>)
        /\ (~torn => PutHook /\ GetHook)
        /\ (~torn /\ Greeted => OutputInOrder /\ InputInOrder)
    BY DEF ConsoleInv, ConsoleTypes
  <1>1. tn_tx \in Ring(TxSize) /\ ebyte \in Ids /\ ereg \in Nat
    BY <1>0 DEF RingTypes, HookTypes
  <1>2. /\ UNCHANGED << tn_rx, out, wire, typed, got, first, seen >>
        /\ UNCHANGED << tn_active, replayed, torn, tpc, backlog, nout, nin, conns, tn_dropped >>
    BY DEF PutStore, PutPublish, telnetVars, countVars, histVars
  <1>3. FlagTypes' /\ ThreadTypes' /\ Greeted' = Greeted
    BY <1>0, <1>2 DEF FlagTypes, ThreadTypes, Greeted
  <1>4. CASE PutStore
    <2>1. tn_tx' = [tn_tx EXCEPT !.buf[ereg] = ebyte] /\ epc = "store" /\ epc' = "publish"
          /\ UNCHANGED << ereg, ebyte, sent >>
      BY <1>4 DEF PutStore, histVars
    <2>2. tn_tx' \in Ring(TxSize)
      BY <1>1, <2>1 DEF Ring
    <2>3. RingTypes' /\ HookTypes' /\ HistoryTypes'
      BY <1>0, <1>2, <2>1, <2>2 DEF RingTypes, HookTypes, HistoryTypes
    <2>4. ASSUME ~torn
          PROVE  /\ PutHook' /\ GetHook'
                 /\ Contents(tn_tx, TxSize)' = Contents(tn_tx, TxSize)
      <3>1. ereg = tn_tx.tail /\ ~Full(tn_tx, TxSize)
        BY <1>0, <2>1, <2>4 DEF PutHook
      <3>2. tn_tx' = [tn_tx EXCEPT !.buf[tn_tx.tail] = ebyte]
        BY <2>1, <3>1
      <3>3. PICK r2 : r2 = tn_tx'
        OBVIOUS
      <3>4. /\ r2.tail = tn_tx.tail /\ r2.buf[tn_tx.tail] = ebyte
            /\ Contents(r2, TxSize) = Contents(tn_tx, TxSize)
            /\ Full(r2, TxSize) <=> Full(tn_tx, TxSize)
        <4>1. r2 = [tn_tx EXCEPT !.buf[tn_tx.tail] = ebyte]
          BY <3>2, <3>3
        <4> QED
          <5>1. Stored(tn_tx, r2, ebyte, TxSize)
            BY <1>1, <4>1, StoreKeeps, SizesAre
          <5> QED
            BY <5>1 DEF Stored
      <3>5. Contents(tn_tx, TxSize)' = Contents(tn_tx, TxSize) /\ ~Full(tn_tx, TxSize)'
        BY <3>1, <3>3, <3>4 DEF Contents, Count, Full
      <3>6. PutHook' /\ GetHook'
        BY <2>1, <3>1, <3>3, <3>4, <3>5 DEF PutHook, GetHook
      <3> QED
        BY <3>5, <3>6
    <2>5. ~torn /\ Greeted => OutputInOrder' /\ InputInOrder'
      BY <1>0, <1>2, <2>1, <2>4 DEF OutputInOrder, InputInOrder
    <2> QED
      BY <1>0, <1>2, <1>3, <2>1, <2>3, <2>4, <2>5 DEF ConsoleInv, ConsoleTypes
  <1>5. CASE PutPublish
    <2>1. /\ tn_tx' = [tn_tx EXCEPT !.tail = (ereg + 1) % TxSize]
          /\ sent' = Append(sent, ebyte)
          /\ epc = "publish" /\ epc' = "idle" /\ ereg' = 0 /\ ebyte' = None
      BY <1>5 DEF PutPublish
    <2>2. tn_tx' \in Ring(TxSize)
      <3>1. (ereg + 1) % TxSize \in 0..(TxSize - 1)
        BY <1>1, SizesAre
      <3> QED
        BY <1>1, <2>1, <3>1 DEF Ring
    <2>3. RingTypes' /\ HookTypes' /\ HistoryTypes'
      BY <1>0, <1>1, <1>2, <2>1, <2>2, BytesAre DEF RingTypes, HookTypes, HistoryTypes
    <2>4. PutHook' /\ GetHook'
      BY <2>1 DEF PutHook, GetHook
    <2>5. ASSUME ~torn, Greeted PROVE OutputInOrder' /\ InputInOrder'
      <3>1. ereg = tn_tx.tail /\ ~Full(tn_tx, TxSize) /\ tn_tx.buf[tn_tx.tail] = ebyte
        BY <1>0, <2>1, <2>5 DEF PutHook
      <3>2. PICK r2 : r2 = tn_tx'
        OBVIOUS
      <3>3. r2 = [tn_tx EXCEPT !.tail = (tn_tx.tail + 1) % TxSize]
        BY <2>1, <3>1, <3>2
      <3>4. Contents(r2, TxSize) = Append(Contents(tn_tx, TxSize), tn_tx.buf[tn_tx.tail])
        BY <1>1, <3>1, <3>3, PublishKeeps, SizesAre
      <3>5. PICK C \in Seq(Ids) : C = Contents(tn_tx, TxSize)
        BY <1>1, RingHolds, SizesAre
      <3>6. Contents(tn_tx, TxSize)' = Append(C, ebyte)
        BY <3>1, <3>2, <3>4, <3>5 DEF Contents, Count
      <3>7. sent = wire \o out \o C
        BY <1>0, <2>5, <3>5 DEF OutputInOrder
      <3>8. wire \in Seq(Ids) /\ out \in Seq(Ids)
        BY <1>0 DEF HistoryTypes, ThreadTypes
      <3>9. Append(wire \o out \o C, ebyte) = wire \o out \o Append(C, ebyte)
        <4>1. PICK w \in Seq(Ids) : w = wire \o out
          BY <3>8, ConcatProperties, Zenon
        <4>2. Append(w \o C, ebyte) = w \o Append(C, ebyte)
          BY <1>1
        <4> QED
          BY <4>1, <4>2
      <3> QED
        BY <1>0, <1>2, <2>1, <2>5, <3>6, <3>7, <3>9 DEF OutputInOrder, InputInOrder
    <2> QED
      BY <1>0, <1>2, <1>3, <2>1, <2>3, <2>4, <2>5 DEF ConsoleInv, ConsoleTypes
  <1> QED
    BY <1>4, <1>5

\* Its half of the input ring.
LEMMA GetStep ==
  ASSUME ConsoleInv, GetAdvance
  PROVE  ConsoleInv'
  <1>0. /\ RingTypes /\ FlagTypes /\ ThreadTypes /\ HookTypes /\ HistoryTypes
        /\ (tpc # "send" => out = << >>) /\ (tpc = "hello" => typed = << >>)
        /\ (~torn => GetHook)
        /\ (~torn /\ Greeted => OutputInOrder /\ InputInOrder)
    BY DEF ConsoleInv, ConsoleTypes
  <1>1. tn_rx \in Ring(RxSize) /\ ebyte \in Ids /\ ereg \in Nat /\ got \in Seq(Ids)
    BY <1>0 DEF RingTypes, HookTypes, HistoryTypes
  <1>2. /\ UNCHANGED << tn_tx, out, sent, wire, typed, first >>
        /\ UNCHANGED << tn_active, torn, tpc, backlog, nout, nin, conns, tn_dropped >>
    BY DEF GetAdvance, telnetVars, countVars
  <1>3. /\ tn_rx' = [tn_rx EXCEPT !.head = (ereg + 1) % RxSize]
        /\ got' = Append(got, ebyte) /\ seen' = seen \cup {ebyte}
        /\ replayed' = (replayed \/ (ebyte > Nudge /\ ebyte \in seen))
        /\ epc = "advance" /\ epc' = "idle" /\ ereg' = 0 /\ ebyte' = None
    BY DEF GetAdvance
  <1>4. ThreadTypes' /\ Greeted' = Greeted
    BY <1>0, <1>2 DEF ThreadTypes, Greeted
  <1>5. FlagTypes'
    BY <1>0, <1>2, <1>3, Zenon DEF FlagTypes
  <1>6. tn_rx' \in Ring(RxSize)
    <2>1. (ereg + 1) % RxSize \in 0..(RxSize - 1)
      BY <1>1, SizesAre
    <2> QED
      BY <1>1, <1>3, <2>1 DEF Ring
  <1>7. RingTypes' /\ HookTypes' /\ HistoryTypes'
    BY <1>0, <1>1, <1>2, <1>3, <1>6, BytesAre DEF RingTypes, HookTypes, HistoryTypes
  <1>8. PutHook' /\ GetHook'
    BY <1>3 DEF PutHook, GetHook
  <1>9. ASSUME ~torn, Greeted PROVE OutputInOrder' /\ InputInOrder'
    <2>1. ereg = tn_rx.head /\ tn_rx.head # tn_rx.tail /\ ebyte = tn_rx.buf[tn_rx.head]
      BY <1>0, <1>3, <1>9 DEF GetHook
    <2>2. PICK r2 : r2 = tn_rx'
      OBVIOUS
    <2>3. r2 = [tn_rx EXCEPT !.head = (tn_rx.head + 1) % RxSize]
      BY <1>3, <2>1, <2>2
    <2>4. PICK C \in Seq(Ids) : C = Contents(tn_rx, RxSize) /\ C[1] = ebyte /\ Len(C) >= 1
                               /\ 1 \in 0..Count(tn_rx, RxSize)
      <3>1. /\ Contents(tn_rx, RxSize) \in Seq(Ids)
            /\ Len(Contents(tn_rx, RxSize)) = Count(tn_rx, RxSize)
            /\ Count(tn_rx, RxSize) \in 0..(RxSize - 1)
            /\ Count(tn_rx, RxSize) # 0
            /\ Contents(tn_rx, RxSize)[1] = ebyte
        BY <1>1, <2>1, RingHolds, SizesAre
      <3> QED
        BY <3>1, SizesAre
    <2>5. C = SubSeq(C, 1, 1) \o Contents(r2, RxSize) /\ r2 \in Ring(RxSize)
      <3>1. Got(tn_rx, r2, 1, RxSize)
        BY <1>1, <2>3, <2>4, GetKeeps, SizesAre
      <3> QED
        BY <2>4, <3>1 DEF Got
    <2>6. PICK D \in Seq(Ids) : D = Contents(r2, RxSize)
      BY <2>5, RingHolds, SizesAre
    <2>7. SubSeq(C, 1, 1) = << ebyte >>
      BY <2>4, FirstOf
    <2>8. Contents(tn_rx, RxSize)' = D
      BY <2>2, <2>6 DEF Contents, Count
    <2>9. got \o (<< ebyte >> \o D) = Append(got, ebyte) \o D
      BY <1>1, MovedOver
    <2>10. typed = got \o (<< ebyte >> \o D)
      BY <1>0, <1>9, <2>4, <2>5, <2>6, <2>7 DEF InputInOrder
    <2> QED
      BY <1>0, <1>2, <1>3, <1>9, <2>8, <2>9, <2>10 DEF OutputInOrder, InputInOrder
  <1> QED
    BY <1>0, <1>2, <1>3, <1>4, <1>5, <1>7, <1>8, <1>9 DEF ConsoleInv, ConsoleTypes

\* tn_flush() moves bytes from the ring to the batch, send() from there to the wire.
LEMMA OutputSteps ==
  ASSUME ConsoleInv, Flush \/ SendOk \/ ClientGone
  PROVE  ConsoleInv'
  <1>0. /\ RingTypes /\ FlagTypes /\ ThreadTypes /\ HookTypes /\ HistoryTypes
        /\ (tpc # "send" => out = << >>) /\ (tpc = "hello" => typed = << >>)
        /\ (~torn => PutHook /\ GetHook)
        /\ (~torn /\ Greeted => OutputInOrder /\ InputInOrder)
    BY DEF ConsoleInv, ConsoleTypes
  <1>1. /\ tn_tx \in Ring(TxSize) /\ out \in Seq(Ids)
        /\ wire \in Seq(Ids) /\ Batch \in Nat \ {0}
    BY <1>0, ConsoleAssumption DEF RingTypes, ThreadTypes, HistoryTypes
  <1>2. /\ UNCHANGED << tn_rx, sent, typed, got, first, seen >>
        /\ UNCHANGED << replayed, torn, backlog, nout, nin, conns, tn_dropped, epc, ereg, ebyte >>
    BY DEF Flush, SendOk, ClientGone, countVars, histVars, hookVars
  <1>3. HookTypes' /\ GetHook' = GetHook /\ InputInOrder' = InputInOrder
    BY <1>0, <1>2 DEF HookTypes, GetHook, InputInOrder, Contents, Count
  <1>4. PICK C \in Seq(Ids) : C = Contents(tn_tx, TxSize) /\ Len(C) = Count(tn_tx, TxSize)
    BY <1>1, RingHolds, SizesAre
  <1>5. CASE Flush
    <2>1. PICK n : n = IF Len(C) < Batch THEN Len(C) ELSE Batch
      OBVIOUS
    <2>2. n \in Nat /\ n <= Len(C) /\ n <= Batch /\ n \in 0..Count(tn_tx, TxSize)
      BY <1>1, <1>4, <2>1
    <2>3. UNCHANGED << wire, tn_active >> /\ tpc = "flush"
      BY <1>5 DEF Flush, histVars
    <2>4. CASE n = 0
      <3>1. tpc' = "poll" /\ UNCHANGED << tn_tx, out >>
        BY <1>4, <1>5, <2>1, <2>4 DEF Flush
      <3>2. RingTypes' /\ ThreadTypes' /\ HistoryTypes' /\ PutHook' = PutHook
        BY <1>0, <1>2, <2>3, <3>1 DEF RingTypes, ThreadTypes, HistoryTypes, PutHook, Full
      <3>3. FlagTypes'
        BY <1>0, <1>2, <2>3 DEF FlagTypes
      <3>4. OutputInOrder' = OutputInOrder /\ (Greeted' => Greeted)
        BY <1>2, <2>3, <3>1 DEF OutputInOrder, Contents, Count, Greeted
      <3> QED
        BY <1>0, <1>2, <1>3, <2>3, <3>1, <3>2, <3>3, <3>4 DEF ConsoleInv, ConsoleTypes
    <2>5. CASE n # 0
      <3>1. /\ out' = SubSeq(C, 1, n) /\ tpc' = "send"
            /\ tn_tx' = [tn_tx EXCEPT !.head = (tn_tx.head + n) % TxSize]
        BY <1>4, <1>5, <2>1, <2>5 DEF Flush
      <3>2. PICK r2 : r2 = tn_tx'
        OBVIOUS
      <3>3. Got(tn_tx, r2, n, TxSize)
        BY <1>1, <2>2, <3>1, <3>2, GetKeeps, SizesAre
      <3>4. /\ tn_tx' \in Ring(TxSize) /\ tn_tx'.tail = tn_tx.tail /\ tn_tx'.buf = tn_tx.buf
            /\ C = out' \o Contents(tn_tx, TxSize)'
            /\ Full(tn_tx, TxSize)' => FALSE
        <4>1. /\ r2 \in Ring(TxSize) /\ r2.tail = tn_tx.tail /\ r2.buf = tn_tx.buf
              /\ Count(r2, TxSize) = Count(tn_tx, TxSize) - n
              /\ C = SubSeq(C, 1, n) \o Contents(r2, TxSize)
          BY <1>4, <3>3 DEF Got
        <4>2. Count(tn_tx, TxSize) \in 0..(TxSize - 1)
          BY <1>1, RingHolds, SizesAre
        <4>3. Full(r2, TxSize) <=> Count(r2, TxSize) = TxSize - 1
          BY <4>1, RingHolds, SizesAre
        <4>4. ~Full(r2, TxSize)
          BY <2>2, <2>5, <4>1, <4>2, <4>3, SizesAre
        <4>5. Contents(tn_tx, TxSize)' = Contents(r2, TxSize)
          BY <3>2 DEF Contents, Count
        <4>6. Full(tn_tx, TxSize)' = Full(r2, TxSize)
          BY <3>2 DEF Full
        <4> QED
          BY <3>1, <3>2, <4>1, <4>4, <4>5, <4>6
      <3>5. out' \in Seq(Ids) /\ Len(out') = n
        BY <2>2, <3>1, SubSeqProperties, SMT
      <3>6. RingTypes' /\ ThreadTypes' /\ HistoryTypes'
        BY <1>0, <1>1, <1>2, <2>2, <2>3, <3>1, <3>4, <3>5
           DEF RingTypes, ThreadTypes, HistoryTypes
      <3>7. FlagTypes'
        BY <1>0, <1>2, <2>3 DEF FlagTypes
      <3>8. PutHook => PutHook'
        BY <1>2, <3>4 DEF PutHook
      <3>9. OutputInOrder => OutputInOrder'
        <4>1. PICK D : D = Contents(tn_tx, TxSize)'
          OBVIOUS
        <4>2. out = << >>
          BY <1>0, <2>3
        <4>3. wire \o << >> = wire
          BY <1>1, ConcatEmptySeq
        <4>4. D \in Seq(Ids)
          <5>1. Contents(r2, TxSize) \in Seq(Ids)
            BY <3>2, <3>4, RingHolds, SizesAre
          <5> QED
            BY <3>2, <4>1, <5>1 DEF Contents, Count
        <4>5. wire \o (out' \o D) = (wire \o out') \o D
          <5>1. PICK o \in Seq(Ids) : o = out'
            BY <3>5
          <5>2. (wire \o o) \o D = wire \o (o \o D)
            BY <1>1, <4>4, ConcatAssociative
          <5> QED
            BY <5>1, <5>2
        <4> QED
          BY <1>2, <1>4, <2>3, <3>4, <4>1, <4>2, <4>3, <4>5 DEF OutputInOrder
      <3>10. Greeted' => Greeted
        BY <2>3, <3>1 DEF Greeted
      <3> QED
        BY <1>0, <1>2, <1>3, <2>3, <3>1, <3>6, <3>7, <3>8, <3>9, <3>10
           DEF ConsoleInv, ConsoleTypes
    <2> QED
      BY <2>4, <2>5
  <1>6. CASE SendOk
    <2>1. /\ wire' = wire \o out /\ out' = << >> /\ tpc = "send" /\ tpc' = "flush"
          /\ UNCHANGED << tn_tx, tn_active >>
      BY <1>6 DEF SendOk
    <2>2. wire \o out \in Seq(Ids)
      BY <1>1, ConcatProperties
    <2>3. RingTypes' /\ ThreadTypes' /\ HistoryTypes' /\ PutHook' = PutHook
      BY <1>0, <1>1, <1>2, <2>1, <2>2 DEF RingTypes, ThreadTypes, HistoryTypes, PutHook, Full
    <2>4. FlagTypes'
      BY <1>0, <1>2, <2>1 DEF FlagTypes
    <2>5. OutputInOrder => OutputInOrder'
      <3>1. (wire \o out) \o << >> = wire \o out
        BY <2>2, ConcatEmptySeq
      <3> QED
        BY <1>2, <2>1, <3>1 DEF OutputInOrder, Contents, Count
    <2>6. Greeted' => Greeted
      BY <2>1 DEF Greeted
    <2> QED
      BY <1>0, <1>2, <1>3, <2>1, <2>3, <2>4, <2>5, <2>6 DEF ConsoleInv, ConsoleTypes
  <1>7. CASE ClientGone
    <2>1. /\ tn_active' = FALSE /\ tn_tx' = [tn_tx EXCEPT !.head = tn_tx.tail]
          /\ out' = << >> /\ tpc' = "accept" /\ wire' = wire
      BY <1>7 DEF ClientGone, histVars
    <2>2. /\ tn_tx' \in Ring(TxSize) /\ tn_tx'.tail = tn_tx.tail
          /\ tn_tx'.buf = tn_tx.buf /\ tn_tx'.head = tn_tx.tail
      BY <1>1, <2>1 DEF Ring
    <2>3. << >> \in Seq(Ids) /\ Len(<< >>) = 0
      OBVIOUS
    <2>4. RingTypes' /\ ThreadTypes' /\ HistoryTypes'
      BY <1>0, <1>1, <1>2, <2>1, <2>2, <2>3 DEF RingTypes, ThreadTypes, HistoryTypes
    <2>5. FlagTypes'
      BY <1>0, <1>2, <2>1 DEF FlagTypes
    <2>6. PutHook => PutHook'
      <3>1. PICK r2 : r2 = tn_tx'
        OBVIOUS
      <3>2. ~Full(r2, TxSize)
        <4>1. r2 \in Ring(TxSize) /\ r2.head = r2.tail
          BY <2>2, <3>1
        <4>2. Count(r2, TxSize) = 0
          BY <4>1, RingHolds, SizesAre
        <4>3. Full(r2, TxSize) <=> Count(r2, TxSize) = TxSize - 1
          BY <4>1, RingHolds, SizesAre
        <4> QED
          BY <4>2, <4>3, SizesAre
      <3>3. ~Full(tn_tx, TxSize)'
        BY <3>1, <3>2 DEF Full
      <3> QED
        BY <1>2, <2>2, <3>3 DEF PutHook
    <2>7. ~Greeted'
      BY <2>1 DEF Greeted
    <2> QED
      BY <1>0, <1>2, <1>3, <2>1, <2>4, <2>5, <2>6, <2>7 DEF ConsoleInv, ConsoleTypes
  <1> QED
    BY <1>5, <1>6, <1>7

LEMMA Regrouped ==
  \A a, b, c \in Seq(Ids) : (a \o b) \o c = a \o (b \o c)
  BY ConcatAssociative

\* What the telnet thread puts into tn_rx.
LEMMA TypedIn ==
  ASSUME ConsoleInv, NEW bs \in Seq(Ids), NEW n, n = PutAll(tn_rx, RxSize, bs).n,
         tn_rx' = PutAll(tn_rx, RxSize, bs).ring,
         UNCHANGED << torn, epc, ereg, ebyte >>,
         got' = got, typed' = typed \o SubSeq(bs, 1, n)
  PROVE  /\ tn_rx' \in Ring(RxSize) /\ typed' \in Seq(Ids)
         /\ GetHook => GetHook'
         /\ InputInOrder => InputInOrder'
  <1>1. tn_rx \in Ring(RxSize) /\ typed \in Seq(Ids) /\ got \in Seq(Ids)
    BY DEF ConsoleInv, ConsoleTypes, RingTypes, HistoryTypes
  <1>2. PICK r2 : r2 = tn_rx'
    OBVIOUS
  <1>3. /\ r2 \in Ring(RxSize) /\ r2.head = tn_rx.head /\ n \in 0..Len(bs)
        /\ Contents(r2, RxSize) = Contents(tn_rx, RxSize) \o SubSeq(bs, 1, n)
        /\ tn_rx.head # tn_rx.tail =>
              r2.tail # r2.head /\ r2.buf[r2.head] = tn_rx.buf[tn_rx.head]
    <2>1. AllPut(tn_rx, r2, bs, n, RxSize)
      BY <1>1, <1>2, PutAllKeeps, SizesAre
    <2> QED
      BY <2>1 DEF AllPut
  <1>4. PICK A \in Seq(Ids) : A = SubSeq(bs, 1, n)
    <2>1. SubSeq(bs, 1, n) \in Seq(Ids)
      BY <1>3, SubSeqProperties, SMT
    <2> QED
      BY <2>1
  <1>5. PICK C \in Seq(Ids) : C = Contents(tn_rx, RxSize)
    BY <1>1, RingHolds, SizesAre
  <1>6. Contents(tn_rx, RxSize)' = C \o A
    BY <1>2, <1>3, <1>4, <1>5 DEF Contents, Count
  <1>7. typed' \in Seq(Ids)
    BY <1>1, <1>4, ConcatProperties
  <1>8. (got \o C) \o A = got \o (C \o A)
    <2>1. A \in Seq(Ids) /\ C \in Seq(Ids) /\ got \in Seq(Ids)
      BY <1>1, <1>4, <1>5
    <2> QED
      BY <2>1, Regrouped, Zenon
  <1>9. InputInOrder => InputInOrder'
    BY <1>4, <1>5, <1>6, <1>8 DEF InputInOrder
  <1>10. GetHook => GetHook'
    BY <1>2, <1>3 DEF GetHook
  <1> QED
    BY <1>2, <1>3, <1>7, <1>9, <1>10

LEMMA InputSteps ==
  ASSUME ConsoleInv, HelloSent \/ \E n \in 1..Chunk : PollData(n)
  PROVE  ConsoleInv'
  <1>0. /\ RingTypes /\ FlagTypes /\ ThreadTypes /\ HookTypes /\ HistoryTypes
        /\ (tpc # "send" => out = << >>) /\ (tpc = "hello" => typed = << >>)
        /\ (~torn => PutHook /\ GetHook)
        /\ (~torn /\ Greeted => OutputInOrder /\ InputInOrder)
    BY DEF ConsoleInv, ConsoleTypes
  <1>1. /\ UNCHANGED << tn_tx, out, sent, wire, got, seen >>
        /\ UNCHANGED << replayed, torn, backlog, nout, conns, epc, ereg, ebyte >>
    BY DEF HelloSent, PollData, hookVars, countVars
  <1>a. first' \in 0..MaxOut
    BY <1>0 DEF HelloSent, PollData, HistoryTypes, ThreadTypes
  <1>2. HookTypes' /\ PutHook' = PutHook /\ OutputInOrder' = OutputInOrder
    BY <1>0, <1>1 DEF HookTypes, PutHook, Full, OutputInOrder, Contents, Count
  <1>3. CASE HelloSent
    <2>1. /\ tn_dropped' = 0 /\ tn_active' = TRUE /\ tpc = "hello" /\ tpc' = "poll"
          /\ tn_rx' = PutAll(tn_rx, RxSize, << Nudge >>).ring
          /\ typed' = Append(typed, Nudge) /\ nin' = nin
      BY <1>3 DEF HelloSent, countVars
    <2>2. PICK bs \in Seq(Ids) : bs = << Nudge >> /\ Len(bs) = 1
      <3>1. << Nudge >> \in Seq(Ids) /\ Len(<< Nudge >>) = 1
        BY BytesAre
      <3> QED
        BY <3>1
    <2>3. FlagTypes' /\ ThreadTypes'
      BY <1>0, <1>1, <2>1 DEF FlagTypes, ThreadTypes
    <2>4. typed' \in Seq(Ids) /\ typed' = << Nudge >>
      BY <1>0, <2>1, BytesAre DEF HistoryTypes
    <2>5. PICK r2 : r2 = tn_rx'
      OBVIOUS
    <2>6. PICK n : n = PutAll(tn_rx, RxSize, bs).n
      OBVIOUS
    <2>7. /\ r2 \in Ring(RxSize)
          /\ Len(bs) <= RxSize - 1 - Count(tn_rx, RxSize) => n = Len(bs)
      <3>1. AllPut(tn_rx, r2, bs, n, RxSize)
        BY <1>0, <2>1, <2>2, <2>5, <2>6, PutAllKeeps, SizesAre DEF RingTypes
      <3> QED
        BY <3>1 DEF AllPut
    <2>8. RingTypes' /\ HistoryTypes'
      BY <1>0, <1>1, <1>a, <2>4, <2>5, <2>7 DEF RingTypes, HistoryTypes
    <2>9. ASSUME ~torn PROVE GetHook' /\ InputInOrder'
      <3>1. InputInOrder /\ GetHook /\ typed = << >>
        BY <1>0, <2>1, <2>9 DEF Greeted
      <3>2. PICK C \in Seq(Ids) : C = Contents(tn_rx, RxSize) /\ Len(C) = Count(tn_rx, RxSize)
        BY <1>0, RingHolds, SizesAre DEF RingTypes
      <3>3. Len(C) = 0
        <4>1. got \in Seq(Ids) /\ got \o C = << >>
          BY <1>0, <3>1, <3>2 DEF InputInOrder, HistoryTypes
        <4>2. Len(got \o C) = Len(got) + Len(C)
          BY <4>1, ConcatProperties
        <4>3. Len(<< >>) = 0 /\ Len(got) \in Nat /\ Len(C) \in Nat
          BY <4>1
        <4> QED
          BY <4>1, <4>2, <4>3
      <3>4. n = 1
        BY <2>2, <2>7, <3>2, <3>3, SizesAre
      <3>5. typed' = typed \o SubSeq(bs, 1, n)
        <4>1. SubSeq(bs, 1, 1) = bs
          <5>1. SubSeq(bs, 1, Len(bs)) = bs
            BY SubSeqFull
          <5> QED
            BY <2>2, <5>1
        <4>2. << >> \o bs = bs
          BY ConcatEmptySeq
        <4> QED
          BY <2>2, <2>4, <3>1, <3>4, <4>1, <4>2
      <3>6. (GetHook => GetHook') /\ (InputInOrder => InputInOrder')
        <4>1. tn_rx' = PutAll(tn_rx, RxSize, bs).ring
          BY <2>1, <2>2
        <4> QED
          BY <1>1, <2>6, <3>5, <4>1, TypedIn
      <3> QED
        BY <3>1, <3>6
    <2>10. Greeted
      BY <2>1 DEF Greeted
    <2> QED
      BY <1>0, <1>1, <1>2, <2>1, <2>3, <2>8, <2>9, <2>10 DEF ConsoleInv, ConsoleTypes
  <1>4. ASSUME NEW n \in 1..Chunk, PollData(n) PROVE ConsoleInv'
    <2>1. PICK bs : bs = [k \in 1..n |-> MaxOut + nin + k]
      OBVIOUS
    <2>2. /\ nin + n <= MaxIn /\ nin' = nin + n /\ tpc = "poll" /\ tpc' = "flush"
          /\ tn_rx' = PutAll(tn_rx, RxSize, bs).ring
          /\ typed' = typed \o SubSeq(bs, 1, PutAll(tn_rx, RxSize, bs).n)
          /\ UNCHANGED << tn_active, tn_dropped >>
      BY <1>4, <2>1 DEF PollData
    <2>3. bs \in Seq(Ids)
      <3>1. n \in Nat
        BY ConsoleAssumption
      <3>2. ASSUME NEW k \in 1..n PROVE MaxOut + nin + k \in Ids
        <4>1. nin \in 0..MaxIn
          BY <1>0 DEF ThreadTypes
        <4>2. MaxOut + nin + k \in 1..(MaxOut + MaxIn)
          BY <2>2, <3>1, <4>1, ConsoleAssumption
        <4> QED
          BY <4>2, BytesAre
      <3> QED
        BY <2>1, <3>1, <3>2
    <2>4. /\ tn_rx' \in Ring(RxSize) /\ typed' \in Seq(Ids)
          /\ (GetHook => GetHook') /\ (InputInOrder => InputInOrder')
      BY <1>1, <2>2, <2>3, TypedIn
    <2>5. RingTypes' /\ HistoryTypes'
      BY <1>0, <1>1, <1>a, <2>4 DEF RingTypes, HistoryTypes
    <2>6. ThreadTypes'
      <3>1. n \in Nat
        BY ConsoleAssumption
      <3> QED
        BY <1>0, <1>1, <2>2, <3>1, ConsoleAssumption DEF ThreadTypes
    <2>7. FlagTypes'
      BY <1>0, <1>1, <2>2 DEF FlagTypes
    <2>8. Greeted' => Greeted
      BY <2>2 DEF Greeted
    <2> QED
      BY <1>0, <1>1, <1>2, <2>2, <2>4, <2>5, <2>6, <2>7, <2>8 DEF ConsoleInv, ConsoleTypes
  <1> QED
    BY <1>3, <1>4

LEMMA AcceptStep ==
  ASSUME ConsoleInv, Accept
  PROVE  ConsoleInv'
  <1>0. /\ RingTypes /\ FlagTypes /\ ThreadTypes /\ HookTypes /\ HistoryTypes
        /\ (tpc # "send" => out = << >>) /\ (tpc = "hello" => typed = << >>)
        /\ (~torn => PutHook /\ GetHook)
        /\ (~torn /\ Greeted => OutputInOrder /\ InputInOrder)
    BY DEF ConsoleInv, ConsoleTypes
  <1>1. /\ UNCHANGED << tn_active, tn_dropped, out, epc, ereg, ebyte, nout, nin, conns,
                         first, seen, replayed >>
        /\ backlog' = 0 /\ tpc = "accept"
    BY DEF Accept, hookVars, countVars
  <1>2. HookTypes'
    BY <1>0, <1>1 DEF HookTypes
  <1>3. CASE tn_active
    <2>1. UNCHANGED << tn_tx, tn_rx, tpc, sent, wire, typed, got, torn >>
      BY <1>3 DEF Accept
    <2>2. RingTypes' /\ ThreadTypes' /\ HistoryTypes' /\ PutHook' = PutHook /\ GetHook' = GetHook
      BY <1>0, <1>1, <2>1 DEF RingTypes, ThreadTypes, HistoryTypes, PutHook, GetHook, Full
    <2>3. FlagTypes' /\ Greeted' = Greeted
      BY <1>0, <1>1, <2>1 DEF FlagTypes, Greeted
    <2>4. OutputInOrder' = OutputInOrder /\ InputInOrder' = InputInOrder
      BY <1>1, <2>1 DEF OutputInOrder, InputInOrder, Contents, Count
    <2> QED
      BY <1>0, <1>1, <1>2, <2>1, <2>2, <2>3, <2>4 DEF ConsoleInv, ConsoleTypes
  <1>4. CASE ~tn_active
    <2>1. /\ tn_tx' = Reset(tn_tx) /\ tn_rx' = Reset(tn_rx) /\ tpc' = "hello"
          /\ sent' = << >> /\ wire' = << >> /\ typed' = << >> /\ got' = << >>
          /\ torn' = InHook
      BY <1>4 DEF Accept
    <2>2. PICK x, y : x = tn_tx' /\ y = tn_rx'
      OBVIOUS
    <2>3. /\ x \in Ring(TxSize) /\ Contents(x, TxSize) = << >>
          /\ y \in Ring(RxSize) /\ Contents(y, RxSize) = << >>
      BY <1>0, <2>1, <2>2, ResetKeeps, SizesAre DEF RingTypes
    <2>4. Contents(tn_tx, TxSize)' = << >> /\ Contents(tn_rx, RxSize)' = << >>
      BY <2>2, <2>3 DEF Contents, Count
    <2>5. << >> \in Seq(Ids) /\ << >> \o << >> = << >>
      BY ConcatEmptySeq
    <2>6. RingTypes' /\ ThreadTypes' /\ HistoryTypes'
      BY <1>0, <1>1, <2>1, <2>2, <2>3, <2>5 DEF RingTypes, ThreadTypes, HistoryTypes
    <2>7. FlagTypes'
      BY <1>0, <1>1, <2>1 DEF FlagTypes, InHook
    <2>8. out' = << >>
      BY <1>0, <1>1
    <2>9. OutputInOrder' /\ InputInOrder'
      BY <2>1, <2>4, <2>5, <2>8 DEF OutputInOrder, InputInOrder
    <2>10. ~torn' => PutHook' /\ GetHook'
      BY <1>1, <2>1 DEF InHook, PutHook, GetHook
    <2> QED
      BY <1>2, <2>1, <2>6, <2>7, <2>8, <2>9, <2>10 DEF ConsoleInv, ConsoleTypes
  <1> QED
    BY <1>3, <1>4

LEMMA ConsoleStep == ConsoleInv /\ [Next]_vars => ConsoleInv'
  BY QuietSteps, PutSteps, GetStep, OutputSteps, InputSteps, AcceptStep
     DEF Next, TelnetThread, Emulator

\* The inductive invariant of the rings, the telnet thread and the emulator's
\* hooks.
THEOREM ConsoleInvariant == Spec => []ConsoleInv
  BY ConsoleInit, ConsoleStep, PTL DEF Spec

\* Type correctness of the console, for every size of its rings.
THEOREM ConsoleTypeCorrect == Spec => []TypeOK
  <1>1. ConsoleInv => TypeOK
    BY TypesAreTypeOK DEF ConsoleInv
  <1> QED
    BY <1>1, ConsoleInvariant, PTL

\* The count the emulator holds is not behind tn_dropped, which only a new
\* session changes meanwhile, to 0.
CountInv ==
  /\ epc = "count" => ereg >= tn_dropped
  /\ tn_active => DropsCounted

\* A byte in the hook's hand goes into the ring or into the count.
LEMMA CountStep == ConsoleInv /\ CountInv /\ [Next]_vars => CountInv'
  <1> SUFFICES ASSUME ConsoleInv, CountInv, [Next]_vars PROVE CountInv'
    OBVIOUS
  <1>1. /\ nout \in Nat /\ first \in Nat /\ tn_dropped \in Nat /\ ereg \in Nat
        /\ tn_active \in BOOLEAN
        /\ epc \in {"idle", "put", "store", "publish", "count", "get", "advance"}
    BY ConsoleAssumption
       DEF ConsoleInv, ConsoleTypes, HistoryTypes, ThreadTypes, HookTypes, FlagTypes
  <1>2. Len(sent) \in Nat /\ sent \in Seq(Ids)
    BY DEF ConsoleInv, ConsoleTypes, HistoryTypes
  <1>3. CASE UNCHANGED << nout, first, sent, tn_dropped, epc, ereg >> /\ (tn_active' => tn_active)
    BY <1>3 DEF CountInv, DropsCounted, InPut
  <1>4. CASE Accept
    <2>1. CASE tn_active
      <3>1. UNCHANGED << nout, first, sent, tn_dropped, epc, ereg, tn_active >>
        BY <1>4, <2>1 DEF Accept, hookVars, countVars
      <3> QED
        BY <1>3, <3>1
    <2>2. CASE ~tn_active
      BY <1>4, <2>2 DEF Accept, hookVars, CountInv
    <2> QED
      BY <2>1, <2>2
  <1>5. CASE HelloSent
    <2>1. /\ tn_dropped' = 0 /\ first' = nout
          /\ UNCHANGED << nout, sent, epc, ereg >>
      BY <1>5 DEF HelloSent, hookVars, countVars
    <2> QED
      BY <1>1, <1>2, <2>1 DEF CountInv, DropsCounted, InPut
  <1>6. CASE OutBegin
    <2>1. /\ epc = "idle" /\ nout' = nout + 1
          /\ UNCHANGED << first, sent, tn_dropped, tn_active >>
          /\ tn_active => epc' = "put"
          /\ ~tn_active => epc' = epc
      BY <1>6 DEF OutBegin, histVars
    <2> QED
      BY <1>1, <1>2, <2>1 DEF CountInv, DropsCounted, InPut
  <1>7. CASE PutRead
    <2>1. /\ epc = "put" /\ UNCHANGED << nout, first, sent, tn_dropped, tn_active >>
          /\ (epc' = "count" /\ ereg' = tn_dropped) \/ epc' = "store"
      BY <1>7 DEF PutRead, countVars, histVars
    <2> QED
      BY <1>1, <1>2, <2>1 DEF CountInv, DropsCounted, InPut
  <1>8. CASE PutCount
    <2>1. /\ epc = "count" /\ epc' = "idle" /\ tn_dropped' = ereg + 1
          /\ UNCHANGED << nout, first, sent, tn_active >>
      BY <1>8 DEF PutCount, countVars, histVars
    <2> QED
      BY <1>1, <1>2, <2>1 DEF CountInv, DropsCounted, InPut
  <1>9. CASE PutStore
    <2>1. /\ epc = "store" /\ epc' = "publish"
          /\ UNCHANGED << nout, first, sent, tn_dropped, tn_active >>
      BY <1>9 DEF PutStore, countVars, histVars
    <2> QED
      BY <1>1, <1>2, <2>1 DEF CountInv, DropsCounted, InPut
  <1>10. CASE PutPublish
    <2>1. /\ epc = "publish" /\ epc' = "idle" /\ sent' = Append(sent, ebyte)
          /\ UNCHANGED << nout, first, tn_dropped, tn_active >>
      BY <1>10 DEF PutPublish, countVars
    <2>2. Len(Append(sent, ebyte)) = Len(sent) + 1
      <3>1. ebyte \in Ids
        BY DEF ConsoleInv, ConsoleTypes, HookTypes
      <3> QED
        BY <1>2, <3>1
    <2> QED
      BY <1>1, <1>2, <2>1, <2>2 DEF CountInv, DropsCounted, InPut
  <1>11. CASE InBegin \/ GetRead \/ GetAdvance
    <2>1. /\ epc \in {"idle", "get", "advance"} /\ epc' \in {"idle", "get", "advance"}
          /\ UNCHANGED << nout, first, sent, tn_dropped, tn_active >>
      BY <1>11 DEF InBegin, GetRead, GetAdvance, countVars, histVars
    <2>2. InPut' = InPut /\ epc' # "count"
      BY <2>1 DEF InPut
    <2>3. DropsCounted' <=> DropsCounted
      BY <2>1, <2>2 DEF DropsCounted
    <2>4. tn_active' <=> tn_active
      BY <2>1
    <2> QED
      BY <2>2, <2>3, <2>4 DEF CountInv
  <1>12. CASE Connect \/ HelloFails \/ PollIdle \/ Flush \/ SendOk \/ ClientGone
              \/ UNCHANGED vars \/ \E n \in 1..Chunk : PollData(n)
    <2>1. UNCHANGED << first, sent, epc, ereg, nout >>
      BY <1>12 DEF Connect, HelloFails, PollIdle, Flush, SendOk, ClientGone, PollData,
                   vars, hookVars, countVars, histVars
    <2>2. tn_dropped' = tn_dropped
      BY <1>12 DEF Connect, HelloFails, PollIdle, Flush, SendOk, ClientGone, PollData, vars
    <2>3. tn_active' => tn_active
      BY <1>12, Zenon DEF Connect, HelloFails, PollIdle, Flush, SendOk, ClientGone, PollData,
                          vars
    <2> QED
      BY <1>3, <2>1, <2>2, <2>3
  <1> QED
    BY <1>4, <1>5, <1>6, <1>7, <1>8, <1>9, <1>10, <1>11, <1>12
       DEF Next, TelnetThread, Emulator

LEMMA CountInvariant == Spec => []CountInv
  <1>1. Init => CountInv
    BY DEF Init, CountInv
  <1> QED
    BY <1>1, CountStep, ConsoleInvariant, PTL DEF Spec

\* What was put into either ring of telnet.c is delivered in order and without a
\* gap, whatever the preemptions inside spsc_put() and spsc_get(), in every
\* session whose reset did not meet a hook; and every byte of guest output that
\* found no room is in tn_dropped.  For every size of the rings and every batch.
THEOREM RingsDeliverInOrder == Spec => []BytesInOrder
  <1>1. ConsoleInv /\ CountInv => BytesInOrder
    BY DEF ConsoleInv, CountInv, BytesInOrder, Greeted
  <1> QED
    BY <1>1, ConsoleInvariant, CountInvariant, PTL
-----------------------------------------------------------------------------
(* The protocol filter: where a byte of a token meets the parser *)

\* The parser is in state s with the rest of the token still to come, and the
\* guest lacks todo of what the client meant.
Met(s, cr, rest, todo) ==
  tn_state = s /\ tn_saw_cr = cr /\ stream = rest /\ meant = guest \o todo

Between == Met("data", FALSE, << >>, << >>)
Plain == \E d \in {65, LF} : Met("data", FALSE, << d >>, << d >>)
Doubled ==
  \/ Met("data", FALSE, << IAC, IAC >>, << IAC >>)
  \/ Met("iac", FALSE, << IAC >>, << IAC >>)
Enter ==
  \E e \in {LF, NUL} :
    \/ Met("data", FALSE, << CR, e >>, << CR >>)
    \/ Met("data", TRUE, << e >>, << >>)
Negotiation ==
  \E v \in Verbs, o \in Options :
    \/ Met("data", FALSE, << IAC, v, o >>, << >>)
    \/ Met("iac", FALSE, << v, o >>, << >>)
    \/ Met("opt", FALSE, << o >>, << >>) /\ tn_verb = v
Subnegotiation ==
  \/ Met("data", FALSE, << IAC, SB, 24, IAC, IAC, 65, IAC, SE >>, << >>)
  \/ Met("iac", FALSE, << SB, 24, IAC, IAC, 65, IAC, SE >>, << >>)
  \/ Met("sb", FALSE, << 24, IAC, IAC, 65, IAC, SE >>, << >>)
  \/ Met("sb", FALSE, << IAC, IAC, 65, IAC, SE >>, << >>)
  \/ Met("sb_iac", FALSE, << IAC, 65, IAC, SE >>, << >>)
  \/ Met("sb", FALSE, << 65, IAC, SE >>, << >>)
  \/ Met("sb", FALSE, << IAC, SE >>, << >>)
  \/ Met("sb_iac", FALSE, << SE >>, << >>)
Command ==
  \/ Met("data", FALSE, << IAC, NOP >>, << >>)
  \/ Met("iac", FALSE, << NOP >>, << >>)

\* Wherever TCP cuts the stream, the parser stands at a point of one token.
TokenInv ==
  \/ Between \/ Plain \/ Doubled \/ Enter
  \/ Negotiation \/ Subnegotiation \/ Command

\* The greeting announces both options, and each flag allows one more.
AnnouncedOnce ==
  /\ wills \in [{ECHO, SGA} -> Nat]
  /\ \A o \in {ECHO, SGA} : wills[o] <= IF o \in tn_said THEN 2 ELSE 1

FilterTypes ==
  /\ tn_said \subseteq {ECHO, SGA}
  /\ reply \in Seq(0..255) /\ Len(reply) <= REPLY
  /\ in \in 0..CHUNK
  /\ tokens \in 0..MaxTokens
  /\ stream \in Seq(0..255)
  /\ guest \in Seq(0..255) /\ meant \in Seq(0..255)

ParserTypes == tn_verb \in Verbs \cup {0}

FilterInv == FilterTypes /\ ParserTypes /\ AnnouncedOnce /\ TokenInv

LEMMA FilterStarts == FilterInit => FilterInv
  <1> SUFFICES ASSUME FilterInit PROVE FilterInv
    OBVIOUS
  <1>1. << >> \in Seq(0..255) /\ Len(<< >>) = 0 /\ << >> \o << >> = << >>
    BY ConcatEmptySeq
  <1>2. FilterTypes /\ ParserTypes
    BY <1>1, FilterAssumption DEF FilterInit, FilterTypes, ParserTypes
  <1>3. AnnouncedOnce
    BY DEF FilterInit, AnnouncedOnce, ECHO, SGA
  <1>4. Between
    BY <1>1 DEF FilterInit, Between, Met
  <1> QED
    BY <1>2, <1>3, <1>4 DEF FilterInv, TokenInv
-----------------------------------------------------------------------------
(* What tn_rx_byte() does with one byte, by the state it finds *)

LEMMA OnData ==
  ASSUME NEW b, InData(b), tn_saw_cr \in BOOLEAN
  PROVE  /\ UNCHANGED << tn_verb, reply, tn_said, wills >>
         /\ b = IAC => tn_state' = "iac" /\ UNCHANGED << guest, tn_saw_cr >>
         /\ tn_saw_cr /\ b \in {NUL, LF} =>
              tn_state' = "data" /\ tn_saw_cr' = FALSE /\ guest' = guest
         /\ b # IAC /\ ~tn_saw_cr => tn_state' = "data" /\ guest' = Append(guest, b)
         /\ b = CR /\ ~tn_saw_cr => tn_saw_cr' = TRUE
         /\ b \notin {IAC, CR} /\ ~tn_saw_cr => tn_saw_cr' = FALSE
  <1>1. IAC # NUL /\ IAC # LF /\ IAC # CR /\ CR # NUL /\ CR # LF
    BY DEF IAC, NUL, LF, CR
  <1>2. UNCHANGED << tn_verb, reply, tn_said, wills >>
    BY DEF InData, Silent
  <1>3. b = IAC => tn_state' = "iac" /\ UNCHANGED << guest, tn_saw_cr >>
    BY <1>1, Zenon DEF InData, Kept, Goto
  <1>4. tn_saw_cr /\ b \in {NUL, LF} =>
          tn_state' = "data" /\ tn_saw_cr' = FALSE /\ guest' = guest
    BY <1>1, Zenon DEF InData, Kept, Goto
  <1>5. b # IAC /\ ~tn_saw_cr =>
          tn_state' = "data" /\ tn_saw_cr' = (b = CR) /\ guest' = Append(guest, b)
    BY <1>1, Zenon DEF InData, Kept, Goto
  <1>6. b = CR /\ ~tn_saw_cr => tn_saw_cr' = TRUE
    <2> SUFFICES ASSUME b = CR, ~tn_saw_cr PROVE tn_saw_cr' = TRUE
      OBVIOUS
    <2>1. tn_saw_cr' = (b = CR)
      BY <1>1, <1>5
    <2>2. (b = CR) = TRUE
      OBVIOUS
    <2> QED
      BY <2>1, <2>2, Zenon
  <1>7. b \notin {IAC, CR} /\ ~tn_saw_cr => tn_saw_cr' = FALSE
    <2> SUFFICES ASSUME b \notin {IAC, CR}, ~tn_saw_cr PROVE tn_saw_cr' = FALSE
      OBVIOUS
    <2>1. tn_saw_cr' = (b = CR)
      BY <1>5
    <2>2. (b = CR) = FALSE
      OBVIOUS
    <2> QED
      BY <2>1, <2>2, Zenon
  <1> QED
    BY <1>2, <1>3, <1>4, <1>5, <1>6, <1>7, Zenon

LEMMA OnIac ==
  ASSUME NEW b, InIac(b)
  PROVE  /\ UNCHANGED << reply, tn_said, wills >>
         /\ tn_verb' = IF b \in Verbs THEN b ELSE tn_verb
         /\ b = IAC => tn_state' = "data" /\ tn_saw_cr' = FALSE
                       /\ guest' = Append(guest, IAC)
         /\ b \in Verbs => tn_state' = "opt" /\ UNCHANGED << guest, tn_saw_cr >>
         /\ b = SB => tn_state' = "sb" /\ UNCHANGED << guest, tn_saw_cr >>
         /\ b = NOP => tn_state' = "data" /\ UNCHANGED << guest, tn_saw_cr >>
  BY DEF InIac, Silent, Kept, Goto, IAC, SB, NOP, Verbs, WILL, WONT, DO, DONT

\* Only the state the parser is in takes the byte.
LEMMA ByState ==
  ASSUME NEW b, TnRxByte(b)
  PROVE  /\ tn_state = "data" => InData(b)
         /\ tn_state = "iac" => InIac(b)
         /\ tn_state = "opt" => InOpt(b)
         /\ tn_state = "sb" => InSb(b)
         /\ tn_state = "sb_iac" => InSbIac(b)
  BY DEF TnRxByte

\* The token advances by the byte that was read.
LEMMA Taken ==
  ASSUME Receive
  PROVE  /\ stream' = Tail(stream) /\ meant' = meant /\ tokens' = tokens
         /\ in' = in + 1 /\ in < CHUNK /\ ~Due /\ TnRxByte(Head(stream))
  BY DEF Receive

LEMMA OneDatum ==
  \A s \in Seq(0..255) : \A d \in 0..255 :
    s \o << d >> = Append(s, d) /\ Append(s, d) \o << >> = Append(s, d)
    /\ Append(s, d) \in Seq(0..255) /\ s \o << >> = s
  OBVIOUS

LEMMA PlainByte ==
  ASSUME FilterTypes, Receive, Plain
  PROVE  Between'
  <1>1. PICK d \in {65, LF} : Met("data", FALSE, << d >>, << d >>)
    BY DEF Plain
  <1>2. Head(stream) = d /\ Tail(stream) = << >>
    BY <1>1 DEF Met
  <1>3. InData(d)
    BY <1>1, <1>2, Taken, ByState DEF Met
  <1>4. tn_state' = "data" /\ tn_saw_cr' = FALSE /\ guest' = Append(guest, d)
    <2>1. d \notin {IAC, CR}
      BY DEF IAC, CR, LF
    <2>2. tn_saw_cr = FALSE
      BY <1>1 DEF Met
    <2> QED
      BY <1>3, <2>1, <2>2, OnData, Zenon
  <1>5. meant' = guest' \o << >>
    <2>1. d \in 0..255
      BY DEF LF
    <2>2. meant' = guest \o << d >>
      BY <1>1, Taken DEF Met
    <2> QED
      BY <1>4, <2>1, <2>2, OneDatum DEF FilterTypes
  <1> QED
    BY <1>2, <1>4, <1>5, Taken DEF Between, Met

LEMMA DoubledByte ==
  ASSUME FilterTypes, Receive, Doubled
  PROVE  Doubled' \/ Between'
  <1>1. CASE Met("data", FALSE, << IAC, IAC >>, << IAC >>)
    <2>1. Head(stream) = IAC /\ Tail(stream) = << IAC >>
      BY <1>1 DEF Met
    <2>2. InData(IAC)
      BY <1>1, <2>1, Taken, ByState DEF Met
    <2>3. tn_state' = "iac" /\ UNCHANGED << guest, tn_saw_cr >>
      BY <1>1, <2>2, OnData DEF Met
    <2> QED
      BY <1>1, <2>1, <2>3, Taken DEF Doubled, Met
  <1>2. CASE Met("iac", FALSE, << IAC >>, << IAC >>)
    <2>1. Head(stream) = IAC /\ Tail(stream) = << >>
      BY <1>2 DEF Met
    <2>2. InIac(IAC)
      BY <1>2, <2>1, Taken, ByState DEF Met
    <2>3. tn_state' = "data" /\ tn_saw_cr' = FALSE /\ guest' = Append(guest, IAC)
      BY <2>2, OnIac
    <2>4. IAC \in 0..255
      BY DEF IAC
    <2>5. meant' = guest' \o << >>
      BY <1>2, <2>3, <2>4, Taken, OneDatum DEF FilterTypes, Met
    <2> QED
      BY <2>1, <2>3, <2>5, Taken DEF Between, Met
  <1> QED
    BY <1>1, <1>2 DEF Doubled

LEMMA EnterByte ==
  ASSUME FilterTypes, Receive, Enter
  PROVE  Enter' \/ Between'
  <1>1. PICK e \in {LF, NUL} : \/ Met("data", FALSE, << CR, e >>, << CR >>)
                               \/ Met("data", TRUE, << e >>, << >>)
    BY DEF Enter
  <1>2. CASE Met("data", FALSE, << CR, e >>, << CR >>)
    <2>1. Head(stream) = CR /\ Tail(stream) = << e >>
      BY <1>2 DEF Met
    <2>2. InData(CR)
      BY <1>2, <2>1, Taken, ByState DEF Met
    <2>3. tn_state' = "data" /\ tn_saw_cr' = TRUE /\ guest' = Append(guest, CR)
      <3>1. CR # IAC
        BY DEF IAC, CR
      <3>2. tn_saw_cr = FALSE
        BY <1>2 DEF Met
      <3> QED
        BY <2>2, <3>1, <3>2, OnData, Zenon
    <2>4. CR \in 0..255
      BY DEF CR
    <2>5. meant' = guest' \o << >>
      BY <1>2, <2>3, <2>4, Taken, OneDatum DEF FilterTypes, Met
    <2>6. Met("data", TRUE, << e >>, << >>)'
      BY <2>1, <2>3, <2>5, Taken DEF Met
    <2> QED
      BY <2>6 DEF Enter
  <1>3. CASE Met("data", TRUE, << e >>, << >>)
    <2>1. Head(stream) = e /\ Tail(stream) = << >>
      BY <1>3 DEF Met
    <2>2. InData(e)
      BY <1>3, <2>1, Taken, ByState DEF Met
    <2>3. tn_state' = "data" /\ tn_saw_cr' = FALSE /\ guest' = guest
      BY <1>3, <2>2, OnData DEF Met
    <2> QED
      BY <1>3, <2>1, <2>3, Taken DEF Between, Met
  <1> QED
    BY <1>1, <1>2, <1>3

LEMMA NegotiationByte ==
  ASSUME FilterTypes, Receive, Negotiation
  PROVE  Negotiation' \/ Between'
  <1>1. PICK v \in Verbs, o \in Options :
          \/ Met("data", FALSE, << IAC, v, o >>, << >>)
          \/ Met("iac", FALSE, << v, o >>, << >>)
          \/ Met("opt", FALSE, << o >>, << >>) /\ tn_verb = v
    BY DEF Negotiation
  <1>2. CASE Met("data", FALSE, << IAC, v, o >>, << >>)
    <2>1. Head(stream) = IAC /\ Tail(stream) = << v, o >>
      BY <1>2 DEF Met
    <2>2. InData(IAC)
      BY <1>2, <2>1, Taken, ByState DEF Met
    <2>3. tn_state' = "iac" /\ UNCHANGED << guest, tn_saw_cr >>
      BY <1>2, <2>2, OnData DEF Met
    <2>4. Met("iac", FALSE, << v, o >>, << >>)'
      BY <1>2, <2>1, <2>3, Taken DEF Met
    <2> QED
      BY <2>4 DEF Negotiation
  <1>3. CASE Met("iac", FALSE, << v, o >>, << >>)
    <2>1. Head(stream) = v /\ Tail(stream) = << o >>
      BY <1>3 DEF Met
    <2>2. InIac(v)
      BY <1>3, <2>1, Taken, ByState DEF Met
    <2>3. tn_state' = "opt" /\ UNCHANGED << guest, tn_saw_cr >> /\ tn_verb' = v
      BY <2>2, OnIac
    <2>4. Met("opt", FALSE, << o >>, << >>)'
      BY <1>3, <2>1, <2>3, Taken DEF Met
    <2> QED
      BY <2>3, <2>4 DEF Negotiation
  <1>4. CASE Met("opt", FALSE, << o >>, << >>)
    <2>1. Head(stream) = o /\ Tail(stream) = << >>
      BY <1>4 DEF Met
    <2>2. InOpt(o)
      BY <1>4, <2>1, Taken, ByState DEF Met
    <2>3. tn_state' = "data" /\ UNCHANGED << guest, tn_saw_cr >>
      BY <2>2 DEF InOpt, Goto, Kept
    <2> QED
      BY <1>4, <2>1, <2>3, Taken DEF Between, Met
  <1> QED
    BY <1>1, <1>2, <1>3, <1>4

\* Inside a subnegotiation nothing reaches the guest, whatever the byte is.
LEMMA SubnegotiationByte ==
  ASSUME FilterTypes, Receive, Subnegotiation
  PROVE  Subnegotiation' \/ Between'
  <1>1. CASE Met("data", FALSE, << IAC, SB, 24, IAC, IAC, 65, IAC, SE >>, << >>)
    <2>1. Head(stream) = IAC /\ Tail(stream) = << SB, 24, IAC, IAC, 65, IAC, SE >>
      BY <1>1 DEF Met
    <2>2. InData(IAC)
      BY <1>1, <2>1, Taken, ByState DEF Met
    <2>3. tn_state' = "iac" /\ UNCHANGED << guest, tn_saw_cr >>
      BY <1>1, <2>2, OnData DEF Met
    <2>4. Met("iac", FALSE, << SB, 24, IAC, IAC, 65, IAC, SE >>, << >>)'
      BY <1>1, <2>1, <2>3, Taken DEF Met
    <2> QED
      BY <2>4 DEF Subnegotiation
  <1>2. CASE Met("iac", FALSE, << SB, 24, IAC, IAC, 65, IAC, SE >>, << >>)
    <2>1. Head(stream) = SB /\ Tail(stream) = << 24, IAC, IAC, 65, IAC, SE >>
      BY <1>2 DEF Met
    <2>2. InIac(SB)
      BY <1>2, <2>1, Taken, ByState DEF Met
    <2>3. tn_state' = "sb" /\ UNCHANGED << guest, tn_saw_cr >>
      BY <2>2, OnIac
    <2>4. Met("sb", FALSE, << 24, IAC, IAC, 65, IAC, SE >>, << >>)'
      BY <1>2, <2>1, <2>3, Taken DEF Met
    <2> QED
      BY <2>4 DEF Subnegotiation
  <1>3. CASE tn_state = "sb"
    <2>1. InSb(Head(stream))
      BY <1>3, Taken, ByState
    <2>2. /\ tn_state' = IF Head(stream) = IAC THEN "sb_iac" ELSE "sb"
          /\ UNCHANGED << guest, tn_saw_cr >>
      BY <2>1 DEF InSb, Goto, Kept
    <2>3. IAC # 24 /\ IAC # 65
      BY DEF IAC
    <2>4. CASE Met("sb", FALSE, << 24, IAC, IAC, 65, IAC, SE >>, << >>)
      <3>1. Head(stream) = 24 /\ Tail(stream) = << IAC, IAC, 65, IAC, SE >>
        BY <2>4 DEF Met
      <3> QED
        BY <2>2, <2>3, <2>4, <3>1, Taken DEF Subnegotiation, Met
    <2>5. CASE Met("sb", FALSE, << IAC, IAC, 65, IAC, SE >>, << >>)
      <3>1. Head(stream) = IAC /\ Tail(stream) = << IAC, 65, IAC, SE >>
        BY <2>5 DEF Met
      <3> QED
        BY <2>2, <2>5, <3>1, Taken DEF Subnegotiation, Met
    <2>6. CASE Met("sb", FALSE, << 65, IAC, SE >>, << >>)
      <3>1. Head(stream) = 65 /\ Tail(stream) = << IAC, SE >>
        BY <2>6 DEF Met
      <3> QED
        BY <2>2, <2>3, <2>6, <3>1, Taken DEF Subnegotiation, Met
    <2>7. CASE Met("sb", FALSE, << IAC, SE >>, << >>)
      <3>1. Head(stream) = IAC /\ Tail(stream) = << SE >>
        BY <2>7 DEF Met
      <3> QED
        BY <2>2, <2>7, <3>1, Taken DEF Subnegotiation, Met
    <2> QED
      BY <1>3, <2>4, <2>5, <2>6, <2>7 DEF Subnegotiation, Met
  <1>4. CASE tn_state = "sb_iac"
    <2>1. InSbIac(Head(stream))
      BY <1>4, Taken, ByState
    <2>2. /\ tn_state' = IF Head(stream) = SE THEN "data" ELSE "sb"
          /\ UNCHANGED << guest, tn_saw_cr >>
      BY <2>1 DEF InSbIac, Goto, Kept
    <2>3. CASE Met("sb_iac", FALSE, << IAC, 65, IAC, SE >>, << >>)
      <3>1. Head(stream) = IAC /\ Tail(stream) = << 65, IAC, SE >> /\ IAC # SE
        BY <2>3 DEF Met, IAC, SE
      <3> QED
        BY <2>2, <2>3, <3>1, Taken DEF Subnegotiation, Met
    <2>4. CASE Met("sb_iac", FALSE, << SE >>, << >>)
      <3>1. Head(stream) = SE /\ Tail(stream) = << >>
        BY <2>4 DEF Met
      <3> QED
        BY <2>2, <2>4, <3>1, Taken DEF Between, Met
    <2> QED
      BY <1>4, <2>3, <2>4 DEF Subnegotiation, Met
  <1> QED
    BY <1>1, <1>2, <1>3, <1>4 DEF Subnegotiation, Met

LEMMA CommandByte ==
  ASSUME FilterTypes, Receive, Command
  PROVE  Command' \/ Between'
  <1>1. CASE Met("data", FALSE, << IAC, NOP >>, << >>)
    <2>1. Head(stream) = IAC /\ Tail(stream) = << NOP >>
      BY <1>1 DEF Met
    <2>2. InData(IAC)
      BY <1>1, <2>1, Taken, ByState DEF Met
    <2>3. tn_state' = "iac" /\ UNCHANGED << guest, tn_saw_cr >>
      BY <1>1, <2>2, OnData DEF Met
    <2> QED
      BY <1>1, <2>1, <2>3, Taken DEF Command, Met
  <1>2. CASE Met("iac", FALSE, << NOP >>, << >>)
    <2>1. Head(stream) = NOP /\ Tail(stream) = << >>
      BY <1>2 DEF Met
    <2>2. InIac(NOP)
      BY <1>2, <2>1, Taken, ByState DEF Met
    <2>3. tn_state' = "data" /\ UNCHANGED << guest, tn_saw_cr >>
      BY <2>2, OnIac
    <2> QED
      BY <1>2, <2>1, <2>3, Taken DEF Between, Met
  <1> QED
    BY <1>1, <1>2 DEF Command
-----------------------------------------------------------------------------
(* The replies *)

\* What InOpt() may do to the reply and to the announcements.
LEMMA Longer ==
  \A s \in Seq(0..255) : \A x, y, z \in 0..255 :
    s \o << x, y, z >> \in Seq(0..255) /\ Len(s \o << x, y, z >>) = Len(s) + 3
  OBVIOUS

\* A request is answered in three bytes at most, and a WILL takes its flag.
LEMMA OptAnswers ==
  ASSUME FilterTypes, AnnouncedOnce, NEW b \in 0..255, InOpt(b)
  PROVE  /\ AnnouncedOnce' /\ tn_said' \subseteq {ECHO, SGA}
         /\ reply' \in Seq(0..255) /\ Len(reply') <= Len(reply) + 3
  <1>0. /\ reply \in Seq(0..255) /\ tn_said \subseteq {ECHO, SGA}
        /\ wills \in [{ECHO, SGA} -> Nat]
        /\ \A o \in {ECHO, SGA} : wills[o] <= IF o \in tn_said THEN 2 ELSE 1
    BY DEF FilterTypes, AnnouncedOnce
  <1>1. Len(reply) \in Nat
    BY <1>0
  <1>2. ASSUME NEW v \in {WILL, WONT, DO, DONT}, Answer(v, b)
        PROVE  reply' \in Seq(0..255) /\ Len(reply') <= Len(reply) + 3
    <2>1. v \in 0..255 /\ IAC \in 0..255
      BY DEF IAC, WILL, WONT, DO, DONT
    <2>2. reply' = reply \o << IAC, v, b >>
      BY <1>2 DEF Answer
    <2>3. /\ reply \o << IAC, v, b >> \in Seq(0..255)
          /\ Len(reply \o << IAC, v, b >>) = Len(reply) + 3
      <3>1. \A x, y, z \in 0..255 :
              /\ reply \o << x, y, z >> \in Seq(0..255)
              /\ Len(reply \o << x, y, z >>) = Len(reply) + 3
        BY <1>0, Longer, Zenon
      <3> QED
        BY <2>1, <3>1, Zenon
    <2>4. Len(reply) + 3 <= Len(reply) + 3
      BY <1>1
    <2> QED
      BY <2>2, <2>3, <2>4, Zenon
  <1>3. CASE UNCHANGED << reply, tn_said, wills >>
    BY <1>0, <1>1, <1>3 DEF AnnouncedOnce
  <1>4. CASE b \in {ECHO, SGA} /\ b \notin tn_said /\ Announce(b)
    <2>1. /\ Answer(WILL, b) /\ tn_said' = tn_said \cup {b}
          /\ wills' = [wills EXCEPT ![b] = @ + 1]
      BY <1>4 DEF Announce
    <2>2. reply' \in Seq(0..255) /\ Len(reply') <= Len(reply) + 3
      BY <1>2, <2>1
    <2>3. wills' \in [{ECHO, SGA} -> Nat]
      BY <1>0, <1>4, <2>1
    <2>4. ASSUME NEW o \in {ECHO, SGA}
          PROVE  wills'[o] <= IF o \in tn_said' THEN 2 ELSE 1
      <3>1. CASE o = b
        BY <1>0, <1>4, <2>1, <3>1
      <3>2. CASE o # b
        BY <1>0, <1>4, <2>1, <3>2
      <3> QED
        BY <3>1, <3>2
    <2> QED
      BY <1>0, <1>4, <2>1, <2>2, <2>3, <2>4 DEF AnnouncedOnce
  <1>5. CASE /\ UNCHANGED << tn_said, wills >>
             /\ Answer(WONT, b) \/ Answer(DO, b) \/ Answer(DONT, b)
    <2>1. reply' \in Seq(0..255) /\ Len(reply') <= Len(reply) + 3
      BY <1>2, <1>5
    <2> QED
      BY <1>0, <1>5, <2>1 DEF AnnouncedOnce
  <1> QED
    BY <1>3, <1>4, <1>5 DEF InOpt, Announce, Silent

\* One byte adds at most one answer.
LEMMA ByteAnswers ==
  ASSUME FilterInv, Receive
  PROVE  /\ AnnouncedOnce' /\ tn_said' \subseteq {ECHO, SGA}
         /\ reply' \in Seq(0..255) /\ Len(reply') <= Len(reply) + 3
         /\ ParserTypes' /\ guest' \in Seq(0..255)
  <1>0. /\ FilterTypes /\ AnnouncedOnce /\ tn_verb \in Verbs \cup {0}
    BY DEF FilterInv, ParserTypes
  <1>1. PICK b \in 0..255 : TnRxByte(b)
    <2>1. stream # << >> /\ stream \in Seq(0..255)
      BY <1>0 DEF Receive, FilterTypes
    <2>2. Head(stream) \in 0..255
      BY <2>1, HeadTailProperties, Zenon
    <2> QED
      BY <2>2, Taken
  <1>2. ASSUME UNCHANGED << reply, tn_said, wills >>
        PROVE  /\ AnnouncedOnce' /\ tn_said' \subseteq {ECHO, SGA}
               /\ reply' \in Seq(0..255) /\ Len(reply') <= Len(reply) + 3
    <2>1. Len(reply) \in Nat /\ Len(reply) <= Len(reply) + 3
      BY <1>0 DEF FilterTypes
    <2> QED
      BY <1>0, <1>2, <2>1 DEF FilterTypes, AnnouncedOnce
  <1>3. guest \in Seq(0..255) /\ Append(guest, b) \in Seq(0..255)
        /\ Append(guest, IAC) \in Seq(0..255)
    BY <1>0, <1>1 DEF FilterTypes, IAC
  <1>4. guest' = guest \/ guest' = Append(guest, b) \/ guest' = Append(guest, IAC)
    BY <1>1, Zenon DEF TnRxByte, InData, InIac, InOpt, InSb, InSbIac, Kept
  <1>5. tn_verb' = tn_verb \/ (b \in Verbs /\ tn_verb' = b)
    BY <1>1, Zenon DEF TnRxByte, InData, InIac, InOpt, InSb, InSbIac
  <1>6. UNCHANGED << reply, tn_said, wills >> \/ InOpt(b)
    BY <1>1, Zenon DEF TnRxByte, InData, InIac, InSb, InSbIac, Silent
  <1>7. InOpt(b) => /\ AnnouncedOnce' /\ tn_said' \subseteq {ECHO, SGA}
                    /\ reply' \in Seq(0..255) /\ Len(reply') <= Len(reply) + 3
    BY <1>0, <1>1, OptAnswers
  <1> QED
    BY <1>0, <1>2, <1>3, <1>4, <1>5, <1>6, <1>7 DEF ParserTypes

LEMMA ReceiveStep ==
  ASSUME FilterInv, Receive
  PROVE  FilterInv'
  <1>0. FilterTypes /\ TokenInv
    BY DEF FilterInv
  <1>1. TokenInv'
    <2>1. ~Between
      BY DEF Between, Met, Receive
    <2> QED
      BY <1>0, <2>1, PlainByte, DoubledByte, EnterByte, NegotiationByte,
         SubnegotiationByte, CommandByte DEF TokenInv
  <1>2. FilterTypes'
    <2>1. Len(reply') <= REPLY
      <3>1. Len(reply) \in Nat /\ ~(Len(reply) > REPLY - 3)
        BY <1>0, Taken DEF FilterTypes, Due
      <3>2. Len(reply') <= Len(reply) + 3 /\ Len(reply') \in Nat
        BY ByteAnswers
      <3> QED
        BY <3>1, <3>2, FilterAssumption
    <2>2. in' \in 0..CHUNK
      BY <1>0, Taken, FilterAssumption DEF FilterTypes
    <2>3. stream' \in Seq(0..255)
      BY <1>0 DEF FilterTypes, Receive
    <2> QED
      BY <1>0, <2>1, <2>2, <2>3, ByteAnswers, Taken DEF FilterTypes
  <1> QED
    BY <1>1, <1>2, ByteAnswers DEF FilterInv
-----------------------------------------------------------------------------
LEMMA ReplyStep ==
  ASSUME FilterInv, SendReply
  PROVE  FilterInv'
  <1>1. << >> \in Seq(0..255) /\ Len(<< >>) = 0
    OBVIOUS
  <1>2. /\ UNCHANGED << tn_state, tn_verb, tn_saw_cr, tn_said, guest, wills >>
        /\ UNCHANGED << stream, tokens, meant >>
        /\ reply' = << >> /\ in' \in {in, 0}
    BY DEF SendReply, clientVars
  <1>3. TokenInv' = TokenInv
    BY <1>2 DEF TokenInv, Between, Plain, Doubled, Enter, Negotiation, Subnegotiation,
                Command, Met
  <1>4. FilterTypes' /\ ParserTypes' /\ AnnouncedOnce'
    BY <1>1, <1>2, FilterAssumption DEF FilterInv, FilterTypes, ParserTypes, AnnouncedOnce
  <1> QED
    BY <1>3, <1>4 DEF FilterInv

LEMMA BytesOfTokens ==
  ASSUME NEW t \in Tokens
  PROVE  t.bytes \in Seq(0..255) /\ t.data \in Seq(0..255)
  <1>0. /\ {IAC, SB, SE, NOP, CR, LF, NUL, 24, 65} \subseteq 0..255
        /\ Verbs \subseteq 0..255 /\ Options \subseteq 0..255 /\ Data \subseteq 0..255
    BY DEF Data, Verbs, Options, IAC, WILL, WONT, DO, DONT, SB, SE, NOP, ECHO, SGA, CR,
           LF, NUL
  <1>1. CASE \E d \in Data : /\ t.bytes = IF d = IAC THEN << IAC, IAC >> ELSE << d >>
                             /\ t.data = << d >>
    <2>1. PICK d \in Data : /\ t.bytes = IF d = IAC THEN << IAC, IAC >> ELSE << d >>
                            /\ t.data = << d >>
      BY <1>1
    <2>2. d \in 0..255 /\ IAC \in 0..255
      BY <1>0, <2>1
    <2>3. << d >> \in Seq(0..255) /\ << IAC, IAC >> \in Seq(0..255)
      BY <2>2
    <2> QED
      BY <2>1, <2>3
  <1>2. CASE \E e \in {LF, NUL} : t.bytes = << CR, e >> /\ t.data = << CR >>
    BY <1>0, <1>2
  <1>3. CASE \E v \in Verbs, o \in Options : t.bytes = << IAC, v, o >> /\ t.data = << >>
    BY <1>0, <1>3
  <1>4. CASE t.bytes = << IAC, SB, 24, IAC, IAC, 65, IAC, SE >> /\ t.data = << >>
    BY <1>0, <1>4
  <1>5. CASE t.bytes = << IAC, NOP >> /\ t.data = << >>
    BY <1>0, <1>5
  <1> QED
    BY <1>1, <1>2, <1>3, <1>4, <1>5 DEF Tokens

\* A token starts between two tokens.
LEMMA SendStep ==
  ASSUME FilterInv, NEW t \in Tokens, Send(t)
  PROVE  FilterInv'
  <1>0. FilterTypes /\ ParserTypes /\ AnnouncedOnce /\ TokenInv
    BY DEF FilterInv
  <1>1. /\ UNCHANGED << tn_state, tn_verb, tn_saw_cr, tn_said, reply, in, guest, wills >>
        /\ stream = << >> /\ stream' = t.bytes /\ meant' = meant \o t.data
        /\ tokens' = tokens + 1 /\ tokens < MaxTokens
    BY DEF Send
  <1>2. tn_state = "data" /\ tn_saw_cr = FALSE /\ meant = guest
    <2>1. Between
      BY <1>0, <1>1 DEF TokenInv, Plain, Doubled, Enter, Negotiation, Subnegotiation,
                        Command, Met
    <2> QED
      BY <1>0, <2>1, OneDatum DEF Between, Met, FilterTypes
  <1>3. meant' = guest' \o t.data
    BY <1>1, <1>2
  <1>4. Met("data", FALSE, t.bytes, t.data)'
    BY <1>1, <1>2, <1>3 DEF Met
  <1>5. TokenInv'
    <2>1. CASE \E d \in Data : /\ t.bytes = IF d = IAC THEN << IAC, IAC >> ELSE << d >>
                               /\ t.data = << d >>
      BY <1>4, <2>1 DEF TokenInv, Plain, Doubled, Data, Met
    <2>2. CASE \E e \in {LF, NUL} : t.bytes = << CR, e >> /\ t.data = << CR >>
      BY <1>4, <2>2 DEF TokenInv, Enter, Met
    <2>3. CASE \E v \in Verbs, o \in Options :
                 t.bytes = << IAC, v, o >> /\ t.data = << >>
      BY <1>4, <2>3 DEF TokenInv, Negotiation, Met
    <2>4. CASE t.bytes = << IAC, SB, 24, IAC, IAC, 65, IAC, SE >> /\ t.data = << >>
      BY <1>4, <2>4 DEF TokenInv, Subnegotiation, Met
    <2>5. CASE t.bytes = << IAC, NOP >> /\ t.data = << >>
      BY <1>4, <2>5 DEF TokenInv, Command, Met
    <2> QED
      BY <2>1, <2>2, <2>3, <2>4, <2>5 DEF Tokens
  <1>6. t.bytes \in Seq(0..255) /\ t.data \in Seq(0..255)
    BY BytesOfTokens
  <1>7. meant' \in Seq(0..255)
    BY <1>0, <1>1, <1>6, ConcatProperties DEF FilterTypes
  <1>8. FilterTypes' /\ ParserTypes' /\ AnnouncedOnce'
    BY <1>0, <1>1, <1>6, <1>7, FilterAssumption DEF FilterTypes, ParserTypes, AnnouncedOnce
  <1> QED
    BY <1>5, <1>8 DEF FilterInv

LEMMA SessionStep ==
  ASSUME FilterInv, NewSession
  PROVE  FilterInv'
  <1>1. << >> \in Seq(0..255) /\ Len(<< >>) = 0 /\ << >> \o << >> = << >>
    BY ConcatEmptySeq
  <1>2. FilterTypes' /\ ParserTypes'
    BY <1>1, FilterAssumption DEF NewSession, FilterInv, FilterTypes, ParserTypes
  <1>3. AnnouncedOnce'
    BY DEF NewSession, AnnouncedOnce, ECHO, SGA
  <1>4. Between'
    BY <1>1 DEF NewSession, Between, Met
  <1> QED
    BY <1>2, <1>3, <1>4 DEF FilterInv, TokenInv

LEMMA FilterStep == FilterInv /\ [FilterNext]_filterVars => FilterInv'
  <1>1. ASSUME FilterInv, UNCHANGED filterVars PROVE FilterInv'
    BY <1>1 DEF FilterInv, FilterTypes, ParserTypes, AnnouncedOnce, TokenInv, Between,
                Plain, Doubled, Enter, Negotiation, Subnegotiation, Command, Met,
                filterVars, clientVars
  <1> QED
    BY <1>1, ReceiveStep, ReplyStep, SendStep, SessionStep DEF FilterNext

\* The inductive invariant of tn_rx_byte() and its receive loop.
THEOREM FilterInvariant == FilterSpec => []FilterInv
  BY FilterStarts, FilterStep, PTL DEF FilterSpec

\* Type correctness of the filter.
THEOREM FilterTypeCorrect == FilterSpec => []FilterTypeOK
  <1>1. FilterInv => FilterTypeOK
    <2> SUFFICES ASSUME FilterInv PROVE FilterTypeOK
      OBVIOUS
    <2>1. tn_state \in {"data", "iac", "opt", "sb", "sb_iac"} /\ tn_saw_cr \in BOOLEAN
      BY DEF FilterInv, TokenInv, Between, Plain, Doubled, Enter, Negotiation,
             Subnegotiation, Command, Met
    <2> QED
      BY <2>1 DEF FilterInv, FilterTypes, ParserTypes, AnnouncedOnce, FilterTypeOK
  <1> QED
    BY <1>1, FilterInvariant, PTL

\* The guest gets exactly what the client meant as data, for every length of a
\* session, every size of the receive and of the reply buffer and every cut of
\* the stream.
THEOREM GuestGetsTheData == FilterSpec => []DataIntact
  <1>1. FilterInv => DataIntact
    <2> SUFFICES ASSUME FilterInv, stream = << >>
                 PROVE  guest = meant /\ tn_state = "data"
      BY DEF DataIntact
    <2>1. Between
      BY DEF FilterInv, TokenInv, Plain, Doubled, Enter, Negotiation, Subnegotiation,
             Command, Met
    <2> QED
      BY <2>1, OneDatum DEF FilterInv, FilterTypes, Between, Met
  <1> QED
    BY <1>1, FilterInvariant, PTL

\* No ping-pong and no overrun of the reply buffer, for every size it may have
\* that holds one answer.
THEOREM AnswersStayBounded == FilterSpec => []RepliesBounded
  <1>1. FilterInv => RepliesBounded
    BY DEF FilterInv, FilterTypes, AnnouncedOnce, RepliesBounded, ECHO, SGA
  <1> QED
    BY <1>1, FilterInvariant, PTL
=============================================================================

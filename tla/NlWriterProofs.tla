--------------------------- MODULE NlWriterProofs ---------------------------
(***************************************************************************)
(* Proofs about NlWriter, for every buffer size, ECC unit and image        *)
(* length.  The argument is an accounting of the two buffers: at any time  *)
(* each of them is free, filled, in the pusher's hand or in the writer's,  *)
(* and the two indices i and w are apart by what lies between the threads. *)
(***************************************************************************)
EXTENDS NlWriter, TLAPS

\* Buffers held by the writer and by the pusher.
Held   == IF wpc \in {"write", "give"} THEN 1 ELSE 0
InHand == IF ppc \in {"fill", "sentinel"} THEN 1 ELSE 0

\* The oldest filled buffer.
First == IF Held = 1 THEN 1 - w ELSE w

Alive     == wpc \in {"take", "write", "give"}
Streaming == ppc \in {"take", "fill", "sentinel"}

\* The part of the type invariant that the accounting needs.
Shape ==
  /\ ppc \in {"idle", "take", "fill", "sentinel", "join"}
  /\ wpc \in {"none", "take", "write", "give", "exited"}
  /\ i \in Bufs /\ w \in Bufs
  /\ off \in Nat /\ have \in Nat /\ len \in Nat
  /\ nl_blen \in [Bufs -> Nat]
  /\ nl_free \in Nat /\ nl_filled \in Nat

\* While the payload flows every filled buffer holds data, and the pusher's
\* next buffer follows the writer's by the number of buffers in between.
Flow ==
  Streaming =>
    /\ ~nl_writer_lost
    /\ Alive
    /\ nl_free + nl_filled + InHand + Held = 2
    /\ i = IF nl_filled + Held = 1 THEN 1 - w ELSE w
    /\ nl_filled >= 1 => nl_blen[First] > 0
    /\ nl_filled = 2 => nl_blen[1 - First] > 0
    /\ ppc = "fill" => off < len

\* Once the end mark is sent it is the last filled buffer until the writer
\* has taken it.
Ending ==
  ppc = "join" =>
    /\ ~nl_writer_lost
    /\ wpc # "exited" =>
         /\ Alive
         /\ nl_filled + Held <= 2
         /\ nl_filled = 1 => nl_blen[First] = 0
         /\ nl_filled = 2 => nl_blen[First] > 0 /\ nl_blen[1 - First] = 0
         /\ nl_filled >= 1

\* Between pushes there is no writer, unless it was abandoned.
Between == ppc = "idle" /\ ~nl_writer_lost => wpc = "none"

PipeInv == Shape /\ Flow /\ Ending /\ Between

USE WriterAssumption DEF WriterAssumption, Bufs

\* A buffer with data is still a buffer with data when it is padded.
LEMMA RoundUpPositive ==
  ASSUME NEW n \in Nat, n > 0, NEW m \in Nat, m > 0
  PROVE  RoundUp(n, m) \in Nat /\ RoundUp(n, m) > 0
  <1> DEFINE q == (n + m - 1) \div m
  <1>1. q \in Int /\ n + m - 1 >= m
    OBVIOUS
  <1>2. q >= 1
    BY <1>1
  <1>3. q * m \in Nat /\ q * m > 0
    BY <1>1, <1>2
  <1> QED
    BY <1>3 DEF RoundUp

LEMMA InitPipe == Init => PipeInv
  BY DEF Init, PipeInv, Shape, Flow, Ending, Between, Streaming

\* The pusher thread keeps the accounting.
LEMMA ProducerKeeps == PipeInv /\ (StreamStart \/ Producer) => PipeInv'
  <1> SUFFICES ASSUME PipeInv, StreamStart \/ Producer PROVE PipeInv'
    OBVIOUS
  <1> USE DEF PipeInv, Shape, Flow, Ending, Between, Streaming, Alive, Held,
              InHand, First, pVars, wVars, bufVars
  <1>1. CASE StreamStart
    BY <1>1 DEF StreamStart
  <1>2. CASE TakeFree
    BY <1>2 DEF TakeFree
  <1>3. CASE TakeStalled
    BY <1>3 DEF TakeStalled
  <1>4. CASE \E n \in 1..BUF : Recv(n)
    BY <1>4 DEF Recv, Want
  <1>5. CASE RecvFails
    BY <1>5 DEF RecvFails
  <1>6. CASE HandOver
    <2>1. have > 0 /\ off + have \in Nat
      BY <1>6 DEF HandOver, HandOverAs, Want
    <2>2. RoundUp(have, UNIT) \in Nat /\ RoundUp(have, UNIT) > 0
      BY <2>1, RoundUpPositive
    <2> QED
      BY <1>6, <2>1, <2>2 DEF HandOver, HandOverAs
  <1>7. CASE SendSentinel
    BY <1>7 DEF SendSentinel
  <1>8. CASE Join
    BY <1>8 DEF Join
  <1>9. CASE JoinStalled
    BY <1>9 DEF JoinStalled
  <1> QED
    BY <1>1, <1>2, <1>3, <1>4, <1>5, <1>6, <1>7, <1>8, <1>9 DEF Producer

\* So do the writer thread and the reset.
LEMMA WriterKeeps == PipeInv /\ (Writer \/ Reboot) => PipeInv'
  <1> SUFFICES ASSUME PipeInv, Writer \/ Reboot PROVE PipeInv'
    OBVIOUS
  <1> USE DEF PipeInv, Shape, Flow, Ending, Between, Streaming, Alive, Held,
              InHand, First, pVars, bufVars
  <1>1. CASE WriterTake
    BY <1>1 DEF WriterTake
  <1>2. CASE WriterWrite
    BY <1>2 DEF WriterWrite
  <1>3. CASE WriterWriteFails
    BY <1>3 DEF WriterWriteFails
  <1>4. CASE WriterGive
    BY <1>4 DEF WriterGive
  <1>5. CASE Reboot
    BY <1>5 DEF Reboot
  <1> QED
    BY <1>1, <1>2, <1>3, <1>4, <1>5 DEF Writer

LEMMA PipeInvariant == Spec => []PipeInv
  <1>1. Init => PipeInv
    BY InitPipe
  <1>2. PipeInv /\ [Next]_vars => PipeInv'
    <2> SUFFICES ASSUME PipeInv, [Next]_vars PROVE PipeInv'
      OBVIOUS
    <2>1. CASE UNCHANGED vars
      BY <2>1 DEF vars, pVars, wVars, bufVars, PipeInv, Shape, Flow, Ending,
                  Between, Streaming, Alive, Held, InHand, First
    <2> QED
      BY <2>1, ProducerKeeps, WriterKeeps DEF Next
  <1> QED
    BY <1>1, <1>2, PTL DEF Spec

\* The pusher never touches the buffer that the writer is programming, for any
\* buffer size and image length and any interleaving of the two threads.
THEOREM BuffersAreOwned == Spec => []BufferOwnership
  <1>1. PipeInv => BufferOwnership
    BY DEF PipeInv, Shape, Flow, Streaming, Held, InHand, BufferOwnership
  <1> QED
    BY <1>1, PipeInvariant, PTL

\* A writer is abandoned only while it has a buffer to program: the semaphores
\* cannot leave the two threads waiting for each other.
THEOREM NoMutualWait == Spec => StallIsTheFlash
  <1> DEFINE Blame == \/ wpc \in {"write", "give"}
                      \/ wpc = "take" /\ nl_filled > 0
             Step == nl_writer_lost' /\ ~nl_writer_lost => Blame
  <1>1. PipeInv /\ [Next]_vars => [Step]_vars
    <2> SUFFICES ASSUME PipeInv, Next, nl_writer_lost', ~nl_writer_lost
                 PROVE  Blame
      OBVIOUS
    <2>1. TakeStalled \/ JoinStalled
      BY DEF Next, StreamStart, Producer, TakeFree, Recv, RecvFails, HandOver,
             HandOverAs, SendSentinel, Join, Writer, WriterTake, WriterWrite,
             WriterWriteFails, WriterGive, Reboot
    <2> QED
      BY <2>1 DEF TakeStalled, JoinStalled, PipeInv, Shape, Flow, Ending,
                  Streaming, Alive, Held, InHand
  <1> QED
    BY <1>1, PipeInvariant, PTL DEF Spec, StallIsTheFlash

\* No push starts on the thread object and the semaphores of a writer that is
\* still there.
THEOREM WriterIsFresh == Spec => WriterNotReused
  <1> DEFINE Step == ppc = "idle" /\ ppc' = "take" => wpc = "none"
  <1>1. PipeInv /\ [Next]_vars => [Step]_vars
    <2> SUFFICES ASSUME PipeInv, Next, ppc = "idle", ppc' = "take"
                 PROVE  wpc = "none"
      OBVIOUS
    <2>1. StreamStart
      BY DEF Next, Producer, TakeFree, TakeStalled, Recv, RecvFails, HandOver,
             HandOverAs, SendSentinel, Join, JoinStalled, Writer, WriterTake,
             WriterWrite, WriterWriteFails, WriterGive, Reboot
    <2> QED
      BY <2>1 DEF StreamStart, PipeInv, Between
  <1> QED
    BY <1>1, PipeInvariant, PTL DEF Spec, WriterNotReused
-----------------------------------------------------------------------------
(* What is in the buffers and in the flash *)

\* The buffer the writer programs next, and whether buffer b has bytes that are
\* handed over and not yet in the flash.
Head == IF wpc = "write" THEN w ELSE First

Pending(b) ==
  /\ Alive
  /\ nl_blen[b] > 0
  /\ \/ wpc = "write" /\ b = w
     \/ nl_filled >= 1 /\ b = First
     \/ nl_filled = 2 /\ b = 1 - First

Unprogrammed(a) == \A u \in Units : u * UNIT >= a => programs[u] = 0

\* A pending buffer starts on a buffer boundary, holds the image from there, to
\* the end of the buffer or of the image, and nothing behind its start is
\* programmed.
Ready(b) ==
  /\ nl_boff[b] % BUF = 0
  /\ nl_blen[b] = BUF \/ nl_boff[b] + nl_blen[b] >= len
  /\ \A k \in 0 .. (nl_blen[b] - 1) : nl_boff[b] + k < len => nl_buf[b][k] = nl_boff[b] + k
  /\ Unprogrammed(nl_boff[b])

Queue ==
  /\ wpc = "write" => nl_blen[w] > 0
  /\ \A b \in Bufs : Pending(b) => Ready(b)
  /\ Pending(Head) /\ Pending(1 - Head) => nl_boff[Head] + BUF <= nl_boff[1 - Head]

\* As long as there is more to receive, all of it lies behind what was handed over.
Ahead ==
  Streaming /\ off < len =>
    /\ off % BUF = 0
    /\ Unprogrammed(off)
    /\ \A b \in Bufs : Pending(b) => nl_boff[b] + BUF <= off

Filling ==
  ppc = "fill" => have <= Want /\ \A k \in 0 .. (have - 1) : nl_buf[i][k] = off + k

\* Without a write error, what was handed over is in the flash or pending.
Landed ==
  ppc # "idle" =>
    /\ result = "none" /\ off <= len
    /\ ~nl_wrc => \A p \in 0 .. (off - 1) :
         flash[p] = p \/ \E b \in Bufs : Pending(b) /\ p \in nl_boff[b] .. (nl_boff[b] + nl_blen[b] - 1)

Balance == nl_free + nl_filled + InHand + Held <= 2

DataInv == TypeOK /\ Balance /\ ProgramOnce /\ Queue /\ Ahead /\ Filling /\ Landed

\* A padded buffer is still a buffer, and loses nothing.
LEMMA Padded ==
  ASSUME NEW n \in 1 .. BUF
  PROVE  /\ RoundUp(n, UNIT) \in n .. BUF
         /\ n = BUF => RoundUp(n, UNIT) = BUF
<1>1. PICK p \in Nat : BUF = p * UNIT
  <2>1. BUF \div UNIT \in Nat /\ BUF = (BUF \div UNIT) * UNIT
    OBVIOUS
  <2> QED BY <2>1
<1>2. PICK q \in Nat : q = (n + UNIT - 1) \div UNIT
  <2>1. (n + UNIT - 1) \div UNIT \in Nat
    OBVIOUS
  <2> QED BY <2>1
<1>3. q * UNIT <= n + UNIT - 1 /\ n + UNIT - 1 < (q + 1) * UNIT
  BY <1>2
<1>4. (q + 1) * UNIT = q * UNIT + UNIT /\ (p + 1) * UNIT = p * UNIT + UNIT
  OBVIOUS
<1>5. q * UNIT >= n
  BY <1>3, <1>4
<1>6. q * UNIT < (p + 1) * UNIT
  BY <1>1, <1>3, <1>4
<1>7. q <= p
  BY <1>6
<1>8. q * UNIT <= p * UNIT
  BY <1>7
<1> QED BY <1>1, <1>2, <1>5, <1>8 DEF RoundUp

\* The payload area holds the longest image.
LEMMA AreaHolds ==
  /\ \A p \in 0 .. (MaxLen - 1) : p \in Area
  /\ Area \subseteq Nat
  /\ Units \subseteq Nat
<1>1. PICK q \in Nat : q = (MaxLen + BUF - 1) \div BUF
  <2>1. (MaxLen + BUF - 1) \div BUF \in Nat
    OBVIOUS
  <2> QED BY <2>1
<1>2. MaxLen + BUF - 1 < (q + 1) * BUF
  BY <1>1
<1>3. (q + 1) * BUF = q * BUF + BUF
  OBVIOUS
<1>4. RoundUp(MaxLen, BUF) >= MaxLen /\ RoundUp(MaxLen, BUF) \in Nat
  BY <1>1, <1>2, <1>3 DEF RoundUp
<1>5. /\ \A p \in 0 .. (MaxLen - 1) : p \in Area
      /\ Area \subseteq Nat
  BY <1>4 DEF Area
<1>6. \A a \in Nat : a \div UNIT \in Nat
  OBVIOUS
<1> QED BY <1>5, <1>6 DEF Units

\* The unit of a byte behind a buffer boundary lies behind it too.
LEMMA UnitBehind ==
  ASSUME NEW a \in Nat, a % BUF = 0, NEW b \in Nat, b >= a
  PROVE  b \div UNIT \in Nat /\ (b \div UNIT) * UNIT >= a /\ (b \div UNIT) * UNIT <= b
<1>1. PICK p \in Nat : BUF = p * UNIT
  <2>1. BUF \div UNIT \in Nat /\ BUF = (BUF \div UNIT) * UNIT
    OBVIOUS
  <2> QED BY <2>1
<1>2. PICK m \in Nat : a = m * BUF
  <2>1. a \div BUF \in Nat /\ a = (a \div BUF) * BUF
    OBVIOUS
  <2> QED BY <2>1
<1>3. PICK r \in Nat : r = m * p
  OBVIOUS
<1>4. a = r * UNIT
  BY <1>1, <1>2, <1>3
<1>5. PICK q \in Nat : q = b \div UNIT
  <2>1. b \div UNIT \in Nat
    OBVIOUS
  <2> QED BY <2>1
<1>6. q * UNIT <= b /\ b < (q + 1) * UNIT
  BY <1>5
<1>7. r * UNIT < (q + 1) * UNIT
  BY <1>4, <1>6
<1>8. r <= q
  BY <1>7
<1>9. r * UNIT <= q * UNIT
  BY <1>8
<1> QED BY <1>4, <1>5, <1>6, <1>9

BufType == [Bufs -> [0..(BUF - 1) -> Byte]]
FlashType == [Area -> Byte]
CountType == [Units -> Nat]

\* What flash_write() leaves of the types.
LEMMA ProgramTypes ==
  ASSUME TypeOK, NEW n \in 0 .. nl_blen[w], ProgramBytes(n)
  PROVE  flash' \in FlashType /\ programs' \in CountType
<1>1. /\ w \in Bufs /\ nl_boff[w] \in Nat /\ nl_blen[w] \in 0 .. BUF
      /\ nl_buf[w] \in [0..(BUF - 1) -> Byte]
      /\ flash \in FlashType /\ programs \in CountType
  BY DEF TypeOK, FlashType, CountType
<1>2. flash' = [b \in Area |-> IF b \in nl_boff[w] .. (nl_boff[w] + n - 1)
                              THEN nl_buf[w][b - nl_boff[w]] ELSE flash[b]]
  BY DEF ProgramBytes
<1>3. ASSUME NEW b \in Area, b \in nl_boff[w] .. (nl_boff[w] + n - 1)
      PROVE  nl_buf[w][b - nl_boff[w]] \in Byte
  <2>1. b - nl_boff[w] \in 0 .. (BUF - 1)
    BY <1>1, <1>3, AreaHolds
  <2> QED BY <1>1, <2>1
<1>4. flash' \in FlashType
  BY <1>1, <1>2, <1>3 DEF FlashType
<1>5. \A x \in Nat : x + 1 \in Nat
  OBVIOUS
<1>6. programs' \in CountType
  BY <1>1, <1>5 DEF ProgramBytes, CountType
<1> QED BY <1>4, <1>6

\* The initial buffers and counters.
LEMMA Cleared ==
  /\ [b \in Bufs |-> [k \in 0..(BUF - 1) |-> Erased]] \in BufType
  /\ [b \in Bufs |-> 0] \in [Bufs -> 0..BUF] /\ [b \in Bufs |-> 0] \in [Bufs -> 0..MaxLen]
  /\ [a \in Area |-> Erased] \in FlashType /\ [u \in Units |-> 0] \in CountType
<1>1. 0 \in 0..BUF /\ 0 \in 0..MaxLen /\ Erased \in Byte /\ 0 \in Nat
  BY DEF Byte
<1> QED BY <1>1 DEF BufType, FlashType, CountType

LEMMA DataTypes ==
  ASSUME TypeOK, Balance, PipeInv, Filling, Landed, Next
  PROVE  TypeOK'
<1> DEFINE Small == /\ ppc' \in {"idle", "take", "fill", "sentinel", "join"}
                    /\ i' \in Bufs /\ w' \in Bufs
                    /\ off' \in 0..MaxLen /\ have' \in 0..BUF
                    /\ failed' \in BOOLEAN
                    /\ result' \in {"none", "ok", "failed"}
                    /\ wpc' \in {"none", "take", "write", "give", "exited"}
                    /\ nl_free' \in 0..2 /\ nl_filled' \in 0..2
                    /\ nl_wrc' \in BOOLEAN /\ nl_writer_lost' \in BOOLEAN
                    /\ len' \in 0..MaxLen
<1> DEFINE Large == /\ nl_buf' \in BufType
                    /\ nl_blen' \in [Bufs -> 0..BUF] /\ nl_boff' \in [Bufs -> 0..MaxLen]
                    /\ flash' \in FlashType /\ programs' \in CountType
<1>1. SUFFICES Small /\ Large
  BY DEF TypeOK, BufType, FlashType, CountType
<1>2. /\ nl_buf \in BufType /\ nl_blen \in [Bufs -> 0..BUF] /\ nl_boff \in [Bufs -> 0..MaxLen]
      /\ flash \in FlashType /\ programs \in CountType
  BY DEF TypeOK, BufType, FlashType, CountType
<1>3. /\ ppc \in {"idle", "take", "fill", "sentinel", "join"} /\ i \in Bufs /\ w \in Bufs
      /\ off \in 0..MaxLen /\ have \in 0..BUF /\ len \in 0..MaxLen
      /\ failed \in BOOLEAN /\ result \in {"none", "ok", "failed"}
      /\ wpc \in {"none", "take", "write", "give", "exited"}
      /\ nl_free \in 0..2 /\ nl_filled \in 0..2
      /\ nl_wrc \in BOOLEAN /\ nl_writer_lost \in BOOLEAN
  BY DEF TypeOK
<1>0. /\ 0 \in 0..MaxLen /\ 0 \in 0..BUF /\ 0 \in 0..2 /\ 2 \in 0..2 /\ 0 \in Bufs
      /\ \A l \in 1..MaxLen : l \in 0..MaxLen
  OBVIOUS
<1>4. CASE StreamStart
  <2>1. Small
    BY <1>0, <1>3, <1>4, Zenon DEF StreamStart
  <2>2. Large
    BY <1>2, <1>4, Cleared, Zenon DEF StreamStart, bufVars
  <2> QED BY <2>1, <2>2
<1>5. CASE TakeFree \/ TakeStalled \/ RecvFails \/ Join \/ JoinStalled
  <2>1. Large
    BY <1>2, <1>5, Zenon DEF TakeFree, TakeStalled, RecvFails, Join, JoinStalled, bufVars, flashVars
  <2>2. CASE TakeFree
    <3>1. nl_free' \in 0..2
      BY <1>3, <2>2 DEF TakeFree
    <3>2. ppc' \in {"sentinel", "fill"}
      BY <2>2 DEF TakeFree
    <3> QED BY <1>0, <1>3, <2>1, <2>2, <3>1, <3>2 DEF TakeFree, wVars
  <2>3. CASE TakeStalled \/ RecvFails \/ JoinStalled
    BY <1>3, <2>1, <2>3 DEF TakeStalled, RecvFails, JoinStalled, wVars
  <2>4. CASE Join
    <3>1. result' \in {"ok", "failed"}
      BY <2>4 DEF Join
    <3> QED BY <1>3, <2>1, <2>4, <3>1 DEF Join
  <2> QED BY <1>5, <2>2, <2>3, <2>4
<1>6. ASSUME NEW n \in 1..BUF, Recv(n)
      PROVE  Small /\ Large
  <2>1. /\ ppc = "fill" /\ n \in 1 .. (Want - have) /\ have <= Want /\ Want <= BUF /\ Want <= len - off
        /\ Want \in Int
    BY <1>3, <1>6 DEF Recv, Filling, Want
  <2>2. have' = have + n /\ have' \in 0..BUF
    BY <1>3, <1>6, <2>1 DEF Recv
  <2>3. \A k \in 0..(BUF - 1) : k \in have..(have + n - 1) => off + k \in Byte
    BY <1>3, <2>1 DEF Byte
  <2>4. nl_buf' \in BufType
    <3>1. nl_buf' = [nl_buf EXCEPT ![i] = [k \in 0..(BUF - 1) |->
                       IF k \in have..(have + n - 1) THEN off + k ELSE nl_buf[i][k]]]
      BY <1>6 DEF Recv
    <3>2. [k \in 0..(BUF - 1) |-> IF k \in have..(have + n - 1) THEN off + k ELSE nl_buf[i][k]]
            \in [0..(BUF - 1) -> Byte]
      BY <1>2, <1>3, <2>3 DEF BufType
    <3> QED BY <1>2, <1>3, <3>1, <3>2 DEF BufType
  <2> QED BY <1>2, <1>3, <1>6, <2>2, <2>4 DEF Recv, wVars, flashVars
<1>7. CASE HandOver
  <2>1. ppc = "fill" /\ have = Want /\ off < len
    BY <1>7 DEF HandOver, HandOverAs, PipeInv, Flow, Streaming
  <2>2. have \in 1..BUF /\ off + have \in 0..MaxLen
    BY <1>3, <2>1 DEF Want
  <2>3. RoundUp(have, UNIT) \in 0..BUF
    BY <2>2, Padded
  <2>4. nl_blen' \in [Bufs -> 0..BUF] /\ nl_boff' \in [Bufs -> 0..MaxLen]
    BY <1>2, <1>3, <1>7, <2>3 DEF HandOver, HandOverAs
  <2>5. nl_buf' \in BufType
    <3>1. PICK R : R = RoundUp(have, UNIT)
      OBVIOUS
    <3>2. nl_buf' = [nl_buf EXCEPT ![i] = [k \in 0..(BUF - 1) |->
                       IF k \in have..(R - 1) THEN Pad ELSE nl_buf[i][k]]]
      BY <1>7, <3>1 DEF HandOver, HandOverAs
    <3>3. Pad \in Byte
      BY DEF Byte
    <3>4. [k \in 0..(BUF - 1) |-> IF k \in have..(R - 1) THEN Pad ELSE nl_buf[i][k]]
            \in [0..(BUF - 1) -> Byte]
      BY <1>2, <1>3, <3>3 DEF BufType
    <3> QED BY <1>2, <1>3, <3>2, <3>4 DEF BufType
  <2>6. nl_filled' \in 0..2
    BY <1>3, <1>7, <2>1 DEF HandOver, HandOverAs, Balance, InHand, Held
  <2> QED BY <1>2, <1>3, <1>7, <2>2, <2>4, <2>5, <2>6 DEF HandOver, HandOverAs, wVars, flashVars
<1>8. CASE SendSentinel
  <2>1. nl_filled' \in 0..2
    BY <1>3, <1>8 DEF SendSentinel, Balance, InHand, Held
  <2>2. nl_blen' \in [Bufs -> 0..BUF]
    BY <1>2, <1>3, <1>8 DEF SendSentinel
  <2> QED BY <1>2, <1>3, <1>8, <2>1, <2>2 DEF SendSentinel, pVars, wVars, flashVars
<1>9. CASE WriterTake
  BY <1>2, <1>3, <1>9 DEF WriterTake, pVars, bufVars, flashVars
<1>10. CASE WriterWrite \/ WriterWriteFails
  <2>1. flash' \in FlashType /\ programs' \in CountType
    <3>1. CASE UNCHANGED flashVars
      BY <1>2, <3>1 DEF flashVars
    <3>2. CASE \E n \in 0 .. nl_blen[w] : ProgramBytes(n)
      BY <3>2, ProgramTypes
    <3>3. nl_blen[w] \in 0 .. nl_blen[w]
      BY <1>2, <1>3
    <3> QED BY <1>10, <3>1, <3>2, <3>3 DEF WriterWrite, WriterWriteFails
  <2> QED BY <1>2, <1>3, <1>10, <2>1 DEF WriterWrite, WriterWriteFails, pVars, bufVars
<1>11. CASE WriterGive
  <2>1. nl_free' \in 0..2
    BY <1>3, <1>11 DEF WriterGive, Balance, InHand, Held
  <2> QED BY <1>2, <1>3, <1>11, <2>1 DEF WriterGive, pVars, bufVars, flashVars
<1>12. CASE Reboot
  <2>1. Small
    BY <1>0, <1>3, <1>12 DEF Reboot
  <2>2. Large
    BY <1>2, <1>12, Cleared, Zenon DEF Reboot, flashVars
  <2> QED BY <2>1, <2>2
<1> QED BY <1>4, <1>5, <1>6, <1>7, <1>8, <1>9, <1>10, <1>11, <1>12 DEF Next, Producer, Writer

LEMMA BalanceKept ==
  ASSUME TypeOK, Balance, PipeInv, Next
  PROVE  Balance'
<1> USE DEF Balance, InHand, Held
<1>1. nl_free \in Nat /\ nl_filled \in Nat /\ ppc \in {"idle", "take", "fill", "sentinel", "join"}
      /\ wpc \in {"none", "take", "write", "give", "exited"}
  BY DEF TypeOK
<1>2. CASE StreamStart \/ Reboot
  BY <1>1, <1>2 DEF StreamStart, Reboot
<1>3. CASE Producer
  BY <1>1, <1>3 DEF Producer, TakeFree, TakeStalled, Recv, RecvFails, HandOver, HandOverAs, SendSentinel,
     Join, JoinStalled, wVars, pVars
<1>4. CASE Writer
  BY <1>1, <1>4 DEF Writer, WriterTake, WriterWrite, WriterWriteFails, WriterGive, pVars
<1> QED BY <1>2, <1>3, <1>4 DEF Next

\* Buffer b is not touched.
Same(b) == nl_boff'[b] = nl_boff[b] /\ nl_blen'[b] = nl_blen[b] /\ nl_buf'[b] = nl_buf[b]

\* What the pusher has in hand is not pending.
LEMMA HandIsFree ==
  ASSUME PipeInv, Balance, ppc \in {"fill", "sentinel"}, NEW b \in Bufs, Pending(b)
  PROVE  b # i
BY DEF PipeInv, Shape, Flow, Streaming, Balance, InHand, Held, Pending, First, Alive

\* No step but the hand over makes a buffer pending, or changes one that is.
LEMMA PendingKept ==
  ASSUME TypeOK, Balance, PipeInv, Next, ~HandOver
  PROVE  /\ \A b \in Bufs : Pending(b)' => Pending(b) /\ Same(b)
         /\ Pending(Head)' /\ Pending(1 - Head)' => Head' = Head
         /\ ppc' # "idle" /\ ~StreamStart /\ ~(WriterWrite \/ WriterWriteFails) =>
              \A b \in Bufs : Pending(b) => Pending(b)'
         /\ ~StreamStart /\ ~(WriterWrite \/ WriterWriteFails) =>
              \/ \A b \in Bufs : Pending(b) => Pending(b)'
              \/ \A b \in Bufs : ~Pending(b)'
<1>1. /\ i \in Bufs /\ w \in Bufs /\ nl_free \in Nat /\ nl_filled \in Nat
      /\ nl_blen \in [Bufs -> 0..BUF] /\ nl_boff \in [Bufs -> 0..MaxLen]
      /\ nl_buf \in [Bufs -> [0..(BUF - 1) -> Byte]]
      /\ ppc \in {"idle", "take", "fill", "sentinel", "join"}
      /\ wpc \in {"none", "take", "write", "give", "exited"}
  BY DEF TypeOK
<1>2. Bufs = {0, 1} /\ nl_blen[0] \in Nat /\ nl_blen[1] \in Nat
  BY <1>1
<1>3. CASE StreamStart \/ Reboot
  BY <1>1, <1>3 DEF StreamStart, Reboot, Pending, Alive, First, Held, Head
<1>4. CASE TakeFree \/ TakeStalled \/ RecvFails \/ JoinStalled
  BY <1>1, <1>4 DEF TakeFree, TakeStalled, RecvFails, JoinStalled, wVars, bufVars, Pending, Alive, First,
     Held, Head, Same
<1>5. CASE Join
  BY <1>1, <1>5 DEF Join, Pending, Alive
<1>6. CASE \E n \in 1..BUF : Recv(n)
  <2>1. /\ ppc = "fill" /\ wpc' = wpc /\ w' = w /\ nl_blen' = nl_blen /\ nl_boff' = nl_boff
        /\ nl_filled' = nl_filled
    BY <1>6 DEF Recv, wVars
  <2>2. \A b \in Bufs : b # i => nl_buf'[b] = nl_buf[b]
    BY <1>1, <1>6 DEF Recv
  <2>3. \A b \in Bufs : (Pending(b)' <=> Pending(b)) /\ Head' = Head
    BY <2>1 DEF Pending, Alive, First, Held, Head
  <2> QED BY <2>1, <2>2, <2>3, HandIsFree DEF Same
<1>7. CASE SendSentinel
  <2>1. /\ ppc = "sentinel" /\ wpc' = wpc /\ w' = w /\ nl_boff' = nl_boff /\ nl_buf' = nl_buf
        /\ nl_filled' = nl_filled + 1 /\ nl_blen' = [nl_blen EXCEPT ![i] = 0]
    BY <1>7 DEF SendSentinel, wVars
  <2>2. /\ \A b \in Bufs : b # i => nl_blen'[b] = nl_blen[b]
        /\ nl_blen'[i] = 0
    BY <1>1, <2>1
  <2>3. Alive /\ nl_filled + Held <= 1 /\ i = IF nl_filled + Held = 1 THEN 1 - w ELSE w
    BY <1>1, <2>1 DEF PipeInv, Shape, Flow, Streaming, InHand, Held
  <2>4. \A b \in Bufs : Pending(b)' <=> Pending(b)
    BY <1>1, <2>1, <2>2, <2>3, HandIsFree DEF Pending, Alive, First, Held
  <2>5. Head' = Head
    BY <2>1 DEF Head, First, Held
  <2> QED BY <2>1, <2>2, <2>4, <2>5, HandIsFree DEF Same
<1>8. CASE WriterTake
  <2>1. /\ wpc = "take" /\ nl_filled > 0 /\ nl_filled' = nl_filled - 1 /\ w' = w /\ ppc' = ppc
        /\ nl_blen' = nl_blen /\ nl_boff' = nl_boff /\ nl_buf' = nl_buf
        /\ wpc' = IF nl_blen[w] = 0 THEN "exited" ELSE "write"
    BY <1>8 DEF WriterTake, bufVars
  <2>2. nl_filled <= 2
    BY <1>1 DEF Balance, InHand, Held
  <2>3. CASE nl_blen[w] > 0
    <3>1. \A b \in Bufs : (Pending(b)' <=> Pending(b))
      BY <1>1, <2>1, <2>2, <2>3 DEF Pending, Alive, First, Held
    <3>2. Head' = Head
      BY <1>1, <2>1, <2>3 DEF Head, First, Held
    <3> QED BY <2>1, <3>1, <3>2 DEF Same
  <2>4. CASE nl_blen[w] = 0
    <3>1. (\A b \in Bufs : ~Pending(b)') /\ ~Pending(Head)'
      BY <2>1, <2>4 DEF Pending, Alive
    <3>2. ppc # "idle" => ppc = "join" /\ nl_filled = 1
      BY <1>1, <2>1, <2>2, <2>4 DEF PipeInv, Flow, Ending, Streaming, First, Held
    <3>3. ppc # "idle" => \A b \in Bufs : ~Pending(b)
      BY <1>1, <2>1, <2>4, <3>2 DEF Pending, First, Held
    <3> QED BY <2>1, <3>1, <3>3
  <2> QED BY <1>1, <2>3, <2>4
<1>9. CASE WriterWrite \/ WriterWriteFails
  <2>1. /\ wpc = "write" /\ wpc' = "give" /\ w' = w /\ nl_filled' = nl_filled
        /\ nl_blen' = nl_blen /\ nl_boff' = nl_boff /\ nl_buf' = nl_buf
    BY <1>9 DEF WriterWrite, WriterWriteFails, bufVars
  <2>2. nl_filled <= 1
    BY <1>1, <2>1 DEF Balance, InHand, Held
  <2>3. \A b \in Bufs : Pending(b)' => Pending(b) /\ b = 1 - w
    BY <1>1, <2>1, <2>2 DEF Pending, Alive, First, Held
  <2>4. Head' = 1 - w /\ w \in Bufs /\ 1 - w \in Bufs /\ 1 - (1 - w) = w /\ w # 1 - w
    BY <1>1, <2>1 DEF Head, First, Held
  <2>5. ~Pending(1 - Head)'
    <3>1. (1 - Head)' = w
      BY <1>1, <2>4
    <3>2. ~Pending(w)'
      BY <2>1, <2>2, <2>3, <2>4 DEF Pending, Alive, First, Held
    <3>3. Pending(1 - Head)' <=> Pending(w)'
      BY <2>1, <3>1 DEF Pending
    <3> QED BY <3>2, <3>3
  <2> QED BY <1>9, <2>1, <2>3, <2>5 DEF Same
<1>10. CASE WriterGive
  <2>1. /\ wpc = "give" /\ wpc' = "take" /\ w' = 1 - w /\ nl_filled' = nl_filled
        /\ nl_blen' = nl_blen /\ nl_boff' = nl_boff /\ nl_buf' = nl_buf
    BY <1>10 DEF WriterGive, bufVars
  <2>2. nl_filled <= 1
    BY <1>1, <2>1 DEF Balance, InHand, Held
  <2>3. \A b \in Bufs : Pending(b)' <=> Pending(b)
    BY <1>1, <2>1, <2>2 DEF Pending, Alive, First, Held
  <2>4. Head' = Head
    BY <1>1, <2>1 DEF Head, First, Held
  <2> QED BY <2>1, <2>3, <2>4 DEF Same
<1> QED BY <1>3, <1>4, <1>5, <1>6, <1>7, <1>8, <1>9, <1>10 DEF Next, Producer, Writer

\* What programming the first n bytes of the writer's buffer does.
LEMMA ProgramEffect ==
  ASSUME TypeOK, wpc = "write", Ready(w), NEW n \in 0 .. nl_blen[w], ProgramBytes(n)
  PROVE  /\ \A u \in Units : programs'[u] = programs[u] \/ (programs[u] = 0 /\ programs'[u] = 1)
         /\ \A e \in Nat : e >= nl_boff[w] + BUF /\ Unprogrammed(e) =>
              \A u \in Units : u * UNIT >= e => programs'[u] = 0
         /\ \A p \in 0 .. (len - 1) : flash'[p] = flash[p] \/ flash'[p] = p
         /\ \A p \in 0 .. (len - 1) : p \in nl_boff[w] .. (nl_boff[w] + n - 1) => flash'[p] = p
<1> DEFINE a == nl_boff[w]
           span == a .. (a + n - 1)
<1>1. /\ a \in Nat /\ nl_blen[w] \in 0 .. BUF /\ n \in Nat /\ n <= nl_blen[w] /\ len \in 0 .. MaxLen
      /\ programs \in [Units -> Nat]
      /\ a % BUF = 0
  BY DEF TypeOK, Ready
<1>2. /\ flash' = [b \in Area |-> IF b \in span THEN nl_buf[w][b - a] ELSE flash[b]]
      /\ programs' = [u \in Units |-> IF \E b \in span : u = b \div UNIT THEN programs[u] + 1
                                      ELSE programs[u]]
  BY DEF ProgramBytes
<1>3. \A b \in span : b \in Nat /\ a <= b /\ b < a + BUF
  BY <1>1
<1>4. \A b \in span : (b \div UNIT) * UNIT >= a /\ (b \div UNIT) * UNIT < a + BUF
  <2> SUFFICES ASSUME NEW b \in span
               PROVE  (b \div UNIT) * UNIT >= a /\ (b \div UNIT) * UNIT < a + BUF
    OBVIOUS
  <2>1. b \in Nat /\ b >= a /\ b < a + BUF
    BY <1>3
  <2> HIDE DEF a, span
  <2>2. b \div UNIT \in Nat /\ (b \div UNIT) * UNIT >= a /\ (b \div UNIT) * UNIT <= b
    BY <1>1, <2>1, UnitBehind
  <2>3. \A q \in Nat : q <= b => q < a + BUF
    BY <1>1, <2>1
  <2>4. (b \div UNIT) * UNIT \in Nat
    BY <2>2
  <2> QED BY <2>2, <2>3, <2>4
<1>5. ASSUME NEW u \in Units
      PROVE  programs'[u] = programs[u] \/ (programs[u] = 0 /\ programs'[u] = 1)
  <2>1. CASE \E b \in span : u = b \div UNIT
    <3>1. u * UNIT >= a
      BY <1>4, <2>1
    <3>2. programs[u] = 0
      BY <3>1 DEF Ready, Unprogrammed
    <3> QED BY <1>2, <2>1, <3>2
  <2>2. CASE ~\E b \in span : u = b \div UNIT
    BY <1>2, <2>2
  <2> QED BY <2>1, <2>2
<1>6. ASSUME NEW e \in Nat, e >= a + BUF, Unprogrammed(e), NEW u \in Units, u * UNIT >= e
      PROVE  programs'[u] = 0
  <2>1. programs[u] = 0
    BY <1>6 DEF Unprogrammed
  <2>2. u * UNIT \in Nat
    BY AreaHolds
  <2>3. ~\E b \in span : u = b \div UNIT
    <3> SUFFICES ASSUME NEW b \in span, u = b \div UNIT PROVE FALSE
      OBVIOUS
    <3>1. u * UNIT < a + BUF
      BY <1>4
    <3> HIDE DEF a, span
    <3> QED BY <1>1, <1>6, <2>2, <3>1
  <2> QED BY <1>2, <2>1, <2>3
<1>7. ASSUME NEW p \in 0 .. (len - 1)
      PROVE  /\ p \in span => flash'[p] = p
             /\ p \notin span => flash'[p] = flash[p]
  <2>1. p \in Area
    BY <1>1, AreaHolds
  <2>2. CASE p \in span
    <3>1. p - a \in 0 .. (nl_blen[w] - 1) /\ a + (p - a) = p /\ p < len
      BY <1>1, <2>2
    <3>2. nl_buf[w][p - a] = p
      BY <3>1 DEF Ready
    <3> QED BY <1>2, <2>1, <2>2, <3>2
  <2>3. CASE p \notin span
    BY <1>2, <2>1, <2>3
  <2> QED BY <2>2, <2>3
<1> QED BY <1>5, <1>6, <1>7

\* The queue of pending buffers after a step that programs nothing.
LEMMA QueueKept ==
  ASSUME TypeOK, Queue, programs' = programs, len' = len,
         \A b \in Bufs : Pending(b)' => Pending(b) /\ Same(b),
         Pending(Head)' /\ Pending(1 - Head)' => Head' = Head,
         wpc' = "write" => nl_blen'[w'] > 0
  PROVE  Queue'
<1>1. ASSUME NEW b \in Bufs, Pending(b)'
      PROVE  Ready(b)'
  <2>1. Ready(b) /\ Same(b)
    BY <1>1 DEF Queue
  <2> QED BY <2>1 DEF Ready, Same, Unprogrammed
<1>2. ASSUME Pending(Head)', Pending(1 - Head)'
      PROVE  (nl_boff[Head] + BUF <= nl_boff[1 - Head])'
  <2>1. Head' = Head /\ Head \in Bufs /\ 1 - Head \in Bufs
    BY <1>2 DEF TypeOK, Head, First, Held
  <2>2. PICK h \in Bufs : h = Head /\ h = Head' /\ 1 - h \in Bufs
    BY <2>1
  <2>3. Pending(h)' /\ Pending(1 - h)'
    BY <1>2, <2>2 DEF Pending
  <2>4. Pending(h) /\ Pending(1 - h) /\ Same(h) /\ Same(1 - h)
    BY <2>2, <2>3
  <2>5. nl_boff[h] + BUF <= nl_boff[1 - h]
    BY <2>2, <2>4 DEF Queue
  <2> QED BY <2>2, <2>4, <2>5 DEF Same
<1> QED BY <1>1, <1>2 DEF Queue

DataRest == ProgramOnce /\ Queue /\ Ahead /\ Filling /\ Landed

\* The steps that change neither the flash nor what is handed over.
LEMMA QuietStep ==
  ASSUME TypeOK, Balance, PipeInv, DataRest, Next, ~HandOver, ~StreamStart, UNCHANGED flashVars,
         ~(WriterWrite \/ WriterWriteFails)
  PROVE  DataRest'
<1> USE DEF DataRest
<1>0. /\ flash' = flash /\ programs' = programs /\ len' = len
      /\ i \in Bufs /\ w \in Bufs /\ off \in 0..MaxLen /\ len \in 0..MaxLen /\ have \in 0..BUF
      /\ nl_buf \in [Bufs -> [0..(BUF - 1) -> Byte]] /\ nl_blen \in [Bufs -> 0..BUF]
  BY DEF flashVars, TypeOK, Next, Producer, TakeFree, TakeStalled, Recv, RecvFails, SendSentinel, Join,
     JoinStalled, Writer, WriterTake, WriterWrite, WriterWriteFails, WriterGive, Reboot
<1>1. /\ \A b \in Bufs : Pending(b)' => Pending(b) /\ Same(b)
      /\ Pending(Head)' /\ Pending(1 - Head)' => Head' = Head
      /\ ppc' # "idle" => \A b \in Bufs : Pending(b) => Pending(b)'
  BY PendingKept
<1>2. wpc' = "write" => nl_blen'[w'] > 0
  <2>1. CASE SendSentinel
    <3>1. wpc = "write" => i # w
      BY <1>0, <2>1 DEF SendSentinel, PipeInv, Shape, Flow, Streaming, InHand, Held
    <3> QED BY <1>0, <2>1, <3>1 DEF SendSentinel, wVars, Queue
  <2>2. CASE WriterTake
    BY <1>0, <2>2 DEF WriterTake, bufVars
  <2>3. CASE WriterGive \/ Join \/ Reboot
    BY <2>3 DEF WriterGive, Join, Reboot
  <2>4. CASE TakeFree \/ TakeStalled \/ RecvFails \/ JoinStalled \/ \E n \in 1..BUF : Recv(n)
    BY <2>4 DEF TakeFree, TakeStalled, RecvFails, JoinStalled, Recv, wVars, bufVars, Queue
  <2> QED BY <2>1, <2>2, <2>3, <2>4 DEF Next, Producer, Writer
<1>3. ProgramOnce' /\ Queue'
  BY <1>0, <1>1, <1>2, QueueKept DEF ProgramOnce
<1>4. /\ ppc' # "idle" => off' = off /\ ppc # "idle" /\ result' = result /\ (nl_wrc' <=> nl_wrc)
      /\ Streaming' => Streaming
  BY DEF Streaming, TypeOK, Next, Producer, TakeFree, TakeStalled, Recv, RecvFails, SendSentinel, Join,
     JoinStalled, Writer, WriterTake, WriterWrite, WriterWriteFails, WriterGive, Reboot, pVars
<1>5. Ahead'
  <2> SUFFICES ASSUME Streaming', off' < len'
               PROVE  /\ off' % BUF = 0 /\ Unprogrammed(off)'
                      /\ \A b \in Bufs : Pending(b)' => nl_boff'[b] + BUF <= off'
    BY DEF Ahead
  <2>1. off' = off /\ Streaming /\ off < len
    BY <1>0, <1>4 DEF Streaming
  <2> QED BY <1>0, <1>1, <2>1 DEF Ahead, Unprogrammed, Same
<1>6. Filling'
  <2>1. CASE TakeFree
    <3>1. ppc' = "fill" => have' = 0 /\ off < len /\ off' = off
      BY <1>0, <2>1 DEF TakeFree
    <3>2. ppc' = "fill" => (have <= Want)'
      BY <1>0, <3>1 DEF Want
    <3> QED BY <3>1, <3>2 DEF Filling
  <2>2. ASSUME NEW n \in 1..BUF, Recv(n)
        PROVE  Filling'
    <3>1. /\ ppc = "fill" /\ n \in 1..(Want - have) /\ have' = have + n /\ off' = off /\ i' = i
          /\ nl_buf' = [nl_buf EXCEPT ![i] = [k \in 0..(BUF - 1) |->
                          IF k \in have..(have + n - 1) THEN off + k ELSE nl_buf[i][k]]]
      BY <2>2 DEF Recv
    <3>2. Want \in Int /\ Want <= BUF /\ Want' = Want
      BY <1>0, <3>1 DEF Want
    <3>3. have + n <= Want
      BY <1>0, <3>1, <3>2
    <3>4. ASSUME NEW k \in 0 .. (have + n - 1)
          PROVE  nl_buf'[i][k] = off + k
      <4>1. k \in 0..(BUF - 1)
        BY <1>0, <3>1, <3>2, <3>3
      <4>2. nl_buf'[i][k] = IF k \in have..(have + n - 1) THEN off + k ELSE nl_buf[i][k]
        BY <1>0, <3>1, <4>1
      <4>3. k \notin have..(have + n - 1) => k \in 0 .. (have - 1)
        BY <1>0, <3>1
      <4> QED BY <3>1, <4>2, <4>3 DEF Filling
    <3>5. have' <= Want'
      BY <3>1, <3>2, <3>3
    <3>6. \A k \in 0 .. (have' - 1) : nl_buf'[i'][k] = off' + k
      <4>1. have' = have + n /\ off' = off /\ i' = i
        BY <3>1
      <4>2. \A k \in 0 .. (have + n - 1) : nl_buf'[i][k] = off + k
        BY <3>4
      <4> SUFFICES ASSUME NEW k \in 0 .. (have' - 1) PROVE nl_buf'[i'][k] = off' + k
        OBVIOUS
      <4>3. k \in 0 .. (have + n - 1)
        BY <1>0, <4>1
      <4>4. nl_buf'[i][k] = off + k
        BY <4>2, <4>3
      <4> QED BY <4>1, <4>4
    <3> QED BY <3>5, <3>6 DEF Filling
  <2>3. CASE ppc' # "fill"
    BY <2>3 DEF Filling
  <2>4. CASE Writer
    <3>1. /\ ppc' = ppc /\ have' = have /\ off' = off /\ i' = i /\ nl_buf' = nl_buf
      BY <2>4 DEF Writer, WriterTake, WriterWrite, WriterWriteFails, WriterGive, pVars, bufVars
    <3> QED BY <1>0, <3>1 DEF Filling, Want
  <2>5. ppc' = "fill" => TakeFree \/ Writer \/ \E n \in 1..BUF : Recv(n)
    BY DEF Next, Producer, TakeStalled, RecvFails, SendSentinel, Join, JoinStalled, Reboot
  <2> QED BY <2>1, <2>2, <2>3, <2>4, <2>5
<1>7. Landed'
  <2> SUFFICES ASSUME ppc' # "idle"
               PROVE  /\ result' = "none" /\ off' <= len'
                      /\ ~nl_wrc' => \A p \in 0 .. (off' - 1) :
                           flash'[p] = p \/ \E b \in Bufs : Pending(b)' /\
                              p \in nl_boff'[b] .. (nl_boff'[b] + nl_blen'[b] - 1)
    BY DEF Landed
  <2> QED BY <1>0, <1>1, <1>4 DEF Landed, Same
<1> QED BY <1>3, <1>5, <1>6, <1>7

LEMMA StartStep ==
  ASSUME TypeOK, StreamStart
  PROVE  DataRest'
<1>1. /\ ppc' = "take" /\ off' = 0 /\ result' = "none" /\ len' \in 1..MaxLen
      /\ programs' = [u \in Units |-> 0] /\ nl_filled' = 0 /\ wpc' = "take"
  BY DEF StreamStart
<1>2. \A u \in Units : programs'[u] = 0
  BY <1>1
<1>3. \A b : ~Pending(b)'
  BY <1>1 DEF Pending
<1>4. ~Pending(Head)'
  BY <1>1 DEF Pending
<1>5. 0 % BUF = 0
  OBVIOUS
<1> QED BY <1>1, <1>2, <1>3, <1>4, <1>5 DEF DataRest, ProgramOnce, Queue, Ahead, Filling, Landed, Unprogrammed

\* A write, complete or cut short.
LEMMA WriteStep ==
  ASSUME TypeOK, Balance, PipeInv, DataRest, Next, wpc = "write",
         WriterWrite \/ WriterWriteFails
  PROVE  DataRest'
<1> USE DEF DataRest
<1>0. /\ ppc' = ppc /\ i' = i /\ off' = off /\ have' = have /\ result' = result /\ len' = len
      /\ nl_boff' = nl_boff /\ nl_blen' = nl_blen /\ nl_buf' = nl_buf /\ w' = w /\ wpc' = "give"
      /\ nl_filled' = nl_filled
      /\ w \in Bufs /\ off \in 0..MaxLen /\ len \in 0..MaxLen
      /\ nl_blen \in [Bufs -> 0..BUF] /\ nl_boff \in [Bufs -> 0..MaxLen]
      /\ programs \in [Units -> Nat]
  BY DEF WriterWrite, WriterWriteFails, pVars, bufVars, TypeOK
<1>1. Pending(w) /\ Ready(w)
  BY <1>0 DEF Queue, Pending, Alive
<1>2. /\ \A b \in Bufs : Pending(b)' => Pending(b) /\ b # w
      /\ ~(Pending(Head)' /\ Pending(1 - Head)')
      /\ \A b \in Bufs : Pending(b) /\ b # w => Pending(b)'
  <2>1. nl_filled \in Nat /\ nl_filled <= 1
    BY DEF TypeOK, Balance, InHand, Held
  <2>2. \A b \in Bufs : Pending(b)' <=> Pending(b) /\ b # w
    BY <1>0, <2>1 DEF Pending, Alive, First, Held
  <2>3. Head' = 1 - w /\ (1 - Head)' = w
    BY <1>0 DEF Head, First, Held
  <2>4. Pending(1 - Head)' <=> Pending(w)'
    BY <1>0, <2>3 DEF Pending
  <2> QED BY <1>0, <2>2, <2>4
<1>3. \A b \in Bufs : Pending(b) /\ b # w => nl_boff[w] + BUF <= nl_boff[b]
  <2> SUFFICES ASSUME NEW b \in Bufs, Pending(b), b # w
               PROVE  nl_boff[w] + BUF <= nl_boff[b]
    OBVIOUS
  <2>1. b = 1 - w /\ Head = w
    BY <1>0 DEF Head
  <2> QED BY <1>1, <2>1 DEF Queue
<1> DEFINE Eff ==
      /\ \A u \in Units : programs'[u] = programs[u] \/ (programs[u] = 0 /\ programs'[u] = 1)
      /\ \A e \in Nat : e >= nl_boff[w] + BUF /\ Unprogrammed(e) =>
              \A u \in Units : u * UNIT >= e => programs'[u] = 0
      /\ \A p \in 0 .. (len - 1) : flash'[p] = flash[p] \/ flash'[p] = p
      /\ ~nl_wrc' => \A p \in 0 .. (len - 1) :
              p \in nl_boff[w] .. (nl_boff[w] + nl_blen[w] - 1) => flash'[p] = p
<1>4. Eff
  <2>1. CASE nl_wrc
    <3>1. flash' = flash /\ programs' = programs /\ nl_wrc'
      BY <2>1 DEF WriterWrite, WriterWriteFails, flashVars
    <3> QED BY <3>1 DEF Unprogrammed
  <2>2. CASE ~nl_wrc /\ WriterWrite
    <3>1. ProgramBytes(nl_blen[w]) /\ nl_blen[w] \in 0 .. nl_blen[w]
      BY <1>0, <2>2 DEF WriterWrite
    <3> QED BY <1>1, <3>1, ProgramEffect
  <2>3. CASE ~nl_wrc /\ WriterWriteFails
    <3>1. nl_wrc'
      BY <2>3 DEF WriterWriteFails
    <3>2. PICK n \in 0 .. nl_blen[w] : ProgramBytes(n)
      BY <2>3 DEF WriterWriteFails
    <3> QED BY <1>1, <3>1, <3>2, ProgramEffect
  <2> QED BY <2>1, <2>2, <2>3
<1>5. ProgramOnce'
  BY <1>0, <1>4 DEF ProgramOnce
<1>6. Queue'
  <2>1. ASSUME NEW b \in Bufs, Pending(b)'
        PROVE  Ready(b)'
    <3>1. Pending(b) /\ b # w /\ Ready(b) /\ nl_boff[b] \in Nat /\ nl_boff[b] >= nl_boff[w] + BUF
      BY <1>0, <1>2, <1>3, <2>1 DEF Queue
    <3>2. \A u \in Units : u * UNIT >= nl_boff[b] => programs'[u] = 0
      BY <1>4, <3>1 DEF Ready
    <3> QED BY <1>0, <3>1, <3>2 DEF Ready, Unprogrammed
  <2> QED BY <1>0, <1>2, <2>1 DEF Queue
<1>7. Ahead'
  <2> SUFFICES ASSUME Streaming, off < len
               PROVE  /\ off % BUF = 0
                      /\ \A u \in Units : u * UNIT >= off => programs'[u] = 0
                      /\ \A b \in Bufs : Pending(b)' => nl_boff[b] + BUF <= off
    BY <1>0 DEF Ahead, Streaming, Unprogrammed
  <2>1. off % BUF = 0 /\ Unprogrammed(off) /\ \A b \in Bufs : Pending(b) => nl_boff[b] + BUF <= off
    BY DEF Ahead
  <2>2. off \in Nat /\ off >= nl_boff[w] + BUF
    BY <1>0, <1>1, <2>1
  <2> QED BY <1>2, <1>4, <2>1, <2>2
<1>8. Filling'
  BY <1>0 DEF Filling, Want
<1>9. Landed'
  <2> SUFFICES ASSUME ppc # "idle"
               PROVE  /\ result = "none" /\ off <= len
                      /\ ~nl_wrc' => \A p \in 0 .. (off - 1) :
                           flash'[p] = p \/ \E b \in Bufs : Pending(b)' /\
                              p \in nl_boff[b] .. (nl_boff[b] + nl_blen[b] - 1)
    BY <1>0 DEF Landed
  <2>1. result = "none" /\ off <= len
    BY DEF Landed
  <2>2. ASSUME ~nl_wrc', NEW p \in 0 .. (off - 1)
        PROVE  flash'[p] = p \/ \E b \in Bufs : Pending(b)' /\
                                    p \in nl_boff[b] .. (nl_boff[b] + nl_blen[b] - 1)
    <3>1. ~nl_wrc /\ p \in 0 .. (len - 1)
      BY <1>0, <2>1, <2>2 DEF WriterWrite, WriterWriteFails
    <3>2. CASE flash[p] = p
      BY <1>4, <3>1, <3>2
    <3>3. CASE p \in nl_boff[w] .. (nl_boff[w] + nl_blen[w] - 1)
      BY <1>4, <2>2, <3>1, <3>3
    <3>4. CASE \E b \in Bufs : b # w /\ Pending(b) /\ p \in nl_boff[b] .. (nl_boff[b] + nl_blen[b] - 1)
      BY <1>2, <3>4
    <3> QED BY <2>2, <3>1, <3>2, <3>3, <3>4 DEF Landed
  <2> QED BY <2>1, <2>2
<1> QED BY <1>5, <1>6, <1>7, <1>8, <1>9

\* A full buffer, or the last one, is padded and handed over.
LEMMA HandOverStep ==
  ASSUME TypeOK, Balance, PipeInv, DataRest, Next, HandOver
  PROVE  DataRest'
<1> USE DEF DataRest
<1>0. /\ i \in Bufs /\ w \in Bufs /\ off \in 0..MaxLen /\ len \in 0..MaxLen /\ have \in 0..BUF
      /\ nl_buf \in [Bufs -> [0..(BUF - 1) -> Byte]] /\ nl_blen \in [Bufs -> 0..BUF]
      /\ nl_boff \in [Bufs -> 0..MaxLen] /\ nl_filled \in Nat
  BY DEF TypeOK
<1>1. /\ ppc = "fill" /\ ppc' = "take" /\ have = Want /\ off < len
      /\ off' = off + have /\ len' = len /\ result' = result /\ nl_filled' = nl_filled + 1
      /\ flash' = flash /\ programs' = programs /\ wpc' = wpc /\ w' = w /\ nl_wrc' = nl_wrc
  BY DEF HandOver, HandOverAs, wVars, flashVars, PipeInv, Flow, Streaming
<1>2. PICK R \in Nat : R = RoundUp(have, UNIT) /\ R \in have .. BUF /\ (have = BUF => R = BUF) /\ R > 0
                       /\ have > 0
  <2>1. have \in 1..BUF
    BY <1>0, <1>1 DEF Want
  <2> QED BY <2>1, Padded
<1> PICK j \in Bufs : j = i
  BY <1>0
<1>3. /\ nl_blen'[j] = R /\ nl_boff'[j] = off
      /\ \A k \in 0 .. (have - 1) : nl_buf'[j][k] = off + k
      /\ \A b \in Bufs : b # j => Same(b)
  <2>1. /\ nl_blen' = [nl_blen EXCEPT ![j] = R]
        /\ nl_boff' = [nl_boff EXCEPT ![j] = off]
        /\ nl_buf' = [nl_buf EXCEPT ![j] = [k \in 0..(BUF - 1) |->
                        IF k \in have..(R - 1) THEN Pad ELSE nl_buf[j][k]]]
    BY <1>2 DEF HandOver, HandOverAs
  <2>2. ASSUME NEW k \in 0 .. (have - 1)
        PROVE  nl_buf'[j][k] = off + k
    <3>1. k \in 0..(BUF - 1) /\ k \notin have..(R - 1)
      BY <1>0
    <3>2. nl_buf'[j][k] = nl_buf[j][k]
      BY <1>0, <2>1, <3>1
    <3> QED BY <1>1, <3>2 DEF Filling
  <2> QED BY <1>0, <2>1, <2>2 DEF Same
<1>4. Alive /\ nl_filled + Held <= 1 /\ j = IF nl_filled + Held = 1 THEN 1 - w ELSE w
  BY <1>0, <1>1 DEF PipeInv, Shape, Flow, Streaming, InHand, Held
<1>5. \A b \in Bufs : b # j => (Pending(b)' <=> Pending(b))
  BY <1>0, <1>1, <1>3, <1>4 DEF Pending, Alive, First, Held, Same
<1>6. Pending(j)' /\ ~Pending(j)
  <2>1. wpc = "write" => j # w
    BY <1>0, <1>4 DEF Held
  <2>2. ~Pending(j)
    BY <1>0, <1>1, HandIsFree
  <2>3. Pending(j)'
    BY <1>0, <1>1, <1>2, <1>3, <1>4 DEF Pending, Alive, First, Held
  <2> QED BY <2>2, <2>3
<1>7. /\ off % BUF = 0 /\ Unprogrammed(off)
      /\ \A b \in Bufs : Pending(b) => nl_boff[b] + BUF <= off
  BY <1>1 DEF Ahead, Streaming
<1>8. have = BUF \/ off + have = len
  BY <1>0, <1>1 DEF Want
<1>9. Ready(j)'
  <2>1. nl_blen'[j] = BUF \/ nl_boff'[j] + nl_blen'[j] >= len'
    BY <1>0, <1>1, <1>2, <1>3, <1>8
  <2>2. \A k \in 0 .. (nl_blen'[j] - 1) : nl_boff'[j] + k < len' => nl_buf'[j][k] = nl_boff'[j] + k
    <3> SUFFICES ASSUME NEW k \in 0 .. (R - 1), off + k < len
                 PROVE  nl_buf'[j][k] = off + k
      BY <1>1, <1>3
    <3>1. k \in 0 .. (have - 1)
      BY <1>0, <1>2, <1>8
    <3> QED BY <1>3, <3>1
  <2>3. \A u \in Units : u * UNIT >= nl_boff'[j] => programs'[u] = 0
    BY <1>1, <1>3, <1>7 DEF Unprogrammed
  <2> QED BY <1>3, <1>7, <2>1, <2>2, <2>3 DEF Ready, Unprogrammed
<1>10. Queue'
  <2>1. ASSUME NEW b \in Bufs, Pending(b)'
        PROVE  Ready(b)'
    <3>1. CASE b = j
      BY <1>9, <3>1
    <3>2. CASE b # j
      <4>1. Ready(b) /\ Same(b)
        BY <1>3, <1>5, <2>1, <3>2 DEF Queue
      <4> QED BY <1>1, <4>1 DEF Ready, Same, Unprogrammed
    <3> QED BY <3>1, <3>2
  <2>2. ASSUME Pending(Head)', Pending(1 - Head)'
        PROVE  (nl_boff[Head] + BUF <= nl_boff[1 - Head])'
    <3>1. PICK h \in Bufs : h = Head' /\ 1 - h \in Bufs
      BY <1>0, <1>1 DEF Head, First, Held
    <3>2. Pending(h)' /\ Pending(1 - h)'
      BY <2>2, <3>1 DEF Pending
    <3>3. h # j
      BY <1>0, <1>1, <1>3, <1>4, <3>1, <3>2 DEF Pending, Head, First, Held
    <3>4. 1 - h = j
      BY <3>3
    <3>5. Pending(h) /\ Same(h)
      BY <1>3, <1>5, <3>2, <3>3
    <3>6. nl_boff'[h] + BUF <= nl_boff'[1 - h]
      BY <1>3, <1>7, <3>4, <3>5 DEF Same
    <3> QED BY <3>1, <3>6
  <2>3. wpc' = "write" => nl_blen'[w'] > 0
    <3>1. wpc = "write" => w # j
      BY <1>0, <1>4 DEF Held
    <3> QED BY <1>0, <1>1, <1>3, <3>1 DEF Queue, Same
  <2> QED BY <2>1, <2>2, <2>3 DEF Queue
<1>11. Ahead'
  <2> SUFFICES ASSUME off' < len'
               PROVE  /\ off' % BUF = 0 /\ Unprogrammed(off)'
                      /\ \A b \in Bufs : Pending(b)' => nl_boff'[b] + BUF <= off'
    BY DEF Ahead
  <2>1. have = BUF /\ off' = off + BUF
    BY <1>0, <1>1, <1>8
  <2>2. (off + BUF) % BUF = 0
    <3>1. \A x \in Nat : x % BUF = 0 => (x + BUF) % BUF = 0
      <4> SUFFICES ASSUME NEW x \in Nat, x % BUF = 0 PROVE (x + BUF) % BUF = 0
        OBVIOUS
      <4>1. PICK q \in Nat : x = q * BUF
        <5>1. x \div BUF \in Nat /\ x = (x \div BUF) * BUF
          OBVIOUS
        <5> QED BY <5>1
      <4>2. PICK m \in Nat : m = q + 1
        OBVIOUS
      <4>3. x + BUF = m * BUF
        BY <4>1, <4>2
      <4>4. (m * BUF) % BUF = 0
        OBVIOUS
      <4> QED BY <4>3, <4>4
    <3> QED BY <1>0, <1>7, <3>1
  <2>3. \A u \in Units : u * UNIT >= off + BUF => programs[u] = 0
    <3> SUFFICES ASSUME NEW u \in Units, u * UNIT >= off + BUF PROVE programs[u] = 0
      OBVIOUS
    <3>1. u * UNIT \in Nat
      BY AreaHolds
    <3>2. u * UNIT >= off
      BY <1>0, <3>1
    <3> QED BY <1>7, <3>2 DEF Unprogrammed
  <2>4. ASSUME NEW b \in Bufs, Pending(b)'
        PROVE  nl_boff'[b] + BUF <= off + BUF
    <3>1. CASE b = j
      BY <1>0, <1>3, <3>1
    <3>2. CASE b # j
      <4>1. nl_boff'[b] = nl_boff[b] /\ nl_boff[b] + BUF <= off /\ nl_boff[b] \in Nat
        BY <1>0, <1>3, <1>5, <1>7, <2>4, <3>2 DEF Same
      <4> QED BY <1>0, <4>1
    <3> QED BY <3>1, <3>2
  <2> QED BY <1>1, <2>1, <2>2, <2>3, <2>4 DEF Unprogrammed
<1>12. Filling'
  BY <1>1 DEF Filling
<1>13. Landed'
  <2>1. result' = "none" /\ off' <= len'
    BY <1>0, <1>1, <1>8 DEF Landed, Want
  <2>2. ASSUME ~nl_wrc', NEW p \in 0 .. (off' - 1)
        PROVE  flash'[p] = p \/ \E b \in Bufs : Pending(b)' /\
                                    p \in nl_boff'[b] .. (nl_boff'[b] + nl_blen'[b] - 1)
    <3>1. CASE p \in 0 .. (off - 1)
      <4>1. CASE flash[p] = p
        BY <1>1, <4>1
      <4>2. CASE flash[p] # p
        <5>1. PICK b \in Bufs : Pending(b) /\ p \in nl_boff[b] .. (nl_boff[b] + nl_blen[b] - 1)
          BY <1>1, <2>2, <3>1, <4>2 DEF Landed
        <5>2. b # j /\ Pending(b)' /\ Same(b)
          BY <1>3, <1>5, <1>6, <5>1
        <5> QED BY <5>1, <5>2 DEF Same
      <4> QED BY <4>1, <4>2
    <3>2. CASE p \notin 0 .. (off - 1)
      <4>1. p \in off .. (off + R - 1)
        BY <1>0, <1>1, <1>2, <2>2, <3>2
      <4> QED BY <1>3, <1>6, <4>1
    <3> QED BY <3>1, <3>2
  <2> QED BY <2>1, <2>2 DEF Landed
<1> QED BY <1>1, <1>10, <1>11, <1>12, <1>13 DEF ProgramOnce
-----------------------------------------------------------------------------
LEMMA DataInitial == Init => DataInv
<1> SUFFICES ASSUME Init PROVE DataInv
  OBVIOUS
<1>1. TypeOK
  <2>1. 0 \in 0..MaxLen /\ 0 \in 0..BUF /\ 0 \in 0..2 /\ 0 \in Bufs
    OBVIOUS
  <2>2. /\ nl_buf \in BufType /\ nl_blen \in [Bufs -> 0..BUF] /\ nl_boff \in [Bufs -> 0..MaxLen]
        /\ flash \in FlashType /\ programs \in CountType
    BY Cleared, Zenon DEF Init
  <2> QED BY <2>1, <2>2, Zenon DEF Init, TypeOK, BufType, FlashType, CountType
<1>2. ProgramOnce /\ Balance
  BY DEF Init, ProgramOnce, Balance, InHand, Held
<1>3. Queue /\ Ahead /\ Filling /\ Landed
  BY DEF Init, Queue, Ahead, Filling, Landed, Pending, Alive, Streaming
<1> QED BY <1>1, <1>2, <1>3 DEF DataInv

LEMMA DataStep == PipeInv /\ DataInv /\ [Next]_vars => DataInv'
<1> SUFFICES ASSUME PipeInv, DataInv, [Next]_vars PROVE DataInv'
  OBVIOUS
<1>0. TypeOK /\ Balance /\ DataRest /\ Filling /\ Landed
  BY DEF DataInv, DataRest
<1>1. CASE Next
  <2>1. TypeOK' /\ Balance'
    BY <1>0, <1>1, DataTypes, BalanceKept
  <2>2. DataRest'
    <3>1. CASE HandOver
      BY <1>0, <1>1, <3>1, HandOverStep
    <3>2. CASE StreamStart
      BY <1>0, <3>2, StartStep
    <3>3. CASE WriterWrite \/ WriterWriteFails
      BY <1>0, <1>1, <3>3, WriteStep DEF WriterWrite, WriterWriteFails
    <3>4. CASE ~HandOver /\ ~StreamStart /\ ~(WriterWrite \/ WriterWriteFails)
      <4>1. UNCHANGED flashVars
        BY <1>1, <3>4 DEF Next, Producer, TakeFree, TakeStalled, Recv, RecvFails, SendSentinel, Join,
           JoinStalled, Writer, WriterTake, WriterWrite, WriterWriteFails, WriterGive, Reboot
      <4> QED BY <1>0, <1>1, <3>4, <4>1, QuietStep
    <3> QED BY <3>1, <3>2, <3>3, <3>4
  <2> QED BY <2>1, <2>2 DEF DataInv, DataRest
<1>2. CASE UNCHANGED vars
  BY <1>2 DEF vars, pVars, wVars, bufVars, flashVars, DataInv, TypeOK, Balance, InHand, Held, ProgramOnce,
     Queue, Ahead, Filling, Landed, Pending, Alive, First, Head, Ready, Unprogrammed, Want, Streaming
<1> QED BY <1>1, <1>2

LEMMA DataInvariant == Spec => []DataInv
BY DataInitial, DataStep, InitPipe, PipeInvariant, PTL DEF Spec

\* Every variable of the payload phase keeps its type: the semaphores never count
\* past two, no buffer is overrun and no byte is programmed behind the area.
THEOREM WriterTypeCorrect == Spec => []TypeOK
<1>1. DataInv => TypeOK
  BY DEF DataInv
<1> QED BY <1>1, DataInvariant, PTL

\* No ECC unit is programmed twice between erases, for every buffer size that is
\* a multiple of the unit and every image length, however recv() splits the image
\* and wherever a write fails or the writer is abandoned.
THEOREM UnitsAreProgrammedOnce == Spec => []ProgramOnce
<1>1. DataInv => ProgramOnce
  BY DEF DataInv
<1> QED BY <1>1, DataInvariant, PTL
-----------------------------------------------------------------------------
(* The order in which the image reaches the flash *)

\* The bytes that pending buffer b brings.
Span(b) == nl_boff[b] .. (nl_boff[b] + nl_blen[b] - 1)

\* A unit that was not programmed is erased.
Clean == \A a \in Area : programs[a \div UNIT] = 0 => flash[a] = Erased

\* Without a write error, everything before a pending buffer is in the flash or
\* in an earlier one; this outlives the push, in a writer that was abandoned.
Covered(b) ==
  \A p \in 0 .. (len - 1) : p < nl_boff[b] =>
     \/ flash[p] = p
     \/ \E c \in Bufs : Pending(c) /\ nl_boff[c] < nl_boff[b] /\ p \in Span(c)

Behind == ~nl_wrc => \A b \in Bufs : Pending(b) => Covered(b)

\* The flash holds the first n bytes of the image and nothing after them.
LaidTo(n) == \A p \in 0 .. (len - 1) : flash[p] = IF p < n THEN p ELSE Erased

Laid == \E n \in 0 .. len : LaidTo(n)

OrderInv == Clean /\ Behind /\ Laid

\* What the steps below read of the types.
LEMMA OrderTypes ==
  ASSUME TypeOK
  PROVE  /\ w \in Bufs /\ i \in Bufs /\ len \in 0..MaxLen /\ off \in 0..MaxLen
         /\ nl_blen \in [Bufs -> 0..BUF] /\ nl_boff \in [Bufs -> 0..MaxLen]
         /\ nl_filled \in Nat /\ nl_wrc \in BOOLEAN
         /\ programs \in [Units -> Nat]
         /\ \A p \in 0 .. (len - 1) : p \in Area /\ p \in Nat
BY AreaHolds DEF TypeOK

\* Every image fits in the area.
LEMMA ImageFits ==
  ASSUME NEW l \in 1..MaxLen, NEW p \in 0 .. (l - 1)
  PROVE  p \in Area /\ ~(p < 0)
<1>1. p \in 0 .. (MaxLen - 1) /\ ~(p < 0)
  OBVIOUS
<1> QED BY <1>1, AreaHolds

LEMMA OrderInitial == Init => OrderInv
<1> SUFFICES ASSUME Init PROVE OrderInv
  OBVIOUS
<1>1. /\ wpc = "none" /\ len = 0 /\ flash = [a \in Area |-> Erased]
      /\ \A a \in Area : flash[a] = Erased
  BY DEF Init
<1>2. Clean
  BY <1>1 DEF Clean
<1>3. Behind
  BY <1>1 DEF Behind, Pending, Alive
<1>4. LaidTo(0) /\ 0 \in 0 .. len
  BY <1>1 DEF LaidTo
<1> QED BY <1>2, <1>3, <1>4 DEF OrderInv, Laid

\* A freshly erased slot holds the first 0 bytes.
LEMMA OrderStart ==
  ASSUME StreamStart
  PROVE  OrderInv'
<1>1. /\ wpc' = "take" /\ nl_filled' = 0 /\ len' \in 1..MaxLen
      /\ flash' = [a \in Area |-> Erased]
  BY DEF StreamStart
<1>2. \A a \in Area : flash'[a] = Erased
  BY <1>1
<1>3. Clean'
  BY <1>2 DEF Clean
<1>4. Behind'
  <2>1. \A b : ~Pending(b)'
    BY <1>1 DEF Pending
  <2> QED BY <2>1 DEF Behind
<1>5. LaidTo(0)' /\ 0 \in 0 .. len'
  <2>1. \A p \in 0 .. (len' - 1) : p \in Area /\ ~(p < 0)
    BY <1>1, ImageFits
  <2>2. 0 \in 0 .. len'
    BY <1>1
  <2> QED BY <1>2, <2>1, <2>2 DEF LaidTo
<1> QED BY <1>3, <1>4, <1>5 DEF OrderInv, Laid

\* The steps that program nothing and hand nothing over.
LEMMA OrderQuiet ==
  ASSUME TypeOK, Balance, PipeInv, OrderInv, Next, ~HandOver, ~StreamStart,
         ~(WriterWrite \/ WriterWriteFails)
  PROVE  OrderInv'
<1>1. /\ flash' = flash /\ programs' = programs /\ len' = len
      /\ (nl_wrc' <=> nl_wrc) \/ wpc' = "none"
  BY DEF flashVars, Next, Producer, TakeFree, TakeStalled, Recv, RecvFails, SendSentinel, Join, JoinStalled,
     Writer, WriterTake, WriterGive, Reboot
<1>2. /\ \A b \in Bufs : Pending(b)' => Pending(b) /\ Same(b)
      /\ (\A b \in Bufs : Pending(b) => Pending(b)') \/ (\A b \in Bufs : ~Pending(b)')
  BY PendingKept
<1>3. Clean' /\ Laid'
  BY <1>1 DEF OrderInv, Clean, Laid, LaidTo
<1>4. Behind'
  <2>1. CASE \A b \in Bufs : ~Pending(b)'
    BY <2>1 DEF Behind
  <2>2. CASE wpc' = "none"
    BY <2>2 DEF Behind, Pending, Alive
  <2>3. CASE (nl_wrc' <=> nl_wrc) /\ \A b \in Bufs : Pending(b) => Pending(b)'
    <3> SUFFICES ASSUME ~nl_wrc', NEW b \in Bufs, Pending(b)' PROVE Covered(b)'
      BY DEF Behind
    <3>1. Pending(b) /\ Same(b) /\ Covered(b)
      BY <1>2, <2>3 DEF OrderInv, Behind
    <3> SUFFICES ASSUME NEW p \in 0 .. (len - 1), p < nl_boff[b], flash[p] # p
                 PROVE  \E c \in Bufs : Pending(c)' /\ nl_boff'[c] < nl_boff'[b] /\ p \in Span(c)'
      BY <1>1, <3>1 DEF Covered, Same
    <3>2. PICK c \in Bufs : Pending(c) /\ nl_boff[c] < nl_boff[b] /\ p \in Span(c)
      BY <3>1 DEF Covered
    <3>3. Pending(c)' /\ Same(c)
      BY <1>2, <2>3, <3>2
    <3> QED BY <3>1, <3>2, <3>3 DEF Same, Span
  <2> QED BY <1>1, <1>2, <2>1, <2>2, <2>3
<1> QED BY <1>3, <1>4 DEF OrderInv

\* The hand over: what lies before the new buffer was handed over before it.
LEMMA OrderHandOver ==
  ASSUME TypeOK, Balance, PipeInv, Queue, Ahead, Landed, OrderInv, HandOver
  PROVE  OrderInv'
<1>1. /\ ppc = "fill" /\ off < len /\ off' = off + have /\ len' = len
      /\ flash' = flash /\ programs' = programs /\ wpc' = wpc /\ w' = w /\ (nl_wrc' <=> nl_wrc)
      /\ nl_filled' = nl_filled + 1
  BY DEF HandOver, HandOverAs, wVars, flashVars, PipeInv, Flow, Streaming
<1>2. Clean' /\ Laid'
  BY <1>1 DEF OrderInv, Clean, Laid, LaidTo
<1> PICK j \in Bufs : j = i
  BY OrderTypes
<1>3. nl_boff'[j] = off /\ \A b \in Bufs : b # j => nl_boff'[b] = nl_boff[b] /\ nl_blen'[b] = nl_blen[b]
  BY OrderTypes DEF HandOver, HandOverAs
<1>4. Alive /\ nl_filled + Held <= 1 /\ j = IF nl_filled + Held = 1 THEN 1 - w ELSE w
  BY <1>1, OrderTypes DEF PipeInv, Shape, Flow, Streaming, InHand, Held
<1>5. \A b \in Bufs : b # j => (Pending(b)' <=> Pending(b))
  BY <1>1, <1>3, <1>4, OrderTypes DEF Pending, Alive, First, Held
<1>6. ~Pending(j)
  BY <1>1, HandIsFree
<1>7. \A b \in Bufs : Pending(b) => nl_boff[b] + BUF <= off
  BY <1>1 DEF Ahead, Streaming
<1>8. Behind'
  <2> SUFFICES ASSUME ~nl_wrc', NEW b \in Bufs, Pending(b)', NEW p \in 0 .. (len - 1),
                      p < nl_boff'[b], flash[p] # p
               PROVE  \E c \in Bufs : Pending(c)' /\ nl_boff'[c] < nl_boff'[b] /\ p \in Span(c)'
    BY <1>1 DEF Behind, Covered
  <2>1. CASE b = j
    <3>1. p \in 0 .. (off - 1)
      BY <1>3, <2>1, OrderTypes
    <3>2. PICK c \in Bufs : Pending(c) /\ p \in nl_boff[c] .. (nl_boff[c] + nl_blen[c] - 1)
      BY <1>1, <3>1 DEF Landed
    <3>3. c # j /\ Pending(c)' /\ nl_boff'[c] = nl_boff[c] /\ nl_blen'[c] = nl_blen[c]
      BY <1>3, <1>5, <1>6, <3>2
    <3>4. nl_boff[c] < off
      BY <1>7, <3>2, OrderTypes
    <3> QED BY <1>3, <2>1, <3>2, <3>3, <3>4 DEF Span
  <2>2. CASE b # j
    <3>1. Pending(b) /\ p < nl_boff[b]
      BY <1>3, <1>5, <2>2
    <3>2. PICK c \in Bufs : Pending(c) /\ nl_boff[c] < nl_boff[b] /\ p \in Span(c)
      BY <1>1, <3>1 DEF OrderInv, Behind, Covered
    <3>3. c # j /\ Pending(c)' /\ nl_boff'[c] = nl_boff[c] /\ nl_blen'[c] = nl_blen[c]
      BY <1>3, <1>5, <1>6, <3>2
    <3> QED BY <1>3, <2>2, <3>2, <3>3 DEF Span
  <2> QED BY <2>1, <2>2
<1> QED BY <1>2, <1>8 DEF OrderInv

\* The writer programs the front of the queue: everything before its buffer is
\* there, nothing behind is, so the prefix grows.
LEMMA OrderWrite ==
  ASSUME TypeOK, Balance, Queue, OrderInv, wpc = "write", ~nl_wrc,
         NEW n \in 0 .. nl_blen[w], ProgramBytes(n), len' = len
  PROVE  Clean' /\ Laid'
<1> DEFINE a == nl_boff[w]
           span == a .. (a + n - 1)
<1>1. a \in Nat /\ n \in Nat /\ len \in Nat
  BY OrderTypes
<1>2. Pending(w) /\ Ready(w) /\ Covered(w)
  BY OrderTypes DEF Queue, Pending, Alive, OrderInv, Behind
<1>3. /\ flash' = [b \in Area |-> IF b \in span THEN nl_buf[w][b - a] ELSE flash[b]]
      /\ programs' = [u \in Units |-> IF \E b \in span : u = b \div UNIT THEN programs[u] + 1
                                      ELSE programs[u]]
  BY DEF ProgramBytes
<1>4. Clean'
  <2> SUFFICES ASSUME NEW b \in Area, programs'[b \div UNIT] = 0 PROVE flash'[b] = Erased
    BY DEF Clean
  <2>1. PICK u \in Units : u = b \div UNIT
    BY DEF Units
  <2>2. programs[u] \in Nat /\ programs[u] + 1 # 0
    BY OrderTypes
  <2>3. b \notin span /\ programs[u] = 0
    BY <1>3, <2>1, <2>2
  <2> QED BY <1>3, <2>1, <2>3 DEF OrderInv, Clean
<1>5. ASSUME NEW p \in 0 .. (len - 1), p < a
      PROVE  flash[p] = p
  <2>1. ASSUME NEW c \in Bufs, Pending(c), nl_boff[c] < nl_boff[w]
        PROVE  FALSE
    <3>1. c # w /\ c = 1 - w /\ Head = w
      BY <2>1, OrderTypes DEF Head
    <3>2. nl_boff[w] + BUF <= nl_boff[c]
      BY <1>2, <2>1, <3>1 DEF Queue
    <3> QED BY <2>1, <3>2, OrderTypes
  <2> QED BY <1>2, <1>5, <2>1 DEF Covered
<1>6. ASSUME NEW p \in 0 .. (len - 1), p >= a
      PROVE  flash[p] = Erased
  <2>1. p \in Nat /\ p \in Area /\ a % BUF = 0
    BY <1>2, OrderTypes DEF Ready
  <2>2. (p \div UNIT) * UNIT >= a /\ p \div UNIT \in Units
    <3> HIDE DEF a, span
    <3>1. (p \div UNIT) * UNIT >= a
      BY <1>1, <1>6, <2>1, UnitBehind
    <3> QED BY <2>1, <3>1 DEF Units
  <2>3. programs[p \div UNIT] = 0
    BY <1>2, <2>2 DEF Ready, Unprogrammed
  <2> QED BY <2>1, <2>3 DEF OrderInv, Clean
<1>7. ASSUME NEW p \in 0 .. (len - 1)
      PROVE  /\ p \in span => flash'[p] = p
             /\ p \notin span => flash'[p] = flash[p]
  <2>1. p \in Area /\ p \in Nat
    BY OrderTypes
  <2>2. CASE p \in span
    <3>1. p - a \in 0 .. (nl_blen[w] - 1) /\ a + (p - a) = p /\ p < len
      BY <1>1, <2>2, OrderTypes
    <3>2. nl_buf[w][p - a] = p
      BY <1>2, <3>1 DEF Ready
    <3> QED BY <1>3, <2>1, <2>2, <3>2
  <2>3. CASE p \notin span
    BY <1>3, <2>1, <2>3
  <2> QED BY <2>2, <2>3
<1>8. PICK m \in 0 .. len : m = IF a + n <= len THEN a + n ELSE len
  BY <1>1
<1>9. ASSUME NEW p \in 0 .. (len - 1)
      PROVE  flash'[p] = IF p < m THEN p ELSE Erased
  <2>1. CASE p < a
    <3>1. p \notin span /\ p < m
      BY <1>1, <1>8, <2>1
    <3> QED BY <1>5, <1>7, <2>1, <3>1
  <2>2. CASE p \in span
    <3>1. p < m
      BY <1>1, <1>8, <2>2
    <3> QED BY <1>7, <2>2, <3>1
  <2>3. CASE p >= a /\ p \notin span
    <3>1. ~(p < m)
      BY <1>1, <1>8, <2>3
    <3> QED BY <1>6, <1>7, <2>3, <3>1
  <2> QED BY <1>1, <2>1, <2>2, <2>3
<1>10. LaidTo(m)'
  BY <1>9 DEF LaidTo
<1> QED BY <1>4, <1>8, <1>10 DEF Laid

\* After the write the buffers that are left are still covered.
LEMMA BehindWrite ==
  ASSUME TypeOK, Balance, PipeInv, Queue, OrderInv, Next, wpc = "write", ~nl_wrc, WriterWrite
  PROVE  Behind'
<1>1. /\ len' = len /\ nl_boff' = nl_boff /\ nl_blen' = nl_blen /\ w' = w /\ wpc' = "give"
      /\ nl_filled' = nl_filled /\ ProgramBytes(nl_blen[w])
  BY DEF WriterWrite, pVars, bufVars
<1>2. Pending(w) /\ Ready(w) /\ nl_blen[w] \in 0 .. nl_blen[w]
  BY OrderTypes DEF Queue, Pending, Alive
<1>3. /\ \A p \in 0 .. (len - 1) : flash'[p] = flash[p] \/ flash'[p] = p
      /\ \A p \in 0 .. (len - 1) : p \in Span(w) => flash'[p] = p
  BY <1>1, <1>2, ProgramEffect DEF Span
<1>4. \A b \in Bufs : Pending(b)' => Pending(b) /\ b # w
  <2>1. nl_filled <= 1
    BY OrderTypes DEF Balance, InHand, Held, TypeOK
  <2> QED BY <1>1, <2>1, OrderTypes DEF Pending, Alive, First, Held
<1> SUFFICES ASSUME NEW b \in Bufs, Pending(b), b # w, NEW p \in 0 .. (len - 1), p < nl_boff[b]
             PROVE  flash'[p] = p
  BY <1>1, <1>4 DEF Behind, Covered
<1>5. CASE flash[p] = p
  BY <1>3, <1>5
<1>6. CASE flash[p] # p
  <2>1. PICK c \in Bufs : nl_boff[c] < nl_boff[b] /\ p \in Span(c)
    BY <1>6 DEF OrderInv, Behind, Covered
  <2>2. c = w
    BY <2>1, OrderTypes
  <2> QED BY <1>3, <2>1, <2>2
<1> QED BY <1>5, <1>6

LEMMA OrderStep == PipeInv /\ DataInv /\ OrderInv /\ [Next]_vars => OrderInv'
<1> SUFFICES ASSUME PipeInv, DataInv, OrderInv, [Next]_vars PROVE OrderInv'
  OBVIOUS
<1>0. TypeOK /\ Balance /\ Queue /\ Ahead /\ Landed
  BY DEF DataInv
<1>1. CASE StreamStart
  BY <1>1, OrderStart
<1>2. CASE HandOver
  BY <1>0, <1>2, OrderHandOver
<1>3. CASE WriterWrite \/ WriterWriteFails
  <2>1. wpc = "write" /\ wpc' = "give" /\ len' = len /\ (nl_wrc => nl_wrc') /\ Next
    BY <1>3 DEF WriterWrite, WriterWriteFails, Next, Writer
  <2>2. CASE nl_wrc
    <3>1. flash' = flash /\ programs' = programs
      BY <1>3, <2>2 DEF WriterWrite, WriterWriteFails, flashVars
    <3> QED BY <2>1, <2>2, <3>1 DEF OrderInv, Clean, Behind, Laid, LaidTo
  <2>3. CASE ~nl_wrc
    <3>1. nl_blen[w] \in 0 .. nl_blen[w]
      BY <1>0, OrderTypes
    <3>2. PICK n \in 0 .. nl_blen[w] : ProgramBytes(n)
      BY <1>3, <2>3, <3>1 DEF WriterWrite, WriterWriteFails
    <3>3. Clean' /\ Laid'
      BY <1>0, <2>1, <2>3, <3>2, OrderWrite
    <3>4. Behind'
      <4>1. CASE WriterWrite
        BY <1>0, <2>1, <2>3, <4>1, BehindWrite
      <4>2. CASE WriterWriteFails
        BY <4>2 DEF WriterWriteFails, Behind
      <4> QED BY <1>3, <4>1, <4>2
    <3> QED BY <3>3, <3>4 DEF OrderInv
  <2> QED BY <2>2, <2>3
<1>4. CASE UNCHANGED vars
  BY <1>4 DEF vars, wVars, bufVars, flashVars, OrderInv, Clean, Behind, Covered, Span, Pending, Alive, First,
     Held, Laid, LaidTo
<1> QED BY <1>0, <1>1, <1>2, <1>3, <1>4, OrderQuiet

LEMMA OrderInvariant == Spec => []OrderInv
BY OrderInitial, OrderStep, PipeInvariant, DataInvariant, PTL DEF Spec
-----------------------------------------------------------------------------
(* The pipeline implements ImageStream *)

\* The flash under the image, as ImageStream sees it.
UnderImage == [p \in 0..(len - 1) |-> flash[p]]

\* It is a prefix of the image in every state.
LEMMA LaidIsPrefix ==
  ASSUME NEW n, LaidTo(n)
  PROVE  UnderImage = Stream!Prefix(len, n)
BY DEF LaidTo, UnderImage, Stream!Prefix

\* A write lengthens the prefix or leaves it alone.
LEMMA WriteExtends ==
  ASSUME len \in Nat, len' = len, result' = result, Laid, Laid',
         \A p \in 0 .. (len - 1) : flash'[p] = flash[p] \/ flash'[p] = p
  PROVE  Stream!Extend \/ UNCHANGED Stream!streamVars
<1>1. PICK n \in 0 .. len : LaidTo(n)
  BY DEF Laid
<1>2. PICK m \in 0 .. len : LaidTo(m)'
  BY DEF Laid
<1>3. UnderImage = Stream!Prefix(len, n)
  BY <1>1, LaidIsPrefix
<1>4. UnderImage' = Stream!Prefix(len, m)
  BY <1>2 DEF LaidTo, UnderImage, Stream!Prefix
<1>5. m >= n
  <2> SUFFICES ASSUME m < n PROVE FALSE
    OBVIOUS
  <2>1. m \in 0 .. (len - 1) /\ m # Erased
    BY DEF Erased
  <2>2. flash[m] = m /\ flash'[m] = Erased
    BY <1>1, <1>2, <2>1 DEF LaidTo
  <2> QED BY <2>1, <2>2
<1>6. CASE m = n
  BY <1>3, <1>4, <1>6 DEF Stream!streamVars, UnderImage
<1>7. CASE m > n
  <2>1. m \in (n + 1) .. len
    BY <1>7
  <2>2. UNCHANGED << len, result >>
    OBVIOUS
  <2> QED BY <1>3, <1>4, <2>1, <2>2 DEF Stream!Extend, UnderImage
<1> QED BY <1>5, <1>6, <1>7

\* The two threads, the buffers and the semaphores implement ImageStream: at any
\* time the flash holds the first bytes of the image and nothing beyond them, it
\* only grows at its end, and "ok" means that all of the image is there.
THEOREM PipelineImplementsStream == Spec => StreamSpec
<1>1. Init => Stream!Init
  <2> SUFFICES ASSUME Init PROVE Stream!Init
    OBVIOUS
  <2>1. len = 0 /\ result = "none"
    BY DEF Init
  <2>2. UnderImage = Stream!Prefix(0, 0)
    BY <2>1 DEF UnderImage, Stream!Prefix
  <2> QED BY <2>1, <2>2 DEF Stream!Init, UnderImage
<1>2. PipeInv /\ DataInv /\ OrderInv /\ OrderInv' /\ [Next]_vars => [Stream!Next]_(Stream!streamVars)
  <2> SUFFICES ASSUME PipeInv, DataInv, OrderInv, OrderInv', [Next]_vars
               PROVE  Stream!Next \/ UNCHANGED Stream!streamVars
    OBVIOUS
  <2>0. len \in Nat /\ TypeOK
    BY DEF DataInv, TypeOK
  <2>1. ASSUME len' = len, result' = result, flash' = flash
        PROVE  UNCHANGED Stream!streamVars
    BY <2>1 DEF Stream!streamVars
  <2>2. CASE StreamStart
    <3>1. len' \in 1..MaxLen /\ result' = "none" /\ flash' = [a \in Area |-> Erased]
      BY <2>2 DEF StreamStart
    <3>2. \A p \in 0 .. (len' - 1) : flash'[p] = Erased /\ ~(p < 0)
      BY <3>1, ImageFits
    <3>3. UnderImage' = Stream!Prefix(len', 0)
      BY <3>2 DEF UnderImage, Stream!Prefix
    <3> QED BY <3>1, <3>3 DEF Stream!Next, Stream!Begin, UnderImage
  <2>3. CASE WriterWrite \/ WriterWriteFails
    <3>1. len' = len /\ result' = result
      BY <2>3 DEF WriterWrite, WriterWriteFails, pVars
    <3>2. \A p \in 0 .. (len - 1) : flash'[p] = flash[p] \/ flash'[p] = p
      <4>1. CASE UNCHANGED flashVars
        BY <4>1 DEF flashVars
      <4>2. CASE \E n \in 0 .. nl_blen[w] : ProgramBytes(n)
        <5>1. wpc = "write" /\ Ready(w)
          BY <2>3 DEF WriterWrite, WriterWriteFails, DataInv, Queue, Pending, Alive, TypeOK
        <5> QED BY <2>0, <4>2, <5>1, ProgramEffect
      <4>3. nl_blen[w] \in 0 .. nl_blen[w]
        BY <2>0 DEF TypeOK
      <4> QED BY <2>3, <4>1, <4>2, <4>3 DEF WriterWrite, WriterWriteFails
    <3>3. Laid /\ Laid'
      BY DEF OrderInv
    <3>4. Stream!Extend \/ UNCHANGED Stream!streamVars
      BY <2>0, <3>1, <3>2, <3>3, WriteExtends
    <3> QED BY <3>4 DEF Stream!Next
  <2>4. CASE Join
    <3>1. /\ result = "none" /\ len' = len /\ flash' = flash
          /\ result' = IF nl_wrc \/ failed \/ off # len THEN "failed" ELSE "ok"
      BY <2>4 DEF Join, flashVars, DataInv, Landed
    <3>2. CASE result' = "failed"
      BY <3>1, <3>2 DEF Stream!Next, Stream!Fail
    <3>3. CASE result' = "ok"
      <4>1. ~nl_wrc /\ off = len /\ ppc = "join" /\ wpc = "exited"
        BY <2>4, <3>1, <3>3 DEF Join
      <4>2. \A b \in Bufs : ~Pending(b)
        BY <4>1 DEF Pending, Alive
      <4>3. LaidTo(len)
        BY <2>0, <4>1, <4>2 DEF DataInv, Landed, LaidTo
      <4>4. UnderImage = Stream!Prefix(len, len)
        BY <4>3, LaidIsPrefix
      <4> QED BY <3>1, <3>3, <4>4 DEF Stream!Next, Stream!Succeed, UnderImage
    <3> QED BY <3>1, <3>2, <3>3
  <2>5. CASE TakeStalled \/ JoinStalled
    <3>1. result = "none" /\ len' = len /\ flash' = flash /\ result' = "failed"
      BY <2>5 DEF TakeStalled, JoinStalled, flashVars, DataInv, Landed
    <3> QED BY <3>1 DEF Stream!Next, Stream!Fail
  <2>6. CASE TakeFree \/ RecvFails \/ HandOver \/ SendSentinel \/ WriterTake \/ WriterGive \/ Reboot
             \/ \E n \in 1..BUF : Recv(n)
    BY <2>1, <2>6 DEF TakeFree, RecvFails, HandOver, HandOverAs, SendSentinel, WriterTake, WriterGive,
       Reboot, Recv, pVars, flashVars
  <2>7. CASE UNCHANGED vars
    BY <2>1, <2>7 DEF vars, pVars, flashVars
  <2> QED BY <2>2, <2>3, <2>4, <2>5, <2>6, <2>7 DEF Next, Producer, Writer
<1> QED BY <1>1, <1>2, PipeInvariant, DataInvariant, OrderInvariant, PTL
        DEF Spec, StreamSpec, Stream!Spec
=============================================================================

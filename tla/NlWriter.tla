------------------------------ MODULE NlWriter ------------------------------
(***************************************************************************)
(* The payload phase of nl_push(): the pusher thread receives the image    *)
(* into one of two buffers while the writer thread nl_writer() programs    *)
(* the other into the flash.  Two counting semaphores pass the buffers     *)
(* back and forth, a zero length buffer ends the writer, and a writer      *)
(* that does not come back is abandoned.                                   *)
(*                                                                         *)
(* A byte of the image is its position; the payload area of the slot is an *)
(* array of bytes that starts on an ECC unit.                              *)
(***************************************************************************)
EXTENDS Integers

CONSTANTS
  BUF,       \* CONFIG_RVT_PUSHER_BUF
  UNIT,      \* FLASH_ECC_UNIT
  MaxLen     \* longest image

\* The two BUILD_ASSERTs, with the payload offset as the origin.
ASSUME WriterAssumption ==
  /\ UNIT \in Nat \ {0}
  /\ BUF \in Nat \ {0}
  /\ BUF % UNIT = 0
  /\ MaxLen \in Nat \ {0}

Erased == -1      \* a byte of flash that was erased and not programmed
Pad    == -2      \* 0xFF padding of the last unit

VARIABLES
  ppc,          \* the pusher thread
  i,            \* the buffer it fills next or is filling
  off, have,    \* bytes handed over, bytes in buffer i
  failed,       \* the receive failed
  result,       \* outcome of the payload phase
  wpc,          \* the writer thread
  w,            \* the buffer it programs next or is programming
  nl_buf, nl_blen, nl_boff,
  nl_free, nl_filled,      \* semaphore counts
  nl_wrc,       \* sticky write error
  nl_writer_lost,
  len,          \* length in the push header
  flash,        \* the payload area
  programs      \* per ECC unit: programs since the last erase (history)

pVars == << i, off, have, failed, result >>
wVars == << wpc, w >>
bufVars == << nl_buf, nl_blen, nl_boff >>
flashVars == << flash, programs >>
vars == << ppc, pVars, wVars, bufVars, nl_free, nl_filled, nl_wrc,
           nl_writer_lost, len, flashVars >>

Bufs == {0, 1}
RoundUp(n, m) == ((n + m - 1) \div m) * m
Area == 0..(RoundUp(MaxLen, BUF) - 1)        \* more than any push needs
Units == {a \div UNIT : a \in Area}
Byte == {Erased, Pad} \cup 0..(MaxLen - 1)

TypeOK ==
  /\ ppc \in {"idle", "take", "fill", "sentinel", "join"}
  /\ i \in Bufs /\ w \in Bufs
  /\ off \in 0..MaxLen /\ have \in 0..BUF
  /\ failed \in BOOLEAN
  /\ result \in {"none", "ok", "failed"}
  /\ wpc \in {"none", "take", "write", "give", "exited"}
  /\ nl_buf \in [Bufs -> [0..(BUF - 1) -> Byte]]
  /\ nl_blen \in [Bufs -> 0..BUF]
  /\ nl_boff \in [Bufs -> 0..MaxLen]
  /\ nl_free \in 0..2 /\ nl_filled \in 0..2
  /\ nl_wrc \in BOOLEAN
  /\ nl_writer_lost \in BOOLEAN
  /\ len \in 0..MaxLen
  /\ flash \in [Area -> Byte]
  /\ programs \in [Units -> Nat]

Init ==
  /\ ppc = "idle" /\ i = 0 /\ off = 0 /\ have = 0 /\ failed = FALSE
  /\ result = "none"
  /\ wpc = "none" /\ w = 0
  /\ nl_buf = [b \in Bufs |-> [k \in 0..(BUF - 1) |-> Erased]]
  /\ nl_blen = [b \in Bufs |-> 0] /\ nl_boff = [b \in Bufs |-> 0]
  /\ nl_free = 0 /\ nl_filled = 0
  /\ nl_wrc = FALSE
  /\ nl_writer_lost = FALSE
  /\ len = 0
  /\ flash = [a \in Area |-> Erased]
  /\ programs = [u \in Units |-> 0]
-----------------------------------------------------------------------------
(* The pusher thread *)

\* Mutant: a push is let in although an abandoned writer may still run.
MutStartAfterLoss ==
  /\ ppc = "idle"
  /\ len' \in 1..MaxLen
  /\ flash' = [a \in Area |-> Erased]
  /\ programs' = [u \in Units |-> 0]
  /\ nl_free' = 2 /\ nl_filled' = 0
  /\ nl_wrc' = FALSE
  /\ wpc' = "take" /\ w' = 0
  /\ ppc' = "take" /\ i' = 0 /\ off' = 0 /\ have' = 0 /\ failed' = FALSE
  /\ result' = "none"
  /\ UNCHANGED << bufVars, nl_writer_lost >>

\* The slot has been erased: semaphores and error cleared, writer created.
\* A push after an abandoned writer is refused at the top of nl_push().
StreamStart ==
  /\ ppc = "idle"
  /\ ~nl_writer_lost
  /\ len' \in 1..MaxLen
  /\ flash' = [a \in Area |-> Erased]
  /\ programs' = [u \in Units |-> 0]
  /\ nl_free' = 2 /\ nl_filled' = 0
  /\ nl_wrc' = FALSE
  /\ wpc' = "take" /\ w' = 0
  /\ ppc' = "take" /\ i' = 0 /\ off' = 0 /\ have' = 0 /\ failed' = FALSE
  /\ result' = "none"
  /\ UNCHANGED << bufVars, nl_writer_lost >>

\* k_sem_take(&nl_free): a buffer to fill, or the loop is over.
TakeFree ==
  /\ ppc = "take"
  /\ nl_free > 0
  /\ nl_free' = nl_free - 1
  /\ have' = 0
  /\ ppc' = IF off >= len \/ nl_wrc THEN "sentinel" ELSE "fill"
  /\ UNCHANGED << i, off, failed, result, wVars, bufVars, nl_filled, nl_wrc,
                  nl_writer_lost, len, flashVars >>

\* Mutant: k_sem_take(&nl_free, K_FOREVER).
MutTakeForever == FALSE

\* STALL_MS without a free buffer: the writer is abandoned.
TakeStalled ==
  /\ ppc = "take"
  /\ nl_free = 0
  /\ nl_writer_lost' = TRUE
  /\ failed' = TRUE
  /\ result' = "failed"
  /\ ppc' = "idle"
  /\ UNCHANGED << i, off, have, wVars, bufVars, nl_free, nl_filled, nl_wrc,
                  len, flashVars >>

\* One recv() of the whole buffer's MIN(BUF, len - off) bytes.
Want == IF len - off < BUF THEN len - off ELSE BUF

Recv(n) ==
  /\ ppc = "fill"
  /\ n \in 1..(Want - have)
  /\ nl_buf' = [nl_buf EXCEPT ![i] =
                 [k \in 0..(BUF - 1) |->
                    IF k \in have..(have + n - 1) THEN off + k ELSE @[k]]]
  /\ have' = have + n
  /\ UNCHANGED << ppc, i, off, failed, result, wVars, nl_blen, nl_boff,
                  nl_free, nl_filled, nl_wrc, nl_writer_lost, len, flashVars >>

\* rx timeout, rx error, closed connection, or the deadline of the buffer (which
\* is tested after a recv, so it may strike a buffer that is complete).
RecvFails ==
  /\ ppc = "fill"
  /\ failed' = TRUE
  /\ ppc' = "sentinel"
  /\ UNCHANGED << i, off, have, result, wVars, bufVars, nl_free, nl_filled,
                  nl_wrc, nl_writer_lost, len, flashVars >>

HandOverAs(full, at, count) ==
  /\ ppc = "fill"
  /\ full
  /\ nl_blen' = [nl_blen EXCEPT ![i] = RoundUp(have, UNIT)]
  /\ nl_boff' = [nl_boff EXCEPT ![i] = at]
  /\ nl_buf' = [nl_buf EXCEPT ![i] =
                 [k \in 0..(BUF - 1) |->
                    IF k \in have..(RoundUp(have, UNIT) - 1)
                    THEN Pad ELSE @[k]]]
  /\ nl_filled' = nl_filled + 1
  /\ off' = off + count
  /\ i' = 1 - i
  /\ ppc' = "take"
  /\ UNCHANGED << have, failed, result, wVars, nl_free, nl_wrc,
                  nl_writer_lost, len, flashVars >>

\* Mutant: a buffer is handed over after any recv().
MutHandOverShort  == HandOverAs(have > 0, off, have)

\* The buffer is padded to a whole ECC unit and handed to the writer.
HandOver == HandOverAs(have = Want, off, have)

\* The buffer in hand carries the end mark.
SendSentinel ==
  /\ ppc = "sentinel"
  /\ nl_blen' = [nl_blen EXCEPT ![i] = 0]
  /\ nl_filled' = nl_filled + 1
  /\ ppc' = "join"
  /\ UNCHANGED << pVars, wVars, nl_buf, nl_boff, nl_free, nl_wrc,
                  nl_writer_lost, len, flashVars >>

\* k_thread_join(); then the write error, then the short transfer.
Join ==
  /\ ppc = "join"
  /\ wpc = "exited"
  /\ result' = IF nl_wrc \/ failed \/ off # len THEN "failed" ELSE "ok"
  /\ wpc' = "none"
  /\ ppc' = "idle"
  /\ UNCHANGED << i, off, have, failed, w, bufVars, nl_free, nl_filled,
                  nl_wrc, nl_writer_lost, len, flashVars >>

JoinStalled ==
  /\ ppc = "join"
  /\ wpc # "exited"
  /\ nl_writer_lost' = TRUE
  /\ result' = "failed"
  /\ ppc' = "idle"
  /\ UNCHANGED << i, off, have, failed, wVars, bufVars, nl_free, nl_filled,
                  nl_wrc, len, flashVars >>
-----------------------------------------------------------------------------
(* nl_writer() *)

\* Mutant: the buffer is given back before it is programmed.
MutGiveFirst ==
  /\ wpc = "take"
  /\ nl_filled > 0
  /\ nl_filled' = nl_filled - 1
  /\ nl_free' = nl_free + 1
  /\ wpc' = IF nl_blen[w] = 0 THEN "exited" ELSE "write"
  /\ UNCHANGED << ppc, pVars, w, bufVars, nl_wrc, nl_writer_lost, len,
                  flashVars >>

WriterTake ==
  /\ wpc = "take"
  /\ nl_filled > 0
  /\ nl_filled' = nl_filled - 1
  /\ wpc' = IF nl_blen[w] = 0 THEN "exited" ELSE "write"
  /\ UNCHANGED << ppc, pVars, w, bufVars, nl_free, nl_wrc, nl_writer_lost,
                  len, flashVars >>

\* The first n bytes of buffer w are programmed at its offset.
ProgramBytes(n) ==
  LET a == nl_boff[w]
      span == a..(a + n - 1)
  IN /\ flash' = [b \in Area |-> IF b \in span THEN nl_buf[w][b - a]
                                 ELSE flash[b]]
     /\ programs' = [u \in Units |->
                       IF \E b \in span : u = b \div UNIT
                       THEN programs[u] + 1 ELSE programs[u]]

\* Mutant: the writer goes on programming after an error.
MutWriterCarriesOn ==
  /\ wpc = "write"
  /\ wpc' = "give"
  /\ ProgramBytes(nl_blen[w])
  /\ UNCHANGED << ppc, pVars, w, bufVars, nl_free, nl_filled, nl_wrc,
                  nl_writer_lost, len >>

\* flash_write() of buffer w succeeds, or is skipped after an earlier error.
WriterWrite ==
  /\ wpc = "write"
  /\ wpc' = "give"
  /\ IF nl_wrc THEN UNCHANGED flashVars ELSE ProgramBytes(nl_blen[w])
  /\ UNCHANGED << ppc, pVars, w, bufVars, nl_free, nl_filled, nl_wrc,
                  nl_writer_lost, len >>

\* Mutant: the writer returns on an error instead of draining.
MutWriterQuits ==
  /\ wpc = "write"
  /\ ~nl_wrc
  /\ wpc' = "exited"
  /\ nl_wrc' = TRUE
  /\ \E n \in 0..nl_blen[w] : ProgramBytes(n)
  /\ UNCHANGED << ppc, pVars, w, bufVars, nl_free, nl_filled,
                  nl_writer_lost, len >>

\* flash_write() fails after some of the bytes: the error sticks, and the
\* buffers keep going round.
WriterWriteFails ==
  /\ wpc = "write"
  /\ ~nl_wrc
  /\ wpc' = "give"
  /\ nl_wrc' = TRUE
  /\ \E n \in 0..nl_blen[w] : ProgramBytes(n)
  /\ UNCHANGED << ppc, pVars, w, bufVars, nl_free, nl_filled,
                  nl_writer_lost, len >>

WriterGive ==
  /\ wpc = "give"
  /\ nl_free' = nl_free + 1
  /\ w' = 1 - w
  /\ wpc' = "take"
  /\ UNCHANGED << ppc, pVars, bufVars, nl_filled, nl_wrc, nl_writer_lost,
                  len, flashVars >>
-----------------------------------------------------------------------------
Producer == \/ TakeFree \/ TakeStalled
            \/ \E n \in 1..BUF : Recv(n)
            \/ RecvFails \/ HandOver \/ SendSentinel \/ Join \/ JoinStalled

Writer == WriterTake \/ WriterWrite \/ WriterWriteFails \/ WriterGive

\* nl_thread() reboots the board once the writer is lost: the RAM starts over,
\* the flash keeps what it has.
Reboot ==
  /\ nl_writer_lost
  /\ ppc = "idle"
  /\ i' = 0 /\ off' = 0 /\ have' = 0 /\ failed' = FALSE
  /\ wpc' = "none" /\ w' = 0
  /\ nl_buf' = [b \in Bufs |-> [k \in 0..(BUF - 1) |-> Erased]]
  /\ nl_blen' = [b \in Bufs |-> 0] /\ nl_boff' = [b \in Bufs |-> 0]
  /\ nl_free' = 0 /\ nl_filled' = 0
  /\ nl_wrc' = FALSE
  /\ nl_writer_lost' = FALSE
  /\ UNCHANGED << ppc, result, len, flashVars >>

Next == StreamStart \/ Producer \/ Writer \/ Reboot

Spec == Init /\ [][Next]_vars

\* Every wait of the pusher thread has a timeout, so it always goes on; nothing
\* is assumed of the writer, which may be stuck in the flash driver for good.
FairSpec == Spec /\ WF_vars(Producer)
-----------------------------------------------------------------------------
(* Properties *)

\* nl_buf: the pusher never receives into the buffer that flash_write() is
\* reading, nor puts the end mark in it.
BufferOwnership ==
  wpc \in {"write", "give"} /\ ppc \in {"fill", "sentinel"} => i # w

\* The rule of the S28HL512T: no ECC unit is programmed twice between erases,
\* whatever the length, the splitting of recv() and the failures.
ProgramOnce == \A u \in Units : programs[u] <= 1

\* A writer is given up only while it has a buffer to program: the two threads
\* never wait for each other, in particular not after a write error, when the
\* writer must keep handing buffers back.
StallIsTheFlash ==
  [][nl_writer_lost' /\ ~nl_writer_lost =>
       wpc \in {"write", "give"} \/ (wpc = "take" /\ nl_filled > 0)]_vars

\* A writer never outlives the push that created it: the thread object and the
\* semaphores are reused only when no writer is left.
WriterNotReused == [][ppc = "idle" /\ ppc' = "take" => wpc = "none"]_vars

\* Every payload phase ends, even with a writer that never returns.
PushEnds == ppc # "idle" ~> ppc = "idle"

\* The pipeline implements ImageStream, which sees the flash under the image byte
\* by byte: it always holds the first bytes of the image, the rest is erased, and
\* it only grows at its end.  The second buffer is never programmed before the
\* first, nothing is programmed behind a write that failed, and "ok" means that
\* the whole image is there.
Stream == INSTANCE ImageStream WITH slot <- [p \in 0..(len - 1) |-> flash[p]]
StreamSpec == Stream!Spec
=============================================================================

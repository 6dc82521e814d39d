---------------------------- MODULE TelnetConsole ----------------------------
(***************************************************************************)
(* The guest's console over TCP (telnet.c): two lock-free rings between    *)
(* the telnet thread and the emulator thread, and the session that turns   *)
(* them on and off.                                                        *)
(*                                                                         *)
(* One core, strict priorities: the emulator thread runs only while the    *)
(* telnet thread is blocked, so a telnet step here is everything between   *)
(* two calls that may block, while the emulator may be preempted between   *)
(* any two accesses to the shared state.                                   *)
(*                                                                         *)
(* Guest output and typed bytes are numbered; the telnet protocol bytes    *)
(* among the latter are TelnetFilter's subject.                            *)
(***************************************************************************)
EXTENDS Integers, Sequences, FiniteSets

CONSTANTS
  TxSize, RxSize,   \* CONFIG_RVT_TELNET_TX_RING, _RX_RING
  Batch,            \* bytes gathered by tn_flush() for one send
  Chunk,            \* bound: bytes of one recv()
  MaxOut, MaxIn,    \* bounds: bytes the guest prints, bytes the clients type
  MaxConns          \* bound: connections

ASSUME ConsoleAssumption ==
  /\ TxSize \in Nat \ {0, 1} /\ RxSize \in Nat \ {0, 1}
  /\ Batch \in Nat \ {0} /\ Chunk \in Nat \ {0}
  /\ MaxOut \in Nat /\ MaxIn \in Nat /\ MaxConns \in Nat

VARIABLES
  tn_tx, tn_rx,      \* the rings
  tn_active,
  tn_dropped,
  tpc,               \* where the telnet thread blocks, or goes on
  out,               \* the batch being sent
  backlog,           \* connections not yet accepted
  epc,               \* the emulator thread, inside a console hook
  ereg,              \* the index or count it has read
  ebyte,             \* the byte in its hand
  nout, nin, conns,  \* bytes printed, bytes typed, connections so far
  sent, wire,        \* since the reset: put into tn_tx, received by the client
  typed, got,        \* since the reset: put into tn_rx, read by the guest
  first,             \* bytes printed before the session
  seen, replayed,    \* typed bytes the guest has ever read; one read twice
  torn               \* the last reset came in the middle of a hook

telnetVars == << tpc, out, backlog >>
hookVars == << epc, ereg, ebyte >>
countVars == << nout, nin, conns >>
histVars == << sent, wire, typed, got, first, seen, replayed, torn >>
vars == << tn_tx, tn_rx, tn_active, tn_dropped, telnetVars, hookVars,
           countVars, histVars >>

None  == -1                \* a byte of a ring that was never written
Nudge == 0                 \* the '\r' that starts a session
Ids   == {None} \cup 0..(MaxOut + MaxIn)

Ring(size) == [head : 0..(size - 1), tail : 0..(size - 1),
               buf : [0..(size - 1) -> Ids]]
EmptyRing(size) == [head |-> 0, tail |-> 0,
                    buf |-> [k \in 0..(size - 1) |-> None]]

TypeOK ==
  /\ tn_tx \in Ring(TxSize) /\ tn_rx \in Ring(RxSize)
  /\ tn_active \in BOOLEAN
  /\ tn_dropped \in Nat
  /\ tpc \in {"accept", "hello", "poll", "flush", "send"}
  /\ out \in Seq(Ids) /\ Len(out) <= Batch
  /\ backlog \in 0..1
  /\ epc \in {"idle", "put", "store", "publish", "count", "get", "advance"}
  /\ ereg \in Nat /\ ebyte \in Ids
  /\ nout \in 0..MaxOut /\ nin \in 0..MaxIn /\ conns \in 0..MaxConns
  /\ {sent, wire, typed, got} \subseteq Seq(Ids)
  /\ first \in 0..MaxOut
  /\ seen \subseteq Ids /\ replayed \in BOOLEAN /\ torn \in BOOLEAN

Init ==
  /\ tn_tx = EmptyRing(TxSize) /\ tn_rx = EmptyRing(RxSize)
  /\ tn_active = FALSE
  /\ tn_dropped = 0
  /\ tpc = "accept" /\ out = << >> /\ backlog = 0
  /\ epc = "idle" /\ ereg = 0 /\ ebyte = None
  /\ nout = 0 /\ nin = 0 /\ conns = 0
  /\ sent = << >> /\ wire = << >> /\ typed = << >> /\ got = << >>
  /\ first = 0 /\ seen = {} /\ replayed = FALSE /\ torn = FALSE
-----------------------------------------------------------------------------
(* struct spsc *)

Count(r, size) == (r.tail - r.head) % size
Contents(r, size) == [k \in 1..Count(r, size) |->
                        r.buf[(r.head + k - 1) % size]]

\* Mutant: the slot that tells full from empty is used too.
MutFullLate(r, size) == Count(r, size) > size - 1

Full(r, size) == (r.tail + 1) % size = r.head

\* spsc_put() by the telnet thread, which nobody preempts, of one byte after the
\* other: the ring, and how many were not dropped.
PutAll(r, size, bs) ==
  LET fits == IF Len(bs) > size - 1 - Count(r, size)
              THEN size - 1 - Count(r, size) ELSE Len(bs)
      slot(k) == (r.tail + k - 1) % size
  IN [n |-> fits,
      ring |-> [r EXCEPT
        !.buf = [x \in DOMAIN @ |->
                   IF \E k \in 1..fits : x = slot(k)
                   THEN bs[CHOOSE k \in 1..fits : x = slot(k)]
                   ELSE @[x]],
        !.tail = (@ + fits) % size]]

Reset(r) == [r EXCEPT !.head = 0, !.tail = 0]
-----------------------------------------------------------------------------
(* The telnet thread: tn_thread() and tn_serve() *)

\* A client connects: the stack queues it, the listener's backlog is one.
Connect ==
  /\ backlog = 0
  /\ conns < MaxConns
  /\ backlog' = 1
  /\ conns' = conns + 1
  /\ UNCHANGED << tn_tx, tn_rx, tn_active, tn_dropped, tpc, out, hookVars,
                  nout, nin, histVars >>

\* In the middle of a ring operation, with an index read and not yet written.
InHook == epc \in {"store", "publish", "advance"}

\* accept() returns.  A busy console turns the client away; otherwise tn_serve()
\* resets the rings and sends the greeting.
Accept ==
  /\ tpc = "accept"
  /\ backlog = 1
  /\ backlog' = 0
  /\ IF tn_active
     THEN UNCHANGED << tn_tx, tn_rx, tpc, sent, wire, typed, got, torn >>
     ELSE /\ tn_tx' = Reset(tn_tx)
          /\ tn_rx' = Reset(tn_rx)
          /\ tpc' = "hello"
          /\ sent' = << >> /\ wire' = << >> /\ typed' = << >> /\ got' = << >>
          /\ torn' = InHook
  /\ UNCHANGED << tn_active, tn_dropped, out, hookVars, countVars, first,
                  seen, replayed >>

HelloFails ==
  /\ tpc = "hello"
  /\ tpc' = "accept"
  /\ UNCHANGED << tn_tx, tn_rx, tn_active, tn_dropped, out, backlog, hookVars,
                  countVars, histVars >>

\* The session is on, and the guest's shell is nudged.
HelloSent ==
  /\ tpc = "hello"
  /\ tn_dropped' = 0
  /\ tn_active' = TRUE
  /\ tn_rx' = PutAll(tn_rx, RxSize, << Nudge >>).ring
  /\ tpc' = "poll"
  /\ typed' = Append(typed, Nudge)
  /\ first' = nout
  /\ UNCHANGED << tn_tx, out, backlog, hookVars, countVars, sent, wire, got,
                  seen, replayed, torn >>

\* poll() finds data: one recv(), every byte put into tn_rx or dropped.
PollData(n) ==
  /\ tpc = "poll"
  /\ nin + n <= MaxIn
  /\ nin' = nin + n
  /\ LET bs == [k \in 1..n |-> MaxOut + nin + k]
         put == PutAll(tn_rx, RxSize, bs)
     IN /\ tn_rx' = put.ring
        /\ typed' = typed \o SubSeq(bs, 1, put.n)
  /\ tpc' = "flush"
  /\ UNCHANGED << tn_tx, tn_active, tn_dropped, out, backlog, hookVars, nout,
                  conns, sent, wire, got, first, seen, replayed, torn >>

\* 5 ms without data.
PollIdle ==
  /\ tpc = "poll"
  /\ tpc' = "flush"
  /\ UNCHANGED << tn_tx, tn_rx, tn_active, tn_dropped, out, backlog, hookVars,
                  countVars, histVars >>

\* Mutant: a flush that leaves the last byte for the next one.
MutFlushShort ==
  /\ tpc = "flush"
  /\ LET all == Contents(tn_tx, TxSize)
         n == IF Len(all) < Batch THEN Len(all) ELSE Batch
     IN IF n <= 1
        THEN tpc' = "poll" /\ UNCHANGED << tn_tx, out >>
        ELSE /\ out' = SubSeq(all, 1, n)
             /\ tn_tx' = [tn_tx EXCEPT !.head = (@ + n) % TxSize]
             /\ tpc' = "send"
  /\ UNCHANGED << tn_rx, tn_active, tn_dropped, backlog, hookVars, countVars,
                  histVars >>

\* tn_flush(): gather a batch, or nothing is left.
Flush ==
  /\ tpc = "flush"
  /\ LET all == Contents(tn_tx, TxSize)
         n == IF Len(all) < Batch THEN Len(all) ELSE Batch
     IN IF n = 0
        THEN tpc' = "poll" /\ UNCHANGED << tn_tx, out >>
        ELSE /\ out' = SubSeq(all, 1, n)
             /\ tn_tx' = [tn_tx EXCEPT !.head = (@ + n) % TxSize]
             /\ tpc' = "send"
  /\ UNCHANGED << tn_rx, tn_active, tn_dropped, backlog, hookVars, countVars,
                  histVars >>

SendOk ==
  /\ tpc = "send"
  /\ wire' = wire \o out
  /\ out' = << >>
  /\ tpc' = "flush"
  /\ UNCHANGED << tn_tx, tn_rx, tn_active, tn_dropped, backlog, hookVars,
                  countVars, sent, typed, got, first, seen, replayed, torn >>

\* The client is gone: the flag is cleared and what is left is discarded.
ClientGone ==
  /\ tpc \in {"poll", "send"}
  /\ tn_active' = FALSE
  /\ tn_tx' = [tn_tx EXCEPT !.head = tn_tx.tail]
  /\ out' = << >>
  /\ tpc' = "accept"
  /\ UNCHANGED << tn_rx, tn_dropped, backlog, hookVars, countVars, histVars >>

TelnetThread ==
  \/ Accept \/ HelloSent \/ HelloFails
  \/ \E n \in 1..Chunk : PollData(n)
  \/ PollIdle \/ Flush \/ SendOk
-----------------------------------------------------------------------------
(* The emulator thread: rvt_console_out() and rvt_console_in() *)

\* The telnet thread waits for a client, for data or for the network.
EmulatorRuns == tpc \in {"hello", "poll", "send"}
                \/ (tpc = "accept" /\ backlog = 0)

\* The guest prints: to the UART, or into tn_tx.
OutBegin ==
  /\ EmulatorRuns
  /\ epc = "idle"
  /\ nout < MaxOut
  /\ nout' = nout + 1
  /\ IF tn_active
     THEN epc' = "put" /\ ebyte' = nout + 1
     ELSE UNCHANGED << epc, ebyte >>
  /\ UNCHANGED << tn_tx, tn_rx, tn_active, tn_dropped, telnetVars, ereg, nin,
                  conns, histVars >>

PutRead ==
  /\ EmulatorRuns
  /\ epc = "put"
  /\ IF Full(tn_tx, TxSize)
     THEN epc' = "count" /\ ereg' = tn_dropped
     ELSE epc' = "store" /\ ereg' = tn_tx.tail
  /\ UNCHANGED << tn_tx, tn_rx, tn_active, tn_dropped, telnetVars, ebyte,
                  countVars, histVars >>

\* tn_dropped++ is a read and a write.
PutCount ==
  /\ EmulatorRuns
  /\ epc = "count"
  /\ tn_dropped' = ereg + 1
  /\ epc' = "idle" /\ ereg' = 0 /\ ebyte' = None
  /\ UNCHANGED << tn_tx, tn_rx, tn_active, telnetVars, countVars, histVars >>

PutStore ==
  /\ EmulatorRuns
  /\ epc = "store"
  /\ tn_tx' = [tn_tx EXCEPT !.buf[ereg] = ebyte]
  /\ epc' = "publish"
  /\ UNCHANGED << tn_rx, tn_active, tn_dropped, telnetVars, ereg, ebyte,
                  countVars, histVars >>

PutPublish ==
  /\ EmulatorRuns
  /\ epc = "publish"
  /\ tn_tx' = [tn_tx EXCEPT !.tail = (ereg + 1) % TxSize]
  /\ sent' = Append(sent, ebyte)
  /\ epc' = "idle" /\ ereg' = 0 /\ ebyte' = None
  /\ UNCHANGED << tn_rx, tn_active, tn_dropped, telnetVars, countVars, wire,
                  typed, got, first, seen, replayed, torn >>

\* uart_poll_input() asks for a byte; with no client it is the UART's turn.
InBegin ==
  /\ EmulatorRuns
  /\ epc = "idle"
  /\ tn_active
  /\ epc' = "get"
  /\ UNCHANGED << tn_tx, tn_rx, tn_active, tn_dropped, telnetVars, ereg,
                  ebyte, countVars, histVars >>

GetRead ==
  /\ EmulatorRuns
  /\ epc = "get"
  /\ IF tn_rx.head = tn_rx.tail
     THEN epc' = "idle" /\ UNCHANGED << ereg, ebyte >>
     ELSE /\ epc' = "advance"
          /\ ereg' = tn_rx.head
          /\ ebyte' = tn_rx.buf[tn_rx.head]
  /\ UNCHANGED << tn_tx, tn_rx, tn_active, tn_dropped, telnetVars, countVars,
                  histVars >>

GetAdvance ==
  /\ EmulatorRuns
  /\ epc = "advance"
  /\ tn_rx' = [tn_rx EXCEPT !.head = (ereg + 1) % RxSize]
  /\ got' = Append(got, ebyte)
  /\ seen' = seen \cup {ebyte}
  /\ replayed' = (replayed \/ (ebyte > Nudge /\ ebyte \in seen))
  /\ epc' = "idle" /\ ereg' = 0 /\ ebyte' = None
  /\ UNCHANGED << tn_tx, tn_active, tn_dropped, telnetVars, countVars, sent,
                  wire, typed, first, torn >>

Emulator == \/ OutBegin \/ PutRead \/ PutCount \/ PutStore \/ PutPublish
            \/ InBegin \/ GetRead \/ GetAdvance

Next == Connect \/ TelnetThread \/ ClientGone \/ Emulator

Spec == Init /\ [][Next]_vars

\* The telnet thread outranks the emulator and every wait of it ends: accept()
\* with a client, poll() after 5 ms, send() with success or an error.
FairSpec == Spec /\ WF_vars(TelnetThread)
-----------------------------------------------------------------------------
(* Properties *)

\* The guest's output: in order, without gap, repetition or invention.
OutputInOrder == sent = wire \o out \o Contents(tn_tx, TxSize)

\* The same for what the client types, up to the byte in the guest's hand.
InputInOrder == typed = got \o Contents(tn_rx, RxSize)

\* The emulator is in rvt_console_out() with a byte in its hand.
InPut == IF epc \in {"put", "store", "publish", "count"} THEN 1 ELSE 0

\* What the guest printed in this session and could not be put into tn_tx is in
\* tn_dropped.  Not the converse: a count that meets the clearing of tn_dropped
\* by a new session brings back the drops of the one before.
DropsCounted == nout - first <= Len(sent) + tn_dropped + InPut

\* What was put into either ring is delivered in order, without a gap, whatever
\* the preemptions inside spsc_put() and spsc_get(), as long as the rings were
\* not reset in the middle of a hook; and no byte of guest output is lost without
\* a trace in tn_dropped.  Of typed bytes that find tn_rx full nothing is said:
\* tn_rx_byte() drops them silently.
BytesInOrder ==
  tn_active => DropsCounted /\ (~torn => OutputInOrder /\ InputInOrder)

\* What the guest prints is on its way: while a session lasts, a byte in the
\* ring is sent within a bounded number of rounds of the telnet thread.
OutputFlushed ==
  (tn_active /\ Count(tn_tx, TxSize) > 0)
    ~> (~tn_active \/ Count(tn_tx, TxSize) = 0)

\* tn_serve(): "Safe to reset: tn_active is still false, so the emulator thread
\* is not producing into tn_tx and this thread is the only user of tn_rx".  Were
\* it so, the guest would read no typed byte twice.
TypedReadOnce == ~replayed

\* tn_thread(): "A second connection is accepted and dropped immediately rather
\* than left queued, so whoever tries it gets an answer instead of a hang".
SecondClientAnswered == backlog = 1 ~> backlog = 0
=============================================================================

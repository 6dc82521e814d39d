----------------------------- MODULE VirtioNet -----------------------------
(***************************************************************************)
(* The virtio network device of rv_virtio_net.c, the bridge of netbridge.c *)
(* that feeds it, and the guest's driver.                                  *)
(*                                                                         *)
(* Three actors.  nb_rx_thread() outranks the emulator and may put a frame *)
(* into the ring between any two of the emulator's accesses; it runs to    *)
(* its next wait before the emulator continues.  The emulator alternates   *)
(* slices of guest code with rv_virtio_net_poll(), which takes frames from *)
(* the ring into receive buffers.  The guest's driver (Linux virtio_net,   *)
(* external) refills buffers, sends, and drains both queues from a handler *)
(* whose steps interleave with the polls.                                  *)
(*                                                                         *)
(* The ring is modelled cell by cell: two cells of length prefix, then the *)
(* payload.  Frames from the wire are numbered in order of arrival.        *)
(***************************************************************************)
EXTENDS Vring, SequencesExt

CONSTANTS
    FrameLen,   \* the frames on the wire: the length of each, a sequence
    ForGuest,   \* the numbers of those that frame_is_for_guest() accepts
    RxBuffers,  \* receive chains the driver may publish, a set of descriptors
    TxChains,   \* transmit chains the driver may publish, a sequence of chains
    NetHdrLen,     \* VIRTIO_NET_HDR_LEN
    FrameMax,   \* NET_FRAME_MAX
    FrameMin,   \* an ethernet header, 14 bytes in the code
    RingCap,    \* CONFIG_RVT_NET_GUEST_RX_RING
    Budget      \* frames one poll takes at most, 8 in the code

\* The driver sends no empty chain and receives into descriptors; no frame is
\* shorter than an ethernet header.
ASSUME NetAssumption ==
    /\ Len(TxChains) \in Nat
    /\ \A k \in 1 .. Len(TxChains) : Len(TxChains[k]) \in Nat \ {0}
    /\ RxBuffers \subseteq [write : BOOLEAN, len : Nat, next : Int,
                            indirect : BOOLEAN, ram : BOOLEAN]
    /\ FrameLen \in Seq(Nat)
    /\ FrameMin \in Nat \ {0} /\ {FrameMax, NetHdrLen, RingCap} \subseteq Nat

VARIABLES
    vnet,       \* the device: [status, int, rx, tx, frames, dropped]
    line,       \* its line into the PLIC
    rxr, txr,   \* the two queues in guest memory
    buf,        \* receive descriptor -> [frame, got] written into it
    ndrv,        \* the driver: [phase, pc, rxUsed, txUsed, rxIn, txIn, kick]
    nb,         \* the bridge: [up, kept]
    nbRing,     \* nb_rx_ring
    poll,       \* the emulator in rv_virtio_net_poll(): [at, budget, len]
    next,       \* the next frame on the wire
    got,        \* what the guest received: sequence of [frame, got]
    sent,       \* what the guest handed to the device: lengths, in order
    wire        \* what left the board: [chain, len], in order

bridgeVars == <<nb, nbRing, next>>
guestVars == <<rxr, txr, buf, ndrv, got, sent>>
netVars == <<vnet, line, rxr, txr, buf, ndrv, nb, nbRing, poll, next, got, sent, wire>>

Frames == 1 .. Len(FrameLen)
NoFrame == [frame |-> 0, got |-> 0]
Least(a, b) == IF a < b THEN a ELSE b

NetInit ==
    /\ vnet = [status |-> "reset", int |-> FALSE, rx |-> QueueOff(FALSE),
               tx |-> QueueOff(FALSE), frames |-> 0, dropped |-> 0]
    /\ line = FALSE
    /\ rxr = EmptyRing /\ txr = EmptyRing
    /\ buf = [i \in Slots |-> NoFrame]
    /\ ndrv = [phase |-> "reset", pc |-> "thread", rxUsed |-> 0, txUsed |-> 0,
              rxIn |-> << >>, txIn |-> << >>, kick |-> FALSE]
    /\ nb = [up |-> FALSE, kept |-> 0]
    /\ nbRing = << >>
    /\ poll = [at |-> "no", budget |-> 0, len |-> 0]
    /\ next = 1
    /\ got = << >> /\ sent = << >> /\ wire = << >>

-----------------------------------------------------------------------------
(* netbridge.c                                                             *)

\* rvt_netbridge_start() and rvt_netbridge_suspend(): promiscuous receive.
BridgeStart ==
    /\ ~nb.up /\ next = 1
    /\ nb' = [nb EXCEPT !.up = TRUE]
    /\ UNCHANGED <<vnet, line, guestVars, nbRing, poll, next, wire>>

BridgeSuspend ==
    /\ nb.up /\ next > 1
    /\ nb' = [nb EXCEPT !.up = FALSE]
    /\ UNCHANGED <<vnet, line, guestVars, nbRing, poll, next, wire>>

\* The cells of a frame: its length prefix and its payload.
Cells(n) == [k \in 1 .. FrameLen[n] + 2 |-> [frame |-> n, cell |-> k]]

\* ring_buf_put(): as much as there is room for.
RingPut(r, cells) == r \o SubSeq(cells, 1, Least(Len(cells), RingCap - Len(r)))

\* The room for the length prefix is forgotten.
MutRoomFor(n) == RingCap - Len(nbRing) >= FrameLen[n]

\* Whole frame or nothing.
RoomFor(n) == RingCap - Len(nbRing) >= 2 + FrameLen[n]

\* One frame through nb_rx_thread(): filtered, dropped, or put into the ring.
\* net_pkt_read() of what net_pkt_get_len() promised does not come up short, so
\* the break that would leave a prefix without its payload is not modelled.
BridgeRx ==
    /\ nb.up /\ next \in Frames
    /\ next' = next + 1
    /\ IF /\ FrameLen[next] \in FrameMin .. FrameMax
          /\ next \in ForGuest
          /\ RoomFor(next)
       THEN /\ nbRing' = RingPut(nbRing, Cells(next))
            /\ nb' = [nb EXCEPT !.kept = @ + 1]
       ELSE UNCHANGED <<nbRing, nb>>
    /\ UNCHANGED <<vnet, line, guestVars, poll, wire>>

\* The ring after ring_buf_get() of n cells.
RingGet(n) == SubSeq(nbRing, n + 1, Len(nbRing))

\* The length that the first two cells spell, when they are a prefix at all.
PeekLen == IF nbRing[1].cell = 1 THEN FrameLen[nbRing[1].frame] ELSE 0

\* plat_net_send(): dropped when the bridge is down, when the length is out of
\* range or when no packet can be allocated.
NetSend(chain, len, alloc) ==
    wire' = IF nb.up /\ alloc /\ len \in FrameMin .. FrameMax
            THEN Append(wire, [chain |-> chain, len |-> len]) ELSE wire

-----------------------------------------------------------------------------
(* The device's registers and its transmit side.                           *)

\* vnet_write() of STATUS: zero clears both queues, their addresses too.
WriteStatus(v, val) ==
    IF val = "reset"
    THEN [v EXCEPT !.status = val, !.int = FALSE,
                   !.rx = QueueOff(FALSE), !.tx = QueueOff(FALSE)]
    ELSE [v EXCEPT !.status = val]

\* vnet_write() of QUEUE_NUM, the ring addresses and QUEUE_READY of a queue.
WriteQueue == [num |-> QueueSize, ready |-> TRUE, lastAvail |-> 0, addr |-> TRUE]

\* The status bit is set for the first used element only.
MutInterrupted(v, q, r) ==
    [v EXCEPT !.int = @ \/ (UsedInterrupts(q, r) /\ r.usedIdx = 0)]

\* queue_complete() as the whole device sees it.
Interrupted(v, q, r) == [v EXCEPT !.int = @ \/ UsedInterrupts(q, r)]

\* The stream that a chain's descriptors of one direction form: how many of
\* its bytes come before the k-th descriptor of c.
Before(r, c, write, k) ==
    LET sum[j \in 0 .. k - 1] ==
          IF j = 0 THEN 0
          ELSE sum[j - 1] + (IF r.desc[c[j]].write = write THEN r.desc[c[j]].len ELSE 0)
    IN sum[k - 1]

\* The header is sent with the frame.
MutTxFrame(c) ==
    IF c = << >> THEN -1 ELSE Least(FrameMax, Before(txr, c, FALSE, Len(c) + 1))

\* tx_chain(): the header is skipped, the rest is the frame, cut at FrameMax;
\* -1 when a descriptor that holds some of it is not in RAM.
TxFrame(c) ==
    LET total == Before(txr, c, FALSE, Len(c) + 1)
        Holds(k) == LET d == txr.desc[c[k]]
                        lo == Before(txr, c, FALSE, k)
                    IN ~d.write /\ lo + d.len > NetHdrLen /\ lo < NetHdrLen + FrameMax
    IN IF c = << >> \/ \E k \in 1 .. Len(c) : Holds(k) /\ ~txr.desc[c[k]].ram
       THEN -1
       ELSE Least(FrameMax, IF total > NetHdrLen THEN total - NetHdrLen ELSE 0)

\* One turn of the loop of tx_notify().
TxOne ==
    /\ poll.at = "tx" /\ vnet.tx.lastAvail # poll.len
    /\ \E head \in {txr.avail[vnet.tx.lastAvail % vnet.tx.num]} :
       \E flen \in {TxFrame(c) : c \in {ChainCollect(vnet.tx, txr, head)}} :
       \E alloc \in BOOLEAN :
         /\ IF flen >= FrameMin THEN NetSend(head, flen, alloc) ELSE UNCHANGED wire
         /\ txr' = RingUsed(vnet.tx, txr, head, 0)
         /\ vnet' = [Interrupted(vnet, vnet.tx, txr) EXCEPT
                        !.tx.lastAvail = (@ + 1) % IdxMod]
         /\ line' = vnet'.int
    /\ UNCHANGED <<rxr, buf, ndrv, got, sent, nb, nbRing, poll, next>>

TxEnd ==
    /\ poll.at = "tx" /\ vnet.tx.lastAvail = poll.len
    /\ poll' = [poll EXCEPT !.at = "no", !.len = 0]
    /\ UNCHANGED <<vnet, line, guestVars, bridgeVars, wire>>

\* The store to QUEUE_NOTIFY; only the transmit queue acts on it.
TxNotify ==
    /\ poll.at = "no" /\ ndrv.kick
    /\ ndrv' = [ndrv EXCEPT !.kick = FALSE]
    /\ poll' = IF vnet.tx.ready /\ vnet.tx.num # 0 /\ vnet.tx.addr
               THEN [poll EXCEPT !.at = "tx", !.len = txr.availIdx] ELSE poll
    /\ UNCHANGED <<vnet, line, rxr, txr, buf, got, sent, bridgeVars, wire>>

-----------------------------------------------------------------------------
(* rv_virtio_net_poll(), called by the run loop between two slices.        *)

PollBegin ==
    /\ poll.at = "no" /\ vnet.status = "ok"
    /\ nbRing # << >>       \* with nothing there the poll changes nothing
    /\ poll' = [at |-> "peek", budget |-> Budget, len |-> 0]
    /\ UNCHANGED <<vnet, line, guestVars, bridgeVars, wire>>

\* The frame is left in the ring while the guest offers no buffer.
MutPollPeek ==
    /\ poll.at = "peek"
    /\ IF \/ poll.budget = 0 \/ Len(nbRing) < 2
          \/ vnet.rx.lastAvail = rxr.availIdx
       THEN /\ poll' = [at |-> "no", budget |-> 0, len |-> 0]
            /\ UNCHANGED nbRing
       ELSE /\ nbRing' = RingGet(2)
            /\ poll' = [at |-> "body", budget |-> poll.budget - 1, len |-> PeekLen]
    /\ UNCHANGED <<vnet, line, guestVars, nb, next, wire>>

\* plat_net_recv() up to the first ring_buf_get(): the length is taken out; a
\* frame longer than the caller's buffer is discarded with it.
PollPeek ==
    /\ poll.at = "peek"
    /\ IF poll.budget = 0 \/ Len(nbRing) < 2
       THEN /\ poll' = [at |-> "no", budget |-> 0, len |-> 0]
            /\ UNCHANGED nbRing
       ELSE IF PeekLen > FrameMax
       THEN /\ nbRing' = RingGet(2 + PeekLen)
            /\ poll' = [at |-> "no", budget |-> 0, len |-> 0]
       ELSE /\ nbRing' = RingGet(2)
            /\ poll' = [at |-> "body", budget |-> poll.budget - 1, len |-> PeekLen]
    /\ UNCHANGED <<vnet, line, guestVars, nb, next, wire>>

\* What the second ring_buf_get() brings: the frame, when the cells are those
\* of one frame, whole and in place; anything else is frame 0.
Taken(len) ==
    IF /\ len \in 1 .. Len(nbRing)
       /\ FrameLen[nbRing[1].frame] = len
       /\ \A k \in 1 .. len : nbRing[k] = [frame |-> nbRing[1].frame, cell |-> k + 2]
    THEN nbRing[1].frame ELSE 0

\* rx_deliver(): into the next receive chain.  ok says what it returns, take
\* whether the chain is consumed and completed, with `written' bytes.
RxDeliver(c, flen) ==
    LET want  == flen + NetHdrLen
        total == Before(rxr, c, TRUE, Len(c) + 1)
        Fails(k) == LET d == rxr.desc[c[k]]
                        lo == Before(rxr, c, TRUE, k)
                    IN d.write /\ lo < want /\ ~d.ram
    IN IF c = << >> THEN [ok |-> FALSE, take |-> TRUE, written |-> 0]
       ELSE IF \E k \in 1 .. Len(c) : Fails(k)
       THEN [ok |-> FALSE, take |-> FALSE, written |-> 0]
       ELSE [ok |-> TRUE, take |-> TRUE, written |-> Least(total, want)]

\* The head of the next receive chain, and whether there is one.
RxHead == rxr.avail[vnet.rx.lastAvail % QueueSize]
RxAvailable == vnet.rx.ready /\ vnet.rx.addr /\ vnet.rx.lastAvail # rxr.availIdx

\* The caller of rx_deliver() counts a frame it could not place.
RxDrop(v) == [v EXCEPT !.dropped = @ + 1]

\* The rest of plat_net_recv(), and rx_deliver().
PollBody ==
    /\ poll.at = "body"
    /\ nbRing' = RingGet(poll.len)
    /\ IF poll.len = 0
       THEN /\ poll' = [at |-> "no", budget |-> 0, len |-> 0]
            /\ UNCHANGED <<vnet, line, rxr, buf>>
       ELSE IF ~RxAvailable
       THEN /\ vnet' = RxDrop(vnet)
            /\ poll' = [at |-> "no", budget |-> 0, len |-> 0]
            /\ UNCHANGED <<line, rxr, buf>>
       ELSE \E r \in {RxDeliver(c, poll.len) : c \in {ChainCollect(vnet.rx, rxr, RxHead)}} :
         LET v == CASE ~r.ok -> RxDrop(vnet)
                    [] r.ok /\ r.written < poll.len + NetHdrLen -> RxDrop(vnet)
                    [] OTHER -> [vnet EXCEPT !.frames = @ + 1]
         IN /\ IF r.take
               THEN /\ vnet' = [Interrupted(v, vnet.rx, rxr) EXCEPT
                                   !.rx.lastAvail = (@ + 1) % IdxMod]
                    /\ rxr' = RingUsed(vnet.rx, rxr, RxHead, r.written)
               ELSE vnet' = v /\ UNCHANGED rxr
            /\ line' = vnet'.int
            /\ buf' = IF r.ok
                      THEN [buf EXCEPT ![RxHead] = [frame |-> Taken(poll.len),
                                                    got |-> r.written - NetHdrLen]]
                      ELSE buf
            /\ poll' = IF r.ok THEN [poll EXCEPT !.at = "peek", !.len = 0]
                       ELSE [at |-> "no", budget |-> 0, len |-> 0]
    /\ UNCHANGED <<txr, ndrv, got, sent, nb, next, wire>>

-----------------------------------------------------------------------------
(* The driver.                                                             *)

NetDrvReset ==
    /\ poll.at = "no" /\ ndrv.phase = "ok" /\ ndrv.pc = "thread" /\ ~ndrv.kick
    /\ vnet' = WriteStatus(vnet, "reset")
    /\ line' = FALSE
    /\ rxr' = EmptyRing /\ txr' = EmptyRing
    /\ buf' = [i \in Slots |-> NoFrame]
    /\ ndrv' = [ndrv EXCEPT !.phase = "reset", !.rxUsed = 0, !.txUsed = 0,
                          !.rxIn = << >>, !.txIn = << >>]
    /\ UNCHANGED <<bridgeVars, poll, got, sent, wire>>

NetDrvSetup ==
    /\ poll.at = "no" /\ ndrv.phase = "reset"
    /\ vnet' = WriteStatus([vnet EXCEPT !.rx = WriteQueue, !.tx = WriteQueue], "ok")
    /\ ndrv' = [ndrv EXCEPT !.phase = "ok"]
    /\ UNCHANGED <<line, rxr, txr, buf, bridgeVars, poll, got, sent, wire>>

FreeSlots(in) == Slots \ UNION {Range(in[k].slots) : k \in 1 .. Len(in)}
NetAlloc(in, k) == CHOOSE i \in FreeSlots(in) :
                    Cardinality({j \in FreeSlots(in) : j < i}) = k - 1

\* virtqueue_add() of a chain of descriptors to one of the rings.
Published(r, in, chain) ==
    LET n == Len(chain)
        s == [k \in 1 .. n |-> NetAlloc(in, k)]
        Desc(k) == [chain[k] EXCEPT !.next = IF k < n THEN s[k + 1] ELSE NoNext]
    IN [r EXCEPT !.desc = [i \in Slots |-> IF \E k \in 1 .. n : s[k] = i
                                           THEN Desc(CHOOSE k \in 1 .. n : s[k] = i)
                                           ELSE @[i]],
                 !.avail[r.availIdx % QueueSize] = s[1],
                 !.availIdx = (@ + 1) % IdxMod]
InFlight(in, n) == Append(in, [head |-> NetAlloc(in, 1),
                               slots |-> [k \in 1 .. n |-> NetAlloc(in, k)]])

\* try_fill_recv(): one more receive buffer.
NetDrvRefill(d) ==
    /\ poll.at = "no" /\ ndrv.phase = "ok" /\ FreeSlots(ndrv.rxIn) # {}
    /\ rxr' = Published(rxr, ndrv.rxIn, <<d>>)
    /\ ndrv' = [ndrv EXCEPT !.rxIn = InFlight(@, 1)]
    /\ UNCHANGED <<vnet, line, txr, buf, bridgeVars, poll, got, sent, wire>>

\* start_xmit(): the frames are sent in the order of TxChains.
NetDrvSend ==
    /\ poll.at = "no" /\ ndrv.phase = "ok" /\ Len(sent) < Len(TxChains)
    /\ LET chain == TxChains[Len(sent) + 1]
       IN /\ Len(chain) <= Cardinality(FreeSlots(ndrv.txIn))
          /\ txr' = Published(txr, ndrv.txIn, chain)
          /\ ndrv' = [ndrv EXCEPT !.txIn = InFlight(@, Len(chain)), !.kick = TRUE]
          /\ sent' = Append(sent, [chain |-> NetAlloc(ndrv.txIn, 1), len |->
                MapThenSumSet(LAMBDA k : chain[k].len, {k \in 1 .. Len(chain) : ~chain[k].write})
                - NetHdrLen])
    /\ UNCHANGED <<vnet, line, rxr, buf, bridgeVars, poll, got, wire>>

\* vm_interrupt(): one status bit for both queues; acknowledge it, then visit
\* both, with their notifications off.
NetDrvInterrupt ==
    /\ poll.at = "no" /\ ndrv.pc = "thread" /\ line
    /\ vnet' = [vnet EXCEPT !.int = FALSE]
    /\ line' = FALSE
    /\ rxr' = [rxr EXCEPT !.noint = TRUE]
    /\ txr' = [txr EXCEPT !.noint = TRUE]
    /\ ndrv' = [ndrv EXCEPT !.pc = "drain"]
    /\ UNCHANGED <<buf, bridgeVars, poll, got, sent, wire>>

\* A used element taken by the driver; what is free is cleared.
Cleared(r, in, used) ==
    [r EXCEPT !.desc = [i \in Slots |-> IF i \in Range(Head(in).slots)
                                        THEN FreeDesc ELSE @[i]],
              !.avail[used % QueueSize] = 0,
              !.used[used % QueueSize] = [id |-> 0, len |-> 0]]

NetDrvReceive ==
    /\ poll.at = "no" /\ ndrv.pc = "drain" /\ ndrv.rxUsed # rxr.usedIdx
    /\ LET u == rxr.used[ndrv.rxUsed % QueueSize]
       IN /\ ndrv.rxIn # << >> /\ Head(ndrv.rxIn).head = u.id
          /\ got' = IF u.len > 0 THEN Append(got, buf[u.id]) ELSE got
          /\ buf' = [buf EXCEPT ![u.id] = NoFrame]
    /\ rxr' = Cleared(rxr, ndrv.rxIn, ndrv.rxUsed)
    /\ ndrv' = [ndrv EXCEPT !.rxUsed = (@ + 1) % IdxMod, !.rxIn = Tail(@)]
    /\ UNCHANGED <<vnet, line, txr, bridgeVars, poll, sent, wire>>

NetDrvTxDone ==
    /\ poll.at = "no" /\ ndrv.pc = "drain" /\ ndrv.txUsed # txr.usedIdx
    /\ ndrv.txIn # << >> /\ Head(ndrv.txIn).head = txr.used[ndrv.txUsed % QueueSize].id
    /\ txr' = Cleared(txr, ndrv.txIn, ndrv.txUsed)
    /\ ndrv' = [ndrv EXCEPT !.txUsed = (@ + 1) % IdxMod, !.txIn = Tail(@)]
    /\ UNCHANGED <<vnet, line, rxr, buf, bridgeVars, poll, got, sent, wire>>

Drained == ndrv.rxUsed = rxr.usedIdx /\ ndrv.txUsed = txr.usedIdx

NetDrvEnable ==
    /\ poll.at = "no" /\ ndrv.pc = "drain" /\ Drained
    /\ rxr' = [rxr EXCEPT !.noint = FALSE]
    /\ txr' = [txr EXCEPT !.noint = FALSE]
    /\ ndrv' = [ndrv EXCEPT !.pc = "recheck"]
    /\ UNCHANGED <<vnet, line, buf, bridgeVars, poll, got, sent, wire>>

NetDrvRecheck ==
    /\ poll.at = "no" /\ ndrv.pc = "recheck"
    /\ IF Drained
       THEN ndrv' = [ndrv EXCEPT !.pc = "thread"] /\ UNCHANGED <<rxr, txr>>
       ELSE /\ ndrv' = [ndrv EXCEPT !.pc = "drain"]
            /\ rxr' = [rxr EXCEPT !.noint = TRUE]
            /\ txr' = [txr EXCEPT !.noint = TRUE]
    /\ UNCHANGED <<vnet, line, buf, bridgeVars, poll, got, sent, wire>>

NetNext ==
    \/ BridgeStart \/ BridgeSuspend \/ BridgeRx
    \/ TxNotify \/ TxOne \/ TxEnd
    \/ PollBegin \/ PollPeek \/ PollBody
    \/ NetDrvReset \/ NetDrvSetup \/ (\E d \in RxBuffers : NetDrvRefill(d)) \/ NetDrvSend
    \/ NetDrvInterrupt \/ NetDrvReceive \/ NetDrvTxDone \/ NetDrvEnable \/ NetDrvRecheck

\* The run loop keeps polling between its slices, and a poll and a store come
\* to their end in the emulator's own code.
NetFairness ==
    /\ SF_netVars(PollBegin)
    /\ WF_netVars(PollPeek \/ PollBody \/ TxOne \/ TxEnd)

NetSpec == NetInit /\ [][NetNext]_netVars /\ NetFairness

-----------------------------------------------------------------------------
(* Properties.                                                             *)

\* Published chains are neither lost, repeated nor reordered on either queue,
\* whatever the device makes of them: completed and unseen ones first, then
\* the ones it has not taken.
QueuesHoldInflight ==
    ndrv.phase = "ok" =>
        /\ UsedIds(rxr, ndrv.rxUsed) \o AvailWindow(vnet.rx, rxr)
             = [k \in 1 .. Len(ndrv.rxIn) |-> ndrv.rxIn[k].head]
        /\ UsedIds(txr, ndrv.txUsed) \o AvailWindow(vnet.tx, txr)
             = [k \in 1 .. Len(ndrv.txIn) |-> ndrv.txIn[k].head]

\* The one interrupt status bit that both queues share loses no completion:
\* acknowledging it for one queue never strands a completion of the other.
NetNoLostInterrupt ==
    ndrv.phase = "ok" /\ ndrv.pc = "thread" /\ ~Drained => line

\* The driver and the device never lose sight of a chain: it is in one of the two
\* windows of its queue, and once completed the driver knows or is about to be
\* told (queue_complete(), tx_notify(), rx_deliver()).
NetQueuesSound == QueuesHoldInflight /\ NetNoLostInterrupt

\* What the guest receives are frames from the wire meant for it, whole unless
\* its own buffer was too small, each once and in order of arrival: the length
\* prefixes in the ring never get out of step with the payloads.
FramesWholeInOrder ==
    /\ \A k \in 1 .. Len(got) :
          /\ got[k].frame \in ForGuest
          /\ got[k].got = FrameLen[got[k].frame]
               \/ \E d \in RxBuffers : got[k].got = d.len - NetHdrLen
    /\ \A j, k \in 1 .. Len(got) : j < k => got[j].frame < got[k].frame

\* Every frame the bridge has kept is still in its ring, in the emulator's
\* hands, delivered, or counted as dropped.
FramesAccounted ==
    nb.kept = vnet.frames + vnet.dropped
              + Cardinality({k \in DOMAIN nbRing : nbRing[k].cell = 1})
              + (IF poll.at = "body" THEN 1 ELSE 0)

\* A full ring, a missing or a short guest buffer cost whole frames and nothing
\* else (nb_rx_thread(), plat_net_recv(), rx_deliver()).  A frame the bridge kept
\* and the device could not place is counted in vnet.dropped; what the bridge
\* itself turned away, nb.rx_dropped in the code, is never among the kept.
FramesIntact == FramesWholeInOrder /\ FramesAccounted

\* The wire carries what the guest sent, in that order, nothing twice, each frame
\* from the chain it was put in, without the header and cut at FrameMax
\* (tx_notify(), tx_chain(), plat_net_send()).
WireFollowsGuest ==
    \E m \in [1 .. Len(wire) -> 1 .. Len(sent)] :
        /\ \A j, k \in 1 .. Len(wire) : j < k => m[j] < m[k]
        /\ \A k \in 1 .. Len(wire) :
              /\ wire[k].chain = sent[m[k]].chain
              /\ wire[k].len = Least(FrameMax, sent[m[k]].len)

\* A frame that the bridge put into its ring does not stay there while the
\* driver is up: the polls take it out, whether or not the guest offers a buffer
\* (rv_virtio_net_poll(), plat_net_recv()).
FrameLeavesRing ==
    \A n \in ForGuest :
        []<>(vnet.status # "ok" \/ \A k \in DOMAIN nbRing : nbRing[k].frame # n)
=============================================================================

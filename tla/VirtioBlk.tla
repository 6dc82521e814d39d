----------------------------- MODULE VirtioBlk -----------------------------
(***************************************************************************)
(* The read-only virtio block device of rv_virtio.c, with the guest's      *)
(* driver on the other side of the ring.                                   *)
(*                                                                         *)
(* The device runs inside the guest's store to QUEUE_NOTIFY, so one kick   *)
(* serves everything published before it.  The driver (Linux virtio_mmio   *)
(* and virtio_blk, external) publishes chains, kicks later, and drains the *)
(* used ring in an interrupt handler that may be a thread: its steps       *)
(* interleave with submissions and kicks.  It may also publish chains no   *)
(* conforming driver would, which the device must give back.               *)
(*                                                                         *)
(* Lengths count units: HdrLen of them are a request header and SectorLen  *)
(* a sector.  Byte i of the disk is the number i, so a buffer's content is *)
(* the offset it was filled from.                                          *)
(***************************************************************************)
EXTENDS Vring, SequencesExt

CONSTANTS
    Requests,   \* the chains the driver may publish, a sequence of [type, sector, chain]
    Sectors,    \* nb_sectors, the capacity of the disk
    SectorLen,  \* SECTOR_SIZE
    HdrLen,     \* sizeof(BlkReqHeader)
    OffMod      \* offsets are computed modulo this, 2^64 in the code

\* The driver publishes no empty chain; a request's number is never 0, which
\* stands for a free descriptor.
ASSUME BlkAssumption ==
    \A r \in DOMAIN Requests :
        r \in Nat \ {0} /\ Len(Requests[r].chain) \in Nat \ {0}

VARIABLES
    vblk,       \* the device's registers: [status, int, q]
    irq,        \* the level of its line into the PLIC
    ring,       \* the queue in guest memory
    owner,      \* descriptor -> number of its request, 0 when free
    data,       \* descriptor -> disk offset its buffer was filled from, or -1
    stat,       \* descriptor -> status byte written into its buffer
    serving,    \* the avail index queue_notify() is working towards, or -1
    drv         \* the driver: [phase, pc, lastUsed, inflight, kick]

memVars == <<ring, owner, data, stat>>
blkVars == <<vblk, irq, ring, owner, data, stat, serving, drv>>

Capacity == Sectors * SectorLen
Free == {i \in Slots : owner[i] = 0}

Init ==
    /\ vblk = [status |-> "reset", int |-> FALSE, q |-> QueueOff(FALSE)]
    /\ irq = FALSE
    /\ ring = EmptyRing
    /\ owner = [i \in Slots |-> 0]
    /\ data = [i \in Slots |-> -1]
    /\ stat = [i \in Slots |-> "none"]
    /\ serving = -1
    /\ drv = [phase |-> "reset", pc |-> "thread", lastUsed |-> 0,
              inflight |-> << >>, kick |-> FALSE]

-----------------------------------------------------------------------------
(* The register file.                                                      *)

\* virtio_read() of the registers the driver's control flow depends on.
VirtioRead(reg) ==
    CASE reg = "QUEUE_READY" -> vblk.q.ready
      [] reg = "INT_STATUS"  -> vblk.int
      [] reg = "STATUS"      -> vblk.status
      [] reg = "CAPACITY"    -> Sectors

\* virtio_write() of every register but QUEUE_NOTIFY.
VirtioWrite(v, reg, val) ==
    CASE reg = "QUEUE_NUM" ->
           IF val \in 1 .. QueueSize THEN [v EXCEPT !.q.num = val] ELSE v
      [] reg = "QUEUE_ADDR" -> [v EXCEPT !.q.addr = TRUE]
      [] reg = "QUEUE_READY" ->
           [v EXCEPT !.q.ready = val,
                     !.q.lastAvail = IF val THEN 0 ELSE v.q.lastAvail]
      [] reg = "INT_ACK" -> [v EXCEPT !.int = v.int /\ ~val]
      [] reg = "STATUS" ->
           IF val = "reset"
           THEN [v EXCEPT !.status = val, !.int = FALSE, !.q = QueueOff(v.q.addr)]
           ELSE [v EXCEPT !.status = val]

-----------------------------------------------------------------------------
(* One request.                                                            *)

\* Total length of those of the first n descriptors of c whose position is in S.
LenUpTo(c, S, n) ==
    LET sum[k \in 0 .. n] ==
          IF k = 0 THEN 0
          ELSE sum[k - 1] + (IF k \in S THEN ring.desc[c[k]].len ELSE 0)
    IN sum[n]

\* Positions of the leading device-readable descriptors.
Leading(c) == {k \in 1 .. Len(c) : \A j \in 1 .. k : ~ring.desc[c[j]].write}

\* The header is copied out of the leading readable descriptors, as many as it
\* takes: it is whole if they are long enough and all of them in RAM.
HeaderRead(c) ==
    LET L == Leading(c)
    IN /\ LenUpTo(c, L, Len(c)) >= HdrLen
       /\ \A k \in L : LenUpTo(c, L, k - 1) < HdrLen => ring.desc[c[k]].ram

\* Position in the chain of the last device-writable descriptor, 0 if none.
StatusPos(c) ==
    LET W == {k \in 1 .. Len(c) : ring.desc[c[k]].write}
    IN IF W = {} THEN 0 ELSE CHOOSE k \in W : \A j \in W : j <= k

\* The bounds check against the end of the disk, one unit too generous.
MutFits(off, len) == (off + len) % OffMod <= Capacity + 1

\* Whether a transfer stays on the disk, in the code's own arithmetic.
Fits(off, len) ==
    LET end == (off + len) % OffMod IN end <= Capacity /\ end >= off

\* VIRTIO_BLK_T_IN: every writable descriptor before the status one is filled
\* from the disk, until one would run past its end or is not in RAM.
ReadBlocks(c, sp, sector) ==
    LET D      == {k \in 1 .. sp - 1 : ring.desc[c[k]].write}
        Off(k) == (sector * SectorLen + LenUpTo(c, D, k - 1)) % OffMod
        Good(k) == Fits(Off(k), ring.desc[c[k]].len) /\ ring.desc[c[k]].ram
        Done   == {k \in D : \A j \in D : j <= k => Good(j)}
    IN [status  |-> IF Done = D THEN "OK" ELSE "IOERR",
        written |-> LenUpTo(c, Done, sp - 1),
        data    |-> [i \in Slots |->
                        IF \E k \in Done : c[k] = i
                        THEN Off(CHOOSE k \in Done : c[k] = i) ELSE data[i]]]

\* The switch on the request type.
Serve(c, sp, req) ==
    CASE req.type = "IN"    -> ReadBlocks(c, sp, req.sector)
      [] req.type = "FLUSH" -> [status |-> "OK", written |-> 0, data |-> data]
      [] req.type = "OUT"   -> [status |-> "IOERR", written |-> 0, data |-> data]
      [] OTHER              -> [status |-> "UNSUPP", written |-> 0, data |-> data]

\* handle_chain() once the chain c is collected: what it does to the buffers, and
\* the length its used element reports.
HandleChain(c) ==
    LET sp   == StatusPos(c)
        fail == [data |-> data, stat |-> stat, len |-> 0]
    IN IF c = << >> \/ ~HeaderRead(c) \/ sp = 0 THEN fail
       ELSE IF ring.desc[c[sp]].len < 1 THEN fail
       ELSE LET r == Serve(c, sp, Requests[owner[c[1]]])
                written == IF r.status = "OK" THEN r.written ELSE 0
            IN IF ring.desc[c[sp]].ram
               THEN [data |-> r.data, stat |-> [stat EXCEPT ![c[sp]] = r.status],
                     len |-> written + 1]
               ELSE [data |-> r.data, stat |-> stat, len |-> 0]

-----------------------------------------------------------------------------
(* The store to QUEUE_NOTIFY.  The avail index is read once; each turn of  *)
(* the loop of queue_notify() is a step, and the driver does not run until *)
(* the loop has ended: the store is one guest instruction.                 *)

Notify ==
    /\ serving = -1
    /\ drv.kick \/ drv.phase = "reset"  \* a stray store after a reset included
    /\ drv' = [drv EXCEPT !.kick = FALSE]
    /\ serving' = IF vblk.q.ready /\ vblk.q.num # 0 /\ vblk.q.addr
                  THEN ring.availIdx ELSE -1
    /\ UNCHANGED <<vblk, irq, memVars>>

\* The index into the avail ring is taken after it has been advanced.
MutServeOne ==
    /\ serving \notin {-1, vblk.q.lastAvail}
    /\ \E head \in {ring.avail[(vblk.q.lastAvail + 1) % vblk.q.num]} :
       \E done \in {HandleChain(c) : c \in {ChainCollect(vblk.q, ring, head)}} :
       /\ data' = done.data
       /\ stat' = done.stat
       /\ ring' = RingUsed(vblk.q, ring, head, done.len)
       /\ vblk' = [vblk EXCEPT !.q.lastAvail = (@ + 1) % IdxMod,
                               !.int = @ \/ UsedInterrupts(vblk.q, ring)]
       /\ irq' = (irq \/ UsedInterrupts(vblk.q, ring))
       /\ UNCHANGED <<owner, serving, drv>>

\* The interrupt is raised only when the used ring was empty.
MutServeEdge ==
    /\ serving \notin {-1, vblk.q.lastAvail}
    /\ \E head \in {ring.avail[vblk.q.lastAvail % vblk.q.num]} :
       \E done \in {HandleChain(c) : c \in {ChainCollect(vblk.q, ring, head)}} :
       LET int  == UsedInterrupts(vblk.q, ring) /\ ring.usedIdx = 0 IN
       /\ data' = done.data
       /\ stat' = done.stat
       /\ ring' = RingUsed(vblk.q, ring, head, done.len)
       /\ vblk' = [vblk EXCEPT !.q.lastAvail = (@ + 1) % IdxMod, !.int = @ \/ int]
       /\ irq' = (irq \/ int)
       /\ UNCHANGED <<owner, serving, drv>>

\* One turn of the loop: take a head, serve its chain, publish it.
ServeOne ==
    /\ serving \notin {-1, vblk.q.lastAvail}
    /\ \E head \in {ring.avail[vblk.q.lastAvail % vblk.q.num]} :
       \E done \in {HandleChain(c) : c \in {ChainCollect(vblk.q, ring, head)}} :
       /\ data' = done.data
       /\ stat' = done.stat
       /\ ring' = RingUsed(vblk.q, ring, head, done.len)
       /\ vblk' = [vblk EXCEPT !.q.lastAvail = (@ + 1) % IdxMod,
                               !.int = @ \/ UsedInterrupts(vblk.q, ring)]
       /\ irq' = (irq \/ UsedInterrupts(vblk.q, ring))
       /\ UNCHANGED <<owner, serving, drv>>

NotifyEnd ==
    /\ serving = vblk.q.lastAvail
    /\ serving' = -1
    /\ UNCHANGED <<vblk, irq, memVars, drv>>

-----------------------------------------------------------------------------
(* The driver.                                                             *)

\* A write of zero to STATUS.  The driver forgets what was in flight and the
\* memory of the rings may be used for something else.
DrvReset ==
    /\ serving = -1 /\ drv.pc = "thread" /\ drv.phase = "ok"
    /\ vblk' = VirtioWrite(vblk, "STATUS", "reset")
    /\ irq' = FALSE
    /\ ring' = EmptyRing
    /\ owner' = [i \in Slots |-> 0]
    /\ data' = [i \in Slots |-> -1]
    /\ stat' = [i \in Slots |-> "none"]
    /\ drv' = [drv EXCEPT !.phase = "reset", !.inflight = << >>, !.lastUsed = 0]
    /\ UNCHANGED serving

\* vm_setup_vq(): fresh rings, their size and addresses, QUEUE_READY, and
\* DRIVER_OK.
DrvSetup ==
    /\ serving = -1 /\ drv.phase = "reset" /\ ~VirtioRead("QUEUE_READY")
    /\ ring' = EmptyRing
    /\ vblk' = VirtioWrite(VirtioWrite(VirtioWrite(VirtioWrite(vblk,
                   "QUEUE_NUM", QueueSize), "QUEUE_ADDR", TRUE),
                   "QUEUE_READY", TRUE), "STATUS", "ok")
    /\ drv' = [drv EXCEPT !.phase = "ok", !.lastUsed = 0, !.kick = FALSE]
    /\ UNCHANGED <<irq, owner, data, stat, serving>>

\* The k-th lowest free descriptor.
Alloc(k) == CHOOSE i \in Free : Cardinality({j \in Free : j < i}) = k - 1

\* virtqueue_add(): lay the chain out in free descriptors and publish its
\* head.  A link is an ordinary next or end, a cycle back to the head, or a
\* number outside the queue.
DrvSubmit(r) ==
    LET chain == Requests[r].chain
        n == Len(chain)
        s == [k \in 1 .. n |-> Alloc(k)]
        pos == [i \in Range(s) |-> CHOOSE k \in 1 .. n : s[k] = i]
        Link(k) == CASE chain[k].link = "next" -> s[k + 1]
                     [] chain[k].link = "loop" -> s[1]
                     [] chain[k].link = "wild" -> QueueSize
                     [] chain[k].link = "end"  -> NoNext
        Desc(k) == [write |-> chain[k].write, len |-> chain[k].len,
                    next |-> Link(k), indirect |-> chain[k].indirect,
                    ram |-> chain[k].ram]
    IN /\ serving = -1 /\ drv.phase = "ok"
       /\ n <= Cardinality(Free)
       /\ ring' = [ring EXCEPT
              !.desc = [i \in Slots |-> IF i \in Range(s) THEN Desc(pos[i]) ELSE @[i]],
              !.avail[ring.availIdx % QueueSize] = s[1],
              !.availIdx = (@ + 1) % IdxMod]
       /\ owner' = [i \in Slots |-> IF i \in Range(s) THEN r ELSE owner[i]]
       /\ drv' = [drv EXCEPT !.kick = TRUE,
                             !.inflight = Append(@, [head |-> s[1], slots |-> s])]
       /\ UNCHANGED <<vblk, irq, data, stat, serving>>

\* vm_interrupt(): acknowledge what INT_STATUS shows, then the callback, which
\* first turns notifications off.
DrvInterrupt ==
    /\ serving = -1 /\ drv.pc = "thread" /\ irq
    /\ vblk' = VirtioWrite(vblk, "INT_ACK", VirtioRead("INT_STATUS"))
    /\ irq' = vblk'.int
    /\ drv' = [drv EXCEPT !.pc = "drain"]
    /\ ring' = [ring EXCEPT !.noint = TRUE]
    /\ UNCHANGED <<owner, data, stat, serving>>

\* virtqueue_get_buf(): take one used element and free its chain.  What is free
\* is cleared, which keeps the states few.
DrvReclaim ==
    /\ serving = -1 /\ drv.pc = "drain" /\ drv.lastUsed # ring.usedIdx
    /\ LET id == ring.used[drv.lastUsed % QueueSize].id
           k  == CHOOSE j \in 1 .. Len(drv.inflight) : drv.inflight[j].head = id
           mine == Range(drv.inflight[k].slots)
       IN /\ \E j \in 1 .. Len(drv.inflight) : drv.inflight[j].head = id
          /\ owner' = [i \in Slots |-> IF i \in mine THEN 0 ELSE owner[i]]
          /\ data' = [i \in Slots |-> IF i \in mine THEN -1 ELSE data[i]]
          /\ stat' = [i \in Slots |-> IF i \in mine THEN "none" ELSE stat[i]]
          /\ drv' = [drv EXCEPT !.lastUsed = (@ + 1) % IdxMod,
                                !.inflight = RemoveAt(@, k)]
          /\ ring' = [ring EXCEPT
                 !.desc = [i \in Slots |-> IF i \in mine THEN FreeDesc ELSE @[i]],
                 !.avail[drv.lastUsed % QueueSize] = 0,
                 !.used[drv.lastUsed % QueueSize] = [id |-> 0, len |-> 0]]
    /\ UNCHANGED <<vblk, irq, serving>>

\* virtqueue_enable_cb(): notifications on again, and one more look.
DrvEnable ==
    /\ serving = -1 /\ drv.pc = "drain" /\ drv.lastUsed = ring.usedIdx
    /\ ring' = [ring EXCEPT !.noint = FALSE]
    /\ drv' = [drv EXCEPT !.pc = "recheck"]
    /\ UNCHANGED <<vblk, irq, owner, data, stat, serving>>

DrvRecheck ==
    /\ serving = -1 /\ drv.pc = "recheck"
    /\ IF drv.lastUsed # ring.usedIdx
       THEN /\ drv' = [drv EXCEPT !.pc = "drain"]
            /\ ring' = [ring EXCEPT !.noint = TRUE]
       ELSE /\ drv' = [drv EXCEPT !.pc = "thread"]
            /\ UNCHANGED ring
    /\ UNCHANGED <<vblk, irq, owner, data, stat, serving>>

Next ==
    \/ Notify \/ ServeOne \/ NotifyEnd
    \/ DrvReset \/ DrvSetup \/ (\E r \in DOMAIN Requests : DrvSubmit(r))
    \/ DrvInterrupt \/ DrvReclaim \/ DrvEnable \/ DrvRecheck

\* The guest's kernel finishes a submission with its kick and runs its
\* interrupt handler to the end; a store ends in the emulator's own loop.
Fairness ==
    /\ WF_blkVars(drv.kick /\ drv.phase = "ok" /\ Notify)
    /\ WF_blkVars(ServeOne \/ NotifyEnd)
    /\ WF_blkVars(DrvInterrupt \/ DrvReclaim \/ DrvEnable \/ DrvRecheck)

Spec == Init /\ [][Next]_blkVars /\ Fairness

-----------------------------------------------------------------------------
(* Properties.                                                             *)

\* Every chain the driver has published is in exactly one of the two windows,
\* once, and in the order of publication: first the completed ones it has not
\* taken back, then the ones queue_notify() has yet to serve.  A lost, repeated
\* or reordered chain, or an index that wraps wrongly, breaks the equality.
RingsHoldInflight ==
    drv.phase = "ok" =>
        UsedIds(ring, drv.lastUsed) \o AvailWindow(vblk.q, ring)
            = [k \in 1 .. Len(drv.inflight) |-> drv.inflight[k].head]

\* Completed work never waits for an interrupt that is not coming: outside its
\* handler, a driver with an unseen used element sees the line high.
NoLostInterrupt ==
    drv.phase = "ok" /\ drv.pc = "thread" /\ drv.lastUsed # ring.usedIdx => irq

\* What the request asks for, from its definition: the status and the offset
\* of each of its data buffers.
Wanted(req) ==
    LET W == {k \in 1 .. Len(req.chain) : req.chain[k].write}
        D == W \ {CHOOSE k \in W : \A j \in W : j <= k}
        Sum(S) == MapThenSumSet(LAMBDA j : req.chain[j].len, S)
    IN [off |-> [k \in D |-> req.sector * SectorLen + Sum({j \in D : j < k})],
        len |-> Sum(D)]

\* A read that reports OK has filled every data buffer with exactly the bytes
\* the request names, none past the end of the disk, and says how many.
ReadIsExact ==
    \A u \in Range(UsedWindow(ring, drv.lastUsed)) :
        \A k \in 1 .. Len(drv.inflight) :
            LET s   == drv.inflight[k].slots
                req == Requests[owner[s[1]]]
                w   == Wanted(req)
            IN drv.inflight[k].head = u.id /\ req.type = "IN"
                 /\ (\E i \in Range(s) : stat[i] = "OK")
               => /\ u.len = w.len + 1
                  /\ \A j \in DOMAIN w.off :
                        /\ data[s[j]] = w.off[j]
                        /\ w.off[j] + req.chain[j].len <= Capacity

\* No chain waits for ever, good or bad: while any is in flight, the driver comes
\* to take one back again and again, and by RingsHoldInflight that is the oldest,
\* so each has its turn.
ChainsReturn ==
    []<>(drv.inflight = << >> \/ (drv.pc = "drain" /\ drv.lastUsed # ring.usedIdx))
=============================================================================

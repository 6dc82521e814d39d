---------------------------- MODULE VirtioProofs ----------------------------
(***************************************************************************)
(* The block device, the network device and their drivers never lose a     *)
(* chain or an interrupt, for every size of the queues, every modulus of   *)
(* the indices and every set of requests and frames, the malformed ones    *)
(* included.  The block device comes first; the network device's two       *)
(* queues follow from the same lemmas of VringProofs.  The last part is    *)
(* about the frames themselves, from nb_rx_thread() to the guest.          *)
(***************************************************************************)
EXTENDS VirtioBlk, VirtioNet, VringProofs, FunctionTheorems

Shape ==
    /\ drv \in [phase : {"reset", "ok"}, pc : {"thread", "drain", "recheck"},
                lastUsed : Nat, inflight : Seq(Chains), kick : BOOLEAN]
    /\ vblk \in [status : {"reset", "ok"}, int : BOOLEAN,
                 q : [num : Nat, ready : BOOLEAN, lastAvail : Nat, addr : BOOLEAN]]
    /\ ring = [desc |-> ring.desc, noint |-> ring.noint,
               availIdx |-> ring.availIdx, avail |-> ring.avail,
               usedIdx |-> ring.usedIdx, used |-> ring.used]
    /\ ring.noint \in BOOLEAN
    /\ ring.avail = [i \in Slots |-> ring.avail[i]]
    /\ ring.used = [i \in Slots |-> ring.used[i]]
    /\ owner \in [Slots -> Nat]

\* Chains in flight share no descriptor, and none of theirs is free.
Owned ==
    /\ Apart(drv.inflight)
    /\ \A k \in 1 .. Len(drv.inflight) :
          \A i \in Range(drv.inflight[k].slots) : owner[i] # 0

\* Between QUEUE_READY and the reset the two sides agree on the queue, and a
\* store to QUEUE_NOTIFY works towards everything that is published.
Live ==
    drv.phase = "ok" =>
        /\ vblk.q.num = QueueSize /\ vblk.q.ready /\ vblk.q.addr
        /\ QueueInv(vblk.q, ring, drv.lastUsed, drv.inflight)
        /\ serving \in {-1, ring.availIdx}

\* Otherwise there is nothing to serve and nothing to be told.
Dormant ==
    drv.phase = "reset" =>
        /\ ~vblk.q.ready /\ serving = -1
        /\ drv.pc = "thread" /\ ~irq
        /\ drv.inflight = << >>

\* The line is the status bit; a driver that has left the handler, or is about
\* to, has notifications on.
Told ==
    /\ irq = vblk.int
    /\ drv.phase = "ok" /\ drv.pc # "drain" => ~ring.noint
    /\ NoLostInterrupt

BlkInv == Shape /\ Owned /\ Live /\ Dormant /\ Told

-----------------------------------------------------------------------------
\* The k-th lowest free descriptor is free, as long as there are that many.
LEMMA AllocIsFree ==
    ASSUME owner \in [Slots -> Nat], NEW k \in Nat \ {0}, k <= Cardinality(Free)
    PROVE  Alloc(k) \in Free
  <1>1. Free \subseteq Slots
    BY DEF Free
  <1>2. k - 1 \in Nat /\ k - 1 < Cardinality(Free)
    <2>1. IsFiniteSet(Slots)
      BY FS_Interval, QueueAssumption DEF Slots
    <2>2. Cardinality(Free) \in Nat
      BY <2>1, <1>1, FS_Subset, FS_CardinalityType
    <2> QED
      BY <2>2
  <1>3. \E i \in Free : Cardinality({j \in Free : j < i}) = k - 1
    BY <1>1, <1>2, KthLowest
  <1> QED
    BY <1>3 DEF Alloc

-----------------------------------------------------------------------------
LEMMA InitInv == Init => BlkInv
  <1> SUFFICES ASSUME Init PROVE BlkInv
    OBVIOUS
  <1>1. drv = [phase |-> "reset", pc |-> "thread", lastUsed |-> 0,
               inflight |-> << >>, kick |-> FALSE]
        /\ irq = FALSE /\ serving = -1 /\ owner = [i \in Slots |-> 0]
    BY DEF Init
  <1>2. vblk = [status |-> "reset", int |-> FALSE,
                q |-> [num |-> 0, ready |-> FALSE, lastAvail |-> 0, addr |-> FALSE]]
    BY DEF Init, QueueOff
  <1>3. << >> \in Seq(Chains) /\ Len(<< >>) = 0
    OBVIOUS
  <1>4. Shape
    <2>1. /\ ring.noint = FALSE /\ ring.avail = [i \in Slots |-> 0]
          /\ ring.used = [i \in Slots |-> [id |-> 0, len |-> 0]]
          /\ ring = [desc |-> ring.desc, noint |-> ring.noint,
                     availIdx |-> ring.availIdx, avail |-> ring.avail,
                     usedIdx |-> ring.usedIdx, used |-> ring.used]
      BY DEF Init, EmptyRing, Slots
    <2>2. ring.avail = [i \in Slots |-> ring.avail[i]] /\ ring.used = [i \in Slots |-> ring.used[i]]
      BY <2>1
    <2> QED
      BY <1>1, <1>2, <1>3, <2>1, <2>2 DEF Shape
  <1>5. Owned
    BY <1>1, <1>3 DEF Owned, Apart
  <1> QED
    BY <1>1, <1>2, <1>4, <1>5 DEF BlkInv, Live, Dormant, Told, NoLostInterrupt

-----------------------------------------------------------------------------
(* The device.                                                             *)

LEMMA NotifyKeeps == BlkInv /\ Notify => BlkInv'
  <1> SUFFICES ASSUME BlkInv, Notify PROVE BlkInv'
    OBVIOUS
  <1>1. drv' = [drv EXCEPT !.kick = FALSE] /\ UNCHANGED <<vblk, irq, ring, owner>>
    BY DEF Notify, memVars
  <1>2. /\ drv'.phase = drv.phase /\ drv'.pc = drv.pc /\ drv'.lastUsed = drv.lastUsed
        /\ drv'.inflight = drv.inflight
    BY <1>1 DEF BlkInv, Shape
  <1>3. Shape'
    BY <1>1 DEF BlkInv, Shape, Slots
  <1>4. Owned'
    BY <1>1, <1>2 DEF BlkInv, Owned
  <1>5. Live' /\ Dormant'
    <2>1. serving' \in {-1, ring.availIdx} /\ (~vblk.q.ready => serving' = -1)
      BY DEF Notify
    <2> QED
      BY <1>1, <1>2, <2>1 DEF BlkInv, Live, Dormant
  <1>6. Told'
    BY <1>1, <1>2 DEF BlkInv, Told, NoLostInterrupt
  <1> QED
    BY <1>3, <1>4, <1>5, <1>6 DEF BlkInv

LEMMA NotifyEndKeeps == BlkInv /\ NotifyEnd => BlkInv'
  <1> SUFFICES ASSUME BlkInv, NotifyEnd PROVE BlkInv'
    OBVIOUS
  <1>1. serving' = -1 /\ UNCHANGED <<vblk, irq, ring, owner, drv>>
    BY DEF NotifyEnd, memVars
  <1> QED
    BY <1>1 DEF BlkInv, Shape, Slots, Owned, Live, Dormant, Told, NoLostInterrupt

LEMMA ServeOneKeeps == BlkInv /\ ServeOne => BlkInv'
  <1> SUFFICES ASSUME BlkInv, ServeOne PROVE BlkInv'
    OBVIOUS
  <1>1. PICK head, len :
           /\ head = ring.avail[vblk.q.lastAvail % vblk.q.num]
           /\ ring' = RingUsed(vblk.q, ring, head, len)
           /\ vblk' = [vblk EXCEPT !.q.lastAvail = (@ + 1) % IdxMod,
                                   !.int = @ \/ UsedInterrupts(vblk.q, ring)]
           /\ irq' = (irq \/ UsedInterrupts(vblk.q, ring))
           /\ UNCHANGED <<owner, serving, drv>>
    BY DEF ServeOne
  <1>2. serving # -1 /\ serving # vblk.q.lastAvail
    BY DEF ServeOne
  <1>3. drv.phase = "ok"
    BY <1>2 DEF BlkInv, Shape, Dormant
  <1>4. vblk.q.num = QueueSize /\ vblk.q.ready /\ vblk.q.addr /\ serving = ring.availIdx
    BY <1>2, <1>3 DEF BlkInv, Live
  <1>5. PICK u : u = [id |-> head, len |-> len]
    OBVIOUS
  <1>6. ring' = [ring EXCEPT !.used[ring.usedIdx % QueueSize] = u,
                             !.usedIdx = (ring.usedIdx + 1) % IdxMod]
    BY <1>1, <1>4, <1>5 DEF RingUsed
  <1>7. /\ ring'.used = [ring.used EXCEPT ![ring.usedIdx % QueueSize] = u]
        /\ ring'.usedIdx = (ring.usedIdx + 1) % IdxMod
        /\ ring'.avail = ring.avail /\ ring'.availIdx = ring.availIdx
        /\ ring'.noint = ring.noint /\ ring'.desc = ring.desc
        /\ ring' = [desc |-> ring'.desc, noint |-> ring'.noint,
                    availIdx |-> ring'.availIdx, avail |-> ring'.avail,
                    usedIdx |-> ring'.usedIdx, used |-> ring'.used]
    <2>1. ring = [desc |-> ring.desc, noint |-> ring.noint,
                  availIdx |-> ring.availIdx, avail |-> ring.avail,
                  usedIdx |-> ring.usedIdx, used |-> ring.used]
      BY DEF BlkInv, Shape
    <2> QED
      BY <1>6, <2>1
  <1>8. PICK l \in Nat : l = (vblk.q.lastAvail + 1) % IdxMod
    <2>1. vblk.q.lastAvail \in Nat
      BY DEF BlkInv, Shape
    <2> QED
      BY <2>1, QueueAssumption
  <1>9. /\ vblk'.q = [vblk.q EXCEPT !.lastAvail = l] /\ vblk'.status = vblk.status
        /\ vblk'.int = (vblk.int \/ ~ring.noint)
        /\ vblk' \in [status : {"reset", "ok"}, int : BOOLEAN,
                      q : [num : Nat, ready : BOOLEAN, lastAvail : Nat, addr : BOOLEAN]]
    BY <1>1, <1>4, <1>8 DEF BlkInv, Shape, UsedInterrupts
  <1>10. /\ vblk'.q.lastAvail = l /\ vblk'.q.num = vblk.q.num
         /\ vblk'.q.ready = vblk.q.ready /\ vblk'.q.addr = vblk.q.addr
    BY <1>9 DEF BlkInv, Shape
  <1>11. Shape'
    <2>1. ring.used = [i \in Slots |-> ring.used[i]]
      BY DEF BlkInv, Shape
    <2>2. ring'.used = [i \in Slots |-> ring'.used[i]]
      BY <1>7, <2>1
    <2>3. ring'.noint \in BOOLEAN /\ ring'.avail = [i \in Slots |-> ring'.avail[i]]
      BY <1>7 DEF BlkInv, Shape
    <2>4. /\ owner' \in [Slots -> Nat]
          /\ drv' \in [phase : {"reset", "ok"}, pc : {"thread", "drain", "recheck"},
                       lastUsed : Nat, inflight : Seq(Chains), kick : BOOLEAN]
      BY <1>1 DEF BlkInv, Shape
    <2>5. Slots' = Slots
      BY DEF Slots
    <2> HIDE DEF Slots, Chains
    <2> QED
      BY <1>7, <1>9, <2>2, <2>3, <2>4, <2>5 DEF Shape
  <1>12. QueueInv(vblk'.q, ring', drv.lastUsed, drv.inflight)
    <2>1. Apart(drv.inflight) /\ QueueInv(vblk.q, ring, drv.lastUsed, drv.inflight)
      BY <1>3 DEF BlkInv, Live, Owned
    <2>2. vblk.q.lastAvail # ring.availIdx
      BY <1>2, <1>4
    <2>3. ring.used = [i \in Slots |-> ring.used[i]]
      BY DEF BlkInv, Shape
    <2>4. u.id = ring.avail[vblk.q.lastAvail % QueueSize]
      BY <1>1, <1>4, <1>5
    <2>5. vblk'.q.lastAvail = (vblk.q.lastAvail + 1) % IdxMod
      BY <1>8, <1>10
    <2> QED
      BY <2>1, <2>2, <2>3, <2>4, <2>5, <1>7, ServeKeeps
  <1>13. Owned'
    BY <1>1 DEF BlkInv, Owned
  <1>14. Live' /\ Dormant'
    BY <1>1, <1>3, <1>4, <1>7, <1>10, <1>12 DEF Live, Dormant
  <1>15. Told'
    <2>1. irq' = (irq \/ ~ring.noint)
      BY <1>1, <1>4 DEF UsedInterrupts
    <2>2. irq' = vblk'.int
      BY <2>1, <1>9 DEF BlkInv, Told
    <2>3. drv.pc # "drain" => ~ring.noint
      BY <1>3 DEF BlkInv, Told
    <2>4. NoLostInterrupt'
      BY <1>1, <2>1, <2>3 DEF NoLostInterrupt
    <2> QED
      BY <1>1, <1>3, <1>7, <2>2, <2>3, <2>4 DEF Told
  <1> QED
    BY <1>11, <1>13, <1>14, <1>15 DEF BlkInv

-----------------------------------------------------------------------------
(* The driver.                                                             *)

LEMMA EmptyRingShape ==
    /\ EmptyRing = [desc |-> EmptyRing.desc, noint |-> EmptyRing.noint,
                    availIdx |-> EmptyRing.availIdx, avail |-> EmptyRing.avail,
                    usedIdx |-> EmptyRing.usedIdx, used |-> EmptyRing.used]
    /\ EmptyRing.noint = FALSE /\ EmptyRing.availIdx = 0 /\ EmptyRing.usedIdx = 0
    /\ EmptyRing.avail = [i \in Slots |-> EmptyRing.avail[i]]
    /\ EmptyRing.used = [i \in Slots |-> EmptyRing.used[i]]
  BY DEF EmptyRing, Slots

\* Turning notifications on or off moves nothing in the queue.
LEMMA NointOnly ==
    ASSUME Shape, NEW b \in BOOLEAN, ring' = [ring EXCEPT !.noint = b],
           vblk'.q = vblk.q, owner' = owner,
           vblk' \in [status : {"reset", "ok"}, int : BOOLEAN,
                      q : [num : Nat, ready : BOOLEAN, lastAvail : Nat, addr : BOOLEAN]],
           drv' \in [phase : {"reset", "ok"}, pc : {"thread", "drain", "recheck"},
                     lastUsed : Nat, inflight : Seq(Chains), kick : BOOLEAN],
           drv'.lastUsed = drv.lastUsed, drv'.inflight = drv.inflight,
           QueueInv(vblk.q, ring, drv.lastUsed, drv.inflight)
    PROVE  /\ Shape' /\ QueueInv(vblk'.q, ring', drv'.lastUsed, drv'.inflight)
           /\ ring'.availIdx = ring.availIdx /\ ring'.usedIdx = ring.usedIdx
           /\ ring'.noint = b
  <1>1. /\ ring'.noint = b /\ ring'.availIdx = ring.availIdx
        /\ ring'.usedIdx = ring.usedIdx /\ ring'.avail = ring.avail
        /\ ring'.used = ring.used /\ ring'.desc = ring.desc
        /\ ring' = [desc |-> ring'.desc, noint |-> ring'.noint,
                    availIdx |-> ring'.availIdx, avail |-> ring'.avail,
                    usedIdx |-> ring'.usedIdx, used |-> ring'.used]
    <2>1. ring = [desc |-> ring.desc, noint |-> ring.noint,
                  availIdx |-> ring.availIdx, avail |-> ring.avail,
                  usedIdx |-> ring.usedIdx, used |-> ring.used]
      BY DEF Shape
    <2> QED
      BY <2>1
  <1>2. QueueInv(vblk'.q, ring', drv'.lastUsed, drv'.inflight)
    BY <1>1 DEF QueueInv
  <1>3. Shape'
    <2>1. /\ ring.avail = [i \in Slots |-> ring.avail[i]]
          /\ ring.used = [i \in Slots |-> ring.used[i]]
          /\ owner \in [Slots -> Nat] /\ Slots' = Slots
      BY DEF Shape, Slots
    <2> QED
      BY <1>1, <2>1 DEF Shape
  <1> QED
    BY <1>1, <1>2, <1>3

LEMMA DrvResetKeeps == BlkInv /\ DrvReset => BlkInv'
  <1> SUFFICES ASSUME BlkInv, DrvReset PROVE BlkInv'
    OBVIOUS
  <1>1. /\ serving = -1 /\ drv.pc = "thread" /\ serving' = serving
        /\ irq' = FALSE /\ ring' = EmptyRing /\ owner' = [i \in Slots |-> 0]
        /\ drv' = [drv EXCEPT !.phase = "reset", !.inflight = << >>, !.lastUsed = 0]
    BY DEF DrvReset
  <1>2. /\ vblk'.int = FALSE /\ vblk'.q.ready = FALSE
        /\ vblk' \in [status : {"reset", "ok"}, int : BOOLEAN,
                      q : [num : Nat, ready : BOOLEAN, lastAvail : Nat, addr : BOOLEAN]]
    <2>1. vblk' = [vblk EXCEPT !.status = "reset", !.int = FALSE, !.q = QueueOff(vblk.q.addr)]
      BY DEF DrvReset, VirtioWrite
    <2> QED
      BY <2>1 DEF BlkInv, Shape, QueueOff
  <1>3. << >> \in Seq(Chains) /\ Len(<< >>) = 0
    OBVIOUS
  <1>4. /\ drv' \in [phase : {"reset", "ok"}, pc : {"thread", "drain", "recheck"},
                     lastUsed : Nat, inflight : Seq(Chains), kick : BOOLEAN]
        /\ drv'.phase = "reset" /\ drv'.pc = "thread" /\ drv'.inflight = << >>
    BY <1>1, <1>3 DEF BlkInv, Shape
  <1>5. Slots' = Slots /\ Chains' = Chains
    BY DEF Slots, Chains
  <1>6. Shape'
    <2>1. owner' \in [Slots -> Nat]
      BY <1>1
    <2> QED
      BY <1>1, <1>2, <1>4, <1>5, <2>1, EmptyRingShape DEF Shape
  <1>7. Owned'
    BY <1>3, <1>4 DEF Owned, Apart
  <1> QED
    BY <1>1, <1>2, <1>4, <1>6, <1>7 DEF BlkInv, Live, Dormant, Told, NoLostInterrupt

LEMMA DrvSetupKeeps == BlkInv /\ DrvSetup => BlkInv'
  <1> SUFFICES ASSUME BlkInv, DrvSetup PROVE BlkInv'
    OBVIOUS
  <1>1. /\ serving = -1 /\ drv.phase = "reset" /\ ring' = EmptyRing
        /\ drv' = [drv EXCEPT !.phase = "ok", !.lastUsed = 0, !.kick = FALSE]
        /\ UNCHANGED <<irq, owner, serving>>
    BY DEF DrvSetup
  <1>2. drv.pc = "thread" /\ ~irq /\ drv.inflight = << >> /\ irq = vblk.int
    BY <1>1 DEF BlkInv, Dormant, Told
  <1>3. /\ vblk'.int = vblk.int /\ vblk'.q.num = QueueSize /\ vblk'.q.ready
        /\ vblk'.q.addr /\ vblk'.q.lastAvail = 0
        /\ vblk' \in [status : {"reset", "ok"}, int : BOOLEAN,
                      q : [num : Nat, ready : BOOLEAN, lastAvail : Nat, addr : BOOLEAN]]
    <2>1. QueueSize \in Nat /\ QueueSize \in 1 .. QueueSize
      BY QueueAssumption
    <2>2. PICK v1 : v1 = [vblk EXCEPT !.q.num = QueueSize]
      OBVIOUS
    <2>3. PICK v2 : v2 = [v1 EXCEPT !.q.addr = TRUE]
      OBVIOUS
    <2>4. PICK v3 : v3 = [v2 EXCEPT !.q.ready = TRUE, !.q.lastAvail = 0]
      OBVIOUS
    <2>5. vblk' = [v3 EXCEPT !.status = "ok"]
      <3>1. VirtioWrite(vblk, "QUEUE_NUM", QueueSize) = v1
        BY <2>1, <2>2 DEF VirtioWrite
      <3>2. VirtioWrite(v1, "QUEUE_ADDR", TRUE) = v2
        BY <2>3 DEF VirtioWrite
      <3>3. VirtioWrite(v2, "QUEUE_READY", TRUE) = v3
        BY <2>4 DEF VirtioWrite
      <3>4. VirtioWrite(v3, "STATUS", "ok") = [v3 EXCEPT !.status = "ok"]
        BY DEF VirtioWrite
      <3> QED
        BY <3>1, <3>2, <3>3, <3>4, Zenon DEF DrvSetup
    <2>6. PICK q \in [num : Nat, ready : BOOLEAN, lastAvail : Nat, addr : BOOLEAN] : q = vblk.q
      BY DEF BlkInv, Shape
    <2>7. vblk \in [status : {"reset", "ok"}, int : BOOLEAN,
                    q : [num : Nat, ready : BOOLEAN, lastAvail : Nat, addr : BOOLEAN]]
      BY DEF BlkInv, Shape
    <2> QED
      BY <2>1, <2>2, <2>3, <2>4, <2>5, <2>7
  <1>4. /\ drv' \in [phase : {"reset", "ok"}, pc : {"thread", "drain", "recheck"},
                     lastUsed : Nat, inflight : Seq(Chains), kick : BOOLEAN]
        /\ drv'.phase = "ok" /\ drv'.pc = "thread" /\ drv'.inflight = << >>
        /\ drv'.lastUsed = 0
    BY <1>1, <1>2 DEF BlkInv, Shape
  <1>5. Slots' = Slots /\ Chains' = Chains
    BY DEF Slots, Chains
  <1>6. Shape'
    <2>1. owner' \in [Slots -> Nat]
      BY <1>1 DEF BlkInv, Shape
    <2> QED
      BY <1>1, <1>3, <1>4, <1>5, <2>1, EmptyRingShape DEF Shape
  <1>7. QueueInv(vblk'.q, ring', drv'.lastUsed, << >>) /\ Apart(<< >>)
    BY <1>1, <1>3, <1>4, EmptyRingShape, FreshQueue
  <1>8. Owned'
    <2>1. Len(<< >>) = 0
      OBVIOUS
    <2> QED
      BY <1>4, <1>7, <2>1 DEF Owned
  <1>9. Live' /\ Dormant'
    BY <1>1, <1>3, <1>4, <1>7 DEF Live, Dormant
  <1>10. Told'
    BY <1>1, <1>2, <1>3, <1>4, EmptyRingShape DEF Told, NoLostInterrupt
  <1> QED
    BY <1>6, <1>8, <1>9, <1>10 DEF BlkInv

LEMMA DrvInterruptKeeps == BlkInv /\ DrvInterrupt => BlkInv'
  <1> SUFFICES ASSUME BlkInv, DrvInterrupt PROVE BlkInv'
    OBVIOUS
  <1>1. /\ irq /\ irq' = vblk'.int
        /\ drv' = [drv EXCEPT !.pc = "drain"]
        /\ ring' = [ring EXCEPT !.noint = TRUE]
        /\ UNCHANGED <<owner, serving>>
        /\ vblk' = [vblk EXCEPT !.int = vblk.int /\ ~vblk.int]
    BY DEF DrvInterrupt, VirtioWrite, VirtioRead
  <1>2. drv.phase = "ok"
    BY <1>1 DEF BlkInv, Shape, Dormant
  <1>3. /\ vblk'.q = vblk.q /\ vblk'.int \in BOOLEAN
        /\ vblk' \in [status : {"reset", "ok"}, int : BOOLEAN,
                      q : [num : Nat, ready : BOOLEAN, lastAvail : Nat, addr : BOOLEAN]]
    BY <1>1 DEF BlkInv, Shape
  <1>4. /\ drv' \in [phase : {"reset", "ok"}, pc : {"thread", "drain", "recheck"},
                     lastUsed : Nat, inflight : Seq(Chains), kick : BOOLEAN]
        /\ drv'.phase = "ok" /\ drv'.pc = "drain" /\ drv'.inflight = drv.inflight
        /\ drv'.lastUsed = drv.lastUsed
    BY <1>1, <1>2 DEF BlkInv, Shape
  <1>5. Shape' /\ QueueInv(vblk'.q, ring', drv'.lastUsed, drv'.inflight)
        /\ ring'.availIdx = ring.availIdx
    BY <1>1, <1>2, <1>3, <1>4, NointOnly DEF BlkInv, Live
  <1>6. Owned'
    BY <1>1, <1>4 DEF BlkInv, Owned
  <1>7. Live' /\ Dormant'
    BY <1>1, <1>2, <1>3, <1>4, <1>5 DEF BlkInv, Live, Dormant
  <1>8. Told'
    BY <1>1, <1>4 DEF Told, NoLostInterrupt
  <1> QED
    BY <1>5, <1>6, <1>7, <1>8 DEF BlkInv

LEMMA DrvEnableKeeps == BlkInv /\ DrvEnable => BlkInv'
  <1> SUFFICES ASSUME BlkInv, DrvEnable PROVE BlkInv'
    OBVIOUS
  <1>1. /\ drv.pc = "drain"
        /\ drv' = [drv EXCEPT !.pc = "recheck"]
        /\ ring' = [ring EXCEPT !.noint = FALSE]
        /\ UNCHANGED <<vblk, irq, owner, serving>>
    BY DEF DrvEnable
  <1>2. drv.phase = "ok"
    BY <1>1 DEF BlkInv, Shape, Dormant
  <1>3. /\ drv' \in [phase : {"reset", "ok"}, pc : {"thread", "drain", "recheck"},
                     lastUsed : Nat, inflight : Seq(Chains), kick : BOOLEAN]
        /\ drv'.phase = "ok" /\ drv'.pc = "recheck" /\ drv'.inflight = drv.inflight
        /\ drv'.lastUsed = drv.lastUsed
    BY <1>1, <1>2 DEF BlkInv, Shape
  <1>4. vblk' \in [status : {"reset", "ok"}, int : BOOLEAN,
                   q : [num : Nat, ready : BOOLEAN, lastAvail : Nat, addr : BOOLEAN]]
    BY <1>1 DEF BlkInv, Shape
  <1>5. Shape' /\ QueueInv(vblk'.q, ring', drv'.lastUsed, drv'.inflight)
        /\ ring'.availIdx = ring.availIdx /\ ring'.noint = FALSE
    BY <1>1, <1>2, <1>3, <1>4, NointOnly DEF BlkInv, Live
  <1>6. Owned'
    BY <1>1, <1>3 DEF BlkInv, Owned
  <1>7. Live' /\ Dormant'
    BY <1>1, <1>2, <1>3, <1>5 DEF BlkInv, Live, Dormant
  <1>8. Told'
    BY <1>1, <1>3, <1>5 DEF BlkInv, Told, NoLostInterrupt
  <1> QED
    BY <1>5, <1>6, <1>7, <1>8 DEF BlkInv

LEMMA DrvRecheckKeeps == BlkInv /\ DrvRecheck => BlkInv'
  <1> SUFFICES ASSUME BlkInv, DrvRecheck PROVE BlkInv'
    OBVIOUS
  <1>1. drv.pc = "recheck" /\ UNCHANGED <<vblk, irq, owner, serving>>
    BY DEF DrvRecheck
  <1>2. drv.phase = "ok"
    BY <1>1 DEF BlkInv, Shape, Dormant
  <1>3. vblk' \in [status : {"reset", "ok"}, int : BOOLEAN,
                   q : [num : Nat, ready : BOOLEAN, lastAvail : Nat, addr : BOOLEAN]]
    BY <1>1 DEF BlkInv, Shape
  <1>4. CASE drv.lastUsed # ring.usedIdx
    <2>1. drv' = [drv EXCEPT !.pc = "drain"] /\ ring' = [ring EXCEPT !.noint = TRUE]
      BY <1>4 DEF DrvRecheck
    <2>2. /\ drv' \in [phase : {"reset", "ok"}, pc : {"thread", "drain", "recheck"},
                       lastUsed : Nat, inflight : Seq(Chains), kick : BOOLEAN]
          /\ drv'.phase = "ok" /\ drv'.pc = "drain" /\ drv'.inflight = drv.inflight
          /\ drv'.lastUsed = drv.lastUsed
      BY <2>1, <1>2 DEF BlkInv, Shape
    <2>3. Shape' /\ QueueInv(vblk'.q, ring', drv'.lastUsed, drv'.inflight)
          /\ ring'.availIdx = ring.availIdx
      BY <2>1, <2>2, <1>1, <1>2, <1>3, NointOnly DEF BlkInv, Live
    <2>4. Owned' /\ Told'
      BY <1>1, <2>2 DEF BlkInv, Owned, Told, NoLostInterrupt
    <2>5. Live' /\ Dormant'
      BY <1>1, <1>2, <2>2, <2>3 DEF BlkInv, Live, Dormant
    <2> QED
      BY <2>3, <2>4, <2>5 DEF BlkInv
  <1>5. CASE drv.lastUsed = ring.usedIdx
    <2>1. drv' = [drv EXCEPT !.pc = "thread"] /\ ring' = ring
      BY <1>5 DEF DrvRecheck
    <2>2. /\ drv' \in [phase : {"reset", "ok"}, pc : {"thread", "drain", "recheck"},
                       lastUsed : Nat, inflight : Seq(Chains), kick : BOOLEAN]
          /\ drv'.phase = "ok" /\ drv'.pc = "thread" /\ drv'.inflight = drv.inflight
          /\ drv'.lastUsed = drv.lastUsed
      BY <2>1, <1>2 DEF BlkInv, Shape
    <2>3. Shape'
      BY <1>1, <2>1, <2>2 DEF BlkInv, Shape, Slots
    <2>4. Owned' /\ Told'
      BY <1>1, <1>2, <1>5, <2>1, <2>2 DEF BlkInv, Owned, Told, NoLostInterrupt
    <2>5. Live' /\ Dormant'
      BY <1>1, <1>2, <2>1, <2>2 DEF BlkInv, Live, Dormant
    <2> QED
      BY <2>3, <2>4, <2>5 DEF BlkInv
  <1> QED
    BY <1>4, <1>5

LEMMA DrvSubmitKeeps ==
    ASSUME BlkInv, NEW r \in DOMAIN Requests, DrvSubmit(r)
    PROVE  BlkInv'
  <1>1. PICK n \in Nat \ {0} : n = Len(Requests[r].chain)
    BY BlkAssumption
  <1>2. PICK s : s = [k \in 1 .. n |-> Alloc(k)]
    OBVIOUS
  <1>3. PICK desc :
           /\ serving = -1 /\ drv.phase = "ok" /\ n <= Cardinality(Free)
           /\ ring' = [ring EXCEPT !.desc = desc,
                                   !.avail[ring.availIdx % QueueSize] = s[1],
                                   !.availIdx = (@ + 1) % IdxMod]
           /\ owner' = [i \in Slots |-> IF i \in Range(s) THEN r ELSE owner[i]]
           /\ drv' = [drv EXCEPT !.kick = TRUE,
                                 !.inflight = Append(@, [head |-> s[1], slots |-> s])]
           /\ UNCHANGED <<vblk, irq, serving>>
    BY <1>1, <1>2 DEF DrvSubmit
  <1>4. r \in Nat \ {0}
    BY BlkAssumption
  <1>5. owner \in [Slots -> Nat]
    BY DEF BlkInv, Shape
  <1>6. s \in [1 .. n -> Free]
    <2>1. ASSUME NEW k \in 1 .. n PROVE Alloc(k) \in Free
      <3>1. k \in Nat \ {0} /\ k <= n /\ Cardinality(Free) \in Nat
        <4>1. IsFiniteSet(Slots)
          BY FS_Interval, QueueAssumption DEF Slots
        <4>2. Free \subseteq Slots
          BY DEF Free
        <4>3. Cardinality(Free) \in Nat
          BY <4>1, <4>2, FS_Subset, FS_CardinalityType
        <4> QED
          BY <4>3
      <3>2. k <= Cardinality(Free)
        BY <3>1, <1>3
      <3> QED
        BY <3>1, <3>2, <1>5, AllocIsFree
    <2> QED
      BY <2>1, <1>2
  <1>7. /\ s \in Seq(Slots) /\ Len(s) = n /\ s[1] \in Slots /\ s[1] \in Range(s)
        /\ \A i \in Range(s) : i \in Free
    <2>1. Free \subseteq Slots
      BY DEF Free
    <2>2. s \in [1 .. n -> Slots] /\ DOMAIN s = 1 .. n /\ 1 \in 1 .. n
      BY <1>6, <2>1
    <2>3. s \in Seq(Slots) /\ Len(s) = n
      BY <2>2, FunctionIsSeq
    <2> QED
      BY <2>2, <2>3, <1>6 DEF Range
  <1>8. PICK c \in Chains : c = [head |-> s[1], slots |-> s]
    BY <1>7 DEF Chains
  <1>9. PICK in \in Seq(Chains) : in = drv.inflight
    BY DEF BlkInv, Shape
  <1>10. PICK in2 \in Seq(Chains) : in2 = Append(in, c)
    <2>1. Append(in, c) \in Seq(Chains)
      BY AppendProperties, Zenon
    <2> QED
      BY <2>1, Zenon
  <1>11. PICK m \in Nat : m = Len(in)
    OBVIOUS
  <1>12. Len(in2) = m + 1 /\ in2[m + 1] = c /\ \A k \in 1 .. m : in2[k] = in[k]
    BY <1>10, <1>11
  <1>13. /\ drv' \in [phase : {"reset", "ok"}, pc : {"thread", "drain", "recheck"},
                      lastUsed : Nat, inflight : Seq(Chains), kick : BOOLEAN]
         /\ drv'.phase = "ok" /\ drv'.pc = drv.pc /\ drv'.inflight = in2
         /\ drv'.lastUsed = drv.lastUsed
    BY <1>3, <1>8, <1>9, <1>10 DEF BlkInv, Shape
  <1>14. \A k \in 1 .. m : \A i \in Range(in[k].slots) : owner[i] # 0 /\ i \notin Range(s)
    BY <1>7, <1>9, <1>11 DEF BlkInv, Owned, Free
  <1>15. Apart(in)
    BY <1>9 DEF BlkInv, Owned
  <1>16. Apart(in2)
    <2>1. ASSUME NEW k \in 1 .. m + 1 PROVE in2[k].head \in Range(in2[k].slots)
      <3>1. CASE k = m + 1
        BY <3>1, <1>7, <1>8, <1>12
      <3>2. CASE k # m + 1
        <4>1. k \in 1 .. m
          BY <3>2
        <4> QED
          BY <4>1, <1>11, <1>12, <1>15 DEF Apart
      <3> QED
        BY <3>1, <3>2
    <2>2. ASSUME NEW j \in 1 .. m + 1, NEW k \in 1 .. m + 1, j < k
          PROVE  Range(in2[j].slots) \cap Range(in2[k].slots) = {}
      <3>1. j \in 1 .. m /\ in2[j] = in[j]
        BY <2>2, <1>12
      <3>2. CASE k = m + 1
        <4>1. in2[k].slots = s
          BY <3>2, <1>8, <1>12
        <4> QED
          BY <3>1, <4>1, <1>14
      <3>3. CASE k # m + 1
        <4>1. k \in 1 .. m /\ j # k
          BY <2>2, <3>3
        <4> QED
          BY <3>1, <4>1, <1>11, <1>12, <1>15 DEF Apart
      <3> QED
        BY <3>2, <3>3
    <2>3. ASSUME NEW j \in 1 .. m + 1, NEW k \in 1 .. m + 1, j # k
          PROVE  Range(in2[j].slots) \cap Range(in2[k].slots) = {}
      <3>1. j < k \/ k < j
        BY <2>3
      <3> QED
        BY <2>2, <3>1
    <2> QED
      BY <2>1, <2>3, <1>10, <1>12 DEF Apart
  <1>17. owner' \in [Slots -> Nat] /\ \A i \in Slots : owner'[i] = IF i \in Range(s) THEN r ELSE owner[i]
    BY <1>3, <1>4, <1>5
  <1>18. Owned'
    <2>1. ASSUME NEW k \in 1 .. m + 1, NEW i \in Range(in2[k].slots) PROVE owner'[i] # 0
      <3>1. i \in Slots
        <4>1. in2[k] \in Chains
          BY <1>10, <1>12
        <4>2. in2[k].slots \in Seq(Slots)
          BY <4>1 DEF Chains
        <4> QED
          BY <4>2 DEF Range
      <3>2. CASE k = m + 1
        <4>1. in2[k].slots = s
          BY <3>2, <1>8, <1>12
        <4> QED
          BY <3>1, <4>1, <1>17, <1>4
      <3>3. CASE k # m + 1
        <4>1. k \in 1 .. m /\ in2[k] = in[k]
          BY <3>3, <1>12
        <4> QED
          BY <3>1, <4>1, <1>14, <1>17
      <3> QED
        BY <3>2, <3>3
    <2> QED
      BY <2>1, <1>12, <1>13, <1>16 DEF Owned
  <1>19. /\ ring'.avail = [ring.avail EXCEPT ![ring.availIdx % QueueSize] = c.head]
         /\ ring'.availIdx = (ring.availIdx + 1) % IdxMod
         /\ ring'.used = ring.used /\ ring'.usedIdx = ring.usedIdx
         /\ ring'.noint = ring.noint
         /\ ring' = [desc |-> ring'.desc, noint |-> ring'.noint,
                     availIdx |-> ring'.availIdx, avail |-> ring'.avail,
                     usedIdx |-> ring'.usedIdx, used |-> ring'.used]
    <2>1. ring = [desc |-> ring.desc, noint |-> ring.noint,
                  availIdx |-> ring.availIdx, avail |-> ring.avail,
                  usedIdx |-> ring.usedIdx, used |-> ring.used]
      BY DEF BlkInv, Shape
    <2>2. c.head = s[1]
      BY <1>8
    <2> QED
      BY <1>3, <2>1, <2>2
  <1>20. Shape'
    <2>1. /\ ring.avail = [i \in Slots |-> ring.avail[i]]
          /\ ring.used = [i \in Slots |-> ring.used[i]] /\ ring.noint \in BOOLEAN
      BY DEF BlkInv, Shape
    <2>2. ring'.avail = [i \in Slots |-> ring'.avail[i]]
      BY <2>1, <1>19
    <2>3. vblk' \in [status : {"reset", "ok"}, int : BOOLEAN,
                     q : [num : Nat, ready : BOOLEAN, lastAvail : Nat, addr : BOOLEAN]]
      BY <1>3 DEF BlkInv, Shape
    <2>4. Slots' = Slots
      BY DEF Slots
    <2> QED
      BY <2>1, <2>2, <2>3, <2>4, <1>13, <1>17, <1>19 DEF Shape
  <1>21. Len(in) < QueueSize
    <2>1. \A k \in 1 .. Len(in) : s[1] \notin Range(in[k].slots)
      BY <1>7, <1>11, <1>14
    <2> QED
      BY <2>1, <1>7, <1>15, RoomInQueue
  <1>22. QueueInv(vblk.q, ring', drv.lastUsed, in2)
    <2>1. QueueInv(vblk.q, ring, drv.lastUsed, in)
      BY <1>3, <1>9 DEF BlkInv, Live
    <2>2. ring.avail = [i \in Slots |-> ring.avail[i]]
      BY DEF BlkInv, Shape
    <2> QED
      BY <2>1, <2>2, <1>10, <1>15, <1>19, <1>21, PublishKeeps
  <1>23. Live' /\ Dormant'
    BY <1>3, <1>13, <1>22 DEF BlkInv, Live, Dormant
  <1>24. Told'
    BY <1>3, <1>13, <1>19 DEF BlkInv, Told, NoLostInterrupt
  <1> QED
    BY <1>18, <1>20, <1>23, <1>24 DEF BlkInv

LEMMA DrvReclaimKeeps == BlkInv /\ DrvReclaim => BlkInv'
  <1> SUFFICES ASSUME BlkInv, DrvReclaim PROVE BlkInv'
    OBVIOUS
  <1>1. PICK in \in Seq(Chains) : in = drv.inflight
    BY DEF BlkInv, Shape
  <1>2. PICK id : id = ring.used[drv.lastUsed % QueueSize].id
    OBVIOUS
  <1>3. PICK k : k = CHOOSE j \in 1 .. Len(in) : in[j].head = id
    OBVIOUS
  <1>4. PICK desc :
           /\ serving = -1 /\ drv.pc = "drain" /\ drv.lastUsed # ring.usedIdx
           /\ owner' = [i \in Slots |-> IF i \in Range(in[k].slots) THEN 0 ELSE owner[i]]
           /\ drv' = [drv EXCEPT !.lastUsed = (@ + 1) % IdxMod, !.inflight = RemoveAt(@, k)]
           /\ ring' = [ring EXCEPT !.desc = desc,
                  !.avail[drv.lastUsed % QueueSize] = 0,
                  !.used[drv.lastUsed % QueueSize] = [id |-> 0, len |-> 0]]
           /\ UNCHANGED <<vblk, irq, serving>>
    BY <1>1, <1>2, <1>3 DEF DrvReclaim
  <1>5. drv.phase = "ok"
    BY <1>4 DEF BlkInv, Shape, Dormant
  <1>6. Apart(in) /\ QueueInv(vblk.q, ring, drv.lastUsed, in)
    BY <1>1, <1>5 DEF BlkInv, Live, Owned
  <1>7. Len(in) \in Nat \ {0} /\ id = in[1].head
    BY <1>2, <1>4, <1>6, OldestFirst
  <1>8. k = 1
    <2>1. 1 \in 1 .. Len(in)
      BY <1>7
    <2>2. k \in 1 .. Len(in) /\ in[k].head = in[1].head
      BY <1>3, <1>7, <2>1
    <2>3. in[k].head \in Range(in[k].slots) /\ in[1].head \in Range(in[1].slots)
      BY <1>6, <2>1, <2>2 DEF Apart
    <2> QED
      BY <1>6, <2>1, <2>2, <2>3 DEF Apart
  <1>9. PICK m \in Nat : Len(in) = m + 1
    BY <1>7
  <1>10. PICK in2 \in Seq(Chains) :
            /\ in2 = RemoveAt(in, 1) /\ Len(in2) = m
            /\ \A j \in 1 .. m : in2[j] = in[j + 1]
    <2>1. SubSeq(in, 1, 0) = << >>
      BY SubSeqEmpty
    <2>2. PICK t : t = SubSeq(in, 2, m + 1)
      OBVIOUS
    <2>3. \A i \in 2 .. m + 1 : in[i] \in Chains
      BY <1>9
    <2>4. /\ t \in Seq(Chains) /\ Len(t) = m
          /\ \A j \in 1 .. m : t[j] = in[j + 1]
      <3>1. 2 \in Int /\ m + 1 \in Int
        OBVIOUS
      <3>2. /\ t \in Seq(Chains)
            /\ Len(t) = IF 2 <= m + 1 THEN m + 1 - 2 + 1 ELSE 0
            /\ \A i \in 1 .. m + 1 - 2 + 1 : t[i] = in[2 + i - 1]
        BY <2>2, <2>3, <3>1, SubSeqProperties
      <3>3. \A i \in 1 .. m : 2 + i - 1 = i + 1
        OBVIOUS
      <3>4. m + 1 - 2 + 1 = m /\ (~(2 <= m + 1) => m = 0)
        OBVIOUS
      <3> QED
        BY <3>2, <3>3, <3>4
    <2>5. << >> \o t = t
      BY <2>4, ConcatEmptySeq
    <2>6. RemoveAt(in, 1) = t
      <3>1. 1 - 1 = 0 /\ 1 + 1 = 2
        OBVIOUS
      <3> QED
        BY <1>9, <2>1, <2>2, <2>5, <3>1 DEF RemoveAt
    <2> QED
      BY <2>4, <2>6
  <1>11. drv.lastUsed \in Nat /\ (drv.lastUsed + 1) % IdxMod \in Nat
    <2>1. drv.lastUsed \in Nat
      BY DEF BlkInv, Shape
    <2> QED
      BY <2>1, QueueAssumption
  <1>12. /\ drv' \in [phase : {"reset", "ok"}, pc : {"thread", "drain", "recheck"},
                      lastUsed : Nat, inflight : Seq(Chains), kick : BOOLEAN]
         /\ drv'.phase = "ok" /\ drv'.pc = "drain" /\ drv'.inflight = in2
         /\ drv'.lastUsed = (drv.lastUsed + 1) % IdxMod
    BY <1>1, <1>4, <1>5, <1>8, <1>10, <1>11 DEF BlkInv, Shape
  <1>13. /\ ring'.avail = [ring.avail EXCEPT ![drv.lastUsed % QueueSize] = 0]
         /\ ring'.used = [ring.used EXCEPT ![drv.lastUsed % QueueSize] = [id |-> 0, len |-> 0]]
         /\ ring'.usedIdx = ring.usedIdx /\ ring'.availIdx = ring.availIdx
         /\ ring'.noint = ring.noint
         /\ ring' = [desc |-> ring'.desc, noint |-> ring'.noint,
                     availIdx |-> ring'.availIdx, avail |-> ring'.avail,
                     usedIdx |-> ring'.usedIdx, used |-> ring'.used]
    <2>1. ring = [desc |-> ring.desc, noint |-> ring.noint,
                  availIdx |-> ring.availIdx, avail |-> ring.avail,
                  usedIdx |-> ring.usedIdx, used |-> ring.used]
      BY DEF BlkInv, Shape
    <2> QED
      BY <1>4, <2>1
  <1>14. /\ ring.avail = [i \in Slots |-> ring.avail[i]]
         /\ ring.used = [i \in Slots |-> ring.used[i]] /\ ring.noint \in BOOLEAN
    BY DEF BlkInv, Shape
  <1>15. QueueInv(vblk.q, ring', (drv.lastUsed + 1) % IdxMod, in2) /\ Apart(in2)
    <2>1. Len(in2) = Len(in) - 1
      BY <1>9, <1>10
    <2>2. \A j \in 1 .. Len(in2) : in2[j] = in[j + 1]
      BY <1>10
    <2>3. RingShape(ring)
      BY <1>14 DEF RingShape
    <2>4. TakenBack(ring, ring', drv.lastUsed, in, in2)
      BY <1>13, <2>1, <2>2, Zenon DEF TakenBack
    <2> QED
      BY <2>3, <2>4, <1>4, <1>6, ReclaimKeeps, Zenon
  <1>16. owner' \in [Slots -> Nat]
    BY <1>4 DEF BlkInv, Shape
  <1>17. Shape'
    <2>1. /\ ring'.avail = [i \in Slots |-> ring'.avail[i]]
          /\ ring'.used = [i \in Slots |-> ring'.used[i]]
      BY <1>13, <1>14
    <2>2. vblk' \in [status : {"reset", "ok"}, int : BOOLEAN,
                     q : [num : Nat, ready : BOOLEAN, lastAvail : Nat, addr : BOOLEAN]]
      BY <1>4 DEF BlkInv, Shape
    <2>3. Slots' = Slots
      BY DEF Slots
    <2> QED
      BY <2>1, <2>2, <2>3, <1>12, <1>13, <1>14, <1>16 DEF Shape
  <1>18. Owned'
    <2>1. ASSUME NEW j \in 1 .. m, NEW i \in Range(in2[j].slots) PROVE owner'[i] # 0
      <3>1. i \in Slots
        <4>1. in2[j] \in Chains
          BY <1>10
        <4>2. in2[j].slots \in Seq(Slots)
          BY <4>1 DEF Chains
        <4> QED
          BY <4>2 DEF Range
      <3>2. j + 1 \in 1 .. Len(in) /\ in2[j] = in[j + 1] /\ 1 \in 1 .. Len(in) /\ j + 1 # 1
        BY <1>9, <1>10
      <3>3. i \in Range(in[j + 1].slots) /\ i \notin Range(in[1].slots)
        BY <3>2, <1>6 DEF Apart
      <3>4. owner[i] # 0
        BY <3>2, <3>3, <1>1 DEF BlkInv, Owned
      <3> QED
        BY <3>1, <3>3, <3>4, <1>4, <1>8
    <2> QED
      BY <2>1, <1>10, <1>12, <1>15 DEF Owned
  <1>19. Live' /\ Dormant'
    BY <1>4, <1>5, <1>12, <1>13, <1>15 DEF BlkInv, Live, Dormant
  <1>20. Told'
    BY <1>4, <1>12 DEF BlkInv, Told, NoLostInterrupt
  <1> QED
    BY <1>17, <1>18, <1>19, <1>20 DEF BlkInv

-----------------------------------------------------------------------------
LEMMA NextKeeps == BlkInv /\ [Next]_blkVars => BlkInv'
  <1> SUFFICES ASSUME BlkInv, [Next]_blkVars PROVE BlkInv'
    OBVIOUS
  <1>1. CASE UNCHANGED blkVars
    BY <1>1 DEF blkVars, BlkInv, Shape, Slots, Owned, Live, Dormant, Told, NoLostInterrupt
  <1>2. CASE Next
    BY <1>2, NotifyKeeps, ServeOneKeeps, NotifyEndKeeps, DrvResetKeeps, DrvSetupKeeps,
       DrvSubmitKeeps, DrvInterruptKeeps, DrvReclaimKeeps, DrvEnableKeeps,
       DrvRecheckKeeps DEF Next
  <1> QED
    BY <1>1, <1>2

LEMMA BlkInvariant == Spec => []BlkInv
  BY InitInv, NextKeeps, PTL DEF Spec

\* queue_notify() and queue_complete() against the driver's virtqueue_add() and
\* virtqueue_get_buf(): whatever the driver publishes, good or bad, is in exactly
\* one of the rings' two windows and in the order of publication, however often
\* the indices have wrapped.
THEOREM ChainsStayInOrder == Spec => []RingsHoldInflight
  <1>1. BlkInv => RingsHoldInflight
    <2> SUFFICES ASSUME BlkInv, drv.phase = "ok"
                 PROVE  UsedIds(ring, drv.lastUsed) \o AvailWindow(vblk.q, ring)
                            = Heads(drv.inflight)
      BY Zenon DEF RingsHoldInflight, Heads
    <2>1. Apart(drv.inflight) /\ QueueInv(vblk.q, ring, drv.lastUsed, drv.inflight)
      BY DEF BlkInv, Owned, Live
    <2> QED
      BY <2>1, WindowsAreInflight, Zenon
  <1> QED
    BY <1>1, BlkInvariant, PTL

\* queue_complete() against vm_interrupt() and virtqueue_enable_cb(): a driver
\* outside its handler with an unseen completion has its interrupt pending, so
\* no completion falls between the acknowledgement, the suppression flag and the
\* last look at the ring.
THEOREM InterruptsAreNotLost == Spec => []NoLostInterrupt
  <1>1. BlkInv => NoLostInterrupt
    BY DEF BlkInv, Told
  <1> QED
    BY <1>1, BlkInvariant, PTL
-----------------------------------------------------------------------------
(* One queue of the network device: what each step does to it.             *)

RingRecord(r) ==
    /\ r = [desc |-> r.desc, noint |-> r.noint, availIdx |-> r.availIdx,
            avail |-> r.avail, usedIdx |-> r.usedIdx, used |-> r.used]
    /\ r.noint \in BOOLEAN
    /\ RingShape(r)

\* The two sides of a queue agree, whatever else the device is doing.
Agreed(q, r, lastUsed, in) ==
    RingRecord(r) /\ Apart(in) /\ QueueInv(q, r, lastUsed, in)

\* The registers of a queue that the driver has set up.
QueueOn(q) == q.num = QueueSize /\ q.ready = TRUE /\ q.addr = TRUE

LEMMA AgreedAtFirst ==
    ASSUME NEW q, q.lastAvail = 0
    PROVE  Agreed(q, EmptyRing, 0, << >>)
  <1>1. QueueInv(q, EmptyRing, 0, << >>) /\ Apart(<< >>)
    BY EmptyRingShape, FreshQueue
  <1>2. RingRecord(EmptyRing)
    BY EmptyRingShape DEF RingRecord, RingShape
  <1> QED
    BY <1>1, <1>2 DEF Agreed

LEMMA AgreedFlag ==
    ASSUME NEW q, NEW r, NEW r2, NEW lastUsed, NEW in, Agreed(q, r, lastUsed, in),
           NEW b \in BOOLEAN, r2 = [r EXCEPT !.noint = b]
    PROVE  /\ Agreed(q, r2, lastUsed, in)
           /\ r2.noint = b /\ r2.usedIdx = r.usedIdx /\ r2.availIdx = r.availIdx
  <1>1. /\ r2.noint = b /\ r2.usedIdx = r.usedIdx /\ r2.availIdx = r.availIdx
        /\ r2.avail = r.avail /\ r2.used = r.used
        /\ r2 = [desc |-> r2.desc, noint |-> r2.noint, availIdx |-> r2.availIdx,
                 avail |-> r2.avail, usedIdx |-> r2.usedIdx, used |-> r2.used]
    <2>1. r = [desc |-> r.desc, noint |-> r.noint, availIdx |-> r.availIdx,
               avail |-> r.avail, usedIdx |-> r.usedIdx, used |-> r.used]
      BY DEF Agreed, RingRecord
    <2> QED
      BY <2>1
  <1>2. QueueInv(q, r2, lastUsed, in)
    BY <1>1 DEF Agreed, QueueInv
  <1>3. RingRecord(r2)
    BY <1>1 DEF Agreed, RingRecord, RingShape
  <1> QED
    BY <1>1, <1>2, <1>3 DEF Agreed

\* The device completes the next chain, with whatever length.
LEMMA AgreedServe ==
    ASSUME NEW q, NEW q2, NEW r, NEW r2, NEW lastUsed, NEW in, NEW w,
           Agreed(q, r, lastUsed, in), QueueOn(q), q.lastAvail # r.availIdx,
           r2 = RingUsed(q, r, r.avail[q.lastAvail % QueueSize], w),
           q2.lastAvail = (q.lastAvail + 1) % IdxMod
    PROVE  /\ Agreed(q2, r2, lastUsed, in)
           /\ r2.noint = r.noint /\ r2.availIdx = r.availIdx
  <1>1. PICK u : u = [id |-> r.avail[q.lastAvail % QueueSize], len |-> w]
    OBVIOUS
  <1>2. r2 = [r EXCEPT !.used[r.usedIdx % QueueSize] = u,
                       !.usedIdx = (r.usedIdx + 1) % IdxMod]
    BY <1>1 DEF RingUsed, QueueOn
  <1>3. /\ r2.used = [r.used EXCEPT ![r.usedIdx % QueueSize] = u]
        /\ r2.usedIdx = (r.usedIdx + 1) % IdxMod
        /\ r2.avail = r.avail /\ r2.availIdx = r.availIdx /\ r2.noint = r.noint
        /\ r2 = [desc |-> r2.desc, noint |-> r2.noint, availIdx |-> r2.availIdx,
                 avail |-> r2.avail, usedIdx |-> r2.usedIdx, used |-> r2.used]
    <2>1. r = [desc |-> r.desc, noint |-> r.noint, availIdx |-> r.availIdx,
               avail |-> r.avail, usedIdx |-> r.usedIdx, used |-> r.used]
      BY DEF Agreed, RingRecord
    <2> QED
      BY <1>2, <2>1
  <1>4. r.used = [i \in Slots |-> r.used[i]] /\ r.avail = [i \in Slots |-> r.avail[i]]
    BY DEF Agreed, RingRecord, RingShape
  <1>5. QueueInv(q2, r2, lastUsed, in)
    <2>1. u.id = r.avail[q.lastAvail % QueueSize]
      BY <1>1
    <2>2. Apart(in) /\ QueueInv(q, r, lastUsed, in)
      BY DEF Agreed
    <2> QED
      BY <1>3, <1>4, <2>1, <2>2, ServeKeeps
  <1>6. RingRecord(r2)
    <2>1. r2.used = [i \in Slots |-> r2.used[i]]
      BY <1>3, <1>4
    <2>2. r2.avail = [i \in Slots |-> r2.avail[i]]
      BY <1>3, <1>4
    <2> QED
      BY <1>3, <2>1, <2>2 DEF Agreed, RingRecord, RingShape
  <1> QED
    BY <1>3, <1>5, <1>6 DEF Agreed

LEMMA FreeIsFinite ==
    ASSUME NEW in
    PROVE  FreeSlots(in) \subseteq Slots /\ Cardinality(FreeSlots(in)) \in Nat
  <1>1. IsFiniteSet(Slots)
    BY FS_Interval, QueueAssumption DEF Slots
  <1>2. FreeSlots(in) \subseteq Slots
    BY DEF FreeSlots
  <1> QED
    BY <1>1, <1>2, FS_Subset, FS_CardinalityType

LEMMA NetAllocIsFree ==
    ASSUME NEW in, NEW k \in Nat \ {0}, k <= Cardinality(FreeSlots(in))
    PROVE  NetAlloc(in, k) \in FreeSlots(in)
  <1>1. PICK F : F = FreeSlots(in)
    OBVIOUS
  <1>2. F \subseteq Slots /\ k - 1 \in Nat /\ k - 1 < Cardinality(F)
    BY <1>1, FreeIsFinite
  <1>3. \E i \in F : Cardinality({j \in F : j < i}) = k - 1
    BY <1>2, KthLowest
  <1>4. NetAlloc(in, k) = CHOOSE i \in F : Cardinality({j \in F : j < i}) = k - 1
    BY <1>1 DEF NetAlloc
  <1> QED
    BY <1>1, <1>3, <1>4

\* One more chain in flight, of free descriptors.
LEMMA ApartMore ==
    ASSUME NEW in, Apart(in), NEW c \in Chains, c.head \in Range(c.slots),
           Range(c.slots) \subseteq FreeSlots(in)
    PROVE  Apart(Append(in, c)) /\ Len(in) < QueueSize
  <1>1. PICK m \in Nat : m = Len(in) /\ in \in Seq(Chains)
    BY DEF Apart
  <1>2. PICK in2 \in Seq(Chains) : in2 = Append(in, c)
    <2>1. Append(in, c) \in Seq(Chains)
      BY <1>1, AppendProperties, Zenon
    <2> QED
      BY <2>1, Zenon
  <1>3. Len(in2) = m + 1 /\ in2[m + 1] = c /\ \A k \in 1 .. m : in2[k] = in[k]
    BY <1>1, <1>2
  <1>4. \A k \in 1 .. m : Range(in[k].slots) \cap Range(c.slots) = {}
    BY <1>1 DEF FreeSlots
  <1>5. \A k \in 1 .. m : in[k].head \in Range(in[k].slots)
    BY <1>1 DEF Apart
  <1>6. \A j, k \in 1 .. m : j # k => Range(in[j].slots) \cap Range(in[k].slots) = {}
    BY <1>1 DEF Apart
  <1>7. \A k \in 1 .. m + 1 : k = m + 1 \/ k \in 1 .. m
    OBVIOUS
  <1>8. Apart(in2)
    <2>1. \A k \in 1 .. m + 1 : in2[k].head \in Range(in2[k].slots)
      BY <1>3, <1>5, <1>7
    <2>2. ASSUME NEW j \in 1 .. m + 1, NEW k \in 1 .. m + 1, j # k
          PROVE  Range(in2[j].slots) \cap Range(in2[k].slots) = {}
      <3>1. CASE j \in 1 .. m /\ k \in 1 .. m
        BY <1>3, <1>6, <2>2, <3>1
      <3>2. CASE j = m + 1 /\ k \in 1 .. m
        BY <1>3, <1>4, <3>2
      <3>3. CASE j \in 1 .. m /\ k = m + 1
        BY <1>3, <1>4, <3>3
      <3> QED
        BY <1>7, <2>2, <3>1, <3>2, <3>3
    <2> QED
      BY <1>3, <2>1, <2>2 DEF Apart
  <1>9. Len(in) < QueueSize
    <2>1. c.head \in Slots /\ \A k \in 1 .. m : c.head \notin Range(in[k].slots)
      BY <1>4 DEF Chains
    <2> QED
      BY <1>1, <2>1, RoomInQueue
  <1> QED
    BY <1>2, <1>8, <1>9

\* The driver publishes a chain of n descriptors.
LEMMA AgreedPublish ==
    ASSUME NEW q, NEW r, NEW r2, NEW lastUsed, NEW in, Agreed(q, r, lastUsed, in),
           NEW chain, Len(chain) \in Nat \ {0}, Len(chain) <= Cardinality(FreeSlots(in)),
           r2 = Published(r, in, chain)
    PROVE  /\ Agreed(q, r2, lastUsed, InFlight(in, Len(chain)))
           /\ r2.noint = r.noint /\ r2.usedIdx = r.usedIdx
  <1>1. PICK n \in Nat \ {0} : n = Len(chain)
    OBVIOUS
  <1>2. PICK s : s = [k \in 1 .. n |-> NetAlloc(in, k)]
    OBVIOUS
  <1>3. PICK desc : r2 = [r EXCEPT !.desc = desc,
                                   !.avail[r.availIdx % QueueSize] = s[1],
                                   !.availIdx = (@ + 1) % IdxMod]
    BY <1>1, <1>2 DEF Published
  <1>4. s \in [1 .. n -> FreeSlots(in)]
    <2>1. ASSUME NEW k \in 1 .. n PROVE NetAlloc(in, k) \in FreeSlots(in)
      <3>1. k \in Nat \ {0} /\ k <= Cardinality(FreeSlots(in))
        BY <1>1, FreeIsFinite
      <3> QED
        BY <3>1, NetAllocIsFree
    <2> QED
      BY <1>2, <2>1
  <1>5. /\ s \in Seq(Slots) /\ s[1] \in Slots /\ s[1] \in Range(s)
        /\ Range(s) \subseteq FreeSlots(in)
    <2>1. s \in [1 .. n -> Slots] /\ DOMAIN s = 1 .. n /\ 1 \in 1 .. n
      BY <1>4, FreeIsFinite
    <2>2. s \in Seq(Slots)
      BY <2>1, FunctionIsSeq
    <2> QED
      BY <1>4, <2>1, <2>2 DEF Range
  <1>6. PICK c \in Chains : c = [head |-> s[1], slots |-> s]
    BY <1>5 DEF Chains
  <1>7. InFlight(in, Len(chain)) = Append(in, c)
    <2>1. s[1] = NetAlloc(in, 1)
      BY <1>2
    <2> QED
      BY <1>1, <1>2, <1>6, <2>1 DEF InFlight
  <1>8. c.head = s[1] /\ c.slots = s
    BY <1>6
  <1>9. Apart(in) /\ QueueInv(q, r, lastUsed, in)
    BY DEF Agreed
  <1>10. Apart(Append(in, c)) /\ Len(in) < QueueSize
    BY <1>5, <1>8, <1>9, ApartMore
  <1>11. /\ r2.avail = [r.avail EXCEPT ![r.availIdx % QueueSize] = c.head]
         /\ r2.availIdx = (r.availIdx + 1) % IdxMod
         /\ r2.used = r.used /\ r2.usedIdx = r.usedIdx /\ r2.noint = r.noint
         /\ r2 = [desc |-> r2.desc, noint |-> r2.noint, availIdx |-> r2.availIdx,
                  avail |-> r2.avail, usedIdx |-> r2.usedIdx, used |-> r2.used]
    <2>1. r = [desc |-> r.desc, noint |-> r.noint, availIdx |-> r.availIdx,
               avail |-> r.avail, usedIdx |-> r.usedIdx, used |-> r.used]
      BY DEF Agreed, RingRecord
    <2> QED
      BY <1>3, <1>8, <2>1
  <1>12. r.used = [i \in Slots |-> r.used[i]] /\ r.avail = [i \in Slots |-> r.avail[i]]
    BY DEF Agreed, RingRecord, RingShape
  <1>13. QueueInv(q, r2, lastUsed, Append(in, c))
    BY <1>9, <1>10, <1>11, <1>12, PublishKeeps
  <1>14. RingRecord(r2)
    <2>1. r2.avail = [i \in Slots |-> r2.avail[i]]
      BY <1>11, <1>12
    <2>2. r2.used = [i \in Slots |-> r2.used[i]]
      BY <1>11, <1>12
    <2> QED
      BY <1>11, <2>1, <2>2 DEF Agreed, RingRecord, RingShape
  <1> QED
    BY <1>7, <1>10, <1>11, <1>13, <1>14 DEF Agreed

\* The driver takes its oldest chain back.
LEMMA AgreedTakeBack ==
    ASSUME NEW q, NEW r, NEW r2, NEW lastUsed, NEW in, Agreed(q, r, lastUsed, in),
           lastUsed # r.usedIdx, r2 = Cleared(r, in, lastUsed)
    PROVE  /\ Agreed(q, r2, (lastUsed + 1) % IdxMod, Tail(in))
           /\ r2.noint = r.noint /\ r2.usedIdx = r.usedIdx /\ r2.availIdx = r.availIdx
  <1>1. Apart(in) /\ QueueInv(q, r, lastUsed, in) /\ RingShape(r) /\ in \in Seq(Chains)
    BY DEF Agreed, RingRecord, Apart
  <1>2. Len(in) \in Nat \ {0}
    BY <1>1, OldestFirst
  <1>3. PICK in2 \in Seq(Chains) :
           /\ in2 = Tail(in) /\ Len(in2) = Len(in) - 1
           /\ \A j \in 1 .. Len(in2) : in2[j] = in[j + 1]
    <2>1. in # << >>
      BY <1>2
    <2>2. /\ Tail(in) \in Seq(Chains) /\ Len(Tail(in)) = Len(in) - 1
          /\ \A j \in 1 .. Len(Tail(in)) : Tail(in)[j] = in[j + 1]
      BY <1>1, <2>1, HeadTailProperties
    <2> QED
      BY <2>2
  <1>4. PICK desc : r2 = [r EXCEPT !.desc = desc,
                                   !.avail[lastUsed % QueueSize] = 0,
                                   !.used[lastUsed % QueueSize] = [id |-> 0, len |-> 0]]
    BY DEF Cleared
  <1>5. /\ r2.avail = [r.avail EXCEPT ![lastUsed % QueueSize] = 0]
        /\ r2.used = [r.used EXCEPT ![lastUsed % QueueSize] = [id |-> 0, len |-> 0]]
        /\ r2.usedIdx = r.usedIdx /\ r2.availIdx = r.availIdx /\ r2.noint = r.noint
        /\ r2 = [desc |-> r2.desc, noint |-> r2.noint, availIdx |-> r2.availIdx,
                 avail |-> r2.avail, usedIdx |-> r2.usedIdx, used |-> r2.used]
    <2>1. r = [desc |-> r.desc, noint |-> r.noint, availIdx |-> r.availIdx,
               avail |-> r.avail, usedIdx |-> r.usedIdx, used |-> r.used]
      BY DEF Agreed, RingRecord
    <2> QED
      BY <1>4, <2>1
  <1>6. QueueInv(q, r2, (lastUsed + 1) % IdxMod, in2) /\ Apart(in2)
    <2>1. TakenBack(r, r2, lastUsed, in, in2)
      BY <1>3, <1>5, Zenon DEF TakenBack
    <2> QED
      BY <1>1, <2>1, ReclaimKeeps, Zenon
  <1>7. RingRecord(r2)
    <2>1. r.used = [i \in Slots |-> r.used[i]] /\ r.avail = [i \in Slots |-> r.avail[i]]
      BY <1>1 DEF RingShape
    <2>2. r2.avail = [i \in Slots |-> r2.avail[i]]
      BY <1>5, <2>1
    <2>3. r2.used = [i \in Slots |-> r2.used[i]]
      BY <1>5, <2>1
    <2> QED
      BY <1>5, <2>2, <2>3 DEF Agreed, RingRecord, RingShape
  <1> QED
    BY <1>3, <1>5, <1>6, <1>7 DEF Agreed
-----------------------------------------------------------------------------
(* The network device, its two queues and the one interrupt they share.    *)

DriverRecord(d) ==
    /\ d = [phase |-> d.phase, pc |-> d.pc, rxUsed |-> d.rxUsed, txUsed |-> d.txUsed,
            rxIn |-> d.rxIn, txIn |-> d.txIn, kick |-> d.kick]
    /\ d.phase \in {"reset", "ok"} /\ d.pc \in {"thread", "drain", "recheck"}

RegsRecord(q) ==
    q = [num |-> q.num, ready |-> q.ready, lastAvail |-> q.lastAvail, addr |-> q.addr]

DeviceRecord(v) ==
    /\ v = [status |-> v.status, int |-> v.int, rx |-> v.rx, tx |-> v.tx,
            frames |-> v.frames, dropped |-> v.dropped]
    /\ v.int \in BOOLEAN /\ RegsRecord(v.rx) /\ RegsRecord(v.tx)

PollRecord(o) == o = [at |-> o.at, budget |-> o.budget, len |-> o.len]

NetShape ==
    /\ DriverRecord(ndrv) /\ DeviceRecord(vnet) /\ PollRecord(poll)
    /\ \E S : sent \in Seq(S)

\* Between DRIVER_OK and the reset the two sides agree on both queues, and
\* tx_notify() works towards everything that is published.
NetLive ==
    ndrv.phase = "ok" =>
        /\ QueueOn(vnet.rx) /\ Agreed(vnet.rx, rxr, ndrv.rxUsed, ndrv.rxIn)
        /\ QueueOn(vnet.tx) /\ Agreed(vnet.tx, txr, ndrv.txUsed, ndrv.txIn)
        /\ poll.at = "tx" => poll.len = txr.availIdx

\* Otherwise there is nothing to serve, nothing to poll for and nothing to be
\* told.
NetDormant ==
    ndrv.phase = "reset" =>
        /\ vnet.status = "reset" /\ vnet.tx.ready = FALSE /\ poll.at = "no"
        /\ ndrv.pc = "thread" /\ line = FALSE
        /\ ndrv.rxIn = << >> /\ ndrv.txIn = << >> /\ ndrv.rxUsed = 0 /\ ndrv.txUsed = 0
        /\ rxr = EmptyRing /\ txr = EmptyRing

\* The line is the status bit; a driver that has left the handler, or is about
\* to, has the notifications of both queues on.
NetTold ==
    /\ line = vnet.int
    /\ ndrv.phase = "ok" /\ ndrv.pc # "drain" => rxr.noint = FALSE /\ txr.noint = FALSE
    /\ NetNoLostInterrupt

NetInv == NetShape /\ NetLive /\ NetDormant /\ NetTold

LEMMA NetInitInv == NetInit => NetInv
  <1> SUFFICES ASSUME NetInit PROVE NetInv
    OBVIOUS
  <1>1. << >> \in Seq({})
    OBVIOUS
  <1>2. NetShape
    BY <1>1 DEF NetInit, NetShape, DriverRecord, DeviceRecord, RegsRecord, PollRecord, QueueOff
  <1>3. NetLive /\ NetDormant
    BY DEF NetInit, NetLive, NetDormant, QueueOff
  <1>4. NetTold
    BY DEF NetInit, NetTold, NetNoLostInterrupt
  <1> QED
    BY <1>2, <1>3, <1>4 DEF NetInv

\* Steps of the bridge and of the emulator that leave both queues alone.
LEMMA QuietKeeps ==
    ASSUME NetInv, UNCHANGED <<vnet, line, rxr, txr, ndrv, sent>>,
           PollRecord(poll'), poll'.at = "tx" => poll' = poll,
           ndrv.phase = "reset" => poll'.at = "no"
    PROVE  NetInv'
  <1>1. NetShape' /\ NetLive'
    BY DEF NetInv, NetShape, NetLive
  <1>2. NetDormant'
    BY DEF NetInv, NetDormant
  <1>3. NetTold'
    BY DEF NetInv, NetTold, NetNoLostInterrupt, Drained
  <1> QED
    BY <1>1, <1>2, <1>3 DEF NetInv

LEMMA BridgeKeeps == ASSUME NetInv, BridgeStart \/ BridgeSuspend \/ BridgeRx PROVE NetInv'
  <1>1. UNCHANGED <<vnet, line, rxr, txr, ndrv, sent, poll>>
    BY DEF BridgeStart, BridgeSuspend, BridgeRx, guestVars
  <1> QED
    BY <1>1, QuietKeeps DEF NetInv, NetShape, NetDormant

LEMMA PollsKeep == ASSUME NetInv, TxEnd \/ PollBegin \/ PollPeek PROVE NetInv'
  <1>0. ndrv.phase \in {"reset", "ok"} /\ PollRecord(poll)
        /\ (ndrv.phase = "reset" => vnet.status = "reset" /\ poll.at = "no")
    BY DEF NetInv, NetShape, NetDormant, DriverRecord
  <1>1. UNCHANGED <<vnet, line, rxr, txr, ndrv, sent>>
    BY DEF TxEnd, PollBegin, PollPeek, guestVars
  <1>2. ndrv.phase # "reset"
    BY <1>0 DEF TxEnd, PollBegin, PollPeek
  <1>3. CASE TxEnd
    <2>1. poll' = [poll EXCEPT !.at = "no", !.len = 0]
      BY <1>3 DEF TxEnd
    <2>2. PollRecord(poll') /\ poll'.at = "no"
      BY <1>0, <2>1 DEF PollRecord
    <2> QED
      BY <1>1, <1>2, <2>2, QuietKeeps
  <1>4. CASE PollBegin \/ PollPeek
    <2>1. PICK a, b, n : /\ a \in {"no", "peek", "body"}
                           /\ poll' = [at |-> a, budget |-> b, len |-> n]
      BY <1>4 DEF PollBegin, PollPeek
    <2>2. PollRecord(poll') /\ poll'.at # "tx"
      BY <2>1 DEF PollRecord
    <2> QED
      BY <1>1, <1>2, <2>2, QuietKeeps
  <1> QED
    BY <1>3, <1>4

LEMMA TxNotifyKeeps == ASSUME NetInv, TxNotify PROVE NetInv'
  <1>0. DriverRecord(ndrv) /\ PollRecord(poll)
    BY DEF NetInv, NetShape
  <1>1. /\ ndrv' = [ndrv EXCEPT !.kick = FALSE] /\ poll.at = "no"
        /\ UNCHANGED <<vnet, line, rxr, txr, sent>>
        /\ \/ poll' = poll
           \/ vnet.tx.ready /\ poll' = [poll EXCEPT !.at = "tx", !.len = txr.availIdx]
    BY DEF TxNotify
  <1>2. /\ DriverRecord(ndrv') /\ ndrv'.phase = ndrv.phase /\ ndrv'.pc = ndrv.pc
        /\ ndrv'.rxUsed = ndrv.rxUsed /\ ndrv'.txUsed = ndrv.txUsed
        /\ ndrv'.rxIn = ndrv.rxIn /\ ndrv'.txIn = ndrv.txIn
    BY <1>0, <1>1 DEF DriverRecord
  <1>3. /\ PollRecord(poll') /\ (poll'.at = "tx" => poll'.len = txr.availIdx)
        /\ (vnet.tx.ready = FALSE => poll'.at = "no")
    BY <1>0, <1>1 DEF PollRecord
  <1>4. NetShape' /\ NetLive'
    BY <1>1, <1>2, <1>3 DEF NetInv, NetShape, NetLive
  <1>5. NetDormant'
    BY <1>1, <1>2, <1>3 DEF NetInv, NetDormant
  <1>6. NetTold'
    BY <1>1, <1>2 DEF NetInv, NetTold, NetNoLostInterrupt, Drained
  <1> QED
    BY <1>4, <1>5, <1>6 DEF NetInv

\* What queue_complete() does to the device besides the used ring.
Completed(v, v2, r) ==
    /\ DeviceRecord(v2) /\ v2.rx = v.rx /\ v2.tx = v.tx
    /\ r.noint = FALSE => v2.int = TRUE

LEMMA Raised ==
    ASSUME NEW v, DeviceRecord(v), NEW q, QueueOn(q), NEW r,
           RingRecord(r), NEW v2, v2 = Interrupted(v, q, r)
    PROVE  Completed(v, v2, r)
  <1>0. q.addr = TRUE /\ r.noint \in BOOLEAN
    BY DEF QueueOn, RingRecord
  <1>1. v2 = [v EXCEPT !.int = v.int \/ (q.addr /\ ~r.noint)]
    BY DEF Interrupted, UsedInterrupts
  <1> QED
    BY <1>0, <1>1 DEF DeviceRecord, Completed

LEMMA TxOneKeeps == ASSUME NetInv, TxOne PROVE NetInv'
  <1>1. PICK head :
           /\ head = txr.avail[vnet.tx.lastAvail % vnet.tx.num]
           /\ txr' = RingUsed(vnet.tx, txr, head, 0)
           /\ vnet' = [Interrupted(vnet, vnet.tx, txr) EXCEPT
                          !.tx.lastAvail = (@ + 1) % IdxMod]
           /\ line' = vnet'.int
    BY DEF TxOne
  <1>2. /\ UNCHANGED <<rxr, ndrv, poll, sent>>
        /\ poll.at = "tx" /\ vnet.tx.lastAvail # poll.len
    BY DEF TxOne
  <1>3. ndrv.phase = "ok"
    BY <1>2 DEF NetInv, NetShape, DriverRecord, NetDormant
  <1>4. /\ QueueOn(vnet.rx) /\ Agreed(vnet.rx, rxr, ndrv.rxUsed, ndrv.rxIn)
        /\ QueueOn(vnet.tx) /\ Agreed(vnet.tx, txr, ndrv.txUsed, ndrv.txIn)
        /\ poll.len = txr.availIdx
    BY <1>2, <1>3 DEF NetInv, NetLive
  <1>5. DeviceRecord(vnet)
    BY DEF NetInv, NetShape
  <1>6. PICK v : v = Interrupted(vnet, vnet.tx, txr)
    OBVIOUS
  <1>7. /\ DeviceRecord(v) /\ (txr.noint = FALSE => v.int = TRUE)
         /\ v.rx = vnet.rx /\ v.tx = vnet.tx
    <2>1. RingRecord(txr) /\ QueueOn(vnet.tx)
      BY <1>4 DEF Agreed
    <2>2. Completed(vnet, v, txr)
      BY <1>5, <1>6, <2>1, Raised, Zenon
    <2> QED
      BY <2>2 DEF Completed
  <1>8. /\ DeviceRecord(vnet') /\ vnet'.rx = vnet.rx /\ vnet'.int = v.int
        /\ QueueOn(vnet'.tx)
        /\ vnet'.tx.lastAvail = (vnet.tx.lastAvail + 1) % IdxMod
    BY <1>1, <1>4, <1>6, <1>7 DEF DeviceRecord, RegsRecord, QueueOn
  <1>9. /\ Agreed(vnet'.tx, txr', ndrv.txUsed, ndrv.txIn)
        /\ txr'.noint = txr.noint /\ txr'.availIdx = txr.availIdx
    <2>1. vnet.tx.lastAvail # txr.availIdx
      BY <1>2, <1>4
    <2>2. txr' = RingUsed(vnet.tx, txr, txr.avail[vnet.tx.lastAvail % QueueSize], 0)
      BY <1>1, <1>4 DEF QueueOn
    <2> QED
      BY <1>4, <1>8, <2>1, <2>2, AgreedServe
  <1>10. NetShape'
    BY <1>2, <1>8 DEF NetInv, NetShape
  <1>11. NetLive' /\ NetDormant'
    BY <1>2, <1>3, <1>4, <1>8, <1>9 DEF NetLive, NetDormant
  <1>12. NetTold'
    <2>1. ndrv.pc # "drain" => rxr.noint = FALSE /\ txr.noint = FALSE
      BY <1>3 DEF NetInv, NetTold
    <2>2. ndrv.pc # "drain" => line'
      BY <1>1, <1>8, <1>7, <2>1
    <2> QED
      BY <1>1, <1>2, <1>9, <2>1, <2>2 DEF NetTold, NetNoLostInterrupt
  <1> QED
    BY <1>10, <1>11, <1>12 DEF NetInv

\* One frame taken from the bridge: its chain is completed, or nothing of the
\* queues changes.
LEMMA PollBodyKeeps == ASSUME NetInv, PollBody PROVE NetInv'
  <1>1. UNCHANGED <<txr, ndrv, sent>> /\ poll.at = "body"
    BY DEF PollBody
  <1>2. ndrv.phase = "ok"
    BY <1>1 DEF NetInv, NetShape, DriverRecord, NetDormant
  <1>3. /\ QueueOn(vnet.rx) /\ Agreed(vnet.rx, rxr, ndrv.rxUsed, ndrv.rxIn)
        /\ QueueOn(vnet.tx) /\ Agreed(vnet.tx, txr, ndrv.txUsed, ndrv.txIn)
    BY <1>2 DEF NetInv, NetLive
  <1>4. DeviceRecord(vnet) /\ PollRecord(poll) /\ line = vnet.int
    BY DEF NetInv, NetShape, NetTold
  <1>5. PollRecord(poll') /\ poll'.at # "tx"
    <2>1. \/ poll' = [at |-> "no", budget |-> 0, len |-> 0]
          \/ poll' = [poll EXCEPT !.at = "peek", !.len = 0]
      BY Zenon DEF PollBody
    <2>2. CASE poll' = [at |-> "no", budget |-> 0, len |-> 0]
      BY <2>2 DEF PollRecord
    <2>3. CASE poll' = [poll EXCEPT !.at = "peek", !.len = 0]
      BY <1>4, <2>3 DEF PollRecord
    <2> QED
      BY <2>1, <2>2, <2>3
  <1>6. ASSUME rxr' = rxr, line' = vnet'.int,
               \/ vnet' = vnet \/ vnet' = RxDrop(vnet)
               \/ vnet' = [vnet EXCEPT !.frames = @ + 1]
        PROVE  NetInv'
    <2>1. DeviceRecord(vnet') /\ vnet'.rx = vnet.rx /\ vnet'.tx = vnet.tx /\ vnet'.int = vnet.int
      BY <1>4, <1>6 DEF DeviceRecord, RxDrop
    <2>2. NetShape'
      BY <1>1, <1>5, <2>1 DEF NetInv, NetShape
    <2>3. NetLive' /\ NetDormant'
      BY <1>1, <1>2, <1>3, <1>5, <1>6, <2>1 DEF NetLive, NetDormant
    <2>4. NetTold'
      BY <1>1, <1>6, <2>1 DEF NetInv, NetTold, NetNoLostInterrupt, Drained
    <2> QED
      BY <2>2, <2>3, <2>4 DEF NetInv
  <1>7. ASSUME RxAvailable, line' = vnet'.int, NEW w,
               rxr' = RingUsed(vnet.rx, rxr, RxHead, w),
               NEW v, v = RxDrop(vnet) \/ v = [vnet EXCEPT !.frames = @ + 1],
               vnet' = [Interrupted(v, vnet.rx, rxr) EXCEPT !.rx.lastAvail = (@ + 1) % IdxMod]
        PROVE  NetInv'
    <2>1. DeviceRecord(v) /\ v.rx = vnet.rx /\ v.tx = vnet.tx /\ v.int = vnet.int
      BY <1>4, <1>7 DEF DeviceRecord, RxDrop
    <2>2. PICK v2 : v2 = Interrupted(v, vnet.rx, rxr)
      OBVIOUS
    <2>3. /\ DeviceRecord(v2) /\ (rxr.noint = FALSE => v2.int = TRUE)
          /\ v2.rx = vnet.rx /\ v2.tx = vnet.tx
      <3>1. RingRecord(rxr) /\ QueueOn(vnet.rx)
        BY <1>3 DEF Agreed
      <3>2. Completed(v, v2, rxr)
        BY <2>1, <2>2, <3>1, Raised, Zenon
      <3> QED
        BY <2>1, <3>2 DEF Completed
    <2>4. /\ DeviceRecord(vnet') /\ vnet'.tx = vnet.tx /\ vnet'.int = v2.int
          /\ QueueOn(vnet'.rx)
          /\ vnet'.rx.lastAvail = (vnet.rx.lastAvail + 1) % IdxMod
      BY <1>3, <1>7, <2>2, <2>3 DEF DeviceRecord, RegsRecord, QueueOn
    <2>5. Agreed(vnet'.rx, rxr', ndrv.rxUsed, ndrv.rxIn) /\ rxr'.noint = rxr.noint
      <3>1. /\ vnet.rx.lastAvail # rxr.availIdx
            /\ rxr' = RingUsed(vnet.rx, rxr, rxr.avail[vnet.rx.lastAvail % QueueSize], w)
        BY <1>7 DEF RxAvailable, RxHead
      <3> QED
        BY <1>3, <2>4, <3>1, AgreedServe
    <2>6. NetShape'
      BY <1>1, <1>5, <2>4 DEF NetInv, NetShape
    <2>7. NetLive' /\ NetDormant'
      BY <1>1, <1>2, <1>3, <1>5, <2>4, <2>5 DEF NetLive, NetDormant
    <2>8. NetTold'
      <3>1. ndrv.pc # "drain" => rxr.noint = FALSE /\ txr.noint = FALSE
        BY <1>2 DEF NetInv, NetTold
      <3>2. ndrv.pc # "drain" => line'
        BY <1>7, <2>3, <2>4, <3>1
      <3> QED
        BY <1>1, <1>7, <2>5, <3>1, <3>2 DEF NetTold, NetNoLostInterrupt
    <2> QED
      BY <2>6, <2>7, <2>8 DEF NetInv
  <1>8. CASE poll.len = 0 \/ ~RxAvailable
    <2>1. UNCHANGED <<line, rxr>> /\ (vnet' = vnet \/ vnet' = RxDrop(vnet))
      BY <1>8, Zenon DEF PollBody
    <2>2. vnet'.int = vnet.int
      BY <1>4, <2>1 DEF DeviceRecord, RxDrop
    <2> QED
      BY <1>4, <1>6, <2>1, <2>2
  <1>9. CASE poll.len # 0 /\ RxAvailable
    <2>1. PICK r, v :
             /\ v = RxDrop(vnet) \/ v = [vnet EXCEPT !.frames = @ + 1]
             /\ IF r.take
                THEN /\ vnet' = [Interrupted(v, vnet.rx, rxr) EXCEPT
                                    !.rx.lastAvail = (@ + 1) % IdxMod]
                     /\ rxr' = RingUsed(vnet.rx, rxr, RxHead, r.written)
                ELSE vnet' = v /\ UNCHANGED rxr
             /\ line' = vnet'.int
      BY <1>9 DEF PollBody
    <2>2. CASE r.take
      BY <1>7, <1>9, <2>1, <2>2
    <2>3. CASE ~r.take
      BY <1>6, <2>1, <2>3
    <2> QED
      BY <2>2, <2>3
  <1> QED
    BY <1>8, <1>9

-----------------------------------------------------------------------------
(* The network driver.                                                     *)

LEMMA NetResetKeeps == ASSUME NetInv, NetDrvReset PROVE NetInv'
  <1>0. DriverRecord(ndrv) /\ DeviceRecord(vnet)
    BY DEF NetInv, NetShape
  <1>1. /\ poll.at = "no" /\ ndrv.pc = "thread" /\ UNCHANGED <<poll, sent>>
        /\ line' = FALSE /\ rxr' = EmptyRing /\ txr' = EmptyRing
        /\ ndrv' = [ndrv EXCEPT !.phase = "reset", !.rxUsed = 0, !.txUsed = 0,
                                !.rxIn = << >>, !.txIn = << >>]
        /\ vnet' = [vnet EXCEPT !.status = "reset", !.int = FALSE,
                                !.rx = QueueOff(FALSE), !.tx = QueueOff(FALSE)]
    BY DEF NetDrvReset, WriteStatus
  <1>2. /\ DriverRecord(ndrv') /\ ndrv'.phase = "reset" /\ ndrv'.pc = "thread"
        /\ ndrv'.rxIn = << >> /\ ndrv'.txIn = << >> /\ ndrv'.rxUsed = 0 /\ ndrv'.txUsed = 0
    BY <1>0, <1>1 DEF DriverRecord
  <1>3. /\ DeviceRecord(vnet') /\ vnet'.status = "reset" /\ vnet'.int = FALSE
        /\ vnet'.tx.ready = FALSE
    BY <1>0, <1>1 DEF DeviceRecord, RegsRecord, QueueOff
  <1>4. NetShape'
    BY <1>1, <1>2, <1>3 DEF NetInv, NetShape
  <1>5. NetLive' /\ NetDormant'
    BY <1>1, <1>2, <1>3 DEF NetLive, NetDormant
  <1>6. NetTold'
    BY <1>1, <1>2, <1>3 DEF NetTold, NetNoLostInterrupt
  <1> QED
    BY <1>4, <1>5, <1>6 DEF NetInv

LEMMA NetSetupKeeps == ASSUME NetInv, NetDrvSetup PROVE NetInv'
  <1>0. DriverRecord(ndrv) /\ DeviceRecord(vnet) /\ line = vnet.int
    BY DEF NetInv, NetShape, NetTold
  <1>1. /\ poll.at = "no" /\ ndrv.phase = "reset" /\ UNCHANGED <<line, rxr, txr, poll, sent>>
        /\ ndrv' = [ndrv EXCEPT !.phase = "ok"]
        /\ vnet' = WriteStatus([vnet EXCEPT !.rx = WriteQueue, !.tx = WriteQueue], "ok")
    BY DEF NetDrvSetup
  <1>2. /\ ndrv.pc = "thread" /\ ndrv.rxIn = << >> /\ ndrv.txIn = << >>
        /\ ndrv.rxUsed = 0 /\ ndrv.txUsed = 0 /\ rxr = EmptyRing /\ txr = EmptyRing
    BY <1>1 DEF NetInv, NetDormant
  <1>3. /\ DriverRecord(ndrv') /\ ndrv'.phase = "ok" /\ ndrv'.pc = "thread"
        /\ ndrv'.rxIn = << >> /\ ndrv'.txIn = << >> /\ ndrv'.rxUsed = 0 /\ ndrv'.txUsed = 0
    BY <1>0, <1>1, <1>2 DEF DriverRecord
  <1>4. /\ DeviceRecord(vnet') /\ vnet'.int = vnet.int
        /\ QueueOn(vnet'.rx) /\ vnet'.rx.lastAvail = 0
        /\ QueueOn(vnet'.tx) /\ vnet'.tx.lastAvail = 0
    BY <1>0, <1>1 DEF DeviceRecord, RegsRecord, WriteQueue, WriteStatus, QueueOn
  <1>5. Agreed(vnet'.rx, EmptyRing, 0, << >>) /\ Agreed(vnet'.tx, EmptyRing, 0, << >>)
    BY <1>4, AgreedAtFirst
  <1>6. NetShape'
    BY <1>1, <1>3, <1>4 DEF NetInv, NetShape
  <1>7. NetLive' /\ NetDormant'
    BY <1>1, <1>2, <1>3, <1>4, <1>5 DEF NetLive, NetDormant
  <1>8. NetTold'
    BY <1>0, <1>1, <1>2, <1>3, <1>4, EmptyRingShape DEF NetTold, NetNoLostInterrupt, Drained
  <1> QED
    BY <1>6, <1>7, <1>8 DEF NetInv

\* What the steps of a driver that is up start from.
LEMMA DriverUp ==
    ASSUME NetInv, ndrv.phase = "ok" \/ ndrv.pc # "thread" \/ line
    PROVE  /\ DriverRecord(ndrv) /\ ndrv.phase = "ok" /\ line = vnet.int
           /\ QueueOn(vnet.rx) /\ Agreed(vnet.rx, rxr, ndrv.rxUsed, ndrv.rxIn)
           /\ QueueOn(vnet.tx) /\ Agreed(vnet.tx, txr, ndrv.txUsed, ndrv.txIn)
           /\ ndrv.pc # "drain" => rxr.noint = FALSE /\ txr.noint = FALSE
  <1>1. DriverRecord(ndrv) /\ line = vnet.int
    BY DEF NetInv, NetShape, NetTold
  <1>2. ndrv.phase = "ok"
    BY <1>1 DEF DriverRecord, NetInv, NetDormant
  <1> QED
    BY <1>1, <1>2 DEF NetInv, NetLive, NetTold

\* The driver turns the notifications of both queues on or off.
LEMMA FlagsKeep ==
    ASSUME NetInv, poll.at = "no", UNCHANGED <<poll, sent>>, NEW b \in BOOLEAN,
           rxr' = [rxr EXCEPT !.noint = b], txr' = [txr EXCEPT !.noint = b],
           NEW pc \in {"drain", "recheck"}, ndrv.phase = "ok",
           ndrv' = [ndrv EXCEPT !.pc = pc], pc # "drain" => b = FALSE,
           DeviceRecord(vnet'), vnet'.rx = vnet.rx, vnet'.tx = vnet.tx, line' = vnet'.int
    PROVE  NetInv'
  <1>0. /\ DriverRecord(ndrv)
        /\ QueueOn(vnet.rx) /\ Agreed(vnet.rx, rxr, ndrv.rxUsed, ndrv.rxIn)
        /\ QueueOn(vnet.tx) /\ Agreed(vnet.tx, txr, ndrv.txUsed, ndrv.txIn)
    BY DriverUp
  <1>1. /\ DriverRecord(ndrv') /\ ndrv'.phase = "ok" /\ ndrv'.pc = pc
        /\ ndrv'.rxIn = ndrv.rxIn /\ ndrv'.txIn = ndrv.txIn
        /\ ndrv'.rxUsed = ndrv.rxUsed /\ ndrv'.txUsed = ndrv.txUsed
    BY <1>0 DEF DriverRecord
  <1>2. Agreed(vnet.rx, rxr', ndrv.rxUsed, ndrv.rxIn) /\ rxr'.noint = b
    BY <1>0, AgreedFlag
  <1>3. Agreed(vnet.tx, txr', ndrv.txUsed, ndrv.txIn) /\ txr'.noint = b
    BY <1>0, AgreedFlag
  <1>4. NetShape'
    BY <1>1 DEF NetInv, NetShape
  <1>5. NetLive' /\ NetDormant'
    BY <1>0, <1>1, <1>2, <1>3 DEF NetLive, NetDormant
  <1>6. NetTold'
    BY <1>1, <1>2, <1>3 DEF NetTold, NetNoLostInterrupt
  <1> QED
    BY <1>4, <1>5, <1>6 DEF NetInv

LEMMA NetInterruptKeeps == ASSUME NetInv, NetDrvInterrupt PROVE NetInv'
  <1>1. /\ poll.at = "no" /\ UNCHANGED <<poll, sent>> /\ line
        /\ vnet' = [vnet EXCEPT !.int = FALSE] /\ line' = FALSE
        /\ rxr' = [rxr EXCEPT !.noint = TRUE] /\ txr' = [txr EXCEPT !.noint = TRUE]
        /\ ndrv' = [ndrv EXCEPT !.pc = "drain"]
    BY DEF NetDrvInterrupt
  <1>2. ndrv.phase = "ok"
    BY <1>1, DriverUp
  <1>3. /\ DeviceRecord(vnet') /\ vnet'.rx = vnet.rx /\ vnet'.tx = vnet.tx
        /\ line' = vnet'.int
    BY <1>1 DEF NetInv, NetShape, DeviceRecord
  <1> QED
    BY <1>1, <1>2, <1>3, FlagsKeep

LEMMA NetEnableKeeps == ASSUME NetInv, NetDrvEnable PROVE NetInv'
  <1>1. /\ poll.at = "no" /\ UNCHANGED <<poll, sent, vnet, line>> /\ ndrv.pc = "drain"
        /\ rxr' = [rxr EXCEPT !.noint = FALSE] /\ txr' = [txr EXCEPT !.noint = FALSE]
        /\ ndrv' = [ndrv EXCEPT !.pc = "recheck"]
    BY DEF NetDrvEnable
  <1>2. ndrv.phase = "ok" /\ line' = vnet'.int
    BY <1>1, DriverUp
  <1>3. DeviceRecord(vnet') /\ vnet'.rx = vnet.rx /\ vnet'.tx = vnet.tx
    BY <1>1 DEF NetInv, NetShape
  <1> QED
    BY <1>1, <1>2, <1>3, FlagsKeep

LEMMA NetRecheckKeeps == ASSUME NetInv, NetDrvRecheck PROVE NetInv'
  <1>0. poll.at = "no" /\ UNCHANGED <<poll, sent, vnet, line>> /\ ndrv.pc = "recheck"
    BY DEF NetDrvRecheck
  <1>1. /\ DriverRecord(ndrv) /\ ndrv.phase = "ok" /\ line = vnet.int
        /\ rxr.noint = FALSE /\ txr.noint = FALSE
    BY <1>0, DriverUp
  <1>2. CASE ~Drained
    <2>1. /\ rxr' = [rxr EXCEPT !.noint = TRUE] /\ txr' = [txr EXCEPT !.noint = TRUE]
          /\ ndrv' = [ndrv EXCEPT !.pc = "drain"]
      BY <1>2 DEF NetDrvRecheck
    <2>2. DeviceRecord(vnet') /\ vnet'.rx = vnet.rx /\ vnet'.tx = vnet.tx /\ line' = vnet'.int
      BY <1>0, <1>1 DEF NetInv, NetShape
    <2> QED
      BY <1>0, <1>1, <2>1, <2>2, FlagsKeep
  <1>3. CASE Drained
    <2>1. ndrv' = [ndrv EXCEPT !.pc = "thread"] /\ UNCHANGED <<rxr, txr>>
      BY <1>3 DEF NetDrvRecheck
    <2>2. /\ DriverRecord(ndrv') /\ ndrv'.phase = "ok" /\ ndrv'.pc = "thread"
          /\ ndrv'.rxIn = ndrv.rxIn /\ ndrv'.txIn = ndrv.txIn
          /\ ndrv'.rxUsed = ndrv.rxUsed /\ ndrv'.txUsed = ndrv.txUsed
      BY <1>1, <2>1 DEF DriverRecord
    <2>3. NetShape'
      BY <1>0, <2>2 DEF NetInv, NetShape
    <2>4. NetLive' /\ NetDormant'
      BY <1>0, <1>1, <2>1, <2>2 DEF NetInv, NetLive, NetDormant
    <2>5. NetTold'
      BY <1>0, <1>1, <1>3, <2>1, <2>2 DEF NetTold, NetNoLostInterrupt, Drained
    <2> QED
      BY <2>3, <2>4, <2>5 DEF NetInv
  <1> QED
    BY <1>2, <1>3

\* One of the queues is changed by the driver, and no completion appears.
LEMMA RefillKeeps == ASSUME NetInv, NEW d, NetDrvRefill(d) PROVE NetInv'
  <1>1. /\ poll.at = "no" /\ ndrv.phase = "ok" /\ FreeSlots(ndrv.rxIn) # {}
        /\ rxr' = Published(rxr, ndrv.rxIn, <<d>>)
        /\ ndrv' = [ndrv EXCEPT !.rxIn = InFlight(@, 1)]
        /\ UNCHANGED <<vnet, line, txr, poll, sent>>
    BY DEF NetDrvRefill
  <1>2. /\ DriverRecord(ndrv) /\ line = vnet.int
        /\ QueueOn(vnet.rx) /\ Agreed(vnet.rx, rxr, ndrv.rxUsed, ndrv.rxIn)
        /\ QueueOn(vnet.tx) /\ Agreed(vnet.tx, txr, ndrv.txUsed, ndrv.txIn)
        /\ ndrv.pc # "drain" => rxr.noint = FALSE /\ txr.noint = FALSE
    BY <1>1, DriverUp
  <1>3. PICK chain : chain = <<d>>
    OBVIOUS
  <1>4. 1 <= Cardinality(FreeSlots(ndrv.rxIn))
    <2>1. PICK F : F = FreeSlots(ndrv.rxIn)
      OBVIOUS
    <2>2. IsFiniteSet(Slots) /\ F \subseteq Slots
      <3>1. IsFiniteSet(Slots)
        BY FS_Interval, QueueAssumption DEF Slots
      <3> QED
        BY <2>1, <3>1, FreeIsFinite
    <2>3. IsFiniteSet(F) /\ Cardinality(F) \in Nat
      BY <2>2, FS_Subset, FS_CardinalityType
    <2>4. Cardinality(F) # 0
      BY <1>1, <2>1, <2>3, FS_EmptySet
    <2> QED
      BY <2>1, <2>3, <2>4
  <1>5. /\ Agreed(vnet.rx, rxr', ndrv.rxUsed, InFlight(ndrv.rxIn, 1))
        /\ rxr'.noint = rxr.noint /\ rxr'.usedIdx = rxr.usedIdx
    <2>1. Len(chain) = 1 /\ 1 \in Nat \ {0}
      BY <1>3
    <2>2. PICK n : n = Len(chain)
      OBVIOUS
    <2>3. /\ Len(chain) \in Nat \ {0} /\ Len(chain) <= Cardinality(FreeSlots(ndrv.rxIn))
          /\ rxr' = Published(rxr, ndrv.rxIn, chain)
      BY <1>1, <1>3, <1>4, <2>1
    <2>4. Agreed(vnet.rx, rxr', ndrv.rxUsed, InFlight(ndrv.rxIn, n))
          /\ rxr'.noint = rxr.noint /\ rxr'.usedIdx = rxr.usedIdx
      BY <1>2, <2>2, <2>3, AgreedPublish
    <2> QED
      BY <2>1, <2>2, <2>4
  <1>6. /\ DriverRecord(ndrv') /\ ndrv'.phase = "ok" /\ ndrv'.pc = ndrv.pc
        /\ ndrv'.rxIn = InFlight(ndrv.rxIn, 1) /\ ndrv'.txIn = ndrv.txIn
        /\ ndrv'.rxUsed = ndrv.rxUsed /\ ndrv'.txUsed = ndrv.txUsed
    BY <1>1, <1>2 DEF DriverRecord
  <1>7. NetShape'
    BY <1>1, <1>6 DEF NetInv, NetShape
  <1>8. NetLive' /\ NetDormant'
    BY <1>1, <1>2, <1>5, <1>6 DEF NetLive, NetDormant
  <1>9. NetTold'
    BY <1>1, <1>2, <1>5, <1>6 DEF NetInv, NetTold, NetNoLostInterrupt, Drained
  <1> QED
    BY <1>7, <1>8, <1>9 DEF NetInv

LEMMA StillSequence ==
    ASSUME NEW S, NEW s \in Seq(S), NEW e
    PROVE  Append(s, e) \in Seq(S \cup {e})
  <1>1. s \in Seq(S \cup {e}) /\ e \in S \cup {e}
    OBVIOUS
  <1> QED
    BY <1>1, AppendProperties, Zenon

LEMMA SendKeeps == ASSUME NetInv, NetDrvSend PROVE NetInv'
  <1>0. PICK chain : chain = TxChains[Len(sent) + 1]
    OBVIOUS
  <1>1. /\ poll.at = "no" /\ ndrv.phase = "ok" /\ Len(sent) < Len(TxChains)
        /\ Len(chain) <= Cardinality(FreeSlots(ndrv.txIn))
        /\ txr' = Published(txr, ndrv.txIn, chain)
        /\ ndrv' = [ndrv EXCEPT !.txIn = InFlight(@, Len(chain)), !.kick = TRUE]
        /\ UNCHANGED <<vnet, line, rxr, poll>>
    BY <1>0 DEF NetDrvSend
  <1>2. /\ DriverRecord(ndrv) /\ line = vnet.int
        /\ QueueOn(vnet.rx) /\ Agreed(vnet.rx, rxr, ndrv.rxUsed, ndrv.rxIn)
        /\ QueueOn(vnet.tx) /\ Agreed(vnet.tx, txr, ndrv.txUsed, ndrv.txIn)
        /\ ndrv.pc # "drain" => rxr.noint = FALSE /\ txr.noint = FALSE
    BY <1>1, DriverUp
  <1>3. PICK S : sent \in Seq(S)
    BY DEF NetInv, NetShape
  <1>4. \E T : sent' \in Seq(T)
    <2>1. PICK e : sent' = Append(sent, e)
      BY DEF NetDrvSend
    <2> QED
      BY <1>3, <2>1, StillSequence
  <1>5. Len(chain) \in Nat \ {0}
    <2>1. Len(sent) \in Nat
      BY <1>3, LenProperties
    <2>2. Len(sent) + 1 \in 1 .. Len(TxChains)
      BY <1>1, <2>1, NetAssumption
    <2> QED
      BY <1>0, <2>2, NetAssumption
  <1>6. PICK n : n = Len(chain)
    OBVIOUS
  <1>7. /\ Agreed(vnet.tx, txr', ndrv.txUsed, InFlight(ndrv.txIn, n))
        /\ txr'.noint = txr.noint /\ txr'.usedIdx = txr.usedIdx
    BY <1>1, <1>2, <1>5, <1>6, AgreedPublish
  <1>8. /\ DriverRecord(ndrv') /\ ndrv'.phase = "ok" /\ ndrv'.pc = ndrv.pc
        /\ ndrv'.txIn = InFlight(ndrv.txIn, n) /\ ndrv'.rxIn = ndrv.rxIn
        /\ ndrv'.rxUsed = ndrv.rxUsed /\ ndrv'.txUsed = ndrv.txUsed
    BY <1>1, <1>2, <1>6 DEF DriverRecord
  <1>9. NetShape'
    BY <1>1, <1>4, <1>8 DEF NetInv, NetShape
  <1>10. NetLive' /\ NetDormant'
    BY <1>1, <1>2, <1>7, <1>8 DEF NetLive, NetDormant
  <1>11. NetTold'
    BY <1>1, <1>2, <1>7, <1>8 DEF NetInv, NetTold, NetNoLostInterrupt, Drained
  <1> QED
    BY <1>9, <1>10, <1>11 DEF NetInv

LEMMA ReceiveKeeps == ASSUME NetInv, NetDrvReceive PROVE NetInv'
  <1>1. /\ poll.at = "no" /\ ndrv.pc = "drain" /\ ndrv.rxUsed # rxr.usedIdx
        /\ rxr' = Cleared(rxr, ndrv.rxIn, ndrv.rxUsed)
        /\ ndrv' = [ndrv EXCEPT !.rxUsed = (@ + 1) % IdxMod, !.rxIn = Tail(@)]
        /\ UNCHANGED <<vnet, line, txr, poll, sent>>
    BY DEF NetDrvReceive
  <1>2. /\ DriverRecord(ndrv) /\ line = vnet.int /\ ndrv.phase = "ok"
        /\ QueueOn(vnet.rx) /\ Agreed(vnet.rx, rxr, ndrv.rxUsed, ndrv.rxIn)
        /\ QueueOn(vnet.tx) /\ Agreed(vnet.tx, txr, ndrv.txUsed, ndrv.txIn)
    BY <1>1, DriverUp
  <1>3. Agreed(vnet.rx, rxr', (ndrv.rxUsed + 1) % IdxMod, Tail(ndrv.rxIn))
    BY <1>1, <1>2, AgreedTakeBack
  <1>4. /\ DriverRecord(ndrv') /\ ndrv'.phase = "ok" /\ ndrv'.pc = "drain"
        /\ ndrv'.rxIn = Tail(ndrv.rxIn) /\ ndrv'.txIn = ndrv.txIn
        /\ ndrv'.rxUsed = (ndrv.rxUsed + 1) % IdxMod /\ ndrv'.txUsed = ndrv.txUsed
    BY <1>1, <1>2 DEF DriverRecord
  <1>5. NetShape'
    BY <1>1, <1>4 DEF NetInv, NetShape
  <1>6. NetLive' /\ NetDormant'
    BY <1>1, <1>2, <1>3, <1>4 DEF NetLive, NetDormant
  <1>7. NetTold'
    BY <1>1, <1>2, <1>4 DEF NetTold, NetNoLostInterrupt
  <1> QED
    BY <1>5, <1>6, <1>7 DEF NetInv

LEMMA TxDoneKeeps == ASSUME NetInv, NetDrvTxDone PROVE NetInv'
  <1>1. /\ poll.at = "no" /\ ndrv.pc = "drain" /\ ndrv.txUsed # txr.usedIdx
        /\ txr' = Cleared(txr, ndrv.txIn, ndrv.txUsed)
        /\ ndrv' = [ndrv EXCEPT !.txUsed = (@ + 1) % IdxMod, !.txIn = Tail(@)]
        /\ UNCHANGED <<vnet, line, rxr, poll, sent>>
    BY DEF NetDrvTxDone
  <1>2. /\ DriverRecord(ndrv) /\ line = vnet.int /\ ndrv.phase = "ok"
        /\ QueueOn(vnet.rx) /\ Agreed(vnet.rx, rxr, ndrv.rxUsed, ndrv.rxIn)
        /\ QueueOn(vnet.tx) /\ Agreed(vnet.tx, txr, ndrv.txUsed, ndrv.txIn)
    BY <1>1, DriverUp
  <1>3. Agreed(vnet.tx, txr', (ndrv.txUsed + 1) % IdxMod, Tail(ndrv.txIn))
    BY <1>1, <1>2, AgreedTakeBack
  <1>4. /\ DriverRecord(ndrv') /\ ndrv'.phase = "ok" /\ ndrv'.pc = "drain"
        /\ ndrv'.txIn = Tail(ndrv.txIn) /\ ndrv'.rxIn = ndrv.rxIn
        /\ ndrv'.txUsed = (ndrv.txUsed + 1) % IdxMod /\ ndrv'.rxUsed = ndrv.rxUsed
    BY <1>1, <1>2 DEF DriverRecord
  <1>5. NetShape'
    BY <1>1, <1>4 DEF NetInv, NetShape
  <1>6. NetLive' /\ NetDormant'
    BY <1>1, <1>2, <1>3, <1>4 DEF NetLive, NetDormant
  <1>7. NetTold'
    BY <1>1, <1>2, <1>4 DEF NetTold, NetNoLostInterrupt
  <1> QED
    BY <1>5, <1>6, <1>7 DEF NetInv

LEMMA NetNextKeeps == NetInv /\ [NetNext]_netVars => NetInv'
  <1>1. ASSUME NetInv, UNCHANGED netVars PROVE NetInv'
    <2>1. UNCHANGED <<vnet, line, rxr, txr, ndrv, sent, poll>>
      BY <1>1 DEF netVars
    <2> QED
      BY <1>1, <2>1, QuietKeeps DEF NetInv, NetShape, NetDormant
  <1> QED
    BY <1>1, BridgeKeeps, PollsKeep, TxNotifyKeeps, TxOneKeeps, PollBodyKeeps,
       NetResetKeeps, NetSetupKeeps, RefillKeeps, SendKeeps, NetInterruptKeeps,
       ReceiveKeeps, TxDoneKeeps, NetEnableKeeps, NetRecheckKeeps DEF NetNext

\* The inductive invariant of the network device, its driver and the bridge.
THEOREM NetInvariant == NetSpec => []NetInv
  BY NetInitInv, NetNextKeeps, PTL DEF NetSpec

\* Both queues of the network device at once, with the polls of
\* rv_virtio_net_poll() and the stores to QUEUE_NOTIFY between any two steps of
\* the driver: no chain is lost, repeated or reordered, and the one interrupt
\* status bit that both share never strands a completion of either.
THEOREM NetworkQueuesAreSound == NetSpec => []NetQueuesSound
  <1>1. NetInv => QueuesHoldInflight
    <2> SUFFICES ASSUME NetInv, ndrv.phase = "ok"
                 PROVE  /\ UsedIds(rxr, ndrv.rxUsed) \o AvailWindow(vnet.rx, rxr)
                             = Heads(ndrv.rxIn)
                        /\ UsedIds(txr, ndrv.txUsed) \o AvailWindow(vnet.tx, txr)
                             = Heads(ndrv.txIn)
      BY Zenon DEF QueuesHoldInflight, Heads
    <2>1. /\ Apart(ndrv.rxIn) /\ QueueInv(vnet.rx, rxr, ndrv.rxUsed, ndrv.rxIn)
          /\ Apart(ndrv.txIn) /\ QueueInv(vnet.tx, txr, ndrv.txUsed, ndrv.txIn)
      BY DEF NetInv, NetLive, Agreed
    <2> QED
      BY <2>1, WindowsAreInflight, Zenon
  <1>2. NetInv => NetNoLostInterrupt
    BY DEF NetInv, NetTold
  <1> QED
    BY <1>1, <1>2, NetInvariant, PTL DEF NetQueuesSound

-----------------------------------------------------------------------------
(* The bridge's ring: length prefixes and payloads stay in step.           *)

RingCell == [frame : Nat, cell : Nat]

\* A frame that nb_rx_thread() may put into the ring.
Kept(n) == n \in Frames /\ n \in ForGuest /\ FrameLen[n] \in FrameMin .. FrameMax

\* The j-th cell belongs to a frame that is in the ring as a whole, but for the
\* cells in front that are out already, o of them.
CellOK(g, j, o) ==
    LET size == FrameLen[g[j].frame] + 2
    IN /\ Kept(g[j].frame)
       /\ g[j].cell \in 1 .. size
       /\ j + o >= g[j].cell
       /\ j - g[j].cell + size <= Len(g)
       /\ \A i \in 1 .. Len(g) :
             g[j].cell + i - j \in 1 .. size
                 => g[i] = [frame |-> g[j].frame, cell |-> g[j].cell + i - j]

\* Two cells are of one frame, as far apart as in it, or of two frames in the
\* order of their arrival.
InOrder(g, i, j) ==
    \/ g[i].frame < g[j].frame
    \/ g[i].frame = g[j].frame /\ g[j].cell - g[i].cell = j - i

InStep(g, o) ==
    /\ g \in Seq(RingCell)
    /\ \A j \in 1 .. Len(g) : CellOK(g, j, o)
    /\ \A i, j \in 1 .. Len(g) : i < j => InOrder(g, i, j)

\* The length is out, the payload is next.
AtPayload(g, len) ==
    Len(g) >= 1 /\ g[1].cell = 3 /\ len = FrameLen[g[1].frame]

Starts(g) == {k \in DOMAIN g : g[k].cell = 1}

LEMMA KeptLength ==
    ASSUME NEW n, Kept(n)
    PROVE  n \in Nat /\ n \in ForGuest /\ FrameLen[n] \in Nat \ {0} /\ FrameLen[n] <= FrameMax
  BY NetAssumption DEF Kept, Frames

\* h is what is left of g when its first n elements are gone.
Dropped(g, n, h) == h = SubSeq(g, n + 1, Len(g))
Left(g, n, h) == Len(h) = Len(g) - n /\ \A j \in 1 .. Len(h) : h[j] = g[j + n]

LEMMA RestOf ==
    ASSUME NEW S, NEW g \in Seq(S), NEW n \in Nat, n <= Len(g), NEW h, Dropped(g, n, h)
    PROVE  h \in Seq(S) /\ Left(g, n, h)
  <1>1. PICK m \in Nat : m = Len(g)
    OBVIOUS
  <1>2. n + 1 \in Int /\ m \in Int /\ \A i \in n + 1 .. m : g[i] \in S
    BY <1>1
  <1>3. h = SubSeq(g, n + 1, m)
    BY <1>1 DEF Dropped
  <1>4. h \in Seq(S)
    BY <1>1, <1>2, <1>3, SubSeqProperties
  <1>5. Len(h) = m - n /\ \A j \in 1 .. m - n : h[j] = g[j + n]
    BY <1>1, <1>3
  <1> QED
    BY <1>1, <1>4, <1>5 DEF Left

\* ring_buf_get() of n cells.
LEMMA InStepGet ==
    ASSUME NEW g, NEW o \in Nat, InStep(g, o), NEW n \in Nat, n <= Len(g),
           NEW h, Dropped(g, n, h)
    PROVE  InStep(h, o + n) /\ Left(g, n, h)
  <1>1. PICK m \in Nat : m = Len(g) /\ g \in Seq(RingCell)
    BY DEF InStep
  <1>2. /\ h \in Seq(RingCell) /\ Len(h) = m - n
        /\ \A j \in 1 .. m - n : h[j] = g[j + n]
    <2>1. h \in Seq(RingCell) /\ Left(g, n, h)
      BY <1>1, RestOf
    <2> QED
      BY <1>1, <2>1 DEF Left
  <1>3. ASSUME NEW j \in 1 .. m - n PROVE CellOK(h, j, o + n)
    <2>1. j + n \in 1 .. m
      BY <1>1
    <2>2. PICK f, c, size : /\ f = g[j + n].frame /\ c = g[j + n].cell
                            /\ size = FrameLen[f] + 2
      OBVIOUS
    <2>3. CellOK(g, j + n, o)
      BY <1>1, <2>1 DEF InStep
    <2>4. /\ Kept(f) /\ c \in 1 .. size /\ (j + n) + o >= c /\ (j + n) - c + size <= m
          /\ \A i \in 1 .. m : c + i - (j + n) \in 1 .. size
                 => g[i] = [frame |-> f, cell |-> c + i - (j + n)]
      BY <1>1, <2>2, <2>3 DEF CellOK
    <2>5. size \in Nat /\ c \in Nat
      <3>1. FrameLen[f] \in Nat
        BY <2>4, KeptLength
      <3>2. size = FrameLen[f] + 2 /\ c \in 1 .. size
        BY <2>2, <2>4
      <3> QED
        BY <3>1, <3>2
    <2>6. h[j].frame = f /\ h[j].cell = c
      BY <1>2, <2>2
    <2>7. ASSUME NEW i \in 1 .. m - n, c + i - j \in 1 .. size
          PROVE  h[i] = [frame |-> f, cell |-> c + i - j]
      <3>1. i + n \in 1 .. m /\ c + (i + n) - (j + n) = c + i - j
        BY <1>1, <2>5
      <3>2. g[i + n] = [frame |-> f, cell |-> c + (i + n) - (j + n)]
        BY <2>4, <2>7, <3>1
      <3> QED
        BY <1>2, <3>1, <3>2
    <2>8. j + (o + n) >= c /\ j - c + size <= m - n
      <3>1. j \in Nat /\ n \in Nat
        BY <1>1
      <3>2. (j + n) + o >= c /\ (j + n) - c + size <= m
        BY <2>4
      <3> QED
        BY <1>1, <2>5, <3>1, <3>2
    <2> QED
      BY <1>2, <2>2, <2>4, <2>6, <2>7, <2>8 DEF CellOK
  <1>4. ASSUME NEW i \in 1 .. m - n, NEW j \in 1 .. m - n, i < j PROVE InOrder(h, i, j)
    <2>1. i + n \in 1 .. m /\ j + n \in 1 .. m /\ i + n < j + n
          /\ (j + n) - (i + n) = j - i
      BY <1>1, <1>4
    <2>2. InOrder(g, i + n, j + n)
      BY <1>1, <2>1 DEF InStep
    <2> QED
      BY <1>2, <2>1, <2>2 DEF InOrder
  <1> QED
    BY <1>1, <1>2, <1>3, <1>4 DEF InStep, Left

\* The ring begins with the two cells of a length, and the frame is all there.
LEMMA InStepFirst ==
    ASSUME NEW g, InStep(g, 0), Len(g) >= 1
    PROVE  /\ g[1].cell = 1 /\ Kept(g[1].frame) /\ Len(g) >= FrameLen[g[1].frame] + 2
           /\ g[2] = [frame |-> g[1].frame, cell |-> 2]
           /\ g[3] = [frame |-> g[1].frame, cell |-> 3]
  <1>1. PICK m \in Nat : m = Len(g) /\ m >= 1
    BY DEF InStep
  <1>2. CellOK(g, 1, 0)
    BY <1>1 DEF InStep
  <1>3. PICK f, c, size : f = g[1].frame /\ c = g[1].cell /\ size = FrameLen[f] + 2
    OBVIOUS
  <1>4. /\ Kept(f) /\ c \in 1 .. size /\ 1 + 0 >= c /\ 1 - c + size <= m
        /\ \A i \in 1 .. m : c + i - 1 \in 1 .. size
               => g[i] = [frame |-> f, cell |-> c + i - 1]
    BY <1>1, <1>2, <1>3 DEF CellOK
  <1>5. size \in Nat /\ size >= 3
    BY <1>3, <1>4, KeptLength
  <1>6. c = 1 /\ m >= size
    BY <1>1, <1>4, <1>5
  <1>7. g[2] = [frame |-> f, cell |-> 1 + 2 - 1] /\ g[3] = [frame |-> f, cell |-> 1 + 3 - 1]
    BY <1>4, <1>5, <1>6
  <1> QED
    BY <1>1, <1>3, <1>4, <1>6, <1>7

\* The second ring_buf_get(): it takes the payload and nothing else.
LEMMA InStepPayload ==
    ASSUME NEW g, InStep(g, 2), NEW len, AtPayload(g, len),
           NEW h, Dropped(g, len, h)
    PROVE  /\ len \in Nat \ {0} /\ len <= Len(g) /\ Kept(g[1].frame)
           /\ \A k \in 1 .. len : g[k] = [frame |-> g[1].frame, cell |-> k + 2]
           /\ InStep(h, 0) /\ Left(g, len, h)
           /\ \A j \in 1 .. Len(h) : g[1].frame < h[j].frame
  <1>1. PICK m \in Nat : m = Len(g) /\ m >= 1 /\ g \in Seq(RingCell)
    BY DEF InStep, AtPayload
  <1>2. PICK f : f = g[1].frame
    OBVIOUS
  <1>3. CellOK(g, 1, 2) /\ g[1].cell = 3 /\ len = FrameLen[f]
    BY <1>1, <1>2 DEF InStep, AtPayload
  <1>4. /\ Kept(f) /\ 3 \in 1 .. len + 2 /\ 1 - 3 + (len + 2) <= m
        /\ \A i \in 1 .. m : 3 + i - 1 \in 1 .. len + 2
               => g[i] = [frame |-> f, cell |-> 3 + i - 1]
    BY <1>1, <1>2, <1>3 DEF CellOK
  <1>5. len \in Nat \ {0} /\ f \in Nat
    BY <1>3, <1>4, KeptLength
  <1>6. len <= m
    BY <1>4, <1>5
  <1>7. ASSUME NEW k \in 1 .. len PROVE g[k] = [frame |-> f, cell |-> k + 2]
    <2>1. k \in 1 .. m /\ 3 + k - 1 \in 1 .. len + 2 /\ 3 + k - 1 = k + 2
      BY <1>1, <1>5, <1>6
    <2> QED
      BY <1>4, <2>1
  <1>8. /\ InStep(h, 2 + len) /\ Len(h) = m - len
        /\ \A j \in 1 .. m - len : h[j] = g[j + len]
    <2>1. PICK o \in Nat : o = 2 /\ InStep(g, o)
      OBVIOUS
    <2>2. InStep(h, o + len) /\ Left(g, len, h)
      <3>1. len \in Nat /\ len <= Len(g)
        BY <1>1, <1>5, <1>6
      <3> QED
        BY <2>1, <3>1, InStepGet
    <2> QED
      BY <1>1, <2>1, <2>2 DEF Left
  <1>9. ASSUME NEW j \in 1 .. m - len
        PROVE  f < h[j].frame /\ h[j].cell \in Nat /\ j >= h[j].cell
    <2>1. j \in Nat /\ j >= 1 /\ j + len \in 1 .. m /\ 1 < j + len /\ 1 \in 1 .. m
      BY <1>1, <1>5
    <2>2. PICK e, c, size : /\ e = g[j + len].frame /\ c = g[j + len].cell
                            /\ size = FrameLen[e] + 2
      OBVIOUS
    <2>3. CellOK(g, j + len, 2) /\ InOrder(g, 1, j + len)
      BY <1>1, <2>1 DEF InStep
    <2>4. /\ Kept(e) /\ c \in 1 .. size
          /\ \A i \in 1 .. m : c + i - (j + len) \in 1 .. size
                 => g[i] = [frame |-> e, cell |-> c + i - (j + len)]
      BY <1>1, <2>2, <2>3 DEF CellOK
    <2>5. size \in Nat /\ c \in Nat /\ c >= 1 /\ c <= size /\ e \in Nat
      <3>1. FrameLen[e] \in Nat /\ e \in Nat
        BY <2>4, KeptLength
      <3>2. size = FrameLen[e] + 2 /\ c \in 1 .. size
        BY <2>2, <2>4
      <3> QED
        BY <3>1, <3>2
    <2>6. f < e
      <3>1. f < e \/ (f = e /\ c - 3 = (j + len) - 1)
        BY <1>2, <1>3, <2>2, <2>3 DEF InOrder
      <3>2. ASSUME f = e, c - 3 = (j + len) - 1 PROVE FALSE
        <4>1. size = len + 2
          BY <1>3, <2>2, <3>2
        <4> QED
          BY <1>5, <2>1, <2>5, <3>2, <4>1
      <3> QED
        BY <3>1, <3>2
    <2>7. ASSUME NEW i \in 1 .. len, c + i - (j + len) \in 1 .. size PROVE FALSE
      <3>1. i \in 1 .. m
        BY <1>1, <1>5, <1>6
      <3>2. g[i] = [frame |-> e, cell |-> c + i - (j + len)] /\ g[i] = [frame |-> f, cell |-> i + 2]
        BY <1>7, <2>4, <2>7, <3>1
      <3>3. g[i].frame = e /\ g[i].frame = f
        BY <3>2
      <3> QED
        BY <1>5, <2>5, <2>6, <3>3
    <2>8. j >= c
      <3> SUFFICES ASSUME j < c PROVE FALSE
        BY <2>1, <2>5
      <3>1. c + len - (j + len) = c - j /\ c - j \in 1 .. size /\ len \in 1 .. len
        BY <1>5, <2>1, <2>5
      <3> QED
        BY <2>7, <3>1
    <2> QED
      BY <1>8, <2>2, <2>5, <2>6, <2>8
  <1>10. ASSUME NEW j \in 1 .. m - len PROVE CellOK(h, j, 0)
    <2>1. CellOK(h, j, 2 + len)
      BY <1>8 DEF InStep
    <2>2. j + 0 >= h[j].cell
      <3>1. PICK c \in Nat : c = h[j].cell /\ j >= c
        BY <1>9
      <3>2. j \in Nat
        BY <1>1, <1>5
      <3>3. j + 0 = j
        BY <3>2
      <3> QED
        BY <3>1, <3>3
    <2> QED
      BY <2>1, <2>2 DEF CellOK
  <1>11. InStep(h, 0)
    BY <1>8, <1>10 DEF InStep
  <1> QED
    BY <1>1, <1>2, <1>4, <1>5, <1>6, <1>7, <1>8, <1>9, <1>11 DEF Left

\* g with the cells of frame n behind it.
Extended(g, n, h) ==
    /\ Len(h) = Len(g) + FrameLen[n] + 2
    /\ \A j \in 1 .. Len(g) : h[j] = g[j]
    /\ \A k \in 1 .. FrameLen[n] + 2 : h[Len(g) + k] = [frame |-> n, cell |-> k]

LEMMA PutExtends ==
    ASSUME NEW g \in Seq(RingCell), NEW n, Kept(n), NEW h, h = g \o Cells(n)
    PROVE  h \in Seq(RingCell) /\ Extended(g, n, h)
  <1>1. PICK m \in Nat : m = Len(g)
    OBVIOUS
  <1>2. PICK size \in Nat : size = FrameLen[n] + 2 /\ n \in Nat
    BY KeptLength
  <1>3. PICK c : c = Cells(n)
    OBVIOUS
  <1>4. c = [k \in 1 .. size |-> [frame |-> n, cell |-> k]]
    BY <1>2, <1>3 DEF Cells
  <1>5. c \in [1 .. size -> RingCell]
    BY <1>2, <1>4 DEF RingCell
  <1>6. c \in Seq(RingCell) /\ Len(c) = size
    BY <1>5, FunctionIsSeq
  <1>7. h \in Seq(RingCell)
    BY <1>3, <1>6
  <1>8. /\ Len(h) = m + size
        /\ \A j \in 1 .. m : h[j] = g[j]
        /\ \A k \in 1 .. size : h[m + k] = c[k]
    <2>1. /\ Len(h) = m + size
          /\ \A i \in 1 .. m + size : h[i] = IF i <= m THEN g[i] ELSE c[i - m]
      BY <1>1, <1>3, <1>6, ConcatProperties
    <2>2. \A j \in 1 .. m : j \in 1 .. m + size /\ j <= m
      BY <1>1, <1>2
    <2>3. \A k \in 1 .. size : m + k \in 1 .. m + size /\ ~(m + k <= m) /\ (m + k) - m = k
      BY <1>1, <1>2
    <2> QED
      BY <2>1, <2>2, <2>3
  <1>9. Len(g) + FrameLen[n] + 2 = m + size
    <2>1. FrameLen[n] \in Nat
      BY KeptLength
    <2> QED
      BY <1>1, <1>2, <2>1
  <1> QED
    BY <1>1, <1>2, <1>4, <1>7, <1>8, <1>9 DEF Extended

\* ring_buf_put() of a frame for which there is room.
LEMMA InStepPut ==
    ASSUME NEW g, NEW o \in Nat, InStep(g, o), NEW n, Kept(n),
           \A j \in 1 .. Len(g) : g[j].frame < n,
           NEW h \in Seq(RingCell), Extended(g, n, h)
    PROVE  InStep(h, o)
  <1>1. PICK m \in Nat : m = Len(g) /\ g \in Seq(RingCell)
    BY DEF InStep
  <1>2. PICK size \in Nat : size = FrameLen[n] + 2 /\ n \in Nat
    BY KeptLength
  <1>3. /\ Len(h) = m + size
        /\ \A j \in 1 .. m : h[j] = g[j]
        /\ \A k \in 1 .. size : h[m + k] = [frame |-> n, cell |-> k]
    <2>1. FrameLen[n] \in Nat
      BY KeptLength
    <2>2. Len(g) + FrameLen[n] + 2 = m + size
      BY <1>1, <1>2, <2>1
    <2> QED
      BY <1>1, <1>2, <2>2 DEF Extended
  <1>4. ASSUME NEW j \in m + 1 .. m + size
        PROVE  h[j] = [frame |-> n, cell |-> j - m] /\ h[j].frame = n /\ h[j].cell = j - m
    <2>1. j - m \in 1 .. size /\ m + (j - m) = j
      BY <1>1, <1>2
    <2> QED
      BY <1>3, <2>1
  <1>5. ASSUME NEW j \in 1 .. m + size PROVE j \in 1 .. m \/ j \in m + 1 .. m + size
    BY <1>1, <1>2
  <1>6. ASSUME NEW j \in 1 .. m PROVE CellOK(h, j, o)
    <2>1. PICK f, c, s : f = g[j].frame /\ c = g[j].cell /\ s = FrameLen[f] + 2
      OBVIOUS
    <2>2. CellOK(g, j, o)
      BY <1>1 DEF InStep
    <2>3. /\ Kept(f) /\ c \in 1 .. s /\ j + o >= c /\ j - c + s <= m
          /\ \A i \in 1 .. m : c + i - j \in 1 .. s
                 => g[i] = [frame |-> f, cell |-> c + i - j]
      BY <1>1, <2>1, <2>2 DEF CellOK
    <2>4. s \in Nat /\ c \in Nat
      <3>1. FrameLen[f] \in Nat
        BY <2>3, KeptLength
      <3>2. s = FrameLen[f] + 2 /\ c \in 1 .. s
        BY <2>1, <2>3
      <3> QED
        BY <3>1, <3>2
    <2>5. h[j].frame = f /\ h[j].cell = c
      BY <1>3, <2>1
    <2>6. ASSUME NEW i \in 1 .. m + size, c + i - j \in 1 .. s
          PROVE  h[i] = [frame |-> f, cell |-> c + i - j]
      <3>1. i \in 1 .. m
        <4>1. i \in Nat /\ i >= 1 /\ j \in Nat
          BY <1>1, <1>2
        <4>2. c + i - j <= s /\ j - c + s <= m
          BY <2>3, <2>6
        <4> QED
          BY <1>1, <2>4, <4>1, <4>2
      <3> QED
        BY <1>3, <2>3, <2>6, <3>1
    <2>7. j - c + s <= m + size
      <3>1. j - c + s <= m /\ j \in Nat
        BY <1>1, <2>3
      <3> QED
        BY <1>1, <1>2, <2>4, <3>1
    <2> QED
      BY <1>3, <2>1, <2>3, <2>5, <2>6, <2>7 DEF CellOK
  <1>7. ASSUME NEW j \in m + 1 .. m + size PROVE CellOK(h, j, o)
    <2>0. j \in Nat /\ j >= m + 1 /\ j <= m + size /\ m \in Nat /\ size \in Nat
      BY <1>1, <1>2
    <2>1. /\ h[j].frame = n /\ h[j].cell = j - m /\ j - m \in 1 .. size
          /\ j + o >= j - m /\ j - (j - m) + size <= m + size
      <3>1. h[j].frame = n /\ h[j].cell = j - m
        BY <1>4
      <3>2. j - m \in 1 .. size /\ j + o >= j - m /\ j - (j - m) + size <= m + size
        BY <2>0
      <3> QED
        BY <3>1, <3>2
    <2>2. ASSUME NEW i \in 1 .. m + size, (j - m) + i - j \in 1 .. size
          PROVE  h[i] = [frame |-> n, cell |-> (j - m) + i - j]
      <3>1. (j - m) + i - j = i - m /\ i \in m + 1 .. m + size
        <4>1. i \in Nat
          BY <2>0
        <4> QED
          BY <2>0, <2>2, <4>1
      <3> QED
        BY <1>4, <3>1
    <2> QED
      BY <1>2, <1>3, <2>1, <2>2 DEF CellOK
  <1>8. ASSUME NEW i \in 1 .. m + size, NEW j \in 1 .. m + size, i < j PROVE InOrder(h, i, j)
    <2>1. CASE i \in 1 .. m /\ j \in 1 .. m
      <3>1. InOrder(g, i, j)
        BY <1>1, <1>8, <2>1 DEF InStep
      <3> QED
        BY <1>3, <2>1, <3>1 DEF InOrder
    <2>2. CASE i \in 1 .. m /\ j \in m + 1 .. m + size
      BY <1>1, <1>3, <1>4, <2>2 DEF InOrder
    <2>3. CASE i \in m + 1 .. m + size /\ j \in m + 1 .. m + size
      <3>1. h[i].frame = h[j].frame /\ h[i].cell = i - m /\ h[j].cell = j - m
        BY <1>4, <2>3
      <3>2. (j - m) - (i - m) = j - i
        BY <1>1, <1>2
      <3> QED
        BY <3>1, <3>2 DEF InOrder
    <2>4. ~(i \in m + 1 .. m + size /\ j \in 1 .. m)
      BY <1>1, <1>2, <1>8
    <2> QED
      BY <1>5, <2>1, <2>2, <2>3, <2>4
  <1> QED
    BY <1>3, <1>5, <1>6, <1>7, <1>8 DEF InStep

-----------------------------------------------------------------------------
(* How many frames begin in the ring.                                      *)

LEMMA StartsFinite ==
    ASSUME NEW g \in Seq(RingCell)
    PROVE  IsFiniteSet(Starts(g)) /\ Cardinality(Starts(g)) \in Nat
  <1>1. Starts(g) \subseteq 1 .. Len(g) /\ IsFiniteSet(1 .. Len(g))
    BY FS_Interval DEF Starts
  <1> QED
    BY <1>1, FS_Subset, FS_CardinalityType

LEMMA StartsPut ==
    ASSUME NEW g \in Seq(RingCell), NEW n, Kept(n), NEW h \in Seq(RingCell), Extended(g, n, h)
    PROVE  Cardinality(Starts(h)) = Cardinality(Starts(g)) + 1
  <1>1. PICK m \in Nat : m = Len(g) /\ DOMAIN g = 1 .. m
    OBVIOUS
  <1>2. PICK size \in Nat \ {0} : size = FrameLen[n] + 2
    BY KeptLength
  <1>3. /\ Len(h) = m + size /\ DOMAIN h = 1 .. m + size
        /\ \A j \in 1 .. m : h[j].cell = g[j].cell
        /\ \A k \in 1 .. size : h[m + k].cell = k
    <2>1. FrameLen[n] \in Nat
      BY KeptLength
    <2>2. Len(g) + FrameLen[n] + 2 = m + size
      BY <1>1, <1>2, <2>1
    <2>3. Len(h) = m + size /\ DOMAIN h = 1 .. m + size
      BY <2>2 DEF Extended
    <2>4. ASSUME NEW j \in 1 .. m PROVE h[j].cell = g[j].cell
      BY <1>1 DEF Extended
    <2>5. ASSUME NEW k \in 1 .. size PROVE h[m + k].cell = k
      <3>1. h[m + k] = [frame |-> n, cell |-> k]
        BY <1>1, <1>2 DEF Extended
      <3> QED
        BY <3>1
    <2> QED
      BY <2>3, <2>4, <2>5
  <1>4. ASSUME NEW j PROVE j \in Starts(h) <=> j \in Starts(g) \cup {m + 1}
    <2>1. CASE j \in 1 .. m
      BY <1>1, <1>2, <1>3, <2>1 DEF Starts
    <2>2. CASE j \in m + 1 .. m + size
      <3>1. j - m \in 1 .. size /\ m + (j - m) = j /\ j \notin 1 .. m /\ j \in 1 .. m + size
        BY <1>1, <1>2, <2>2
      <3>2. h[j].cell = j - m
        BY <1>3, <3>1
      <3>3. j - m = 1 <=> j = m + 1
        BY <1>1, <1>2, <2>2
      <3> QED
        BY <1>1, <1>3, <3>1, <3>2, <3>3 DEF Starts
    <2>3. CASE j \notin 1 .. m + size
      <3>1. j \notin 1 .. m /\ j # m + 1
        BY <1>1, <1>2, <2>3
      <3> QED
        BY <1>1, <1>3, <2>3, <3>1 DEF Starts
    <2>4. j \in 1 .. m \/ j \in m + 1 .. m + size \/ j \notin 1 .. m + size
      BY <1>1, <1>2
    <2> QED
      BY <2>1, <2>2, <2>3, <2>4
  <1>5. Starts(h) = Starts(g) \cup {m + 1}
    BY <1>4, Zenon
  <1>6. m + 1 \notin Starts(g)
    BY <1>1 DEF Starts
  <1> QED
    BY <1>5, <1>6, StartsFinite, FS_AddElement

LEMMA StartsGet ==
    ASSUME NEW g \in Seq(RingCell), NEW n \in Nat, n <= Len(g),
           NEW h \in Seq(RingCell), Left(g, n, h)
    PROVE  Cardinality(Starts(h)) = Cardinality(Starts(g) \ (1 .. n))
  <1>1. PICK m \in Nat : m = Len(g) /\ DOMAIN g = 1 .. m /\ n <= m
    OBVIOUS
  <1>2. /\ Len(h) = m - n /\ DOMAIN h = 1 .. m - n
        /\ \A j \in 1 .. m - n : h[j].cell = g[j + n].cell
    BY <1>1 DEF Left
  <1>3. PICK T : T = Starts(g) \ (1 .. n)
    OBVIOUS
  <1>4. PICK b : b = [k \in Starts(h) |-> k + n]
    OBVIOUS
  <1>5. ASSUME NEW k \in Starts(h) PROVE k \in Nat /\ k + n \in T
    <2>1. k \in 1 .. m - n /\ h[k].cell = 1
      BY <1>2 DEF Starts
    <2>2. k \in Nat /\ k + n \in 1 .. m /\ k + n \notin 1 .. n
      BY <1>1, <2>1
    <2> QED
      BY <1>1, <1>2, <1>3, <2>1, <2>2 DEF Starts
  <1>6. ASSUME NEW t \in T PROVE \E k \in Starts(h) : b[k] = t
    <2>1. t \in 1 .. m /\ t \notin 1 .. n /\ g[t].cell = 1
      BY <1>1, <1>3 DEF Starts
    <2>2. t - n \in 1 .. m - n /\ (t - n) + n = t
      BY <1>1, <2>1
    <2>3. t - n \in Starts(h)
      BY <1>2, <2>1, <2>2 DEF Starts
    <2> QED
      BY <1>4, <2>2, <2>3
  <1>7. b \in [Starts(h) -> T]
    BY <1>4, <1>5
  <1>8. \A i, j \in Starts(h) : b[i] = b[j] => i = j
    <2> SUFFICES ASSUME NEW i \in Starts(h), NEW j \in Starts(h), b[i] = b[j] PROVE i = j
      OBVIOUS
    <2>1. i \in Nat /\ j \in Nat /\ i + n = j + n
      BY <1>4, <1>5
    <2> QED
      BY <2>1
  <1>9. ExistsBijection(Starts(h), T)
    <2>1. b \in Bijection(Starts(h), T)
      BY <1>6, <1>7, <1>8, Fun_IsBij
    <2> QED
      BY <2>1 DEF ExistsBijection
  <1> QED
    BY <1>3, <1>9, StartsFinite, FS_Bijection

LEMMA StartsLength ==
    ASSUME NEW g, InStep(g, 0), Len(g) >= 2, NEW h \in Seq(RingCell), Left(g, 2, h)
    PROVE  Cardinality(Starts(g)) = Cardinality(Starts(h)) + 1
  <1>1. PICK m \in Nat : m = Len(g) /\ m >= 2 /\ g \in Seq(RingCell) /\ DOMAIN g = 1 .. m
    BY DEF InStep
  <1>2. g[1].cell = 1 /\ g[2].cell = 2
    <2>1. g[1].cell = 1 /\ g[2] = [frame |-> g[1].frame, cell |-> 2]
      <3>1. Len(g) >= 1
        BY <1>1
      <3> QED
        BY <3>1, InStepFirst
    <2> QED
      BY <2>1
  <1>3. 1 \in Starts(g) /\ 2 \notin Starts(g)
    BY <1>1, <1>2 DEF Starts
  <1>4. Starts(g) \ (1 .. 2) = Starts(g) \ {1}
    <2>1. \A x : x \in 1 .. 2 <=> x = 1 \/ x = 2
      OBVIOUS
    <2> QED
      BY <1>3, <2>1
  <1>5. Cardinality(Starts(h)) = Cardinality(Starts(g) \ (1 .. 2))
    BY <1>1, StartsGet
  <1>6. Cardinality(Starts(g) \ {1}) = Cardinality(Starts(g)) - 1
    BY <1>1, <1>3, StartsFinite, FS_RemoveElement
  <1>7. Cardinality(Starts(g)) \in Nat
    BY <1>1, StartsFinite
  <1>8. PICK a \in Nat : a = Cardinality(Starts(g))
    BY <1>7
  <1>9. Cardinality(Starts(h)) = a - 1
    BY <1>4, <1>5, <1>6, <1>8
  <1> QED
    BY <1>8, <1>9

LEMMA StartsPayload ==
    ASSUME NEW g, InStep(g, 2), NEW len, AtPayload(g, len), NEW h \in Seq(RingCell),
           Dropped(g, len, h)
    PROVE  Cardinality(Starts(g)) = Cardinality(Starts(h))
  <1>1. g \in Seq(RingCell)
    BY DEF InStep
  <1>2. /\ len \in Nat /\ len <= Len(g) /\ Left(g, len, h)
        /\ \A k \in 1 .. len : g[k] = [frame |-> g[1].frame, cell |-> k + 2]
    BY InStepPayload
  <1>3. \A k \in 1 .. len : k \notin Starts(g)
    <2> SUFFICES ASSUME NEW k \in 1 .. len PROVE g[k].cell # 1
      BY DEF Starts
    <2>0. g[k] = [frame |-> g[1].frame, cell |-> k + 2]
      BY <1>2
    <2>1. g[k].cell = k + 2 /\ k \in Nat
      BY <1>2, <2>0
    <2> QED
      BY <2>1
  <1>4. Starts(g) \ (1 .. len) = Starts(g)
    BY <1>3, Zenon
  <1> QED
    BY <1>1, <1>2, <1>4, StartsGet

-----------------------------------------------------------------------------
(* The completions that the driver has not seen.                           *)

\* D chains taken back, and p completions that are not.
Unseen(r, lastUsed, D, p) ==
    p < IdxMod /\ lastUsed = D % IdxMod /\ r.usedIdx = (D + p) % IdxMod
WindowIs(w, r, D, p) == w = [k \in 1 .. p |-> r.used[At(D, k)]]

LEMMA WindowOf ==
    ASSUME NEW D \in Nat, NEW p \in Nat, NEW r, NEW lastUsed, Unseen(r, lastUsed, D, p)
    PROVE  WindowIs(UsedWindow(r, lastUsed), r, D, p)
  <1>0. p < IdxMod /\ lastUsed = D % IdxMod /\ r.usedIdx = (D + p) % IdxMod
    BY DEF Unseen
  <1>1. IdxMod \in Nat \ {0} /\ lastUsed \in Nat
    BY <1>0, QueueAssumption
  <1>2. (r.usedIdx - lastUsed) % IdxMod = p
    BY <1>0, <1>1, ModApart
  <1>3. ASSUME NEW k \in 1 .. p PROVE (lastUsed + k - 1) % QueueSize = At(D, k)
    <2>1. k - 1 \in Nat
      OBVIOUS
    <2>2. ((D % IdxMod) + (k - 1)) % QueueSize = (D + (k - 1)) % QueueSize
      BY <2>1, ModSum
    <2>3. lastUsed + (k - 1) = lastUsed + k - 1 /\ D + (k - 1) = D + k - 1
      BY <1>1
    <2> QED
      BY <1>0, <2>2, <2>3 DEF At
  <1> QED
    BY <1>2, <1>3 DEF UsedWindow, WindowIs

\* One more completion, of a chain that is not among the others.
Grown(w, w2, u) ==
    /\ Len(w) \in Nat /\ Len(w2) = Len(w) + 1 /\ w2[Len(w) + 1] = u
    /\ \A k \in 1 .. Len(w) : w2[k] = w[k] /\ w[k].id # u.id /\ w[k].id \in Slots

\* The oldest completion is gone.
Shrunk(w, w2) ==
    /\ Len(w) \in Nat \ {0} /\ Len(w2) = Len(w) - 1
    /\ \A k \in 1 .. Len(w2) :
          w2[k] = w[k + 1] /\ w[k + 1].id # w[1].id /\ w[k + 1].id \in Slots

\* u completes the next chain there is.
Serves(q, r, u) ==
    q.lastAvail # r.availIdx /\ u.id = r.avail[q.lastAvail % QueueSize]

\* queue_complete() writes u; the driver clears what it has taken.
UsedGrows(r, r2, u) ==
    /\ r2.used = [r.used EXCEPT ![r.usedIdx % QueueSize] = u]
    /\ r2.usedIdx = (r.usedIdx + 1) % IdxMod
UsedTaken(r, r2, lastUsed) ==
    /\ \E e : r2.used = [r.used EXCEPT ![lastUsed % QueueSize] = e]
    /\ r2.usedIdx = r.usedIdx

LEMMA HeadsDiffer ==
    ASSUME NEW in, Apart(in), NEW j \in 1 .. Len(in), NEW k \in 1 .. Len(in), j # k
    PROVE  in[j].head # in[k].head
  BY Zenon DEF Apart

LEMMA HeadInQueue ==
    ASSUME NEW in, Apart(in), NEW k \in 1 .. Len(in)
    PROVE  in[k].head \in Slots
  <1>1. PICK S : S = Chains
    OBVIOUS
  <1>2. in \in Seq(S)
    BY <1>1 DEF Apart
  <1>3. in[k] \in S
    BY <1>2
  <1> QED
    BY <1>1, <1>3 DEF Chains

LEMMA WindowServe ==
    ASSUME NEW q, NEW r, NEW r2, NEW lastUsed, NEW in, NEW u,
           Agreed(q, r, lastUsed, in), Serves(q, r, u), UsedGrows(r, r2, u)
    PROVE  /\ Grown(UsedWindow(r, lastUsed), UsedWindow(r2, lastUsed), u)
           /\ \E k \in 1 .. Len(in) : u.id = in[k].head
  <1>0. PICK w, w2 : w = UsedWindow(r, lastUsed) /\ w2 = UsedWindow(r2, lastUsed)
    OBVIOUS
  <1>1. /\ QueueSize \in Nat \ {0} /\ IdxMod \in Nat \ {0} /\ QueueSize < IdxMod
        /\ Apart(in) /\ r.used = [i \in Slots |-> r.used[i]]
    BY QueueAssumption DEF Agreed, RingRecord, RingShape
  <1>a. /\ r2.used = [r.used EXCEPT ![r.usedIdx % QueueSize] = u]
        /\ r2.usedIdx = (r.usedIdx + 1) % IdxMod
        /\ q.lastAvail # r.availIdx /\ u.id = r.avail[q.lastAvail % QueueSize]
    BY DEF UsedGrows, Serves
  <1>2. PICK D \in Nat, p \in Nat :
           /\ Indices(D, p, in, lastUsed, r.usedIdx, q.lastAvail, r.availIdx)
           /\ Windows(D, p, in, r.avail, r.used)
    BY DEF Agreed, QueueInv
  <1>3. PICK n \in Nat : n = Len(in) /\ n <= QueueSize
    BY <1>1, RoomInQueue
  <1>4. p + 1 <= n
    BY <1>a, <1>2, <1>3 DEF Indices
  <1>5. q.lastAvail % QueueSize = At(D, p + 1) /\ r.usedIdx % QueueSize = At(D, p + 1)
    <2>1. q.lastAvail = (D + p) % IdxMod /\ r.usedIdx = (D + p) % IdxMod
      BY <1>2 DEF Indices
    <2> QED
      BY <2>1, SlotOfIndex
  <1>6. w = [k \in 1 .. p |-> r.used[At(D, k)]]
    <2>1. p < IdxMod /\ lastUsed = D % IdxMod /\ r.usedIdx = (D + p) % IdxMod
      BY <1>1, <1>2, <1>3, <1>4 DEF Indices
    <2>2. Unseen(r, lastUsed, D, p)
      BY <2>1 DEF Unseen
    <2>3. WindowIs(UsedWindow(r, lastUsed), r, D, p)
      BY <2>2, WindowOf
    <2> QED
      BY <1>0, <2>3 DEF WindowIs
  <1>7. w2 = [k \in 1 .. p + 1 |-> r2.used[At(D, k)]]
    <2>1. D + p \in Nat /\ D + (p + 1) = (D + p) + 1 /\ p + 1 \in Nat /\ p + 1 < IdxMod
      BY <1>1, <1>3, <1>4
    <2>2. lastUsed = D % IdxMod /\ r.usedIdx = (D + p) % IdxMod
      BY <1>2 DEF Indices
    <2>3. (((D + p) % IdxMod) + 1) % IdxMod = ((D + p) + 1) % IdxMod
      BY <1>1, <2>1, ModStep
    <2>4. PICK o \in Nat : o = p + 1
      BY <2>1
    <2>5. r2.usedIdx = (D + o) % IdxMod /\ o < IdxMod
      BY <1>a, <2>1, <2>2, <2>3, <2>4
    <2>6. Unseen(r2, lastUsed, D, o)
      BY <2>2, <2>5 DEF Unseen
    <2>7. WindowIs(UsedWindow(r2, lastUsed), r2, D, o)
      BY <2>6, WindowOf
    <2> QED
      BY <1>0, <2>4, <2>7 DEF WindowIs
  <1>8. u.id = in[p + 1].head /\ p + 1 \in 1 .. Len(in)
    <2>1. p + 1 \in 1 .. Len(in) /\ p + 1 > p
      BY <1>3, <1>4
    <2> QED
      BY <1>a, <1>2, <1>5, <2>1 DEF Windows
  <1>9. Len(w) = p /\ Len(w2) = p + 1
    BY <1>6, <1>7
  <1>10. w2[p + 1] = u
    <2>1. At(D, p + 1) \in Slots /\ p + 1 \in 1 .. p + 1
      BY AtInQueue
    <2> QED
      BY <1>a, <1>1, <1>5, <1>7, <2>1
  <1>11. ASSUME NEW k \in 1 .. p
         PROVE  w2[k] = w[k] /\ w[k].id # u.id /\ w[k].id \in Slots
    <2>1. k \in Nat /\ 1 <= k /\ k < p + 1 /\ (p + 1) - k < QueueSize
      BY <1>1, <1>3, <1>4
    <2>2. At(D, k) # At(D, p + 1) /\ At(D, k) \in Slots
      BY <2>1, SlotsDiffer, AtInQueue
    <2>3. k \in 1 .. p + 1 /\ k \in 1 .. Len(in) /\ k <= p /\ k # p + 1
      BY <1>3, <1>4, <2>1
    <2>4. w[k] = r.used[At(D, k)] /\ w2[k] = w[k]
      BY <1>a, <1>1, <1>5, <1>6, <1>7, <2>2, <2>3
    <2>5. w[k].id = in[k].head
      BY <1>2, <2>3, <2>4 DEF Windows
    <2>6. in[k].head # in[p + 1].head /\ in[k].head \in Slots
      BY <1>1, <1>8, <2>3, HeadsDiffer, HeadInQueue
    <2> QED
      BY <1>8, <2>4, <2>5, <2>6
  <1> QED
    BY <1>0, <1>8, <1>9, <1>10, <1>11 DEF Grown

LEMMA WindowTakeBack ==
    ASSUME NEW q, NEW r, NEW r2, NEW lastUsed, NEW in,
           Agreed(q, r, lastUsed, in), lastUsed # r.usedIdx, UsedTaken(r, r2, lastUsed)
    PROVE  /\ Shrunk(UsedWindow(r, lastUsed), UsedWindow(r2, (lastUsed + 1) % IdxMod))
           /\ UsedWindow(r, lastUsed)[1] = r.used[lastUsed % QueueSize]
  <1>0. PICK w, w2, e :
           /\ w = UsedWindow(r, lastUsed) /\ w2 = UsedWindow(r2, (lastUsed + 1) % IdxMod)
           /\ r2.used = [r.used EXCEPT ![lastUsed % QueueSize] = e]
           /\ r2.usedIdx = r.usedIdx
    BY DEF UsedTaken
  <1>1. /\ QueueSize \in Nat \ {0} /\ IdxMod \in Nat \ {0} /\ QueueSize < IdxMod
        /\ Apart(in) /\ r.used = [i \in Slots |-> r.used[i]]
    BY QueueAssumption DEF Agreed, RingRecord, RingShape
  <1>2. PICK D \in Nat, p \in Nat :
           /\ Indices(D, p, in, lastUsed, r.usedIdx, q.lastAvail, r.availIdx)
           /\ Windows(D, p, in, r.avail, r.used)
    BY DEF Agreed, QueueInv
  <1>3. PICK n \in Nat : n = Len(in) /\ n <= QueueSize
    BY <1>1, RoomInQueue
  <1>4. p <= n /\ p >= 1
    BY <1>2, <1>3 DEF Indices
  <1>5. lastUsed = D % IdxMod /\ r.usedIdx = (D + p) % IdxMod
    BY <1>2 DEF Indices
  <1>6. lastUsed % QueueSize = At(D, 1)
    <2>1. lastUsed = (D + 0) % IdxMod /\ 0 \in Nat /\ 0 + 1 = 1
      BY <1>5
    <2>2. ((D + 0) % IdxMod) % QueueSize = At(D, 0 + 1)
      BY <2>1, SlotOfIndex
    <2> QED
      BY <2>1, <2>2
  <1>7. w = [k \in 1 .. p |-> r.used[At(D, k)]]
    <2>1. p < IdxMod
      BY <1>1, <1>3, <1>4
    <2>2. Unseen(r, lastUsed, D, p)
      BY <1>5, <2>1 DEF Unseen
    <2>3. WindowIs(UsedWindow(r, lastUsed), r, D, p)
      BY <2>2, WindowOf
    <2> QED
      BY <1>0, <2>3 DEF WindowIs
  <1>8. PICK C \in Nat, o \in Nat : C = D + 1 /\ o = p - 1
    <2>1. D + 1 \in Nat /\ p - 1 \in Nat
      BY <1>4
    <2> QED
      BY <2>1
  <1>9. w2 = [k \in 1 .. o |-> r2.used[At(C, k)]]
    <2>1. o < IdxMod /\ C + o = D + p
      BY <1>1, <1>3, <1>4, <1>8
    <2>2. (lastUsed + 1) % IdxMod = C % IdxMod
      BY <1>1, <1>5, <1>8, ModStep
    <2>3. r2.usedIdx = (C + o) % IdxMod
      BY <1>0, <1>5, <2>1
    <2>4. PICK l : l = (lastUsed + 1) % IdxMod /\ l = C % IdxMod
      BY <2>2
    <2>5. Unseen(r2, l, C, o)
      BY <2>1, <2>3, <2>4 DEF Unseen
    <2>6. WindowIs(UsedWindow(r2, l), r2, C, o)
      BY <2>5, WindowOf
    <2> QED
      BY <1>0, <2>4, <2>6 DEF WindowIs
  <1>10. Len(w) = p /\ Len(w2) = o /\ o = p - 1
    BY <1>7, <1>8, <1>9
  <1>11. w[1] = r.used[At(D, 1)] /\ w[1].id = in[1].head
    <2>1. 1 \in 1 .. p /\ 1 \in 1 .. Len(in) /\ 1 <= p
      BY <1>3, <1>4
    <2> QED
      BY <1>2, <1>7, <2>1 DEF Windows
  <1>12. ASSUME NEW k \in 1 .. o
         PROVE  w2[k] = w[k + 1] /\ w[k + 1].id # w[1].id /\ w[k + 1].id \in Slots
    <2>1. /\ k + 1 \in Nat /\ 1 < k + 1 /\ (k + 1) - 1 < QueueSize /\ 1 \in Nat /\ 1 <= 1
          /\ k + 1 \in 1 .. p /\ k + 1 \in 1 .. Len(in) /\ 1 \in 1 .. Len(in) /\ k + 1 # 1
      BY <1>1, <1>3, <1>4, <1>8
    <2>2. At(D, 1) # At(D, k + 1) /\ At(D, k + 1) \in Slots
      BY <2>1, SlotsDiffer, AtInQueue
    <2>3. At(C, k) = At(D, k + 1)
      <3>1. C + k - 1 = D + (k + 1) - 1
        BY <1>8
      <3> QED
        BY <3>1 DEF At
    <2>4. w2[k] = r2.used[At(D, k + 1)] /\ w[k + 1] = r.used[At(D, k + 1)]
      BY <1>7, <1>9, <2>1, <2>3
    <2>5. w2[k] = w[k + 1]
      BY <1>0, <1>1, <1>6, <2>2, <2>4
    <2>6. w[k + 1].id = in[k + 1].head
      BY <1>2, <2>1, <2>4 DEF Windows
    <2>7. in[k + 1].head # in[1].head /\ in[k + 1].head \in Slots
      BY <1>1, <2>1, HeadsDiffer, HeadInQueue
    <2> QED
      BY <1>11, <2>5, <2>6, <2>7
  <1> QED
    BY <1>0, <1>4, <1>6, <1>10, <1>11, <1>12 DEF Shrunk

-----------------------------------------------------------------------------
(* A receive chain is one descriptor.                                      *)

LEMMA LoneDescriptor ==
    ASSUME NEW q, QueueOn(q), NEW r, NEW h \in Slots, r.desc[h].next = NoNext
    PROVE  ChainCollect(q, r, h) \in {<< >>, << h >>}
  <1>1. QueueSize \in Nat \ {0} /\ MaxChain \in Nat /\ MaxChain >= 2 /\ h \in Nat /\ h # NoNext
    BY QueueAssumption DEF Slots, NoNext
  <1>2. DescRead(q, h)
    BY <1>1 DEF QueueOn, DescRead, Slots
  <1>3. PICK at : at = ChainIdx(q, r, h)
    OBVIOUS
  <1>4. at[0] = h /\ at[1] = NoNext
    <2> DEFINE K == 0 .. MaxChain - 1
               F(f) == [k \in K |->
                          IF k = 0 THEN h
                          ELSE LET prev == f[k - 1]
                               IN IF prev = NoNext \/ ~DescRead(q, prev)
                                  THEN NoNext ELSE r.desc[prev].next]
               f0 == [k \in K |-> IF k = 0 THEN h ELSE NoNext]
    <2>1. f0 = F(f0)
      <3>1. ASSUME NEW k \in K PROVE f0[k] = F(f0)[k]
        <4>1. CASE k = 0
          BY <4>1
        <4>2. CASE k = 1
          <5>1. k - 1 = 0 /\ k # 0 /\ 0 \in K
            BY <1>1, <4>2
          <5>2. f0[k - 1] = h
            BY <5>1
          <5> QED
            BY <1>1, <1>2, <5>1, <5>2
        <4>3. CASE k # 0 /\ k # 1
          <5>1. k - 1 \in K /\ k - 1 # 0
            BY <1>1, <4>3
          <5>2. f0[k - 1] = NoNext
            BY <5>1
          <5> QED
            BY <4>3, <5>2
        <4> QED
          BY <4>1, <4>2, <4>3
      <3> QED
        BY <3>1
    <2>2. PICK f : f = CHOOSE g : g = F(g)
      OBVIOUS
    <2>3. f = F(f)
      BY <2>1, <2>2
    <2>4. at = [k \in K |-> f[k]]
      BY <1>3, <2>2 DEF ChainIdx
    <2>5. 0 \in K /\ 1 \in K /\ 1 # 0 /\ 1 - 1 = 0
      BY <1>1
    <2>6. f[0] = h
      BY <2>3, <2>5
    <2>7. f[1] = NoNext
      BY <1>1, <1>2, <2>3, <2>5, <2>6
    <2> QED
      BY <2>4, <2>5, <2>6, <2>7
  <1> DEFINE Ends(n) == /\ \A k \in 0 .. n - 1 : /\ at[k] # NoNext
                                               /\ DescRead(q, at[k])
                                               /\ ~r.desc[at[k]].indirect
                        /\ r.desc[at[n - 1]].next = NoNext
  <1>5. ChainCollect(q, r, h) = IF \E n \in 1 .. MaxChain : Ends(n)
                                THEN LET n == CHOOSE k \in 1 .. MaxChain : Ends(k)
                                     IN [k \in 1 .. n |-> at[k - 1]]
                                ELSE << >>
    BY <1>3 DEF ChainCollect
  <1>6. ASSUME NEW n \in 1 .. MaxChain, Ends(n) PROVE n = 1
    <2>1. n # 1 => 1 \in 0 .. n - 1
      BY <1>1
    <2> QED
      BY <1>4, <1>6, <2>1
  <1>7. CASE \E n \in 1 .. MaxChain : Ends(n)
    <2>1. PICK n : n = CHOOSE k \in 1 .. MaxChain : Ends(k)
      OBVIOUS
    <2>2. n \in 1 .. MaxChain /\ Ends(n)
      BY <1>7, <2>1
    <2>3. n = 1
      BY <1>6, <2>2
    <2>4. ChainCollect(q, r, h) = [k \in 1 .. 1 |-> at[k - 1]]
      BY <1>5, <1>7, <2>1, <2>3
    <2>5. [k \in 1 .. 1 |-> at[k - 1]] = << h >>
      BY <1>4
    <2> QED
      BY <2>4, <2>5
  <1>8. CASE ~ \E n \in 1 .. MaxChain : Ends(n)
    BY <1>5, <1>8
  <1> QED
    BY <1>7, <1>8

LEMMA BeforeLone ==
    ASSUME NEW r, NEW h
    PROVE  Before(r, << h >>, TRUE, 2) = IF r.desc[h].write = TRUE THEN 0 + r.desc[h].len ELSE 0 + 0
  <1> DEFINE c == << h >>
             E(f) == [j \in 0 .. 2 - 1 |->
                        IF j = 0 THEN 0
                        ELSE f[j - 1] + (IF r.desc[c[j]].write = TRUE
                                         THEN r.desc[c[j]].len ELSE 0)]
             x == IF r.desc[h].write = TRUE THEN 0 + r.desc[h].len ELSE 0 + 0
             f0 == [j \in 0 .. 2 - 1 |-> IF j = 0 THEN 0 ELSE x]
  <1>1. c[1] = h
    OBVIOUS
  <1>2. f0 = E(f0)
    <2>1. ASSUME NEW j \in 0 .. 2 - 1 PROVE f0[j] = E(f0)[j]
      <3>1. CASE j = 0
        BY <3>1
      <3>2. CASE j = 1
        BY <1>1, <3>2
      <3> QED
        BY <3>1, <3>2
    <2> QED
      BY <2>1
  <1>3. PICK f : f = CHOOSE g : g = E(g)
    OBVIOUS
  <1>4. f = E(f)
    BY <1>2, <1>3
  <1>5. Before(r, c, TRUE, 2) = f[2 - 1]
    BY <1>3 DEF Before
  <1>6. f[1] = x
    BY <1>1, <1>4
  <1>7. f[2 - 1] = x
    BY <1>6
  <1> QED
    BY <1>5, <1>7, Zenon

\* What rx_deliver() writes: all of the frame, or as much as the buffer holds.
Delivery(o, d, len) ==
    /\ o.ok \in BOOLEAN /\ o.take \in BOOLEAN
    /\ o.ok = FALSE => o.written = 0
    /\ o.ok = TRUE => o.take = TRUE
    /\ o.written \in Nat
    /\ o.written > 0 => o.written = len + NetHdrLen \/ o.written = d.len

LEMMA LoneDelivery ==
    ASSUME NEW h, NEW len \in Nat, NEW c \in {<< >>, << h >>},
           rxr.desc[h].len \in Nat, NEW o, o = RxDeliver(c, len)
    PROVE  Delivery(o, rxr.desc[h], len)
  <1>1. CASE c = << >>
    <2>1. o = [ok |-> FALSE, take |-> TRUE, written |-> 0]
      BY <1>1 DEF RxDeliver
    <2> QED
      BY <2>1 DEF Delivery
  <1>2. CASE c = << h >>
    <2>1. PICK total : total = Before(rxr, c, TRUE, Len(c) + 1)
      OBVIOUS
    <2>2. total \in Nat /\ total \in {0, rxr.desc[h].len}
      <3>1. Len(c) + 1 = 2
        BY <1>2
      <3>2. total = Before(rxr, << h >>, TRUE, 2)
        BY <1>2, <2>1, <3>1
      <3>3. total = IF rxr.desc[h].write = TRUE THEN 0 + rxr.desc[h].len ELSE 0 + 0
        BY <3>2, BeforeLone, Zenon
      <3> QED
        BY <3>3
    <2>3. \/ o = [ok |-> FALSE, take |-> FALSE, written |-> 0]
          \/ o = [ok |-> TRUE, take |-> TRUE, written |-> Least(total, len + NetHdrLen)]
      <3>1. c # << >>
        BY <1>2
      <3> QED
        BY <2>1, <3>1, Zenon DEF RxDeliver
    <2>4. CASE o = [ok |-> FALSE, take |-> FALSE, written |-> 0]
      BY <2>4 DEF Delivery
    <2>5. CASE o = [ok |-> TRUE, take |-> TRUE, written |-> Least(total, len + NetHdrLen)]
      <3>1. o.ok = TRUE /\ o.take = TRUE /\ o.written = Least(total, len + NetHdrLen)
        BY <2>5
      <3>2. NetHdrLen \in Nat
        BY NetAssumption
      <3>3. o.written \in {total, len + NetHdrLen}
        BY <3>1 DEF Least
      <3>4. PICK x \in Nat : x = o.written /\ (x = total \/ x = len + NetHdrLen)
        <4>1. len + NetHdrLen \in Nat
          BY <3>2
        <4> QED
          BY <2>2, <3>3, <4>1
      <3>5. x > 0 => x = len + NetHdrLen \/ x = rxr.desc[h].len
        BY <2>2, <3>4
      <3> QED
        BY <3>1, <3>4, <3>5 DEF Delivery
    <2> QED
      BY <2>3, <2>4, <2>5
  <1> QED
    BY <1>1, <1>2

-----------------------------------------------------------------------------
(* What the guest has got and is about to get.                             *)

\* A frame for the guest, whole unless its buffer was too small.
Whole(x) ==
    /\ Kept(x.frame)
    /\ x.got = FrameLen[x.frame] \/ \E d \in RxBuffers : x.got = d.len - NetHdrLen

\* It arrived before everything in the ring g and before frame n of the wire.
Past(x, g, n) ==
    Whole(x) /\ x.frame < n /\ \A j \in 1 .. Len(g) : x.frame < g[j].frame

\* The frames t that the guest has got, and behind them those in its buffers b
\* that the used elements w announce, are in order of arrival.
Delivered(t, w, b, g, n) ==
    /\ \A k \in 1 .. Len(t) : Past(t[k], g, n)
    /\ \A j, k \in 1 .. Len(t) : j < k => t[j].frame < t[k].frame
    /\ \A k \in 1 .. Len(w) : w[k].len > 0 =>
          /\ Past(b[w[k].id], g, n)
          /\ \A j \in 1 .. Len(t) : t[j].frame < b[w[k].id].frame
    /\ \A j, k \in 1 .. Len(w) : j < k /\ w[j].len > 0 /\ w[k].len > 0
          => b[w[j].id].frame < b[w[k].id].frame

\* Whatever arrived before the ring's content did, did so before what it becomes.
StillPast(g, n, h, m) == \A x : Past(x, g, n) => Past(x, h, m)

LEMMA DeliveredMoves ==
    ASSUME NEW t, NEW w, NEW b, NEW g, NEW n, NEW h, NEW m,
           Delivered(t, w, b, g, n), StillPast(g, n, h, m)
    PROVE  Delivered(t, w, b, h, m)
  BY Zenon DEF Delivered, StillPast

LEMMA PastGet ==
    ASSUME NEW g \in Seq(RingCell), NEW l \in Nat, l <= Len(g), NEW h, Left(g, l, h), NEW n
    PROVE  StillPast(g, n, h, n)
  <1>1. PICK m \in Nat : m = Len(g) /\ l <= m
    OBVIOUS
  <1>2. Len(h) = m - l /\ \A j \in 1 .. m - l : h[j] = g[j + l]
    BY <1>1 DEF Left
  <1> SUFFICES ASSUME NEW x, Past(x, g, n), NEW j \in 1 .. m - l PROVE x.frame < h[j].frame
    BY <1>2 DEF StillPast, Past
  <1>3. j + l \in 1 .. Len(g)
    BY <1>1
  <1> QED
    BY <1>2, <1>3 DEF Past

LEMMA PastPut ==
    ASSUME NEW g \in Seq(RingCell), NEW n, Kept(n), NEW h, Extended(g, n, h)
    PROVE  StillPast(g, n, h, n + 1)
  <1>1. PICK m \in Nat : m = Len(g)
    OBVIOUS
  <1>2. PICK size \in Nat : size = FrameLen[n] + 2 /\ n \in Nat
    BY KeptLength
  <1>3. /\ Len(h) = m + size /\ \A j \in 1 .. m : h[j] = g[j]
        /\ \A k \in 1 .. size : h[m + k] = [frame |-> n, cell |-> k]
    <2>1. FrameLen[n] \in Nat
      BY KeptLength
    <2>2. Len(g) + FrameLen[n] + 2 = m + size
      BY <1>1, <1>2, <2>1
    <2> QED
      BY <1>1, <1>2, <2>2 DEF Extended
  <1> SUFFICES ASSUME NEW x, Past(x, g, n)
               PROVE  x.frame < n + 1 /\ \A j \in 1 .. m + size : x.frame < h[j].frame
    BY <1>3 DEF StillPast, Past
  <1>4. x.frame \in Nat /\ x.frame < n
    BY KeptLength DEF Past, Whole
  <1>5. ASSUME NEW j \in 1 .. m + size PROVE x.frame < h[j].frame
    <2>1. CASE j \in 1 .. m
      BY <1>1, <1>3, <2>1 DEF Past
    <2>2. CASE j \notin 1 .. m
      <3>1. j - m \in 1 .. size /\ m + (j - m) = j
        BY <1>1, <1>2, <2>2
      <3>2. h[j] = [frame |-> n, cell |-> j - m]
        BY <1>3, <3>1
      <3>3. h[j].frame = n
        BY <3>2
      <3> QED
        BY <1>4, <3>3
    <2> QED
      BY <2>1, <2>2
  <1> QED
    BY <1>2, <1>4, <1>5

LEMMA PastSkip ==
    ASSUME NEW g, NEW n \in Nat
    PROVE  StillPast(g, n, g, n + 1)
  <1> SUFFICES ASSUME NEW x, Past(x, g, n) PROVE x.frame < n + 1
    BY DEF StillPast, Past
  <1>1. x.frame \in Nat /\ x.frame < n
    BY KeptLength DEF Past, Whole
  <1> QED
    BY <1>1

\* The device has filled the buffer u.id, or has completed it empty.
LEMMA DeliveredServe ==
    ASSUME NEW t, NEW w, NEW w2, NEW b, NEW b2, NEW g, NEW n, NEW h, NEW u,
           Delivered(t, w, b, g, n), StillPast(g, n, h, n), Grown(w, w2, u),
           \A k \in 1 .. Len(w) : b2[w[k].id] = b[w[k].id],
           u.len > 0 => /\ Past(b2[u.id], h, n)
                        /\ \A x : Past(x, g, n) => x.frame < b2[u.id].frame
    PROVE  Delivered(t, w2, b2, h, n)
  <1>1. PICK p \in Nat : p = Len(w) /\ Len(w2) = p + 1
    BY DEF Grown
  <1>2. w2[p + 1] = u /\ \A k \in 1 .. p : w2[k] = w[k] /\ b2[w2[k].id] = b[w[k].id]
    BY <1>1 DEF Grown
  <1>3. \A k \in 1 .. p + 1 : k \in 1 .. p \/ k = p + 1
    BY <1>1
  <1>4. Delivered(t, w, b, h, n)
    BY DeliveredMoves
  <1>5. \A k \in 1 .. Len(t) : Past(t[k], g, n) /\ Past(t[k], h, n)
    BY <1>4 DEF Delivered
  <1>6. \A j, k \in 1 .. Len(t) : j < k => t[j].frame < t[k].frame
    BY DEF Delivered
  <1>7. ASSUME NEW k \in 1 .. p + 1, w2[k].len > 0
        PROVE  /\ Past(b2[w2[k].id], h, n)
               /\ \A j \in 1 .. Len(t) : t[j].frame < b2[w2[k].id].frame
    <2>1. CASE k \in 1 .. p
      <3>1. w[k].len > 0 /\ b2[w2[k].id] = b[w[k].id] /\ k \in 1 .. Len(w)
        BY <1>1, <1>2, <1>7, <2>1
      <3> QED
        BY <1>4, <3>1 DEF Delivered
    <2>2. CASE k = p + 1
      BY <1>2, <1>5, <1>7, <2>2
    <2> QED
      BY <1>3, <2>1, <2>2
  <1>8. ASSUME NEW j \in 1 .. p + 1, NEW k \in 1 .. p + 1, j < k, w2[j].len > 0, w2[k].len > 0
        PROVE  b2[w2[j].id].frame < b2[w2[k].id].frame
    <2>1. j \in 1 .. p
      BY <1>1, <1>8
    <2>2. /\ w[j].len > 0 /\ b2[w2[j].id] = b[w[j].id] /\ j \in 1 .. Len(w)
          /\ Past(b[w[j].id], g, n)
      BY <1>1, <1>2, <1>8, <2>1 DEF Delivered
    <2>3. CASE k \in 1 .. p
      <3>1. w[k].len > 0 /\ b2[w2[k].id] = b[w[k].id] /\ k \in 1 .. Len(w)
        BY <1>1, <1>2, <1>8, <2>3
      <3> QED
        BY <1>8, <2>2, <3>1 DEF Delivered
    <2>4. CASE k = p + 1
      BY <1>2, <1>8, <2>2, <2>4
    <2> QED
      BY <1>3, <2>3, <2>4
  <1> QED
    BY <1>1, <1>5, <1>6, <1>7, <1>8 DEF Delivered

\* The driver has taken the oldest used element, and its frame if it has one.
LEMMA DeliveredTake ==
    ASSUME NEW S, NEW t \in Seq(S), NEW t2, NEW w, NEW w2, NEW b, NEW b2, NEW g, NEW n,
           Delivered(t, w, b, g, n), Shrunk(w, w2),
           \A k \in 1 .. Len(w2) : b2[w2[k].id] = b[w2[k].id],
           t2 = IF w[1].len > 0 THEN Append(t, b[w[1].id]) ELSE t
    PROVE  Delivered(t2, w2, b2, g, n)
  <1>1. PICK p \in Nat : p + 1 = Len(w) /\ p = Len(w2)
    <2>1. Len(w) - 1 \in Nat
      BY DEF Shrunk
    <2> QED
      BY <2>1 DEF Shrunk
  <1>2. ASSUME NEW k \in 1 .. p
        PROVE  w2[k] = w[k + 1] /\ b2[w2[k].id] = b[w[k + 1].id] /\ k + 1 \in 1 .. Len(w)
    BY <1>1 DEF Shrunk
  <1>3. 1 \in 1 .. Len(w)
    BY <1>1
  <1>4. PICK l \in Nat : l = Len(t)
    OBVIOUS
  <1>5. ASSUME NEW j \in 1 .. p, NEW k \in 1 .. p, j < k, w2[j].len > 0, w2[k].len > 0
        PROVE  b2[w2[j].id].frame < b2[w2[k].id].frame
    <2>1. j + 1 < k + 1
      BY <1>1, <1>5
    <2> QED
      BY <1>2, <1>5, <2>1 DEF Delivered
  <1>6. CASE w[1].len > 0
    <2>1. PICK e : e = b[w[1].id]
      OBVIOUS
    <2>2. t2 = Append(t, e)
      BY <1>6, <2>1
    <2>3. Len(t2) = l + 1 /\ t2[l + 1] = e /\ \A k \in 1 .. l : t2[k] = t[k]
      BY <1>4, <2>2
    <2>4. Past(e, g, n) /\ \A j \in 1 .. l : t[j].frame < e.frame
      BY <1>3, <1>4, <1>6, <2>1 DEF Delivered
    <2>5. \A k \in 1 .. l + 1 : k \in 1 .. l \/ k = l + 1
      BY <1>4
    <2>6. \A k \in 1 .. l + 1 : Past(t2[k], g, n)
      BY <1>4, <2>3, <2>4, <2>5 DEF Delivered
    <2>7. ASSUME NEW j \in 1 .. l + 1, NEW k \in 1 .. l + 1, j < k
          PROVE  t2[j].frame < t2[k].frame
      <3>1. j \in 1 .. l
        BY <1>4, <2>7
      <3>2. CASE k \in 1 .. l
        BY <1>4, <2>3, <2>7, <3>1, <3>2 DEF Delivered
      <3>3. CASE k = l + 1
        BY <2>3, <2>4, <3>1, <3>3
      <3> QED
        BY <2>5, <3>2, <3>3
    <2>8. ASSUME NEW k \in 1 .. p, w2[k].len > 0
          PROVE  /\ Past(b2[w2[k].id], g, n)
                 /\ \A j \in 1 .. l + 1 : t2[j].frame < b2[w2[k].id].frame
      <3>1. w[k + 1].len > 0 /\ b2[w2[k].id] = b[w[k + 1].id] /\ k + 1 \in 1 .. Len(w) /\ 1 < k + 1
        BY <1>2, <2>8
      <3>2. e.frame < b2[w2[k].id].frame
        BY <1>3, <1>6, <2>1, <3>1 DEF Delivered
      <3>3. \A j \in 1 .. l : t[j].frame < b2[w2[k].id].frame
        BY <1>4, <3>1 DEF Delivered
      <3>4. Past(b2[w2[k].id], g, n)
        BY <3>1 DEF Delivered
      <3> QED
        BY <2>3, <2>5, <3>2, <3>3, <3>4
    <2> QED
      BY <1>1, <1>5, <2>3, <2>6, <2>7, <2>8 DEF Delivered
  <1>7. CASE ~(w[1].len > 0)
    <2>1. t2 = t
      BY <1>7
    <2>2. ASSUME NEW k \in 1 .. p, w2[k].len > 0
          PROVE  /\ Past(b2[w2[k].id], g, n)
                 /\ \A j \in 1 .. Len(t) : t[j].frame < b2[w2[k].id].frame
      BY <1>2, <2>2 DEF Delivered
    <2> QED
      BY <1>1, <1>5, <2>1, <2>2 DEF Delivered
  <1> QED
    BY <1>6, <1>7

-----------------------------------------------------------------------------
(* The invariant of the frames.                                            *)

RxDesc == {[d EXCEPT !.next = NoNext] : d \in RxBuffers}

InHand(at) == IF at = "body" THEN 1 ELSE 0
TakenOut(at) == IF at = "body" THEN 2 ELSE 0

\* The ring is in step with what the emulator is doing.
BridgeInv ==
    /\ next \in Nat
    /\ InStep(nbRing, TakenOut(poll.at))
    /\ \A j \in 1 .. Len(nbRing) : nbRing[j].frame < next
    /\ poll.at = "body" => AtPayload(nbRing, poll.len)

\* Every frame the bridge has kept is somewhere.
CountInv ==
    /\ nb = [up |-> nb.up, kept |-> nb.kept]
    /\ vnet.frames \in Nat /\ vnet.dropped \in Nat
    /\ nb.kept = vnet.frames + vnet.dropped + Cardinality(Starts(nbRing)) + InHand(poll.at)

\* Receive chains are buffers of one descriptor.
RxSingle(in, desc) ==
    \A k \in 1 .. Len(in) : in[k].slots = << in[k].head >> /\ desc[in[k].head] \in RxDesc

GotInv ==
    /\ \E S : got \in Seq(S)
    /\ buf = [i \in Slots |-> buf[i]]
    /\ Delivered(got, UsedWindow(rxr, ndrv.rxUsed), buf, nbRing, next)

FrameInv == BridgeInv /\ CountInv /\ RxSingle(ndrv.rxIn, rxr.desc) /\ GotInv

LEMMA FrameStarts == NetInit => FrameInv
  <1> SUFFICES ASSUME NetInit PROVE FrameInv
    OBVIOUS
  <1>1. /\ nbRing = << >> /\ poll.at = "no" /\ next = 1 /\ got = << >>
        /\ nb = [up |-> FALSE, kept |-> 0] /\ vnet.frames = 0 /\ vnet.dropped = 0
        /\ ndrv.rxIn = << >> /\ ndrv.rxUsed = 0 /\ rxr = EmptyRing
        /\ buf = [i \in Slots |-> NoFrame]
    BY DEF NetInit
  <1>2. BridgeInv
    BY <1>1 DEF BridgeInv, InStep, TakenOut
  <1>3. CountInv
    <2>1. Starts(nbRing) = {}
      BY <1>1 DEF Starts
    <2>2. Cardinality(Starts(nbRing)) = 0
      BY <2>1, FS_EmptySet
    <2> QED
      BY <1>1, <2>2 DEF CountInv, InHand
  <1>4. RxSingle(ndrv.rxIn, rxr.desc)
    BY <1>1 DEF RxSingle
  <1>5. GotInv
    <2>1. UsedWindow(rxr, ndrv.rxUsed) = << >>
      <3>1. rxr.usedIdx = 0 /\ IdxMod \in Nat \ {0}
        BY <1>1, QueueAssumption DEF EmptyRing
      <3>2. (rxr.usedIdx - ndrv.rxUsed) % IdxMod = 0
        BY <1>1, <3>1
      <3> QED
        BY <3>2 DEF UsedWindow
    <2>2. << >> \in Seq({})
      OBVIOUS
    <2> QED
      BY <1>1, <2>1, <2>2 DEF GotInv, Delivered
  <1> QED
    BY <1>2, <1>3, <1>4, <1>5 DEF FrameInv

\* What has nothing to do with received frames.
RxQuiet ==
    /\ UNCHANGED <<nbRing, next, buf, got, nb.kept, vnet.frames, vnet.dropped>>
    /\ UNCHANGED <<rxr.desc, rxr.used, rxr.usedIdx, ndrv.rxUsed, ndrv.rxIn>>
    /\ nb' = [up |-> nb'.up, kept |-> nb'.kept]
    /\ UNCHANGED poll \/ (poll.at # "body" /\ poll'.at # "body")

LEMMA QuietFrames == ASSUME FrameInv, RxQuiet PROVE FrameInv'
  <1>1. UsedWindow(rxr, ndrv.rxUsed)' = UsedWindow(rxr, ndrv.rxUsed)
    BY DEF RxQuiet, UsedWindow
  <1>2. GotInv'
    BY <1>1 DEF FrameInv, RxQuiet, GotInv
  <1>3. TakenOut(poll.at)' = TakenOut(poll.at) /\ InHand(poll.at)' = InHand(poll.at)
    BY DEF RxQuiet, TakenOut, InHand
  <1>4. BridgeInv'
    BY <1>3 DEF FrameInv, RxQuiet, BridgeInv
  <1>5. CountInv'
    BY <1>3 DEF FrameInv, RxQuiet, CountInv
  <1>6. RxSingle(ndrv.rxIn, rxr.desc)'
    BY DEF FrameInv, RxQuiet
  <1> QED
    BY <1>2, <1>4, <1>5, <1>6 DEF FrameInv

\* The records that the steps take apart.
LEMMA NetRecords ==
    ASSUME NetInv, FrameInv
    PROVE  /\ DriverRecord(ndrv) /\ DeviceRecord(vnet) /\ PollRecord(poll)
           /\ nb = [up |-> nb.up, kept |-> nb.kept]
           /\ ndrv.phase = "ok" => RingRecord(rxr) /\ RingRecord(txr)
           /\ ndrv.phase = "reset" => rxr = EmptyRing
  BY DEF NetInv, NetShape, NetLive, NetDormant, Agreed, FrameInv, CountInv

LEMMA QuietSteps ==
    ASSUME NetInv, FrameInv,
           \/ BridgeStart \/ BridgeSuspend
           \/ TxNotify \/ TxOne \/ TxEnd \/ PollBegin
           \/ NetDrvSetup \/ NetDrvSend \/ NetDrvInterrupt
           \/ NetDrvTxDone \/ NetDrvEnable \/ NetDrvRecheck
    PROVE  FrameInv'
  <1>1. /\ DriverRecord(ndrv) /\ DeviceRecord(vnet) /\ PollRecord(poll)
        /\ nb = [up |-> nb.up, kept |-> nb.kept]
        /\ ndrv.phase = "ok" => RingRecord(rxr) /\ RingRecord(txr)
    BY NetRecords
  <1>2. CASE BridgeStart \/ BridgeSuspend
    <2>1. \E b : nb' = [nb EXCEPT !.up = b]
      BY <1>2 DEF BridgeStart, BridgeSuspend
    <2>2. nb'.kept = nb.kept /\ nb' = [up |-> nb'.up, kept |-> nb'.kept]
      BY <1>1, <2>1
    <2> QED
      BY <1>2, <2>2, QuietFrames DEF BridgeStart, BridgeSuspend, RxQuiet, guestVars
  <1>3. CASE TxEnd \/ PollBegin
    <2>1. poll.at # "body" /\ poll'.at # "body"
      <3>1. CASE TxEnd
        <4>1. poll.at = "tx" /\ poll' = [poll EXCEPT !.at = "no", !.len = 0]
          BY <3>1 DEF TxEnd
        <4> QED
          BY <1>1, <4>1 DEF PollRecord
      <3>2. CASE PollBegin
        <4>1. poll.at = "no" /\ poll' = [at |-> "peek", budget |-> Budget, len |-> 0]
          BY <3>2 DEF PollBegin
        <4> QED
          BY <4>1
      <3> QED
        BY <1>3, <3>1, <3>2
    <2> QED
      BY <1>1, <1>3, <2>1, QuietFrames DEF TxEnd, PollBegin, RxQuiet, guestVars, bridgeVars
  <1>4. CASE TxNotify
    <2>1. poll.at # "body" /\ poll'.at # "body"
      BY <1>1, <1>4 DEF TxNotify, PollRecord
    <2>2. ndrv'.rxUsed = ndrv.rxUsed /\ ndrv'.rxIn = ndrv.rxIn
      BY <1>1, <1>4 DEF TxNotify, DriverRecord
    <2> QED
      BY <1>1, <1>4, <2>1, <2>2, QuietFrames DEF TxNotify, RxQuiet, bridgeVars
  <1>5. CASE TxOne
    <2>1. \E v : /\ v = Interrupted(vnet, vnet.tx, txr)
                 /\ vnet' = [v EXCEPT !.tx.lastAvail = (@ + 1) % IdxMod]
      BY <1>5 DEF TxOne
    <2>2. vnet'.frames = vnet.frames /\ vnet'.dropped = vnet.dropped
      BY <1>1, <2>1 DEF Interrupted, DeviceRecord
    <2> QED
      BY <1>1, <1>5, <2>2, QuietFrames DEF TxOne, RxQuiet
  <1>6. CASE NetDrvSetup
    <2>1. vnet'.frames = vnet.frames /\ vnet'.dropped = vnet.dropped
      BY <1>1, <1>6 DEF NetDrvSetup, WriteStatus, DeviceRecord
    <2>2. ndrv'.rxUsed = ndrv.rxUsed /\ ndrv'.rxIn = ndrv.rxIn
      BY <1>1, <1>6 DEF NetDrvSetup, DriverRecord
    <2> QED
      BY <1>1, <1>6, <2>1, <2>2, QuietFrames DEF NetDrvSetup, RxQuiet, bridgeVars
  <1>7. CASE NetDrvSend
    <2>1. ndrv'.rxUsed = ndrv.rxUsed /\ ndrv'.rxIn = ndrv.rxIn
      BY <1>1, <1>7 DEF NetDrvSend, DriverRecord
    <2> QED
      BY <1>1, <1>7, <2>1, QuietFrames DEF NetDrvSend, RxQuiet, bridgeVars
  <1>8. CASE NetDrvTxDone
    <2>1. ndrv'.rxUsed = ndrv.rxUsed /\ ndrv'.rxIn = ndrv.rxIn
      BY <1>1, <1>8 DEF NetDrvTxDone, DriverRecord
    <2> QED
      BY <1>1, <1>8, <2>1, QuietFrames DEF NetDrvTxDone, RxQuiet, bridgeVars
  <1>9. CASE NetDrvInterrupt \/ NetDrvEnable \/ NetDrvRecheck
    <2>1. /\ \E i : vnet' = [vnet EXCEPT !.int = i]
          /\ \E c : ndrv' = [ndrv EXCEPT !.pc = c]
          /\ rxr' = rxr \/ \E i : rxr' = [rxr EXCEPT !.noint = i]
          /\ UNCHANGED <<buf, bridgeVars, poll, got>>
          /\ ndrv.pc # "thread" \/ line = TRUE
      <3>1. CASE NetDrvInterrupt
        BY <3>1 DEF NetDrvInterrupt
      <3>2. CASE NetDrvEnable \/ NetDrvRecheck
        <4>1. vnet' = [vnet EXCEPT !.int = vnet.int]
          BY <1>1, <3>2 DEF NetDrvEnable, NetDrvRecheck, DeviceRecord
        <4> QED
          BY <3>2, <4>1 DEF NetDrvEnable, NetDrvRecheck
      <3> QED
        BY <1>9, <3>1, <3>2
    <2>2. RingRecord(rxr)
      BY <1>1, <2>1 DEF NetInv, NetDormant, DriverRecord
    <2>3. rxr'.desc = rxr.desc /\ rxr'.used = rxr.used /\ rxr'.usedIdx = rxr.usedIdx
      BY <2>1, <2>2 DEF RingRecord
    <2>4. ndrv'.rxUsed = ndrv.rxUsed /\ ndrv'.rxIn = ndrv.rxIn
      BY <1>1, <2>1 DEF DriverRecord
    <2>5. vnet'.frames = vnet.frames /\ vnet'.dropped = vnet.dropped
      BY <1>1, <2>1 DEF DeviceRecord
    <2> QED
      BY <1>1, <2>1, <2>3, <2>4, <2>5, QuietFrames DEF RxQuiet, bridgeVars
  <1> QED
    BY <1>2, <1>3, <1>4, <1>5, <1>6, <1>7, <1>8, <1>9

-----------------------------------------------------------------------------
(* The steps that move frames.                                             *)

\* nb_rx_thread() keeps the frame.
LEMMA KeepFrame ==
    ASSUME FrameInv, Kept(next), RoomFor(next), next' = next + 1,
           nbRing' = RingPut(nbRing, Cells(next)), nb' = [nb EXCEPT !.kept = @ + 1],
           UNCHANGED <<vnet, guestVars, poll>>
    PROVE  FrameInv'
  <1>1. /\ nbRing \in Seq(RingCell) /\ InStep(nbRing, TakenOut(poll.at))
        /\ TakenOut(poll.at) \in Nat
        /\ \A j \in 1 .. Len(nbRing) : nbRing[j].frame < next
    BY DEF FrameInv, BridgeInv, InStep, TakenOut
  <1>2. nbRing' = nbRing \o Cells(next)
    <2>1. PICK size \in Nat : size = FrameLen[next] + 2 /\ FrameLen[next] \in Nat
      BY KeptLength
    <2>2. PICK c : c = Cells(next)
      OBVIOUS
    <2>3. c \in Seq(RingCell) /\ Len(c) = size
      <3>1. next \in Nat
        BY DEF FrameInv, BridgeInv
      <3>2. c \in [1 .. size -> RingCell]
        BY <2>1, <2>2, <3>1 DEF Cells, RingCell
      <3> QED
        BY <3>2, FunctionIsSeq
    <2>4. Least(Len(c), RingCap - Len(nbRing)) = Len(c)
      <3>1. RingCap \in Nat /\ Len(nbRing) \in Nat
        BY <1>1, NetAssumption
      <3>2. RingCap - Len(nbRing) >= 2 + FrameLen[next]
        BY DEF RoomFor
      <3> QED
        BY <2>1, <2>3, <3>1, <3>2 DEF Least
    <2>5. SubSeq(c, 1, Len(c)) = c
      BY <2>3, SubSeqFull
    <2> QED
      BY <2>2, <2>4, <2>5 DEF RingPut
  <1>3. nbRing' \in Seq(RingCell) /\ Extended(nbRing, next, nbRing')
    BY <1>1, <1>2, PutExtends
  <1>4. InStep(nbRing', TakenOut(poll.at))
    BY <1>1, <1>3, InStepPut
  <1>5. /\ TakenOut(poll.at)' = TakenOut(poll.at) /\ InHand(poll.at)' = InHand(poll.at)
        /\ InHand(poll.at) \in Nat
    BY DEF TakenOut, InHand
  <1>6. PICK m \in Nat, size \in Nat :
           m = Len(nbRing) /\ size = FrameLen[next] + 2 /\ FrameLen[next] \in Nat /\ next \in Nat
    <2>1. Len(nbRing) \in Nat
      BY <1>1
    <2>2. FrameLen[next] \in Nat /\ next \in Nat
      BY KeptLength
    <2>3. FrameLen[next] + 2 \in Nat
      BY <2>2
    <2> QED
      BY <2>1, <2>2, <2>3
  <1>7. /\ Len(nbRing') = m + size
        /\ \A j \in 1 .. m : nbRing'[j] = nbRing[j]
        /\ \A k \in 1 .. size : nbRing'[m + k] = [frame |-> next, cell |-> k]
    <2>1. Len(nbRing) + FrameLen[next] + 2 = m + size
      BY <1>6
    <2> QED
      BY <1>3, <1>6, <2>1 DEF Extended
  <1>8. BridgeInv'
    <2>1. ASSUME NEW j \in 1 .. m + size PROVE nbRing'[j].frame < next + 1
      <3>1. CASE j \in 1 .. m
        <4>1. nbRing'[j] = nbRing[j] /\ nbRing[j].frame < next /\ nbRing[j] \in RingCell
          BY <1>1, <1>6, <1>7, <3>1
        <4>2. nbRing[j].frame \in Nat
          BY <4>1 DEF RingCell
        <4> QED
          BY <1>6, <4>1, <4>2
      <3>2. CASE j \notin 1 .. m
        <4>1. j - m \in 1 .. size /\ m + (j - m) = j
          BY <1>6, <3>2
        <4>2. nbRing'[j] = [frame |-> next, cell |-> j - m]
          BY <1>7, <4>1
        <4>3. nbRing'[j].frame = next
          BY <4>2
        <4> QED
          BY <1>6, <4>3
      <3> QED
        BY <3>1, <3>2
    <2>2. ASSUME poll.at = "body" PROVE AtPayload(nbRing', poll.len)
      <3>1. AtPayload(nbRing, poll.len)
        BY <2>2 DEF FrameInv, BridgeInv
      <3>2. m >= 1 /\ m + size >= 1 /\ 1 \in 1 .. m
        BY <1>6, <3>1 DEF AtPayload
      <3> QED
        BY <1>6, <1>7, <3>1, <3>2 DEF AtPayload
    <2> QED
      BY <1>4, <1>5, <1>6, <1>7, <2>1, <2>2 DEF BridgeInv
  <1>9. CountInv'
    <2>1. Cardinality(Starts(nbRing')) = Cardinality(Starts(nbRing)) + 1
      BY <1>1, <1>3, StartsPut
    <2>2. PICK a \in Nat : a = Cardinality(Starts(nbRing))
      BY <1>1, StartsFinite
    <2>3. /\ nb = [up |-> nb.up, kept |-> nb.kept]
          /\ vnet.frames \in Nat /\ vnet.dropped \in Nat
          /\ nb.kept = vnet.frames + vnet.dropped + a + InHand(poll.at)
      BY <2>2 DEF FrameInv, CountInv
    <2>4. nb'.kept = nb.kept + 1 /\ nb' = [up |-> nb'.up, kept |-> nb'.kept]
      BY <2>3
    <2>5. nb'.kept = vnet.frames + vnet.dropped + (a + 1) + InHand(poll.at)
      BY <1>5, <2>3, <2>4
    <2> QED
      BY <1>5, <2>1, <2>2, <2>3, <2>4, <2>5 DEF CountInv
  <1>10. GotInv'
    <2>1. StillPast(nbRing, next, nbRing', next + 1)
      BY <1>1, <1>3, PastPut
    <2>2. Delivered(got, UsedWindow(rxr, ndrv.rxUsed), buf, nbRing, next)
      BY DEF FrameInv, GotInv
    <2>3. Delivered(got, UsedWindow(rxr, ndrv.rxUsed), buf, nbRing', next + 1)
      BY <2>1, <2>2, DeliveredMoves
    <2>4. UNCHANGED <<got, rxr, ndrv, buf>>
      BY DEF guestVars
    <2> QED
      BY <2>3, <2>4 DEF FrameInv, GotInv
  <1>11. RxSingle(ndrv.rxIn, rxr.desc)'
    BY DEF FrameInv, guestVars
  <1> QED
    BY <1>8, <1>9, <1>10, <1>11 DEF FrameInv

LEMMA BridgeRxFrames == ASSUME FrameInv, BridgeRx PROVE FrameInv'
  <1>1. /\ next \in Frames /\ next' = next + 1 /\ UNCHANGED <<vnet, guestVars, poll>>
        /\ \/ /\ Kept(next) /\ RoomFor(next)
              /\ nbRing' = RingPut(nbRing, Cells(next)) /\ nb' = [nb EXCEPT !.kept = @ + 1]
           \/ UNCHANGED <<nbRing, nb>>
    BY DEF BridgeRx, Kept
  <1>2. CASE UNCHANGED <<nbRing, nb>>
    <2>1. UNCHANGED <<got, rxr, ndrv, buf>>
      BY <1>1 DEF guestVars
    <2>2. next \in Nat /\ Delivered(got, UsedWindow(rxr, ndrv.rxUsed), buf, nbRing, next)
      BY DEF FrameInv, BridgeInv, GotInv
    <2>3. StillPast(nbRing, next, nbRing, next + 1)
      BY <2>2, PastSkip
    <2>4. Delivered(got, UsedWindow(rxr, ndrv.rxUsed), buf, nbRing, next + 1)
      BY <2>2, <2>3, DeliveredMoves
    <2>5. GotInv'
      BY <1>1, <1>2, <2>1, <2>4 DEF FrameInv, GotInv
    <2>6. BridgeInv'
      <3>1. ASSUME NEW j \in 1 .. Len(nbRing) PROVE nbRing[j].frame < next + 1
        <4>1. nbRing[j] \in RingCell /\ nbRing[j].frame < next
          BY DEF FrameInv, BridgeInv, InStep
        <4>2. nbRing[j].frame \in Nat
          BY <4>1 DEF RingCell
        <4> QED
          BY <2>2, <4>1, <4>2
      <3> QED
        BY <1>1, <1>2, <2>2, <3>1 DEF FrameInv, BridgeInv
    <2>7. CountInv' /\ RxSingle(ndrv.rxIn, rxr.desc)'
      BY <1>1, <1>2, <2>1 DEF FrameInv, CountInv
    <2> QED
      BY <2>5, <2>6, <2>7 DEF FrameInv
  <1> QED
    BY <1>1, <1>2, KeepFrame

LEMMA PollPeekFrames == ASSUME NetInv, FrameInv, PollPeek PROVE FrameInv'
  <1>1. poll.at = "peek" /\ UNCHANGED <<vnet, guestVars, nb, next>>
    BY DEF PollPeek
  <1>2. /\ nbRing \in Seq(RingCell) /\ InStep(nbRing, 0)
        /\ \A j \in 1 .. Len(nbRing) : nbRing[j].frame < next
    BY <1>1 DEF FrameInv, BridgeInv, InStep, TakenOut
  <1>3. UNCHANGED <<got, rxr, ndrv, buf>>
    BY <1>1 DEF guestVars
  <1>4. nb = [up |-> nb.up, kept |-> nb.kept]
    BY DEF FrameInv, CountInv
  <1>5. CASE poll.budget = 0 \/ Len(nbRing) < 2
    <2>1. poll' = [at |-> "no", budget |-> 0, len |-> 0] /\ UNCHANGED nbRing
      BY <1>5 DEF PollPeek
    <2>2. poll'.at # "body"
      BY <2>1
    <2> QED
      BY <1>1, <1>3, <1>4, <2>1, <2>2, QuietFrames DEF RxQuiet
  <1>6. CASE ~(poll.budget = 0 \/ Len(nbRing) < 2)
    <2>1. PICK m \in Nat : m = Len(nbRing) /\ m >= 2
      BY <1>2, <1>6
    <2>2. PICK f : f = nbRing[1].frame
      OBVIOUS
    <2>3. nbRing[1].cell = 1 /\ Kept(f) /\ m >= FrameLen[f] + 2
          /\ nbRing[3] = [frame |-> f, cell |-> 3]
      <3>1. Len(nbRing) >= 1
        BY <2>1
      <3> QED
        BY <1>2, <2>1, <2>2, <3>1, InStepFirst
    <2>4. FrameLen[f] \in Nat \ {0} /\ FrameLen[f] <= FrameMax /\ FrameMax \in Nat
      BY <2>3, KeptLength, NetAssumption
    <2>5. PeekLen = FrameLen[f]
      BY <2>2, <2>3 DEF PeekLen
    <2>6. ~(PeekLen > FrameMax)
      BY <2>4, <2>5
    <2>7. /\ nbRing' = RingGet(2)
          /\ poll' = [at |-> "body", budget |-> poll.budget - 1, len |-> PeekLen]
      BY <1>6, <2>6 DEF PollPeek
    <2>8. PICK two \in Nat : two = 2 /\ two <= Len(nbRing) /\ Dropped(nbRing, two, nbRing')
      BY <2>1, <2>7 DEF RingGet, Dropped
    <2>9. InStep(nbRing', 0 + two) /\ Left(nbRing, two, nbRing') /\ nbRing' \in Seq(RingCell)
      <3>1. PICK o \in Nat : o = 0 /\ InStep(nbRing, o)
        BY <1>2
      <3>2. InStep(nbRing', o + two) /\ Left(nbRing, two, nbRing')
        BY <2>8, <3>1, InStepGet
      <3> QED
        BY <3>1, <3>2 DEF InStep
    <2>10. /\ InStep(nbRing', 2) /\ Len(nbRing') = m - 2
           /\ \A j \in 1 .. m - 2 : nbRing'[j] = nbRing[j + 2] /\ j + 2 \in 1 .. m
      BY <2>1, <2>8, <2>9 DEF Left
    <2>11. poll'.at = "body" /\ poll'.len = FrameLen[f]
      BY <2>5, <2>7
    <2>12. AtPayload(nbRing', FrameLen[f])
      <3>1. m - 2 >= 1 /\ 1 \in 1 .. m - 2 /\ 1 + 2 = 3
        BY <2>1, <2>3, <2>4
      <3>2. nbRing'[1] = [frame |-> f, cell |-> 3]
        BY <2>3, <2>10, <3>1
      <3>3. nbRing'[1].frame = f /\ nbRing'[1].cell = 3
        BY <3>2
      <3> QED
        BY <2>10, <3>1, <3>3 DEF AtPayload
    <2>13. BridgeInv'
      <3>1. \A j \in 1 .. m - 2 : nbRing'[j].frame < next
        BY <1>2, <2>1, <2>10
      <3>2. next \in Nat /\ next' = next
        BY <1>1 DEF FrameInv, BridgeInv
      <3> QED
        BY <2>10, <2>11, <2>12, <3>1, <3>2 DEF BridgeInv, TakenOut
    <2>14. CountInv'
      <3>1. Cardinality(Starts(nbRing)) = Cardinality(Starts(nbRing')) + 1
        <4>1. Len(nbRing) >= 2 /\ Left(nbRing, 2, nbRing')
          BY <2>1, <2>8, <2>9
        <4> QED
          BY <1>2, <2>9, <4>1, StartsLength
      <3>2. PICK a \in Nat : a = Cardinality(Starts(nbRing'))
        BY <2>9, StartsFinite
      <3>3. /\ vnet.frames \in Nat /\ vnet.dropped \in Nat
            /\ nb.kept = vnet.frames + vnet.dropped + (a + 1) + 0
        BY <1>1, <3>1, <3>2 DEF FrameInv, CountInv, InHand
      <3>4. nb.kept = vnet.frames + vnet.dropped + a + 1
        BY <3>3
      <3> QED
        BY <1>1, <1>4, <2>11, <3>2, <3>3, <3>4 DEF CountInv, InHand
    <2>15. GotInv'
      <3>1. StillPast(nbRing, next, nbRing', next)
        BY <1>2, <2>8, <2>9, PastGet
      <3>2. Delivered(got, UsedWindow(rxr, ndrv.rxUsed), buf, nbRing, next)
        BY DEF FrameInv, GotInv
      <3>3. Delivered(got, UsedWindow(rxr, ndrv.rxUsed), buf, nbRing', next)
        BY <3>1, <3>2, DeliveredMoves
      <3> QED
        BY <1>1, <1>3, <3>3 DEF FrameInv, GotInv
    <2> QED
      BY <1>3, <2>13, <2>14, <2>15 DEF FrameInv
  <1> QED
    BY <1>5, <1>6

LEMMA RxDescIs ==
    ASSUME NEW x \in RxDesc
    PROVE  x.next = NoNext /\ x.len \in Nat /\ \E d \in RxBuffers : x.len = d.len
  <1>1. PICK d \in RxBuffers : x = [d EXCEPT !.next = NoNext]
    BY DEF RxDesc
  <1>2. d \in [write : BOOLEAN, len : Nat, next : Int, indirect : BOOLEAN, ram : BOOLEAN]
    BY NetAssumption
  <1> QED
    BY <1>1, <1>2

\* The next chain the device takes is one of those in flight.
LEMMA NextHead ==
    ASSUME NEW q, NEW r, NEW lastUsed, NEW in, Agreed(q, r, lastUsed, in),
           q.lastAvail # r.availIdx
    PROVE  \E k \in 1 .. Len(in) : r.avail[q.lastAvail % QueueSize] = in[k].head
  <1>1. QueueSize \in Nat \ {0} /\ IdxMod \in Nat \ {0} /\ Apart(in) /\ RingShape(r)
    <2>1. Apart(in) /\ RingShape(r)
      BY Zenon DEF Agreed, RingRecord
    <2> QED
      BY <2>1, QueueAssumption
  <1>2. PICK D \in Nat, p \in Nat :
           /\ Indices(D, p, in, lastUsed, r.usedIdx, q.lastAvail, r.availIdx)
           /\ Windows(D, p, in, r.avail, r.used)
    BY DEF Agreed, QueueInv
  <1>3. PICK n \in Nat : n = Len(in) /\ n <= QueueSize
    BY <1>1, RoomInQueue
  <1>4. p + 1 <= n
    BY <1>2, <1>3 DEF Indices
  <1>5. q.lastAvail % QueueSize = At(D, p + 1)
    <2>1. q.lastAvail = (D + p) % IdxMod
      BY <1>2 DEF Indices
    <2> QED
      BY <2>1, SlotOfIndex
  <1>6. p + 1 \in 1 .. Len(in) /\ p + 1 > p
    BY <1>3, <1>4
  <1>7. r.avail[q.lastAvail % QueueSize] = in[p + 1].head
    BY <1>2, <1>5, <1>6 DEF Windows
  <1> QED
    BY <1>6, <1>7

\* The ring after a poll has taken a frame out, and what is accounted for it.
LEMMA BodyTaken ==
    ASSUME FrameInv, poll.at = "body", nbRing' = RingGet(poll.len), poll'.at # "body",
           UNCHANGED <<nb, next>>,
           \/ vnet'.frames = vnet.frames + 1 /\ vnet'.dropped = vnet.dropped
           \/ vnet'.frames = vnet.frames /\ vnet'.dropped = vnet.dropped + 1
    PROVE  BridgeInv' /\ CountInv'
  <1>1. /\ nbRing \in Seq(RingCell) /\ InStep(nbRing, 2) /\ AtPayload(nbRing, poll.len)
        /\ \A j \in 1 .. Len(nbRing) : nbRing[j].frame < next
        /\ Dropped(nbRing, poll.len, nbRing')
    BY DEF FrameInv, BridgeInv, InStep, TakenOut, RingGet, Dropped
  <1>2. /\ poll.len \in Nat /\ poll.len <= Len(nbRing)
        /\ InStep(nbRing', 0) /\ Left(nbRing, poll.len, nbRing')
    BY <1>1, InStepPayload
  <1>3. PICK m \in Nat, l \in Nat : m = Len(nbRing) /\ l = poll.len /\ l <= m
    BY <1>1, <1>2
  <1>4. Len(nbRing') = m - l /\ \A j \in 1 .. m - l : nbRing'[j] = nbRing[j + l]
    BY <1>2, <1>3 DEF Left
  <1>5. BridgeInv'
    <2>1. ASSUME NEW j \in 1 .. m - l PROVE nbRing'[j].frame < next
      <3>1. j + l \in 1 .. m
        BY <1>3
      <3> QED
        BY <1>1, <1>3, <1>4, <3>1
    <2>2. next \in Nat /\ next' = next
      BY DEF FrameInv, BridgeInv
    <2> QED
      BY <1>2, <1>4, <2>1, <2>2 DEF BridgeInv, TakenOut
  <1>6. CountInv'
    <2>1. nbRing' \in Seq(RingCell)
      BY <1>2 DEF InStep
    <2>2. Cardinality(Starts(nbRing)) = Cardinality(Starts(nbRing'))
      BY <1>1, <2>1, StartsPayload
    <2>3. PICK a \in Nat : a = Cardinality(Starts(nbRing'))
      BY <2>1, StartsFinite
    <2>4. /\ nb = [up |-> nb.up, kept |-> nb.kept]
          /\ vnet.frames \in Nat /\ vnet.dropped \in Nat
          /\ nb.kept = vnet.frames + vnet.dropped + a + 1
      BY <2>2, <2>3 DEF FrameInv, CountInv, InHand
    <2>5. /\ vnet'.frames \in Nat /\ vnet'.dropped \in Nat
          /\ nb.kept = vnet'.frames + vnet'.dropped + a + 0
      BY <2>4
    <2> QED
      BY <2>3, <2>4, <2>5 DEF CountInv, InHand
  <1> QED
    BY <1>5, <1>6

LEMMA TakenIs ==
    ASSUME NEW len, InStep(nbRing, 2), AtPayload(nbRing, len)
    PROVE  Taken(len) = nbRing[1].frame
  <1>1. nbRing \in Seq(RingCell)
    BY DEF InStep
  <1>2. PICK h : Dropped(nbRing, len, h)
    BY DEF Dropped
  <1>3. /\ len \in Nat \ {0} /\ len <= Len(nbRing)
        /\ \A k \in 1 .. len : nbRing[k] = [frame |-> nbRing[1].frame, cell |-> k + 2]
    BY <1>2, InStepPayload
  <1>4. len \in 1 .. Len(nbRing)
    BY <1>1, <1>3
  <1>5. FrameLen[nbRing[1].frame] = len
    BY DEF AtPayload
  <1> QED
    BY <1>3, <1>4, <1>5 DEF Taken

\* What rx_deliver() may leave in the guest's buffer, and the used element for it.
FilledRight(u, b) ==
    u.len > 0 => /\ b.frame = nbRing[1].frame
                 /\ \/ b.got = poll.len
                    \/ \E d \in RxBuffers : b.got = d.len - NetHdrLen

\* The frame in the emulator's hands is behind everything the guest has got or
\* is about to get, and before the rest of the ring.
LEMMA InHandNext ==
    ASSUME BridgeInv, poll.at = "body", nbRing' = RingGet(poll.len), NEW u, NEW b,
           FilledRight(u, b), u.len > 0
    PROVE  /\ Past(b, nbRing', next)
           /\ \A x : Past(x, nbRing, next) => x.frame < b.frame
  <1>1. /\ nbRing \in Seq(RingCell) /\ InStep(nbRing, 2) /\ AtPayload(nbRing, poll.len)
        /\ \A j \in 1 .. Len(nbRing) : nbRing[j].frame < next
        /\ Dropped(nbRing, poll.len, nbRing')
    BY DEF BridgeInv, InStep, TakenOut, RingGet, Dropped
  <1>2. PICK f : f = nbRing[1].frame
    OBVIOUS
  <1>3. /\ poll.len \in Nat \ {0} /\ poll.len <= Len(nbRing)
        /\ InStep(nbRing', 0) /\ Left(nbRing, poll.len, nbRing')
        /\ Kept(f) /\ FrameLen[f] = poll.len
        /\ \A j \in 1 .. Len(nbRing') : f < nbRing'[j].frame
    BY <1>1, <1>2, InStepPayload DEF AtPayload
  <1>4. 1 \in 1 .. Len(nbRing)
    BY <1>1, <1>3
  <1>5. b.frame = f /\ Whole(b)
    BY <1>2, <1>3 DEF FilledRight, Whole
  <1>6. f < next
    BY <1>1, <1>2, <1>4
  <1>7. \A x : Past(x, nbRing, next) => x.frame < b.frame
    BY <1>2, <1>4, <1>5 DEF Past
  <1> QED
    BY <1>3, <1>5, <1>6, <1>7 DEF Past

\* A poll has taken the frame out of the ring: used elements or not, what the
\* guest has got and is about to get is as it should be.
LEMMA GotDropped ==
    ASSUME BridgeInv, GotInv, poll.at = "body", nbRing' = RingGet(poll.len),
           UNCHANGED <<next, got, ndrv, buf, rxr>>
    PROVE  GotInv'
  <1>1. /\ nbRing \in Seq(RingCell) /\ InStep(nbRing, 2) /\ AtPayload(nbRing, poll.len)
        /\ Dropped(nbRing, poll.len, nbRing')
    BY DEF BridgeInv, InStep, TakenOut, RingGet, Dropped
  <1>2. poll.len \in Nat /\ poll.len <= Len(nbRing) /\ Left(nbRing, poll.len, nbRing')
    BY <1>1, InStepPayload
  <1>3. StillPast(nbRing, next, nbRing', next)
    BY <1>1, <1>2, PastGet
  <1>4. Delivered(got, UsedWindow(rxr, ndrv.rxUsed), buf, nbRing, next)
    BY DEF GotInv
  <1>5. Delivered(got, UsedWindow(rxr, ndrv.rxUsed), buf, nbRing', next)
    BY <1>3, <1>4, DeliveredMoves
  <1> QED
    BY <1>5 DEF GotInv

LEMMA GotServed ==
    ASSUME BridgeInv, GotInv, poll.at = "body", nbRing' = RingGet(poll.len),
           UNCHANGED <<next, got, ndrv>>, NEW u,
           Grown(UsedWindow(rxr, ndrv.rxUsed), UsedWindow(rxr', ndrv.rxUsed), u),
           buf' = buf \/ \E b : buf' = [buf EXCEPT ![u.id] = b],
           FilledRight(u, buf'[u.id])
    PROVE  GotInv'
  <1>0. PICK w, w2 :
           w = UsedWindow(rxr, ndrv.rxUsed) /\ w2 = UsedWindow(rxr', ndrv.rxUsed)
    OBVIOUS
  <1>1. /\ nbRing \in Seq(RingCell) /\ InStep(nbRing, 2) /\ AtPayload(nbRing, poll.len)
        /\ Dropped(nbRing, poll.len, nbRing')
    BY DEF BridgeInv, InStep, TakenOut, RingGet, Dropped
  <1>2. poll.len \in Nat /\ poll.len <= Len(nbRing) /\ Left(nbRing, poll.len, nbRing')
    BY <1>1, InStepPayload
  <1>3. StillPast(nbRing, next, nbRing', next)
    BY <1>1, <1>2, PastGet
  <1>4. Delivered(got, w, buf, nbRing, next) /\ Grown(w, w2, u)
    BY <1>0 DEF GotInv
  <1>5. buf = [i \in Slots |-> buf[i]]
    BY DEF GotInv
  <1>6. \A k \in 1 .. Len(w) : buf'[w[k].id] = buf[w[k].id]
    <2> SUFFICES ASSUME NEW k \in 1 .. Len(w) PROVE buf'[w[k].id] = buf[w[k].id]
      OBVIOUS
    <2>1. w[k].id # u.id /\ w[k].id \in Slots
      BY <1>4 DEF Grown
    <2> QED
      BY <1>5, <2>1
  <1>7. u.len > 0 => /\ Past(buf'[u.id], nbRing', next)
                     /\ \A x : Past(x, nbRing, next) => x.frame < buf'[u.id].frame
    <2> SUFFICES ASSUME u.len > 0
                 PROVE  /\ Past(buf'[u.id], nbRing', next)
                        /\ \A x : Past(x, nbRing, next) => x.frame < buf'[u.id].frame
      OBVIOUS
    <2>1. PICK b : b = buf'[u.id]
      OBVIOUS
    <2>2. FilledRight(u, b)
      BY <2>1
    <2>3. /\ Past(b, nbRing', next)
          /\ \A x : Past(x, nbRing, next) => x.frame < b.frame
      BY <2>2, InHandNext
    <2> QED
      BY <2>1, <2>3
  <1>8. Delivered(got, w2, buf', nbRing', next)
    BY <1>3, <1>4, <1>6, <1>7, DeliveredServe
  <1>9. buf' = [i \in Slots |-> buf'[i]]
    BY <1>5
  <1> QED
    BY <1>0, <1>8, <1>9 DEF GotInv

\* What rx_deliver() was given and what it made of it.
LEMMA BodyDelivery ==
    ASSUME NetInv, FrameInv, poll.at = "body", RxAvailable,
           NEW o, \E c \in {ChainCollect(vnet.rx, rxr, RxHead)} : o = RxDeliver(c, poll.len)
    PROVE  /\ RxHead \in Slots
           /\ \E d : Delivery(o, d, poll.len) /\ \E x \in RxBuffers : d.len = x.len
  <1>1. ndrv.phase = "ok"
    BY DEF NetInv, NetShape, DriverRecord, NetDormant
  <1>2. /\ QueueOn(vnet.rx) /\ Agreed(vnet.rx, rxr, ndrv.rxUsed, ndrv.rxIn)
        /\ Apart(ndrv.rxIn)
    BY <1>1 DEF NetInv, NetLive, Agreed
  <1>3. vnet.rx.lastAvail # rxr.availIdx
    BY DEF RxAvailable
  <1>4. PICK h : h = RxHead
    OBVIOUS
  <1>5. PICK k \in 1 .. Len(ndrv.rxIn) : h = ndrv.rxIn[k].head
    BY <1>2, <1>3, <1>4, NextHead DEF RxHead
  <1>6. h \in Slots
    BY <1>2, <1>5, HeadInQueue
  <1>7. rxr.desc[h] \in RxDesc
    BY <1>5 DEF FrameInv, RxSingle
  <1>8. PICK d : d = rxr.desc[h]
    OBVIOUS
  <1>9. d.next = NoNext /\ d.len \in Nat /\ \E x \in RxBuffers : d.len = x.len
    BY <1>7, <1>8, RxDescIs
  <1>10. PICK c : c = ChainCollect(vnet.rx, rxr, h) /\ o = RxDeliver(c, poll.len)
    BY <1>4
  <1>11. c \in {<< >>, << h >>}
    <2>1. rxr.desc[h].next = NoNext
      BY <1>8, <1>9
    <2>2. PICK q, r : q = vnet.rx /\ r = rxr /\ QueueOn(q) /\ r.desc[h].next = NoNext
      BY <1>2, <2>1
    <2>3. ChainCollect(q, r, h) \in {<< >>, << h >>}
      BY <1>6, <2>2, LoneDescriptor
    <2> QED
      BY <1>10, <2>2, <2>3
  <1>12. poll.len \in Nat
    <2>1. InStep(nbRing, 2) /\ AtPayload(nbRing, poll.len)
      BY DEF FrameInv, BridgeInv, TakenOut
    <2>2. PICK g : Dropped(nbRing, poll.len, g)
      BY DEF Dropped
    <2> QED
      BY <2>1, <2>2, InStepPayload
  <1>13. Delivery(o, rxr.desc[h], poll.len)
    <2>1. rxr.desc[h].len \in Nat
      BY <1>8, <1>9
    <2> QED
      BY <1>10, <1>11, <1>12, <2>1, LoneDelivery
  <1> QED
    BY <1>4, <1>6, <1>8, <1>9, <1>13

\* The caller counts the frame, as delivered or as dropped.
Counted(v, v2) ==
    \/ v2.frames = v.frames + 1 /\ v2.dropped = v.dropped
    \/ v2.frames = v.frames /\ v2.dropped = v.dropped + 1

LEMMA CountedOnce ==
    ASSUME NEW v, DeviceRecord(v), NEW v2, v2 = RxDrop(v) \/ v2 = [v EXCEPT !.frames = @ + 1]
    PROVE  Counted(v, v2) /\ DeviceRecord(v2) /\ v2.rx = v.rx
  BY DEF DeviceRecord, RxDrop, Counted

\* queue_complete() and the step of last_avail count nothing.
CompletesRx(v, q, r, v2) ==
    \E x, n : x = Interrupted(v, q, r) /\ v2 = [x EXCEPT !.rx.lastAvail = n]

LEMMA CompletionCounts ==
    ASSUME NEW v, DeviceRecord(v), NEW q, NEW r, NEW v2, CompletesRx(v, q, r, v2)
    PROVE  v2.frames = v.frames /\ v2.dropped = v.dropped
  <1>1. PICK x, n : x = Interrupted(v, q, r) /\ v2 = [x EXCEPT !.rx.lastAvail = n]
    BY DEF CompletesRx
  <1>2. x = [v EXCEPT !.int = x.int]
    BY <1>1 DEF Interrupted, DeviceRecord
  <1>3. x.frames = v.frames /\ x.dropped = v.dropped /\ \E i : x = [v EXCEPT !.int = i]
    BY <1>2 DEF DeviceRecord
  <1>4. v2 = [x EXCEPT !.rx.lastAvail = n]
    BY <1>1
  <1> QED
    BY <1>3, <1>4 DEF DeviceRecord

\* The frame was refused, or the buffer that it needs is not in RAM.
LEMMA BodyUnplaced ==
    ASSUME NetInv, FrameInv, poll.at = "body", nbRing' = RingGet(poll.len), poll'.at # "body",
           UNCHANGED <<nb, next, got, ndrv, buf, rxr>>, Counted(vnet, vnet')
    PROVE  FrameInv'
  <1>1. BridgeInv' /\ CountInv'
    BY BodyTaken DEF Counted
  <1>2. GotInv'
    BY GotDropped DEF FrameInv
  <1>3. RxSingle(ndrv.rxIn, rxr.desc)'
    BY DEF FrameInv
  <1> QED
    BY <1>1, <1>2, <1>3 DEF FrameInv

\* The chain is completed, with the frame, with some of it or empty.
LEMMA BodyServed ==
    ASSUME NetInv, FrameInv, poll.at = "body", RxAvailable,
           nbRing' = RingGet(poll.len), poll'.at # "body",
           UNCHANGED <<nb, next, got, ndrv>>, Counted(vnet, vnet'),
           NEW u, u.id = RxHead, UsedGrows(rxr, rxr', u), rxr'.desc = rxr.desc,
           buf' = buf \/ \E b : buf' = [buf EXCEPT ![u.id] = b],
           FilledRight(u, buf'[u.id])
    PROVE  FrameInv'
  <1>1. BridgeInv' /\ CountInv'
    BY BodyTaken DEF Counted
  <1>2. Agreed(vnet.rx, rxr, ndrv.rxUsed, ndrv.rxIn)
    BY DEF NetInv, NetShape, DriverRecord, NetDormant, NetLive
  <1>3. Serves(vnet.rx, rxr, u)
    BY DEF Serves, RxAvailable, RxHead
  <1>4. PICK r2 : r2 = rxr' /\ UsedGrows(rxr, r2, u)
    OBVIOUS
  <1>5. Grown(UsedWindow(rxr, ndrv.rxUsed), UsedWindow(r2, ndrv.rxUsed), u)
    BY <1>2, <1>3, <1>4, WindowServe, Zenon
  <1>6. Grown(UsedWindow(rxr, ndrv.rxUsed), UsedWindow(rxr', ndrv.rxUsed), u)
    BY <1>4, <1>5
  <1>7. BridgeInv /\ GotInv
    BY DEF FrameInv
  <1>8. GotInv'
    BY <1>6, <1>7, GotServed
  <1>9. RxSingle(ndrv.rxIn, rxr.desc)'
    BY DEF FrameInv
  <1> QED
    BY <1>1, <1>8, <1>9 DEF FrameInv

LEMMA PollBodyFrames == ASSUME NetInv, FrameInv, PollBody PROVE FrameInv'
  <1>1. /\ poll.at = "body" /\ nbRing' = RingGet(poll.len)
        /\ UNCHANGED <<ndrv, got, nb, next>>
    BY DEF PollBody
  <1>2. DeviceRecord(vnet) /\ PollRecord(poll) /\ ndrv.phase = "ok"
    BY <1>1 DEF NetInv, NetShape, DriverRecord, NetDormant
  <1>3. /\ QueueOn(vnet.rx) /\ RingRecord(rxr)
    BY <1>2 DEF NetInv, NetLive, Agreed
  <1>4. InStep(nbRing, 2) /\ AtPayload(nbRing, poll.len)
    BY <1>1 DEF FrameInv, BridgeInv, TakenOut
  <1>5. poll.len # 0 /\ Taken(poll.len) = nbRing[1].frame
    <2>1. PICK g : Dropped(nbRing, poll.len, g)
      BY DEF Dropped
    <2>2. poll.len \in Nat \ {0}
      BY <1>4, <2>1, InStepPayload
    <2> QED
      BY <1>4, <2>2, TakenIs
  <1>6. poll'.at # "body"
    <2>1. \/ poll' = [at |-> "no", budget |-> 0, len |-> 0]
          \/ poll' = [poll EXCEPT !.at = "peek", !.len = 0]
      BY Zenon DEF PollBody
    <2>2. CASE poll' = [at |-> "no", budget |-> 0, len |-> 0]
      BY <2>2
    <2>3. CASE poll' = [poll EXCEPT !.at = "peek", !.len = 0]
      BY <1>2, <2>3 DEF PollRecord
    <2> QED
      BY <2>1, <2>2, <2>3
  <1>7. CASE ~RxAvailable
    <2>1. vnet' = RxDrop(vnet) /\ UNCHANGED <<rxr, buf>>
      BY <1>5, <1>7, Zenon DEF PollBody
    <2>2. Counted(vnet, vnet')
      BY <1>2, <2>1, CountedOnce
    <2> QED
      BY <1>1, <1>6, <2>1, <2>2, BodyUnplaced
  <1>8. CASE RxAvailable
    <2>1. PICK o, v :
             /\ \E c \in {ChainCollect(vnet.rx, rxr, RxHead)} : o = RxDeliver(c, poll.len)
             /\ v = RxDrop(vnet) \/ v = [vnet EXCEPT !.frames = @ + 1]
             /\ IF o.take
                THEN /\ vnet' = [Interrupted(v, vnet.rx, rxr) EXCEPT
                                    !.rx.lastAvail = (@ + 1) % IdxMod]
                     /\ rxr' = RingUsed(vnet.rx, rxr, RxHead, o.written)
                ELSE vnet' = v /\ UNCHANGED rxr
             /\ buf' = IF o.ok
                       THEN [buf EXCEPT ![RxHead] = [frame |-> Taken(poll.len),
                                                     got |-> o.written - NetHdrLen]]
                       ELSE buf
      BY <1>5, <1>8 DEF PollBody
    <2>2. PICK h : h = RxHead
      OBVIOUS
    <2>3. PICK d : h \in Slots /\ Delivery(o, d, poll.len) /\ \E x \in RxBuffers : d.len = x.len
      BY <1>1, <1>8, <2>1, <2>2, BodyDelivery
    <2>4. Counted(vnet, v) /\ DeviceRecord(v)
      BY <1>2, <2>1, CountedOnce
    <2>5. CASE ~o.take
      <3>1. vnet' = v /\ UNCHANGED rxr
        BY <2>1, <2>5
      <3>2. o.ok = FALSE
        BY <2>3, <2>5 DEF Delivery
      <3>3. UNCHANGED buf
        BY <2>1, <3>2
      <3> QED
        BY <1>1, <1>6, <2>4, <3>1, <3>3, BodyUnplaced
    <2>6. CASE o.take
      <3>1. /\ vnet' = [Interrupted(v, vnet.rx, rxr) EXCEPT !.rx.lastAvail = (@ + 1) % IdxMod]
            /\ rxr' = RingUsed(vnet.rx, rxr, h, o.written)
        BY <2>1, <2>2, <2>6
      <3>2. Counted(vnet, vnet')
        <4>1. CompletesRx(v, vnet.rx, rxr, vnet')
          BY <3>1 DEF CompletesRx
        <4>2. vnet'.frames = v.frames /\ vnet'.dropped = v.dropped
          BY <2>4, <4>1, CompletionCounts
        <4> QED
          BY <2>4, <4>2 DEF Counted
      <3>3. PICK u : u = [id |-> h, len |-> o.written]
        OBVIOUS
      <3>4. UsedGrows(rxr, rxr', u) /\ rxr'.desc = rxr.desc
        BY <1>3, <3>1, <3>3 DEF RingUsed, QueueOn, RingRecord, UsedGrows
      <3>5. u.id = h /\ u.len = o.written
        BY <3>3
      <3>6. buf' = buf \/ \E b : buf' = [buf EXCEPT ![u.id] = b]
        BY <2>1, <2>2, <3>5
      <3>7. FilledRight(u, buf'[u.id])
        <4>1. CASE o.ok = FALSE
          <5>1. ~(u.len > 0)
            BY <2>3, <3>5, <4>1 DEF Delivery
          <5> QED
            BY <5>1 DEF FilledRight
        <4>2. CASE o.ok = TRUE
          <5>1. PICK b : b = [frame |-> Taken(poll.len), got |-> o.written - NetHdrLen]
            OBVIOUS
          <5>2. buf = [i \in Slots |-> buf[i]]
            BY DEF FrameInv, GotInv
          <5>3. buf' = [buf EXCEPT ![h] = b]
            BY <2>1, <2>2, <4>2, <5>1
          <5>4. buf'[u.id] = b
            BY <2>3, <3>5, <5>2, <5>3
          <5>5. b.frame = nbRing[1].frame /\ b.got = o.written - NetHdrLen
            BY <1>5, <5>1
          <5>6. o.written > 0 => o.written = poll.len + NetHdrLen \/ o.written = d.len
            BY <2>3 DEF Delivery
          <5>7. u.len > 0 => b.got = poll.len \/ \E x \in RxBuffers : b.got = x.len - NetHdrLen
            <6>1. poll.len \in Nat /\ NetHdrLen \in Nat
              <7>1. PICK g : Dropped(nbRing, poll.len, g)
                BY DEF Dropped
              <7> QED
                BY <1>4, <7>1, InStepPayload, NetAssumption
            <6>2. (poll.len + NetHdrLen) - NetHdrLen = poll.len
              BY <6>1
            <6> QED
              BY <2>3, <3>5, <5>5, <5>6, <6>2
          <5> QED
            BY <5>4, <5>5, <5>7 DEF FilledRight
        <4>3. o.ok \in BOOLEAN
          BY <2>3 DEF Delivery
        <4> QED
          BY <4>1, <4>2, <4>3
      <3>8. u.id = RxHead
        BY <2>2, <3>5
      <3> QED
        BY <1>1, <1>6, <1>8, <3>2, <3>4, <3>6, <3>7, <3>8, BodyServed
    <2> QED
      BY <2>5, <2>6
  <1> QED
    BY <1>7, <1>8

-----------------------------------------------------------------------------
(* The steps of the driver that touch received frames.                     *)

\* try_fill_recv() publishes one descriptor that was free.
LEMMA LonePublished ==
    ASSUME NEW r, RingRecord(r), NEW in, NEW d, NEW r2, r2 = Published(r, in, << d >>)
    PROVE  /\ r2.used = r.used /\ r2.usedIdx = r.usedIdx
           /\ r2.desc = [i \in Slots |-> IF i = NetAlloc(in, 1) THEN [d EXCEPT !.next = NoNext]
                                         ELSE r.desc[i]]
  <1>1. PICK c : c = << d >> /\ Len(c) = 1 /\ c[1] = d
    OBVIOUS
  <1>2. PICK a : a = NetAlloc(in, 1)
    OBVIOUS
  <1>3. r2 = Published(r, in, c)
    BY <1>1
  <1> DEFINE n == Len(c)
             s == [k \in 1 .. n |-> NetAlloc(in, k)]
             Desc(k) == [c[k] EXCEPT !.next = IF k < n THEN s[k + 1] ELSE NoNext]
             desc == [i \in Slots |-> IF \E k \in 1 .. n : s[k] = i
                                      THEN Desc(CHOOSE k \in 1 .. n : s[k] = i)
                                      ELSE r.desc[i]]
  <1>4. r2 = [r EXCEPT !.desc = desc,
                       !.avail[r.availIdx % QueueSize] = s[1],
                       !.availIdx = (@ + 1) % IdxMod]
    BY <1>3, Zenon DEF Published
  <1> HIDE DEF desc
  <1>5. r2.used = r.used /\ r2.usedIdx = r.usedIdx /\ r2.desc = desc
    BY <1>4 DEF RingRecord
  <1> HIDE DEF s
  <1>6. s[1] = a /\ \A k \in 1 .. n : k = 1
    BY <1>1, <1>2 DEF s
  <1>7. ASSUME NEW i \in Slots
        PROVE  desc[i] = IF i = a THEN [d EXCEPT !.next = NoNext] ELSE r.desc[i]
    <2>1. CASE i = a
      <3>1. PICK k : k = CHOOSE x \in 1 .. n : s[x] = i
        OBVIOUS
      <3>2. \E x \in 1 .. n : s[x] = i
        <4>1. 1 \in 1 .. n
          BY <1>1
        <4> QED
          BY <1>6, <2>1, <4>1
      <3>3. k \in 1 .. n
        BY <3>1, <3>2
      <3>4. k = 1 /\ ~(k < n)
        BY <1>1, <1>6, <3>3
      <3>5. desc[i] = Desc(k)
        BY <3>1, <3>2, Zenon DEF desc
      <3> QED
        BY <1>1, <2>1, <3>4, <3>5
    <2>2. CASE i # a
      <3>1. ~ \E x \in 1 .. n : s[x] = i
        BY <1>6, <2>2
      <3>2. desc[i] = r.desc[i]
        BY <3>1, Zenon DEF desc
      <3> QED
        BY <2>2, <3>2
    <2> QED
      BY <2>1, <2>2
  <1>8. desc = [i \in Slots |-> desc[i]]
    BY DEF desc
  <1> QED
    BY <1>2, <1>5, <1>7, <1>8

\* A descriptor that is free belongs to no chain in flight.
LEMMA FreeIsNoHead ==
    ASSUME NEW in, Apart(in), NEW a \in FreeSlots(in), NEW k \in 1 .. Len(in)
    PROVE  in[k].head # a
  <1>1. in[k].head \in Range(in[k].slots)
    BY DEF Apart
  <1> QED
    BY <1>1, Zenon DEF FreeSlots

LEMMA RefillFrames == ASSUME NetInv, FrameInv, NEW d \in RxBuffers, NetDrvRefill(d) PROVE FrameInv'
  <1>1. /\ poll.at = "no" /\ ndrv.phase = "ok" /\ FreeSlots(ndrv.rxIn) # {}
        /\ rxr' = Published(rxr, ndrv.rxIn, << d >>)
        /\ ndrv' = [ndrv EXCEPT !.rxIn = InFlight(@, 1)]
        /\ UNCHANGED <<vnet, buf, bridgeVars, poll, got>>
    BY DEF NetDrvRefill
  <1>2. /\ DriverRecord(ndrv) /\ RingRecord(rxr) /\ Apart(ndrv.rxIn)
    BY <1>1, DriverUp DEF Agreed
  <1>3. PICK in, a : in = ndrv.rxIn /\ a = NetAlloc(in, 1)
    OBVIOUS
  <1>4. a \in FreeSlots(in) /\ a \in Slots
    <2>1. PICK F : F = FreeSlots(in) /\ F # {}
      BY <1>1, <1>3
    <2>2. IsFiniteSet(F) /\ F \subseteq Slots
      <3>1. IsFiniteSet(Slots)
        BY FS_Interval, QueueAssumption DEF Slots
      <3> QED
        BY <2>1, <3>1, FS_Subset, FreeIsFinite
    <2>3. Cardinality(F) \in Nat /\ Cardinality(F) # 0
      BY <2>1, <2>2, FS_CardinalityType, FS_EmptySet
    <2>4. 1 <= Cardinality(FreeSlots(in)) /\ 1 \in Nat \ {0}
      BY <2>1, <2>3
    <2> QED
      BY <1>3, <2>1, <2>2, <2>4, NetAllocIsFree
  <1>5. /\ rxr'.used = rxr.used /\ rxr'.usedIdx = rxr.usedIdx
        /\ rxr'.desc = [i \in Slots |-> IF i = a THEN [d EXCEPT !.next = NoNext] ELSE rxr.desc[i]]
    BY <1>1, <1>2, <1>3, LonePublished
  <1>6. ndrv'.rxUsed = ndrv.rxUsed /\ ndrv'.rxIn = InFlight(in, 1)
    BY <1>1, <1>2, <1>3 DEF DriverRecord
  <1>7. PICK c : c = [head |-> a, slots |-> << a >>] /\ ndrv'.rxIn = Append(in, c)
    <2>1. [k \in 1 .. 1 |-> NetAlloc(in, k)] = << a >>
      BY <1>3
    <2> QED
      BY <1>3, <1>6, <2>1 DEF InFlight
  <1>8. RxSingle(ndrv'.rxIn, rxr'.desc)
    <2>1. PICK n \in Nat : n = Len(in) /\ in \in Seq(Chains)
      <3>1. in \in Seq(Chains)
        BY <1>2, <1>3 DEF Apart
      <3> QED
        BY <3>1, LenProperties
    <2>2. /\ Len(ndrv'.rxIn) = n + 1 /\ ndrv'.rxIn[n + 1] = c
          /\ \A k \in 1 .. n : ndrv'.rxIn[k] = in[k]
      <3>1. PICK S : in \in Seq(S)
        BY <2>1
      <3>2. PICK T : T = S \cup {c}
        OBVIOUS
      <3>3. in \in Seq(T) /\ c \in T
        BY <3>1, <3>2
      <3> QED
        BY <1>7, <2>1, <3>3, AppendProperties
    <2> SUFFICES ASSUME NEW k \in 1 .. n + 1
                 PROVE  /\ ndrv'.rxIn[k].slots = << ndrv'.rxIn[k].head >>
                        /\ rxr'.desc[ndrv'.rxIn[k].head] \in RxDesc
      BY <2>2 DEF RxSingle
    <2>3. CASE k = n + 1
      <3>1. ndrv'.rxIn[k].slots = << a >> /\ ndrv'.rxIn[k].head = a
        BY <1>7, <2>2, <2>3
      <3>2. rxr'.desc[a] = [d EXCEPT !.next = NoNext]
        BY <1>4, <1>5
      <3> QED
        BY <3>1, <3>2 DEF RxDesc
    <2>4. CASE k \in 1 .. n
      <3>1. in[k].slots = << in[k].head >> /\ rxr.desc[in[k].head] \in RxDesc
        BY <1>3, <2>1, <2>4 DEF FrameInv, RxSingle
      <3>2. in[k].head # a /\ in[k].head \in Slots
        BY <1>2, <1>3, <1>4, <2>1, <2>4, FreeIsNoHead, HeadInQueue
      <3>3. rxr'.desc[in[k].head] = rxr.desc[in[k].head]
        BY <1>5, <3>2
      <3> QED
        BY <2>2, <2>4, <3>1, <3>3
    <2> QED
      BY <2>1, <2>3, <2>4
  <1>9. UsedWindow(rxr', ndrv'.rxUsed) = UsedWindow(rxr, ndrv.rxUsed)
    BY <1>5, <1>6 DEF UsedWindow
  <1>10. BridgeInv' /\ CountInv'
    BY <1>1 DEF FrameInv, BridgeInv, CountInv, bridgeVars
  <1>11. GotInv'
    BY <1>1, <1>9 DEF FrameInv, GotInv, bridgeVars
  <1> QED
    BY <1>8, <1>10, <1>11 DEF FrameInv

LEMMA ResetFrames == ASSUME NetInv, FrameInv, NetDrvReset PROVE FrameInv'
  <1>1. /\ DriverRecord(ndrv) /\ DeviceRecord(vnet)
        /\ ndrv' = [ndrv EXCEPT !.phase = "reset", !.rxUsed = 0, !.txUsed = 0,
                                !.rxIn = << >>, !.txIn = << >>]
        /\ vnet' = [vnet EXCEPT !.status = "reset", !.int = FALSE,
                                !.rx = QueueOff(FALSE), !.tx = QueueOff(FALSE)]
        /\ rxr' = EmptyRing /\ buf' = [i \in Slots |-> NoFrame]
        /\ UNCHANGED <<bridgeVars, poll, got>>
    BY DEF NetInv, NetShape, NetDrvReset, WriteStatus
  <1>2. ndrv'.rxUsed = 0 /\ ndrv'.rxIn = << >>
    BY <1>1 DEF DriverRecord
  <1>3. vnet'.frames = vnet.frames /\ vnet'.dropped = vnet.dropped
    BY <1>1 DEF DeviceRecord
  <1>4. BridgeInv' /\ CountInv'
    BY <1>1, <1>3 DEF FrameInv, BridgeInv, CountInv, bridgeVars
  <1>5. RxSingle(ndrv.rxIn, rxr.desc)'
    BY <1>2 DEF RxSingle
  <1>6. UsedWindow(rxr', 0) = << >>
    <2>1. rxr'.usedIdx = 0 /\ IdxMod \in Nat \ {0}
      BY <1>1, QueueAssumption DEF EmptyRing
    <2>2. (rxr'.usedIdx - 0) % IdxMod = 0
      BY <2>1
    <2> QED
      BY <2>2 DEF UsedWindow
  <1>7. GotInv'
    <2>1. Delivered(got, UsedWindow(rxr, ndrv.rxUsed), buf, nbRing, next)
      BY DEF FrameInv, GotInv
    <2>2. Delivered(got, << >>, buf', nbRing, next)
      BY <2>1 DEF Delivered
    <2>3. UNCHANGED <<got, nbRing, next>> /\ buf' = [i \in Slots |-> buf'[i]]
      BY <1>1 DEF bridgeVars
    <2> QED
      BY <1>2, <1>6, <2>2, <2>3 DEF FrameInv, GotInv
  <1> QED
    BY <1>4, <1>5, <1>7 DEF FrameInv

\* The driver clears the chain it takes back; the others keep their descriptors.
LEMMA SingleTail ==
    ASSUME NEW in, Apart(in), in # << >>, NEW r, RingRecord(r), RxSingle(in, r.desc),
           NEW n, NEW r2, r2 = Cleared(r, in, n)
    PROVE  RxSingle(Tail(in), r2.desc)
  <1>1. PICK S : S = Chains /\ in \in Seq(S)
    BY DEF Apart
  <1>2. PICK m \in Nat : m + 1 = Len(in)
    <2>1. Len(in) - 1 \in Nat
      BY <1>1, EmptySeq, LenProperties
    <2> QED
      BY <2>1, <1>1
  <1>3. Len(Tail(in)) = m /\ (\A k \in 1 .. m : Tail(in)[k] = in[k + 1]) /\ Head(in) = in[1]
    BY <1>1, <1>2
  <1>4. \A i \in Slots : i \notin Range(in[1].slots) => r2.desc[i] = r.desc[i]
    <2>1. r2.desc = [i \in Slots |-> IF i \in Range(Head(in).slots) THEN FreeDesc ELSE r.desc[i]]
      BY DEF Cleared, RingRecord
    <2> QED
      BY <1>3, <2>1, Zenon
  <1> SUFFICES ASSUME NEW k \in 1 .. m
               PROVE  /\ in[k + 1].slots = << in[k + 1].head >>
                      /\ r2.desc[in[k + 1].head] \in RxDesc
    BY <1>3 DEF RxSingle
  <1>5. PICK j \in 1 .. Len(in), o \in 1 .. Len(in) : j = k + 1 /\ o = 1 /\ j # o
    BY <1>2
  <1>6. in[j].head \in Range(in[j].slots) /\ Range(in[j].slots) \cap Range(in[o].slots) = {}
    BY <1>5, Zenon DEF Apart
  <1>7. in[j].head \notin Range(in[1].slots)
    BY <1>5, <1>6
  <1>8. in[j].head \in Slots
    BY HeadInQueue
  <1>9. r2.desc[in[j].head] = r.desc[in[j].head]
    BY <1>4, <1>7, <1>8
  <1> QED
    BY <1>5, <1>9 DEF RxSingle

LEMMA ReceiveFrames == ASSUME NetInv, FrameInv, NetDrvReceive PROVE FrameInv'
  <1>1. PICK u :
           /\ poll.at = "no" /\ ndrv.pc = "drain" /\ ndrv.rxUsed # rxr.usedIdx
           /\ u = rxr.used[ndrv.rxUsed % QueueSize]
           /\ ndrv.rxIn # << >>
           /\ got' = (IF u.len > 0 THEN Append(got, buf[u.id]) ELSE got)
           /\ buf' = [buf EXCEPT ![u.id] = NoFrame]
           /\ rxr' = Cleared(rxr, ndrv.rxIn, ndrv.rxUsed)
           /\ ndrv' = [ndrv EXCEPT !.rxUsed = (@ + 1) % IdxMod, !.rxIn = Tail(@)]
           /\ UNCHANGED <<vnet, bridgeVars, poll>>
    BY DEF NetDrvReceive
  <1>2. /\ DriverRecord(ndrv) /\ RingRecord(rxr) /\ Apart(ndrv.rxIn)
        /\ Agreed(vnet.rx, rxr, ndrv.rxUsed, ndrv.rxIn)
    BY <1>1, DriverUp DEF Agreed
  <1>3. ndrv'.rxUsed = (ndrv.rxUsed + 1) % IdxMod /\ ndrv'.rxIn = Tail(ndrv.rxIn)
    BY <1>1, <1>2 DEF DriverRecord
  <1>4. RxSingle(ndrv'.rxIn, rxr'.desc)
    <2>1. RxSingle(ndrv.rxIn, rxr.desc)
      BY DEF FrameInv
    <2>2. PICK r2 : r2 = rxr' /\ r2 = Cleared(rxr, ndrv.rxIn, ndrv.rxUsed)
      BY <1>1
    <2>3. RxSingle(Tail(ndrv.rxIn), r2.desc)
      BY <1>1, <1>2, <2>1, <2>2, SingleTail
    <2> QED
      BY <1>3, <2>2, <2>3
  <1>5. PICK w, w2, r2 :
           /\ w = UsedWindow(rxr, ndrv.rxUsed) /\ r2 = rxr'
           /\ w2 = UsedWindow(r2, (ndrv.rxUsed + 1) % IdxMod)
    OBVIOUS
  <1>6. Shrunk(w, w2) /\ w[1] = u
    <2>1. UsedTaken(rxr, r2, ndrv.rxUsed)
      <3>1. /\ rxr'.used = [rxr.used EXCEPT ![ndrv.rxUsed % QueueSize] = [id |-> 0, len |-> 0]]
            /\ rxr'.usedIdx = rxr.usedIdx
        BY <1>1, <1>2 DEF Cleared, RingRecord
      <3> QED
        BY <1>5, <3>1 DEF UsedTaken
    <2>2. /\ Shrunk(UsedWindow(rxr, ndrv.rxUsed), UsedWindow(r2, (ndrv.rxUsed + 1) % IdxMod))
          /\ UsedWindow(rxr, ndrv.rxUsed)[1] = rxr.used[ndrv.rxUsed % QueueSize]
      BY <1>1, <1>2, <2>1, WindowTakeBack
    <2> QED
      BY <1>1, <1>5, <2>2
  <1>7. BridgeInv' /\ CountInv'
    BY <1>1 DEF FrameInv, BridgeInv, CountInv, bridgeVars
  <1>8. PICK S : got \in Seq(S)
    BY DEF FrameInv, GotInv
  <1>9. buf = [i \in Slots |-> buf[i]]
    BY DEF FrameInv, GotInv
  <1>10. \A k \in 1 .. Len(w2) : buf'[w2[k].id] = buf[w2[k].id]
    <2> SUFFICES ASSUME NEW k \in 1 .. Len(w2) PROVE buf'[w2[k].id] = buf[w2[k].id]
      OBVIOUS
    <2>1. w2[k].id # u.id /\ w2[k].id \in Slots
      BY <1>6 DEF Shrunk
    <2> QED
      BY <1>1, <1>9, <2>1
  <1>11. Delivered(got', w2, buf', nbRing, next)
    <2>1. Delivered(got, w, buf, nbRing, next)
      BY <1>5 DEF FrameInv, GotInv
    <2>2. got' = IF w[1].len > 0 THEN Append(got, buf[w[1].id]) ELSE got
      BY <1>1, <1>6
    <2> QED
      BY <1>6, <1>8, <1>10, <2>1, <2>2, DeliveredTake
  <1>12. \E T : got' \in Seq(T)
    BY <1>1, <1>8, StillSequence
  <1>13. GotInv'
    <2>1. UNCHANGED <<nbRing, next>> /\ buf' = [i \in Slots |-> buf'[i]]
      BY <1>1, <1>9 DEF bridgeVars
    <2>2. UsedWindow(rxr', ndrv'.rxUsed) = w2
      BY <1>3, <1>5
    <2> QED
      BY <1>11, <1>12, <2>1, <2>2 DEF GotInv
  <1> QED
    BY <1>4, <1>7, <1>13 DEF FrameInv

LEMMA FramesKeep == NetInv /\ FrameInv /\ [NetNext]_netVars => FrameInv'
  <1>1. ASSUME FrameInv, UNCHANGED netVars PROVE FrameInv'
    <2>1. nb = [up |-> nb.up, kept |-> nb.kept]
      BY <1>1 DEF FrameInv, CountInv
    <2> QED
      BY <1>1, <2>1, QuietFrames DEF netVars, RxQuiet
  <1> QED
    BY <1>1, QuietSteps, BridgeRxFrames, PollPeekFrames, PollBodyFrames,
       RefillFrames, ReceiveFrames, ResetFrames DEF NetNext

\* The inductive invariant of the frames, with that of the queues they travel in.
THEOREM FramesInvariant == NetSpec => [](NetInv /\ FrameInv)
  <1>1. NetInit => NetInv /\ FrameInv
    BY NetInitInv, FrameStarts
  <1>2. NetInv /\ FrameInv /\ [NetNext]_netVars => (NetInv /\ FrameInv)'
    BY NetNextKeeps, FramesKeep
  <1> QED
    BY <1>1, <1>2, PTL DEF NetSpec

\* A full ring, a missing buffer and one that is too short cost whole frames and
\* nothing else: what the guest gets are frames from the wire meant for it, each
\* once and in order of arrival, and the counters of netbridge.c and of
\* rv_virtio_net.c account for every frame that was kept.
THEOREM FramesStayIntact == NetSpec => []FramesIntact
  <1>1. FrameInv => FramesAccounted
    BY DEF FrameInv, CountInv, FramesAccounted, Starts, InHand
  <1>2. FrameInv => FramesWholeInOrder
    <2> SUFFICES ASSUME FrameInv PROVE FramesWholeInOrder
      OBVIOUS
    <2>1. /\ \A k \in 1 .. Len(got) : Past(got[k], nbRing, next)
          /\ \A j, k \in 1 .. Len(got) : j < k => got[j].frame < got[k].frame
      BY DEF FrameInv, GotInv, Delivered
    <2> QED
      BY <2>1, Zenon DEF FramesWholeInOrder, Past, Whole, Kept
  <1> QED
    BY <1>1, <1>2, FramesInvariant, PTL DEF FramesIntact
=============================================================================

------------------------------- MODULE Vring -------------------------------
(***************************************************************************)
(* The split virtqueue that rv_virtio.c and rv_virtio_net.c each implement *)
(* over guest memory: reading a descriptor chain and publishing a used     *)
(* element.  The operators here are the code that the two files share line *)
(* by line; VirtioBlk and VirtioNet add the devices around them.           *)
(*                                                                         *)
(* A queue is seen from its two sides.  The device keeps the registers     *)
(*     q = [num, ready, lastAvail, addr]                                   *)
(* where addr says that the driver has given the three ring addresses.     *)
(* Guest memory holds                                                      *)
(*     r = [desc, noint, availIdx, avail, usedIdx, used]                   *)
(* A descriptor is [write, len, next, indirect, ram]: next is NoNext when  *)
(* VRING_DESC_F_NEXT is clear, ram says that its buffer lies in guest RAM. *)
(***************************************************************************)
EXTENDS Integers, Sequences, FiniteSets

CONSTANTS
    QueueSize,  \* descriptors the driver gives the queue, VIRTIO_QUEUE_NUM_MAX at most
    IdxMod,     \* ring indices are counted modulo this, 2^16 in the code
    MaxChain    \* VIRTIO_MAX_CHAIN, more than any queue has descriptors

ASSUME QueueAssumption ==
    /\ {QueueSize, IdxMod, MaxChain} \subseteq Nat \ {0}
    /\ IdxMod % QueueSize = 0
    /\ IdxMod > QueueSize
    /\ MaxChain > QueueSize

\* The slots of a queue, of its descriptor table and of its two rings.
Slots == 0 .. QueueSize - 1

NoNext == -1

FreeDesc == [write |-> FALSE, len |-> 0, next |-> NoNext,
             indirect |-> FALSE, ram |-> FALSE]

\* The registers after a reset; the ring addresses survive it.
QueueOff(addr) == [num |-> 0, ready |-> FALSE, lastAvail |-> 0, addr |-> addr]

EmptyRing == [desc     |-> [i \in Slots |-> FreeDesc],
              noint    |-> FALSE,
              availIdx |-> 0,
              avail    |-> [i \in Slots |-> 0],
              usedIdx  |-> 0,
              used     |-> [i \in Slots |-> [id |-> 0, len |-> 0]]]

-----------------------------------------------------------------------------
\* desc_read(): a number outside the queue is refused.
DescRead(q, i) == q.addr /\ i < q.num

\* The descriptor numbers that following `next' from head visits.
ChainIdx(q, r, head) ==
    LET at[k \in 0 .. MaxChain - 1] ==
          IF k = 0 THEN head
          ELSE LET prev == at[k - 1]
               IN IF prev = NoNext \/ ~DescRead(q, prev)
                  THEN NoNext ELSE r.desc[prev].next
    IN [k \in 0 .. MaxChain - 1 |-> at[k]]

\* The chain that starts at head as a sequence of descriptor numbers, empty
\* when it is bad: a number outside the queue, an indirect descriptor, or no
\* end within MaxChain (a cycle).
ChainCollect(q, r, head) ==
    LET at == ChainIdx(q, r, head)
        Whole(n) == /\ \A k \in 0 .. n - 1 : /\ at[k] # NoNext
                                             /\ DescRead(q, at[k])
                                             /\ ~r.desc[at[k]].indirect
                    /\ r.desc[at[n - 1]].next = NoNext
    IN IF \E n \in 1 .. MaxChain : Whole(n)
       THEN LET n == CHOOSE k \in 1 .. MaxChain : Whole(k)
            IN [k \in 1 .. n |-> at[k - 1]]
       ELSE << >>

\* A bad chain is dropped instead of being given back.
MutRingUsed(q, r, head, written) ==
    IF ~q.addr \/ written = 0 THEN r
    ELSE [r EXCEPT !.used[r.usedIdx % q.num] = [id |-> head, len |-> written],
                   !.usedIdx = (r.usedIdx + 1) % IdxMod]

\* queue_complete() without its interrupt: the used element goes to the slot
\* of the old index, then the index moves.
RingUsed(q, r, head, written) ==
    IF ~q.addr THEN r
    ELSE [r EXCEPT !.used[r.usedIdx % q.num] = [id |-> head, len |-> written],
                   !.usedIdx = (r.usedIdx + 1) % IdxMod]

\* Whether queue_complete() raises the interrupt.
UsedInterrupts(q, r) == q.addr /\ ~r.noint

-----------------------------------------------------------------------------
\* What the driver has published and the device has not taken, in order.
AvailWindow(q, r) ==
    [k \in 1 .. (r.availIdx - q.lastAvail) % IdxMod |->
        r.avail[(q.lastAvail + k - 1) % QueueSize]]

\* What the device has completed and the driver has not seen, in order.
UsedWindow(r, lastUsed) ==
    [k \in 1 .. (r.usedIdx - lastUsed) % IdxMod |->
        r.used[(lastUsed + k - 1) % QueueSize]]

UsedIds(r, lastUsed) ==
    LET w == UsedWindow(r, lastUsed) IN [k \in 1 .. Len(w) |-> w[k].id]
=============================================================================

---------------------------- MODULE MCVirtioNet ----------------------------
(* VirtioNet with two descriptors per queue, three frames on the wire of   *)
(* which one is not for the guest, and a ring the other two do not both    *)
(* fit into.                                                               *)
EXTENDS VirtioNet

D(write, len) == [write |-> write, len |-> len, next |-> NoNext,
                  indirect |-> FALSE, ram |-> TRUE]

MCFrameLen == <<3, 2, 2>>
MCForGuest == {1, 3}

\* A buffer that holds the shorter frame and cuts the longer one, one outside
\* RAM and a chain that is not acceptable.
MCRxBuffers == {D(TRUE, 3), [D(TRUE, 4) EXCEPT !.ram = FALSE],
                [D(TRUE, 4) EXCEPT !.indirect = TRUE]}

\* A frame longer than the wire takes and a shorter one, which fit the queue
\* together, then a header with too little behind it, in two descriptors.  The
\* two that can leave differ in length on the wire.
MCTxChains == <<<<D(FALSE, 5)>>, <<D(FALSE, 3)>>, <<D(FALSE, 1), D(FALSE, 1)>>>>
=============================================================================

----------------------------- MODULE MCPusher ------------------------------
(* Slots of one block each and the reserved block; a fits, b does not.     *)
EXTENDS Pusher, TLC

CONSTANTS kernel, rootfs, a, b

TwoSlots == {kernel, rootfs}
TwoBase  == (kernel :> 0 @@ rootfs :> 2)
TwoSpan  == (kernel :> 2 @@ rootfs :> 4)

OneSlot == {kernel}
OneBase == (kernel :> 0)
OneSpan == (kernel :> 2)

MCImages == {a, b}
MCSize   == (a :> 1 @@ b :> 2)
=============================================================================

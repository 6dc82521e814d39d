----------------------------- MODULE MCImgSlot -----------------------------
(* A chip of four blocks of two cells: the kernel slot has one block, the  *)
(* rootfs slot the other three, the last of them reserved.                 *)
EXTENDS ImgSlot, TLC

CONSTANTS kernel, rootfs, a, b, c

MCSlots == {kernel, rootfs}
MCBase  == (kernel :> 0 @@ rootfs :> 2)
MCSpan  == (kernel :> 2 @@ rootfs :> 6)

\* a fits both slots, b only the rootfs slot, c would need the reserved block.
MCImages == {a, b, c}
MCSize   == (a :> 1 @@ b :> 2 @@ c :> 4)
=============================================================================

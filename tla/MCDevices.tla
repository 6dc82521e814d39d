----------------------------- MODULE MCDevices -----------------------------
(***************************************************************************)
(* The two devices the guest drives by register and doorbell, in one run.  *)
(* They share no state, so a behaviour is one of the virtio disk or one of *)
(* the pv-io bridge, while the other stays as it starts.  There neither    *)
(* has anything to do that its driver has not asked for, so the fairness   *)
(* of one asks nothing of the behaviours of the other.                     *)
(***************************************************************************)
EXTENDS MCVirtioBlk, MCPvIo

VARIABLE device     \* the device this behaviour is about

DevicesInit == Init /\ PvInit /\ device \in {"blk", "pv"}

DevicesNext ==
    \/ device = "blk" /\ Next /\ UNCHANGED <<device, pvVars>>
    \/ device = "pv" /\ PvNext /\ UNCHANGED <<device, blkVars>>

DevicesSpec ==
    /\ DevicesInit
    /\ [][DevicesNext]_<<device, blkVars, pvVars>>
    /\ Fairness /\ PvFairness
=============================================================================

------------------------------- MODULE MCHart -------------------------------
(***************************************************************************)
(* The interpreter in one run: address translation, privilege and traps    *)
(* (Cpu), and the floating point instructions (SoftFp).  A floating point  *)
(* operation reads and writes registers only, so a behaviour is one of the *)
(* one or of the other half.                                               *)
(***************************************************************************)
EXTENDS MCCpu, MCSoftFp

VARIABLE unit     \* the half this behaviour is about

HartInit == Init /\ FpInit /\ unit \in {"mmu", "fpu"}

HartNext ==
    \/ unit = "mmu" /\ Next /\ UNCHANGED <<unit, fpVars>>
    \/ unit = "fpu" /\ FpNext /\ UNCHANGED <<unit, cpuVars>>

HartSpec == HartInit /\ [][HartNext]_<<unit, cpuVars, fpVars>>
=============================================================================

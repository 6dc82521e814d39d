-------------------------- MODULE GuestHaltProofs --------------------------
(***************************************************************************)
(* Proofs about GuestHalt, for every number of requests MaxTries.          *)
(***************************************************************************)
EXTENDS GuestHalt, TLAPS

\* main() is past its last read of the flash window.
Quiet == {"failed", "returned", "given", "done"}

\* The semaphore and the flag are raised only past the last read, and the flag
\* stays up; a push that asks after that still finds the token.
HaltInv ==
  /\ TypeOK
  /\ guest_stopped <=> main \in Quiet
  /\ halt_ack = 1 => main \in Quiet
  /\ hpc = "granted" => main \in Quiet
  /\ hpc = "enter" => tries = 0
  /\ hpc = "ask" => tries < MaxTries
  /\ hpc \in {"ask", "wait"} /\ main \in {"given", "done"} => halt_ack = 1

\* A wait that began with a running guest has the stop flag, or the end of the
\* run loop, behind it.
WaitInv ==
  hpc = "wait" => \/ since \in Booting
                  \/ main = "run" /\ stop # "no"
                  \/ main \in Quiet

USE HaltAssumption DEF HaltAssumption, haltVars, mainVars, pushVars, Phases, Booting, Quiet

LEMMA InitHaltInv == Init => HaltInv /\ WaitInv
  <1> SUFFICES ASSUME Init PROVE HaltInv /\ WaitInv
    OBVIOUS
  <1>1. PICK up \in BOOLEAN : BootState(up)
    BY DEF Init
  <1>2. nb_up \in BOOLEAN
    BY <1>1, Zenon DEF BootState
  <1>3. tries \in 0..MaxTries
    BY <1>1, SMT DEF BootState
  <1>4. TypeOK
    BY <1>1, <1>2, <1>3, Zenon DEF BootState, TypeOK
  <1> QED
    BY <1>1, <1>4 DEF BootState, HaltInv, WaitInv

LEMMA MainKeeps == HaltInv /\ Main => HaltInv'
  <1> SUFFICES ASSUME HaltInv, Main PROVE HaltInv'
    OBVIOUS
  <1> USE DEF HaltInv, TypeOK
  <1>1. CASE MachineInit
    BY <1>1 DEF MachineInit
  <1>2. CASE MachineLoaded
    BY <1>2 DEF MachineLoaded
  <1>3. CASE GuestHaltedSet
    BY <1>3 DEF GuestHaltedSet
  <1>4. CASE InitFailedSet
    BY <1>4 DEF InitFailedSet
  <1>5. CASE GuestHaltedGive
    BY <1>5 DEF GuestHaltedGive
  <1>6. CASE GuestHaltedReport
    BY <1>6 DEF GuestHaltedReport
  <1> QED
    BY <1>1, <1>2, <1>3, <1>4, <1>5, <1>6 DEF Main

LEMMA PusherKeeps == HaltInv /\ (HaltCall \/ HaltGuest) => HaltInv'
  <1> SUFFICES ASSUME HaltInv, HaltCall \/ HaltGuest PROVE HaltInv'
    OBVIOUS
  <1> USE DEF HaltInv, TypeOK
  <1>1. CASE HaltCall
    BY <1>1 DEF HaltCall
  <1>2. CASE HaltAlready
    BY <1>2 DEF HaltAlready
  <1>3. CASE HaltBegin
    BY <1>3 DEF HaltBegin
  <1>4. CASE HaltAsk
    BY <1>4 DEF HaltAsk, Raise
  <1>5. CASE HaltAck
    BY <1>5 DEF HaltAck
  <1>6. CASE HaltAgain
    BY <1>6 DEF HaltAgain, WaitExpired
  <1>7. CASE HaltRefuse
    BY <1>7 DEF HaltRefuse, WaitExpired
  <1> QED
    BY <1>1, <1>2, <1>3, <1>4, <1>5, <1>6, <1>7 DEF HaltGuest

LEMMA GuestKeeps == HaltInv /\ GuestPowerOff => HaltInv'
  BY DEF HaltInv, TypeOK, GuestPowerOff, Raise

\* The strengthened invariant holds for ever: no step of either thread breaks it.
LEMMA HaltInvariant == Spec => []HaltInv
  <1>1. Init => HaltInv
    BY InitHaltInv
  <1>2. HaltInv /\ [Next]_haltVars => HaltInv'
    <2> SUFFICES ASSUME HaltInv, [Next]_haltVars PROVE HaltInv'
      OBVIOUS
    <2>1. CASE UNCHANGED haltVars
      BY <2>1 DEF HaltInv, TypeOK
    <2> QED
      BY <2>1, MainKeeps, PusherKeeps, GuestKeeps DEF Next
  <1> QED
    BY <1>1, <1>2, PTL DEF Spec

\* Every variable of the handshake keeps its type; in particular halt_guest()
\* makes at most MaxTries requests.
THEOREM HaltTypeCorrect == Spec => []TypeOK
  <1>1. HaltInv => TypeOK
    BY DEF HaltInv
  <1> QED
    BY <1>1, HaltInvariant, PTL

\* halt_guest() says yes only when main() has stopped reading the flash,
\* whatever the interleaving of the two threads and however often it is called.
THEOREM HaltIsSafe == Spec => []GrantedMeansQuiet
  <1>1. HaltInv => GrantedMeansQuiet
    BY DEF HaltInv, GrantedMeansQuiet, ReadsFlash
  <1> QED
    BY <1>1, HaltInvariant, PTL

LEMMA WaitKeeps == HaltInv /\ WaitInv /\ [Next]_haltVars => WaitInv'
  <1> SUFFICES ASSUME HaltInv, WaitInv, [Next]_haltVars PROVE WaitInv'
    OBVIOUS
  <1> USE DEF HaltInv, WaitInv, TypeOK
  <1>1. CASE Main
    BY <1>1 DEF Main, MachineInit, MachineLoaded, GuestHaltedSet,
                InitFailedSet, GuestHaltedGive, GuestHaltedReport
  <1>2. CASE GuestPowerOff
    BY <1>2 DEF GuestPowerOff, Raise
  <1>3. CASE HaltAsk
    BY <1>3 DEF HaltAsk, Raise
  <1>4. CASE HaltCall \/ HaltAlready \/ HaltBegin \/ HaltAck \/ HaltAgain
             \/ HaltRefuse
    BY <1>4 DEF HaltCall, HaltAlready, HaltBegin, HaltAck, HaltAgain,
                HaltRefuse
  <1>5. CASE UNCHANGED haltVars
    BY <1>5
  <1> QED
    BY <1>1, <1>2, <1>3, <1>4, <1>5 DEF Next, HaltGuest

\* With a run loop that obeys within one wait, halt_guest() is refused only if
\* main() was still booting when its last wait began: repeating the request
\* makes up for the ones that rv_machine_init() erases.
THEOREM RefusalIsJustified == Prompt => (Spec => RefusedOnlyWhileBooting)
  <1> SUFFICES ASSUME Prompt PROVE Spec => RefusedOnlyWhileBooting
    OBVIOUS
  <1> DEFINE Step == hpc' = "refused" /\ hpc # "refused" => since \in Booting
  <1>1. Init => WaitInv
    BY InitHaltInv
  <1>2. HaltInv /\ WaitInv /\ [Next]_haltVars => WaitInv'
    BY WaitKeeps
  <1>3. HaltInv /\ WaitInv /\ [Next]_haltVars => [Step]_haltVars
    <2> SUFFICES ASSUME HaltInv, WaitInv, Next, hpc' = "refused",
                        hpc # "refused"
                 PROVE  since \in Booting
      OBVIOUS
    <2>1. HaltRefuse
      BY DEF Next, Main, MachineInit, MachineLoaded, GuestHaltedSet,
             InitFailedSet, GuestHaltedGive, GuestHaltedReport,
             GuestPowerOff, HaltCall, HaltGuest, HaltAlready, HaltBegin,
             HaltAsk, HaltAck, HaltAgain
    <2> QED
      BY <2>1 DEF HaltRefuse, WaitExpired, HaltInv, WaitInv, TypeOK
  <1> QED
    BY <1>1, <1>2, <1>3, HaltInvariant, PTL DEF Spec, RefusedOnlyWhileBooting
=============================================================================

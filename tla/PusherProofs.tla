---------------------------- MODULE PusherProofs ----------------------------
(***************************************************************************)
(* The image loader as a whole: what is proved of the halt handshake and   *)
(* of the slots carries over to the thread that uses both, its restarts    *)
(* included.                                                               *)
(***************************************************************************)
EXTENDS Pusher, TLAPS

HP == INSTANCE GuestHaltProofs
FP == INSTANCE ImgSlotProofs
-----------------------------------------------------------------------------
(* The components and the components the theorems are about are the same *)

LEMMA SameGeometry ==
  /\ F!Cells = FP!Cells
  /\ \A s : F!Writable(s) = FP!Writable(s) /\ F!MaxSize(s) = FP!MaxSize(s)
  /\ \A s, b : F!BlockCells(s, b) = FP!BlockCells(s, b)
  /\ \A s, i : F!SpanCells(s, i) = FP!SpanCells(s, i) /\ F!Payload(s, i) = FP!Payload(s, i)
  /\ \A s : F!HeaderCell(s) = FP!HeaderCell(s)
  /\ \A i : F!NeedBlocks(i) = FP!NeedBlocks(i) /\ F!Good(i) = FP!Good(i) /\ F!Bad(i) = FP!Bad(i)
  /\ F!Blank = FP!Blank /\ F!Torn = FP!Torn /\ F!Wreck = FP!Wreck /\ F!NoLine = FP!NoLine
  /\ \A f, S, v : F!Set(f, S, v) = FP!Set(f, S, v)
  /\ F!AnyImage = FP!AnyImage
  /\ F!slotVars = FP!slotVars /\ F!pushVars = FP!pushVars
BY Zenon DEF F!Cells, FP!Cells, F!Writable, FP!Writable, F!MaxSize, FP!MaxSize, F!BlockCells,
   FP!BlockCells, F!SpanCells, FP!SpanCells, F!Payload, FP!Payload, F!HeaderCell, FP!HeaderCell,
   F!NeedBlocks, FP!NeedBlocks, F!Good, FP!Good, F!Bad, FP!Bad, F!Blank, FP!Blank, F!Torn, FP!Torn,
   F!Wreck, FP!Wreck, F!NoLine, FP!NoLine, F!Set, FP!Set, F!AnyImage, FP!AnyImage,
   F!slotVars, FP!slotVars, F!pushVars, FP!pushVars

LEMMA SamePush ==
  /\ F!Init <=> FP!Init
  /\ \A s, i : (F!Accept(s, i) <=> FP!Accept(s, i)) /\ (F!Reject(s, i) <=> FP!Reject(s, i))
  /\ \A s : F!WindowRead(s) <=> FP!WindowRead(s)
  /\ F!Crash <=> FP!Crash
  /\ F!StreamFails <=> FP!StreamFails
  /\ F!PushStep <=> FP!PushStep
<1>1. /\ F!GiveUp <=> FP!GiveUp
      /\ F!Leave <=> FP!Leave
      /\ \A v : F!Verdict(v) <=> FP!Verdict(v)
      /\ F!NextBlock <=> FP!NextBlock
      /\ \A c : F!ProgramStarted(c) = FP!ProgramStarted(c)
      /\ \A c, i : F!Programmed(c, i) = FP!Programmed(c, i)
  BY SameGeometry, Zenon DEF F!pushVars, FP!pushVars, F!GiveUp, FP!GiveUp, F!Leave, FP!Leave, F!Verdict, FP!Verdict,
     F!NextBlock, FP!NextBlock, F!ProgramStarted, FP!ProgramStarted, F!Programmed, FP!Programmed
<1>2. F!Views = FP!Views /\ \A v : F!Marginal(v) = FP!Marginal(v) /\ (F!ImgCheck(v) <=> FP!ImgCheck(v))
  BY SameGeometry, Zenon DEF F!Views, FP!Views, F!Marginal, FP!Marginal, F!ImgCheck, FP!ImgCheck,
     F!Cells, FP!Cells, F!HeaderCell, FP!HeaderCell, F!Payload, FP!Payload, F!NoLine, FP!NoLine,
     F!Torn, FP!Torn, F!Good, FP!Good
<1>3. F!FailedPasses = FP!FailedPasses
  BY <1>2, Zenon DEF F!FailedPasses, FP!FailedPasses
<1>4. F!Init <=> FP!Init
  BY SameGeometry, Zenon DEF F!Init, FP!Init
<1>5. /\ \A s, i : (F!Accept(s, i) <=> FP!Accept(s, i)) /\ (F!Reject(s, i) <=> FP!Reject(s, i))
      /\ \A s : F!WindowRead(s) <=> FP!WindowRead(s)
      /\ F!Crash <=> FP!Crash
      /\ F!StreamFails <=> FP!StreamFails
  BY <1>1, SameGeometry, Zenon DEF F!pushVars, FP!pushVars, F!Accept, FP!Accept, F!Reject, FP!Reject, F!WindowRead,
     FP!WindowRead, F!Crash, FP!Crash, F!StreamFails, FP!StreamFails
<1>6. /\ F!EraseBegin <=> FP!EraseBegin
      /\ F!EraseEnd <=> FP!EraseEnd
      /\ F!EraseRefused <=> FP!EraseRefused
      /\ F!EraseFails <=> FP!EraseFails
  BY <1>1, SameGeometry, Zenon DEF F!pushVars, FP!pushVars, F!EraseBegin, FP!EraseBegin, F!EraseEnd, FP!EraseEnd,
     F!EraseRefused, FP!EraseRefused, F!EraseFails, FP!EraseFails
<1>7. /\ F!BlankCheckOk <=> FP!BlankCheckOk
      /\ F!BlankCheckFails <=> FP!BlankCheckFails
      /\ F!ProgramBegin <=> FP!ProgramBegin
      /\ F!ProgramEnd <=> FP!ProgramEnd
  BY <1>1, SameGeometry, Zenon DEF F!pushVars, FP!pushVars, F!BlankCheckOk, FP!BlankCheckOk, F!BlankCheckFails,
     FP!BlankCheckFails, F!ProgramBegin, FP!ProgramBegin, F!ProgramEnd, FP!ProgramEnd
<1>8. /\ F!HeaderBegin <=> FP!HeaderBegin
      /\ F!HeaderEnd <=> FP!HeaderEnd
      /\ F!HeaderFails <=> FP!HeaderFails
  BY <1>1, SameGeometry, Zenon DEF F!pushVars, FP!pushVars, F!HeaderBegin, FP!HeaderBegin, F!HeaderEnd, FP!HeaderEnd,
     F!HeaderFails, FP!HeaderFails
<1>9. /\ F!VerifyOk <=> FP!VerifyOk
      /\ F!VerifyAgain <=> FP!VerifyAgain
      /\ F!VerifyFails <=> FP!VerifyFails
  BY <1>1, <1>2, <1>3, SameGeometry, Zenon DEF F!pushVars, FP!pushVars, F!VerifyOk, FP!VerifyOk, F!VerifyAgain,
     FP!VerifyAgain, F!VerifyFails, FP!VerifyFails
<1> QED BY <1>4, <1>5, <1>6, <1>7, <1>8, <1>9 DEF F!PushStep, FP!PushStep

LEMMA SameHalt ==
  /\ H!Init <=> HP!Init
  /\ H!Main <=> HP!Main
  /\ H!GuestPowerOff <=> HP!GuestPowerOff
  /\ H!HaltCall <=> HP!HaltCall
  /\ H!HaltGuest <=> HP!HaltGuest
<1>1. /\ \A who : H!Raise(who) = HP!Raise(who)
      /\ H!Booting = HP!Booting
      /\ H!WaitExpired <=> HP!WaitExpired
      /\ H!mainVars = HP!mainVars /\ H!pushVars = HP!pushVars
  BY Zenon DEF H!Raise, HP!Raise, H!Booting, HP!Booting, H!WaitExpired, HP!WaitExpired,
     H!mainVars, HP!mainVars, H!pushVars, HP!pushVars
<1>2. H!Init <=> HP!Init
  BY Zenon DEF H!Init, HP!Init, H!BootState, HP!BootState
<1>3. H!Main <=> HP!Main
  BY <1>1, Zenon DEF H!mainVars, HP!mainVars, H!pushVars, HP!pushVars,
     H!Main, HP!Main, H!MachineInit, HP!MachineInit, H!MachineLoaded,
     HP!MachineLoaded, H!GuestHaltedSet, HP!GuestHaltedSet, H!InitFailedSet, HP!InitFailedSet,
     H!GuestHaltedGive, HP!GuestHaltedGive, H!GuestHaltedReport, HP!GuestHaltedReport
<1>4. H!GuestPowerOff <=> HP!GuestPowerOff
  BY <1>1, Zenon DEF H!mainVars, HP!mainVars, H!pushVars, HP!pushVars,
     H!GuestPowerOff, HP!GuestPowerOff
<1>5. H!HaltCall <=> HP!HaltCall
  BY <1>1, Zenon DEF H!mainVars, HP!mainVars, H!pushVars, HP!pushVars,
     H!HaltCall, HP!HaltCall
<1>6. H!HaltGuest <=> HP!HaltGuest
  BY <1>1, Zenon DEF H!mainVars, HP!mainVars, H!pushVars, HP!pushVars,
     H!HaltGuest, HP!HaltGuest, H!HaltAlready, HP!HaltAlready, H!HaltBegin,
     HP!HaltBegin, H!HaltAsk, HP!HaltAsk, H!HaltAck, HP!HaltAck, H!HaltAgain, HP!HaltAgain,
     H!HaltRefuse, HP!HaltRefuse
<1> QED BY <1>2, <1>3, <1>4, <1>5, <1>6
-----------------------------------------------------------------------------
(* The loader's own state *)

\* The type of what nl_thread() keeps.
ThreadTypes ==
  /\ npc \in {"noaddr", "top", "poll", "rebuild", "header", "halt", "push", "close", "reboot"}
  /\ req \in Slots \X Images
  /\ reboot_armed \in BOOLEAN /\ due \in BOOLEAN /\ nl_writer_lost \in BOOLEAN
  /\ last \in {"none", "ok", "failed"}
  /\ conns \in 0..MaxConns

\* The slots are worked on only inside the push, after the guest has stopped.
Exclusive ==
  /\ spc # "idle" => npc = "push"
  /\ npc = "push" => hpc = "granted" /\ last = "failed"

PusherInv == ThreadTypes /\ HP!HaltInv /\ FP!SlotInv /\ Exclusive /\ CommittedStays

\* What a step is to the slots: one of theirs, or nothing.
LEMMA SlotAction ==
  ASSUME ThreadTypes, Next
  PROVE  \/ \E s \in Slots, i \in Images : F!Accept(s, i) \/ F!Reject(s, i)
         \/ \E s \in Slots : F!WindowRead(s)
         \/ F!PushStep
         \/ F!Crash
         \/ UNCHANGED slotVars
<1>1. CASE NlThread
  <2>1. StartErase => F!Accept(req[1], req[2]) /\ req[1] \in Slots /\ req[2] \in Images
    BY DEF StartErase, ThreadTypes
  <2>2. Pushing \/ WriterLost => F!PushStep
    BY DEF Pushing, WriterLost, F!PushStep
  <2>3. PusherReboot => F!Crash
    BY DEF PusherReboot, Restart
  <2>4. Listen \/ LoopTop \/ PollTimesOut \/ NoHeader \/ Halting \/ HaltEndsPush \/ PushReturns \/ Close
          => UNCHANGED slotVars
    BY DEF Listen, LoopTop, PollTimesOut, NoHeader, Halting, HaltEndsPush, PushReturns, Close
  <2> QED BY <1>1, <2>1, <2>2, <2>3, <2>4 DEF NlThread
<1>2. CASE Client \/ ListenerFails
  BY <1>2 DEF Client, Connect, HeaderRejected, HeaderAccepted, ListenerFails
<1>3. CASE MainStep \/ GuestStep \/ DelayPasses
  BY <1>3 DEF MainStep, GuestStep, DelayPasses
<1>4. CASE (\E s \in Slots : MainReads(s)) \/ PowerFailure
  BY <1>4 DEF MainReads, PowerFailure, Restart
<1> QED BY <1>1, <1>2, <1>3, <1>4 DEF Next

LEMMA SlotInvKept ==
  ASSUME ThreadTypes, FP!SlotInv, [Next]_vars
  PROVE  FP!SlotInv' /\ [F!Next]_F!slotVars
<1>1. [F!Next]_F!slotVars
  <2>1. UNCHANGED slotVars => UNCHANGED F!slotVars
    BY DEF slotVars, F!slotVars, F!pushVars
  <2> QED BY <2>1, SlotAction DEF F!Next, vars
<1>2. [FP!Next]_FP!slotVars
  BY <1>1, SamePush DEF F!Next, FP!Next, F!slotVars, FP!slotVars, F!pushVars, FP!pushVars
<1> QED BY <1>1, <1>2, PusherAssumption, FP!SlotStep DEF F!SlotAssumption

\* What a step is to the handshake, short of a reset.
LEMMA HaltInvKept ==
  ASSUME HP!HaltInv, [Next]_vars
  PROVE  HP!HaltInv'
<1>1. CASE UNCHANGED haltVars
  BY <1>1 DEF haltVars, HP!HaltInv, HP!TypeOK
<1>2. CASE H!Main \/ H!GuestPowerOff \/ H!HaltCall \/ H!HaltGuest
  BY <1>2, SameHalt, PusherAssumption, HP!MainKeeps, HP!PusherKeeps, HP!GuestKeeps
     DEF H!HaltAssumption
<1>3. CASE Restart
  <2>1. MaxTries \in Nat
    BY PusherAssumption DEF H!HaltAssumption
  <2>2. tries' \in 0 .. MaxTries
    BY <1>3, <2>1 DEF Restart
  <2>3. HP!TypeOK'
    BY <1>3, <2>2 DEF Restart, HP!TypeOK, HP!Phases, HP!Booting
  <2> QED BY <1>3, <2>3 DEF Restart, HP!HaltInv, HP!Quiet
<1>4. \/ UNCHANGED haltVars \/ Restart
      \/ H!Main \/ H!GuestPowerOff \/ H!HaltCall \/ H!HaltGuest
  BY DEF vars, Next, NlThread, Client, Listen, LoopTop, PollTimesOut, ListenerFails, Connect,
     NoHeader, HeaderRejected, HeaderAccepted, Halting, HaltEndsPush, StartErase, Pushing,
     WriterLost, PushReturns, Close, PusherReboot, PowerFailure, MainStep, GuestStep, MainReads,
     DelayPasses
<1> QED BY <1>1, <1>2, <1>3, <1>4

LEMMA ThreadTypesKept ==
  ASSUME ThreadTypes, [Next]_vars
  PROVE  ThreadTypes'
<1> USE DEF ThreadTypes
<1>1. CASE UNCHANGED nlVars
  BY <1>1 DEF nlVars
<1>2. CASE NlThread
  BY <1>2 DEF NlThread, Listen, LoopTop, PollTimesOut, NoHeader, Halting, HaltEndsPush, StartErase,
     Pushing, WriterLost, PushReturns, Close, PusherReboot, Restart, nlVars
<1>3. CASE Connect
  <2>1. conns' \in 0 .. MaxConns
    BY <1>3, PusherAssumption DEF Connect
  <2> QED BY <1>3, <2>1 DEF Connect
<1>4. CASE \E s \in Slots, i \in Images : HeaderRejected(s, i) \/ HeaderAccepted(s, i)
  BY <1>4 DEF HeaderRejected, HeaderAccepted
<1>5. CASE ListenerFails \/ DelayPasses \/ PowerFailure
  BY <1>5 DEF ListenerFails, DelayPasses, PowerFailure, Restart
<1>6. CASE MainStep \/ GuestStep \/ \E s \in Slots : MainReads(s)
  BY <1>1, <1>6 DEF MainStep, GuestStep, MainReads
<1> QED BY <1>1, <1>2, <1>3, <1>4, <1>5, <1>6 DEF Next, Client, vars

LEMMA ExclusiveKept ==
  ASSUME ThreadTypes, Exclusive, [Next]_vars
  PROVE  Exclusive'
<1> USE DEF Exclusive
<1>1. CASE UNCHANGED vars
  BY <1>1 DEF vars, slotVars, haltVars, nlVars
<1>2. CASE Listen \/ LoopTop \/ PollTimesOut \/ NoHeader \/ ListenerFails \/ Connect
           \/ HaltEndsPush \/ PushReturns \/ Close \/ DelayPasses
  BY <1>2 DEF Listen, LoopTop, PollTimesOut, NoHeader, ListenerFails, Connect, HaltEndsPush,
     PushReturns, Close, DelayPasses, slotVars, haltVars
<1>3. CASE Halting
  BY <1>3 DEF Halting, slotVars, nlVars
<1>4. CASE StartErase
  BY <1>4 DEF StartErase, haltVars
<1>5. CASE Pushing
  BY <1>5 DEF Pushing, haltVars, nlVars
<1>6. CASE WriterLost
  BY <1>6 DEF WriterLost, haltVars
<1>7. CASE Restart
  BY <1>7 DEF Restart, F!Crash, F!GiveUp, F!Leave
<1>8. ASSUME NEW s \in Slots, NEW i \in Images, HeaderRejected(s, i) \/ HeaderAccepted(s, i)
      PROVE  Exclusive'
  BY <1>8 DEF HeaderRejected, HeaderAccepted, F!Reject, slotVars, haltVars
<1>9. CASE MainStep \/ GuestStep
  <2>1. hpc' = hpc
    BY <1>9 DEF MainStep, GuestStep, H!Main, H!MachineInit, H!MachineLoaded, H!GuestHaltedSet,
       H!InitFailedSet, H!GuestHaltedGive, H!GuestHaltedReport, H!GuestPowerOff, H!pushVars
  <2> QED BY <1>9, <2>1 DEF MainStep, GuestStep, slotVars, nlVars
<1>10. CASE \E s \in Slots : MainReads(s)
  BY <1>10 DEF MainReads, F!WindowRead, haltVars, nlVars
<1> QED BY <1>1, <1>2, <1>3, <1>4, <1>5, <1>6, <1>7, <1>8, <1>9, <1>10
        DEF Next, NlThread, Client, PusherReboot, PowerFailure

\* While last is "ok" nothing is written: every step leaves the slot alone or
\* takes the claim back.
LEMMA CommittedKept ==
  ASSUME PusherInv, [Next]_vars
  PROVE  CommittedStays'
<1> SUFFICES ASSUME last' = "ok"
             PROVE  F!Intact(slot, image)'
  BY DEF CommittedStays
<1> USE DEF PusherInv, Exclusive
<1>0. ASSUME F!Intact(slot, image), flash' = flash, slot' = slot, image' = image
      PROVE  F!Intact(slot, image)'
  BY <1>0 DEF F!Intact, F!HeaderCell, F!Payload
<1>1. CASE PushReturns /\ outcome = "ok"
  <2>1. FP!CommittedIntact
    BY DEF FP!SlotInv, FP!AnswersTrue
  <2>2. F!Intact(slot, image)
    BY <1>1, <2>1, SameGeometry DEF FP!CommittedIntact, FP!Intact, F!Intact
  <2> QED BY <1>0, <1>1, <2>2 DEF PushReturns, slotVars
<1>2. ASSUME last = "ok", flash' = flash, slot' = slot, image' = image
      PROVE  F!Intact(slot, image)'
  BY <1>0, <1>2 DEF CommittedStays
<1>3. CASE UNCHANGED << slotVars, last >>
  BY <1>2, <1>3 DEF slotVars
<1>4. ~Restart /\ ~StartErase /\ ~Pushing /\ ~WriterLost
  BY DEF Restart, StartErase, Pushing, WriterLost, nlVars
<1>5. CASE PushReturns /\ outcome # "ok"
  BY <1>3, <1>5 DEF PushReturns
<1>6. CASE Listen \/ LoopTop \/ PollTimesOut \/ NoHeader \/ ListenerFails \/ Connect \/ HaltEndsPush
           \/ Halting \/ Close \/ DelayPasses \/ MainStep \/ GuestStep
  BY <1>3, <1>6 DEF Listen, LoopTop, PollTimesOut, NoHeader, ListenerFails, Connect, HaltEndsPush,
     Halting, Close, DelayPasses, MainStep, GuestStep, nlVars
<1>7. CASE \E s \in Slots, i \in Images : HeaderRejected(s, i) \/ HeaderAccepted(s, i)
  BY <1>2, <1>3, <1>7 DEF HeaderRejected, HeaderAccepted, F!Reject, F!pushVars
<1>8. CASE \E s \in Slots : MainReads(s)
  BY <1>2, <1>8 DEF MainReads, F!WindowRead, F!pushVars, nlVars
<1>9. CASE UNCHANGED vars
  BY <1>3, <1>9 DEF vars, nlVars
<1> QED BY <1>1, <1>4, <1>5, <1>6, <1>7, <1>8, <1>9 DEF Next, NlThread, Client, PusherReboot, PowerFailure
-----------------------------------------------------------------------------
LEMMA PusherInitial == Init => PusherInv
<1> SUFFICES ASSUME Init PROVE PusherInv
  OBVIOUS
<1>1. HP!HaltInv
  BY SameHalt, PusherAssumption, HP!InitHaltInv DEF Init, H!HaltAssumption
<1>2. FP!SlotInv
  BY SamePush, PusherAssumption, FP!SlotInitial DEF Init, F!SlotAssumption
<1>3. slot \in Slots /\ image \in Images /\ spc = "idle"
  BY PusherAssumption DEF Init, F!Init, F!AnyImage, F!SlotAssumption
<1>4. conns \in 0 .. MaxConns
  BY PusherAssumption DEF Init
<1>5. ThreadTypes
  BY <1>3, <1>4 DEF Init, ThreadTypes
<1>6. Exclusive /\ CommittedStays
  BY <1>3 DEF Init, Exclusive, CommittedStays
<1> QED BY <1>1, <1>2, <1>5, <1>6 DEF PusherInv

LEMMA PusherStep == PusherInv /\ [Next]_vars => PusherInv'
BY SlotInvKept, HaltInvKept, ThreadTypesKept, ExclusiveKept, CommittedKept DEF PusherInv

LEMMA PusherInvariant == Spec => []PusherInv
BY PusherInitial, PusherStep, PTL DEF Spec

\* Every variable of the loader, the handshake and the slots keeps its type.
THEOREM PusherTypeCorrect == Spec => []TypeOK
<1>1. PusherInv => TypeOK
  <2> SUFFICES ASSUME PusherInv PROVE TypeOK
    OBVIOUS
  <2>1. H!TypeOK
    BY DEF PusherInv, HP!HaltInv, HP!TypeOK, H!TypeOK, HP!Phases, H!Phases, HP!Booting, H!Booting
  <2>2. F!TypeOK
    <3>1. F!Content = FP!Content /\ F!Steps = FP!Steps /\ F!Outcomes = FP!Outcomes
      BY SameGeometry, Zenon DEF F!Content, FP!Content, F!Steps, FP!Steps, F!Outcomes, FP!Outcomes
    <3> QED BY <3>1, SameGeometry, Zenon DEF PusherInv, FP!SlotInv, FP!TypeOK, F!TypeOK
  <2> QED BY <2>1, <2>2 DEF PusherInv, ThreadTypes, TypeOK
<1> QED BY <1>1, PusherInvariant, PTL

\* From the first erase to the last read back, neither main() nor the guest reads
\* the window of the flash: nl_push() goes on only with the yes of halt_guest(),
\* and no restart of main() comes while it works.
THEOREM PushExcludesReaders == Spec => []NoReadUnderWrite
<1>1. PusherInv => NoReadUnderWrite
  BY DEF PusherInv, Exclusive, HP!HaltInv, HP!Quiet, NoReadUnderWrite, H!ReadsFlash, H!Booting
<1> QED BY <1>1, PusherInvariant, PTL

\* After "OK committed" the slot holds the pushed image until the next push that
\* gets as far as erasing: refused pushes, window reads and the wait for the
\* reboot leave it alone.
THEOREM CommitStays == Spec => []CommittedStays
<1>1. PusherInv => CommittedStays
  BY DEF PusherInv
<1> QED BY <1>1, PusherInvariant, PTL

\* The loader implements the image slots: nl_push(), the guards around it and the
\* reboot use them only as ImgSlot describes, so what is proved there holds here.
THEOREM PusherImplementsSlots == Spec => F!Spec
<1>1. Init => F!Init
  BY DEF Init
<1>2. PusherInv /\ [Next]_vars => [F!Next]_F!slotVars
  BY SlotInvKept DEF PusherInv
<1> QED BY <1>1, <1>2, PusherInvariant, PTL DEF Spec, F!Spec
=============================================================================

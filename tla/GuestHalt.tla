----------------------------- MODULE GuestHalt -----------------------------
(***************************************************************************)
(* Stopping the guest for an image push.                                   *)
(*                                                                         *)
(* Two threads of ra8d1-tinyemu.  main() checks the image slots, calls     *)
(* rv_machine_init() (which clears the machine, its stop flag included,    *)
(* and loads the kernel), runs the guest and reports its end to the        *)
(* pusher.  The pusher thread's halt_guest() asks for the stop and waits   *)
(* for the report.  main() reads the flash in place in every phase up to   *)
(* the end of the run loop, so a push may touch the flash only afterwards. *)
(***************************************************************************)
EXTENDS Naturals

CONSTANTS
  MaxTries,   \* requests before the deadline (HALT_MS / 100 ms)
  Prompt      \* TRUE: a stop request ends the run loop within one 100 ms wait

ASSUME HaltAssumption ==
  /\ MaxTries \in Nat \ {0}
  /\ Prompt \in BOOLEAN

VARIABLES
  main,            \* phase of main()
  stop,            \* rvm.stop: "no", or who raised it first
  guest_stopped,
  halt_by_pusher,
  halt_ack,        \* count of the binary semaphore halt_ack
  report,          \* what main() says of the end of the guest
  nb_up,           \* netbridge: promiscuous receive is on
  hpc,             \* where the pusher thread is in halt_guest()
  tries,           \* requests issued by this halt_guest() call
  since            \* main's phase when the current wait began (history)

haltVars == << main, stop, guest_stopped, halt_by_pusher, halt_ack, report,
               nb_up, hpc, tries, since >>

Booting == {"check", "load"}          \* reading both slots, loading the kernel
Phases  == Booting \cup {"run", "failed", "returned", "given", "done"}

\* main() still reads the memory-mapped flash window.
ReadsFlash == main \in Booting \cup {"run"}

TypeOK ==
  /\ main \in Phases
  /\ stop \in {"no", "guest", "pusher"}
  /\ guest_stopped \in BOOLEAN
  /\ halt_by_pusher \in BOOLEAN
  /\ halt_ack \in {0, 1}
  /\ report \in {"none", "push", "guest"}
  /\ nb_up \in BOOLEAN
  /\ hpc \in {"idle", "enter", "ask", "wait", "granted", "refused"}
  /\ tries \in 0..MaxTries
  /\ since \in Phases

\* rvt_netbridge_start() has run, and the driver may have refused promiscuous
\* mode.
BootState(up) ==
  /\ main = "check"
  /\ stop = "no"
  /\ guest_stopped = FALSE
  /\ halt_by_pusher = FALSE
  /\ halt_ack = 0
  /\ report = "none"
  /\ nb_up = up
  /\ hpc = "idle"
  /\ tries = 0
  /\ since = "check"

Init == \E up \in BOOLEAN : BootState(up)
-----------------------------------------------------------------------------
(* main() and the guest *)

mainVars == << guest_stopped, halt_by_pusher, halt_ack, report >>
pushVars == << nb_up, hpc, tries, since >>

\* Setting the flag of a machine already asked to stop changes nothing.
Raise(who) == IF stop = "no" THEN who ELSE stop

\* slot_check() of both slots is over and rv_machine_init() clears the machine.
MachineInit ==
  /\ main = "check"
  /\ main' = "load"
  /\ stop' = "no"
  /\ UNCHANGED << mainVars, pushVars >>

\* The rest of rv_machine_init(): kernel copied out of flash, devices made.
MachineLoaded ==
  /\ main = "load"
  /\ main' = "run"
  /\ UNCHANGED << stop, mainVars, pushVars >>

\* The guest powers itself off or reboots (syscon, SBI).
GuestPowerOff ==
  /\ main = "run"
  /\ stop' = Raise("guest")
  /\ UNCHANGED << main, mainVars, pushVars >>

\* rvt_pusher_guest_halted() after rv_machine_run(), first statement.
GuestHaltedSet ==
  /\ main = "run"
  /\ stop # "no"
  /\ main' = "returned"
  /\ guest_stopped' = TRUE
  /\ UNCHANGED << stop, halt_by_pusher, halt_ack, report, pushVars >>

\* The same call after rv_machine_init() has failed, before or after its memset:
\* no guest will ever run, and main() ignores the answer.
InitFailedSet ==
  /\ main \in Booting
  /\ main' = "failed"
  /\ guest_stopped' = TRUE
  /\ UNCHANGED << stop, halt_by_pusher, halt_ack, report, pushVars >>

\* k_sem_give(&halt_ack): a binary semaphore.
GuestHaltedGive ==
  /\ main \in {"returned", "failed"}
  /\ main' = IF main = "returned" THEN "given" ELSE "done"
  /\ halt_ack' = 1
  /\ UNCHANGED << stop, guest_stopped, halt_by_pusher, report, pushVars >>

\* The return value of rvt_pusher_guest_halted() decides what main() prints.
GuestHaltedReport ==
  /\ main = "given"
  /\ main' = "done"
  /\ report' = IF halt_by_pusher THEN "push" ELSE "guest"
  /\ UNCHANGED << stop, guest_stopped, halt_by_pusher, halt_ack, pushVars >>

Main == \/ MachineInit \/ MachineLoaded
        \/ GuestHaltedSet \/ InitFailedSet \/ GuestHaltedGive \/ GuestHaltedReport
-----------------------------------------------------------------------------
(* halt_guest(), on the pusher thread *)

\* nl_push() calls halt_guest(); a later push may call it again.
HaltCall ==
  /\ hpc \in {"idle", "granted", "refused"}
  /\ hpc' = "enter"
  /\ tries' = 0
  /\ UNCHANGED << main, stop, mainVars, nb_up, since >>

\* An already stopped guest is an immediate yes.
HaltAlready ==
  /\ hpc = "enter"
  /\ guest_stopped
  /\ hpc' = "granted"
  /\ UNCHANGED << main, stop, mainVars, nb_up, tries, since >>

HaltBegin ==
  /\ hpc = "enter"
  /\ ~guest_stopped
  /\ hpc' = "ask"
  /\ halt_by_pusher' = TRUE
  /\ UNCHANGED << main, stop, guest_stopped, halt_ack, report, nb_up, tries,
                  since >>

\* rv_request_poweroff() writes the flag even of a machine not yet cleared.
HaltAsk ==
  /\ hpc = "ask"
  /\ hpc' = "wait"
  /\ stop' = Raise("pusher")
  /\ tries' = tries + 1
  /\ since' = main
  /\ UNCHANGED << main, mainVars, nb_up >>

\* k_sem_take() succeeds; rvt_netbridge_suspend().
HaltAck ==
  /\ hpc = "wait"
  /\ halt_ack = 1
  /\ hpc' = "granted"
  /\ halt_ack' = 0
  /\ nb_up' = FALSE
  /\ UNCHANGED << main, stop, guest_stopped, halt_by_pusher, report, tries,
                  since >>

\* k_sem_take() times out.  Under Prompt it does not when the run loop has been
\* asked to stop: a slice of RV_SLICE_INSNS is far shorter than 100 ms.
WaitExpired ==
  /\ hpc = "wait"
  /\ halt_ack = 0
  /\ Prompt => /\ main = "run" => stop = "no"
               /\ main \notin {"returned", "failed"}

\* Mutant: rv_request_poweroff() is called once, before the loop.
MutAskOnce ==
  /\ WaitExpired
  /\ tries < MaxTries
  /\ hpc' = "wait"
  /\ tries' = tries + 1
  /\ since' = main
  /\ UNCHANGED << main, stop, mainVars, nb_up >>

HaltAgain ==
  /\ WaitExpired
  /\ tries < MaxTries
  /\ hpc' = "ask"
  /\ UNCHANGED << main, stop, mainVars, nb_up, tries, since >>

\* Mutant: a timeout falls through to the success path.
MutGrantOnTimeout ==
  /\ WaitExpired
  /\ hpc' = "granted"
  /\ UNCHANGED << main, stop, mainVars, nb_up, tries, since >>

\* The deadline may pass in any iteration: waits are at least 100 ms long.
HaltRefuse ==
  /\ WaitExpired
  /\ hpc' = "refused"
  /\ UNCHANGED << main, stop, mainVars, nb_up, tries, since >>

HaltGuest == \/ HaltAlready \/ HaltBegin \/ HaltAsk \/ HaltAck
             \/ HaltAgain \/ HaltRefuse

Next == Main \/ GuestPowerOff \/ HaltCall \/ HaltGuest

Spec == Init /\ [][Next]_haltVars
-----------------------------------------------------------------------------
(* Properties *)

\* halt_guest() answers yes only when main() is past its last read of the
\* flash window: slot checks, kernel load and guest are all over.  This is what
\* lets nl_push() erase and program without racing a memory-mapped read.
GrantedMeansQuiet == hpc = "granted" => ~ReadsFlash

\* halt_guest() gives up only if main() was still booting when the wait that
\* timed out began: once the guest runs, one more request stops it, although
\* rv_machine_init() erased the earlier ones (the comment above halt_guest()).
\* Needs Prompt.
RefusedOnlyWhileBooting ==
  [][hpc' = "refused" /\ hpc # "refused" => since \in Booting]_haltVars

\* netbridge.h: suspend is "called by the image pusher once it has stopped the
\* guest", so that no push competes with cloned frames.
GrantedMeansNoPromiscuous == hpc = "granted" => ~nb_up

\* pusher.h: rvt_pusher_guest_halted() "returns true if this app stopped the
\* guest for a push": its request ended the run loop, or a push waits for the end.
ReportIsTrue ==
  [][report' = "push" /\ report # "push" =>
       stop = "pusher" \/ hpc \in {"ask", "wait", "granted"}]_haltVars
=============================================================================

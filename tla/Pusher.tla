------------------------------- MODULE Pusher -------------------------------
(***************************************************************************)
(* The RA8LDR image loader as a whole: nl_thread() and nl_push(), with the *)
(* guest they must stop first (GuestHalt), the slots they write (ImgSlot)  *)
(* and the deferred reboot into the new image.  The threads and buffers of *)
(* the payload phase are in NlWriter; here the payload arrives in order or *)
(* the transfer fails, which is what NlWriter is shown to implement.       *)
(***************************************************************************)
EXTENDS Naturals, FiniteSets

CONSTANTS
  MaxTries, Prompt,                                        \* GuestHalt
  Slots, Base, Span, FlashCells, CellsPerBlock, KernelSlot, RamCells,
  Images, Size, NoImage, Attempts, BlankCheck,             \* ImgSlot
  AutoReboot,   \* CONFIG_RVT_PUSHER_REBOOT_DELAY_S > 0
  MaxConns      \* bound: connections accepted in a behaviour


VARIABLES
  main, stop, guest_stopped, halt_by_pusher, halt_ack, report, nb_up, hpc,
  tries, since,                                            \* GuestHalt
  flash, cache, spc, slot, image, blk, cell, attempt, clean,
  outcome,                                                 \* ImgSlot
  npc,             \* where nl_thread() is
  req,             \* slot and image of the header received
  reboot_armed,
  due,             \* reboot_at has passed
  nl_writer_lost,
  last,            \* how the last push that erased something ended (history)
  conns            \* connections so far

H == INSTANCE GuestHalt
F == INSTANCE ImgSlot

\* The components' own assumptions, and the loader's.
ASSUME PusherAssumption ==
  /\ H!HaltAssumption
  /\ F!SlotAssumption
  /\ AutoReboot \in BOOLEAN /\ MaxConns \in Nat

haltVars == << main, stop, guest_stopped, halt_by_pusher, halt_ack, report,
               nb_up, hpc, tries, since >>
slotVars == << flash, cache, spc, slot, image, blk, cell, attempt, clean,
               outcome >>
nlVars == << npc, req, reboot_armed, due, nl_writer_lost, last, conns >>
vars == << haltVars, slotVars, nlVars >>

TypeOK ==
  /\ H!TypeOK
  /\ F!TypeOK
  /\ npc \in {"noaddr", "top", "poll", "rebuild", "header", "halt", "push",
              "close", "reboot"}
  /\ req \in Slots \X Images
  /\ reboot_armed \in BOOLEAN
  /\ due \in BOOLEAN
  /\ nl_writer_lost \in BOOLEAN
  /\ last \in {"none", "ok", "failed"}
  /\ conns \in 0..MaxConns

Init ==
  /\ H!Init
  /\ F!Init
  /\ npc = "noaddr"
  /\ req = << slot, image >>
  /\ reboot_armed = FALSE
  /\ due = FALSE
  /\ nl_writer_lost = FALSE
  /\ last = "none"
  /\ conns = 0
-----------------------------------------------------------------------------
(* main(), the guest and the clock: not the pusher's thread *)

MainStep == /\ H!Main
            /\ UNCHANGED << slotVars, nlVars >>

GuestStep == /\ H!GuestPowerOff
             /\ UNCHANGED << slotVars, nlVars >>

\* slot_check(), the kernel load and virtio-blk all read through the window.
MainReads(s) == /\ H!ReadsFlash
                /\ F!WindowRead(s)
                /\ UNCHANGED << haltVars, nlVars >>

\* REBOOT_DELAY_S go by without arm_reboot().
DelayPasses ==
  /\ reboot_armed
  /\ ~due
  /\ due' = TRUE
  /\ UNCHANGED << haltVars, slotVars, npc, req, reboot_armed, nl_writer_lost,
                  last, conns >>
-----------------------------------------------------------------------------
(* nl_thread() *)

\* have_addr(), socket(), bind() and listen() all succeed at last.
Listen ==
  /\ npc \in {"noaddr", "rebuild"}
  /\ npc' = "top"
  /\ UNCHANGED << haltVars, slotVars, req, reboot_armed, due, nl_writer_lost,
                  last, conns >>

RebootDue == AutoReboot /\ reboot_armed /\ due

\* The top of the loop tests the deadline before it waits.
LoopTop ==
  /\ npc = "top"
  /\ npc' = IF RebootDue THEN "reboot" ELSE "poll"
  /\ UNCHANGED << haltVars, slotVars, req, reboot_armed, due, nl_writer_lost,
                  last, conns >>

\* Mutant: poll() waits for ever.
MutPollForever == FALSE

\* poll() waits no longer than to the deadline.
PollTimesOut ==
  /\ npc = "poll"
  /\ RebootDue
  /\ npc' = "top"
  /\ UNCHANGED << haltVars, slotVars, req, reboot_armed, due, nl_writer_lost,
                  last, conns >>

\* poll() reports an error, or accept() fails: the listener is rebuilt.
ListenerFails ==
  /\ npc = "poll"
  /\ npc' = "rebuild"
  /\ UNCHANGED << haltVars, slotVars, req, reboot_armed, due, nl_writer_lost,
                  last, conns >>

\* poll() and accept() deliver a connection; the push that follows an abandoned
\* writer would be refused, but the board has rebooted by then.
Connect ==
  /\ npc = "poll"
  /\ conns < MaxConns
  /\ conns' = conns + 1
  /\ npc' = IF nl_writer_lost THEN "close" ELSE "header"
  /\ UNCHANGED << haltVars, slotVars, req, reboot_armed, due, nl_writer_lost,
                  last >>

\* Mutant: the header is received without a timeout.
MutHeaderForever == FALSE

\* The banner cannot be sent, no header comes, bad magic or bad slot.
NoHeader ==
  /\ npc = "header"
  /\ npc' = "close"
  /\ UNCHANGED << haltVars, slotVars, req, reboot_armed, due, nl_writer_lost,
                  last, conns >>

HeaderRejected(s, i) ==
  /\ npc = "header"
  /\ F!Reject(s, i)
  /\ npc' = "close"
  /\ UNCHANGED << haltVars, req, reboot_armed, due, nl_writer_lost, last,
                  conns >>

Fits(s, i) == Size[i] # 0 /\ Size[i] <= F!MaxSize(s)

HeaderAccepted(s, i) ==
  /\ npc = "header"
  /\ Fits(s, i)
  /\ req' = << s, i >>
  /\ H!HaltCall
  /\ npc' = "halt"
  /\ UNCHANGED << slotVars, reboot_armed, due, nl_writer_lost, last, conns >>

Halting == /\ npc = "halt"
           /\ H!HaltGuest
           /\ UNCHANGED << slotVars, nlVars >>

\* "ERR guest would not stop", or "OK header" cannot be sent.
HaltEndsPush ==
  /\ npc = "halt"
  /\ hpc \in {"granted", "refused"}
  /\ npc' = "close"
  /\ UNCHANGED << haltVars, slotVars, req, reboot_armed, due, nl_writer_lost,
                  last, conns >>

\* Mutant: the answer of halt_guest() is ignored.
MutEraseAnyway ==
  /\ npc = "halt"
  /\ hpc \in {"granted", "refused"}
  /\ F!Accept(req[1], req[2])
  /\ npc' = "push"
  /\ last' = "failed"
  /\ UNCHANGED << haltVars, req, reboot_armed, due, nl_writer_lost, conns >>

StartErase ==
  /\ npc = "halt"
  /\ hpc = "granted"
  /\ F!Accept(req[1], req[2])
  /\ npc' = "push"
  /\ last' = "failed"
  /\ UNCHANGED << haltVars, req, reboot_armed, due, nl_writer_lost, conns >>

Pushing == /\ npc = "push"
           /\ F!PushStep
           /\ UNCHANGED << haltVars, nlVars >>

\* The writer thread does not come back from flash_write().
WriterLost ==
  /\ npc = "push"
  /\ spc = "programming"
  /\ F!StreamFails
  /\ nl_writer_lost' = TRUE
  /\ UNCHANGED << haltVars, npc, req, reboot_armed, due, last, conns >>

\* Mutant: the result of img_commit() is not tested.
MutCommitUnchecked ==
  /\ npc = "push"
  /\ spc = "idle"
  /\ npc' = "close"
  /\ IF outcome \in {"ok", "unverified"}
     THEN reboot_armed' = TRUE /\ last' = "ok"
     ELSE UNCHANGED << reboot_armed, last >>
  /\ UNCHANGED << haltVars, slotVars, req, due, nl_writer_lost, conns >>

PushReturns ==
  /\ npc = "push"
  /\ spc = "idle"
  /\ npc' = "close"
  /\ IF outcome = "ok"
     THEN reboot_armed' = TRUE /\ last' = "ok"
     ELSE UNCHANGED << reboot_armed, last >>
  /\ UNCHANGED << haltVars, slotVars, req, due, nl_writer_lost, conns >>

\* The connection is closed.  A lost writer is a reboot; otherwise an armed
\* reboot is put off, whatever became of the push.
Close ==
  /\ npc = "close"
  /\ npc' = IF nl_writer_lost THEN "reboot" ELSE "top"
  /\ due' = FALSE
  /\ UNCHANGED << haltVars, slotVars, req, reboot_armed, nl_writer_lost, last,
                  conns >>
-----------------------------------------------------------------------------
(* Reset: everything but the flash starts over *)

Restart ==
  /\ \E up \in BOOLEAN :
       /\ main' = "check" /\ stop' = "no" /\ guest_stopped' = FALSE
       /\ halt_by_pusher' = FALSE /\ halt_ack' = 0 /\ report' = "none"
       /\ nb_up' = up /\ hpc' = "idle" /\ tries' = 0 /\ since' = "check"
  /\ F!Crash
  /\ npc' = "noaddr"
  /\ reboot_armed' = FALSE
  /\ due' = FALSE
  /\ nl_writer_lost' = FALSE
  /\ last' = "none"
  /\ UNCHANGED << req, conns >>

\* pusher_reboot(): sys_reboot(SYS_REBOOT_COLD).
PusherReboot == npc = "reboot" /\ Restart

\* Power failure, at any time.
PowerFailure == Restart

\* What the thread does by itself: the client is not needed, since every wait
\* for its data has a timeout (and a send of a line is taken to return).
NlThread ==
  \/ Listen \/ LoopTop \/ PollTimesOut \/ NoHeader
  \/ Halting \/ HaltEndsPush \/ StartErase \/ Pushing \/ WriterLost
  \/ PushReturns \/ Close \/ PusherReboot

Client ==
  \/ Connect
  \/ \E s \in Slots, i \in Images : HeaderRejected(s, i) \/ HeaderAccepted(s, i)

Next ==
  \/ NlThread \/ Client \/ ListenerFails
  \/ MainStep \/ GuestStep \/ DelayPasses
  \/ \E s \in Slots : MainReads(s)
  \/ PowerFailure

Spec == Init /\ [][Next]_vars

\* Threads are scheduled and time passes; clients, the guest, power failures and
\* socket errors come as they like.
FairSpec == /\ Spec
            /\ WF_vars(NlThread)
            /\ WF_vars(MainStep)
            /\ WF_vars(DelayPasses)
-----------------------------------------------------------------------------
(* Properties *)

\* From the first erase to the last read back of a push, neither main() nor the
\* guest reads the window of the flash being written.
NoReadUnderWrite == spc # "idle" => ~H!ReadsFlash

\* After "OK committed", until the next push gets as far as erasing, the slot
\* holds the pushed image: the reboot goes into it.
CommittedStays == last = "ok" => F!Intact(slot, image)

\* No client, silent, slow or dead, keeps the loader: every connection ends.
ConnectionEnds == npc = "header" ~> npc \in {"top", "reboot", "noaddr"}

\* A committed image is booted: unless clients keep connecting for ever, an
\* armed reboot happens (or a power failure comes first).
ArmedReboots == AutoReboot /\ reboot_armed ~> ~reboot_armed

\* pusher.c: "A *failed* push does not arm it, deliberately": the timer reboots
\* the board only if the last push that erased a slot also committed it.
FailedPushDoesNotReboot ==
  [][npc = "top" /\ npc' = "reboot" => last = "ok"]_vars
=============================================================================

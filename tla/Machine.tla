------------------------------- MODULE Machine -------------------------------
(***************************************************************************)
(* The machine of rv_machine.c around the hart: run loop, timer, PLIC, 8250*)
(* and power control, the host's SBI of rv_hostsbi.c, and the console and  *)
(* clock of platform_zephyr.c.                                             *)
(*                                                                         *)
(* The emulator thread alternates timer_update(), uart_poll_input() and the*)
(* network poll with slices of guest code; a slice ends after any step of  *)
(* the guest, or at once while the hart sleeps.  The UART's interrupt      *)
(* handler puts received bytes into the platform ring at any time.  The    *)
(* guest is Linux (external): process context, an idle loop that sleeps    *)
(* with interrupts off, and the handlers of timer, software and external   *)
(* interrupts, with the 8250 driver below.                                 *)
(*                                                                         *)
(* Bytes are numbered in the order in which they reach the board, the ones *)
(* of the telnet client above the ones of the UART.                        *)
(***************************************************************************)
EXTENDS Integers, Sequences, FiniteSets

CONSTANTS
    RxRing,     \* RV_RX_RING: the 8250 ring holds one byte less
    PlatRing,   \* CONFIG_RVT_UART_RX_RING
    Burst,      \* most bytes the UART hands to one call of its handler
    MaxTyped,   \* bound: bytes that arrive at the UART
    MaxTel,     \* bound: bytes that arrive from the telnet client
    MaxSent,    \* bound: bytes the guest prints
    CycMod,     \* the cycle counter wraps, 2^32 in the code
    CycPerUs,   \* cycles of a tick of the timebase
    MaxSlice,   \* most cycles from one timer_update() to the next
    MaxTime,    \* bound: cycles
    Delays,     \* how far ahead the guest sets its timer
    MaxArms,    \* bound: timer calls
    MaxOther,   \* bound: software interrupts, frames, calls of the debug console
    ResetTypes, \* the types of SRST that are tried, 0 to 2
    AddrMod,    \* the width of a guest physical address, 2^64 in the code
    RamBase, RamSize

ASSUME MachineAssumption ==
    /\ {RxRing, PlatRing, Burst, CycMod, CycPerUs, MaxSlice, MaxTime, RamSize} \subseteq Nat \ {0}
    /\ {MaxTyped, MaxTel, MaxSent, MaxArms, MaxOther, RamBase, AddrMod} \subseteq Nat
    /\ MaxSlice < CycMod
    /\ RamBase + RamSize <= AddrMod
    /\ Delays \subseteq Nat \ {0} /\ ResetTypes \subseteq 0 .. 2

VARIABLES
    loop,       \* the emulator thread: [at, ran]
    stop,       \* rvm.stop: 0 running, 1 power off, 2 reboot
    hart,       \* [mip, mie, sie, asleep]
    timecmp,    \* rvm.timecmp
    plic,       \* [pending, served]
    uart,       \* [rdi, thri, rx, dropped]
    input,      \* [ring, tel]: uart_rx_rb and the telnet client's bytes
    typed,      \* [uart, tel, lost]: how many have arrived, and which the ring refused
    clock,      \* [real, last, total]: cycles that have passed, cyc_last, cyc_total
    kernel,     \* the guest: [at, irq, arms, tosend, other]
    due,        \* ghost: when the timer that was set last may fire, in real cycles
    taken,      \* ghost: [uart, sbi]: the bytes read by the 8250 driver and by SBI calls
    buffer      \* ghost: the last buffer of the debug console that was touched

devVars == <<timecmp, plic, uart>>
inVars == <<input, typed>>
vars == <<loop, stop, hart, devVars, inVars, clock, kernel, due, taken, buffer>>

Never == -1
SSIP == 1
STIP == 5
SEIP == 9
UartIrq == 1
NetIrq == 3
TelBase == MaxTyped

NoBuffer == [base |-> RamBase, len |-> 0]

MachineInit ==
    /\ loop = [at |-> "timer", ran |-> FALSE]
    /\ stop = 0
    /\ hart = [mip |-> {}, mie |-> {SSIP, SEIP}, sie |-> TRUE, asleep |-> FALSE]
    /\ timecmp = Never
    /\ plic = [pending |-> {}, served |-> {}]
    /\ uart = [rdi |-> FALSE, thri |-> FALSE, rx |-> <<>>, dropped |-> 0]
    /\ input = [ring |-> <<>>, tel |-> <<>>]
    /\ typed = [uart |-> 0, tel |-> 0, lost |-> {}]
    /\ clock = [real |-> 0, last |-> 0, total |-> 0]
    /\ kernel = [at |-> "work", irq |-> 0, arms |-> 0, tosend |-> 0, other |-> 0]
    /\ due = Never
    /\ taken = [uart |-> <<>>, sbi |-> <<>>]
    /\ buffer = NoBuffer

-----------------------------------------------------------------------------
(* The hart as the devices see it.                                         *)

\* riscv_cpu_set_mip(): wakes the hart when the interrupt is enabled.
CpuSetMip(h, irq) ==
    LET m == h.mip \cup {irq}
    IN [h EXCEPT !.mip = m, !.asleep = @ /\ m \cap h.mie = {}]
CpuResetMip(h, irq) == [h EXCEPT !.mip = @ \ {irq}]

-----------------------------------------------------------------------------
(* The clock: plat_now_us(), rv_mtime() and riscv_host_rdtime().           *)

Elapsed == (clock.real - clock.last) % CycMod
ReadClock == [clock EXCEPT !.total = @ + Elapsed, !.last = clock.real % CycMod]
Now == (clock.total + Elapsed) \div CycPerUs

-----------------------------------------------------------------------------
(* The PLIC.                                                               *)

\* plic_update(): the level of SEIP follows from p.
PlicUpdate(h, p) == IF p.pending \ p.served # {} THEN CpuSetMip(h, SEIP) ELSE CpuResetMip(h, SEIP)

\* plic_set_irq() and rv_plic_set_irq().
Line(p, irq, level) ==
    [p EXCEPT !.pending = IF level THEN @ \cup {irq} ELSE @ \ {irq}]

\* plic_read() of the claim register: the lowest source that is not being served.
Claimable == plic.pending \ plic.served
Claimed == IF Claimable = {} THEN 0 ELSE CHOOSE i \in Claimable : \A j \in Claimable : i <= j

\* Completing a source releases the next one.
MutCompleted(irq) == [plic EXCEPT !.served = @ \ {irq + 1}]

\* plic_write() of the claim register.
Completed(irq) == [plic EXCEPT !.served = @ \ {irq}]

-----------------------------------------------------------------------------
(* The 8250.                                                               *)

UartActive(u) == (u.rdi /\ u.rx # <<>>) \/ u.thri

\* The line is raised for received data only.
MutUartLevel(u) == Line(plic, UartIrq, u.rdi /\ u.rx # <<>>)

\* uart_update_irq().
UartLevel(u) == Line(plic, UartIrq, UartActive(u))

\* A write or a read that ends in uart_update_irq().
SetUart(u) ==
    /\ uart' = u
    /\ plic' = UartLevel(u)
    /\ hart' = PlicUpdate(hart, UartLevel(u))

\* One byte more than the ring can hold.
MutHasRoom == Len(uart.rx) < RxRing

\* The test of uart_poll_input(), made before a byte is taken.
HasRoom == Len(uart.rx) < RxRing - 1

\* uart_push_rx().
PushRx(c) ==
    IF Len(uart.rx) >= RxRing - 1
    THEN uart' = [uart EXCEPT !.dropped = @ + 1] /\ UNCHANGED <<plic, hart>>
    ELSE SetUart([uart EXCEPT !.rx = Append(@, c)])

-----------------------------------------------------------------------------
(* The platform console.                                                   *)

\* plat_getc(): the telnet client first, then the UART's ring.
HasInput == input.tel # <<>> \/ input.ring # <<>>
NextByte == IF input.tel # <<>> THEN Head(input.tel) ELSE Head(input.ring)
RestOfInput == IF input.tel # <<>> THEN [input EXCEPT !.tel = Tail(@)]
               ELSE [input EXCEPT !.ring = Tail(@)]

\* uart_rx_isr(): what does not fit is lost.
UartRxIsr(n) ==
    /\ stop = 0
    /\ typed.uart + n <= MaxTyped
    /\ LET fits == IF n <= PlatRing - Len(input.ring) THEN n ELSE PlatRing - Len(input.ring)
       IN /\ input' = [input EXCEPT !.ring = @ \o [i \in 1 .. fits |-> typed.uart + i]]
          /\ typed' = [typed EXCEPT !.uart = @ + n,
                           !.lost = @ \cup (typed.uart + fits + 1 .. typed.uart + n)]
    /\ UNCHANGED <<loop, stop, hart, devVars, clock, kernel, due, taken, buffer>>

\* A byte from the telnet client (external here: TelnetConsole).
TelnetByte ==
    /\ stop = 0
    /\ typed.tel < MaxTel
    /\ input' = [input EXCEPT !.tel = Append(@, TelBase + typed.tel + 1)]
    /\ typed' = [typed EXCEPT !.tel = @ + 1]
    /\ UNCHANGED <<loop, stop, hart, devVars, clock, kernel, due, taken, buffer>>

-----------------------------------------------------------------------------
(* The run loop of rv_machine_run_bounded().                               *)

LoopTo(at) == loop' = [at |-> at, ran |-> FALSE]

\* The timer fires one tick late.
MutExpired == timecmp # Never /\ Now > timecmp

\* The clock is read only while a timer is set.
Expired == timecmp # Never /\ Now >= timecmp

\* timer_update(), at the head of the loop.
TimerUpdate ==
    /\ loop.at = "timer"
    /\ IF stop # 0 THEN LoopTo("out") /\ UNCHANGED <<hart, timecmp, clock>>
       ELSE /\ LoopTo("poll")
            /\ clock' = IF timecmp # Never THEN ReadClock ELSE clock
            /\ IF Expired THEN hart' = CpuSetMip(hart, STIP) /\ timecmp' = Never
               ELSE UNCHANGED <<hart, timecmp>>
    /\ UNCHANGED <<stop, plic, uart, inVars, kernel, due, taken, buffer>>

\* uart_poll_input().
PollInput ==
    /\ loop.at = "poll"
    /\ IF HasRoom /\ HasInput
       THEN /\ PushRx(NextByte)
            /\ input' = RestOfInput
            /\ UNCHANGED loop
       ELSE LoopTo("net") /\ UNCHANGED <<uart, plic, hart, input>>
    /\ UNCHANGED <<stop, timecmp, typed, clock, kernel, due, taken, buffer>>

\* rv_virtio_net_poll(): the device may raise its line (VirtioNet).
NetPoll(frame) ==
    /\ loop.at = "net"
    /\ LoopTo("run")
    /\ frame => kernel.other < MaxOther
    /\ kernel' = [kernel EXCEPT !.other = IF frame THEN @ + 1 ELSE @]
    /\ plic' = IF frame THEN Line(plic, NetIrq, TRUE) ELSE plic
    /\ hart' = IF frame THEN PlicUpdate(hart, plic') ELSE hart
    /\ UNCHANGED <<stop, timecmp, uart, inVars, clock, due, taken, buffer>>

\* riscv_cpu_interp() returns: the hart sleeps, or its instructions are used up.
\* Time passes: n cycles since the last slice, some of them while the hart sleeps.
SliceEnd(n) ==
    /\ loop.at = "run"
    /\ hart.asleep \/ loop.ran
    /\ LoopTo("timer")
    /\ clock.real + n <= MaxTime
    /\ hart.asleep /\ clock.real < MaxTime => n > 0
    /\ clock' = [clock EXCEPT !.real = @ + n]
    /\ buffer' = NoBuffer
    /\ UNCHANGED <<stop, hart, devVars, inVars, kernel, due, taken>>

-----------------------------------------------------------------------------
(* Calls of the host's SBI: riscv_host_sbi().                              *)

\* A step of the guest, in the part of the kernel that at names.
Guest(at) ==
    /\ loop.at = "run" /\ ~hart.asleep
    /\ kernel.at = at
    /\ loop' = [loop EXCEPT !.ran = TRUE]

\* An interrupt that is pending stays pending.
MutSetTimer(h) == h

\* rv_set_timer(): setting the timer withdraws its interrupt.
SetTimer(h) == CpuResetMip(h, STIP)

\* TIME and the legacy call, from the timer driver, which reads the clock
\* and enables the interrupt first.
Arm(d) ==
    /\ kernel.arms < MaxArms
    /\ clock.real + d * CycPerUs <= MaxTime
    /\ clock' = ReadClock
    /\ timecmp' = Now + d
    /\ hart' = SetTimer([hart EXCEPT !.mie = @ \cup {STIP}])
    /\ kernel' = [kernel EXCEPT !.arms = @ + 1, !.at = "work"]
    /\ due' = clock.real + (d - 1) * CycPerUs + 1

SbiSetTimer(d) ==
    /\ Guest("work")
    /\ Arm(d)
    /\ UNCHANGED <<stop, plic, uart, inVars, taken, buffer>>

\* IPI and its legacy call: rv_set_ipi(), to the only hart.
SbiSendIpi ==
    /\ Guest("work")
    /\ kernel.other < MaxOther
    /\ kernel' = [kernel EXCEPT !.other = @ + 1]
    /\ hart' = CpuSetMip(hart, SSIP)
    /\ UNCHANGED <<stop, devVars, inVars, clock, due, taken, buffer>>

\* SRST with a type of 0 to 2, the legacy shutdown, and syscon_write(): the call
\* returns and the loop stops after the slice, which the kernel spins away.
SystemReset(type) ==
    /\ Guest("work")
    /\ stop' = IF type = 0 THEN 1 ELSE 2
    /\ kernel' = [kernel EXCEPT !.at = "dead"]
    /\ UNCHANGED <<hart, devVars, inVars, clock, due, taken, buffer>>

\* rv_guest_phys_ptr().
PhysOk(base, len) ==
    /\ base >= RamBase /\ len <= RamSize
    /\ base - RamBase <= RamSize - len

\* DBCN console_read(): as many bytes as are waiting.  A length of zero and a
\* buffer outside the RAM are answered without a transfer.
SbiConsoleRead(base, len) ==
    /\ Guest("work")
    /\ kernel.other < MaxOther /\ len > 0 /\ PhysOk(base, len)
    /\ kernel' = [kernel EXCEPT !.other = @ + 1]
    /\ LET waiting == input.tel \o input.ring
           n == IF len < Len(waiting) THEN len ELSE Len(waiting)
           k == IF n < Len(input.tel) THEN n ELSE Len(input.tel)
       IN /\ taken' = [taken EXCEPT !.sbi = @ \o SubSeq(waiting, 1, n)]
          /\ input' = [tel |-> SubSeq(input.tel, k + 1, Len(input.tel)),
                       ring |-> SubSeq(input.ring, n - k + 1, Len(input.ring))]
          /\ buffer' = [base |-> base, len |-> len]
    /\ UNCHANGED <<stop, hart, devVars, typed, clock, due>>

\* The legacy getchar: a byte, or -1.
SbiGetchar ==
    /\ Guest("work")
    /\ kernel.other < MaxOther /\ HasInput
    /\ kernel' = [kernel EXCEPT !.other = @ + 1]
    /\ taken' = [taken EXCEPT !.sbi = Append(@, NextByte)]
    /\ input' = RestOfInput
    /\ UNCHANGED <<stop, hart, devVars, typed, clock, due, buffer>>

-----------------------------------------------------------------------------
(* The guest.                                                              *)

\* The console is opened: uart_write() of IER.
OpenConsole ==
    /\ Guest("work") /\ ~uart.rdi
    /\ SetUart([uart EXCEPT !.rdi = TRUE])
    /\ UNCHANGED <<stop, timecmp, inVars, clock, kernel, due, taken, buffer>>

\* A byte to print: the driver enables the transmit interrupt.
StartTx ==
    /\ Guest("work") /\ uart.rdi
    /\ kernel.other < MaxOther /\ kernel.tosend < MaxSent
    /\ kernel' = [kernel EXCEPT !.tosend = @ + 1, !.other = @ + 1]
    /\ SetUart([uart EXCEPT !.thri = TRUE])
    /\ UNCHANGED <<stop, timecmp, inVars, clock, due, taken, buffer>>

\* The branch to the idle loop is the end of a block, where an interrupt would
\* be taken; the loop turns interrupts off.
GoIdle ==
    /\ Guest("work")
    /\ hart.mip \cap hart.mie = {}
    /\ hart' = [hart EXCEPT !.sie = FALSE]
    /\ kernel' = [kernel EXCEPT !.at = "idle"]
    /\ UNCHANGED <<stop, devVars, inVars, clock, due, taken, buffer>>

\* wfi: power down unless an interrupt is pending and enabled.
CanSleep == hart.mip \cap hart.mie = {}

KernelWfi ==
    /\ Guest("idle")
    /\ hart' = [hart EXCEPT !.asleep = CanSleep]
    /\ kernel' = [kernel EXCEPT !.at = "woken"]
    /\ UNCHANGED <<stop, devVars, inVars, clock, due, taken, buffer>>

\* After wfi the idle loop turns interrupts on.
Woken ==
    /\ Guest("woken")
    /\ hart' = [hart EXCEPT !.sie = TRUE]
    /\ kernel' = [kernel EXCEPT !.at = "work"]
    /\ UNCHANGED <<stop, devVars, inVars, clock, due, taken, buffer>>

\* raise_interrupt(): the lowest one first.
TakeInterrupt(irq) ==
    /\ Guest("work")
    /\ hart.sie /\ irq \in hart.mip \cap hart.mie
    /\ \A i \in hart.mip \cap hart.mie : irq <= i
    /\ hart' = [hart EXCEPT !.sie = FALSE]
    /\ kernel' = [kernel EXCEPT !.at = CASE irq = SSIP -> "ipi" [] irq = STIP -> "timer"
                                        [] OTHER -> "ext"]
    /\ UNCHANGED <<stop, devVars, inVars, clock, due, taken, buffer>>

\* The kernel clears SSIP in sip and returns.
SoftIrq ==
    /\ Guest("ipi")
    /\ hart' = [CpuResetMip(hart, SSIP) EXCEPT !.sie = TRUE]
    /\ kernel' = [kernel EXCEPT !.at = "work"]
    /\ UNCHANGED <<stop, devVars, inVars, clock, due, taken, buffer>>

\* The timer driver disables its interrupt, and enables it again only when it
\* sets the timer.
TimerIrq ==
    /\ Guest("timer")
    /\ hart' = [hart EXCEPT !.mie = @ \ {STIP}, !.sie = TRUE]
    /\ kernel' = [kernel EXCEPT !.at = "work"]
    /\ UNCHANGED <<stop, devVars, inVars, clock, due, taken, buffer>>

\* The handler of external interrupts claims until nothing is left.
Claim ==
    /\ Guest("ext") /\ kernel.irq = 0
    /\ IF Claimed = 0
       THEN /\ hart' = [hart EXCEPT !.sie = TRUE]
            /\ kernel' = [kernel EXCEPT !.at = "work"]
            /\ UNCHANGED plic
       ELSE /\ plic' = [plic EXCEPT !.served = @ \cup {Claimed}]
            /\ hart' = PlicUpdate(hart, plic')
            /\ kernel' = [kernel EXCEPT !.irq = Claimed]
    /\ UNCHANGED <<stop, timecmp, uart, inVars, clock, due, taken, buffer>>

Serving(irq) == Guest("ext") /\ kernel.irq = irq

\* uart_read() of RBR, while LSR says that there is data.
UartReceive ==
    /\ Serving(UartIrq) /\ uart.rx # <<>>
    /\ SetUart([uart EXCEPT !.rx = Tail(@)])
    /\ taken' = [taken EXCEPT !.uart = Append(@, Head(uart.rx))]
    /\ UNCHANGED <<stop, timecmp, inVars, clock, kernel, due, buffer>>

\* uart_write() of THR, or of IER when nothing is left to print.
UartTransmit ==
    /\ Serving(UartIrq) /\ uart.rx = <<>> /\ uart.thri
    /\ IF kernel.tosend > 0
       THEN SetUart(uart) /\ kernel' = [kernel EXCEPT !.tosend = @ - 1]
       ELSE SetUart([uart EXCEPT !.thri = FALSE]) /\ UNCHANGED kernel
    /\ UNCHANGED <<stop, timecmp, inVars, clock, due, taken, buffer>>

\* The network driver acknowledges: vnet_write() lowers the line.
NetServe ==
    /\ Serving(NetIrq) /\ NetIrq \in plic.pending
    /\ plic' = Line(plic, NetIrq, FALSE)
    /\ hart' = PlicUpdate(hart, plic')
    /\ UNCHANGED <<stop, timecmp, uart, inVars, clock, kernel, due, taken, buffer>>

\* IIR says that nothing is pending, or the network driver is done.
Complete ==
    /\ \E irq \in {UartIrq, NetIrq} :
         /\ Serving(irq)
         /\ IF irq = UartIrq THEN uart.rx = <<>> /\ ~uart.thri ELSE NetIrq \notin plic.pending
         /\ plic' = Completed(irq)
    /\ hart' = PlicUpdate(hart, plic')
    /\ kernel' = [kernel EXCEPT !.irq = 0]
    /\ UNCHANGED <<stop, timecmp, uart, inVars, clock, due, taken, buffer>>

\* The run loop has returned.
Stopped == loop.at = "out" /\ UNCHANGED vars

Devices == TimerUpdate \/ PollInput \/ (\E f \in BOOLEAN : NetPoll(f))
           \/ \E n \in 0 .. MaxSlice : SliceEnd(n)
Buffers == {0, RamBase - 1, RamBase, RamBase + RamSize - 1, AddrMod - 1} \cap Nat
Sbi ==
    \/ \E d \in Delays : SbiSetTimer(d)
    \/ SbiSendIpi
    \/ \E type \in ResetTypes : SystemReset(type)
    \/ \E base \in Buffers, len \in {1, 2, RamSize, AddrMod - 1} : SbiConsoleRead(base, len)
    \/ SbiGetchar
Kernel ==
    \/ OpenConsole \/ StartTx \/ GoIdle \/ KernelWfi \/ Woken
    \/ \E irq \in {SSIP, STIP, SEIP} : TakeInterrupt(irq)
    \/ SoftIrq \/ TimerIrq
    \/ Claim \/ UartReceive \/ UartTransmit \/ NetServe \/ Complete
World == (\E n \in 1 .. Burst : UartRxIsr(n)) \/ TelnetByte

MachineNext == Devices \/ Sbi \/ Kernel \/ World \/ Stopped

Fairness == WF_vars(Devices \/ Sbi \/ Kernel)
MachineSpec == MachineInit /\ [][MachineNext]_vars /\ Fairness

-----------------------------------------------------------------------------
(* Properties.                                                             *)

MachineTypeOK ==
    /\ loop \in [at : {"timer", "poll", "net", "run", "out"}, ran : BOOLEAN]
    /\ stop \in 0 .. 2
    /\ hart \in [mip : SUBSET {SSIP, STIP, SEIP}, mie : SUBSET {SSIP, STIP, SEIP},
                 sie : BOOLEAN, asleep : BOOLEAN]
    /\ timecmp \in {Never} \cup Nat
    /\ plic \in [pending : SUBSET {UartIrq, NetIrq}, served : SUBSET {UartIrq, NetIrq}]

\* A sleeping hart has nothing to wake up for: no byte for an open console, no
\* transmit interrupt, no frame, no software interrupt, no timer that has fired
\* and is enabled.  Every place that can give it such a reason has to raise the
\* line, and the line has to reach wfi (uart_update_irq, plic_update, set_mip).
SleepHidesNothing ==
    hart.asleep =>
        /\ ~UartActive(uart)
        /\ NetIrq \notin plic.pending
        /\ hart.mip \cap hart.mie = {}

\* Every byte that has arrived is in one place: read by the 8250 driver, read
\* by an SBI call, in the 8250's ring, in an input ring, or lost to a full
\* platform ring; on its way to one of the two readers no byte is overtaken by a
\* later one of its source; and the 8250's ring, whose losses nothing reports,
\* never loses one.
Bytes(s) == {s[i] : i \in 1 .. Len(s)}
SameSource(c, d) == (c > TelBase) = (d > TelBase)
Ascending(s) == \A i, j \in 1 .. Len(s) : i < j /\ SameSource(s[i], s[j]) => s[i] < s[j]
EachByteOnce ==
    LET onUart == taken.uart \o uart.rx
        all == onUart \o taken.sbi \o input.ring \o input.tel
    IN /\ Len(all) + Cardinality(typed.lost) = typed.uart + typed.tel
       /\ Bytes(all) \cup typed.lost
            = 1 .. typed.uart \cup (TelBase + 1 .. TelBase + typed.tel)
       /\ Ascending(onUart \o input.ring \o input.tel)
       /\ Ascending(taken.sbi \o input.ring \o input.tel)
       /\ uart.dropped = 0

\* A timer interrupt is never early: while STIP is pending the time the guest
\* asked for has passed in real time, however often the counter has wrapped
\* and whatever interrupt was pending when it was set (rv_set_timer()).
TimerTrue == STIP \in hart.mip => clock.real >= due

\* No buffer of the debug console reaches outside the RAM, also at the end of
\* the address space (rv_guest_phys_ptr()).
BufferInRam ==
    /\ buffer.base >= RamBase
    /\ buffer.base + buffer.len <= RamBase + RamSize

\* Console input arrives: no byte is lost or doubled between the platform's
\* rings, the 8250 and the debug console, none overtakes an earlier one of its
\* source on the way to the same reader, and none is written outside the guest's
\* RAM (uart_poll_input(), dbcn console_read()).  A byte for one reader may well
\* be read before an earlier one for the other: the 8250 keeps
\* what it has taken in a ring of its own.
InputDelivered == EachByteOnce /\ BufferInRam

\* A byte in the platform's rings reaches a reader once the console is open,
\* unless the machine is stopped: the level of the UART survives claim and
\* complete, and sleep.
BytesArrive == (uart.rdi /\ HasInput) ~> (stop # 0 \/ (~HasInput /\ uart.rx = <<>>))

\* A timer that is set fires, and the guest takes its interrupt.
TimerFires == timecmp # Never ~>
    (stop # 0 \/ (timecmp = Never /\ STIP \notin hart.mip \cap hart.mie))

\* The guest's timebase counts elapsed microseconds, as plat_now_us() says: a
\* reading of the clock would return all the time that has passed.
ClockTrue == clock.total + Elapsed = clock.real
=============================================================================

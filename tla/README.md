# TLA+ models of ra8d1-linux

Linux on a Renesas RA8D1, a microcontroller without an MMU:
a Zephyr application (`ra8d1-tinyemu`) runs a RISC-V emulator, boots a kernel and
a root filesystem out of two slots of an octal NOR flash, puts the guest's
console on a serial port and on telnet, bridges its network, and lets a client
replace the images over TCP. This directory holds the models of that
application, the TLC configurations that check them and the proofs.

Paths below are relative to the repository's `ra8d1-tinyemu/`, unless they begin
with `ra8d1-linux/`.

## 1. The system

| Component | State | Operations | Talks to |
|---|---|---|---|
| guest stop (`src/pusher.c` `halt_guest`, `rvt_pusher_guest_halted`; `src/main.c`; `emu/rv_machine.c` stop flag) | `guest_stopped`, `halt_by_pusher`, `halt_ack`, `rvm.stop` | request a stop, wait, report the stop | shared by the pusher thread, main() and the guest |
| payload pipeline (`src/pusher.c` `nl_push` loop, `nl_writer`) | two buffers with length and offset, two semaphores, a sticky error, `nl_writer_lost` | receive, hand over, program, give back, end mark, stall | socket on one side, flash driver on the other, two threads |
| image slots (`src/pusher.c` `img_*`, `src/image.h`, `src/platform_zephyr.c` geometry) | the flash, the data cache over its window | accept a length, erase, blank check, program, header, verify | flash driver; main() and virtio-blk read the same window |
| loader service (`src/pusher.c` `nl_thread`, `nl_push`) | listener, header, deferred reboot | accept a connection, run a push, answer, reboot | all of the above, any client |
| telnet rings and session (`src/telnet.c`) | two SPSC rings, `tn_active`, `tn_dropped` | put, get, reset, serve, flush | telnet thread and the emulator's console hooks |
| telnet filter (`src/telnet.c` `tn_rx_byte`) | parser state, announced options, reply buffer | filter a byte, flush the reply | client and `tn_rx` |
| boot (`src/main.c`) | none that lasts | check both slots, choose what to boot | slots, machine |
| network bridge (`src/netbridge.c`) | receive ring, counters, promiscuous mode | tap, pull, send, suspend | Ethernet driver, virtio-net |
| virtio block, virtio net (`emu/rv_virtio*.c`) | queues, status, interrupt status | MMIO, walk a chain, complete, poll | guest driver, slot window, bridge |
| machine (`emu/rv_machine.c`) | CLINT, PLIC, 8250 UART, syscon, paravirtual I/O | MMIO, time, run loop | guest, platform layer |
| host SBI (`emu/rv_hostsbi.c`) | timer, console | ecall dispatch | guest |
| platform layer (`src/platform_zephyr.c`) | UART ring, extended clock | slot geometry, console, clock, I2C, GPIO | Zephyr |
| push tool (`ra8d1-linux/rvlinux/tools/pushimage.py`) | attempt counter | push, retry, wait for the board | loader service |
| rvlinux (`ra8d1-linux/rvlinux/src/main.c`) | the same loader and console, older, around mini-rv32ima | as above without a guest to stop | |

What is hard to test here:

* **Two threads, no locks.** The stop handshake, the two-buffer pipeline and the
  rings rely on the order of single assignments and on strict thread priorities.
* **The flash.** It survives a power failure in whatever state it is, may fail
  silently, must never be programmed twice without an erase (ECC), is erased in
  blocks larger than the header, and is read through a cache.
* **Waits that do not end.** A flash driver that hangs, a client that goes
  silent, a guest that does not stop: each wait has a timeout, and each timeout
  leaves something behind.
* **Sequences of pushes.** Kernel and rootfs are two pushes with one reboot.
* **Memory shared with a guest.** Ring indices wrap, chains may be malformed, an
  interrupt may be suppressed, acknowledged or enabled at any moment between the
  device's steps.
* **Caches without tags.** The TLBs and the code pointer of the interpreter know
  neither privilege nor `satp`; every instruction that changes one must flush.
* **Levels and sleep.** A guest that executes `wfi` is woken only by a line that
  somebody raises, and the lines depend on rings, masks and claims.

`PROJECT.json` lists each hazard at its line with the properties that cover it.

## 2. The modules

```
   ImageStream  <--implements--  NlWriter        (NlWriterProofs)
   GuestHalt (GuestHaltProofs) --+
                                 +-- Pusher (PusherProofs) -- MCPusher
   ImgSlot (ImgSlotProofs) ------+
   ImgSlot -- MCImgSlot
   TelnetConsole --+-- MCTelnet                  (both: TelnetProofs)
   TelnetFilter ---+
   Vring (VringProofs)                           (both devices: VirtioProofs)
     +-- VirtioBlk -- MCVirtioBlk --+
     |                              +-- MCDevices
     |         PvIo -- MCPvIo ------+
     +-- VirtioNet -- MCVirtioNet
   Cpu -- MCCpu --------+                        (Cpu, Machine: HartProofs)
                        +-- MCHart
   SoftFp -- MCSoftFp --+
   Machine
```

MCTelnet, MCDevices and MCHart each put two parts that share no state into one
run: a variable chosen in the initial state says which part the behaviour is
about, and the other part stays as it starts. No product of the two state spaces
is explored, and none would say more. The fairness of the part that stands still
asks for nothing, because none of its fair actions is enabled in its initial
state.

Variables have the names of the C variables where there is one. Definitions that
begin with `Mut` are deliberate bugs, one for each property, that TLC must
refute; no specification uses them.

### GuestHalt

main() as phases (`check` both slots, `load` inside `rv_machine_init()`, `run`,
`returned`/`failed`, `given`, `done`) and `halt_guest()` as a program counter.
One action per access to shared state, so all interleavings of the two threads
occur: in particular `rv_machine_init()` clears the whole machine, its stop flag
included, after the pusher may have set it. `rvt_pusher_guest_halted()` is three
steps (flag, semaphore, return value). The guest may power itself off at any
time. `Prompt` states that the run loop, once asked, returns before one 100 ms
wait is over (a slice of `RV_SLICE_INSNS` instructions takes far less); without
it a wait may expire at any time.

### ImageStream, NlWriter

`ImageStream` is what the payload phase promises: what has been programmed under
the image is at every moment its first n bytes, each in its place, with erased flash
behind them, n never shrinks, and the transfer ends well only with all of the image.
Its `slot` is the flash byte by byte, not a count, so a buffer that is programmed
before the one in front of it is no step of it. `NlWriter` is
the code: the pusher thread takes a free buffer, fills it by `recv()`s of any
size, pads the last one to an ECC unit, hands it over; the writer programs it,
remembers the first error but keeps returning buffers; a zero length ends it; a
stall on either side abandons it and leads to a reboot. A byte of the image is
its position, so a misplaced byte is visible; `programs` counts programs per ECC
unit. `flash_write()` is external: it may succeed, fail after any prefix, or
never return.

### ImgSlot, MCImgSlot

The flash as a line of cells: the first cell of a slot is its 4096-byte header
area, every other one a payload program; `CellsPerBlock` cells make an erase
block, so that the header shares its block with payload as it does on the chip.
Erase and program each have a begin and an end, and `Crash` may come between
them. An erase cut short leaves garbage (`Torn`); so does a program. An erase or
a program may report success and be wrong; programming a cell that is not blank
wrecks it. The cache holds old lines of the window, which may be evicted at any
time, and single reads may be marginal: these are the reasons why `img_commit()`
invalidates and retries. `Writable` and `MaxSize` are `plat_slot_offset()` and
`img_max_len()`: the last block of the chip is excluded, the header subtracted, a
kernel limited by the guest's RAM.

### Pusher, MCPusher

`nl_thread()` and `nl_push()` around instances of GuestHalt and ImgSlot: listen,
poll, header, halt, erase, stream, commit, close, and the deferred reboot. A
client may send anything, or nothing. A reset (by the loader or by power failure)
restarts main(), the pusher and the cache and keeps the flash. The payload arrives
in order or fails, which is what NlWriter is shown to implement. Progress lines,
diagnostics and the block CRC report change no state and are left out.

### TelnetConsole

Both rings with their arrays and indices. The telnet thread outranks the
emulator on the one core, so one of its steps is everything between two blocking
calls; the emulator may be preempted between any two accesses of `spsc_put()` and
`spsc_get()`, and runs only while the telnet thread is blocked. History variables
record what was put in and taken out since the last reset; `first` is how much the
guest had printed before the session, so that what it printed in it can be compared
with what was sent and what `tn_dropped` counts.

### TelnetFilter

The parser of `tn_rx_byte()` state by state, its reply buffer and the loop that
flushes it. The client sends whole tokens (a data byte, 0xFF doubled, CR LF,
CR NUL, all negotiations, a subnegotiation with an escape, a command) and TCP
cuts the stream anywhere. The ring behind it is taken to have room: drops are
TelnetConsole's subject. `tn_hello` announces ECHO and SGA without setting
`tn_said_*`, so the first DO of a client is answered by a second WILL, against the
comment above `tn_rx_byte()`; `RepliesBounded` shows that it ends there.

### Vring, VirtioBlk

`Vring` holds what `rv_virtio.c` and `rv_virtio_net.c` share line by line: reading
a descriptor, collecting a chain with its limits (too long, indirect, an index out
of range, a loop), writing a used element, deciding about the interrupt. Indices
count modulo `IdxMod`, a multiple of the queue size as 2^16 is. `VirtioBlk` is the
device: queue registers and reset, `queue_notify()` one chain a step,
`handle_chain()` with the header that may span descriptors, the data that is
copied or zeroed, the status byte, and every early return. The driver is external:
it publishes chains, kicks later, takes used elements back in a handler that may
run as a thread, suppresses interrupts while it drains and looks again after it
has enabled them, as Linux does. It also publishes chains no conforming driver
would, and resets the device.

### VirtioNet

Bridge, device and driver. `nb_rx_thread()` outranks the emulator and does not
block between the test for room and the last cell, so a frame goes into the ring
in one step, which may fall between any two steps of the emulator, the length
prefix and the payload included. `rv_virtio_net_poll()` takes a frame out in
two steps (peek at the prefix, take the rest and deliver) within its budget; a
frame without a buffer is dropped and counted by the device. What the bridge itself
turns away (`nb.rx_dropped`, `nb.rx_filtered`) never enters the ring, and its counters
are not modelled. Nor is the `break` after a `net_pkt_read()` that fails behind the
length prefix: the read asks for no more than `net_pkt_get_len()` of the same packet,
and does not fail. Both queues share one interrupt status. `rvt_netbridge_suspend()`
may come at any time.

### PvIo

The guest's driver `ra8d1-linux/guest/pv-io.c`, the registers behind it and the
buses behind those. A call of the driver is a run of steps (lock, set up the
registers, the store to CMD, read the answer, unlock), so that without the mutex
two calls could mix. Data moves through the window in words; a write and the read
after it become one command when they fit. `pv_exec()` refuses lengths the window
cannot hold whatever the command is. The board's bus and each of its pins may have
failed to come up (`board`): then a command ends with -ENODEV and reaches nothing. A
slave or a pin's driver may fail, and a slave or a pin answers what it likes. A pin
reaches the platform as a `uint8_t` (`PinMod`); the gpio core passes on only offsets
below the chip's `ngpio` (`PvAssumption`). `pv_gpio_set()` returns nothing, so its
failures are lost, and `CallsExact` asks of it only that it makes the one right call.

### Cpu

The privileged half of the interpreter: `get_phys_addr()` as the two-level Sv32
walk with its permission checks and its update of accessed and dirty bits, the
three direct-mapped TLBs, the cached code pointer (`block`), traps and interrupts
with delegation, and the instructions that change a translation or a privilege.
An access is the page it reaches; a device page never enters a TLB. The kernel may
store to its page tables at any time without telling anybody; the ghost `stale`
holds the pages that such a store has affected since the last flush, and for these
the architecture promises nothing. UIE is carried along although the guest has no
user level interrupts: `raise_exception2()` copies it to SPIE on a trap from U mode and
`handle_sret()` sets it on the way back.

### SoftFp

The code of `softfp_template.h` operator by operator, in terms of `MANT_SIZE` and
`EXP_SIZE` as in the source, with the variants for a double word that the compiler
does not have (half-word multiplication, bitwise division, Newton's root). The
reference is not another float algorithm but the exact rational value and a
rounding by comparison with the two neighbours.

### Machine

The run loop (timer, console poll, network poll, slice), the CLINT's compare, the
PLIC, the 8250, power control, SBI calls, the platform's receive ring with its
interrupt handler, and the 32 bit cycle counter that `plat_now_us()` extends. The
guest is a kernel reduced to what matters to these: process context, an idle loop
that sleeps with interrupts off, handlers that claim until nothing is left. The
slice ends after any step of the guest. The network device is its interrupt line
here.

## 3. The runs

| Run | Bounds | States | Checks |
|---|---|---|---|
| `guest_halt` | 3 requests | 685 | `GrantedMeansQuiet`: a yes means main() reads no flash any more. `RefusedOnlyWhileBooting`: a no means main() was still booting when the last wait began, although `rv_machine_init()` forgets requests. |
| `nl_writer` | buffer 4, unit 2, images of 1 to 9 bytes | 50,274 | `BufferOwnership`, `ProgramOnce`, `StallIsTheFlash` (the two threads never wait for each other), `WriterNotReused`, `PushEnds`, and the refinement `StreamSpec`: the image grows in the flash from its first byte, nothing is programmed ahead of it, and "ok" means stored. |
| `img_slot` | 2 slots, 8 cells, blocks of 2, 3 images, 2 verifies | 1.2 million | `HeaderLast`, `NeverReprogrammed`, `AnswersTrue` (a slot reported good is good, a verify that fails had a reason), `NeighboursSafe` (a push keeps to its slot, an image that was accepted is stored whole). |
| `pusher` | 1 slot, 2 requests a halt, 2 connections | 87,858 | `NoReadUnderWrite`, `CommittedStays`, `ConnectionEnds`, `ArmedReboots`. |
| `telnet` | rings of 4, batches of 2, 4 bytes out, 3 in, 2 connections; 3 tokens a session, reply buffer of 7 | 543,809 | `BytesInOrder` (both rings keep order without a gap, and guest output the ring refuses is in `tn_dropped`; typed bytes that find theirs full are dropped silently), `OutputFlushed` of the rings; `DataIntact`, `RepliesBounded` of the filter. |
| `devices` | queue of 4, indices mod 8, disk of 2 sectors, 16 kinds of chain; 2 processes, 6 transfers, 2 pins, 2 boards (one without a bus and with one pin) | 222,081 | `RingsHoldInflight`, `NoLostInterrupt`, `ReadIsExact`, `ChainsReturn` of the disk; `CallsExact`, `CallsReturn` of the I/O bridge. |
| `virtio_net` | queues of 2, indices mod 4, 3 frames on the wire, ring of 8 cells, budget 2, 3 transmit chains | 1,334,781 | `NetQueuesSound` (no chain lost or repeated, no completion the driver does not hear of), `FramesIntact` (what the bridge kept reaches the guest whole and in order, or the device counts it as dropped), `WireFollowsGuest` (in the order sent, without the header, cut at the maximum), `FrameLeavesRing`. |
| `hart` | 2 pages, 2 tables, 1 TLB entry, 1 store to a table; floats of 8 bits, 5 modes | 281,666 | `TlbCoherent`, `FetchCoherent`, `NeverMachine`; `RoundedOnce`, `ReadOutExact` over every pair of operands. |
| `machine` | 8250 ring of 1, platform ring of 1, 3 bytes in, 2 timers, counter mod 2, 3 cycles | 364,111 | `SleepHidesNothing`, `InputDelivered`, `TimerTrue`, `BytesArrive`, `TimerFires`. |

Three runs refute what a comment says of the code:

| Run | Comment | What TLC finds |
|---|---|---|
| `pusher_failed` | `pusher.c`: "A *failed* push does not arm it, deliberately" | After a committed push, a failed one puts the armed reboot off; it happens all the same, with a slot erased. |
| `telnet_reset` | `telnet.c`: "Safe to reset: tn_active is still false ..." | A hook entered in the last session, preempted between its read and its write of an index, undoes the reset; the guest reads old input again. It needs a client that connects while the other leaves. |
| `machine_clock` | `rv_platform.h`: "the run loop calls it once per instruction slice" | `timer_update()` reads the clock only while a timer is set. From the firing of a timer to the guest's next `set_timer` or `rdtime` nobody does, and a gap longer than one wrap of the counter (8.9 s) is lost from the guest's time. `TimerTrue` shows the other side: time may be lost but never gained, so a timer is late at worst. |

Three side configurations, not among the project's runs, show smaller
disagreements of the same kind:

| Configuration | Comment | What TLC finds |
|---|---|---|
| `GuestHalt_promisc.cfg` | `netbridge.h`: suspend is "called by the image pusher once it has stopped the guest" | A guest that stopped by itself takes the early return of `halt_guest()`; promiscuous receive stays on during the push. |
| `GuestHalt_report.cfg` | `pusher.h`: "Returns true if this app stopped the guest for a push" | `halt_by_pusher` survives a refused push. When the guest powers off later, main() believes it was stopped for a push and neither powers off nor reboots. |
| `TelnetConsole_second.cfg` | `telnet.c`: a second connection gets "an answer instead of a hang" | `accept()` is called by the thread that serves the session, so the second client waits for the first to leave. |

**Why the bounds suffice.** Three requests cover one lost to the memset, one
during the load and one to a running guest. Nine bytes are two full buffers and a
last one that is odd, so both buffers are used twice and padding happens; all
shorter lengths, exact multiples included, are tried. Slots of one and of three
blocks, the last reserved, and images that fit both, one and none exercise the
geometry on both sides of each limit, except that the guest's RAM never limits the
kernel here (`RamCells` is what its one block holds anyway); pushes repeat without
bound in `img_slot`. Two
connections allow a push after a push, with any outcome of both. `CommittedStays` is
therefore about one slot, pushed again and again; that a push does not touch the other
slot is `NeighboursSafe` of `img_slot`. Rings of
four fill up and wrap with the bytes allowed; two sessions give one reset that
matters. Three answers of three bytes overrun a buffer of seven unless it is
flushed. A queue of four with indices modulo eight has full queues, wrapped
indices and both at once, without a bound on the number of chains; the 16 chains
reach every early return of `handle_chain()`. Two queues of two with three frames,
one not for the guest and two that do not fit the ring together, give every kind
of drop; a receive buffer holds the shorter of them and cuts the longer. Of the three
transmit chains two can leave: one longer than the wire takes and a shorter one, in the
queue at the same time and of different length on the wire, so that an exchange shows;
the third, header and payload in two descriptors, is too short for a frame. One TLB entry makes every access evict another; the boot tables have a
pointer, a leaf at each level, a user page and a device page. Eight bit floats
have subnormals, every exponent distance up to and beyond the shift limits, and
overflow; every value is a first operand in every mode. A counter that wraps every
other cycle wraps several times between two timers; rings of one are full most of
the time.

**Type invariants** are proved for GuestHalt, NlWriter, ImgSlot, Pusher, Cpu, Machine,
TelnetConsole and TelnetFilter (section 4). SoftFp defines one too, which holds on
the same instance; the configurations spend their run on the properties above.

**Deadlock** is checked everywhere except in MCTelnet and MCDevices, where a
behaviour ends when its bounds on bytes, connections or calls are used up.

**Fairness.** NlWriter: weak fairness of the pusher thread, whose every wait has
a timeout (`STALL_MS`, the receive timeout, the buffer's deadline); nothing is
assumed of the writer. Pusher: weak fairness of the loader thread, of main() and
of the reboot delay, since threads are scheduled and time passes; nothing of
clients, guest or power. A `zsock_send()` is taken to return, which the code does
not bound by itself (a hazard without a property). TelnetConsole: weak fairness of
the telnet thread, which outranks the emulator and blocks only in `accept()`, in a
`poll()` of 5 ms and in `send()`. VirtioBlk: weak fairness of the device, which
runs inside the guest's store, of a kick that the driver owes, and of the driver's
handler once it may run; nothing of submissions. VirtioNet: the emulator ends its
polls and its transmissions (weak) and comes round to the next poll between slices
(strong: other steps of the guest may disable it meanwhile); nothing of the driver,
the wire or the bridge. PvIo: weak fairness of a call that holds the mutex, strong
fairness of the lock, because the kernel's mutex queues its waiters. Machine: weak
fairness of the emulator thread as a whole, so the guest may spend its slices on
anything; nothing of the bytes that arrive. ImgSlot, Cpu and SoftFp have safety
properties only.

## 4. The proofs

TLAPS checks every step; the constants are arbitrary up to the named assumptions,
which TLC evaluates on every run. Every inductive invariant below was an invariant
of a TLC run before it was proved. No theorem holds of the empty set of behaviours:
the assumptions are those that the runs' instances satisfy.

**GuestHaltProofs** (from `HaltAssumption`: at least one request).
`GrantedMeansQuiet` is not inductive: it needs to know what the flag and the
semaphore mean. `HaltInv` says that `guest_stopped` is set exactly when main() has
passed its last read, that a count in the semaphore implies it, and that whoever
waits after the report finds the count still there. From it follow
`HaltTypeCorrect` and `HaltIsSafe` (`GrantedMeansQuiet`). `WaitInv` adds that a wait
begun with a running guest has the stop flag or the end of the run loop behind
it; `RefusalIsJustified` derives `RefusedOnlyWhileBooting` under `Prompt`.

**NlWriterProofs** (from `WriterAssumption`: the buffer is a multiple of the unit,
all sizes positive). `PipeInv` is the accounting of the two buffers: free, filled,
in the pusher's hand and in the writer's hand always add up to two; which buffer
each thread is at follows from the counts; the end mark is the last buffer
filled; between pushes no writer is left unless it is recorded as lost. It holds
also after a writer was abandoned and goes on by itself. From it:
`BuffersAreOwned` (`BufferOwnership`), `NoMutualWait` (`StallIsTheFlash`) and
`WriterIsFresh` (`WriterNotReused`).

`DataInv` adds what is in the buffers. A buffer that is handed over and not yet
programmed starts on a buffer boundary, holds the image from there, and nothing
of the flash behind its start has been programmed (`Queue`); the bytes still to
come lie behind all such buffers (`Ahead`); the buffer being filled holds the image
from `off` on (`Filling`); and, as long as no write has failed, every byte handed
over is in the flash or in such a buffer (`Landed`). From it: `WriterTypeCorrect` and
`UnitsAreProgrammedOnce` (`ProgramOnce`).

`OrderInv` adds the order, which none of this says: a unit that was not programmed is
erased (`Clean`); as long as no write has failed, everything in front of a buffer handed
over is in the flash or in an earlier such buffer (`Behind`); and the flash under the
image is its first n bytes and erased behind them (`Laid`), also after a write that
broke off, because the writer then programs nothing more. The buffer the writer
programs is the earliest one handed over, so it continues the prefix
(`WriteExtends`). With it the refinement `PipelineImplementsStream`
(`StreamSpec`): every step of the two threads extends the prefix, ends the transfer or
changes nothing of ImageStream, and success is reported only with the whole image.

**ImgSlotProofs** (from `SlotAssumption`: slots are blocks of the chip, not empty,
apart from each other). `SlotInv` follows a push: a readable header belongs to an
image that fits its slot; from the first erase to the header program the slot has
no readable header; while img_commit() verifies, no line of the image is in the
data cache, and a pass that read every cell right and still failed means the slot
is not intact. It gives `SlotTypeCorrect`, `CommitAnswersTruly` (`AnswersTrue`) and,
for a single step, `PushesKeepToTheirSlot` (`NeighboursSafe`). The other two
properties are what the blank check after an erase is for, and have it as a
hypothesis, `BlankCheck => (Spec => ...)`: `BlankInv` says that the blocks erased so
far are blank and that the payload before `cell` is programmed and the rest blank.
It gives `HeaderIsLast` (`HeaderLast`) and `NothingIsReprogrammed`
(`NeverReprogrammed`).

**PusherProofs** (from `PusherAssumption`, which holds the assumptions of both
components). The proofs of the components are used again, not repeated:
`INSTANCE GuestHaltProofs` and `INSTANCE ImgSlotProofs` bring in their invariants, and
three lemmas show that the operators of these instances are those Pusher is
built from. `PusherInv` is both invariants, the types of the service thread, that
a push is in progress only while the handshake has granted it (`Exclusive`), and
`CommittedStays`. Results: `PusherTypeCorrect`, `PushExcludesReaders`
(`NoReadUnderWrite`), `CommitStays` (`CommittedStays`), and `PusherImplementsSlots`, the
refinement `Spec => F!Spec`: whatever a client, a broken connection or a restart
makes of it, the service drives the flash only as ImgSlot allows.

**HartProofs, the hart** (from `CpuAssumption`: tables lie in RAM, devices do not, boot tables
and the values written to registers and tables have their types). The invariant
`CpuInv` is type correctness, `NeverMachine`, `TlbCoherent` and that only delegated
interrupts are enabled. The last part is needed because an interrupt that is not
delegated would be taken in M mode, and M mode would make a walk the identity. The
heart of the proof is what a change of a table entry does to the walk of another
page: a walk that sets accessed and dirty bits changes no decision of any walk
(`MarkedWalk`), what a walk puts into a TLB is what a walk gives afterwards
(`FilledWalk`), and a store changes only the walks that read the entry, whose pages
are then in `stale` (`EditedWalk`). `TlbsCoherent` and `MachineModeUnreachable`
follow, for any number of pages, tables, slots and interrupts, and so does
`BlockIsCurrent` (`FetchCoherent`): everything that changes a translation without
making its pages stale also ends the block.

**HartProofs, the machine** (from `MachineAssumption`: sizes positive, a slice is shorter than
a turn of the cycle counter, RAM lies in the address space). `Lines` ties the levels
together: the 8250's conditions to its PLIC source, the PLIC's pending and unserved
sources to SEIP, the source in service to where the kernel is. `Asleep` says that a
sleeping hart has no enabled interrupt pending; with `Lines` it gives `SleepIsSound`
(`SleepHidesNothing`). `Timing` says that the guest's clock never runs ahead of
real time and that the time the timer was set for is at most the compare value plus
the lag; the lag never shrinks, even when the 32 bit counter wraps, because a
reading takes the difference modulo its width. It gives `TimerIsNeverEarly`
(`TimerTrue`). `MachineTypeCorrect` comes with them. `ConsoleInv` looks at the console
input as four sequences, two with the readers and two in the rings, and the set of
lost bytes: together they are exactly what has arrived and no longer than it (so
nothing is doubled), each ascends per source, nothing in a ring is older than what a
reader has of that source (`Orderly`), and only the UART loses bytes. A reader takes the
front of a ring (`Moved`), and a byte that arrives is newer than all of its source
(`Older`); `uart_poll_input()` keeps `dropped` at 0 because it looks for room before it
takes a byte. With the bounds check of `rv_guest_phys_ptr()` it gives `InputIsDelivered`
(`InputDelivered`).

**VringProofs, VirtioProofs** (from `QueueAssumption`: the modulus of the indices
is a multiple of the queue size and larger; and `BlkAssumption`: a published chain has
a descriptor). VringProofs is about any split queue of the model. `QueueInv` replaces
the four wrapping indices by counts that never wrap: D chains taken back, p more
completed, the rest published; every index is its count modulo `IdxMod`, and the ring
slots of the chains in flight follow from D. Publishing (`PublishKeeps`), serving
(`ServeKeeps`) and taking back (`ReclaimKeeps`) keep it, because fewer than
`QueueSize` chains apart two counts never share a slot (`SlotsDiffer`); that there
are never more is a pigeonhole argument over descriptors no two chains share
(`RoomInQueue`), and the allocator's k-th free descriptor exists because a set of
numbers has a least element (`KthLowest`). `BlkInv` of the block device adds that the
line is the status bit, that notifications are on wherever the driver may go to
sleep, and that a store to QUEUE_NOTIFY works towards everything published.
`ChainsStayInOrder` (`RingsHoldInflight`) and `InterruptsAreNotLost`
(`NoLostInterrupt`) follow for every list of requests, the malformed ones included.

The network device has two such queues (`NetAssumption` adds that no transmit chain is
empty, that a receive buffer is a descriptor, and that no frame is shorter than an
ethernet header). `Agreed` is `QueueInv` with the shape of the ring and with chains that share no
descriptor; each of its lemmas says what one operation of one side does to one queue,
so that both queues are proved with the same lemmas. `NetInv` adds that the queues
agree exactly between DRIVER_OK and the reset, that a poll or a transmission in
progress works towards an index the driver has really published, and what the shared
status bit means: it is the line, and a driver that is out of its handler has the
notifications of both queues on. Without this last part the bit acknowledged for one
queue could hide a completion of the other. `NetworkQueuesAreSound` (`NetQueuesSound`)
follows.

`FrameInv` follows the frames through these queues. `FramesIntact` alone is not
inductive: that a frame is whole when the guest has it says nothing of the ring, where
the bridge's thread may add cells between the read of a length and that of the payload.
So `BridgeInv` says, cell by cell, that every frame in the ring is there as a whole but
for what the emulator has just taken out (`InStep`: the two cells of a length, while it
is between the two reads), in order of arrival, and that the emulator then stands at the
payload whose length it holds. `CountInv` is the accounting with the frame in its hands.
`RxSingle` says that a receive chain in flight is one descriptor the driver chose, so
that what `rx_deliver()` writes is the frame or as much as that buffer holds.
`GotInv` puts the stages in order: what the guest has got, what its used elements
announce, what is in the ring and what is still on the wire (`Delivered`). It is the
queue's own invariant that makes the last part inductive: the buffer being filled
is not one of those announced (`WindowServe`), and the driver takes the oldest
(`WindowTakeBack`). `FramesStayIntact` (`FramesIntact`) follows, for frames and buffers of
any length and a ring of any size.

**TelnetProofs** (from `ConsoleAssumption`: rings of at least two slots; and
`FilterAssumption`: the reply buffer holds one answer). `ConsoleInv` ties each ring to
its history: what lies between head and tail is what was put in and not yet taken out.
This is kept by half an operation only if the emulator's register is still true, so
the invariant also says that a hook that is inside `spsc_put()` holds the tail of a ring
that is not full, with its byte in the slot before the index is published, and that a
hook inside `spsc_get()` has read the oldest byte (`PutHook`, `GetHook`). `CountInv`
keeps account of the output: what the guest printed in the session was put into the
ring, is in the hook's hand, or is counted (`DropsCounted`); this survives a reset that
met a hook halfway, which can only make the count too high. A reset that
meets a hook halfway breaks exactly this; `torn` records it, and the reset run above
shows that it happens. Results: `ConsoleTypeCorrect` and `RingsDeliverInOrder`
(`BytesInOrder`).

`FilterInv` says where TCP may have cut the stream: the parser's state, what is left of
the client's token and what the guest still lacks fit together as one point of one of
the seven kinds of token (`TokenInv`); an option has been announced once, and twice only
when its flag is set (`AnnouncedOnce`). It gives `FilterTypeCorrect`, `GuestGetsTheData`
(`DataIntact`) and `AnswersStayBounded` (`RepliesBounded`).

**Only model-checked:**

* the liveness properties: fairness and ENABLED are outside this prover;
* `ReadIsExact`, `CallsExact` and `WireFollowsGuest`: the lengths are sums over a chain
  that recursive functions compute, and what a recursive function computes for every
  input cannot be proved here (a receive chain has one descriptor, which is why
  `FramesIntact` can);
* SoftFp: its claim is for the 8 bit format only; the code is the same template
  for every format.

## 5. Abstractions

* A flash cell stands for all bytes of one program; that a program unit is never
  split over two buffers is NlWriter's subject.
* A CRC is what it is for: equal to that of the image only if the bytes are.
* ImgSlot programs a payload cell by cell in order; Pusher does not repeat the
  threads of NlWriter.
* A client of the loader may do anything; the guest reads the whole slot at once.
* 100 ms and other times are orders of events, not numbers.
* Lengths of descriptors and frames count units, not bytes; byte i of the disk is
  the number i, and a frame is its number on the wire.
* An access of the hart is the page it reaches. An unaligned access that crosses
  pages, or an atomic, is two accesses one after the other.
* `FetchCoherent` leaves out a supervisor that runs in a user page: clearing SUM
  there does not end the block.
* The guest writes `sie` and `sip` in one step of Cpu; each alone is one of its
  cases.

Observations made while reading, without a property: the comment above
`csr_write()` says it returns 2 when the TLBs have been flushed, and a write of
`sstatus` that flushes returns 0 (harmless, because SUM and MXR do not change where
code is fetched); "a successful system_reset does not return to the guest" is
meant of the protocol, the guest runs on to the end of its slice; the UART's
handler counts what it drops but nothing reports it; the reservation of LR is not
cleared by a trap.

## 6. Not modelled

* Integer, atomic and compressed instructions, conversions between float sizes and
  `mini-rv32ima.h`: instruction tables which a model would only repeat.
* `ra8d1-linux/rvlinux/src/main.c`: the older application. Its console, loader and
  slots are the algorithms of `telnet.c` and `pusher.c`, modelled from the newer
  source.
* Boot selection in main() and the layout of guest memory: decided once, from
  headers and sizes, without state. The devicetree writer is a serializer, the
  memory map a static table.
* Console output, SBI probe calls and fences, statistics: nothing depends on them.
* The push tool, the host build, the bring-up application, the Blinka port and the
  build scripts.

The notes in `PROJECT.json` say this per component.

## 7. Plan

Done: all components of section 1 except boot selection, memory layout, the push
tool and rvlinux; proofs of the handshake, of the payload pipeline and its
refinement, of the slots, of the service that uses both and its refinement, of the
TLBs and the fetch pointer, of the sleep and the timer, of the queues and interrupts
of both virtio devices, and of the console's rings and filter.

Left, in this order:

1. An abstract specification of a virtqueue, a bag of requests that is answered once
   each, with VirtioBlk and VirtioNet shown to implement it.
2. Boot selection after every state ImgSlot can leave, which the hazard about
   `RVT_CRC_ROOTFS` needs.
3. The retry loop of `pushimage.py` against Pusher.

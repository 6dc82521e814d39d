-------------------------------- MODULE PvIo --------------------------------
(***************************************************************************)
(* The paravirtual I/O bridge: the guest's driver pv-io.c, the register    *)
(* block of rv_machine.c behind it, and the board's buses and pins as      *)
(* platform_zephyr.c reaches them.                                         *)
(*                                                                         *)
(* Several processes of the guest call the driver; one mutex serialises    *)
(* them over one register block and one data window.  A step of a process  *)
(* is a run of register accesses, so without the mutex the steps of two    *)
(* calls could mix.  The store to CMD is synchronous: the transaction on   *)
(* the wire is part of it.  A byte is a model value; a slave or a pin's    *)
(* driver may refuse, and what a slave or a pin answers is chosen.         *)
(***************************************************************************)
EXTENDS Integers, Sequences

CONSTANTS
    Procs,      \* processes of the guest that use the bridge
    Xfers,      \* i2c_transfer() calls: sequences of messages
    Pins,       \* offsets the gpio core passes on, all below the chip's ngpio
    NGpio,      \* PV_NGPIO
    PinMod,     \* 256: a pin reaches the platform as a uint8_t
    Boards,     \* which of the board's devices may have come up
    Replies,    \* bytes a slave may answer with
    WordBytes,  \* bytes of a word of the data window, 4 in the code
    DataBytes,  \* PV_DATA_BYTES
    MaxCalls    \* bound: calls of one process

\* The chip's ngpio is PV_NGPIO, as CAPS gives it in eight bits.
ASSUME PvAssumption ==
    /\ NGpio \in 1 .. PinMod - 1 /\ Pins \subseteq 0 .. NGpio - 1
    /\ Boards \subseteq [bus : BOOLEAN, pins : SUBSET (0 .. NGpio - 1)]

VARIABLES
    reg,        \* the register block
    lock,       \* the mutex: its holder, or NoProc
    call,       \* process -> its call of the driver
    log,        \* process -> what its call has asked of the wire or the pins
    board       \* the devices that are ready, since boot

pvVars == <<reg, lock, call, log, board>>

NoProc == "none"
Idle(n) == [op |-> "none", calls |-> n]
Zero == [k \in 1 .. DataBytes |-> 0]

PvInit ==
    /\ reg = [addr |-> 0, wlen |-> 0, rlen |-> 0, gpin |-> 0, val |-> 0, flags |-> "none",
              status |-> 0, result |-> 0, data |-> Zero]
    /\ lock = NoProc
    /\ call = [p \in Procs |-> Idle(0)]
    /\ log = [p \in Procs |-> << >>]
    /\ board \in Boards

-----------------------------------------------------------------------------
(* The device.                                                             *)

\* pv_write() of the registers that regs names, and pv_read() of one.
PvWrite(r, regs) == [n \in DOMAIN r |-> IF n \in DOMAIN regs THEN regs[n] ELSE r[n]]
PvRead(name) == reg[name]

\* pv_put(): whole words, the rest of the last one is zero.
PvPut(d, src) ==
    LET words == ((Len(src) + WordBytes - 1) \div WordBytes) * WordBytes
    IN [k \in 1 .. DataBytes |-> IF k <= Len(src) THEN src[k]
                                 ELSE IF k <= words THEN 0 ELSE d[k]]

\* pv_get(): the first n bytes.
PvGet(n) == SubSeq(PvRead("data"), 1, n)

Errno(name) == CASE name = "EINVAL" -> -22 [] name = "ENODEV" -> -19
                 [] name = "EIO" -> -5 [] name = "EOPNOTSUPP" -> -95

\* pv_exec(): lengths that the window cannot hold are refused whatever the
\* command, and a transfer that would reach no wire too, before anything is sent.
Refused(cmd) ==
    \/ reg.wlen > DataBytes \/ reg.rlen > DataBytes
    \/ cmd = "write" /\ reg.wlen = 0
    \/ cmd = "read" /\ reg.rlen = 0
    \/ cmd = "writeRead" /\ (reg.wlen = 0 \/ reg.rlen = 0)

\* RESULT is cleared and STATUS says why.
Refuse == /\ reg' = [reg EXCEPT !.status = Errno("EINVAL"), !.result = 0]
          /\ UNCHANGED log

\* Bytes that a command sends and bytes that it receives.
OutLen(cmd) == IF cmd \in {"write", "writeRead"} THEN reg.wlen ELSE 0
InLen(cmd) == CASE cmd \in {"read", "writeRead"} -> reg.rlen [] cmd = "probe" -> 1 [] OTHER -> 0

\* An i2c command through plat_pv_i2c_*(): nothing without a bus (pv_bus()), or
\* one transaction, acknowledged or not.  The reply lands at the start of the
\* window, over the bytes just sent; a probe reads its byte elsewhere.
ExecI2c(p, cmd) ==
    IF ~board.bus
    THEN /\ reg' = [reg EXCEPT !.status = Errno("ENODEV"), !.result = 0]
         /\ UNCHANGED log
    ELSE \E ack \in BOOLEAN, b \in Replies :
           LET in == [k \in 1 .. InLen(cmd) |-> b]
           IN /\ reg' = [reg EXCEPT
                      !.status = IF ack THEN 0 ELSE Errno("EIO"),
                      !.result = IF ack /\ cmd \in {"read", "writeRead"} THEN reg.rlen ELSE 0,
                      !.data = IF ack /\ cmd # "probe"
                               THEN [k \in 1 .. DataBytes |-> IF k <= Len(in) THEN in[k] ELSE @[k]]
                               ELSE @]
              /\ log' = [log EXCEPT ![p] = Append(@,
                           [cmd |-> cmd, addr |-> reg.addr, ack |-> ack,
                            out |-> SubSeq(reg.data, 1, OutLen(cmd)),
                            in |-> IF ack THEN in ELSE << >>])]

\* A pin command through plat_pv_gpio_*(): pv_pin() refuses a pin that is not
\* there or not ready, and the pin's driver may fail.  A pin that is read has any
\* level; VAL is written only by a read that succeeds.
ExecGpio(p, cmd) ==
    \E ack \in BOOLEAN, level \in IF cmd = "get" THEN {0, 1} ELSE {0} :
      LET n == reg.gpin % PinMod
          status == IF n \notin board.pins THEN Errno("ENODEV")
                    ELSE IF ack THEN 0 ELSE Errno("EIO")
      IN /\ reg' = [reg EXCEPT !.status = status, !.result = 0,
                               !.val = IF status = 0 /\ cmd = "get" THEN level ELSE @]
         /\ log' = [log EXCEPT ![p] = Append(@,
                      [cmd |-> cmd, pin |-> n, status |-> status, level |-> level,
                       arg |-> CASE cmd = "set" -> reg.val [] cmd = "config" -> reg.flags
                                 [] OTHER -> 0])]

-----------------------------------------------------------------------------
(* The driver.                                                             *)

At(p, pc) == call[p].op # "none" /\ call[p].pc = pc

CallXfer(p, msgs) ==
    /\ call[p].op = "none" /\ call[p].calls < MaxCalls
    /\ call' = [call EXCEPT ![p] = [op |-> "xfer", msgs |-> msgs, i |-> 1, ret |-> 0,
                                    cmd |-> "none", got |-> << >>, pc |-> "lock",
                                    calls |-> @.calls + 1]]
    /\ log' = [log EXCEPT ![p] = << >>]
    /\ UNCHANGED <<reg, lock, board>>

\* pv_gpio_get(), pv_gpio_set(), pv_gpio_dir_in() and pv_gpio_dir_out().
CallGpio(p, cmd, n, arg) ==
    /\ call[p].op = "none" /\ call[p].calls < MaxCalls
    /\ call' = [call EXCEPT ![p] = [op |-> "gpio", pin |-> n, arg |-> arg, ret |-> 0,
                                    cmd |-> cmd, pc |-> "lock", calls |-> @.calls + 1]]
    /\ log' = [log EXCEPT ![p] = << >>]
    /\ UNCHANGED <<reg, lock, board>>

\* The mutex is not waited for.
MutLock(p) ==
    /\ At(p, "lock")
    /\ lock' = p
    /\ call' = [call EXCEPT ![p].pc = "setup"]
    /\ UNCHANGED <<reg, log, board>>

Lock(p) ==
    /\ At(p, "lock") /\ lock = NoProc
    /\ lock' = p
    /\ call' = [call EXCEPT ![p].pc = "setup"]
    /\ UNCHANGED <<reg, log, board>>

\* A write that a read of the same slave follows becomes one command, with a
\* repeated start, when both fit the window together.
Combines(msgs, i) ==
    /\ i < Len(msgs) /\ ~msgs[i].rd /\ msgs[i + 1].rd
    /\ msgs[i + 1].addr = msgs[i].addr
    /\ Len(msgs[i + 1].buf) <= DataBytes
    /\ Len(msgs[i].buf) + Len(msgs[i + 1].buf) <= DataBytes

\* pv_i2c_xfer(), one turn of its loop up to the store to CMD.
SetupXfer(p) ==
    /\ At(p, "setup") /\ call[p].op = "xfer"
    /\ LET c == call[p] IN
       IF c.i > Len(c.msgs) THEN /\ call' = [call EXCEPT ![p].pc = "unlock"]
                                 /\ UNCHANGED reg
       ELSE LET m == c.msgs[c.i]
                both == Combines(c.msgs, c.i)
                cmd == IF both THEN "writeRead" ELSE IF m.rd THEN "read"
                       ELSE IF m.buf = << >> THEN "probe" ELSE "write"
            IN IF m.ten \/ Len(m.buf) > DataBytes
               THEN /\ call' = [call EXCEPT ![p].ret = Errno("EOPNOTSUPP"), ![p].pc = "unlock"]
                    /\ UNCHANGED reg
               ELSE /\ reg' = PvWrite(reg,
                         [addr |-> m.addr,
                          data |-> IF m.rd THEN reg.data ELSE PvPut(reg.data, m.buf),
                          wlen |-> IF m.rd THEN reg.wlen ELSE Len(m.buf),
                          rlen |-> IF both THEN Len(c.msgs[c.i + 1].buf)
                                   ELSE IF m.rd THEN Len(m.buf) ELSE reg.rlen])
                    /\ call' = [call EXCEPT ![p].cmd = cmd, ![p].pc = "exec"]
    /\ UNCHANGED <<lock, log, board>>

SetupGpio(p) ==
    /\ At(p, "setup") /\ call[p].op = "gpio"
    /\ reg' = PvWrite(reg, [gpin |-> call[p].pin,
                            val |-> IF call[p].cmd = "set" THEN call[p].arg ELSE reg.val,
                            flags |-> IF call[p].cmd = "config" THEN call[p].arg ELSE reg.flags])
    /\ call' = [call EXCEPT ![p].pc = "exec"]
    /\ UNCHANGED <<lock, log, board>>

\* The store to CMD in pv_cmd().
Exec(p) ==
    /\ At(p, "exec")
    /\ IF Refused(call[p].cmd) THEN Refuse
       ELSE IF call[p].op = "xfer" THEN ExecI2c(p, call[p].cmd) ELSE ExecGpio(p, call[p].cmd)
    /\ call' = [call EXCEPT ![p].pc = "collect"]
    /\ UNCHANGED <<lock, board>>

\* What a pin call returns: pv_gpio_set() returns nothing and drops the status.
PinAnswer(cmd) ==
    CASE cmd = "set" -> 0
      [] cmd = "get" /\ PvRead("status") = 0 -> PvRead("val")
      [] OTHER -> PvRead("status")

\* The load of STATUS in pv_cmd(), and what the caller does with the answer.
Collect(p) ==
    /\ At(p, "collect")
    /\ LET c == call[p]
           n == IF c.cmd = "writeRead" THEN c.i + 1 ELSE c.i
       IN call' = [call EXCEPT ![p] =
            IF c.op = "gpio" THEN [c EXCEPT !.ret = PinAnswer(c.cmd), !.pc = "unlock"]
            ELSE IF PvRead("status") # 0
            THEN [c EXCEPT !.ret = PvRead("status"), !.pc = "unlock"]
            ELSE [c EXCEPT !.i = n + 1,
                           !.got = IF c.cmd \in {"read", "writeRead"}
                                   THEN Append(@, PvGet(Len(c.msgs[n].buf))) ELSE @,
                           !.pc = "setup"]]
    /\ UNCHANGED <<reg, lock, log, board>>

\* The error path forgets the mutex.
MutUnlock(p) ==
    /\ At(p, "unlock") /\ lock = p
    /\ lock' = IF call[p].ret < 0 THEN lock ELSE NoProc
    /\ call' = [call EXCEPT ![p].pc = "done"]
    /\ UNCHANGED <<reg, log, board>>

Unlock(p) ==
    /\ At(p, "unlock") /\ lock = p
    /\ lock' = NoProc
    /\ call' = [call EXCEPT ![p].pc = "done"]
    /\ UNCHANGED <<reg, log, board>>

\* The caller goes on; what its call has left is forgotten.
Return(p) ==
    /\ At(p, "done")
    /\ call' = [call EXCEPT ![p] = Idle(@.calls)]
    /\ log' = [log EXCEPT ![p] = << >>]
    /\ UNCHANGED <<reg, lock, board>>

PvNext ==
    \E p \in Procs :
        \/ \E msgs \in Xfers : CallXfer(p, msgs)
        \/ \E n \in Pins : \/ CallGpio(p, "get", n, 0)
                           \/ \E v \in {0, 1} : CallGpio(p, "set", n, v)
                           \/ \E f \in {"in", "outHigh", "outLow"} : CallGpio(p, "config", n, f)
        \/ Lock(p) \/ SetupXfer(p) \/ SetupGpio(p) \/ Exec(p) \/ Collect(p)
        \/ Unlock(p) \/ Return(p)

\* A process in a call goes on when it can; the mutex of the guest's kernel
\* hands the lock to its waiters in turn.
PvFairness ==
    \A p \in Procs : /\ SF_pvVars(Lock(p))
                     /\ WF_pvVars(SetupXfer(p) \/ SetupGpio(p) \/ Exec(p) \/ Collect(p) \/ Unlock(p))

PvSpec == PvInit /\ [][PvNext]_pvVars /\ PvFairness

-----------------------------------------------------------------------------
(* Properties.                                                             *)

\* What a transfer asks for, message by message: reference for the driver.
Asked(msgs) ==
    LET from[i \in 1 .. Len(msgs) + 2] ==
          IF i > Len(msgs) THEN << >>
          ELSE LET m == msgs[i]
                   pair == i < Len(msgs) /\ ~m.rd /\ msgs[i + 1].rd /\ msgs[i + 1].addr = m.addr
               IN <<[addr |-> m.addr, out |-> IF m.rd THEN << >> ELSE m.buf,
                     n |-> IF pair THEN Len(msgs[i + 1].buf)
                           ELSE IF m.rd THEN Len(m.buf) ELSE IF m.buf = << >> THEN 1 ELSE 0]>>
                  \o from[IF pair THEN i + 2 ELSE i + 1]
    IN from[1]

\* A transaction on the wire is the one asked for: same slave, exactly the
\* caller's bytes, as many bytes back.
Same(t, a) == t.addr = a.addr /\ t.out = a.out /\ (t.ack => Len(t.in) = a.n)

\* When a transfer returns, the wire has seen for this caller exactly what it
\* asked for, in order, up to the first refusal, a write and the read after it
\* as one transaction; and it was given what the slave answered, in order.
TransfersExact ==
    \A p \in Procs : At(p, "done") /\ call[p].op = "xfer" =>
        LET asked == Asked(call[p].msgs)
            done == SelectSeq(log[p], LAMBDA t : t.ack)
            reads == SelectSeq(done, LAMBDA t : t.cmd \in {"read", "writeRead"})
        IN /\ Len(log[p]) <= Len(asked)
           /\ \A k \in 1 .. Len(log[p]) : Same(log[p][k], asked[k])
           /\ \A k \in 1 .. Len(log[p]) - 1 : log[p][k].ack
           /\ call[p].ret = 0 => Len(done) = Len(asked)
           /\ call[p].got = [k \in 1 .. Len(reads) |-> reads[k].in]

\* A call for a pin is one call of the platform, for that pin and with the
\* caller's value, and answers what that call answered: the level or the error.
\* pv_gpio_set() has no answer, so that its failures are lost.
PinCallsExact ==
    \A p \in Procs : At(p, "done") /\ call[p].op = "gpio" =>
        /\ Len(log[p]) = 1
        /\ LET t == log[p][1] IN
           /\ t.cmd = call[p].cmd /\ t.pin = call[p].pin /\ t.arg = call[p].arg
           /\ call[p].cmd = "get" => call[p].ret = IF t.status = 0 THEN t.level ELSE t.status
           /\ call[p].cmd = "config" => call[p].ret = t.status

\* Each call of pv_i2c_xfer() and of the gpio operations does what its caller
\* asked for and nothing else, although all calls go through one block of
\* registers: the driver's mutex covers it from the first store to the last load.
CallsExact == TransfersExact /\ PinCallsExact

\* A call that was made returns.
CallsReturn == \A p \in Procs : At(p, "lock") ~> At(p, "done")
=============================================================================

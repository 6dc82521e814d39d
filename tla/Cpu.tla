-------------------------------- MODULE Cpu --------------------------------
(***************************************************************************)
(* The privileged half of the RV32 interpreter, riscv_cpu.c and the system *)
(* instructions of riscv_cpu_template.h: the Sv32 walk, the three software *)
(* TLBs, the cached code pointer of the dispatch loop, the control and     *)
(* status registers that change a translation, and traps.                  *)
(*                                                                         *)
(* A virtual page is <<i, j>>, its two table indices; a physical page is   *)
(* <<h, l>>, so a level 1 leaf maps <<i, j>> to <<h, j>>.  The words of a  *)
(* page are left out: an access is the page it reaches.  An unaligned      *)
(* access is its aligned parts one after the other.  riscv_cpu_boot_smode()*)
(* starts the guest in S mode; the machine level registers, MPRV among     *)
(* them, can be written in M mode only, which NeverMachine rules out.      *)
(***************************************************************************)
EXTENDS Naturals, FiniteSets

CONSTANTS
    Idx,        \* indices into a page table
    Hi,         \* upper halves of physical page numbers
    Tables,     \* physical pages that hold page tables
    Ram,        \* physical pages of guest RAM
    Device,     \* physical pages of devices
    Pages,      \* virtual pages the guest uses
    Slots,      \* entries of a TLB
    SlotOf,     \* TLB index of a virtual page
    SstatusValues, \* values the guest writes to sstatus
    PteValues,  \* page table entries the guest writes
    BootPt,     \* tables the kernel has prepared before it turns paging on
    Irqs,       \* interrupts the machine can raise
    Bare,       \* satp without translation
    NoPage,     \* the tag of an empty TLB entry, -1 in the code
    MaxEdits    \* bound: stores to page tables while the TLBs may hold them

Kinds == {"read", "write", "code"}
Privs == {"U", "S", "M"}
PPN == Hi \X Idx
Pte == [v : BOOLEAN, r : BOOLEAN, w : BOOLEAN, x : BOOLEAN, u : BOOLEAN,
        a : BOOLEAN, d : BOOLEAN, ppn : PPN]
NoEntry == [v |-> NoPage, pa |-> NoPage]
NoBlock == [v |-> NoPage, pa |-> NoPage, edited |-> FALSE]

\* What a translation must have: the guest's memory is laid out in pages that
\* tables and devices do not share.
ASSUME CpuAssumption ==
    /\ Pages \subseteq Idx \X Idx /\ NoPage \notin Pages
    /\ Bare \notin Tables
    /\ Idx \subseteq Hi
    /\ Tables \subseteq Ram /\ Ram \subseteq PPN /\ Device \cap Ram = {}
    /\ SlotOf \in [Pages -> Slots]
    /\ PteValues \subseteq Pte
    /\ SstatusValues \subseteq [sum : BOOLEAN, mxr : BOOLEAN, uie : BOOLEAN,
                                sie : BOOLEAN, spie : BOOLEAN, spp : {"U", "S"}]
    /\ BootPt \in [Tables \X Idx -> Pte]
    /\ MaxEdits \in Nat

VARIABLES
    priv, sum, mxr, satp,   \* what a translation depends on
    uie, sie, spie, spp,    \* the trap stack in mstatus
    mip, mie,               \* pending and enabled interrupts
    powerDown,              \* power_down_flag
    pt,                     \* page tables in guest memory
    tlb,                    \* tlb_read, tlb_write and tlb_code
    block,                  \* code_ptr of the dispatch loop
    stale,                  \* ghost: pages whose walk a store has changed since the last flush
    edits                   \* ghost: stores to page tables so far

ctxVars == <<priv, sum, mxr, satp>>
trapVars == <<uie, sie, spie, spp>>
irqVars == <<mip, mie, powerDown>>
memVars == <<pt, edits>>
cpuVars == <<ctxVars, trapVars, irqVars, memVars, tlb, block, stale>>

-----------------------------------------------------------------------------
(* get_phys_addr().                                                        *)

\* phys_read_u32() reads zero, an invalid entry, outside RAM.
PteAt(t, i) == IF t \in Tables THEN pt[<<t, i>>]
               ELSE [v |-> FALSE, r |-> FALSE, w |-> FALSE, x |-> FALSE,
                     u |-> FALSE, a |-> FALSE, d |-> FALSE, ppn |-> t]
IsLeaf(p) == p.r \/ p.w \/ p.x

\* Where the walk of v ends: the root's entry, or the one it points to.
RootPte(v) == PteAt(satp, v[1])
Descends(v) == RootPte(v).v /\ ~IsLeaf(RootPte(v))
LeafLoc(v) == IF Descends(v) THEN <<RootPte(v).ppn, v[2]>> ELSE <<satp, v[1]>>
LeafPte(v) == PteAt(LeafLoc(v)[1], LeafLoc(v)[2])

\* The protection check, without the part that depends on the user bit.
Permits(p, kind) ==
    /\ p.v /\ IsLeaf(p) /\ ~(p.w /\ ~p.r)
    /\ CASE kind = "read"  -> p.r \/ (mxr /\ p.x)
         [] kind = "write" -> p.w
         [] OTHER          -> p.x
UserCheck(p) == IF priv = "S" THEN ~p.u \/ sum ELSE p.u

WalkOk(v, kind) ==
    \/ priv = "M" \/ satp = Bare
    \/ Permits(LeafPte(v), kind) /\ UserCheck(LeafPte(v))

WalkPage(v) ==
    IF priv = "M" \/ satp = Bare THEN v
    ELSE IF Descends(v) THEN LeafPte(v).ppn
    ELSE <<LeafPte(v).ppn[1], v[2]>>

\* The accessed and dirty bits that a successful walk sets.
Marked(v, kind) ==
    IF priv = "M" \/ satp = Bare THEN pt
    ELSE LET p == pt[LeafLoc(v)]
         IN [pt EXCEPT ![LeafLoc(v)] = [p EXCEPT !.a = TRUE, !.d = p.d \/ kind = "write"]]

-----------------------------------------------------------------------------
(* TLBs, privilege and traps.                                              *)

EmptyTlb == [k \in Kinds |-> [s \in Slots |-> NoEntry]]
Entry(v) == [v |-> v, pa |-> WalkPage(v)]
Hit(v, kind) == tlb[kind][SlotOf[v]].v = v

\* tlb_flush_all() and tlb_flush_vaddr().
Flush == tlb' = EmptyTlb /\ stale' = {}

\* The TLBs survive a change of privilege.
MutSetPriv(p) == priv' = p /\ UNCHANGED <<tlb, stale>>

SetPriv(p) ==
    /\ priv' = p
    /\ IF p # priv THEN Flush ELSE UNCHANGED <<tlb, stale>>

\* riscv_cpu_boot_smode(): medeleg and mideleg.
Mideleg == {1, 5, 9}
\* Page faults are taken in M mode.
MutMedeleg == {"illegal", "breakpoint", "ecallU", "fault"}
Medeleg == {"illegal", "breakpoint", "ecallU", "fault", "pageFault"}

\* raise_exception2(): delegated to S mode or taken in M mode, which would
\* start at an mtvec of zero.
Trap(deleg) ==
    /\ IF deleg
       THEN /\ spie' = IF priv = "S" THEN sie ELSE uie
            /\ spp' = priv
            /\ sie' = FALSE /\ uie' = uie
            /\ SetPriv("S")
       ELSE SetPriv("M") /\ UNCHANGED trapVars
    /\ block' = NoBlock
    /\ UNCHANGED <<sum, mxr, satp>>

Exception(cause) ==
    /\ Trap(priv # "M" /\ cause \in Medeleg)
    /\ UNCHANGED <<irqVars, memVars>>

\* get_pending_irq_mask().
PendingIrqs ==
    (mip \cap mie) \cap
        (CASE priv = "M" -> {}
           [] priv = "S" -> IF sie THEN Irqs ELSE Irqs \ Mideleg
           [] OTHER      -> Irqs)

\* The dispatch loop checks for interrupts on entry and between two blocks.
RaiseInterrupt ==
    /\ ~powerDown /\ block = NoBlock
    /\ \E irq \in PendingIrqs :
         /\ \A m \in PendingIrqs : irq <= m
         /\ Trap(priv # "M" /\ irq \in Mideleg)
    /\ UNCHANGED <<irqVars, memVars>>

Executing == ~powerDown /\ block # NoBlock

\* The end of a block: a branch out of it, or its last instruction.
EndBlock ==
    /\ Executing
    /\ block' = NoBlock
    /\ UNCHANGED <<ctxVars, trapVars, irqVars, memVars, tlb, stale>>

Init ==
    /\ priv = "S" /\ sum = FALSE /\ mxr = FALSE /\ satp = Bare
    /\ uie = FALSE /\ sie = FALSE /\ spie = FALSE /\ spp = "U"
    /\ mip = {} /\ mie = {} /\ powerDown = FALSE
    /\ pt = BootPt
    /\ tlb = EmptyTlb
    /\ block = NoBlock
    /\ stale = {} /\ edits = 0

\* A walk for the code TLB; code outside RAM is an access fault.
TargetReadInsnSlow(v) ==
    IF ~WalkOk(v, "code") THEN Exception("pageFault")
    ELSE /\ pt' = Marked(v, "code")
         /\ IF WalkPage(v) \in Ram
            THEN /\ tlb' = [tlb EXCEPT !["code"][SlotOf[v]] = Entry(v)]
                 /\ block' = [v |-> v, pa |-> WalkPage(v), edited |-> FALSE]
                 /\ UNCHANGED <<ctxVars, trapVars, stale>>
            ELSE Trap(priv # "M" /\ "fault" \in Medeleg)
         /\ UNCHANGED <<irqVars, edits>>

\* The head of the dispatch loop: the code TLB, or a walk.
Fetch(v) ==
    /\ ~powerDown /\ block = NoBlock /\ PendingIrqs = {}
    /\ IF Hit(v, "code")
       THEN /\ block' = [v |-> v, pa |-> tlb["code"][SlotOf[v]].pa, edited |-> v \in stale]
            /\ UNCHANGED <<ctxVars, trapVars, irqVars, memVars, tlb, stale>>
       ELSE TargetReadInsnSlow(v)

\* A load or a store of v: through the TLB, or with a walk, which fills the TLB
\* only for RAM; a device is called, an address with nothing behind it ignored.
Access(v, kind) ==
    /\ Executing
    /\ ~Hit(v, kind)        \* a hit changes nothing that is modelled
    /\ IF ~WalkOk(v, kind) THEN Exception("pageFault")
       ELSE /\ pt' = Marked(v, kind)
            /\ tlb' = IF WalkPage(v) \in Ram
                      THEN [tlb EXCEPT ![kind][SlotOf[v]] = Entry(v)] ELSE tlb
            /\ UNCHANGED <<ctxVars, trapVars, irqVars, edits, block, stale>>

TargetReadSlow(v) == Access(v, "read")
TargetWriteSlow(v) == Access(v, "write")

\* The entries that the walk of v reads.
Path(v) == {<<satp, v[1]>>, LeafLoc(v)}

\* The kernel stores to a page table; the TLBs do not see it.
SetPte(t, i, p) ==
    /\ Executing /\ priv = "S" /\ edits < MaxEdits
    /\ pt[<<t, i>>] # p
    /\ pt' = [pt EXCEPT ![<<t, i>>] = p]
    /\ edits' = edits + 1
    /\ stale' = stale \cup {v \in Pages : satp # Bare /\ <<t, i>> \in Path(v)}
    /\ block' = [block EXCEPT !.edited = @ \/ (satp # Bare /\ <<t, i>> \in Path(block.v))]
    /\ UNCHANGED <<ctxVars, trapVars, irqVars, tlb>>

-----------------------------------------------------------------------------
(* The system instructions.                                                *)

\* csr_write() of sstatus, through set_mstatus(): a change of SUM or MXR
\* flushes the TLBs, and the block goes on.
CsrSstatus(val) ==
    /\ Executing /\ priv = "S"
    /\ sum' = val.sum /\ mxr' = val.mxr
    /\ uie' = val.uie /\ sie' = val.sie /\ spp' = val.spp /\ spie' = val.spie
    /\ IF sum' # sum \/ mxr' # mxr THEN Flush ELSE UNCHANGED <<tlb, stale>>
    /\ UNCHANGED <<priv, satp, irqVars, memVars, block>>

\* The block goes on after a change of satp.
MutCsrSatp(root) ==
    /\ Executing /\ priv = "S"
    /\ satp' = root
    /\ Flush
    /\ UNCHANGED <<priv, sum, mxr, trapVars, irqVars, memVars, block>>

\* csr_write() of satp returns 2: the block is left.
CsrSatp(root) ==
    /\ Executing /\ priv = "S"
    /\ satp' = root
    /\ Flush
    /\ block' = NoBlock
    /\ UNCHANGED <<priv, sum, mxr, trapVars, irqVars, memVars>>

\* csr_write() of sie and sip, masked with mideleg.
CsrInterrupts(enabled, pending) ==
    /\ Executing /\ priv = "S"
    /\ mie' = (mie \ Mideleg) \cup (enabled \cap Mideleg)
    /\ mip' = (mip \ Mideleg) \cup (pending \cap Mideleg)
    /\ UNCHANGED <<ctxVars, trapVars, powerDown, memVars, tlb, block, stale>>

\* A supervisor register in U mode, any machine register, mret, or an
\* undefined instruction.
Illegal == Executing /\ Exception("illegal")

\* sfence.vma, with or without an address; sret and wfi are refused in U mode.
SfenceVma ==
    /\ Executing
    /\ IF priv = "U" THEN Exception("illegal")
       ELSE /\ Flush
            /\ block' = NoBlock
            /\ UNCHANGED <<ctxVars, trapVars, irqVars, memVars>>

\* handle_sret().
Sret ==
    /\ Executing /\ priv = "S"
    /\ sie' = IF spp = "S" THEN spie ELSE sie
    /\ uie' = IF spp = "U" THEN spie ELSE uie
    /\ spie' = TRUE
    /\ spp' = "U"
    /\ SetPriv(spp)
    /\ block' = NoBlock
    /\ UNCHANGED <<sum, mxr, satp, irqVars, memVars>>

\* From U mode a system call of the kernel; from S mode a call of the host's
\* SBI, which never becomes a trap: the loop is left and entered again.
Ecall ==
    /\ Executing
    /\ IF priv = "U" THEN Exception("ecallU")
       ELSE /\ block' = NoBlock
            /\ UNCHANGED <<ctxVars, trapVars, irqVars, memVars, tlb, stale>>

Wfi ==
    /\ Executing /\ priv = "S"
    /\ IF mip \cap mie = {}
       THEN powerDown' = TRUE /\ block' = NoBlock
       ELSE UNCHANGED <<powerDown, block>>
    /\ UNCHANGED <<ctxVars, trapVars, mip, mie, memVars, tlb, stale>>

\* riscv_cpu_set_mip() and riscv_cpu_reset_mip(), called by the devices.
SetMip(irq) ==
    /\ irq \notin mip
    /\ mip' = mip \cup {irq}
    /\ powerDown' = (powerDown /\ mip' \cap mie = {})
    /\ UNCHANGED <<ctxVars, trapVars, mie, memVars, tlb, block, stale>>

ResetMip(irq) ==
    /\ irq \in mip
    /\ mip' = mip \ {irq}
    /\ UNCHANGED <<ctxVars, trapVars, mie, powerDown, memVars, tlb, block, stale>>

Next ==
    \/ \E v \in Pages : Fetch(v)
    \/ \E v \in Pages : TargetReadSlow(v) \/ TargetWriteSlow(v)
    \/ \E t \in Tables, i \in Idx, p \in PteValues : SetPte(t, i, p)
    \/ \E val \in SstatusValues : CsrSstatus(val)
    \/ \E root \in Tables \cup {Bare} : CsrSatp(root)
    \/ \E e, p \in SUBSET Irqs : CsrInterrupts(e, p)
    \/ \E irq \in Irqs : SetMip(irq) \/ ResetMip(irq)
    \/ EndBlock \/ RaiseInterrupt \/ Illegal \/ SfenceVma \/ Sret \/ Ecall \/ Wfi

Spec == Init /\ [][Next]_cpuVars

-----------------------------------------------------------------------------
(* Properties.                                                             *)

\* What the TLB of a kind says of page v is what a walk would say now; the
\* accessed bit is set, and the dirty bit for a page that stores may go to.
EntryOk(k, v, pa) ==
    /\ WalkOk(v, k) /\ WalkPage(v) = pa /\ pa \in Ram
    /\ satp # Bare => LeafPte(v).a /\ (k = "write" => LeafPte(v).d)

\* Every entry of the three TLBs is what a walk would give now, under the
\* present privilege, satp, SUM and MXR, unless a page table it went through
\* was changed after the last flush; a page that can be stored to without a
\* walk has its dirty bit set.
TlbCoherent ==
    \A k \in Kinds, s \in Slots :
        tlb[k][s].v # NoPage /\ tlb[k][s].v \notin stale =>
            EntryOk(k, tlb[k][s].v, tlb[k][s].pa)

\* The instructions that the dispatch loop reads through its cached pointer
\* are those of the page the walk gives, without an edit of the tables since.
\* A supervisor that runs in a user page is left out: clearing SUM there does
\* not end the block.
FetchCoherent ==
    block # NoBlock /\ ~block.edited =>
        /\ WalkPage(block.v) = block.pa
        /\ satp # Bare => /\ Permits(LeafPte(block.v), "code")
                          /\ priv = "U" => LeafPte(block.v).u

\* No sequence of traps, returns and interrupts reaches M mode, where mtvec is
\* zero and there is no code.
NeverMachine == priv # "M"

CpuTypeOK ==
    /\ priv \in Privs /\ spp \in {"U", "S"} /\ satp \in Tables \cup {Bare}
    /\ {sum, mxr, uie, sie, spie, powerDown} \subseteq BOOLEAN
    /\ mip \subseteq Irqs /\ mie \subseteq Irqs
    /\ pt \in [Tables \X Idx -> Pte]
    /\ tlb \in [Kinds -> [Slots -> [v : Pages \cup {NoPage}, pa : PPN \cup {NoPage}]]]
    /\ block \in [v : Pages \cup {NoPage}, pa : PPN \cup {NoPage}, edited : BOOLEAN]
    /\ stale \subseteq Pages /\ edits \in 0 .. MaxEdits
=============================================================================

----------------------------- MODULE HartProofs -----------------------------
(***************************************************************************)
(* The hart and the board around it, the one from Cpu and the other from   *)
(* Machine.  The TLBs of the interpreter are coherent with the page tables *)
(* and the hart never enters M mode, for every layout of memory and        *)
(* tables; its sleep hides no interrupt, its timer is never early and      *)
(* console input arrives once and in order, for every size of the rings,   *)
(* every width of the cycle counter and every delay.                       *)
(***************************************************************************)
EXTENDS Cpu, Machine, FiniteSetTheorems, SequenceTheorems, TLAPS

(* Cpu.                                                                    *)

\* The inductive invariant: only delegated interrupts are ever enabled.
CpuInv == CpuTypeOK /\ NeverMachine /\ TlbCoherent /\ mie \subseteq Mideleg

\* A step that changes neither the context nor the tables changes no walk.
LEMMA SameWalk ==
    ASSUME NEW k, NEW v, NEW pa, EntryOk(k, v, pa),
           UNCHANGED <<priv, sum, mxr, satp, pt>>
    PROVE  EntryOk(k, v, pa)'
  BY DEF EntryOk, WalkOk, WalkPage, LeafPte, LeafLoc, Descends, RootPte, PteAt,
         IsLeaf, Permits, UserCheck

\* The fields of an entry that decide a walk survive the marking of any entry,
\* and its accessed and dirty bits are never cleared.
LEMMA MarkedPte ==
    ASSUME CpuTypeOK, NEW w \in Pages, NEW kind, NEW t, NEW i \in Idx,
           UNCHANGED satp, pt' = Marked(w, kind)
    PROVE  LET p == PteAt(t, i)
           IN /\ p'.v = p.v /\ p'.r = p.r /\ p'.w = p.w /\ p'.x = p.x
              /\ p'.u = p.u /\ p'.ppn = p.ppn
              /\ (p.a => p'.a) /\ (p.d => p'.d)
  BY DEF Marked, PteAt, CpuTypeOK, Pte

\* Marking an entry moves no walk.
LEMMA MarkedLeaf ==
    ASSUME CpuTypeOK, CpuAssumption, NEW w \in Pages, NEW kind, NEW v \in Pages,
           UNCHANGED satp, pt' = Marked(w, kind)
    PROVE  LET p == LeafPte(v)
           IN /\ Descends(v)' = Descends(v) /\ LeafLoc(v)' = LeafLoc(v)
              /\ p'.v = p.v /\ p'.r = p.r /\ p'.w = p.w /\ p'.x = p.x
              /\ p'.u = p.u /\ p'.ppn = p.ppn
              /\ (p.a => p'.a) /\ (p.d => p'.d)
  <1>0. v[1] \in Idx /\ v[2] \in Idx
    BY DEF CpuAssumption
  <1>1. /\ RootPte(v)'.v = RootPte(v).v /\ RootPte(v)'.ppn = RootPte(v).ppn
        /\ IsLeaf(RootPte(v))' = IsLeaf(RootPte(v))
    BY <1>0, MarkedPte DEF RootPte, IsLeaf
  <1>2. Descends(v)' = Descends(v) /\ LeafLoc(v)' = LeafLoc(v)
    BY <1>1 DEF Descends, LeafLoc
  <1> QED
    BY <1>0, <1>2, MarkedPte DEF LeafPte, LeafLoc

LEMMA MarkedWalk ==
    ASSUME CpuTypeOK, CpuAssumption, NEW w \in Pages, NEW kind,
           UNCHANGED <<priv, sum, mxr, satp>>, pt' = Marked(w, kind),
           NEW k, NEW v \in Pages, NEW pa, EntryOk(k, v, pa)
    PROVE  EntryOk(k, v, pa)'
  BY MarkedLeaf DEF EntryOk, WalkOk, WalkPage, Permits, UserCheck, IsLeaf

\* What a successful walk puts into a TLB is what a walk would give after it.
LEMMA FilledWalk ==
    ASSUME CpuTypeOK, CpuAssumption, NEW v \in Pages, NEW k \in Kinds,
           UNCHANGED <<priv, sum, mxr, satp>>, pt' = Marked(v, k),
           priv # "M", WalkOk(v, k), NEW pa \in Ram, WalkPage(v) = pa
    PROVE  EntryOk(k, v, pa)'
  <1>0. v[1] \in Idx /\ v[2] \in Idx
    BY DEF CpuAssumption
  <1>1. CASE satp = Bare
    BY <1>1 DEF EntryOk, WalkOk, WalkPage
  <1>2. CASE satp # Bare
    <2>2. Descends(v)' = Descends(v) /\ LeafLoc(v)' = LeafLoc(v)
      BY MarkedLeaf
    <2>3. LET p == LeafPte(v)
          IN /\ p'.v = p.v /\ p'.r = p.r /\ p'.w = p.w /\ p'.x = p.x
             /\ p'.u = p.u /\ p'.ppn = p.ppn
      BY MarkedLeaf
    <2>4. WalkOk(v, k)' /\ WalkPage(v)' = WalkPage(v)
      BY <2>2, <2>3 DEF WalkOk, WalkPage, Permits, UserCheck, IsLeaf
    <2>5. LeafLoc(v) \in Tables \X Idx /\ LeafPte(v) = pt[LeafLoc(v)]
      BY <1>0, <1>2 DEF WalkOk, Permits, LeafPte, LeafLoc, PteAt
    <2>6. LeafPte(v)'.a /\ (k = "write" => LeafPte(v)'.d)
      <3>1. LeafPte(v)' = pt'[LeafLoc(v)]
        BY <2>2, <2>5 DEF LeafPte, LeafLoc, PteAt
      <3>2. pt[LeafLoc(v)] \in Pte
        BY <2>5 DEF CpuTypeOK
      <3> QED
        BY <1>2, <2>5, <3>1, <3>2 DEF Marked, CpuTypeOK, Pte
    <2> QED
      BY <2>4, <2>6 DEF EntryOk
  <1> QED
    BY <1>1, <1>2

\* A store to a page table changes only the walks that go through it.
LEMMA EditedLeaf ==
    ASSUME CpuTypeOK, CpuAssumption, NEW v \in Pages,
           NEW t \in Tables, NEW i \in Idx, NEW p,
           satp # Bare, <<t, i>> \notin Path(v),
           UNCHANGED satp, pt' = [pt EXCEPT ![<<t, i>>] = p]
    PROVE  Descends(v)' = Descends(v) /\ LeafPte(v)' = LeafPte(v)
  <1>0. v[1] \in Idx /\ v[2] \in Idx
    BY DEF CpuAssumption
  <1>1. <<satp, v[1]>> # <<t, i>> /\ LeafLoc(v) # <<t, i>>
    BY DEF Path
  <1>2. RootPte(v)' = RootPte(v)
    BY <1>0, <1>1 DEF RootPte, PteAt, CpuTypeOK
  <1>3. Descends(v)' = Descends(v) /\ LeafLoc(v)' = LeafLoc(v)
    BY <1>2 DEF Descends, LeafLoc, IsLeaf
  <1>4. LeafLoc(v) = <<LeafLoc(v)[1], LeafLoc(v)[2]>> /\ LeafLoc(v)[2] \in Idx
    BY <1>0 DEF LeafLoc
  <1> QED
    BY <1>1, <1>3, <1>4 DEF LeafPte, PteAt, CpuTypeOK

LEMMA EditedWalk ==
    ASSUME CpuTypeOK, CpuAssumption, NEW v \in Pages, NEW k, NEW pa,
           NEW t \in Tables, NEW i \in Idx, NEW p,
           satp = Bare \/ <<t, i>> \notin Path(v),
           UNCHANGED <<priv, sum, mxr, satp>>, pt' = [pt EXCEPT ![<<t, i>>] = p],
           EntryOk(k, v, pa)
    PROVE  EntryOk(k, v, pa)'
  <1>1. CASE satp = Bare
    BY <1>1 DEF EntryOk, WalkOk, WalkPage
  <1>2. CASE satp # Bare
    BY <1>2, EditedLeaf DEF EntryOk, WalkOk, WalkPage, Permits, UserCheck, IsLeaf
  <1> QED
    BY <1>1, <1>2

\* Empty TLBs are coherent.
LEMMA FlushedCoherent ==
    ASSUME tlb' = EmptyTlb
    PROVE  TlbCoherent'
  BY DEF EmptyTlb, NoEntry, TlbCoherent

\* TLBs that a step leaves alone stay coherent when no walk changes.
LEMMA KeptCoherent ==
    ASSUME CpuTypeOK, TlbCoherent, tlb' = tlb, stale \subseteq stale',
           \A pa : \A k \in Kinds, v \in Pages :
               v \notin stale' /\ EntryOk(k, v, pa) => EntryOk(k, v, pa)'
    PROVE  TlbCoherent'
  <1> SUFFICES ASSUME NEW k \in Kinds, NEW s \in Slots,
                      tlb[k][s].v # NoPage, tlb[k][s].v \notin stale'
               PROVE  EntryOk(k, tlb[k][s].v, tlb[k][s].pa)'
    BY DEF TlbCoherent
  <1>1. tlb[k][s].v \in Pages
    BY DEF CpuTypeOK
  <1>2. EntryOk(k, tlb[k][s].v, tlb[k][s].pa)
    BY DEF TlbCoherent
  <1> QED
    BY <1>1, <1>2

\* Marking an entry keeps the tables well formed.
LEMMA MarkedType ==
    ASSUME CpuTypeOK, NEW v \in Pages, NEW k
    PROVE  Marked(v, k) \in [Tables \X Idx -> Pte]
  <1>1. CASE LeafLoc(v) \in Tables \X Idx
    <2>1. pt[LeafLoc(v)] \in Pte
      BY <1>1 DEF CpuTypeOK
    <2>2. [pt[LeafLoc(v)] EXCEPT !.a = TRUE, !.d = pt[LeafLoc(v)].d \/ k = "write"] \in Pte
      BY <2>1 DEF Pte
    <2> QED
      BY <2>2 DEF Marked, CpuTypeOK
  <1>2. CASE LeafLoc(v) \notin Tables \X Idx
    BY <1>2 DEF Marked, CpuTypeOK
  <1> QED
    BY <1>1, <1>2

\* The part of the invariant that a trap touches.
LEMMA TrapInv ==
    ASSUME CpuInv, CpuAssumption, Trap(TRUE), mie' = mie,
           \A pa : \A k \in Kinds, v \in Pages :
               priv' = priv /\ EntryOk(k, v, pa) => EntryOk(k, v, pa)'
    PROVE  /\ NeverMachine' /\ TlbCoherent' /\ mie' \subseteq Mideleg
           /\ priv' \in Privs /\ spp' \in {"U", "S"} /\ satp' \in Tables \cup {Bare}
           /\ {sum, mxr, uie, sie, spie}' \subseteq BOOLEAN
           /\ tlb' \in [Kinds -> [Slots -> [v : Pages \cup {NoPage}, pa : PPN \cup {NoPage}]]]
           /\ block' \in [v : Pages \cup {NoPage}, pa : PPN \cup {NoPage}, edited : BOOLEAN]
           /\ stale' \subseteq Pages
  <1>1. /\ priv' = "S" /\ spp' = priv /\ sie' = FALSE /\ {uie, spie}' \subseteq BOOLEAN
        /\ UNCHANGED <<sum, mxr, satp>> /\ block' = NoBlock
    <2>1. sie \in BOOLEAN /\ uie \in BOOLEAN
      BY DEF CpuInv, CpuTypeOK
    <2>2. spie' \in BOOLEAN /\ uie' \in BOOLEAN
      <3>1. spie' = (IF priv = "S" THEN sie ELSE uie) /\ uie' = uie
        BY DEF Trap
      <3> QED
        BY <2>1, <3>1, Zenon
    <2>3. /\ priv' = "S" /\ spp' = priv /\ sie' = FALSE
          /\ UNCHANGED <<sum, mxr, satp>> /\ block' = NoBlock
      BY DEF Trap, SetPriv
    <2> QED
      BY <2>2, <2>3, Zenon
  <1>2. priv \in {"U", "S"}
    BY DEF CpuInv, CpuTypeOK, NeverMachine, Privs
  <1>3. CASE tlb' = EmptyTlb /\ stale' = {}
    BY <1>1, <1>2, <1>3, FlushedCoherent
    DEF CpuInv, CpuTypeOK, NeverMachine, Privs, EmptyTlb, NoEntry, NoBlock
  <1>4. CASE priv' = priv /\ UNCHANGED <<tlb, stale>>
    <2>1. TlbCoherent'
      BY <1>4, KeptCoherent DEF CpuInv
    <2> QED
      BY <1>1, <1>2, <1>4, <2>1 DEF CpuInv, CpuTypeOK, NeverMachine, Privs, NoBlock
  <1> QED
    BY <1>3, <1>4 DEF Trap, SetPriv, Flush

LEMMA ExceptionInv ==
    ASSUME CpuInv, CpuAssumption, NEW cause \in Medeleg, Exception(cause)
    PROVE  CpuInv'
  <1>1. Trap(TRUE) /\ UNCHANGED <<mip, mie, powerDown, pt, edits>>
    BY DEF Exception, CpuInv, NeverMachine, irqVars, memVars, Trap
  <1>2. \A pa : \A k \in Kinds, v \in Pages :
            priv' = priv /\ EntryOk(k, v, pa) => EntryOk(k, v, pa)'
    BY <1>1, SameWalk DEF Trap
  <1>3. /\ NeverMachine' /\ TlbCoherent' /\ mie' \subseteq Mideleg
        /\ priv' \in Privs /\ spp' \in {"U", "S"} /\ satp' \in Tables \cup {Bare}
        /\ {sum, mxr, uie, sie, spie}' \subseteq BOOLEAN
        /\ tlb' \in [Kinds -> [Slots -> [v : Pages \cup {NoPage}, pa : PPN \cup {NoPage}]]]
        /\ block' \in [v : Pages \cup {NoPage}, pa : PPN \cup {NoPage}, edited : BOOLEAN]
        /\ stale' \subseteq Pages
    BY <1>1, <1>2, TrapInv
  <1> QED
    BY <1>1, <1>3 DEF CpuInv, CpuTypeOK

\* An entry that a walk has just filled, next to entries that stay coherent.
LEMMA FillInv ==
    ASSUME CpuInv, CpuAssumption, NEW v \in Pages, NEW kind \in Kinds,
           WalkOk(v, kind), WalkPage(v) \in Ram, pt' = Marked(v, kind),
           tlb' = [tlb EXCEPT ![kind][SlotOf[v]] = Entry(v)],
           UNCHANGED <<priv, sum, mxr, satp, stale>>
    PROVE  /\ TlbCoherent'
           /\ tlb' \in [Kinds -> [Slots -> [v : Pages \cup {NoPage}, pa : PPN \cup {NoPage}]]]
  <1>1. Entry(v) \in [v : Pages \cup {NoPage}, pa : PPN \cup {NoPage}] /\ SlotOf[v] \in Slots
    BY DEF Entry, CpuAssumption
  <1>2. tlb' \in [Kinds -> [Slots -> [v : Pages \cup {NoPage}, pa : PPN \cup {NoPage}]]]
    BY <1>1 DEF CpuInv, CpuTypeOK
  <1>3. ASSUME NEW k \in Kinds, NEW s \in Slots,
               tlb'[k][s].v # NoPage, tlb'[k][s].v \notin stale
        PROVE  EntryOk(k, tlb[k][s].v, tlb[k][s].pa)'
    <2>1. CASE k = kind /\ s = SlotOf[v]
      <3>1. tlb'[k][s] = Entry(v)
        BY <2>1 DEF CpuInv, CpuTypeOK
      <3>2. PICK pa \in Ram : pa = WalkPage(v)
        OBVIOUS
      <3>3. EntryOk(k, v, pa)'
        BY <2>1, <3>2, FilledWalk DEF CpuInv, NeverMachine
      <3> QED
        BY <3>1, <3>2, <3>3 DEF Entry
    <2>2. CASE ~(k = kind /\ s = SlotOf[v])
      <3>1. tlb'[k][s] = tlb[k][s]
        BY <2>2 DEF CpuInv, CpuTypeOK
      <3>2. tlb[k][s].v \in Pages /\ EntryOk(k, tlb[k][s].v, tlb[k][s].pa)
        BY <1>3, <3>1 DEF CpuInv, CpuTypeOK, TlbCoherent
      <3> QED
        BY <3>1, <3>2, MarkedWalk DEF CpuInv
    <2> QED
      BY <2>1, <2>2
  <1> QED
    BY <1>2, <1>3 DEF TlbCoherent

LEMMA CpuInitial == ASSUME CpuAssumption, Init PROVE CpuInv
  <1>1. TlbCoherent
    BY DEF Init, TlbCoherent, EmptyTlb, NoEntry
  <1>2. /\ tlb \in [Kinds -> [Slots -> [v : Pages \cup {NoPage}, pa : PPN \cup {NoPage}]]]
        /\ block \in [v : Pages \cup {NoPage}, pa : PPN \cup {NoPage}, edited : BOOLEAN]
    BY DEF Init, EmptyTlb, NoEntry, NoBlock
  <1>3. pt \in [Tables \X Idx -> Pte] /\ edits \in 0 .. MaxEdits
    BY DEF Init, CpuAssumption
  <1>4. {sum, mxr, uie, sie, spie, powerDown} \subseteq BOOLEAN
    BY DEF Init
  <1> QED
    BY <1>1, <1>2, <1>3, <1>4 DEF Init, CpuInv, CpuTypeOK, Privs, NeverMachine

LEMMA CpuStep == ASSUME CpuAssumption, CpuInv, [Next]_cpuVars PROVE CpuInv'
  <1> USE DEF ctxVars, trapVars, irqVars, memVars
  <1>0. priv \in {"U", "S"} /\ priv # "M"
    BY DEF CpuInv, CpuTypeOK, NeverMachine, Privs
  <1>1. ASSUME NEW v \in Pages, Fetch(v) PROVE CpuInv'
    <2>1. CASE Hit(v, "code")
      <3>1. TlbCoherent'
        BY <1>1, <2>1, SameWalk, KeptCoherent DEF Fetch, TargetReadInsnSlow, CpuInv
      <3>2. tlb["code"][SlotOf[v]].pa \in PPN \cup {NoPage} /\ (v \in stale) \in BOOLEAN
        BY DEF CpuInv, CpuTypeOK, CpuAssumption, Kinds
      <3>3. /\ block' = [v |-> v, pa |-> tlb["code"][SlotOf[v]].pa, edited |-> v \in stale]
            /\ UNCHANGED <<priv, sum, mxr, satp, uie, sie, spie, spp, mip, mie, powerDown,
                           pt, edits, tlb, stale>>
        BY <1>1, <2>1 DEF Fetch, TargetReadInsnSlow
      <3>4. block' \in [v : Pages \cup {NoPage}, pa : PPN \cup {NoPage}, edited : BOOLEAN]
        BY <3>2, <3>3
      <3> QED
        BY <3>1, <3>3, <3>4 DEF CpuInv, CpuTypeOK, NeverMachine
    <2>2. CASE ~Hit(v, "code") /\ ~WalkOk(v, "code")
      BY <1>1, <2>2, ExceptionInv DEF Fetch, TargetReadInsnSlow, Medeleg
    <2>3. CASE ~Hit(v, "code") /\ WalkOk(v, "code") /\ WalkPage(v) \in Ram
      <3>1. /\ pt' = Marked(v, "code")
            /\ tlb' = [tlb EXCEPT !["code"][SlotOf[v]] = Entry(v)]
            /\ block' = [v |-> v, pa |-> WalkPage(v), edited |-> FALSE]
            /\ UNCHANGED <<priv, sum, mxr, satp, uie, sie, spie, spp, stale, mip, mie,
                           powerDown, edits>>
        BY <1>1, <2>3 DEF Fetch, TargetReadInsnSlow
      <3>2. /\ TlbCoherent'
            /\ tlb' \in [Kinds -> [Slots -> [v : Pages \cup {NoPage}, pa : PPN \cup {NoPage}]]]
        BY <2>3, <3>1, FillInv DEF Kinds
      <3>3. pt' \in [Tables \X Idx -> Pte]
        BY <3>1, MarkedType DEF CpuInv
      <3>4. WalkPage(v) \in PPN
        BY <2>3 DEF CpuAssumption
      <3> QED
        BY <3>1, <3>2, <3>3, <3>4 DEF CpuInv, CpuTypeOK, NeverMachine
    <2>4. CASE ~Hit(v, "code") /\ WalkOk(v, "code") /\ WalkPage(v) \notin Ram
      <3>1. pt' = Marked(v, "code") /\ Trap(TRUE) /\ UNCHANGED <<mip, mie, powerDown, edits>>
        BY <1>0, <1>1, <2>4 DEF Fetch, TargetReadInsnSlow, Medeleg, Trap
      <3>2. ASSUME NEW k \in Kinds, NEW w \in Pages, NEW pa, priv' = priv, EntryOk(k, w, pa)
            PROVE  EntryOk(k, w, pa)'
        BY <3>1, <3>2, MarkedWalk DEF Trap, CpuInv
      <3>3. /\ NeverMachine' /\ TlbCoherent' /\ mie' \subseteq Mideleg
            /\ priv' \in Privs /\ spp' \in {"U", "S"} /\ satp' \in Tables \cup {Bare}
            /\ {sum, mxr, uie, sie, spie}' \subseteq BOOLEAN
            /\ tlb' \in [Kinds -> [Slots -> [v : Pages \cup {NoPage}, pa : PPN \cup {NoPage}]]]
            /\ block' \in [v : Pages \cup {NoPage}, pa : PPN \cup {NoPage}, edited : BOOLEAN]
            /\ stale' \subseteq Pages
        BY <3>1, <3>2, TrapInv
      <3>4. pt' \in [Tables \X Idx -> Pte]
        BY <3>1, MarkedType DEF CpuInv
      <3> QED
        BY <3>1, <3>3, <3>4 DEF CpuInv, CpuTypeOK
    <2> QED
      BY <2>1, <2>2, <2>3, <2>4
  <1>2. ASSUME NEW v \in Pages, NEW kind \in {"read", "write"}, Access(v, kind) PROVE CpuInv'
    <2>1. CASE ~WalkOk(v, kind)
      BY <1>2, <2>1, ExceptionInv DEF Access, Medeleg
    <2>2. CASE WalkOk(v, kind)
      <3>1. /\ pt' = Marked(v, kind)
            /\ UNCHANGED <<priv, sum, mxr, satp, uie, sie, spie, spp, mip, mie, powerDown,
                           edits, block, stale>>
            /\ tlb' = IF WalkPage(v) \in Ram
                      THEN [tlb EXCEPT ![kind][SlotOf[v]] = Entry(v)] ELSE tlb
        BY <1>2, <2>2 DEF Access
      <3>2. pt' \in [Tables \X Idx -> Pte]
        BY <3>1, MarkedType DEF CpuInv
      <3>3. /\ TlbCoherent'
            /\ tlb' \in [Kinds -> [Slots -> [v : Pages \cup {NoPage}, pa : PPN \cup {NoPage}]]]
        <4>1. CASE WalkPage(v) \in Ram
          BY <2>2, <3>1, <4>1, FillInv DEF Kinds
        <4>2. CASE WalkPage(v) \notin Ram
          BY <3>1, <4>2, MarkedWalk, KeptCoherent DEF CpuInv, CpuTypeOK
        <4> QED
          BY <4>1, <4>2
      <3> QED
        BY <3>1, <3>2, <3>3 DEF CpuInv, CpuTypeOK, NeverMachine
    <2> QED
      BY <2>1, <2>2
  <1>3. ASSUME NEW t \in Tables, NEW i \in Idx, NEW p \in PteValues, SetPte(t, i, p)
        PROVE  CpuInv'
    <2>1. ASSUME NEW k \in Kinds, NEW v \in Pages, NEW pa, v \notin stale', EntryOk(k, v, pa)
          PROVE  EntryOk(k, v, pa)'
      BY <1>3, <2>1, EditedWalk DEF SetPte, CpuInv
    <2>2. TlbCoherent'
      BY <1>3, <2>1, KeptCoherent DEF SetPte, CpuInv
    <2>3. pt' \in [Tables \X Idx -> Pte]
      BY <1>3 DEF SetPte, CpuInv, CpuTypeOK, CpuAssumption
    <2>4. block' \in [v : Pages \cup {NoPage}, pa : PPN \cup {NoPage}, edited : BOOLEAN]
      BY <1>3 DEF SetPte, CpuInv, CpuTypeOK
    <2>5. edits' \in 0 .. MaxEdits
      BY <1>3 DEF SetPte, CpuInv, CpuTypeOK, CpuAssumption
    <2> QED
      BY <1>3, <2>2, <2>3, <2>4, <2>5 DEF SetPte, CpuInv, CpuTypeOK, NeverMachine
  <1>4. ASSUME NEW val \in SstatusValues, CsrSstatus(val) PROVE CpuInv'
    <2>1. TlbCoherent'
      <3>1. CASE tlb' = EmptyTlb
        BY <3>1, FlushedCoherent
      <3>2. CASE UNCHANGED <<sum, mxr, tlb, stale>>
        BY <1>4, <3>2, SameWalk, KeptCoherent DEF CsrSstatus, CpuInv
      <3> QED
        BY <1>4, <3>1, <3>2 DEF CsrSstatus, Flush
    <2> QED
      BY <1>4, <2>1 DEF CsrSstatus, Flush, EmptyTlb, NoEntry, CpuInv, CpuTypeOK,
                        NeverMachine, CpuAssumption
  <1>5. ASSUME NEW root \in Tables \cup {Bare}, CsrSatp(root) PROVE CpuInv'
    BY <1>5, FlushedCoherent DEF CsrSatp, Flush, EmptyTlb, NoEntry, NoBlock, CpuInv,
                                 CpuTypeOK, NeverMachine
  <1>6. ASSUME NEW e \in SUBSET Irqs, NEW p \in SUBSET Irqs, CsrInterrupts(e, p) PROVE CpuInv'
    <2>1. TlbCoherent'
      BY <1>6, SameWalk, KeptCoherent DEF CsrInterrupts, CpuInv
    <2> QED
      BY <1>6, <2>1 DEF CsrInterrupts, CpuInv, CpuTypeOK, NeverMachine
  <1>7. ASSUME NEW irq \in Irqs, SetMip(irq) \/ ResetMip(irq) PROVE CpuInv'
    <2>1. TlbCoherent'
      BY <1>7, SameWalk, KeptCoherent DEF SetMip, ResetMip, CpuInv
    <2>2. powerDown' \in BOOLEAN
      BY <1>7 DEF SetMip, ResetMip, CpuInv, CpuTypeOK
    <2> QED
      BY <1>7, <2>1, <2>2 DEF SetMip, ResetMip, CpuInv, CpuTypeOK, NeverMachine
  <1>8. ASSUME EndBlock PROVE CpuInv'
    <2>1. TlbCoherent'
      BY <1>8, SameWalk, KeptCoherent DEF EndBlock, CpuInv
    <2> QED
      BY <1>8, <2>1 DEF EndBlock, NoBlock, CpuInv, CpuTypeOK, NeverMachine
  <1>9. ASSUME RaiseInterrupt PROVE CpuInv'
    <2>1. Trap(TRUE) /\ UNCHANGED <<mip, mie, powerDown, pt, edits>>
      BY <1>0, <1>9 DEF RaiseInterrupt, PendingIrqs, CpuInv, Trap
    <2>2. \A pa : \A k \in Kinds, v \in Pages :
              priv' = priv /\ EntryOk(k, v, pa) => EntryOk(k, v, pa)'
      BY <2>1, SameWalk DEF Trap
    <2>3. /\ NeverMachine' /\ TlbCoherent' /\ mie' \subseteq Mideleg
          /\ priv' \in Privs /\ spp' \in {"U", "S"} /\ satp' \in Tables \cup {Bare}
          /\ {sum, mxr, uie, sie, spie}' \subseteq BOOLEAN
          /\ tlb' \in [Kinds -> [Slots -> [v : Pages \cup {NoPage}, pa : PPN \cup {NoPage}]]]
          /\ block' \in [v : Pages \cup {NoPage}, pa : PPN \cup {NoPage}, edited : BOOLEAN]
          /\ stale' \subseteq Pages
      BY <2>1, <2>2, TrapInv
    <2> QED
      BY <2>1, <2>3 DEF CpuInv, CpuTypeOK
  <1>10. ASSUME Illegal PROVE CpuInv'
    BY <1>10, ExceptionInv DEF Illegal, Medeleg
  <1>11. ASSUME SfenceVma PROVE CpuInv'
    <2>1. CASE priv = "U"
      BY <1>11, <2>1, ExceptionInv DEF SfenceVma, Medeleg
    <2>2. CASE priv # "U"
      <3>1. /\ tlb' = EmptyTlb /\ stale' = {} /\ block' = NoBlock
            /\ UNCHANGED <<priv, sum, mxr, satp, uie, sie, spie, spp, mip, mie, powerDown,
                           pt, edits>>
        BY <1>11, <2>2 DEF SfenceVma, Flush
      <3> QED
        BY <3>1, FlushedCoherent DEF EmptyTlb, NoEntry, NoBlock, CpuInv, CpuTypeOK,
                                     NeverMachine
    <2> QED
      BY <2>1, <2>2
  <1>12. ASSUME Sret PROVE CpuInv'
    <2>1. /\ priv' = spp /\ spp' = "U" /\ spie' = TRUE /\ {uie, sie}' \subseteq BOOLEAN
          /\ block' = NoBlock
          /\ UNCHANGED <<sum, mxr, satp, mip, mie, powerDown, pt, edits>>
      BY <1>12 DEF Sret, SetPriv, CpuInv, CpuTypeOK
    <2>2. CASE tlb' = EmptyTlb /\ stale' = {}
      BY <2>1, <2>2, FlushedCoherent DEF EmptyTlb, NoEntry, NoBlock, CpuInv, CpuTypeOK,
                                         NeverMachine, Privs
    <2>3. CASE priv' = priv /\ UNCHANGED <<tlb, stale>>
      <3>1. TlbCoherent'
        BY <2>1, <2>3, SameWalk, KeptCoherent DEF CpuInv
      <3> QED
        BY <2>1, <2>3, <3>1 DEF NoBlock, CpuInv, CpuTypeOK, NeverMachine
    <2> QED
      BY <1>12, <2>2, <2>3 DEF Sret, SetPriv, Flush
  <1>13. ASSUME Ecall PROVE CpuInv'
    <2>1. CASE priv = "U"
      BY <1>13, <2>1, ExceptionInv DEF Ecall, Medeleg
    <2>2. CASE priv # "U"
      <3>1. TlbCoherent'
        BY <1>13, <2>2, SameWalk, KeptCoherent DEF Ecall, CpuInv
      <3>2. /\ block' = NoBlock
            /\ UNCHANGED <<priv, sum, mxr, satp, uie, sie, spie, spp, mip, mie, powerDown,
                           pt, edits, tlb, stale>>
        BY <1>13, <2>2 DEF Ecall
      <3> QED
        BY <3>1, <3>2 DEF NoBlock, CpuInv, CpuTypeOK, NeverMachine
    <2> QED
      BY <2>1, <2>2
  <1>14. ASSUME Wfi PROVE CpuInv'
    <2>1. TlbCoherent'
      BY <1>14, SameWalk, KeptCoherent DEF Wfi, CpuInv
    <2>2. /\ powerDown' \in BOOLEAN /\ block' \in {block, NoBlock}
          /\ UNCHANGED <<priv, sum, mxr, satp, uie, sie, spie, spp, mip, mie, pt, edits,
                         tlb, stale>>
      BY <1>14 DEF Wfi, CpuInv, CpuTypeOK
    <2>3. block' \in [v : Pages \cup {NoPage}, pa : PPN \cup {NoPage}, edited : BOOLEAN]
      <3>1. CASE block' = block
        BY <3>1 DEF CpuInv, CpuTypeOK
      <3>2. CASE block' = NoBlock
        BY <3>2 DEF NoBlock
      <3> QED
        BY <2>2, <3>1, <3>2
    <2>4. {sum, mxr, uie, sie, spie, powerDown}' \subseteq BOOLEAN
      BY <2>2 DEF CpuInv, CpuTypeOK
    <2> QED
      BY <2>1, <2>2, <2>3, <2>4 DEF CpuInv, CpuTypeOK, NeverMachine
  <1>15. ASSUME UNCHANGED cpuVars PROVE CpuInv'
    <2>1. TlbCoherent'
      BY <1>15, SameWalk, KeptCoherent DEF cpuVars, CpuInv
    <2> QED
      BY <1>15, <2>1 DEF cpuVars, CpuInv, CpuTypeOK, NeverMachine
  <1> QED
    BY <1>1, <1>2, <1>3, <1>4, <1>5, <1>6, <1>7, <1>8, <1>9, <1>10, <1>11, <1>12,
       <1>13, <1>14, <1>15 DEF Next, TargetReadSlow, TargetWriteSlow

-----------------------------------------------------------------------------
(* The cached code pointer.  A block may outlive a change of SUM, and any   *)
(* edit of the tables that does not touch its walk.                        *)

FetchOk(v, pa) ==
    /\ WalkPage(v) = pa
    /\ satp # Bare => Permits(LeafPte(v), "code") /\ (priv = "U" => LeafPte(v).u)

FetchInv ==
    block # NoBlock => /\ block.v \in Pages
                       /\ ~block.edited => FetchOk(block.v, block.pa)

LEMMA KeptFetch ==
    ASSUME FetchInv, UNCHANGED <<priv, satp, pt, block>>
    PROVE  FetchInv'
  BY DEF FetchInv, FetchOk, WalkPage, LeafPte, LeafLoc, Descends, RootPte, PteAt,
         IsLeaf, Permits

LEMMA NoFetch == ASSUME block' = NoBlock PROVE FetchInv'
  BY DEF FetchInv

\* A code entry that a walk agrees with is one to fetch through.
LEMMA EntryFetch ==
    ASSUME NEW v, NEW pa, priv # "M", EntryOk("code", v, pa)
    PROVE  FetchOk(v, pa)
  BY DEF EntryOk, FetchOk, WalkOk, UserCheck

LEMMA FetchStep ==
    ASSUME CpuAssumption, CpuInv, FetchInv, [Next]_cpuVars PROVE FetchInv'
  <1> USE DEF ctxVars, trapVars, irqVars, memVars
  <1>0. priv # "M"
    BY DEF CpuInv, NeverMachine
  <1>1. ASSUME NEW v \in Pages, Fetch(v) PROVE FetchInv'
    <2>1. CASE Hit(v, "code")
      <3>1. /\ block' = [v |-> v, pa |-> tlb["code"][SlotOf[v]].pa, edited |-> v \in stale]
            /\ UNCHANGED <<priv, sum, mxr, satp, pt>>
        BY <1>1, <2>1 DEF Fetch
      <3>2. ASSUME v \notin stale PROVE FetchOk(v, tlb["code"][SlotOf[v]].pa)'
        <4>1. SlotOf[v] \in Slots /\ v # NoPage /\ "code" \in Kinds
          BY DEF CpuAssumption, Kinds
        <4>2. EntryOk("code", v, tlb["code"][SlotOf[v]].pa)
          BY <2>1, <3>2, <4>1 DEF CpuInv, TlbCoherent, Hit
        <4>3. FetchOk(v, tlb["code"][SlotOf[v]].pa)
          BY <1>0, <4>2, EntryFetch
        <4>4. UNCHANGED tlb
          BY <1>1, <2>1 DEF Fetch
        <4> QED
          BY <3>1, <4>3, <4>4 DEF FetchOk, WalkPage, LeafPte, LeafLoc, Descends,
                                  RootPte, PteAt, IsLeaf, Permits
      <3>3. UNCHANGED tlb
        BY <1>1, <2>1 DEF Fetch
      <3> QED
        BY <3>1, <3>2, <3>3 DEF FetchInv
    <2>2. CASE ~Hit(v, "code") /\ ~WalkOk(v, "code")
      BY <1>1, <2>2, NoFetch DEF Fetch, TargetReadInsnSlow, Exception, Trap
    <2>3. CASE ~Hit(v, "code") /\ WalkOk(v, "code") /\ WalkPage(v) \in Ram
      <3>1. /\ pt' = Marked(v, "code")
            /\ block' = [v |-> v, pa |-> WalkPage(v), edited |-> FALSE]
            /\ UNCHANGED <<priv, sum, mxr, satp>>
        BY <1>1, <2>3 DEF Fetch, TargetReadInsnSlow
      <3>2. PICK pa \in Ram : pa = WalkPage(v)
        BY <2>3
      <3>3. EntryOk("code", v, pa)'
        BY <1>0, <2>3, <3>1, <3>2, FilledWalk DEF CpuInv, Kinds
      <3>4. FetchOk(v, pa)'
        BY <1>0, <3>1, <3>3 DEF EntryOk, FetchOk, WalkOk, UserCheck
      <3> QED
        BY <3>1, <3>2, <3>4 DEF FetchInv
    <2>4. CASE ~Hit(v, "code") /\ WalkOk(v, "code") /\ WalkPage(v) \notin Ram
      BY <1>1, <2>4, NoFetch DEF Fetch, TargetReadInsnSlow, Trap
    <2> QED
      BY <2>1, <2>2, <2>3, <2>4
  <1>2. ASSUME NEW v \in Pages, NEW kind, Access(v, kind) PROVE FetchInv'
    <2>1. CASE ~WalkOk(v, kind)
      BY <1>2, <2>1, NoFetch DEF Access, Exception, Trap
    <2>2. CASE WalkOk(v, kind)
      <3>1. pt' = Marked(v, kind) /\ UNCHANGED <<priv, satp, block>>
        BY <1>2, <2>2 DEF Access
      <3>2. ASSUME NEW w \in Pages, NEW pa, FetchOk(w, pa) PROVE FetchOk(w, pa)'
        BY <3>1, <3>2, MarkedLeaf DEF CpuInv, FetchOk, WalkPage, Permits, IsLeaf
      <3> QED
        BY <3>1, <3>2 DEF FetchInv
    <2> QED
      BY <2>1, <2>2
  <1>3. ASSUME NEW t \in Tables, NEW i \in Idx, NEW p \in PteValues, SetPte(t, i, p)
        PROVE  FetchInv'
    <2>1. /\ pt' = [pt EXCEPT ![<<t, i>>] = p] /\ UNCHANGED <<priv, satp>>
          /\ block # NoBlock
          /\ block' = [block EXCEPT !.edited =
                           @ \/ (satp # Bare /\ <<t, i>> \in Path(block.v))]
      BY <1>3 DEF SetPte, Executing
    <2>2. block \in [v : Pages \cup {NoPage}, pa : PPN \cup {NoPage}, edited : BOOLEAN]
      BY DEF CpuInv, CpuTypeOK
    <2>3. /\ block'.v = block.v /\ block'.pa = block.pa /\ block.v \in Pages
          /\ ~block'.edited => ~block.edited
          /\ ~block'.edited => satp = Bare \/ <<t, i>> \notin Path(block.v)
      BY <2>1, <2>2 DEF FetchInv
    <2>4. ASSUME NEW v \in Pages, NEW pa, FetchOk(v, pa),
                 satp = Bare \/ <<t, i>> \notin Path(v)
          PROVE  FetchOk(v, pa)'
      <3>1. CASE satp = Bare
        BY <2>1, <2>4, <3>1 DEF FetchOk, WalkPage
      <3>2. CASE satp # Bare
        BY <2>1, <2>4, <3>2, EditedLeaf DEF CpuInv, FetchOk, WalkPage, Permits, IsLeaf
      <3> QED
        BY <3>1, <3>2
    <2>5. ASSUME ~block'.edited PROVE FetchOk(block.v, block.pa)'
      <3>1. PICK v \in Pages : v = block.v
        BY <2>3
      <3>2. PICK pa : pa = block.pa
        OBVIOUS
      <3>3. FetchOk(v, pa)
        BY <2>1, <2>3, <2>5, <3>1, <3>2 DEF FetchInv
      <3>4. FetchOk(v, pa)'
        BY <2>3, <2>4, <2>5, <3>1, <3>3
      <3> QED
        BY <2>3, <3>1, <3>2, <3>4
    <2> QED
      BY <2>3, <2>5 DEF FetchInv
  <1>4. ASSUME NEW val \in SstatusValues, CsrSstatus(val) PROVE FetchInv'
    BY <1>4, KeptFetch DEF CsrSstatus
  <1>5. ASSUME NEW root \in Tables \cup {Bare}, CsrSatp(root) PROVE FetchInv'
    BY <1>5, NoFetch DEF CsrSatp
  <1>6. ASSUME NEW e \in SUBSET Irqs, NEW p \in SUBSET Irqs, CsrInterrupts(e, p)
        PROVE  FetchInv'
    BY <1>6, KeptFetch DEF CsrInterrupts
  <1>7. ASSUME NEW irq \in Irqs, SetMip(irq) \/ ResetMip(irq) PROVE FetchInv'
    BY <1>7, KeptFetch DEF SetMip, ResetMip
  <1>8. ASSUME EndBlock \/ RaiseInterrupt \/ Illegal \/ SfenceVma \/ Sret \/ Ecall
        PROVE  FetchInv'
    BY <1>8, NoFetch DEF EndBlock, RaiseInterrupt, Illegal, SfenceVma, Sret, Ecall,
                         Exception, Trap
  <1>9. ASSUME Wfi PROVE FetchInv'
    BY <1>9, NoFetch, KeptFetch DEF Wfi
  <1>10. ASSUME UNCHANGED cpuVars PROVE FetchInv'
    BY <1>10, KeptFetch DEF cpuVars
  <1> QED
    BY <1>1, <1>2, <1>3, <1>4, <1>5, <1>6, <1>7, <1>8, <1>9, <1>10
    DEF Next, TargetReadSlow, TargetWriteSlow

\* Whatever the guest does with its tables, its privilege and its registers,
\* a TLB entry that no unfenced store has outdated is what a walk would give.
THEOREM TlbsCoherent == Spec => []TlbCoherent
  <1>1. CpuInv => TlbCoherent
    BY DEF CpuInv
  <1> QED
    BY <1>1, CpuInitial, CpuStep, CpuAssumption, PTL DEF Spec

\* The hart never enters M mode: every exception and interrupt that can arise
\* is delegated, and sret never returns there.
THEOREM MachineModeUnreachable == Spec => []NeverMachine
  <1>1. CpuInv => NeverMachine
    BY DEF CpuInv
  <1> QED
    BY <1>1, CpuInitial, CpuStep, CpuAssumption, PTL DEF Spec

\* The dispatch loop keeps its cached code pointer over stores to page tables,
\* writes to sstatus and interrupts that become pending, and still reads the
\* page that a walk gives, unless that walk itself was edited.
THEOREM BlockIsCurrent == Spec => []FetchCoherent
  <1>1. CpuAssumption /\ Init => CpuInv /\ FetchInv
    BY CpuInitial, NoFetch DEF Init, FetchInv
  <1>2. CpuAssumption /\ CpuInv /\ FetchInv /\ [Next]_cpuVars => (CpuInv /\ FetchInv)'
    BY CpuStep, FetchStep
  <1>3. FetchInv => FetchCoherent
    BY DEF FetchInv, FetchOk, FetchCoherent
  <1> QED
    BY <1>1, <1>2, <1>3, CpuAssumption, PTL DEF Spec
-----------------------------------------------------------------------------
(* Machine.                                                                *)

HartType == [mip : SUBSET {SSIP, STIP, SEIP}, mie : SUBSET {SSIP, STIP, SEIP},
             sie : BOOLEAN, asleep : BOOLEAN]
PlicType == [pending : SUBSET {UartIrq, NetIrq}, served : SUBSET {UartIrq, NetIrq}]

LoopType == [at : {"timer", "poll", "net", "run", "out"}, ran : BOOLEAN]
UartType == [rdi : BOOLEAN, thri : BOOLEAN, rx : Seq(Nat), dropped : Nat]
InputType == [ring : Seq(Nat), tel : Seq(Nat)]
TypedType == [uart : Nat, tel : Nat, lost : SUBSET Nat]
KernelType == [at : {"work", "idle", "woken", "dead", "ipi", "timer", "ext"},
               irq : {0, UartIrq, NetIrq}, arms : Nat, tosend : Nat, other : Nat]
ClockType == [real : Nat, last : 0 .. CycMod - 1, total : Nat]
TakenType == [uart : Seq(Nat), sbi : Seq(Nat)]

Types ==
    /\ loop \in LoopType /\ stop \in 0 .. 2
    /\ hart \in HartType /\ timecmp \in {Never} \cup Nat /\ plic \in PlicType
    /\ uart \in UartType /\ kernel \in KernelType
    /\ input \in InputType /\ Len(input.ring) <= PlatRing
    /\ typed \in TypedType /\ taken \in TakenType
    /\ clock \in ClockType /\ due \in Int

\* The lines: the 8250 drives its line, the PLIC drives SEIP, and what it holds
\* back is exactly the source that the kernel serves.
Lines ==
    /\ UartIrq \in plic.pending <=> UartActive(uart)
    /\ SEIP \in hart.mip <=> plic.pending \ plic.served # {}
    /\ plic.served = IF kernel.irq = 0 THEN {} ELSE {kernel.irq}
    /\ kernel.irq # 0 => kernel.at = "ext"

Asleep ==
    /\ {SSIP, SEIP} \subseteq hart.mie
    /\ hart.asleep => kernel.at = "woken" /\ hart.mip \cap hart.mie = {}

\* How far the guest's clock is behind, in cycles: it never catches up.
Behind == clock.real - (clock.total + Elapsed)

Timing ==
    /\ Behind >= 0
    /\ timecmp # Never => due <= timecmp * CycPerUs + Behind
    /\ STIP \in hart.mip => clock.real >= due

MachineInv == Types /\ Lines /\ Asleep /\ Timing
-----------------------------------------------------------------------------
(* The lines and the sleep.                                                *)

\* plic_update() sets the level of SEIP, wakes the hart when it raises it, and
\* touches nothing else.
LEMMA PlicLevel ==
    ASSUME NEW h \in HartType, NEW p \in PlicType, SEIP \in h.mie,
           h.asleep => h.mip \cap h.mie = {}
    PROVE  /\ PlicUpdate(h, p) \in HartType
           /\ PlicUpdate(h, p).mie = h.mie /\ PlicUpdate(h, p).sie = h.sie
           /\ SEIP \in PlicUpdate(h, p).mip <=> p.pending \ p.served # {}
           /\ \A i \in {SSIP, STIP} : i \in PlicUpdate(h, p).mip <=> i \in h.mip
           /\ PlicUpdate(h, p).asleep =>
                 h.asleep /\ PlicUpdate(h, p).mip \cap PlicUpdate(h, p).mie = {}
  <1> DEFINE up == p.pending \ p.served # {}
             m == IF up THEN h.mip \cup {SEIP} ELSE h.mip \ {SEIP}
             a == h.asleep /\ (up => m \cap h.mie = {})
  <1>1. PlicUpdate(h, p) = [h EXCEPT !.mip = m, !.asleep = a]
    BY DEF PlicUpdate, CpuSetMip, CpuResetMip, HartType
  <1>2. m \in SUBSET {SSIP, STIP, SEIP} /\ a \in BOOLEAN
    BY DEF HartType
  <1>3. a => h.asleep /\ m \cap h.mie = {}
    OBVIOUS
  <1>4. (SEIP \in m <=> up) /\ \A i \in {SSIP, STIP} : i \in m <=> i \in h.mip
    BY DEF SSIP, STIP, SEIP
  <1> HIDE DEF m, a
  <1>5. /\ PlicUpdate(h, p).mip = m /\ PlicUpdate(h, p).asleep = a
        /\ PlicUpdate(h, p).mie = h.mie /\ PlicUpdate(h, p).sie = h.sie
        /\ PlicUpdate(h, p) \in HartType
    BY <1>1, <1>2 DEF HartType
  <1> QED
    BY <1>3, <1>4, <1>5

\* A level that a device gives its line.
LEMMA LineLevel ==
    ASSUME NEW p \in PlicType, NEW irq \in {UartIrq, NetIrq}, NEW level \in BOOLEAN
    PROVE  /\ Line(p, irq, level) \in PlicType
           /\ Line(p, irq, level).served = p.served
           /\ irq \in Line(p, irq, level).pending <=> level
           /\ \A i \in {UartIrq, NetIrq} \ {irq} :
                 i \in Line(p, irq, level).pending <=> i \in p.pending
  BY DEF Line, PlicType

\* Raising an interrupt wakes the hart when it is enabled.
LEMMA Raised ==
    ASSUME NEW h \in HartType, NEW irq \in {SSIP, STIP, SEIP},
           h.asleep => h.mip \cap h.mie = {}
    PROVE  /\ CpuSetMip(h, irq) \in HartType
           /\ CpuSetMip(h, irq).mip = h.mip \cup {irq}
           /\ CpuSetMip(h, irq).mie = h.mie /\ CpuSetMip(h, irq).sie = h.sie
           /\ CpuSetMip(h, irq).asleep =>
                 h.asleep /\ CpuSetMip(h, irq).mip \cap CpuSetMip(h, irq).mie = {}
  BY DEF CpuSetMip, HartType, SSIP, STIP, SEIP

\* What a call that ends in uart_update_irq() leaves behind.
LEMMA UartCall ==
    ASSUME Types, Lines, Asleep, SetUart(uart'),
           uart' \in UartType
    PROVE  /\ hart' \in HartType /\ plic' \in PlicType
           /\ plic'.served = plic.served
           /\ UartIrq \in plic'.pending <=> UartActive(uart')
           /\ NetIrq \in plic'.pending <=> NetIrq \in plic.pending
           /\ hart'.mie = hart.mie /\ hart'.sie = hart.sie
           /\ SEIP \in hart'.mip <=> plic'.pending \ plic'.served # {}
           /\ \A i \in {SSIP, STIP} : i \in hart'.mip <=> i \in hart.mip
           /\ hart'.asleep => hart.asleep /\ hart'.mip \cap hart'.mie = {}
  <1>1. hart \in HartType /\ plic \in PlicType
    BY DEF Types
  <1>2. UartActive(uart') \in BOOLEAN
    BY DEF UartActive, UartType
  <1>3. /\ plic' \in PlicType /\ plic'.served = plic.served
        /\ UartIrq \in plic'.pending <=> UartActive(uart')
        /\ NetIrq \in plic'.pending <=> NetIrq \in plic.pending
    <2>1. PICK on \in BOOLEAN : on = UartActive(uart')
      BY <1>2
    <2>2. plic' = Line(plic, UartIrq, on)
      BY <2>1 DEF SetUart, UartLevel
    <2>3. /\ Line(plic, UartIrq, on) \in PlicType
          /\ Line(plic, UartIrq, on).served = plic.served
          /\ UartIrq \in Line(plic, UartIrq, on).pending <=> on
          /\ NetIrq \in Line(plic, UartIrq, on).pending <=> NetIrq \in plic.pending
      BY <1>1, LineLevel DEF UartIrq, NetIrq
    <2> QED
      BY <2>1, <2>2, <2>3
  <1> QED
    BY <1>1, <1>3, PlicLevel DEF SetUart, Asleep

\* Steps after which the lines and the sleep are as before.
LEMMA LinesKept ==
    ASSUME Lines, Asleep, UNCHANGED <<hart, plic, uart, kernel>>
    PROVE  Lines' /\ Asleep'
  BY DEF Lines, Asleep, UartActive

\* A step that ends in uart_update_irq() and changes the kernel at most in what
\* it has to send.
LEMMA UartStep ==
    ASSUME Types, Lines, Asleep, SetUart(uart'),
           uart' \in UartType,
           kernel'.at = kernel.at, kernel'.irq = kernel.irq
    PROVE  Lines' /\ Asleep' /\ hart' \in HartType /\ plic' \in PlicType
  BY UartCall DEF Lines, Asleep

\* A step that ends in plic_update(), by another device or by the kernel.
LEMMA PlicStep ==
    ASSUME Lines, Asleep, hart \in HartType, plic' \in PlicType,
           hart' = PlicUpdate(hart, plic'), UNCHANGED uart,
           UartIrq \in plic'.pending <=> UartIrq \in plic.pending,
           plic'.served = IF kernel'.irq = 0 THEN {} ELSE {kernel'.irq},
           kernel'.irq # 0 => kernel'.at = "ext",
           hart.asleep => kernel'.at = "woken"
    PROVE  Lines' /\ Asleep'
  <1>1. /\ hart'.mie = hart.mie
        /\ SEIP \in hart'.mip <=> plic'.pending \ plic'.served # {}
        /\ hart'.asleep => hart.asleep /\ hart'.mip \cap hart'.mie = {}
    BY PlicLevel DEF Asleep
  <1>2. UartActive(uart)' <=> UartActive(uart)
    BY DEF UartActive
  <1>3. Lines'
    BY <1>1, <1>2 DEF Lines
  <1> QED
    BY <1>1, <1>3 DEF Asleep

\* A step of the hart that does not reach the devices.
LEMMA HartStep ==
    ASSUME Lines, Asleep, UNCHANGED <<plic, uart>>, kernel'.irq = kernel.irq,
           kernel'.irq # 0 => kernel'.at = "ext",
           SEIP \in hart'.mip <=> SEIP \in hart.mip, {SSIP, SEIP} \subseteq hart'.mie,
           hart'.asleep => kernel'.at = "woken" /\ hart'.mip \cap hart'.mie = {}
    PROVE  Lines' /\ Asleep'
  BY DEF Lines, Asleep, UartActive

LEMMA LinesStep ==
    ASSUME MachineAssumption, Types, Lines, Asleep, Types', [MachineNext]_vars
    PROVE  Lines' /\ Asleep'
  <1> USE DEF devVars, inVars
  <1>0. hart \in HartType /\ plic \in PlicType
    BY DEF Types
  <1>1. ASSUME TimerUpdate PROVE Lines' /\ Asleep'
    <2>1. CASE UNCHANGED hart
      BY <1>1, <2>1, LinesKept DEF TimerUpdate
    <2>2. CASE hart' = CpuSetMip(hart, STIP)
      <3>1. UNCHANGED <<plic, uart, kernel>>
        BY <1>1 DEF TimerUpdate
      <3>2. /\ hart'.mip = hart.mip \cup {STIP} /\ hart'.mie = hart.mie
            /\ hart'.asleep => hart.asleep /\ hart'.mip \cap hart'.mie = {}
        BY <1>0, <2>2, Raised DEF Asleep
      <3> QED
        BY <3>1, <3>2, HartStep DEF Lines, Asleep, STIP, SEIP
    <2> QED
      BY <1>1, <2>1, <2>2 DEF TimerUpdate
  <1>2. ASSUME PollInput PROVE Lines' /\ Asleep'
    <2>1. CASE ~(HasRoom /\ HasInput)
      BY <1>2, <2>1, LinesKept DEF PollInput
    <2>2. CASE HasRoom /\ HasInput
      <3>1. PushRx(NextByte) /\ UNCHANGED kernel
        BY <1>2, <2>2 DEF PollInput
      <3>2. ~(Len(uart.rx) >= RxRing - 1)
        <4>1. RxRing \in Nat /\ Len(uart.rx) \in Nat
          BY DEF Types, UartType, MachineAssumption
        <4> QED
          BY <2>2, <4>1 DEF HasRoom
      <3>3. SetUart(uart')
        BY <3>1, <3>2 DEF PushRx, SetUart
      <3> QED
        BY <3>1, <3>3, UartStep DEF Types
    <2> QED
      BY <2>1, <2>2
  <1>3. ASSUME NEW f \in BOOLEAN, NetPoll(f) PROVE Lines' /\ Asleep'
    <2>1. UNCHANGED uart /\ kernel'.at = kernel.at /\ kernel'.irq = kernel.irq
      BY <1>3 DEF NetPoll, Types, KernelType
    <2>2. CASE ~f
      BY <1>3, <2>1, <2>2 DEF NetPoll, Lines, Asleep, UartActive
    <2>3. CASE f
      <3>1. plic' = Line(plic, NetIrq, TRUE) /\ hart' = PlicUpdate(hart, plic')
        BY <1>3, <2>3 DEF NetPoll
      <3>2. /\ plic' \in PlicType /\ plic'.served = plic.served
            /\ UartIrq \in plic'.pending <=> UartIrq \in plic.pending
        BY <1>0, <3>1 DEF Line, PlicType, UartIrq, NetIrq
      <3> QED
        BY <1>0, <2>1, <3>1, <3>2, PlicStep DEF Lines, Asleep
    <2> QED
      BY <2>2, <2>3
  <1>4. ASSUME NEW n \in 0 .. MaxSlice, SliceEnd(n) PROVE Lines' /\ Asleep'
    BY <1>4, LinesKept DEF SliceEnd
  <1>5. ASSUME NEW d \in Delays, SbiSetTimer(d) PROVE Lines' /\ Asleep'
    <2>1. /\ hart' = [hart EXCEPT !.mie = @ \cup {STIP}, !.mip = @ \ {STIP}]
          /\ kernel' = [kernel EXCEPT !.arms = @ + 1, !.at = "work"]
          /\ kernel.at = "work" /\ ~hart.asleep /\ UNCHANGED <<plic, uart>>
      BY <1>0, <1>5 DEF SbiSetTimer, Guest, Arm, SetTimer, CpuResetMip, HartType
    <2> QED
      <3>1. /\ hart'.mip = hart.mip \ {STIP} /\ hart'.mie = hart.mie \cup {STIP}
            /\ ~hart'.asleep /\ kernel'.irq = kernel.irq
        BY <1>0, <2>1 DEF HartType, Types, KernelType
      <3>2. SEIP \in hart'.mip <=> SEIP \in hart.mip
        BY <3>1 DEF SEIP, STIP
      <3> QED
        BY <2>1, <3>1, <3>2, HartStep DEF Lines, Asleep
  <1>6. ASSUME SbiSendIpi PROVE Lines' /\ Asleep'
    <2>1. /\ UNCHANGED <<plic, uart>> /\ kernel'.at = kernel.at /\ kernel'.irq = kernel.irq
          /\ ~hart.asleep /\ hart' = CpuSetMip(hart, SSIP)
      BY <1>6 DEF SbiSendIpi, Guest, Types, KernelType
    <2>2. hart'.mip = hart.mip \cup {SSIP} /\ hart'.mie = hart.mie /\ ~hart'.asleep
      BY <1>0, <2>1, Raised
    <2> QED
      BY <2>1, <2>2, HartStep DEF Lines, Asleep, SSIP, SEIP
  <1>7. ASSUME NEW type, SystemReset(type) PROVE Lines' /\ Asleep'
    BY <1>7 DEF SystemReset, Guest, Types, KernelType, Lines, Asleep, UartActive
  <1>8. ASSUME NEW base, NEW len, SbiConsoleRead(base, len) PROVE Lines' /\ Asleep'
    BY <1>8 DEF SbiConsoleRead, Guest, Types, KernelType, Lines, Asleep, UartActive
  <1>9. ASSUME SbiGetchar PROVE Lines' /\ Asleep'
    BY <1>9 DEF SbiGetchar, Guest, Types, KernelType, Lines, Asleep, UartActive
  <1>10. ASSUME OpenConsole PROVE Lines' /\ Asleep'
    BY <1>10, UartStep DEF OpenConsole, SetUart, Types
  <1>11. ASSUME StartTx PROVE Lines' /\ Asleep'
    BY <1>11, UartStep DEF StartTx, SetUart, Types
  <1>12. ASSUME GoIdle \/ KernelWfi \/ Woken PROVE Lines' /\ Asleep'
    <2>1. /\ UNCHANGED <<plic, uart>> /\ kernel.at # "ext" /\ kernel'.irq = kernel.irq
          /\ hart'.mip = hart.mip /\ hart'.mie = hart.mie
          /\ hart'.asleep => kernel'.at = "woken" /\ hart.mip \cap hart.mie = {}
      BY <1>0, <1>12 DEF GoIdle, KernelWfi, CanSleep, Woken, Guest, Types, KernelType, HartType
    <2> QED
      BY <2>1, HartStep DEF Lines, Asleep
  <1>13. ASSUME NEW irq \in {SSIP, STIP, SEIP}, TakeInterrupt(irq) PROVE Lines' /\ Asleep'
    <2>1. /\ UNCHANGED <<plic, uart>> /\ kernel.at # "ext" /\ kernel'.irq = kernel.irq
          /\ hart'.mip = hart.mip /\ hart'.mie = hart.mie /\ ~hart'.asleep
      BY <1>0, <1>13 DEF TakeInterrupt, Guest, Types, KernelType, HartType
    <2> QED
      BY <2>1, HartStep DEF Lines, Asleep
  <1>14. ASSUME SoftIrq \/ TimerIrq PROVE Lines' /\ Asleep'
    <2>1. /\ UNCHANGED <<plic, uart>> /\ kernel.at # "ext" /\ kernel'.irq = kernel.irq
          /\ ~hart'.asleep
      <3>1. /\ UNCHANGED <<plic, uart>> /\ kernel.at # "ext" /\ ~hart.asleep
            /\ kernel' = [kernel EXCEPT !.at = "work"]
        BY <1>14 DEF SoftIrq, TimerIrq, Guest
      <3>2. kernel'.irq = kernel.irq
        BY <3>1 DEF Types, KernelType
      <3>3. ~hart'.asleep
        BY <1>0, <1>14, <3>1 DEF SoftIrq, TimerIrq, CpuResetMip, HartType
      <3> QED
        BY <3>1, <3>2, <3>3
    <2>2. /\ SEIP \in hart'.mip <=> SEIP \in hart.mip
          /\ {SSIP, SEIP} \subseteq hart'.mie
      <3>1. \/ hart'.mip = hart.mip \ {SSIP} /\ hart'.mie = hart.mie
            \/ hart'.mip = hart.mip /\ hart'.mie = hart.mie \ {STIP}
        BY <1>0, <1>14 DEF SoftIrq, TimerIrq, CpuResetMip, HartType
      <3> QED
        BY <3>1 DEF Asleep, SSIP, STIP, SEIP
    <2> QED
      BY <2>1, <2>2, HartStep DEF Lines
  <1>15. ASSUME Claim PROVE Lines' /\ Asleep'
    <2>1. CASE Claimed = 0
      <3>1. /\ UNCHANGED <<plic, uart>> /\ kernel'.irq = kernel.irq /\ kernel.irq = 0
            /\ hart'.mip = hart.mip /\ hart'.mie = hart.mie /\ ~hart'.asleep
        <4>1. /\ hart' = [hart EXCEPT !.sie = TRUE] /\ kernel' = [kernel EXCEPT !.at = "work"]
              /\ UNCHANGED <<plic, uart>> /\ kernel.irq = 0 /\ ~hart.asleep
          BY <1>15, <2>1 DEF Claim, Guest
        <4> QED
          BY <1>0, <4>1 DEF Types, KernelType, HartType
      <3> QED
        BY <3>1, HartStep DEF Lines, Asleep
    <2>2. CASE Claimed # 0
      <3>1. /\ plic' = [plic EXCEPT !.served = @ \cup {Claimed}]
            /\ hart' = PlicUpdate(hart, plic') /\ ~hart.asleep
            /\ kernel' = [kernel EXCEPT !.irq = Claimed]
            /\ kernel.irq = 0 /\ kernel.at = "ext" /\ UNCHANGED uart
        BY <1>15, <2>2 DEF Claim, Guest
      <3>2. kernel'.irq = Claimed /\ kernel'.at = "ext"
        BY <3>1 DEF Types, KernelType
      <3>3. /\ plic' \in PlicType /\ plic'.pending = plic.pending
            /\ plic'.served = {Claimed}
        <4>1. plic' \in PlicType
          BY DEF Types
        <4> QED
          BY <1>0, <3>1, <4>1 DEF Lines, PlicType
      <3> QED
        BY <1>0, <2>2, <3>1, <3>2, <3>3, PlicStep
    <2> QED
      BY <2>1, <2>2
  <1>16. ASSUME UartReceive PROVE Lines' /\ Asleep'
    BY <1>16, UartStep DEF UartReceive, SetUart, Types
  <1>17. ASSUME UartTransmit PROVE Lines' /\ Asleep'
    <2>1. SetUart(uart') /\ uart' \in UartType
      BY <1>17 DEF UartTransmit, SetUart, Types
    <2>2. kernel'.at = kernel.at /\ kernel'.irq = kernel.irq
      BY <1>17 DEF UartTransmit, Types, KernelType
    <2> QED
      BY <2>1, <2>2, UartStep
  <1>18. ASSUME NetServe PROVE Lines' /\ Asleep'
    <2>1. /\ plic' = Line(plic, NetIrq, FALSE) /\ hart' = PlicUpdate(hart, plic')
          /\ UNCHANGED <<uart, kernel>> /\ ~hart.asleep
      BY <1>18 DEF NetServe, Serving, Guest
    <2>2. /\ plic' \in PlicType /\ plic'.served = plic.served
          /\ UartIrq \in plic'.pending <=> UartIrq \in plic.pending
      BY <1>0, <2>1 DEF Line, PlicType, UartIrq, NetIrq
    <2> QED
      BY <1>0, <2>1, <2>2, PlicStep DEF Lines
  <1>19. ASSUME Complete PROVE Lines' /\ Asleep'
    <2>1. PICK irq \in {UartIrq, NetIrq} : Serving(irq) /\ plic' = Completed(irq)
      BY <1>19 DEF Complete
    <2>2. /\ hart' = PlicUpdate(hart, plic') /\ ~hart.asleep /\ kernel.irq = irq
          /\ kernel' = [kernel EXCEPT !.irq = 0] /\ UNCHANGED uart
      BY <1>19, <2>1 DEF Complete, Serving, Guest
    <2>3. kernel'.irq = 0 /\ kernel'.at = kernel.at
      BY <2>2 DEF Types, KernelType
    <2>4. plic' \in PlicType /\ plic'.pending = plic.pending /\ plic'.served = {}
      BY <1>0, <2>1, <2>2 DEF Completed, PlicType, Lines, UartIrq, NetIrq
    <2> QED
      BY <1>0, <2>2, <2>3, <2>4, PlicStep
  <1>20. ASSUME World PROVE Lines' /\ Asleep'
    BY <1>20, LinesKept DEF World, UartRxIsr, TelnetByte
  <1>21. ASSUME UNCHANGED vars PROVE Lines' /\ Asleep'
    BY <1>21, LinesKept DEF vars
  <1> QED
    BY <1>1, <1>2, <1>3, <1>4, <1>5, <1>6, <1>7, <1>8, <1>9, <1>10, <1>11, <1>12,
       <1>13, <1>14, <1>15, <1>16, <1>17, <1>18, <1>19, <1>20, <1>21
    DEF MachineNext, Devices, Sbi, Kernel, Stopped

-----------------------------------------------------------------------------
(* Types.                                                                  *)

LEMMA ModUnique ==
    ASSUME NEW m \in Nat \ {0}, NEW q \in Int, NEW r \in 0 .. m - 1
    PROVE  (m * q + r) % m = r
  OBVIOUS

LEMMA ModDrop ==
    ASSUME NEW x \in Nat, NEW m \in Nat \ {0}
    PROVE  (x - (x % m)) % m = 0
  <1>1. x \div m \in Int /\ x - (x % m) = m * (x \div m) + 0
    OBVIOUS
  <1>2. (m * (x \div m) + 0) % m = 0
    BY <1>1, ModUnique
  <1> QED
    BY <1>1, <1>2

LEMMA NatSum == ASSUME NEW a \in Nat, NEW b \in Nat PROVE a + b \in Nat /\ a + 1 \in Nat
  OBVIOUS

\* Reading the clock brings it as close to the real time as it will ever be.
LEMMA ClockRead ==
    ASSUME MachineAssumption, clock \in ClockType
    PROVE  /\ Elapsed \in Nat /\ Now \in Nat /\ ReadClock \in ClockType
           /\ ReadClock.real = clock.real /\ ReadClock.total = clock.total + Elapsed
           /\ (clock.real - ReadClock.last) % CycMod = 0
  <1>1. CycMod \in Nat \ {0} /\ CycPerUs \in Nat \ {0}
    BY DEF MachineAssumption
  <1>2. clock.real \in Nat /\ clock.last \in Nat /\ clock.total \in Nat
    BY <1>1 DEF ClockType
  <1>3. Elapsed \in Nat
    BY <1>1, <1>2 DEF Elapsed
  <1>4. Now \in Nat
    BY <1>1, <1>2, <1>3 DEF Now
  <1>5. clock.real % CycMod \in 0 .. CycMod - 1
    BY <1>1, <1>2
  <1>6. (clock.real - (clock.real % CycMod)) % CycMod = 0
    BY <1>1, <1>2, ModDrop
  <1>7. /\ ReadClock.real = clock.real /\ ReadClock.total = clock.total + Elapsed
        /\ ReadClock.last = clock.real % CycMod
        /\ ReadClock \in ClockType
    <2>1. PICK t \in Nat : t = clock.total + Elapsed
      BY <1>2, <1>3
    <2>2. PICK l \in 0 .. CycMod - 1 : l = clock.real % CycMod
      BY <1>5
    <2>3. ReadClock = [clock EXCEPT !.total = t, !.last = l]
      BY <2>1, <2>2 DEF ReadClock
    <2>4. /\ [clock EXCEPT !.total = t, !.last = l] \in ClockType
          /\ [clock EXCEPT !.total = t, !.last = l].real = clock.real
          /\ [clock EXCEPT !.total = t, !.last = l].total = t
          /\ [clock EXCEPT !.total = t, !.last = l].last = l
      BY DEF ClockType
    <2> QED
      BY <2>1, <2>2, <2>3, <2>4
  <1> QED
    BY <1>3, <1>4, <1>6, <1>7

\* The next byte of input, and what is left.
LEMMA InputRest ==
    ASSUME input \in InputType, HasInput
    PROVE  /\ NextByte \in Nat /\ RestOfInput \in InputType
           /\ Len(RestOfInput.ring) <= Len(input.ring)
  <1>0. input.tel \in Seq(Nat) /\ input.ring \in Seq(Nat)
    BY DEF InputType
  <1>1. CASE input.tel # <<>>
    <2>1. Head(input.tel) \in Nat /\ Tail(input.tel) \in Seq(Nat)
      BY <1>0, <1>1
    <2>2. RestOfInput \in InputType /\ RestOfInput.ring = input.ring
      BY <1>1, <2>1 DEF RestOfInput, InputType
    <2>3. Len(input.ring) \in Nat
      BY <1>0
    <2> QED
      BY <1>1, <2>1, <2>2, <2>3 DEF NextByte
  <1>2. CASE input.tel = <<>>
    <2>0. input.ring # <<>>
      BY <1>2 DEF HasInput
    <2>1. /\ Head(input.ring) \in Nat /\ Tail(input.ring) \in Seq(Nat)
          /\ Len(Tail(input.ring)) <= Len(input.ring)
      BY <1>0, <2>0
    <2>2. RestOfInput \in InputType /\ RestOfInput.ring = Tail(input.ring)
      BY <1>2, <2>1 DEF RestOfInput, InputType
    <2> QED
      BY <1>2, <2>1, <2>2 DEF NextByte
  <1> QED
    BY <1>1, <1>2

\* The kernel's counters stay counters.
LEMMA KernelForms ==
    ASSUME kernel \in KernelType, NEW m \in Nat, NEW n \in Nat,
           NEW at \in {"work", "idle", "woken", "dead", "ipi", "timer", "ext"},
           NEW irq \in {0, UartIrq, NetIrq}
    PROVE  /\ [kernel EXCEPT !.other = m] \in KernelType
           /\ [kernel EXCEPT !.tosend = m] \in KernelType
           /\ [kernel EXCEPT !.tosend = m, !.other = n] \in KernelType
           /\ [kernel EXCEPT !.arms = m, !.at = at] \in KernelType
           /\ [kernel EXCEPT !.at = at] \in KernelType
           /\ [kernel EXCEPT !.irq = irq] \in KernelType
  BY DEF KernelType

LEMMA KernelCounts ==
    ASSUME kernel \in KernelType
    PROVE  /\ kernel.other \in Nat /\ kernel.arms \in Nat /\ kernel.tosend \in Nat
           /\ kernel.other + 1 \in Nat /\ kernel.arms + 1 \in Nat
           /\ kernel.tosend + 1 \in Nat
           /\ kernel.tosend > 0 => kernel.tosend - 1 \in Nat
  BY DEF KernelType

LEMMA KernelStep ==
    ASSUME Types, Lines, plic \in PlicType, kernel \in KernelType, [MachineNext]_vars
    PROVE  kernel' \in KernelType
  <1>1. ASSUME NEW at \in {"work", "idle", "woken", "dead", "ipi", "timer", "ext"},
               kernel' = [kernel EXCEPT !.at = at]
        PROVE  kernel' \in KernelType
    BY <1>1, KernelForms
  <1>2. ASSUME NEW m \in Nat, kernel' = [kernel EXCEPT !.other = m] PROVE kernel' \in KernelType
    BY <1>2, KernelForms
  <1>3. ASSUME Devices PROVE kernel' \in KernelType
    <2>1. \/ kernel' = kernel
          \/ \E m \in Nat : kernel' = [kernel EXCEPT !.other = m]
      BY <1>3, KernelCounts DEF Devices, TimerUpdate, PollInput, NetPoll, SliceEnd
    <2> QED
      BY <1>2, <2>1
  <1>4. ASSUME Sbi PROVE kernel' \in KernelType
    <2>1. CASE \E d \in Delays : SbiSetTimer(d)
      <3>1. kernel' = [kernel EXCEPT !.arms = kernel.arms + 1, !.at = "work"]
        BY <2>1 DEF SbiSetTimer, Arm
      <3> QED
        BY <3>1, KernelForms, KernelCounts
    <2>2. CASE \E type \in ResetTypes : SystemReset(type)
      BY <1>1, <2>2 DEF SystemReset
    <2>3. CASE \/ SbiSendIpi \/ SbiGetchar
               \/ \E base \in Buffers, len \in {1, 2, RamSize, AddrMod - 1} : SbiConsoleRead(base, len)
      <3>1. kernel' = [kernel EXCEPT !.other = kernel.other + 1]
        BY <2>3 DEF SbiSendIpi, SbiConsoleRead, SbiGetchar
      <3> QED
        BY <1>2, <3>1, KernelCounts
    <2> QED
      BY <1>4, <2>1, <2>2, <2>3 DEF Sbi
  <1>5. ASSUME Kernel PROVE kernel' \in KernelType
    <2>1. CASE OpenConsole \/ UartReceive \/ NetServe
      BY <2>1 DEF OpenConsole, UartReceive, NetServe
    <2>2. CASE StartTx
      <3>1. kernel' = [kernel EXCEPT !.tosend = kernel.tosend + 1, !.other = kernel.other + 1]
        BY <2>2 DEF StartTx
      <3> QED
        BY <3>1, KernelForms, KernelCounts
    <2>3. CASE \/ GoIdle \/ KernelWfi \/ Woken \/ SoftIrq \/ TimerIrq
               \/ \E irq \in {SSIP, STIP, SEIP} : TakeInterrupt(irq)
      BY <1>1, <2>3 DEF GoIdle, KernelWfi, Woken, SoftIrq, TimerIrq, TakeInterrupt
    <2>4. CASE Claim
      <3>1. CASE Claimed = 0
        BY <1>1, <2>4, <3>1 DEF Claim
      <3>2. CASE Claimed # 0
        <4>1. Claimable \subseteq {UartIrq, NetIrq} /\ Claimable # {}
          BY <3>2 DEF Claimable, Claimed, PlicType
        <4>2. \E i \in Claimable : \A j \in Claimable : i <= j
          <5>1. CASE UartIrq \in Claimable
            <6>1. \A j \in Claimable : UartIrq <= j
              BY <4>1 DEF UartIrq, NetIrq
            <6> QED
              BY <5>1, <6>1
          <5>2. CASE UartIrq \notin Claimable
            <6>1. Claimable = {NetIrq} /\ NetIrq <= NetIrq
              BY <4>1, <5>2 DEF NetIrq
            <6> QED
              BY <6>1
          <5> QED
            BY <5>1, <5>2
        <4>3. Claimed \in {UartIrq, NetIrq}
          BY <4>1, <4>2 DEF Claimed
        <4> QED
          BY <2>4, <3>2, <4>3, KernelForms DEF Claim
      <3> QED
        BY <3>1, <3>2
    <2>5. CASE UartTransmit
      <3>1. \/ kernel.tosend > 0 /\ kernel' = [kernel EXCEPT !.tosend = kernel.tosend - 1]
            \/ kernel' = kernel
        BY <2>5 DEF UartTransmit
      <3> QED
        BY <3>1, KernelForms, KernelCounts
    <2>6. CASE Complete
      BY <2>6, KernelForms DEF Complete
    <2> QED
      BY <1>5, <2>1, <2>2, <2>3, <2>4, <2>5, <2>6 DEF Kernel
  <1>6. ASSUME World \/ UNCHANGED vars PROVE kernel' \in KernelType
    BY <1>6 DEF World, UartRxIsr, TelnetByte, vars
  <1> QED
    BY <1>3, <1>4, <1>5, <1>6 DEF MachineNext, Stopped

\* Sequences of bytes.
LEMMA ByteSeq ==
    ASSUME NEW s \in Seq(Nat), NEW t \in Seq(Nat), NEW c \in Nat
    PROVE  /\ Len(s) \in Nat /\ Append(s, c) \in Seq(Nat) /\ s \o t \in Seq(Nat)
           /\ Len(s \o t) = Len(s) + Len(t)
           /\ s # <<>> => Head(s) \in Nat /\ Tail(s) \in Seq(Nat)
  OBVIOUS

LEMMA ByteSplit ==
    ASSUME NEW s \in Seq(Nat), NEW n \in 0 .. Len(s)
    PROVE  /\ SubSeq(s, 1, n) \in Seq(Nat) /\ SubSeq(s, n + 1, Len(s)) \in Seq(Nat)
           /\ Len(SubSeq(s, n + 1, Len(s))) = Len(s) - n
  OBVIOUS

LEMMA Arrivals ==
    ASSUME NEW first \in Nat, NEW n \in Nat
    PROVE  /\ [i \in 1 .. n |-> first + i] \in Seq(Nat)
           /\ Len([i \in 1 .. n |-> first + i]) = n
  OBVIOUS

\* What is taken out of a sequence makes it no longer.
LEMMA Shortened ==
    \A a, b, c \in Nat : \A d \in 0 .. b : b <= c /\ a = b - d => a <= c
  OBVIOUS

\* A read of len bytes takes the telnet client's first.
LEMMA Split ==
    ASSUME NEW len \in Nat, NEW a \in Nat, NEW b \in Nat, NEW c, c = a + b,
           NEW n, n = IF len < c THEN len ELSE c, NEW k, k = IF n < a THEN n ELSE a
    PROVE  n \in 0 .. c /\ k \in 0 .. a /\ n - k \in 0 .. b
  OBVIOUS

\* The receive ring, the input rings and the readers' bytes.
LEMMA BytesStep ==
    ASSUME MachineAssumption, uart \in UartType, input \in InputType, typed \in TypedType,
           taken \in TakenType, Len(input.ring) <= PlatRing, [MachineNext]_vars
    PROVE  /\ uart' \in UartType /\ input' \in InputType /\ typed' \in TypedType
           /\ taken' \in TakenType /\ Len(input'.ring) <= PlatRing
  <1> USE DEF devVars, inVars
  <1> DEFINE B == /\ uart \in UartType /\ input \in InputType /\ typed \in TypedType
                  /\ taken \in TakenType /\ Len(input.ring) <= PlatRing
  <1> SUFFICES B'
    OBVIOUS
  <1>0. B
    OBVIOUS
  <1>r. /\ input.ring \in Seq(Nat) /\ input.tel \in Seq(Nat) /\ uart.rx \in Seq(Nat)
        /\ taken.uart \in Seq(Nat) /\ taken.sbi \in Seq(Nat)
        /\ typed.uart \in Nat /\ typed.tel \in Nat /\ PlatRing \in Nat
    BY DEF UartType, InputType, TakenType, TypedType, MachineAssumption
  <1>l. Len(input.ring) \in Nat /\ Len(input.tel) \in Nat
    BY <1>r, ByteSeq
  <1>s. ASSUME HasInput, input' = RestOfInput
        PROVE  input' \in InputType /\ Len(input'.ring) <= PlatRing /\ NextByte \in Nat
    <2>1. /\ NextByte \in Nat /\ input' \in InputType
          /\ Len(input'.ring) <= Len(input.ring)
      BY <1>s, InputRest
    <2>2. Len(input'.ring) \in Nat
      BY <2>1, ByteSeq DEF InputType
    <2>3. \A a, b, c \in Nat : a <= b /\ b <= c => a <= c
      OBVIOUS
    <2> QED
      BY <1>0, <1>r, <1>l, <2>1, <2>2, <2>3
  <1>1. ASSUME UNCHANGED <<uart, input, typed, taken>> PROVE B'
    BY <1>0, <1>1
  <1>2. ASSUME UNCHANGED <<input, typed, taken>>,
               \/ uart' = [uart EXCEPT !.rdi = TRUE]
               \/ uart' = [uart EXCEPT !.thri = TRUE]
               \/ uart' = [uart EXCEPT !.thri = FALSE]
               \/ uart' = uart
        PROVE  B'
    <2>1. uart' \in UartType
      BY <1>2 DEF UartType
    <2> QED
      BY <1>0, <1>2, <2>1
  <1>3. ASSUME PollInput PROVE B'
    <2>1. CASE ~(HasRoom /\ HasInput)
      BY <1>1, <1>3, <2>1 DEF PollInput
    <2>2. CASE HasRoom /\ HasInput
      <3>1. /\ PushRx(NextByte) /\ input' = RestOfInput /\ UNCHANGED <<typed, taken>>
        BY <1>3, <2>2 DEF PollInput
      <3>2. input' \in InputType /\ Len(input'.ring) <= PlatRing /\ NextByte \in Nat
        BY <1>s, <2>2, <3>1
      <3>3. Append(uart.rx, NextByte) \in Seq(Nat)
        BY <1>r, <3>2
      <3>4. PICK q \in Seq(Nat) : q = Append(uart.rx, NextByte)
        BY <3>3
      <3>5. PICK m \in Nat : m = uart.dropped + 1
        BY NatSum DEF UartType
      <3>6. \/ uart' = [uart EXCEPT !.rx = q] \/ uart' = [uart EXCEPT !.dropped = m]
        BY <3>1, <3>4, <3>5 DEF PushRx, SetUart
      <3>7. uart' \in UartType
        BY <3>6 DEF UartType
      <3> QED
        BY <1>0, <3>1, <3>2, <3>7
    <2> QED
      BY <2>1, <2>2
  <1>4. ASSUME UartReceive PROVE B'
    <2>1. uart.rx # <<>> /\ UNCHANGED <<input, typed>>
      BY <1>4 DEF UartReceive
    <2>2. PICK q \in Seq(Nat) : q = Tail(uart.rx)
      BY <1>r, <2>1, ByteSeq
    <2>3. PICK c \in Nat : c = Head(uart.rx)
      BY <1>r, <2>1, ByteSeq
    <2>4. PICK t \in Seq(Nat) : t = Append(taken.uart, c)
      BY <1>r, ByteSeq
    <2>5. uart' = [uart EXCEPT !.rx = q] /\ taken' = [taken EXCEPT !.uart = t]
      BY <1>4, <2>2, <2>3, <2>4 DEF UartReceive, SetUart
    <2>6. uart' \in UartType /\ taken' \in TakenType
      BY <2>5 DEF UartType, TakenType
    <2> QED
      BY <1>0, <2>1, <2>6
  <1>5. ASSUME SbiGetchar PROVE B'
    <2>1. /\ HasInput /\ input' = RestOfInput /\ UNCHANGED <<uart, typed>>
          /\ taken' = [taken EXCEPT !.sbi = Append(@, NextByte)]
      BY <1>5 DEF SbiGetchar
    <2>2. input' \in InputType /\ Len(input'.ring) <= PlatRing /\ NextByte \in Nat
      BY <1>s, <2>1
    <2>3. PICK t \in Seq(Nat) : t = Append(taken.sbi, NextByte)
      BY <1>r, <2>2, ByteSeq
    <2>4. taken' \in TakenType
      BY <2>1, <2>3 DEF TakenType
    <2> QED
      BY <1>0, <2>1, <2>2, <2>4
  <1>6. ASSUME NEW base, NEW len \in Int, SbiConsoleRead(base, len) PROVE B'
    <2> DEFINE waiting == input.tel \o input.ring
               n == IF len < Len(waiting) THEN len ELSE Len(waiting)
               k == IF n < Len(input.tel) THEN n ELSE Len(input.tel)
    <2>1. /\ taken' = [taken EXCEPT !.sbi = @ \o SubSeq(waiting, 1, n)]
          /\ input' = [tel |-> SubSeq(input.tel, k + 1, Len(input.tel)),
                       ring |-> SubSeq(input.ring, n - k + 1, Len(input.ring))]
          /\ UNCHANGED <<uart, typed>> /\ len > 0
      BY <1>6 DEF SbiConsoleRead
    <2>2. waiting \in Seq(Nat) /\ Len(waiting) = Len(input.tel) + Len(input.ring)
      BY <1>r, ByteSeq
    <2>3. len \in Nat
      BY <2>1
    <2>a. /\ n = IF len < Len(waiting) THEN len ELSE Len(waiting)
          /\ k = IF n < Len(input.tel) THEN n ELSE Len(input.tel)
      OBVIOUS
    <2> HIDE DEF waiting, n, k
    <2>4. /\ n \in 0 .. Len(waiting) /\ k \in 0 .. Len(input.tel)
          /\ n - k \in 0 .. Len(input.ring)
      BY <1>l, <2>2, <2>3, <2>a, Split
    <2>5. PICK g \in Seq(Nat) : g = SubSeq(waiting, 1, n)
      BY <2>2, <2>4, ByteSplit
    <2>6. PICK t \in Seq(Nat) : t = SubSeq(input.tel, k + 1, Len(input.tel))
      BY <1>r, <2>4, ByteSplit
    <2>7. PICK r \in Seq(Nat) : /\ r = SubSeq(input.ring, n - k + 1, Len(input.ring))
                                /\ Len(r) = Len(input.ring) - (n - k)
      BY <1>r, <2>4, ByteSplit
    <2>8. PICK x \in Seq(Nat) : x = taken.sbi \o g
      BY <1>r, ByteSeq
    <2>9. taken' = [taken EXCEPT !.sbi = x] /\ input' = [tel |-> t, ring |-> r]
      BY <2>1, <2>5, <2>6, <2>7, <2>8
    <2>10. taken' \in TakenType /\ input' \in InputType /\ input'.ring = r
      BY <2>9 DEF TakenType, InputType
    <2>11. Len(input'.ring) <= PlatRing
      <3>2. Len(r) \in Nat
        BY ByteSeq
      <3> QED
        BY <1>0, <1>r, <1>l, <2>4, <2>7, <2>10, <3>2, Shortened
    <2> QED
      BY <1>0, <2>1, <2>10, <2>11
  <1>7. ASSUME NEW n \in 1 .. Burst, UartRxIsr(n) PROVE B'
    <2> DEFINE fits == IF n <= PlatRing - Len(input.ring) THEN n
                       ELSE PlatRing - Len(input.ring)
    <2>1. /\ input' = [input EXCEPT !.ring = @ \o [i \in 1 .. fits |-> typed.uart + i]]
          /\ typed' = [typed EXCEPT !.uart = @ + n,
                           !.lost = @ \cup (typed.uart + fits + 1 .. typed.uart + n)]
          /\ UNCHANGED <<uart, taken>>
      BY <1>7 DEF UartRxIsr
    <2>2. n \in Nat
      BY DEF MachineAssumption
    <2>3. fits \in Nat /\ Len(input.ring) + fits <= PlatRing
      <3>1. \A a, b \in Nat : LET f == IF n <= b - a THEN n ELSE b - a
                             IN a <= b => f \in Nat /\ a + f <= b
        BY <2>2
      <3> QED
        BY <1>0, <1>r, <1>l, <3>1
    <2> HIDE DEF fits
    <2>4. PICK new \in Seq(Nat) : new = [i \in 1 .. fits |-> typed.uart + i] /\ Len(new) = fits
      <3>1. typed.uart \in Nat
        BY <1>r
      <3>2. /\ [i \in 1 .. fits |-> typed.uart + i] \in Seq(Nat)
            /\ Len([i \in 1 .. fits |-> typed.uart + i]) = fits
        BY <2>3, <3>1, Arrivals, Zenon
      <3> QED
        BY <3>2, Zenon
    <2>5. PICK q \in Seq(Nat) : q = input.ring \o new /\ Len(q) = Len(input.ring) + fits
      <3>1. input.ring \o new \in Seq(Nat) /\ Len(input.ring \o new) = Len(input.ring) + Len(new)
        BY <1>r, ByteSeq
      <3> QED
        BY <2>4, <3>1
    <2>6. PICK m \in Nat : m = typed.uart + n
      <3>1. typed.uart + n \in Nat
        BY <1>r, <2>2, NatSum, Zenon
      <3> QED
        BY <3>1, Zenon
    <2>7. PICK l \in SUBSET Nat : l = typed.lost \cup (typed.uart + fits + 1 .. typed.uart + n)
      <3>1. \A a, b \in Nat : a + b + 1 .. a + n \subseteq Nat
        BY <2>2
      <3>2. typed.uart + fits + 1 .. typed.uart + n \subseteq Nat
        BY <1>r, <2>3, <3>1
      <3> QED
        BY <3>2 DEF TypedType
    <2>8. input' = [input EXCEPT !.ring = q] /\ typed' = [typed EXCEPT !.uart = m, !.lost = l]
      BY <2>1, <2>4, <2>5, <2>6, <2>7
    <2>9. input' \in InputType /\ typed' \in TypedType /\ input'.ring = q
      BY <2>8 DEF InputType, TypedType
    <2> QED
      BY <1>0, <2>1, <2>3, <2>5, <2>9
  <1>8. ASSUME TelnetByte PROVE B'
    <2>1. PICK q \in Seq(Nat) : q = Append(input.tel, TelBase + typed.tel + 1)
      <3>1. TelBase + typed.tel + 1 \in Nat
        BY <1>r, NatSum DEF TelBase, MachineAssumption
      <3>2. PICK c \in Nat : c = TelBase + typed.tel + 1
        BY <3>1
      <3>3. Append(input.tel, c) \in Seq(Nat)
        BY <1>r, ByteSeq
      <3> QED
        BY <3>2, <3>3
    <2>2. PICK m \in Nat : m = typed.tel + 1
      <3>1. typed.tel + 1 \in Nat
        BY <1>r, NatSum, Zenon
      <3> QED
        BY <3>1, Zenon
    <2>3. /\ input' = [input EXCEPT !.tel = q] /\ typed' = [typed EXCEPT !.tel = m]
          /\ UNCHANGED <<uart, taken>>
      BY <1>8, <2>1, <2>2 DEF TelnetByte
    <2>4. input' \in InputType /\ typed' \in TypedType /\ input'.ring = input.ring
      BY <2>3 DEF InputType, TypedType
    <2> QED
      BY <1>0, <2>3, <2>4
  <1>9. ASSUME TimerUpdate \/ (\E f \in BOOLEAN : NetPoll(f)) \/ \E n \in 0 .. MaxSlice : SliceEnd(n)
        PROVE  B'
    BY <1>1, <1>9 DEF TimerUpdate, NetPoll, SliceEnd
  <1>10. ASSUME (\E d \in Delays : SbiSetTimer(d)) \/ SbiSendIpi
                \/ \E type \in ResetTypes : SystemReset(type)
         PROVE  B'
    BY <1>1, <1>10 DEF SbiSetTimer, SbiSendIpi, SystemReset
  <1>11. ASSUME OpenConsole \/ StartTx \/ UartTransmit PROVE B'
    BY <1>2, <1>11 DEF OpenConsole, StartTx, UartTransmit, SetUart
  <1>12. ASSUME \/ GoIdle \/ KernelWfi \/ Woken \/ SoftIrq \/ TimerIrq \/ Claim \/ NetServe \/ Complete
                \/ \E irq \in {SSIP, STIP, SEIP} : TakeInterrupt(irq)
         PROVE  B'
    BY <1>1, <1>12 DEF GoIdle, KernelWfi, Woken, SoftIrq, TimerIrq, Claim, NetServe, Complete, TakeInterrupt
  <1>13. ASSUME UNCHANGED vars PROVE B'
    BY <1>1, <1>13 DEF vars
  <1>14. {1, 2, RamSize, AddrMod - 1} \subseteq Int
    BY DEF MachineAssumption
  <1> HIDE DEF B
  <1> QED
    BY <1>3, <1>4, <1>5, <1>6, <1>7, <1>8, <1>9, <1>10, <1>11, <1>12, <1>13, <1>14
    DEF MachineNext, Devices, Sbi, Kernel, World, Stopped

\* The hart and the PLIC.
LEMMA HartTypes ==
    ASSUME Types, Lines, Asleep, uart' \in UartType, kernel' \in KernelType, [MachineNext]_vars
    PROVE  hart' \in HartType /\ plic' \in PlicType
  <1> USE DEF devVars, inVars
  <1> DEFINE G == hart' \in HartType /\ plic' \in PlicType
  <1>0. hart \in HartType /\ plic \in PlicType /\ uart \in UartType
    BY DEF Types
  <1>1. ASSUME SetUart(uart') PROVE G
    BY <1>1, UartCall
  <1>2. ASSUME plic' \in PlicType, hart' = PlicUpdate(hart, plic') \/ hart' = hart PROVE G
    BY <1>0, <1>2, PlicLevel DEF Asleep
  <1>3. ASSUME UNCHANGED <<hart, plic>> PROVE G
    BY <1>0, <1>3
  <1>4. ASSUME NEW irq \in {SSIP, STIP, SEIP}, hart' = CpuSetMip(hart, irq), UNCHANGED plic PROVE G
    BY <1>0, <1>4, Raised DEF Asleep
  <1> HIDE DEF G
  <1>5. ASSUME TimerUpdate PROVE G
    BY <1>3, <1>4, <1>5 DEF TimerUpdate
  <1>6. ASSUME PollInput PROVE G
    BY <1>1, <1>3, <1>6 DEF PollInput, PushRx, SetUart
  <1>7. ASSUME NEW f \in BOOLEAN, NetPoll(f) PROVE G
    BY <1>0, <1>2, <1>7, LineLevel DEF NetPoll
  <1>8. ASSUME \/ \E n \in 0 .. MaxSlice : SliceEnd(n)
               \/ \E type \in ResetTypes : SystemReset(type)
               \/ \E base \in Buffers, len \in {1, 2, RamSize, AddrMod - 1} : SbiConsoleRead(base, len)
               \/ SbiGetchar \/ World \/ UNCHANGED vars
        PROVE  G
    BY <1>3, <1>8 DEF SliceEnd, SystemReset, SbiConsoleRead, SbiGetchar, World, UartRxIsr,
                      TelnetByte, vars
  <1>9. ASSUME \/ (\E d \in Delays : SbiSetTimer(d))
               \/ GoIdle \/ KernelWfi \/ Woken \/ SoftIrq \/ TimerIrq
               \/ \E irq \in {SSIP, STIP, SEIP} : TakeInterrupt(irq)
        PROVE  G
    <2>1. UNCHANGED plic
      BY <1>9 DEF SbiSetTimer, GoIdle, KernelWfi, Woken, SoftIrq, TimerIrq, TakeInterrupt
    <2>2. CASE \E d \in Delays : SbiSetTimer(d)
      <3>1. hart' = [hart EXCEPT !.mie = @ \cup {STIP}, !.mip = @ \ {STIP}]
        BY <1>0, <2>2 DEF SbiSetTimer, Arm, SetTimer, CpuResetMip, HartType
      <3>2. hart' \in HartType
        BY <1>0, <3>1 DEF HartType
      <3> QED
        BY <1>0, <2>1, <3>2 DEF G
    <2>3. CASE ~ \E d \in Delays : SbiSetTimer(d)
      <3>1. hart' \in HartType
        BY <1>0, <1>9, <2>3 DEF GoIdle, KernelWfi, CanSleep, Woken, SoftIrq, TimerIrq,
                                TakeInterrupt, CpuResetMip, HartType
      <3> QED
        BY <1>0, <2>1, <3>1 DEF G
    <2> QED
      BY <2>2, <2>3
  <1>10. ASSUME SbiSendIpi PROVE G
    BY <1>4, <1>10 DEF SbiSendIpi
  <1>11. ASSUME OpenConsole \/ StartTx \/ UartReceive \/ UartTransmit PROVE G
    BY <1>1, <1>11 DEF OpenConsole, StartTx, UartReceive, UartTransmit, SetUart
  <1>12. ASSUME Claim PROVE G
    <2>1. CASE Claimed = 0
      BY <1>0, <1>12, <2>1 DEF Claim, HartType, G
    <2>2. CASE Claimed # 0
      <3>1. /\ plic' = [plic EXCEPT !.served = @ \cup {Claimed}]
            /\ hart' = PlicUpdate(hart, plic')
            /\ kernel' = [kernel EXCEPT !.irq = Claimed]
        BY <1>12, <2>2 DEF Claim
      <3>2. Claimed \in {UartIrq, NetIrq}
        BY <2>2, <3>1 DEF Types, KernelType
      <3>3. plic' \in PlicType
        BY <1>0, <3>1, <3>2 DEF PlicType
      <3> QED
        BY <1>2, <3>1, <3>3
    <2> QED
      BY <2>1, <2>2
  <1>13. ASSUME NetServe PROVE G
    BY <1>0, <1>2, <1>13, LineLevel DEF NetServe
  <1>14. ASSUME Complete PROVE G
    <2>1. plic' \in PlicType
      BY <1>0, <1>14 DEF Complete, Completed, PlicType
    <2> QED
      BY <1>2, <1>14, <2>1 DEF Complete
  <1> QED
    BY <1>5, <1>6, <1>7, <1>8, <1>9, <1>10, <1>11, <1>12, <1>13, <1>14
    DEF MachineNext, Devices, Sbi, Kernel, Stopped, G

-----------------------------------------------------------------------------
(* The timer.                                                              *)

LEMMA ModLag ==
    ASSUME NEW x \in Int, NEW n \in Nat, NEW m \in Nat \ {0}
    PROVE  ((x + n) % m) <= (x % m) + n /\ (x + n) % m \in Nat
  OBVIOUS

\* A tick has passed only when all of its cycles have.
LEMMA TickFloor ==
    ASSUME NEW x \in Nat, NEW m \in Nat \ {0}
    PROVE  /\ (x \div m) \in Nat /\ (x \div m) * m <= x
           /\ (x \div m) * m >= (x - m) + 1
  OBVIOUS

\* Multiplication by the length of a tick is monotonic.
LEMMA Ticks ==
    ASSUME NEW a \in Nat, NEW b \in Nat, NEW m \in Nat \ {0}, a <= b
    PROVE  a * m <= b * m
  OBVIOUS

ClockTypes == clock \in ClockType /\ due \in Int /\ timecmp \in {Never} \cup Nat

\* Time that passes unread can only put the guest's clock further behind.
LEMMA TimePasses ==
    ASSUME MachineAssumption, ClockTypes, Timing, NEW n \in 0 .. MaxSlice,
           clock' = [clock EXCEPT !.real = @ + n], UNCHANGED <<hart, timecmp, due>>
    PROVE  ClockTypes' /\ Timing'
  <1>1. /\ clock.real \in Nat /\ clock.last \in Nat /\ clock.total \in Nat /\ n \in Nat
        /\ CycMod \in Nat \ {0} /\ CycPerUs \in Nat \ {0} /\ clock.last \in 0 .. CycMod - 1
    BY DEF ClockTypes, ClockType, MachineAssumption
  <1>2. PICK r \in Nat : r = clock.real + n
    <2>1. clock.real + n \in Nat
      BY <1>1, NatSum, Zenon
    <2> QED
      BY <2>1, Zenon
  <1>3. clock' = [clock EXCEPT !.real = r]
    BY <1>2
  <1>4. clock'.real = r /\ clock'.last = clock.last /\ clock'.total = clock.total /\ clock' \in ClockType
    BY <1>3 DEF ClockTypes, ClockType
  <1>5. Elapsed \in Nat
    BY <1>1 DEF Elapsed
  <1>6. Elapsed' \in Nat /\ Elapsed' <= Elapsed + n
    <2>1. PICK d \in Int : d = clock.real - clock.last
      BY <1>1
    <2>2. clock'.real - clock'.last = d + n
      <3>1. PICK a, b \in Nat : a = clock.real /\ b = clock.last
        BY <1>1
      <3>2. r = a + n /\ d = a - b
        BY <1>2, <2>1, <3>1
      <3>3. r - b = d + n
        BY <1>1, <3>2
      <3> QED
        BY <1>4, <3>1, <3>3
    <2>3. Elapsed' = (d + n) % CycMod /\ Elapsed = d % CycMod
      BY <2>1, <2>2 DEF Elapsed
    <2>4. ((d + n) % CycMod) <= (d % CycMod) + n /\ (d + n) % CycMod \in Nat
      BY <1>1, ModLag
    <2> QED
      BY <2>3, <2>4
  <1>7. Behind' >= Behind /\ Behind \in Int /\ Behind' \in Int
    <2>1. \A a, b, e, f \in Nat : f <= e + n =>
             /\ (a + n) - (b + f) >= a - (b + e)
             /\ (a + n) - (b + f) \in Int /\ a - (b + e) \in Int
      BY <1>1
    <2> QED
      BY <1>1, <1>2, <1>4, <1>5, <1>6, <2>1 DEF Behind
  <1>8. timecmp # Never => timecmp * CycPerUs \in Int
    BY <1>1 DEF ClockTypes
  <1>9. Behind' >= 0 /\ (timecmp' # Never => due' <= timecmp' * CycPerUs + Behind')
    <2>1. \A b, c, d, p \in Int : c >= b => (b >= 0 => c >= 0) /\ (d <= p + b => d <= p + c)
      OBVIOUS
    <2> QED
      BY <1>7, <1>8, <2>1 DEF Timing, ClockTypes
  <1>10. STIP \in hart'.mip => clock'.real >= due'
    <2>1. \A d \in Int, a \in Nat : a >= d => a + n >= d
      BY <1>1
    <2> QED
      BY <1>1, <1>2, <1>4, <2>1 DEF Timing, ClockTypes
  <1> QED
    BY <1>4, <1>9, <1>10 DEF Timing, ClockTypes

\* Reading the clock changes nothing in what it says.
LEMMA TimeRead ==
    ASSUME MachineAssumption, ClockTypes, clock' = ReadClock
    PROVE  Elapsed' = 0 /\ Behind' = Behind /\ clock' \in ClockType /\ clock'.real = clock.real
  <1>1. /\ Elapsed \in Nat /\ clock' \in ClockType
        /\ clock'.real = clock.real /\ clock'.total = clock.total + Elapsed
        /\ (clock.real - clock'.last) % CycMod = 0
    BY ClockRead DEF ClockTypes
  <1>2. Elapsed' = 0
    BY <1>1 DEF Elapsed
  <1>3. clock.total + Elapsed \in Nat
    BY <1>1, NatSum DEF ClockTypes, ClockType
  <1> QED
    BY <1>1, <1>2, <1>3 DEF Behind

LEMMA TimeStep ==
    ASSUME MachineAssumption, Types, ClockTypes, Timing, Asleep, Lines, [MachineNext]_vars
    PROVE  ClockTypes' /\ Timing'
  <1> USE DEF devVars, inVars
  <1>0. hart \in HartType
    BY DEF Types
  <1>c. /\ CycPerUs \in Nat \ {0} /\ clock.real \in Nat /\ clock.total \in Nat /\ Elapsed \in Nat
        /\ Behind \in Int /\ Now \in Nat
    <2>1. clock.real \in Nat /\ clock.total \in Nat
      BY DEF ClockTypes, ClockType
    <2>2. Elapsed \in Nat /\ Now \in Nat
      BY ClockRead DEF ClockTypes
    <2>3. \A a, b, e \in Nat : a - (b + e) \in Int
      OBVIOUS
    <2>4. Behind \in Int
      BY <2>1, <2>2, <2>3 DEF Behind
    <2>5. CycPerUs \in Nat \ {0}
      BY DEF MachineAssumption
    <2> QED
      BY <2>1, <2>2, <2>4, <2>5
  <1>1. ASSUME UNCHANGED <<clock, timecmp, due>>, STIP \in hart'.mip => STIP \in hart.mip
        PROVE  ClockTypes' /\ Timing'
    BY <1>1 DEF ClockTypes, Timing, Behind, Elapsed
  <1>2. ASSUME TimerUpdate PROVE ClockTypes' /\ Timing'
    <2>1. CASE stop # 0 \/ timecmp = Never
      BY <1>1, <1>2, <2>1 DEF TimerUpdate, Expired
    <2>2. CASE stop = 0 /\ timecmp # Never
      <3>1. clock' = ReadClock /\ UNCHANGED due
        BY <1>2, <2>2 DEF TimerUpdate
      <3>2. Behind' = Behind /\ clock' \in ClockType /\ clock'.real = clock.real
        BY <3>1, TimeRead
      <3>3. CASE ~Expired
        <4>1. UNCHANGED <<hart, timecmp>>
          BY <1>2, <2>2, <3>3 DEF TimerUpdate
        <4> QED
          BY <3>1, <3>2, <4>1 DEF ClockTypes, Timing
      <3>4. CASE Expired
        <4>1. timecmp' = Never
          BY <1>2, <2>2, <3>4 DEF TimerUpdate
        <4>2. clock.real >= due
          <5>1. timecmp \in Nat /\ Now >= timecmp /\ due \in Int
            BY <2>2, <3>4 DEF Expired, ClockTypes
          <5>2. PICK x \in Nat : x = clock.total + Elapsed
            BY <1>c, NatSum
          <5>3. Now = x \div CycPerUs
            BY <5>2 DEF Now
          <5>4. Now * CycPerUs <= x /\ Now * CycPerUs \in Nat
            BY <1>c, <5>3, TickFloor
          <5>5. timecmp * CycPerUs <= Now * CycPerUs /\ timecmp * CycPerUs \in Nat
            BY <1>c, <5>1, Ticks
          <5>6. due <= timecmp * CycPerUs + Behind /\ Behind = clock.real - x
            BY <2>2, <5>2 DEF Timing, Behind
          <5>7. \A p, q, y, r \in Nat : \A d \in Int : p <= q /\ q <= y /\ d <= p + (r - y) => r >= d
            OBVIOUS
          <5> QED
            BY <1>c, <5>1, <5>4, <5>5, <5>6, <5>7
        <4> QED
          BY <3>1, <3>2, <4>1, <4>2 DEF ClockTypes, Timing
      <3> QED
        BY <3>3, <3>4
    <2> QED
      BY <2>1, <2>2
  <1>3. ASSUME NEW n \in 0 .. MaxSlice, SliceEnd(n) PROVE ClockTypes' /\ Timing'
    BY <1>3, TimePasses DEF SliceEnd
  <1>4. ASSUME NEW d \in Delays, SbiSetTimer(d) PROVE ClockTypes' /\ Timing'
    <2>1. /\ clock' = ReadClock /\ timecmp' = Now + d
          /\ due' = (clock.real + (d - 1) * CycPerUs) + 1
          /\ hart' = [hart EXCEPT !.mie = @ \cup {STIP}, !.mip = @ \ {STIP}]
      BY <1>0, <1>4 DEF SbiSetTimer, Arm, SetTimer, CpuResetMip, HartType
    <2>2. Behind' = Behind /\ clock' \in ClockType /\ clock'.real = clock.real
      BY <2>1, TimeRead
    <2>3. STIP \notin hart'.mip
      BY <1>0, <2>1 DEF HartType
    <2>4. d \in Nat \ {0}
      BY DEF MachineAssumption
    <2>5. PICK x \in Nat : x = clock.total + Elapsed
      BY <1>c, NatSum
    <2>6. /\ Now * CycPerUs >= (x - CycPerUs) + 1 /\ Now * CycPerUs \in Nat
          /\ Behind = clock.real - x
      <3>1. Now = x \div CycPerUs
        BY <2>5 DEF Now
      <3>2. Now * CycPerUs >= (x - CycPerUs) + 1
        BY <1>c, <3>1, TickFloor
      <3>3. Now * CycPerUs \in Nat
        BY <1>c
      <3> QED
        BY <2>5, <3>2, <3>3 DEF Behind
    <2>7. due' <= timecmp' * CycPerUs + Behind' /\ due' \in Int /\ timecmp' \in Nat
      <3>1. PICK e \in Nat : e = d * CycPerUs
        BY <1>c, <2>4
      <3>2. (d - 1) * CycPerUs = e - CycPerUs
        BY <1>c, <2>4, <3>1
      <3>3. PICK now \in Nat : now = Now
        BY <1>c
      <3>4. timecmp' * CycPerUs = now * CycPerUs + e
        BY <1>c, <2>1, <2>4, <3>1, <3>3
      <3>5. \A r, p, y, f, c \in Nat : p >= (y - c) + 1 =>
                (r + (f - c)) + 1 <= (p + f) + (r - y) /\ (r + (f - c)) + 1 \in Int
        OBVIOUS
      <3>6. timecmp' \in Nat
        BY <1>c, <2>1, <2>4
      <3>7. PICK p \in Nat : p = Now * CycPerUs
        BY <2>6
      <3>8. /\ timecmp' * CycPerUs = p + e /\ Behind' = clock.real - x
            /\ due' = (clock.real + (e - CycPerUs)) + 1
            /\ p >= (x - CycPerUs) + 1
        BY <2>1, <2>2, <2>6, <3>2, <3>3, <3>4, <3>7
      <3>9. /\ (clock.real + (e - CycPerUs)) + 1 <= (p + e) + (clock.real - x)
            /\ (clock.real + (e - CycPerUs)) + 1 \in Int
        BY <1>c, <3>5, <3>8
      <3> QED
        BY <3>6, <3>8, <3>9
    <2>8. Behind' >= 0
      BY <2>2 DEF Timing
    <2> QED
      BY <2>2, <2>3, <2>7, <2>8 DEF ClockTypes, Timing
  <1>5. ASSUME \/ PollInput \/ (\E f \in BOOLEAN : NetPoll(f)) \/ SbiSendIpi
               \/ \E type \in ResetTypes : SystemReset(type)
               \/ \E base \in Buffers, len \in {1, 2, RamSize, AddrMod - 1} : SbiConsoleRead(base, len)
               \/ SbiGetchar \/ Kernel \/ World \/ UNCHANGED vars
        PROVE  ClockTypes' /\ Timing'
    <2>1. UNCHANGED <<clock, timecmp, due>>
      BY <1>5 DEF PollInput, NetPoll, SbiSendIpi, SystemReset, SbiConsoleRead, SbiGetchar,
                  Kernel, OpenConsole, StartTx, GoIdle, KernelWfi, Woken, TakeInterrupt, SoftIrq,
                  TimerIrq, Claim, UartReceive, UartTransmit, NetServe, Complete,
                  World, UartRxIsr, TelnetByte, vars
    <2>2. hart'.mip \subseteq hart.mip \cup {SSIP, SEIP}
      <3>1. ASSUME NEW p, hart' = PlicUpdate(hart, p)
            PROVE  hart'.mip \subseteq hart.mip \cup {SSIP, SEIP}
        BY <1>0, <3>1 DEF PlicUpdate, CpuSetMip, CpuResetMip, HartType
      <3>2. CASE PollInput
        BY <3>1, <3>2 DEF PollInput, PushRx, SetUart
      <3>3. CASE \E f \in BOOLEAN : NetPoll(f)
        BY <3>1, <3>3 DEF NetPoll
      <3>4. CASE SbiSendIpi
        BY <1>0, <3>4 DEF SbiSendIpi, CpuSetMip, HartType
      <3>5. CASE \/ \E type \in ResetTypes : SystemReset(type)
                 \/ \E base \in Buffers, len \in {1, 2, RamSize, AddrMod - 1} : SbiConsoleRead(base, len)
                 \/ SbiGetchar \/ World \/ UNCHANGED vars
        BY <3>5 DEF SystemReset, SbiConsoleRead, SbiGetchar, World, UartRxIsr, TelnetByte, vars
      <3>6. CASE OpenConsole \/ StartTx \/ UartReceive \/ UartTransmit \/ NetServe \/ Complete
        BY <3>1, <3>6 DEF OpenConsole, StartTx, UartReceive, UartTransmit, NetServe, Complete,
                          SetUart
      <3>7. CASE Claim
        <4>1. \/ hart' = [hart EXCEPT !.sie = TRUE]
              \/ hart' = PlicUpdate(hart, plic')
          BY <3>7 DEF Claim
        <4> QED
          BY <1>0, <3>1, <4>1 DEF HartType
      <3>8. CASE \/ GoIdle \/ KernelWfi \/ Woken \/ SoftIrq \/ TimerIrq
                 \/ \E irq \in {SSIP, STIP, SEIP} : TakeInterrupt(irq)
        <4>1. hart'.mip = hart.mip \/ hart'.mip = hart.mip \ {SSIP}
          BY <1>0, <3>8 DEF GoIdle, KernelWfi, Woken, SoftIrq, TimerIrq, TakeInterrupt, CpuResetMip,
                            HartType
        <4> QED
          BY <4>1
      <3> QED
        BY <1>5, <3>2, <3>3, <3>4, <3>5, <3>6, <3>7, <3>8 DEF Kernel
    <2> QED
      BY <1>1, <2>1, <2>2 DEF SSIP, STIP, SEIP
  <1> QED
    BY <1>2, <1>3, <1>4, <1>5 DEF MachineNext, Devices, Sbi, Stopped

-----------------------------------------------------------------------------
(* The invariant and what follows from it.                                 *)

LEMMA LoopStep ==
    ASSUME Types, [MachineNext]_vars
    PROVE  loop' \in LoopType /\ stop' \in 0 .. 2
  <1> USE DEF devVars, inVars
  <1>0. loop \in LoopType /\ stop \in 0 .. 2
    BY DEF Types
  <1>1. ASSUME NEW at, Guest(at), stop' = stop \/ stop' \in {1, 2}
        PROVE  loop' \in LoopType /\ stop' \in 0 .. 2
    <2>1. loop' \in LoopType
      BY <1>0, <1>1 DEF Guest, LoopType
    <2>2. stop' \in 0 .. 2
      BY <1>0, <1>1
    <2> QED
      BY <2>1, <2>2
  <1>2. ASSUME NEW at \in {"timer", "poll", "net", "run", "out"}, LoopTo(at), stop' = stop
        PROVE  loop' \in LoopType /\ stop' \in 0 .. 2
    BY <1>0, <1>2 DEF LoopTo, LoopType
  <1>3. CASE Devices
    <2>1. CASE TimerUpdate
      BY <1>2, <2>1 DEF TimerUpdate
    <2>2. CASE PollInput
      BY <1>0, <1>2, <2>2 DEF PollInput
    <2>3. CASE (\E f \in BOOLEAN : NetPoll(f)) \/ \E n \in 0 .. MaxSlice : SliceEnd(n)
      BY <1>2, <2>3 DEF NetPoll, SliceEnd
    <2> QED
      BY <1>3, <2>1, <2>2, <2>3 DEF Devices
  <1>4. CASE Sbi
    BY <1>1, <1>4 DEF Sbi, SbiSetTimer, SbiSendIpi, SystemReset, SbiConsoleRead, SbiGetchar
  <1>5. CASE Kernel
    BY <1>1, <1>5 DEF Kernel, OpenConsole, StartTx, GoIdle, KernelWfi, Woken, TakeInterrupt, SoftIrq,
                      TimerIrq, Claim, UartReceive, UartTransmit, NetServe, Complete, Serving
  <1>6. CASE World \/ UNCHANGED vars
    BY <1>0, <1>6 DEF World, UartRxIsr, TelnetByte, vars
  <1> QED
    BY <1>3, <1>4, <1>5, <1>6 DEF MachineNext, Stopped

LEMMA MachineInitial == ASSUME MachineAssumption, MachineInit PROVE MachineInv
  <1>0. CycMod \in Nat \ {0} /\ PlatRing \in Nat
    BY DEF MachineAssumption
  <1>1. loop \in LoopType /\ stop \in 0 .. 2 /\ hart \in HartType /\ plic \in PlicType
    BY DEF MachineInit, LoopType, HartType, PlicType
  <1>2. /\ uart \in UartType /\ input \in InputType /\ taken \in TakenType
        /\ typed \in TypedType /\ kernel \in KernelType /\ input.ring = <<>>
    BY DEF MachineInit, UartType, InputType, TakenType, TypedType, KernelType
  <1>3. clock \in ClockType /\ due \in Int /\ timecmp = Never
    BY <1>0 DEF MachineInit, ClockType, Never
  <1>4. Types
    BY <1>0, <1>1, <1>2, <1>3 DEF Types
  <1>5. Lines /\ Asleep
    BY DEF MachineInit, Lines, Asleep, UartActive
  <1>6. Timing
    <2>1. clock.real = 0 /\ clock.last = 0 /\ clock.total = 0 /\ STIP \notin hart.mip
      BY DEF MachineInit
    <2>2. Elapsed = 0
      BY <1>0, <2>1 DEF Elapsed
    <2> QED
      BY <1>3, <2>1, <2>2 DEF Timing, Behind
  <1> QED
    BY <1>4, <1>5, <1>6 DEF MachineInv

LEMMA MachineStep == ASSUME MachineAssumption, MachineInv, [MachineNext]_vars PROVE MachineInv'
  <1>0. Types /\ Lines /\ Asleep /\ Timing
    BY DEF MachineInv
  <1>1. ClockTypes' /\ Timing'
    BY <1>0, TimeStep DEF Types, ClockTypes
  <1>2. loop' \in LoopType /\ stop' \in 0 .. 2
    BY <1>0, LoopStep
  <1>3. kernel' \in KernelType
    BY <1>0, KernelStep DEF Types
  <1>4. /\ uart' \in UartType /\ input' \in InputType /\ typed' \in TypedType
        /\ taken' \in TakenType /\ Len(input'.ring) <= PlatRing
    BY <1>0, BytesStep DEF Types
  <1>5. hart' \in HartType /\ plic' \in PlicType
    BY <1>0, <1>3, <1>4, HartTypes
  <1>6. Types'
    BY <1>1, <1>2, <1>3, <1>4, <1>5 DEF Types, ClockTypes
  <1>7. Lines' /\ Asleep'
    BY <1>0, <1>6, LinesStep
  <1> QED
    BY <1>1, <1>6, <1>7 DEF MachineInv

LEMMA MachineInvariant == MachineSpec => []MachineInv
  <1>1. MachineAssumption /\ MachineInit => MachineInv
    BY MachineInitial
  <1>2. MachineAssumption /\ MachineInv /\ [MachineNext]_vars => MachineInv'
    BY MachineStep
  <1> QED
    BY <1>1, <1>2, MachineAssumption, PTL DEF MachineSpec

\* The machine's variables keep their types, whatever the sizes of the rings.
THEOREM MachineTypeCorrect == MachineSpec => []MachineTypeOK
  <1>1. MachineInv => MachineTypeOK
    BY DEF MachineInv, Types, MachineTypeOK, LoopType, HartType, PlicType
  <1> QED
    BY <1>1, MachineInvariant, PTL

\* A hart that sleeps has nothing to wake up for: no interrupt of the 8250, no
\* frame and no other enabled interrupt is pending, because a line that rises
\* reaches wfi and power_down_flag (uart_update_irq(), plic_update(),
\* riscv_cpu_set_mip()).
THEOREM SleepIsSound == MachineSpec => []SleepHidesNothing
  <1>1. MachineInv => SleepHidesNothing
    <2> SUFFICES ASSUME MachineInv, hart.asleep
                 PROVE  /\ ~UartActive(uart) /\ NetIrq \notin plic.pending
                        /\ hart.mip \cap hart.mie = {}
      BY DEF SleepHidesNothing
    <2>1. hart.mip \cap hart.mie = {} /\ SEIP \in hart.mie /\ kernel.at = "woken"
      BY DEF MachineInv, Asleep
    <2>2. plic.served = {} /\ SEIP \notin hart.mip
      BY <2>1 DEF MachineInv, Lines
    <2>3. plic.pending = {}
      BY <2>2 DEF MachineInv, Lines
    <2> QED
      BY <2>1, <2>3 DEF MachineInv, Lines
  <1> QED
    BY <1>1, MachineInvariant, PTL

\* A timer interrupt is never early, for every width of the cycle counter and
\* every length of a tick: a clock that loses whole turns of the counter only
\* makes it late (timer_update(), rv_set_timer(), plat_now_us()).
THEOREM TimerIsNeverEarly == MachineSpec => []TimerTrue
  <1>1. MachineInv => TimerTrue
    BY DEF MachineInv, Timing, TimerTrue
  <1> QED
    BY <1>1, MachineInvariant, PTL

-----------------------------------------------------------------------------
(* The bytes of the console.                                               *)

\* Every byte of s arrived before every byte of t that has the same source.
Below(s, t) == \A c \in Bytes(s), d \in Bytes(t) : SameSource(c, d) => c < d

LEMMA JoinedParts ==
    ASSUME NEW s \in Seq(Nat), NEW t \in Seq(Nat)
    PROVE  /\ s \o t \in Seq(Nat) /\ Len(s \o t) = Len(s) + Len(t)
           /\ \A i \in 1 .. Len(s) : (s \o t)[i] = s[i] /\ i \in 1 .. Len(s) + Len(t)
           /\ \A j \in 1 .. Len(t) : /\ (s \o t)[Len(s) + j] = t[j]
                                     /\ Len(s) + j \in 1 .. Len(s) + Len(t)
           /\ \A k \in 1 .. Len(s) + Len(t) :
                 k \in 1 .. Len(s) \/ \E j \in 1 .. Len(t) : k = Len(s) + j
  <1>1. PICK m \in Nat, l \in Nat : m = Len(s) /\ l = Len(t)
    OBVIOUS
  <1>2. s \o t \in Seq(Nat) /\ Len(s \o t) = m + l
    BY <1>1
  <1>3. ASSUME NEW i \in 1 .. m PROVE (s \o t)[i] = s[i] /\ i \in 1 .. m + l
    BY <1>1
  <1>4. ASSUME NEW j \in 1 .. l PROVE (s \o t)[m + j] = t[j] /\ m + j \in 1 .. m + l
    BY <1>1
  <1>5. ASSUME NEW k \in 1 .. m + l, k \notin 1 .. m
        PROVE  \E j \in 1 .. l : k = m + j
    <2>1. k - m \in 1 .. l /\ k = m + (k - m)
      BY <1>5
    <2> QED
      BY <2>1
  <1> QED
    BY <1>1, <1>2, <1>3, <1>4, <1>5

LEMMA JoinedBytes ==
    ASSUME NEW s \in Seq(Nat), NEW t \in Seq(Nat)
    PROVE  Bytes(s \o t) = Bytes(s) \cup Bytes(t)
  <1>1. PICK q : q = s \o t
    OBVIOUS
  <1>2. /\ Len(q) = Len(s) + Len(t)
        /\ \A i \in 1 .. Len(s) : q[i] = s[i] /\ i \in 1 .. Len(q)
        /\ \A j \in 1 .. Len(t) : q[Len(s) + j] = t[j] /\ Len(s) + j \in 1 .. Len(q)
        /\ \A k \in 1 .. Len(q) :
              k \in 1 .. Len(s) \/ \E j \in 1 .. Len(t) : k = Len(s) + j
    BY <1>1, JoinedParts
  <1>3. ASSUME NEW c \in Bytes(q) PROVE c \in Bytes(s) \cup Bytes(t)
    <2>1. PICK k \in 1 .. Len(q) : c = q[k]
      BY DEF Bytes
    <2>2. CASE k \in 1 .. Len(s)
      BY <1>2, <2>1, <2>2 DEF Bytes
    <2>3. CASE \E j \in 1 .. Len(t) : k = Len(s) + j
      BY <1>2, <2>1, <2>3 DEF Bytes
    <2> QED
      BY <1>2, <2>2, <2>3
  <1>4. ASSUME NEW c \in Bytes(s) PROVE c \in Bytes(q)
    BY <1>2 DEF Bytes
  <1>5. ASSUME NEW c \in Bytes(t) PROVE c \in Bytes(q)
    <2>1. PICK j \in 1 .. Len(t) : c = t[j]
      BY DEF Bytes
    <2> QED
      BY <1>2, <2>1 DEF Bytes
  <1> QED
    BY <1>1, <1>3, <1>4, <1>5

LEMMA JoinedAscending ==
    ASSUME NEW s \in Seq(Nat), NEW t \in Seq(Nat)
    PROVE  Ascending(s \o t) <=> Ascending(s) /\ Ascending(t) /\ Below(s, t)
  <1>1. PICK q, m, l : q = s \o t /\ m = Len(s) /\ l = Len(t)
    OBVIOUS
  <1>2. /\ m \in Nat /\ l \in Nat /\ Len(q) = m + l
        /\ \A i \in 1 .. m : q[i] = s[i] /\ i \in 1 .. m + l
        /\ \A j \in 1 .. l : q[m + j] = t[j] /\ m + j \in 1 .. m + l
        /\ \A k \in 1 .. m + l : k \in 1 .. m \/ \E j \in 1 .. l : k = m + j
    BY <1>1, JoinedParts
  <1>3. ASSUME Ascending(q) PROVE Ascending(s) /\ Ascending(t) /\ Below(s, t)
    <2>1. Ascending(s)
      BY <1>1, <1>2, <1>3 DEF Ascending
    <2>2. Ascending(t)
      <3> SUFFICES ASSUME NEW i \in 1 .. l, NEW j \in 1 .. l, i < j, SameSource(t[i], t[j])
                   PROVE  t[i] < t[j]
        BY <1>1 DEF Ascending
      <3>1. q[m + i] = t[i] /\ q[m + j] = t[j] /\ m + i \in 1 .. m + l /\ m + j \in 1 .. m + l
        BY <1>2
      <3>2. m + i < m + j
        BY <1>2
      <3> QED
        BY <1>2, <1>3, <3>1, <3>2 DEF Ascending
    <2>3. Below(s, t)
      <3> SUFFICES ASSUME NEW i \in 1 .. m, NEW j \in 1 .. l, SameSource(s[i], t[j])
                   PROVE  s[i] < t[j]
        BY <1>1 DEF Below, Bytes
      <3>1. i < m + j /\ q[i] = s[i] /\ q[m + j] = t[j]
        BY <1>2
      <3> QED
        BY <1>2, <1>3, <3>1 DEF Ascending
    <2> QED
      BY <2>1, <2>2, <2>3
  <1>4. ASSUME Ascending(s), Ascending(t), Below(s, t) PROVE Ascending(q)
    <2> SUFFICES ASSUME NEW i \in 1 .. m + l, NEW k \in 1 .. m + l, i < k, SameSource(q[i], q[k])
                 PROVE  q[i] < q[k]
      BY <1>2 DEF Ascending
    <2>1. CASE k \in 1 .. m
      <3>1. i \in 1 .. m
        BY <1>2, <2>1
      <3> QED
        BY <1>1, <1>2, <1>4, <2>1, <3>1 DEF Ascending
    <2>2. CASE \E j \in 1 .. l : k = m + j
      <3>1. PICK j \in 1 .. l : k = m + j
        BY <2>2
      <3>2. CASE i \in 1 .. m
        <4>1. q[i] \in Bytes(s) /\ q[k] \in Bytes(t)
          BY <1>1, <1>2, <3>1, <3>2 DEF Bytes
        <4> QED
          BY <1>4, <4>1 DEF Below
      <3>3. CASE \E h \in 1 .. l : i = m + h
        <4>1. PICK h \in 1 .. l : i = m + h
          BY <3>3
        <4>2. h < j /\ q[i] = t[h] /\ q[k] = t[j]
          BY <1>2, <3>1, <4>1
        <4> QED
          BY <1>1, <1>4, <4>2 DEF Ascending
      <3> QED
        BY <1>2, <3>2, <3>3
    <2> QED
      BY <1>2, <2>1, <2>2
  <1> QED
    BY <1>1, <1>3, <1>4

\* Two readers a and b and two rings x and y: nothing in a ring is older than what
\* a reader has of the same source.
Orderly(a, b, x, y) ==
    /\ Ascending(a) /\ Ascending(b) /\ Ascending(x) /\ Ascending(y)
    /\ Below(a, x) /\ Below(a, y) /\ Below(b, x) /\ Below(b, y)

\* No byte of x has the source of a byte of y.
Apart(x, y) == \A c \in Bytes(x), d \in Bytes(y) : ~SameSource(c, d)

LEMMA OrderlyTurned ==
    ASSUME NEW a, NEW b, NEW x, NEW y, Orderly(a, b, x, y), Apart(x, y)
    PROVE  /\ Orderly(b, a, x, y) /\ Orderly(a, b, y, x) /\ Orderly(b, a, y, x)
           /\ Apart(y, x)
  <1>1. Apart(y, x)
    BY DEF Apart, SameSource
  <1> QED
    BY <1>1 DEF Orderly

LEMMA BelowJoined ==
    ASSUME NEW s \in Seq(Nat), NEW t \in Seq(Nat), NEW w
    PROVE  /\ Below(s \o t, w) <=> Below(s, w) /\ Below(t, w)
           /\ Below(w, s \o t) <=> Below(w, s) /\ Below(w, t)
  <1>1. Bytes(s \o t) = Bytes(s) \cup Bytes(t)
    BY JoinedBytes
  <1> QED
    BY <1>1, Zenon DEF Below

\* A reader takes the front p of a ring.
LEMMA MovedOrder ==
    ASSUME NEW a \in Seq(Nat), NEW b \in Seq(Nat), NEW p \in Seq(Nat), NEW q \in Seq(Nat),
           NEW y \in Seq(Nat), Orderly(a, b, p \o q, y), Apart(p \o q, y)
    PROVE  Orderly(a \o p, b, q, y)
  <1>1. Ascending(p) /\ Ascending(q) /\ Below(p, q)
    BY JoinedAscending DEF Orderly
  <1>2. Below(a, p) /\ Below(a, q) /\ Below(b, q)
    BY BelowJoined DEF Orderly
  <1>3. Below(p, y)
    <2>1. Bytes(p) \subseteq Bytes(p \o q)
      BY JoinedBytes
    <2> QED
      BY <2>1 DEF Below, Apart
  <1>4. Ascending(a \o p)
    BY <1>1, <1>2, JoinedAscending DEF Orderly
  <1>5. Below(a \o p, q) /\ Below(a \o p, y)
    BY <1>1, <1>2, <1>3, BelowJoined DEF Orderly
  <1> QED
    BY <1>1, <1>2, <1>4, <1>5 DEF Orderly

\* New bytes n reach a ring.
LEMMA ArrivedOrder ==
    ASSUME NEW a \in Seq(Nat), NEW b \in Seq(Nat), NEW x \in Seq(Nat), NEW y \in Seq(Nat),
           NEW n \in Seq(Nat), Orderly(a, b, x, y),
           Ascending(n), Below(a, n), Below(b, n), Below(x, n)
    PROVE  Orderly(a, b, x \o n, y)
  <1>1. Ascending(x \o n)
    BY JoinedAscending DEF Orderly
  <1>2. Below(a, x \o n) /\ Below(b, x \o n)
    BY BelowJoined DEF Orderly
  <1> QED
    BY <1>1, <1>2 DEF Orderly

-----------------------------------------------------------------------------
(* Where the bytes are: u and s have been read by the driver and by SBI    *)
(* calls, r and t are the input rings, l is lost, nu and nt have arrived.  *)

\* Which bytes have arrived.
Arrived(nu, nt) == 1 .. nu \cup (TelBase + 1 .. TelBase + nt)

\* The UART's bytes are numbered up to TelBase, and only they are lost.
Sources(r, t, l, nu) ==
    /\ nu <= MaxTyped
    /\ IsFiniteSet(l) /\ l \subseteq 1 .. nu
    /\ \A c \in Bytes(r) : c <= TelBase
    /\ \A c \in Bytes(t) : c > TelBase

Counted(u, s, r, t, l, nu, nt) ==
    Len(u) + Len(s) + Len(r) + Len(t) + Cardinality(l) = nu + nt

Placed(u, s, r, t, l, nu, nt) ==
    Bytes(u) \cup Bytes(s) \cup Bytes(r) \cup Bytes(t) \cup l = Arrived(nu, nt)

Delivered(u, s, r, t, l, nu, nt) ==
    /\ Sources(r, t, l, nu)
    /\ Counted(u, s, r, t, l, nu, nt)
    /\ Placed(u, s, r, t, l, nu, nt)
    /\ Orderly(u, s, r, t)

OnUart == taken.uart \o uart.rx
ConsoleInv ==
    /\ Delivered(OnUart, taken.sbi, input.ring, input.tel, typed.lost, typed.uart, typed.tel)
    /\ uart.dropped = 0

LEMMA BytesNat == ASSUME NEW s \in Seq(Nat) PROVE Bytes(s) \subseteq Nat
  <1> SUFFICES ASSUME NEW i \in 1 .. Len(s) PROVE s[i] \in Nat
    BY Zenon DEF Bytes
  <1> QED
    OBVIOUS

LEMMA NotAbove == \A c, b \in Nat : c <= b => ~(c > b)
  OBVIOUS

LEMMA SourcesApart ==
    ASSUME MachineAssumption, NEW r \in Seq(Nat), NEW t \in Seq(Nat), NEW l, NEW nu,
           Sources(r, t, l, nu)
    PROVE  Apart(r, t)
  <1>1. Bytes(r) \subseteq Nat /\ Bytes(t) \subseteq Nat
    BY BytesNat
  <1> SUFFICES ASSUME NEW c \in Bytes(r), NEW d \in Bytes(t) PROVE ~SameSource(c, d)
    BY DEF Apart
  <1>2. c <= TelBase /\ d > TelBase /\ c \in Nat /\ TelBase \in Nat
    BY <1>1 DEF Sources, TelBase, MachineAssumption
  <1> QED
    BY <1>2, NotAbove DEF SameSource

LEMMA JoinedLength == ASSUME NEW s \in Seq(Nat), NEW t \in Seq(Nat) PROVE Len(s \o t) = Len(s) + Len(t)
  OBVIOUS
LEMMA MovedCount ==
    ASSUME NEW u \in Seq(Nat), NEW p \in Seq(Nat), NEW q \in Seq(Nat), NEW s \in Seq(Nat),
           NEW y \in Seq(Nat), NEW l, IsFiniteSet(l), NEW n \in Nat, NEW m \in Nat
    PROVE  /\ Counted(u, s, p \o q, y, l, n, m) => Counted(u \o p, s, q, y, l, n, m)
           /\ Counted(s, u, p \o q, y, l, n, m) => Counted(s, u \o p, q, y, l, n, m)
           /\ Counted(u, s, y, p \o q, l, n, m) => Counted(u \o p, s, y, q, l, n, m)
           /\ Counted(s, u, y, p \o q, l, n, m) => Counted(s, u \o p, y, q, l, n, m)
  <1>1. Len(p \o q) = Len(p) + Len(q) /\ Len(u \o p) = Len(u) + Len(p)
    BY JoinedLength
  <1>2. PICK k \in Nat : k = Cardinality(l)
    BY FS_CardinalityType
  <1> QED
    BY <1>1, <1>2 DEF Counted

\* The driver or an SBI call takes the front p of one of the rings.
LEMMA Moved ==
    ASSUME MachineAssumption,
           NEW u \in Seq(Nat), NEW s \in Seq(Nat), NEW p \in Seq(Nat), NEW q \in Seq(Nat),
           NEW y \in Seq(Nat), NEW l, NEW nu \in Nat, NEW nt \in Nat
    PROVE  /\ Delivered(u, s, p \o q, y, l, nu, nt) => Delivered(u \o p, s, q, y, l, nu, nt)
           /\ Delivered(u, s, p \o q, y, l, nu, nt) => Delivered(u, s \o p, q, y, l, nu, nt)
           /\ Delivered(u, s, y, p \o q, l, nu, nt) => Delivered(u \o p, s, y, q, l, nu, nt)
           /\ Delivered(u, s, y, p \o q, l, nu, nt) => Delivered(u, s \o p, y, q, l, nu, nt)
  <1>1. /\ Bytes(p \o q) = Bytes(p) \cup Bytes(q)
        /\ Bytes(u \o p) = Bytes(u) \cup Bytes(p)
        /\ Bytes(s \o p) = Bytes(s) \cup Bytes(p)
    BY JoinedBytes
  <1>2. PICK x \in Seq(Nat), v \in Seq(Nat), w \in Seq(Nat) : x = p \o q /\ v = u \o p /\ w = s \o p
    BY JoinedParts
  <1>5. ASSUME IsFiniteSet(l)
        PROVE  /\ Counted(u, s, x, y, l, nu, nt)
                    => Counted(v, s, q, y, l, nu, nt) /\ Counted(u, w, q, y, l, nu, nt)
               /\ Counted(u, s, y, x, l, nu, nt)
                    => Counted(v, s, y, q, l, nu, nt) /\ Counted(u, w, y, q, l, nu, nt)
    <2>1. /\ Counted(u, s, x, y, l, nu, nt) => Counted(v, s, q, y, l, nu, nt)
          /\ Counted(u, s, y, x, l, nu, nt) => Counted(v, s, y, q, l, nu, nt)
      BY <1>2, <1>5, MovedCount, Zenon
    <2>2. /\ Counted(u, s, x, y, l, nu, nt) => Counted(u, w, q, y, l, nu, nt)
          /\ Counted(u, s, y, x, l, nu, nt) => Counted(u, w, y, q, l, nu, nt)
      BY <1>2, <1>5, MovedCount, Zenon
    <2> QED
      BY <2>1, <2>2
  <1>6. /\ Placed(u, s, x, y, l, nu, nt)
             => Placed(v, s, q, y, l, nu, nt) /\ Placed(u, w, q, y, l, nu, nt)
        /\ Placed(u, s, y, x, l, nu, nt)
             => Placed(v, s, y, q, l, nu, nt) /\ Placed(u, w, y, q, l, nu, nt)
    BY <1>1, <1>2 DEF Placed
  <1>7. /\ Sources(x, y, l, nu) => Sources(q, y, l, nu)
        /\ Sources(y, x, l, nu) => Sources(y, q, l, nu)
    BY <1>1, <1>2 DEF Sources
  <1>8. ASSUME Delivered(u, s, x, y, l, nu, nt)
        PROVE  Delivered(v, s, q, y, l, nu, nt) /\ Delivered(u, w, q, y, l, nu, nt)
    <2>1. IsFiniteSet(l) /\ Orderly(u, s, x, y) /\ Apart(x, y) /\ Orderly(s, u, x, y)
      BY <1>8, SourcesApart, OrderlyTurned DEF Delivered, Sources
    <2>2. Orderly(v, s, q, y) /\ Orderly(w, u, q, y)
      BY <1>2, <2>1, MovedOrder
    <2>3. Orderly(u, w, q, y)
      BY <2>2 DEF Orderly
    <2> QED
      BY <1>5, <1>6, <1>7, <1>8, <2>1, <2>2, <2>3 DEF Delivered
  <1>9. ASSUME Delivered(u, s, y, x, l, nu, nt)
        PROVE  Delivered(v, s, y, q, l, nu, nt) /\ Delivered(u, w, y, q, l, nu, nt)
    <2>1. /\ IsFiniteSet(l) /\ Orderly(u, s, x, y) /\ Apart(x, y) /\ Orderly(s, u, x, y)
      BY <1>9, SourcesApart, OrderlyTurned DEF Delivered, Sources
    <2>2. Orderly(v, s, q, y) /\ Orderly(w, u, q, y)
      BY <1>2, <2>1, MovedOrder
    <2>3. Orderly(v, s, y, q) /\ Orderly(u, w, y, q)
      BY <2>2 DEF Orderly
    <2> QED
      BY <1>5, <1>6, <1>7, <1>9, <2>1, <2>3 DEF Delivered
  <1> QED
    BY <1>2, <1>8, <1>9

LEMMA LaterSums ==
    \A a, b, c, e, i, j, n, m, o, d \in Nat : e + j = d =>
        /\ a + b + c + o + i = n + m => a + b + (c + e) + o + (i + j) = n + d + m
        /\ a + b + o + c + i = n + m => a + b + o + (c + e) + (i + j) = n + (m + d)
  OBVIOUS

LEMMA ArrivedCount ==
    ASSUME NEW u \in Seq(Nat), NEW s \in Seq(Nat), NEW x \in Seq(Nat), NEW z \in Seq(Nat),
           NEW y \in Seq(Nat), NEW l, IsFiniteSet(l), NEW k, IsFiniteSet(k), l \cap k = {},
           NEW n \in Nat, NEW m \in Nat, NEW d \in Nat, Len(z) + Cardinality(k) = d
    PROVE  /\ Counted(u, s, x, y, l, n, m) => Counted(u, s, x \o z, y, l \cup k, n + d, m)
           /\ Counted(u, s, y, x, l, n, m) => Counted(u, s, y, x \o z, l \cup k, n, m + d)
  <1>1. Len(x \o z) = Len(x) + Len(z)
    BY JoinedLength
  <1>2. PICK i \in Nat, j \in Nat : i = Cardinality(l) /\ j = Cardinality(k)
    BY FS_CardinalityType
  <1>3. Cardinality(l \cup k) = i + j
    <2>1. Cardinality(l \cup k) = Cardinality(l) + Cardinality(k) - Cardinality(l \cap k)
      BY FS_Union, Zenon
    <2>2. Cardinality(l \cap k) = 0
      BY FS_EmptySet
    <2> QED
      BY <1>2, <2>1, <2>2
  <1>4. PICK a \in Nat, b \in Nat, c \in Nat, e \in Nat, o \in Nat :
           a = Len(u) /\ b = Len(s) /\ c = Len(x) /\ e = Len(z) /\ o = Len(y)
    BY JoinedLength
  <1>5. /\ Counted(u, s, x, y, l, n, m) => a + b + c + o + i = n + m
        /\ Counted(u, s, y, x, l, n, m) => a + b + o + c + i = n + m
    BY <1>2, <1>4, Zenon DEF Counted
  <1>6. e + j = d
    BY <1>2, <1>4
  <1>7. /\ a + b + c + o + i = n + m => a + b + (c + e) + o + (i + j) = n + d + m
        /\ a + b + o + c + i = n + m => a + b + o + (c + e) + (i + j) = n + (m + d)
    BY <1>6, LaterSums
  <1> QED
    BY <1>1, <1>3, <1>4, <1>5, <1>7, Zenon DEF Counted

LEMMA ArrivedRange ==
    ASSUME NEW nu \in Nat, NEW nt \in Nat, NEW b \in Nat, NEW c,
           c \in 1 .. nu \/ c \in b + 1 .. b + nt
    PROVE  c \in Nat /\ (c <= nu \/ (c > b /\ c <= b + nt))
  OBVIOUS

LEMMA OlderNumber ==
    ASSUME NEW b \in Nat, NEW m \in Nat, NEW n \in Nat, NEW c \in Nat, NEW d \in Nat,
           c <= n \/ (c > b /\ c <= b + m),
           (d <= b /\ d > n) \/ (d > b + m /\ n <= b), (c > b) = (d > b)
    PROVE  c < d
  <1>1. CASE d <= b /\ d > n
    BY <1>1
  <1>2. CASE d > b + m /\ n <= b
    BY <1>2
  <1> QED
    BY <1>1, <1>2

\* Bytes that have arrived are older than a byte that arrives.
LEMMA Older ==
    ASSUME MachineAssumption, NEW a \in Seq(Nat), NEW z, NEW nu \in Nat, NEW nt \in Nat,
           Bytes(a) \subseteq Arrived(nu, nt)
    PROVE  /\ (\A c \in Bytes(z) : c \in Nat /\ c <= TelBase /\ c > nu) => Below(a, z)
           /\ (\A c \in Bytes(z) : c \in Nat /\ c > TelBase + nt /\ nu <= TelBase) => Below(a, z)
  <1>1. TelBase \in Nat
    BY DEF TelBase, MachineAssumption
  <1>2. ASSUME NEW c \in Bytes(a)
        PROVE  c \in Nat /\ (c <= nu \/ (c > TelBase /\ c <= TelBase + nt))
    <2>1. c \in 1 .. nu \/ c \in TelBase + 1 .. TelBase + nt
      BY DEF Arrived
    <2> QED
      BY <1>1, <2>1, ArrivedRange
  <1>4. ASSUME \A d \in Bytes(z) : d \in Nat /\ ((d <= TelBase /\ d > nu) \/ (d > TelBase + nt /\ nu <= TelBase))
        PROVE  Below(a, z)
    <2> SUFFICES ASSUME NEW c \in Bytes(a), NEW d \in Bytes(z), SameSource(c, d) PROVE c < d
      BY DEF Below
    <2>1. /\ c \in Nat /\ (c <= nu \/ (c > TelBase /\ c <= TelBase + nt))
          /\ d \in Nat /\ ((d <= TelBase /\ d > nu) \/ (d > TelBase + nt /\ nu <= TelBase))
      BY <1>2, <1>4
    <2>2. (c > TelBase) = (d > TelBase)
      BY DEF SameSource
    <2> QED
      BY <1>1, <2>1, <2>2, OlderNumber
  <1> QED
    BY <1>4

\* Of n bytes that follow number nu, the first f go into z and the rest, k, are lost.
Fitting(z, nu, f) == z = [i \in 1 .. f |-> nu + i]
Refused(k, nu, f, n) == f <= n /\ k = nu + f + 1 .. nu + n
\* The ones that are lost: they are new, and with the rest they are all.
Leftover(k, nu, f, n) ==
    /\ IsFiniteSet(k) /\ f + Cardinality(k) = n
    /\ (1 .. nu) \cap k = {}
    /\ 1 .. nu + n = (1 .. nu) \cup (nu + 1 .. nu + f) \cup k

LEMMA NewBytes ==
    ASSUME NEW nu \in Nat, NEW f \in Nat, NEW z, Fitting(z, nu, f)
    PROVE  z \in Seq(Nat) /\ Len(z) = f /\ Bytes(z) = nu + 1 .. nu + f /\ Ascending(z)
  <1>1. z \in Seq(Nat) /\ Len(z) = f
    BY Arrivals DEF Fitting
  <1>2. \A i \in 1 .. f : z[i] = nu + i
    BY DEF Fitting
  <1>3. Ascending(z)
    <2> SUFFICES ASSUME NEW i \in 1 .. f, NEW j \in 1 .. f, i < j PROVE z[i] < z[j]
      BY <1>1 DEF Ascending
    <2> QED
      BY <1>2
  <1>4. Bytes(z) \subseteq nu + 1 .. nu + f
    <2> SUFFICES ASSUME NEW i \in 1 .. f PROVE z[i] \in nu + 1 .. nu + f
      BY <1>1, Zenon DEF Bytes
    <2> QED
      BY <1>2
  <1>5. nu + 1 .. nu + f \subseteq Bytes(z)
    <2> SUFFICES ASSUME NEW c \in nu + 1 .. nu + f PROVE c \in Bytes(z)
      OBVIOUS
    <2>1. PICK i \in 1 .. f : i = c - nu
      OBVIOUS
    <2>2. c = nu + i
      BY <2>1
    <2>3. c = z[i]
      BY <1>2, <2>2
    <2> QED
      BY <1>1, <2>3, Zenon DEF Bytes
  <1> QED
    BY <1>1, <1>3, <1>4, <1>5

LEMMA PlacedBytes ==
    ASSUME NEW u, NEW s, NEW r, NEW t, NEW l, NEW nu, NEW nt, Placed(u, s, r, t, l, nu, nt)
    PROVE  /\ Bytes(u) \subseteq Arrived(nu, nt) /\ Bytes(s) \subseteq Arrived(nu, nt)
           /\ Bytes(r) \subseteq Arrived(nu, nt) /\ Bytes(t) \subseteq Arrived(nu, nt)
  BY DEF Placed

LEMMA BatchNew ==
    ASSUME NEW nu \in Nat, NEW n \in Nat, NEW f \in Nat, NEW k, Refused(k, nu, f, n),
           NEW b \in Nat, nu + n <= b
    PROVE  \A c \in nu + 1 .. nu + f : c \in Nat /\ c <= b /\ c > nu
  BY DEF Refused

LEMMA BatchRest ==
    ASSUME NEW nu \in Nat, NEW n \in Nat, NEW f \in Nat, NEW k, Refused(k, nu, f, n)
    PROVE  Leftover(k, nu, f, n)
  <1>0. f <= n /\ k = nu + f + 1 .. nu + n
    BY DEF Refused
  <1>1. /\ IsFiniteSet(k)
        /\ Cardinality(k) = IF nu + f + 1 > nu + n THEN 0 ELSE nu + n - (nu + f + 1) + 1
    BY <1>0, FS_Interval
  <1>2. Cardinality(k) = n - f
    BY <1>0, <1>1
  <1>3. f + Cardinality(k) = n
    BY <1>2
  <1>4. (1 .. nu) \cap k = {}
    BY <1>0
  <1>5. 1 .. nu + n = (1 .. nu) \cup (nu + 1 .. nu + f) \cup k
    BY <1>0
  <1> QED
    BY <1>1, <1>3, <1>4, <1>5, Zenon DEF Leftover

LEMMA OneMore == \A b, n \in Nat : b + 1 .. b + (n + 1) = (b + 1 .. b + n) \cup {b + n + 1}
  OBVIOUS

\* uart_rx_isr(): n bytes arrive and f of them fit.
LEMMA UartArrival ==
    ASSUME MachineAssumption,
           NEW u \in Seq(Nat), NEW s \in Seq(Nat), NEW r \in Seq(Nat), NEW t \in Seq(Nat), NEW l,
           NEW nu \in Nat, NEW nt \in Nat, NEW n \in Nat, NEW f \in Nat, nu + n <= MaxTyped,
           NEW z, Fitting(z, nu, f), NEW k, Refused(k, nu, f, n),
           Delivered(u, s, r, t, l, nu, nt)
    PROVE  Delivered(u, s, r \o z, t, l \cup k, nu + n, nt)
  <1>0. /\ Sources(r, t, l, nu) /\ Counted(u, s, r, t, l, nu, nt)
        /\ Placed(u, s, r, t, l, nu, nt) /\ Orderly(u, s, r, t)
    BY DEF Delivered
  <1>1. z \in Seq(Nat) /\ Len(z) = f /\ Bytes(z) = nu + 1 .. nu + f /\ Ascending(z)
    BY NewBytes, Zenon
  <1>2. TelBase \in Nat /\ nu + n <= TelBase
    BY DEF TelBase, MachineAssumption
  <1>3. Bytes(r \o z) = Bytes(r) \cup Bytes(z)
    BY <1>1, JoinedBytes
  <1>b. Leftover(k, nu, f, n)
    BY BatchRest, Zenon
  <1>4. Orderly(u, s, r \o z, t)
    <2>1. \A c \in Bytes(z) : c \in Nat /\ c <= TelBase /\ c > nu
      <3>1. \A c \in nu + 1 .. nu + f : c \in Nat /\ c <= TelBase /\ c > nu
        BY <1>2, BatchNew, Zenon
      <3> QED
        BY <1>1, <3>1
    <2>2. Below(u, z) /\ Below(s, z) /\ Below(r, z)
      BY <1>0, <2>1, PlacedBytes, Older
    <2> QED
      BY <1>0, <1>1, <2>2, ArrivedOrder
  <1>5. IsFiniteSet(l) /\ l \subseteq 1 .. nu
    BY <1>0 DEF Sources
  <1>6. /\ IsFiniteSet(k) /\ f + Cardinality(k) = n /\ l \cap k = {}
        /\ l \cup k \subseteq 1 .. nu + n /\ IsFiniteSet(l \cup k)
    <2>1. IsFiniteSet(k) /\ f + Cardinality(k) = n
      BY <1>b DEF Leftover
    <2>2. l \cap k = {} /\ l \cup k \subseteq 1 .. nu + n
      BY <1>5, <1>b DEF Leftover
    <2>3. IsFiniteSet(l \cup k)
      BY <1>5, <2>1, FS_Union
    <2> QED
      BY <2>1, <2>2, <2>3
  <1>7. Counted(u, s, r \o z, t, l \cup k, nu + n, nt)
    <2>1. Len(z) + Cardinality(k) = n
      BY <1>1, <1>6
    <2> QED
      BY <1>0, <1>1, <1>5, <1>6, <2>1, ArrivedCount, Zenon
  <1>8. Placed(u, s, r \o z, t, l \cup k, nu + n, nt)
    <2>1. Arrived(nu + n, nt) = Arrived(nu, nt) \cup (nu + 1 .. nu + f) \cup k
      <3>1. 1 .. nu + n = (1 .. nu) \cup (nu + 1 .. nu + f) \cup k
        BY <1>b DEF Leftover
      <3> QED
        BY <3>1 DEF Arrived
    <2> QED
      BY <1>0, <1>1, <1>3, <2>1 DEF Placed
  <1>9. Sources(r \o z, t, l \cup k, nu + n)
    <2>1. \A c \in nu + 1 .. nu + f : c \in Nat /\ c <= TelBase /\ c > nu
      BY <1>2, BatchNew, Zenon
    <2>2. \A c \in Bytes(z) : c <= TelBase
      BY <1>1, <2>1
    <2>3. \A c \in Bytes(r \o z) : c <= TelBase
      BY <1>0, <1>3, <2>2 DEF Sources
    <2> QED
      BY <1>0, <1>6, <2>3 DEF Sources
  <1> QED
    BY <1>4, <1>7, <1>8, <1>9 DEF Delivered

LEMMA OneByte ==
    ASSUME NEW c \in Nat
    PROVE  <<c>> \in Seq(Nat) /\ Len(<<c>>) = 1 /\ Bytes(<<c>>) = {c} /\ Ascending(<<c>>)
  <1>1. <<c>> \in Seq(Nat) /\ Len(<<c>>) = 1 /\ <<c>>[1] = c
    OBVIOUS
  <1>2. 1 .. 1 = {1}
    OBVIOUS
  <1> QED
    BY <1>1, <1>2 DEF Bytes, Ascending

\* TelnetByte.
LEMMA TelArrival ==
    ASSUME MachineAssumption,
           NEW u \in Seq(Nat), NEW s \in Seq(Nat), NEW r \in Seq(Nat), NEW t \in Seq(Nat), NEW l,
           NEW nu \in Nat, NEW nt \in Nat, NEW c, c = TelBase + nt + 1,
           Delivered(u, s, r, t, l, nu, nt)
    PROVE  Delivered(u, s, r, t \o <<c>>, l, nu, nt + 1)
  <1>0. /\ Sources(r, t, l, nu) /\ Counted(u, s, r, t, l, nu, nt)
        /\ Placed(u, s, r, t, l, nu, nt) /\ Orderly(u, s, r, t)
    BY DEF Delivered
  <1>1. TelBase \in Nat /\ nu <= TelBase
    BY <1>0 DEF TelBase, MachineAssumption, Sources
  <1>2. c \in Nat /\ c > TelBase /\ c > TelBase + nt
    BY <1>1
  <1>3. PICK z \in Seq(Nat) : z = <<c>> /\ Len(z) = 1 /\ Bytes(z) = {c} /\ Ascending(z)
    BY <1>2, OneByte
  <1>4. Bytes(t \o z) = Bytes(t) \cup {c}
    <2>1. Bytes(t \o z) = Bytes(t) \cup Bytes(z)
      BY JoinedBytes
    <2> QED
      BY <1>3, <2>1
  <1>5. Orderly(u, s, r, t \o z)
    <2>1. \A d \in Bytes(z) : d \in Nat /\ d > TelBase + nt /\ nu <= TelBase
      BY <1>1, <1>2, <1>3
    <2>2. Below(u, z) /\ Below(s, z) /\ Below(t, z)
      BY <1>0, <2>1, PlacedBytes, Older
    <2>3. Orderly(u, s, t, r)
      BY <1>0, SourcesApart, OrderlyTurned
    <2>4. Orderly(u, s, t \o z, r)
      BY <1>3, <2>2, <2>3, ArrivedOrder
    <2> QED
      BY <2>4 DEF Orderly
  <1>6. Counted(u, s, r, t \o z, l, nu, nt + 1)
    <2>1. IsFiniteSet({}) /\ Len(z) + Cardinality({}) = 1
      BY <1>3, FS_EmptySet
    <2>2. IsFiniteSet(l) /\ l \cap {} = {} /\ l \cup {} = l
      BY <1>0 DEF Sources
    <2>3. Counted(u, s, r, t \o z, l \cup {}, nu, nt + 1)
      BY <1>0, <2>1, <2>2, ArrivedCount
    <2> QED
      BY <2>2, <2>3
  <1>7. Placed(u, s, r, t \o z, l, nu, nt + 1)
    <2>1. TelBase + 1 .. TelBase + (nt + 1) = (TelBase + 1 .. TelBase + nt) \cup {c}
      BY <1>1, OneMore
    <2> QED
      BY <1>0, <1>4, <2>1 DEF Placed, Arrived
  <1>8. Sources(r, t \o z, l, nu)
    BY <1>0, <1>2, <1>4 DEF Sources
  <1> QED
    BY <1>3, <1>5, <1>6, <1>7, <1>8 DEF Delivered

\* What the invariant says of the console.
LEMMA DeliveredMeans ==
    ASSUME MachineAssumption,
           NEW u \in Seq(Nat), NEW s \in Seq(Nat), NEW r \in Seq(Nat), NEW t \in Seq(Nat), NEW l,
           NEW nu \in Nat, NEW nt \in Nat, Delivered(u, s, r, t, l, nu, nt)
    PROVE  LET all == u \o s \o r \o t
           IN  /\ Len(all) + Cardinality(l) = nu + nt
               /\ Bytes(all) \cup l = 1 .. nu \cup (TelBase + 1 .. TelBase + nt)
               /\ Ascending(u \o r \o t) /\ Ascending(s \o r \o t)
  <1>0. /\ Sources(r, t, l, nu) /\ Counted(u, s, r, t, l, nu, nt)
        /\ Placed(u, s, r, t, l, nu, nt) /\ Orderly(u, s, r, t)
    BY DEF Delivered
  <1>1. PICK a \in Seq(Nat), b \in Seq(Nat), c \in Seq(Nat), d \in Seq(Nat) :
           a = u \o s /\ b = a \o r /\ c = u \o r /\ d = s \o r
    <2>1. \A x, y \in Seq(Nat) : x \o y \in Seq(Nat)
      BY JoinedParts
    <2> QED
      BY <2>1, Zenon
  <1>2. Len(b \o t) = Len(u) + Len(s) + Len(r) + Len(t)
    BY <1>1, JoinedLength
  <1>3. Bytes(b \o t) = Bytes(u) \cup Bytes(s) \cup Bytes(r) \cup Bytes(t)
    <2>1. /\ Bytes(a) = Bytes(u) \cup Bytes(s) /\ Bytes(b) = Bytes(a) \cup Bytes(r)
          /\ Bytes(b \o t) = Bytes(b) \cup Bytes(t)
      BY <1>1, JoinedBytes, Zenon
    <2> QED
      BY <2>1
  <1>4. Below(r, t)
    BY <1>0, SourcesApart DEF Apart, Below
  <1>5. Ascending(c) /\ Ascending(d)
    BY <1>0, <1>1, JoinedAscending DEF Orderly
  <1>6. Below(c, t) /\ Below(d, t)
    BY <1>0, <1>1, <1>4, BelowJoined DEF Orderly
  <1>7. Ascending(c \o t) /\ Ascending(d \o t)
    BY <1>0, <1>5, <1>6, JoinedAscending DEF Orderly
  <1> QED
    BY <1>0, <1>1, <1>2, <1>3, <1>7 DEF Counted, Placed, Arrived

-----------------------------------------------------------------------------
(* The steps.                                                              *)

AllTypes == /\ uart \in UartType /\ input \in InputType /\ typed \in TypedType
            /\ taken \in TakenType /\ Len(input.ring) <= PlatRing

LEMMA FrontOf ==
    ASSUME NEW s \in Seq(Nat), s # <<>>
    PROVE  /\ Head(s) \in Nat /\ Tail(s) \in Seq(Nat) /\ <<Head(s)>> \in Seq(Nat)
           /\ <<Head(s)>> \o Tail(s) = s
  OBVIOUS

LEMMA AppendOf ==
    ASSUME NEW s \in Seq(Nat), NEW c \in Nat
    PROVE  Append(s, c) = s \o <<c>>
  OBVIOUS

LEMMA JoinedTwice ==
    ASSUME NEW x \in Seq(Nat), NEW y \in Seq(Nat), NEW z \in Seq(Nat)
    PROVE  (x \o y) \o z = x \o (y \o z)
  OBVIOUS

\* A byte enters the 8250's ring, and one goes from there to the driver.
LEMMA PassedIn ==
    ASSUME NEW s \in Seq(Nat), NEW t \in Seq(Nat), NEW c \in Nat
    PROVE  s \o Append(t, c) = Append(s \o t, c)
  <1>0. <<c>> \in Seq(Nat) /\ s \o t \in Seq(Nat)
    BY OneByte, JoinedParts
  <1>1. PICK q \in Seq(Nat), w \in Seq(Nat) : q = <<c>> /\ w = s \o t
    BY <1>0
  <1>2. Append(t, c) = t \o q /\ Append(w, c) = w \o q
    BY <1>1, AppendOf
  <1>3. (s \o t) \o q = s \o (t \o q)
    BY JoinedTwice
  <1> QED
    BY <1>1, <1>2, <1>3

LEMMA PassedOn ==
    ASSUME NEW s \in Seq(Nat), NEW t \in Seq(Nat), t # <<>>
    PROVE  Append(s, Head(t)) \o Tail(t) = s \o t
  <1>1. PICK c \in Nat, q \in Seq(Nat), h \in Seq(Nat) :
           c = Head(t) /\ q = Tail(t) /\ h = <<c>> /\ h \o q = t
    BY FrontOf
  <1>2. Append(s, c) = s \o h
    BY <1>1, AppendOf
  <1>3. (s \o h) \o q = s \o (h \o q)
    BY JoinedTwice
  <1> QED
    BY <1>1, <1>2, <1>3

\* A byte is taken from the input rings.
LEMMA NextTaken ==
    ASSUME MachineAssumption, input \in InputType, HasInput, input' = RestOfInput,
           NEW u \in Seq(Nat), NEW s \in Seq(Nat), NEW l, NEW nu \in Nat, NEW nt \in Nat,
           Delivered(u, s, input.ring, input.tel, l, nu, nt)
    PROVE  /\ Delivered(Append(u, NextByte), s, input'.ring, input'.tel, l, nu, nt)
           /\ Delivered(u, Append(s, NextByte), input'.ring, input'.tel, l, nu, nt)
  <1>1. input.ring \in Seq(Nat) /\ input.tel \in Seq(Nat)
    BY DEF InputType
  <1>2. NextByte \in Nat
    BY InputRest
  <1>3. /\ Append(u, NextByte) = u \o <<NextByte>>
        /\ Append(s, NextByte) = s \o <<NextByte>>
    BY <1>2, AppendOf
  <1>4. CASE input.tel # <<>>
    <2>1. NextByte = Head(input.tel) /\ input'.tel = Tail(input.tel) /\ input'.ring = input.ring
      BY <1>4 DEF NextByte, RestOfInput, InputType
    <2>2. PICK p \in Seq(Nat), q \in Seq(Nat) :
             p = <<NextByte>> /\ q = Tail(input.tel) /\ p \o q = input.tel
      BY <1>1, <1>4, <2>1, FrontOf
    <2>3. Delivered(u, s, input.ring, p \o q, l, nu, nt)
      BY <2>2
    <2>4. /\ Delivered(u \o p, s, input.ring, q, l, nu, nt)
          /\ Delivered(u, s \o p, input.ring, q, l, nu, nt)
      BY <1>1, <2>3, Moved
    <2> QED
      BY <1>3, <2>1, <2>2, <2>4
  <1>5. CASE input.tel = <<>>
    <2>0. input.ring # <<>>
      BY <1>5 DEF HasInput
    <2>1. NextByte = Head(input.ring) /\ input'.ring = Tail(input.ring) /\ input'.tel = input.tel
      BY <1>5 DEF NextByte, RestOfInput, InputType
    <2>2. PICK p \in Seq(Nat), q \in Seq(Nat) :
             p = <<NextByte>> /\ q = Tail(input.ring) /\ p \o q = input.ring
      BY <1>1, <2>0, <2>1, FrontOf
    <2>3. Delivered(u, s, p \o q, input.tel, l, nu, nt)
      BY <2>2
    <2>4. /\ Delivered(u \o p, s, q, input.tel, l, nu, nt)
          /\ Delivered(u, s \o p, q, input.tel, l, nu, nt)
      BY <1>1, <2>3, Moved
    <2> QED
      BY <1>3, <2>1, <2>2, <2>4
  <1> QED
    BY <1>4, <1>5

LEMMA SplitAt ==
    ASSUME NEW s \in Seq(Nat), NEW n \in 0 .. Len(s)
    PROVE  SubSeq(s, 1, n) \o SubSeq(s, n + 1, Len(s)) = s
  <1>0. Len(s) \in Nat
    OBVIOUS
  <1>1. SubSeq(s, 1, n) \o SubSeq(s, n + 1, Len(s)) = SubSeq(s, 1, Len(s))
    <2>1. 1 \in 1 .. Len(s) + 1 /\ n \in 1 - 1 .. Len(s) /\ Len(s) \in n .. Len(s)
      BY <1>0
    <2> QED
      BY <2>1, ConcatAdjacentSubSeq
  <1> QED
    BY <1>1, SubSeqFull

LEMMA FrontSeq ==
    ASSUME NEW s \in Seq(Nat), NEW n \in 0 .. Len(s)
    PROVE  /\ SubSeq(s, 1, n) \in Seq(Nat) /\ Len(SubSeq(s, 1, n)) = n
           /\ \A i \in 1 .. n : SubSeq(s, 1, n)[i] = s[i]
  OBVIOUS

\* console_read(): the telnet client's bytes first, then the UART's.
FullFirst(k, m, t) == m = 0 \/ k = Len(t)

LEMMA ReadFront ==
    ASSUME NEW t \in Seq(Nat), NEW r \in Seq(Nat), NEW k \in 0 .. Len(t), NEW m \in 0 .. Len(r),
           FullFirst(k, m, t)
    PROVE  SubSeq(t \o r, 1, k + m) = SubSeq(t, 1, k) \o SubSeq(r, 1, m)
  <1>0. Len(t) \in Nat /\ Len(r) \in Nat /\ k \in Nat /\ m \in Nat /\ k + m \in 0 .. Len(t) + Len(r)
    OBVIOUS
  <1>1. PICK w \in Seq(Nat) : w = t \o r /\ Len(w) = Len(t) + Len(r)
    BY JoinedParts
  <1>2. PICK a \in Seq(Nat), b \in Seq(Nat), c \in Seq(Nat) :
           a = SubSeq(t, 1, k) /\ b = SubSeq(r, 1, m) /\ c = SubSeq(w, 1, k + m)
    BY <1>0, <1>1, FrontSeq
  <1>3. Len(a) = k /\ Len(b) = m /\ Len(c) = k + m
    BY <1>0, <1>1, <1>2, FrontSeq
  <1>4. /\ \A i \in 1 .. k : a[i] = t[i] /\ i \in 1 .. Len(t)
        /\ \A i \in 1 .. m : b[i] = r[i] /\ i \in 1 .. Len(r)
        /\ \A i \in 1 .. k + m : c[i] = w[i]
    <2>1. /\ \A i \in 1 .. k : a[i] = t[i]
          /\ \A i \in 1 .. m : b[i] = r[i]
          /\ \A i \in 1 .. k + m : c[i] = w[i]
      BY <1>0, <1>1, <1>2, FrontSeq
    <2>2. 1 .. k \subseteq 1 .. Len(t) /\ 1 .. m \subseteq 1 .. Len(r)
      BY <1>0
    <2> QED
      BY <2>1, <2>2
  <1>5. PICK d \in Seq(Nat) : d = a \o b /\ Len(d) = k + m
    BY <1>3, JoinedParts
  <1>8. \A j \in 1 .. Len(r) : w[Len(t) + j] = r[j]
    <2>1. \A j \in 1 .. Len(r) : (t \o r)[Len(t) + j] = r[j]
      BY JoinedParts
    <2> QED
      BY <1>1, <2>1, Zenon
  <1>9. \A j \in 1 .. Len(b) : d[Len(a) + j] = b[j]
    <2>1. \A j \in 1 .. Len(b) : (a \o b)[Len(a) + j] = b[j]
      BY JoinedParts
    <2> QED
      BY <1>5, <2>1, Zenon
  <1>6. ASSUME NEW i \in 1 .. k + m PROVE c[i] = d[i]
    <2>1. CASE i \in 1 .. k
      <3>1. w[i] = t[i]
        BY <1>1, <1>4, <2>1, JoinedParts
      <3>2. d[i] = a[i]
        BY <1>3, <1>5, <2>1, JoinedParts
      <3> QED
        BY <1>4, <2>1, <3>1, <3>2
    <2>2. CASE i \notin 1 .. k
      <3>1. PICK j \in 1 .. m : i = k + j
        <4>1. i - k \in 1 .. m /\ i = k + (i - k)
          BY <1>0, <2>2
        <4> QED
          BY <4>1
      <3>2. k = Len(t)
        BY <1>0, <3>1 DEF FullFirst
      <3>3. w[Len(t) + j] = r[j]
        BY <1>4, <1>8
      <3>4. d[Len(a) + j] = b[j]
        BY <1>3, <1>9
      <3>5. w[i] = r[j] /\ d[i] = b[j]
        BY <1>3, <3>1, <3>2, <3>3, <3>4
      <3> QED
        BY <1>4, <3>5
    <2> QED
      BY <2>1, <2>2
  <1>7. c = d
    BY <1>3, <1>5, <1>6, SeqEqual
  <1> QED
    BY <1>1, <1>2, <1>5, <1>7

ReadOneByOne(s, t, r, k, m) ==
    (s \o SubSeq(t, 1, k)) \o SubSeq(r, 1, m) = s \o SubSeq(t \o r, 1, k + m)

LEMMA ReadJoined ==
    ASSUME NEW s \in Seq(Nat), NEW t \in Seq(Nat), NEW r \in Seq(Nat),
           NEW k \in 0 .. Len(t), NEW m \in 0 .. Len(r), FullFirst(k, m, t)
    PROVE  ReadOneByOne(s, t, r, k, m)
  <1>1. SubSeq(t \o r, 1, k + m) = SubSeq(t, 1, k) \o SubSeq(r, 1, m)
    BY ReadFront
  <1>2. SubSeq(t, 1, k) \in Seq(Nat) /\ SubSeq(r, 1, m) \in Seq(Nat)
    BY FrontSeq
  <1>3. (s \o SubSeq(t, 1, k)) \o SubSeq(r, 1, m) = s \o (SubSeq(t, 1, k) \o SubSeq(r, 1, m))
    BY <1>2, JoinedTwice
  <1> QED
    BY <1>1, <1>3 DEF ReadOneByOne

\* console_read() takes n bytes, k of them from the telnet client.
LEMMA ReadTaken ==
    ASSUME MachineAssumption,
           NEW u \in Seq(Nat), NEW s \in Seq(Nat), NEW r \in Seq(Nat), NEW t \in Seq(Nat), NEW l,
           NEW nu \in Nat, NEW nt \in Nat, Delivered(u, s, r, t, l, nu, nt),
           NEW k \in 0 .. Len(t), NEW m \in 0 .. Len(r), FullFirst(k, m, t)
    PROVE  Delivered(u, s \o SubSeq(t \o r, 1, k + m), SubSeq(r, m + 1, Len(r)),
                     SubSeq(t, k + 1, Len(t)), l, nu, nt)
  <1>0. (s \o SubSeq(t, 1, k)) \o SubSeq(r, 1, m) = s \o SubSeq(t \o r, 1, k + m)
    <2>1. ReadOneByOne(s, t, r, k, m)
      BY ReadJoined
    <2> QED
      BY <2>1, Zenon DEF ReadOneByOne
  <1>1. PICK a \in Seq(Nat), b \in Seq(Nat), c \in Seq(Nat), d \in Seq(Nat) :
           /\ a = SubSeq(t, 1, k) /\ b = SubSeq(r, 1, m)
           /\ c = SubSeq(t, k + 1, Len(t)) /\ d = SubSeq(r, m + 1, Len(r))
    BY ByteSplit
  <1>2. a \o c = t /\ b \o d = r
    BY <1>1, SplitAt
  <1>3. PICK w \in Seq(Nat) : w = s \o a
    BY JoinedParts
  <1>4. Delivered(u, w, r, c, l, nu, nt)
    <2>1. Delivered(u, s, r, a \o c, l, nu, nt)
      BY <1>2
    <2> QED
      BY <1>3, <2>1, Moved
  <1>5. Delivered(u, w \o b, d, c, l, nu, nt)
    <2>1. Delivered(u, w, b \o d, c, l, nu, nt)
      BY <1>2, <1>4
    <2> QED
      BY <2>1, Moved
  <1>6. w \o b = s \o SubSeq(t \o r, 1, k + m)
    BY <1>0, <1>1, <1>3
  <1> QED
    BY <1>1, <1>5, <1>6

LEMMA ConsoleStep ==
    ASSUME MachineAssumption, AllTypes, ConsoleInv, [MachineNext]_vars
    PROVE  ConsoleInv'
  <1> USE DEF devVars, inVars
  <1>0. /\ Delivered(OnUart, taken.sbi, input.ring, input.tel, typed.lost, typed.uart, typed.tel)
        /\ uart.dropped = 0
    BY DEF ConsoleInv
  <1>r. /\ input.ring \in Seq(Nat) /\ input.tel \in Seq(Nat) /\ uart.rx \in Seq(Nat)
        /\ taken.uart \in Seq(Nat) /\ taken.sbi \in Seq(Nat)
        /\ typed.uart \in Nat /\ typed.tel \in Nat /\ PlatRing \in Nat
    BY DEF AllTypes, UartType, InputType, TakenType, TypedType, MachineAssumption
  <1>l. Len(input.ring) \in Nat /\ Len(input.tel) \in Nat
    BY <1>r, ByteSeq
  <1>u. OnUart \in Seq(Nat)
    BY <1>r, ByteSeq DEF OnUart
  <1>k. ASSUME OnUart' = OnUart, taken'.sbi = taken.sbi, UNCHANGED <<input, typed>>,
               uart'.dropped = uart.dropped
        PROVE  ConsoleInv'
    BY <1>0, <1>k DEF ConsoleInv
  <1>1. ASSUME UNCHANGED <<uart, input, typed, taken>> PROVE ConsoleInv'
    BY <1>k, <1>1 DEF OnUart
  <1>2. ASSUME UNCHANGED <<input, typed, taken>>,
               \/ uart' = [uart EXCEPT !.rdi = TRUE]
               \/ uart' = [uart EXCEPT !.thri = TRUE]
               \/ uart' = [uart EXCEPT !.thri = FALSE]
               \/ uart' = uart
        PROVE  ConsoleInv'
    <2>1. uart'.rx = uart.rx /\ uart'.dropped = uart.dropped
      BY <1>2 DEF AllTypes, UartType
    <2> QED
      BY <1>k, <1>2, <2>1 DEF OnUart
  <1>3. ASSUME PollInput PROVE ConsoleInv'
    <2>1. CASE ~(HasRoom /\ HasInput)
      BY <1>1, <1>3, <2>1 DEF PollInput
    <2>2. CASE HasRoom /\ HasInput
      <3>1. /\ PushRx(NextByte) /\ input' = RestOfInput /\ UNCHANGED <<typed, taken>>
        BY <1>3, <2>2 DEF PollInput
      <3>2. ~(Len(uart.rx) >= RxRing - 1)
        <4>1. Len(uart.rx) \in Nat /\ RxRing \in Nat
          BY <1>r, ByteSeq DEF MachineAssumption
        <4> QED
          BY <2>2, <4>1 DEF HasRoom
      <3>3. uart' = [uart EXCEPT !.rx = Append(@, NextByte)]
        BY <3>1, <3>2 DEF PushRx, SetUart
      <3>4. uart'.rx = Append(uart.rx, NextByte) /\ uart'.dropped = uart.dropped
        BY <3>3 DEF AllTypes, UartType
      <3>5. NextByte \in Nat
        BY <2>2, InputRest DEF AllTypes
      <3>6. OnUart' = Append(OnUart, NextByte)
        <4>0. taken.uart \in Seq(Nat) /\ uart.rx \in Seq(Nat)
          BY <1>r
        <4>1. taken.uart \o Append(uart.rx, NextByte) = Append(taken.uart \o uart.rx, NextByte)
          BY <3>5, <4>0, PassedIn
        <4> QED
          BY <3>1, <3>4, <4>1 DEF OnUart
      <3>7. Delivered(Append(OnUart, NextByte), taken.sbi, input'.ring, input'.tel, typed.lost,
                      typed.uart, typed.tel)
        BY <1>0, <1>r, <1>u, <2>2, <3>1, NextTaken DEF AllTypes
      <3> QED
        BY <1>0, <3>1, <3>4, <3>6, <3>7 DEF ConsoleInv
    <2> QED
      BY <2>1, <2>2
  <1>4. ASSUME UartReceive PROVE ConsoleInv'
    <2>1. /\ uart.rx # <<>> /\ UNCHANGED <<input, typed>>
          /\ uart' = [uart EXCEPT !.rx = Tail(@)]
          /\ taken' = [taken EXCEPT !.uart = Append(@, Head(uart.rx))]
      BY <1>4 DEF UartReceive, SetUart
    <2>3. uart'.rx = Tail(uart.rx) /\ uart'.dropped = uart.dropped
      BY <2>1 DEF AllTypes, UartType
    <2>4. taken'.uart = Append(taken.uart, Head(uart.rx)) /\ taken'.sbi = taken.sbi
      BY <2>1 DEF AllTypes, TakenType
    <2>5. Append(taken.uart, Head(uart.rx)) \o Tail(uart.rx) = taken.uart \o uart.rx
      BY <1>r, <2>1, PassedOn
    <2>6. OnUart' = OnUart
      BY <2>3, <2>4, <2>5 DEF OnUart
    <2> QED
      BY <1>k, <2>1, <2>3, <2>4, <2>6
  <1>5. ASSUME SbiGetchar PROVE ConsoleInv'
    <2>1. /\ HasInput /\ input' = RestOfInput /\ UNCHANGED <<uart, typed>>
          /\ taken' = [taken EXCEPT !.sbi = Append(@, NextByte)]
      BY <1>5 DEF SbiGetchar
    <2>2. taken'.sbi = Append(taken.sbi, NextByte) /\ taken'.uart = taken.uart
      BY <2>1 DEF AllTypes, TakenType
    <2>3. Delivered(OnUart, Append(taken.sbi, NextByte), input'.ring, input'.tel, typed.lost,
                    typed.uart, typed.tel)
      BY <1>0, <1>r, <1>u, <2>1, NextTaken DEF AllTypes
    <2>4. OnUart' = OnUart
      BY <2>1, <2>2 DEF OnUart
    <2> QED
      BY <1>0, <2>1, <2>2, <2>3, <2>4 DEF ConsoleInv
  <1>6. ASSUME NEW base, NEW len \in Int, SbiConsoleRead(base, len) PROVE ConsoleInv'
    <2> DEFINE waiting == input.tel \o input.ring
               n == IF len < Len(waiting) THEN len ELSE Len(waiting)
               k == IF n < Len(input.tel) THEN n ELSE Len(input.tel)
    <2>1. /\ taken' = [taken EXCEPT !.sbi = @ \o SubSeq(waiting, 1, n)]
          /\ input' = [tel |-> SubSeq(input.tel, k + 1, Len(input.tel)),
                       ring |-> SubSeq(input.ring, n - k + 1, Len(input.ring))]
          /\ UNCHANGED <<uart, typed>> /\ len > 0
      BY <1>6 DEF SbiConsoleRead
    <2>2. waiting \in Seq(Nat) /\ Len(waiting) = Len(input.tel) + Len(input.ring)
      BY <1>r, ByteSeq
    <2>3. len \in Nat
      BY <2>1
    <2>a. /\ n = IF len < Len(waiting) THEN len ELSE Len(waiting)
          /\ k = IF n < Len(input.tel) THEN n ELSE Len(input.tel)
      OBVIOUS
    <2>w. waiting = input.tel \o input.ring
      OBVIOUS
    <2> HIDE DEF waiting, n, k
    <2>4. /\ n \in 0 .. Len(waiting) /\ k \in 0 .. Len(input.tel)
          /\ n - k \in 0 .. Len(input.ring)
      BY <1>l, <2>2, <2>3, <2>a, Split
    <2>b. k + (n - k) = n /\ FullFirst(k, n - k, input.tel)
      <3>0. Len(waiting) \in Nat
        BY <2>2, ByteSeq
      <3>1. PICK a \in Nat, b \in Nat : a = Len(input.tel) /\ b = Len(waiting)
        BY <1>l, <3>0
      <3>2. n \in Int /\ k \in Int
        BY <2>4, <3>1
      <3>3. n - k = 0 \/ k = a
        BY <2>a, <3>1, <3>2
      <3>4. k + (n - k) = n
        BY <3>2
      <3> QED
        BY <3>1, <3>3, <3>4 DEF FullFirst
    <2>5. Delivered(OnUart, taken.sbi \o SubSeq(waiting, 1, n),
                    SubSeq(input.ring, n - k + 1, Len(input.ring)),
                    SubSeq(input.tel, k + 1, Len(input.tel)), typed.lost, typed.uart, typed.tel)
      <3>1. PICK m \in 0 .. Len(input.ring) : m = n - k
        BY <2>4
      <3>2. FullFirst(k, m, input.tel)
        BY <2>b, <3>1
      <3>3. Delivered(OnUart, taken.sbi \o SubSeq(input.tel \o input.ring, 1, k + m),
                      SubSeq(input.ring, m + 1, Len(input.ring)),
                      SubSeq(input.tel, k + 1, Len(input.tel)), typed.lost, typed.uart, typed.tel)
        BY <1>0, <1>r, <1>u, <2>4, <3>2, ReadTaken
      <3> QED
        BY <2>b, <2>w, <3>1, <3>3
    <2>6. taken'.sbi = taken.sbi \o SubSeq(waiting, 1, n) /\ taken'.uart = taken.uart
      BY <2>1 DEF AllTypes, TakenType
    <2>7. OnUart' = OnUart
      BY <2>1, <2>6 DEF OnUart
    <2> QED
      BY <1>0, <2>1, <2>5, <2>6, <2>7 DEF ConsoleInv
  <1>7. ASSUME NEW n \in 1 .. Burst, UartRxIsr(n) PROVE ConsoleInv'
    <2> DEFINE fits == IF n <= PlatRing - Len(input.ring) THEN n
                       ELSE PlatRing - Len(input.ring)
    <2>1. /\ input' = [input EXCEPT !.ring = @ \o [i \in 1 .. fits |-> typed.uart + i]]
          /\ typed' = [typed EXCEPT !.uart = @ + n,
                           !.lost = @ \cup (typed.uart + fits + 1 .. typed.uart + n)]
          /\ UNCHANGED <<uart, taken>> /\ typed.uart + n <= MaxTyped
      BY <1>7 DEF UartRxIsr
    <2>2. n \in Nat
      BY DEF MachineAssumption
    <2>3. fits \in Nat /\ fits <= n
      <3>1. \A a, b \in Nat : LET f == IF n <= b - a THEN n ELSE b - a
                             IN a <= b => f \in Nat /\ f <= n
        BY <2>2
      <3> QED
        BY <1>r, <1>l, <3>1 DEF AllTypes
    <2> HIDE DEF fits
    <2>4. PICK z : z = [i \in 1 .. fits |-> typed.uart + i]
      OBVIOUS
    <2>5. PICK k : k = typed.uart + fits + 1 .. typed.uart + n
      OBVIOUS
    <2>6. Fitting(z, typed.uart, fits) /\ Refused(k, typed.uart, fits, n)
      BY <2>3, <2>4, <2>5, Zenon DEF Fitting, Refused
    <2>7. /\ input'.ring = input.ring \o z /\ input'.tel = input.tel
          /\ typed'.uart = typed.uart + n /\ typed'.tel = typed.tel
          /\ typed'.lost = typed.lost \cup k
      <3>1. /\ input' = [input EXCEPT !.ring = @ \o z]
            /\ typed' = [typed EXCEPT !.uart = @ + n, !.lost = @ \cup k]
        BY <2>1, <2>4, <2>5
      <3> QED
        BY <3>1 DEF AllTypes, InputType, TypedType
    <2>8. Delivered(OnUart, taken.sbi, input.ring \o z, input.tel, typed.lost \cup k,
                    typed.uart + n, typed.tel)
      BY <1>0, <1>r, <1>u, <2>1, <2>2, <2>3, <2>6, UartArrival
    <2>9. OnUart' = OnUart
      BY <2>1 DEF OnUart
    <2> QED
      BY <1>0, <2>1, <2>7, <2>8, <2>9 DEF ConsoleInv
  <1>8. ASSUME TelnetByte PROVE ConsoleInv'
    <2>1. PICK c \in Nat : c = TelBase + typed.tel + 1
      <3>1. TelBase + typed.tel + 1 \in Nat
        BY <1>r, NatSum DEF TelBase, MachineAssumption
      <3> QED
        BY <3>1
    <2>2. /\ input' = [input EXCEPT !.tel = Append(@, c)] /\ typed' = [typed EXCEPT !.tel = @ + 1]
          /\ UNCHANGED <<uart, taken>>
      BY <1>8, <2>1 DEF TelnetByte
    <2>3. /\ input'.ring = input.ring /\ input'.tel = Append(input.tel, c)
          /\ typed'.uart = typed.uart /\ typed'.tel = typed.tel + 1 /\ typed'.lost = typed.lost
      BY <2>2 DEF AllTypes, InputType, TypedType
    <2>4. Append(input.tel, c) = input.tel \o <<c>>
      BY <1>r, AppendOf
    <2>5. Delivered(OnUart, taken.sbi, input.ring, input.tel \o <<c>>, typed.lost,
                    typed.uart, typed.tel + 1)
      BY <1>0, <1>r, <1>u, <2>1, TelArrival
    <2>6. OnUart' = OnUart
      BY <2>2 DEF OnUart
    <2> QED
      BY <1>0, <2>2, <2>3, <2>4, <2>5, <2>6 DEF ConsoleInv
  <1>9. ASSUME TimerUpdate \/ (\E f \in BOOLEAN : NetPoll(f)) \/ \E n \in 0 .. MaxSlice : SliceEnd(n)
        PROVE  ConsoleInv'
    BY <1>1, <1>9 DEF TimerUpdate, NetPoll, SliceEnd
  <1>10. ASSUME (\E d \in Delays : SbiSetTimer(d)) \/ SbiSendIpi
                \/ \E type \in ResetTypes : SystemReset(type)
         PROVE  ConsoleInv'
    BY <1>1, <1>10 DEF SbiSetTimer, SbiSendIpi, SystemReset
  <1>11. ASSUME OpenConsole \/ StartTx \/ UartTransmit PROVE ConsoleInv'
    BY <1>2, <1>11 DEF OpenConsole, StartTx, UartTransmit, SetUart
  <1>12. ASSUME \/ GoIdle \/ KernelWfi \/ Woken \/ SoftIrq \/ TimerIrq \/ Claim \/ NetServe \/ Complete
                \/ \E irq \in {SSIP, STIP, SEIP} : TakeInterrupt(irq)
         PROVE  ConsoleInv'
    BY <1>1, <1>12 DEF GoIdle, KernelWfi, Woken, SoftIrq, TimerIrq, Claim, NetServe, Complete, TakeInterrupt
  <1>13. ASSUME UNCHANGED vars PROVE ConsoleInv'
    BY <1>1, <1>13 DEF vars
  <1>14. {1, 2, RamSize, AddrMod - 1} \subseteq Int
    BY DEF MachineAssumption
  <1> QED
    BY <1>3, <1>4, <1>5, <1>6, <1>7, <1>8, <1>9, <1>10, <1>11, <1>12, <1>13, <1>14
    DEF MachineNext, Devices, Sbi, Kernel, World, Stopped

LEMMA ConsoleInitial == ASSUME MachineAssumption, MachineInit PROVE ConsoleInv
  <1>1. /\ OnUart = <<>> /\ taken.sbi = <<>> /\ input.ring = <<>> /\ input.tel = <<>>
        /\ typed.lost = {} /\ typed.uart = 0 /\ typed.tel = 0 /\ uart.dropped = 0
    BY DEF MachineInit, OnUart
  <1>2. Bytes(<<>>) = {} /\ Len(<<>>) = 0 /\ Ascending(<<>>)
    BY DEF Bytes, Ascending
  <1>3. IsFiniteSet({}) /\ Cardinality({}) = 0
    BY FS_EmptySet
  <1>4. MaxTyped \in Nat /\ TelBase \in Nat
    BY DEF MachineAssumption, TelBase
  <1>5. Sources(<<>>, <<>>, {}, 0)
    BY <1>2, <1>3, <1>4 DEF Sources
  <1>6. Counted(<<>>, <<>>, <<>>, <<>>, {}, 0, 0)
    BY <1>2, <1>3 DEF Counted
  <1>7. Placed(<<>>, <<>>, <<>>, <<>>, {}, 0, 0)
    <2>1. 1 .. 0 = {} /\ TelBase + 1 .. TelBase + 0 = {}
      BY <1>4
    <2> QED
      BY <1>2, <2>1 DEF Placed, Arrived
  <1>8. Orderly(<<>>, <<>>, <<>>, <<>>)
    BY <1>2 DEF Orderly, Below
  <1> QED
    BY <1>1, <1>5, <1>6, <1>7, <1>8 DEF ConsoleInv, Delivered

LEMMA BufferStep ==
    ASSUME MachineAssumption, BufferInRam, [MachineNext]_vars
    PROVE  BufferInRam'
  <1>0. RamBase \in Nat /\ RamSize \in Nat /\ AddrMod - 1 \in Int
    BY DEF MachineAssumption
  <1>1. ASSUME buffer' = buffer PROVE BufferInRam'
    BY <1>1 DEF BufferInRam
  <1>2. ASSUME NEW n, SliceEnd(n) PROVE BufferInRam'
    BY <1>0, <1>2 DEF SliceEnd, NoBuffer, BufferInRam
  <1>3. ASSUME NEW base \in Buffers, NEW len \in {1, 2, RamSize, AddrMod - 1},
               SbiConsoleRead(base, len)
        PROVE  BufferInRam'
    <2>1. base \in Int /\ len \in Int
      BY <1>0 DEF Buffers
    <2>2. PhysOk(base, len) /\ buffer' = [base |-> base, len |-> len]
      BY <1>3 DEF SbiConsoleRead
    <2> QED
      BY <1>0, <2>1, <2>2 DEF PhysOk, BufferInRam
  <1>4. ASSUME TimerUpdate \/ PollInput \/ (\E f \in BOOLEAN : NetPoll(f)) PROVE BufferInRam'
    BY <1>1, <1>4 DEF TimerUpdate, PollInput, NetPoll
  <1>5. ASSUME (\E d \in Delays : SbiSetTimer(d)) \/ SbiSendIpi \/ SbiGetchar
               \/ \E type \in ResetTypes : SystemReset(type)
        PROVE  BufferInRam'
    BY <1>1, <1>5 DEF SbiSetTimer, SbiSendIpi, SbiGetchar, SystemReset
  <1>6. ASSUME OpenConsole \/ StartTx \/ UartTransmit \/ UartReceive PROVE BufferInRam'
    BY <1>1, <1>6 DEF OpenConsole, StartTx, UartTransmit, UartReceive
  <1>7. ASSUME \/ GoIdle \/ KernelWfi \/ Woken \/ SoftIrq \/ TimerIrq \/ Claim \/ NetServe \/ Complete
               \/ \E irq \in {SSIP, STIP, SEIP} : TakeInterrupt(irq)
        PROVE  BufferInRam'
    BY <1>1, <1>7 DEF GoIdle, KernelWfi, Woken, SoftIrq, TimerIrq, Claim, NetServe, Complete, TakeInterrupt
  <1>8. ASSUME World \/ UNCHANGED vars PROVE BufferInRam'
    BY <1>1, <1>8 DEF World, UartRxIsr, TelnetByte, vars
  <1> QED
    BY <1>2, <1>3, <1>4, <1>5, <1>6, <1>7, <1>8
    DEF MachineNext, Devices, Sbi, Kernel, Stopped

\* No byte of console input is lost or doubled between the platform's rings, the
\* 8250 and the debug console, none is overtaken by a later one of its source on
\* the way to the same reader, and none is written outside the guest's RAM
\* (uart_poll_input(), dbcn console_read()), for every size of the rings and every
\* number of bytes.
THEOREM InputIsDelivered == MachineSpec => []InputDelivered
  <1>1. MachineAssumption /\ MachineInit => ConsoleInv /\ BufferInRam
    <2>1. MachineAssumption /\ MachineInit => BufferInRam
      BY DEF MachineAssumption, MachineInit, NoBuffer, BufferInRam
    <2> QED
      BY <2>1, ConsoleInitial
  <1>2. MachineInv => AllTypes
    BY DEF MachineInv, Types, AllTypes
  <1>3. /\ MachineAssumption /\ MachineInv /\ ConsoleInv /\ BufferInRam /\ [MachineNext]_vars
        => ConsoleInv' /\ BufferInRam'
    BY <1>2, ConsoleStep, BufferStep
  <1>4. MachineAssumption /\ MachineInv /\ ConsoleInv /\ BufferInRam => InputDelivered
    <2> SUFFICES ASSUME MachineAssumption, MachineInv, ConsoleInv PROVE EachByteOnce
      BY DEF InputDelivered
    <2>1. /\ Delivered(OnUart, taken.sbi, input.ring, input.tel, typed.lost, typed.uart, typed.tel)
          /\ uart.dropped = 0
      BY DEF ConsoleInv
    <2>2. /\ OnUart \in Seq(Nat) /\ taken.sbi \in Seq(Nat) /\ input.ring \in Seq(Nat)
          /\ input.tel \in Seq(Nat) /\ typed.uart \in Nat /\ typed.tel \in Nat
      BY <1>2 DEF AllTypes, UartType, InputType, TakenType, TypedType, OnUart
    <2>3. LET all == OnUart \o taken.sbi \o input.ring \o input.tel
          IN  /\ Len(all) + Cardinality(typed.lost) = typed.uart + typed.tel
              /\ Bytes(all) \cup typed.lost
                    = 1 .. typed.uart \cup (TelBase + 1 .. TelBase + typed.tel)
              /\ Ascending(OnUart \o input.ring \o input.tel)
              /\ Ascending(taken.sbi \o input.ring \o input.tel)
      BY <2>1, <2>2, DeliveredMeans
    <2> QED
      BY <2>1, <2>3, Zenon DEF EachByteOnce, OnUart
  <1> QED
    BY <1>1, <1>3, <1>4, MachineInvariant, MachineAssumption, PTL DEF MachineSpec
=============================================================================

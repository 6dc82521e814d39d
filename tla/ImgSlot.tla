------------------------------ MODULE ImgSlot ------------------------------
(***************************************************************************)
(* The image slots in the NOR flash and the three steps of every push:     *)
(* img_erase(), the payload, img_commit().  The flash survives a power     *)
(* failure or a reset at any point; the data cache in front of its         *)
(* memory-mapped window does not.                                          *)
(*                                                                         *)
(* The flash is a line of cells.  The first cell of a slot stands for its  *)
(* 4096 byte header area, each of the others for the bytes of one payload  *)
(* program.  An erase block is CellsPerBlock cells, so the header shares   *)
(* its block with the start of the payload.                                *)
(***************************************************************************)
EXTENDS Naturals, FiniteSets

CONSTANTS
  Slots,          \* PLAT_SLOT_KERNEL, PLAT_SLOT_ROOTFS
  Base, Span,     \* partition of each slot: first cell, number of cells
  FlashCells,     \* cells of the chip
  CellsPerBlock,  \* OSPI_ERASE_SZ
  KernelSlot,     \* PLAT_SLOT_KERNEL
  RamCells,       \* guest RAM less IMG_KERNEL_RAM_RESERVE
  Images,         \* what a client may send
  Size,           \* payload cells of each image
  NoImage,
  Attempts,       \* CONFIG_RVT_PUSHER_VERIFY_ATTEMPTS
  BlankCheck      \* CONFIG_RVT_PUSHER_BLANK_CHECK

Cells == 0..(FlashCells - 1)

\* The devicetree partitions and the BUILD_ASSERTs of platform_zephyr.c.
ASSUME SlotAssumption ==
  /\ CellsPerBlock \in Nat \ {0} /\ FlashCells \in Nat
  /\ FlashCells % CellsPerBlock = 0
  /\ Base \in [Slots -> Nat] /\ Span \in [Slots -> Nat]
  /\ \A s \in Slots : /\ Base[s] % CellsPerBlock = 0
                      /\ Span[s] % CellsPerBlock = 0 /\ Span[s] > 0
                      /\ Base[s] + Span[s] <= FlashCells
  /\ \A s, t \in Slots : s # t => \/ Base[s] + Span[s] <= Base[t]
                                  \/ Base[t] + Span[t] <= Base[s]
  /\ KernelSlot \in Slots /\ RamCells \in Nat
  /\ Images # {} /\ Size \in [Images -> Nat]
  /\ NoImage \notin Images
  /\ Attempts \in Nat \ {0}
  /\ BlankCheck \in BOOLEAN

VARIABLES
  flash,      \* what each cell holds
  cache,      \* what the data cache holds of each cell
  spc,        \* step of the push
  slot, image,
  blk,        \* next block to erase, counted from the slot's base
  cell,       \* next payload cell to program
  attempt,    \* of the verify
  clean,      \* some verify pass had no marginal read (history)
  outcome     \* what img_commit() said of the last push, if it was called

pushVars == << slot, image >>
slotVars == << flash, cache, spc, pushVars, blk, cell, attempt, clean,
               outcome >>

(* Contents of a cell *)
Blank   == [kind |-> "blank", img |-> NoImage]
Torn    == [kind |-> "torn",  img |-> NoImage]    \* an operation cut short
Wreck   == [kind |-> "wreck", img |-> NoImage]    \* programmed while not blank
NoLine  == [kind |-> "none",  img |-> NoImage]    \* not cached
Good(i) == [kind |-> "good",  img |-> i]
Bad(i)  == [kind |-> "bad",   img |-> i]          \* silently wrong
Content == {Blank, Torn, Wreck} \cup {Good(i) : i \in Images}
                                \cup {Bad(i) : i \in Images}

Steps == {"idle", "erase", "erasing", "blank", "stream", "programming",
          "header", "verify"}
Outcomes == {"none", "unverified", "ok"}

TypeOK ==
  /\ flash \in [Cells -> Content]
  /\ cache \in [Cells -> Content \cup {NoLine}]
  /\ spc \in Steps
  /\ slot \in Slots
  /\ image \in Images
  /\ blk \in Nat /\ cell \in Nat
  /\ attempt \in 0..Attempts
  /\ clean \in BOOLEAN
  /\ outcome \in Outcomes
-----------------------------------------------------------------------------
(* Geometry *)

\* Mutant: the partition is taken as it is in the devicetree.
MutWholePartition(s) == Span[s]

\* plat_slot_offset(): the last erase block of the chip is never writable.
Writable(s) ==
  LET top == FlashCells - CellsPerBlock
      end == IF Base[s] + Span[s] > top THEN top ELSE Base[s] + Span[s]
  IN IF end > Base[s] THEN end - Base[s] ELSE 0

\* img_max_len(): the writable part, less the header area; a kernel must also
\* fit the guest's RAM.
MaxSize(s) ==
  LET cap == IF Writable(s) > 1 THEN Writable(s) - 1 ELSE 0
  IN IF s = KernelSlot /\ cap > RamCells THEN RamCells ELSE cap

HeaderCell(s) == Base[s]
Payload(s, i) == (Base[s] + 1)..(Base[s] + Size[i])

\* ROUND_UP(len + IMG_PAYLOAD_OFF, esz), in blocks.
NeedBlocks(i) == (Size[i] + CellsPerBlock) \div CellsPerBlock
BlockCells(s, b) == {Base[s] + b * CellsPerBlock + k :
                       k \in 0..(CellsPerBlock - 1)}
SpanCells(s, i) == UNION {BlockCells(s, b) : b \in 0..(NeedBlocks(i) - 1)}

\* The slot holds image i, whole and right.
Intact(s, i) == \A c \in {HeaderCell(s)} \cup Payload(s, i) :
                  flash[c] = Good(i)

Set(f, S, v) == [c \in Cells |-> IF c \in S THEN v ELSE f[c]]
-----------------------------------------------------------------------------
AnyImage == CHOOSE i \in Images : TRUE

\* A board with an empty flash.
Init ==
  /\ flash = [c \in Cells |-> Blank]
  /\ cache = [c \in Cells |-> NoLine]
  /\ spc = "idle"
  /\ slot = KernelSlot /\ image = AnyImage     \* no push yet
  /\ blk = 0 /\ cell = 0 /\ attempt = 0
  /\ clean = FALSE
  /\ outcome = "none"

\* nl_push() returns: its locals are gone.
Leave == /\ spc' = "idle"
         /\ blk' = 0 /\ cell' = 0 /\ attempt' = 0

\* A push that ends before img_commit(), and one that img_commit() has judged.
GiveUp == /\ Leave
          /\ slot' = KernelSlot /\ image' = AnyImage
          /\ clean' = FALSE
          /\ outcome' = "none"

Verdict(v) == /\ Leave
              /\ outcome' = v
              /\ UNCHANGED pushVars

\* main() or the guest reads the whole slot through the window.
WindowRead(s) ==
  /\ spc = "idle"
  /\ cache' = [c \in Cells |-> IF c \in Base[s]..(Base[s] + Span[s] - 1)
                               THEN flash[c] ELSE cache[c]]
  /\ UNCHANGED << flash, spc, pushVars, blk, cell, attempt, clean, outcome >>

\* img_accept_len() refuses the header before anything is touched.
Reject(s, i) ==
  /\ spc = "idle"
  /\ Size[i] = 0 \/ Size[i] > MaxSize(s)
  /\ outcome' = "none"
  /\ UNCHANGED << flash, cache, spc, pushVars, blk, cell, attempt, clean >>

\* The header is accepted and the guest is stopped: img_erase() begins.
Accept(s, i) ==
  /\ spc = "idle"
  /\ Size[i] # 0 /\ Size[i] <= MaxSize(s)
  /\ slot' = s /\ image' = i
  /\ blk' = 0 /\ cell' = 0 /\ attempt' = 0
  /\ clean' = FALSE
  /\ spc' = "erase"
  /\ outcome' = "none"
  /\ UNCHANGED << flash, cache >>
-----------------------------------------------------------------------------
(* img_erase(), one block at a time *)

\* Mutant: the blocks are erased from the top down.
MutEraseDown ==
  /\ spc = "erase"
  /\ flash' = Set(flash, BlockCells(slot, NeedBlocks(image) - 1 - blk), Torn)
  /\ spc' = "erasing"
  /\ UNCHANGED << cache, pushVars, blk, cell, attempt, clean, outcome >>

EraseBegin ==
  /\ spc = "erase"
  /\ flash' = Set(flash, BlockCells(slot, blk), Torn)
  /\ spc' = "erasing"
  /\ UNCHANGED << cache, pushVars, blk, cell, attempt, clean, outcome >>

\* flash_erase() reports success; bad is what did not really go to 0xFF.
EraseEnd ==
  /\ spc = "erasing"
  /\ \E bad \in SUBSET BlockCells(slot, blk) :
       flash' = Set(flash, BlockCells(slot, blk) \ bad, Blank)
  /\ spc' = "blank"
  /\ UNCHANGED << cache, pushVars, blk, cell, attempt, clean, outcome >>

\* The NOR is not ready, or flash_erase() gives up before it starts.
EraseRefused ==
  /\ spc = "erase"
  /\ GiveUp
  /\ UNCHANGED << flash, cache >>

EraseFails ==
  /\ spc = "erasing"
  /\ GiveUp
  /\ UNCHANGED << flash, cache >>

NextBlock ==
  /\ blk' = blk + 1
  /\ spc' = IF blk + 1 < NeedBlocks(image) THEN "erase" ELSE "stream"
  /\ cell' = 1
  /\ UNCHANGED << flash, pushVars, attempt, clean, outcome >>

\* The blank check drops the cached lines of the block, then reads it.
BlankCheckOk ==
  /\ spc = "blank"
  /\ IF BlankCheck
     THEN /\ \A c \in BlockCells(slot, blk) : flash[c] = Blank
          /\ cache' = Set(cache, BlockCells(slot, blk), Blank)
     ELSE UNCHANGED cache
  /\ NextBlock

BlankCheckFails ==
  /\ spc = "blank"
  /\ BlankCheck
  /\ \E c \in BlockCells(slot, blk) : flash[c] # Blank
  /\ cache' = [c \in Cells |-> IF c \in BlockCells(slot, blk)
                               THEN flash[c] ELSE cache[c]]
  /\ GiveUp
  /\ UNCHANGED flash
-----------------------------------------------------------------------------
(* The payload, in order; NlWriter has the threads and buffers behind it *)

\* Starting to program a cell that is not blank ruins it.
ProgramStarted(c) ==
  [flash EXCEPT ![c] = IF @ = Blank THEN Torn ELSE Wreck]

\* What a program that reports success leaves: the data, or silently not.
Programmed(c, i) == IF flash[c] = Wreck THEN {Wreck} ELSE {Good(i), Bad(i)}

ProgramBegin ==
  /\ spc = "stream"
  /\ cell <= Size[image]
  /\ flash' = ProgramStarted(Base[slot] + cell)
  /\ spc' = "programming"
  /\ UNCHANGED << cache, pushVars, blk, cell, attempt, clean, outcome >>

ProgramEnd ==
  /\ spc = "programming"
  /\ \E v \in Programmed(Base[slot] + cell, image) :
       flash' = [flash EXCEPT ![Base[slot] + cell] = v]
  /\ cell' = cell + 1
  /\ spc' = "stream"
  /\ UNCHANGED << cache, pushVars, blk, attempt, clean, outcome >>

\* A write error, a short transfer or a stalled writer.
StreamFails ==
  /\ spc \in {"stream", "programming"}
  /\ GiveUp
  /\ UNCHANGED << flash, cache >>
-----------------------------------------------------------------------------
(* img_commit(): the header last, then the slot read back *)

HeaderBegin ==
  /\ spc = "stream"
  /\ cell > Size[image]
  /\ flash' = ProgramStarted(HeaderCell(slot))
  /\ spc' = "header"
  /\ UNCHANGED << cache, pushVars, blk, cell, attempt, clean, outcome >>

\* The header is in, and the cached lines of the span are dropped.
HeaderEnd ==
  /\ spc = "header"
  /\ \E v \in Programmed(HeaderCell(slot), image) :
       flash' = [flash EXCEPT ![HeaderCell(slot)] = v]
  /\ cache' = Set(cache, SpanCells(slot, image), NoLine)
  /\ spc' = "verify"
  /\ attempt' = 1
  /\ UNCHANGED << pushVars, blk, cell, clean, outcome >>

\* flash_write() reports an error; the header may have landed all the same.
HeaderFails ==
  /\ spc = "header"
  /\ \E v \in {flash[HeaderCell(slot)]}
               \cup Programmed(HeaderCell(slot), image) :
       flash' = [flash EXCEPT ![HeaderCell(slot)] = v]
  /\ Verdict("unverified")
  /\ UNCHANGED << cache, clean >>

\* One pass over header and payload.  A cached line answers for its cell unless
\* it was evicted; a marginal read sees (and caches) something else.
Views ==
  LET S == {HeaderCell(slot)} \cup Payload(slot, image)
      Honest(stale) == [c \in Cells |-> IF c \in S /\ c \notin stale
                                        THEN flash[c] ELSE cache[c]]
  IN {Honest(stale) : stale \in SUBSET {c \in S : cache[c] # NoLine}}

Marginal(view) == {[view EXCEPT ![c] = Torn] :
                     c \in {HeaderCell(slot)} \cup Payload(slot, image)}

\* img_check() with the CRC, and vlen == len: the header read says which image
\* it describes, and the payload read must be that image.
ImgCheck(view) ==
  \E j \in Images :
    /\ view[HeaderCell(slot)] = Good(j)
    /\ Size[j] = Size[image]
    /\ \A c \in Payload(slot, j) : view[c] = Good(j)

VerifyOk ==
  /\ spc = "verify"
  /\ \E view \in Views :
       /\ ImgCheck(view)
       /\ cache' = view
  /\ clean' = TRUE
  /\ Verdict("ok")
  /\ UNCHANGED flash

\* The ways one pass may fail: what it read, and whether all its reads were good.
FailedPasses ==
  {p \in {[view |-> v, good |-> TRUE] : v \in Views}
         \cup {[view |-> m, good |-> FALSE] :
                 m \in UNION {Marginal(v) : v \in Views}} :
     ~ImgCheck(p.view)}

\* Mutants: the header is written again; the cache is not invalidated between
\* the passes.
MutRewrite ==
  /\ spc = "verify"
  /\ attempt < Attempts
  /\ \E p \in FailedPasses :
       /\ cache' = Set(p.view, SpanCells(slot, image), NoLine)
       /\ clean' = (clean \/ p.good)
  /\ spc' = "stream"
  /\ UNCHANGED << flash, pushVars, blk, cell, attempt, outcome >>

MutNoInvalidate ==
  /\ spc = "verify"
  /\ attempt < Attempts
  /\ \E p \in FailedPasses :
       /\ cache' = p.view
       /\ clean' = (clean \/ p.good)
  /\ attempt' = attempt + 1
  /\ UNCHANGED << flash, spc, pushVars, blk, cell, outcome >>

\* Invalidate and read again.  Nothing is ever rewritten.
VerifyAgain ==
  /\ spc = "verify"
  /\ attempt < Attempts
  /\ \E p \in FailedPasses :
       /\ cache' = Set(p.view, SpanCells(slot, image), NoLine)
       /\ clean' = (clean \/ p.good)
  /\ attempt' = attempt + 1
  /\ UNCHANGED << flash, spc, pushVars, blk, cell, outcome >>

VerifyFails ==
  /\ spc = "verify"
  /\ attempt = Attempts
  /\ \E p \in FailedPasses :
       /\ cache' = p.view
       /\ clean' = (clean \/ p.good)
  /\ Verdict("unverified")
  /\ UNCHANGED flash
-----------------------------------------------------------------------------
\* Power failure or reset: the flash keeps what it has, torn cells included.
Crash ==
  /\ cache' = [c \in Cells |-> NoLine]
  /\ GiveUp
  /\ UNCHANGED flash

PushStep ==
  \/ EraseBegin \/ EraseEnd \/ EraseRefused \/ EraseFails
  \/ BlankCheckOk \/ BlankCheckFails
  \/ ProgramBegin \/ ProgramEnd \/ StreamFails
  \/ HeaderBegin \/ HeaderEnd \/ HeaderFails
  \/ VerifyOk \/ VerifyAgain \/ VerifyFails

Next ==
  \/ \E s \in Slots, i \in Images : Accept(s, i) \/ Reject(s, i)
  \/ \E s \in Slots : WindowRead(s)
  \/ PushStep
  \/ Crash

Spec == Init /\ [][Next]_slotVars
-----------------------------------------------------------------------------
(* Properties *)

\* img_commit(): "until it lands the slot has no valid magic".  A readable
\* header means that every payload cell it covers was programmed from the same
\* image, however pushes, errors and power failures interleave.
HeaderLast ==
  \A s \in Slots, i \in Images :
    flash[HeaderCell(s)] = Good(i) =>
      \A c \in Payload(s, i) : flash[c] \in {Good(i), Bad(i)}

\* The ECC rule: nothing that is not blank is ever programmed, although erases
\* may silently fail and verifies may be repeated.
NeverReprogrammed == \A c \in Cells : flash[c] # Wreck

\* "OK committed" is true: the pushed image is in the slot, whole and right,
\* although the window was cached before and reads may be marginal.
CommittedIntact == outcome = "ok" => Intact(slot, image)

\* "ERR verify failed" is true as well: the slot does not hold the image, or not one
\* pass was free of marginal reads, or the header write itself failed.
VerifyFailsTruly ==
  outcome = "unverified" /\ clean => ~Intact(slot, image)

\* What img_commit() answers is true, whichever way: its verify, through a data
\* cache and a marginal bus, neither passes a bad slot nor fails a good one.
AnswersTrue == CommittedIntact /\ VerifyFailsTruly

\* A stored image is lost only to an erase of its own slot: not to a rejected
\* push, to a push to the neighbour, or to a reset.
StoredIsKept ==
  [][\A s \in Slots, i \in Images :
       Intact(s, i) /\ ~Intact(s, i)' => slot = s /\ spc = "erase"]_slotVars

\* No push erases or programs outside the writable part of its slot: not the
\* neighbour, not the last block of the chip, which flash_erase() cannot do.
InsideTheSlot ==
  [][\A c \in Cells : flash[c] # flash'[c] =>
       /\ c \in Base[slot]..(Base[slot] + Span[slot] - 1)
       /\ c < FlashCells - CellsPerBlock]_slotVars

\* A push, refused, broken off or finished, costs nobody else anything: the bounds
\* of img_accept_len() and plat_slot_offset() keep its writes in its own slot, and
\* only the erase of a slot ever loses a stored image.
NeighboursSafe == StoredIsKept /\ InsideTheSlot
=============================================================================

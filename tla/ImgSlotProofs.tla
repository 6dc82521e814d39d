--------------------------- MODULE ImgSlotProofs ---------------------------
(***************************************************************************)
(* The image slots keep their promises for every chip, partition table,    *)
(* set of images and number of verify attempts.                            *)
(***************************************************************************)
EXTENDS ImgSlot, TLAPS

\* Image i passes img_accept_len() for slot s.
Fits(s, i) == Size[i] # 0 /\ Size[i] <= MaxSize(s)

\* The cells a push to slot s may touch, and those that hold image i there.
Region(s) == Base[s] .. (Base[s] + Writable(s) - 1)
Held(s, i) == {HeaderCell(s)} \cup Payload(s, i)

\* Whatever header is readable, its image fits the slot.
HeaderFits ==
  \A s \in Slots, i \in Images : flash[HeaderCell(s)] = Good(i) => Fits(s, i)

\* From the first erase to the header program the slot has no readable header.
HeaderGone ==
  spc \in {"erasing", "blank", "stream", "programming", "header"}
  \/ (spc = "erase" /\ blk > 0) => \A i \in Images : flash[HeaderCell(slot)] # Good(i)

Course ==
  /\ spc # "idle" => Fits(slot, image)
  /\ spc \in {"erase", "erasing", "blank"} => blk < NeedBlocks(image)
  /\ spc = "erasing" => \A c \in BlockCells(slot, blk) : flash[c] = Torn
  /\ spc \in {"stream", "programming"} => cell >= 1
  /\ spc = "programming" => cell <= Size[image]

\* A verify reads the flash itself: no line of the image is cached.
Reading ==
  /\ spc = "verify" =>
       /\ flash[HeaderCell(slot)] \in {Good(image), Bad(image), Wreck}
       /\ \A c \in Held(slot, image) : cache[c] = NoLine
       /\ clean => ~Intact(slot, image)
  /\ spc \notin {"idle", "verify"} => ~clean
  /\ outcome # "none" => spc = "idle"

SlotInv == TypeOK /\ HeaderFits /\ HeaderGone /\ Course /\ Reading /\ AnswersTrue

\* With the blank check: what is erased is blank, what is programmed was, and
\* the payload is complete before the header.
Ahead ==
  /\ spc \in {"erase", "erasing", "blank"} =>
       \A b \in 0 .. blk - 1 : \A c \in BlockCells(slot, b) : flash[c] = Blank
  /\ spc \in {"stream", "programming", "header"} =>
       /\ \A c \in Payload(slot, image) :
            IF c < Base[slot] + cell THEN flash[c] \in {Good(image), Bad(image)}
            ELSE flash[c] = IF spc = "programming" /\ c = Base[slot] + cell THEN Torn ELSE Blank
       /\ flash[HeaderCell(slot)] = IF spc = "header" THEN Torn ELSE Blank
  /\ spc = "header" => cell > Size[image]

BlankInv == Ahead /\ HeaderLast /\ NeverReprogrammed
-----------------------------------------------------------------------------
(* What the cells may hold, and where they are *)

LEMMA Contents ==
  /\ Blank \in Content /\ Torn \in Content /\ Wreck \in Content
  /\ \A i \in Images : Good(i) \in Content /\ Bad(i) \in Content
  /\ Blank # Torn /\ Blank # Wreck /\ Torn # Wreck
  /\ \A i : /\ Good(i) # Blank /\ Good(i) # Torn /\ Good(i) # Wreck /\ Good(i) # NoLine
           /\ Bad(i) # Blank /\ Bad(i) # Torn /\ Bad(i) # Wreck
           /\ \A j : Good(i) # Bad(j) /\ (Good(i) = Good(j) => i = j)
BY DEF Blank, Torn, Wreck, NoLine, Good, Bad, Content

\* Region(s) lies in the partition of s, below the last erase block of the chip.
LEMMA RegionBounds ==
  ASSUME NEW s \in Slots
  PROVE  /\ Writable(s) \in Nat /\ HeaderCell(s) \in Cells
         /\ \A c \in Region(s) :
              /\ c \in Cells /\ c \in Base[s] .. (Base[s] + Span[s] - 1)
              /\ c < FlashCells - CellsPerBlock
BY SlotAssumption DEF Region, Writable, HeaderCell, Cells

\* What the block size divides is a number of blocks.
LEMMA Divided ==
  ASSUME NEW a \in Nat, NEW C \in Nat \ {0}, a % C = 0
  PROVE  \E q \in Nat : a = q * C
<1>1. a \div C \in Nat /\ a = (a \div C) * C
  OBVIOUS
<1> QED BY <1>1

\* The writable part is a whole number of erase blocks.
LEMMA WholeBlocks ==
  ASSUME NEW s \in Slots
  PROVE  \E q \in Nat : Writable(s) = q * CellsPerBlock
<1> DEFINE C == CellsPerBlock
<1>1. C \in Nat \ {0} /\ FlashCells \in Nat /\ Base[s] \in Nat /\ Span[s] \in Nat
  BY SlotAssumption
<1>2. PICK f \in Nat : FlashCells = f * C
  <2>1. FlashCells % C = 0
    BY SlotAssumption
  <2> QED BY <1>1, <2>1, Divided
<1>3. PICK b \in Nat : Base[s] = b * C
  <2>1. Base[s] % C = 0
    BY SlotAssumption
  <2> QED BY <1>1, <2>1, Divided
<1>4. PICK n \in Nat : Span[s] = n * C
  <2>1. Span[s] % C = 0
    BY SlotAssumption
  <2> QED BY <1>1, <2>1, Divided
<1>5. CASE Writable(s) = 0
  BY <1>1, <1>5
<1>6. CASE Writable(s) # 0 /\ Base[s] + Span[s] > FlashCells - C
  <2>1. Writable(s) = FlashCells - C - Base[s] /\ Writable(s) > 0
    BY <1>1, <1>6, RegionBounds DEF Writable
  <2>2. Writable(s) = (f - 1 - b) * C
    BY <1>1, <1>2, <1>3, <2>1
  <2>3. f - 1 - b \in Nat
    BY <1>1, <2>1, <2>2
  <2> QED BY <2>2, <2>3
<1>7. CASE Writable(s) # 0 /\ ~(Base[s] + Span[s] > FlashCells - C)
  <2>1. Writable(s) = Span[s]
    BY <1>1, <1>7 DEF Writable
  <2> QED BY <2>1, <1>4
<1> QED BY <1>5, <1>6, <1>7

\* What img_accept_len() lets through lies in the region: header and payload, and
\* every block that img_erase() takes.
LEMMA Inside ==
  ASSUME NEW s \in Slots, NEW i \in Images, Fits(s, i)
  PROVE  /\ Size[i] \in Nat \ {0} /\ Size[i] < Writable(s)
         /\ HeaderCell(s) \in Region(s) /\ Held(s, i) \subseteq Region(s)
         /\ NeedBlocks(i) \in Nat \ {0}
         /\ \A b \in 0 .. (NeedBlocks(i) - 1) : BlockCells(s, b) \subseteq Region(s)
         /\ Held(s, i) \subseteq SpanCells(s, i)
         /\ HeaderCell(s) \in BlockCells(s, 0)
<1> DEFINE C == CellsPerBlock
<1>1. /\ C \in Nat \ {0} /\ Base[s] \in Nat /\ Writable(s) \in Nat /\ Size[i] \in Nat
      /\ RamCells \in Nat
  BY SlotAssumption, RegionBounds
<1>2. Size[i] \in Nat \ {0} /\ Size[i] < Writable(s)
  BY <1>1 DEF Fits, MaxSize
<1>3. HeaderCell(s) \in Region(s) /\ Held(s, i) \subseteq Region(s)
  BY <1>1, <1>2 DEF Held, HeaderCell, Payload, Region
<1> DEFINE N == NeedBlocks(i)
<1>4. N \in Nat \ {0} /\ N * C <= Size[i] + C /\ Size[i] + C < (N + 1) * C
  <2>1. N = (Size[i] + C) \div C
    BY DEF NeedBlocks
  <2> HIDE DEF N
  <2> QED BY <1>1, <2>1
<1>5. N * C <= Writable(s)
  <2>1. PICK q \in Nat : Writable(s) = q * C
    BY WholeBlocks
  <2>2. (N - 1) * C <= Size[i]
    BY <1>1, <1>4
  <2>3. (N - 1) * C < q * C
    BY <1>1, <1>2, <1>4, <2>1, <2>2
  <2>4. N - 1 < q
    BY <1>1, <1>4, <2>3
  <2>5. N * C <= q * C
    BY <1>1, <1>4, <2>4
  <2> QED BY <2>1, <2>5
<1>6. ASSUME NEW b \in 0 .. (N - 1)
      PROVE  BlockCells(s, b) \subseteq Region(s)
  <2>1. b \in Nat /\ b * C \in Nat /\ (b + 1) * C <= N * C
    BY <1>1, <1>4
  <2>2. b * C + C <= Writable(s)
    BY <1>1, <1>4, <1>5, <2>1
  <2> SUFFICES ASSUME NEW k \in 0 .. (C - 1)
               PROVE  Base[s] + b * C + k \in Region(s)
    BY DEF BlockCells
  <2> QED BY <1>1, <2>1, <2>2 DEF Region
<1>7. ASSUME NEW c \in Held(s, i)
      PROVE  c \in SpanCells(s, i)
  <2>1. PICK d \in Nat : c = Base[s] + d /\ d <= Size[i]
    <3>1. CASE c = Base[s]
      BY <1>1, <3>1
    <3>2. CASE c \in Payload(s, i)
      <4>1. c - Base[s] \in Nat /\ c = Base[s] + (c - Base[s]) /\ c - Base[s] <= Size[i]
        BY <1>1, <3>2 DEF Payload
      <4> QED BY <4>1
    <3> QED BY <1>7, <3>1, <3>2 DEF Held, HeaderCell
  <2>2. PICK b \in Nat, k \in 0 .. (C - 1) : d = b * C + k
    <3>1. d \div C \in Nat /\ (d % C) \in 0 .. (C - 1) /\ d = (d \div C) * C + (d % C)
      BY <1>1
    <3> QED BY <3>1
  <2>3. b * C < N * C
    BY <1>1, <1>4, <2>1, <2>2
  <2>4. b \in 0 .. (N - 1)
    BY <1>1, <1>4, <2>3
  <2>5. c \in BlockCells(s, b)
    <3>1. b * C \in Nat
      BY <1>1, <2>2
    <3>2. c = Base[s] + b * C + k
      BY <1>1, <2>1, <2>2, <3>1
    <3> QED BY <3>2 DEF BlockCells
  <2> QED BY <2>4, <2>5 DEF SpanCells
<1>8. HeaderCell(s) \in BlockCells(s, 0)
  BY <1>1 DEF HeaderCell, BlockCells
<1> QED BY <1>2, <1>3, <1>4, <1>6, <1>7, <1>8

\* The writable parts of two slots, and what is stored in them, are disjoint.
LEMMA Apart ==
  ASSUME NEW s \in Slots, NEW t \in Slots, s # t
  PROVE  /\ HeaderCell(t) \notin Region(s)
         /\ Region(s) \cap Region(t) = {}
<1>1. /\ Base[s] \in Nat /\ Base[t] \in Nat /\ Span[s] \in Nat \ {0} /\ Span[t] \in Nat \ {0}
      /\ Base[s] + Span[s] <= Base[t] \/ Base[t] + Span[t] <= Base[s]
  BY SlotAssumption
<1>2. /\ \A c \in Region(s) : c \in Base[s] .. (Base[s] + Span[s] - 1)
      /\ \A c \in Region(t) : c \in Base[t] .. (Base[t] + Span[t] - 1)
  BY RegionBounds
<1> QED BY <1>1, <1>2 DEF HeaderCell
-----------------------------------------------------------------------------
(* What one step does to the flash *)

\* The flash is written in the region of the slot that is pushed to, and a header
\* becomes readable only by its own program.
Written ==
  /\ flash' \in [Cells -> Content]
  /\ \A c \in Cells : flash'[c] # flash[c] => spc # "idle" /\ spc # "verify" /\ c \in Region(slot)
  /\ flash'[HeaderCell(slot)] \in
       {flash[HeaderCell(slot)], Torn, Blank, Wreck}
       \cup IF spc = "header" THEN {Good(image), Bad(image)} ELSE {}

\* A write of some cells of the region.
LEMMA SetWrites ==
  ASSUME TypeOK, NEW S, S \subseteq Region(slot), NEW v \in {Torn, Blank},
         spc # "idle", spc # "verify",
         flash' = Set(flash, S, v)
  PROVE  Written
<1>1. flash' \in [Cells -> Content]
  BY Contents DEF Set, TypeOK
<1>2. \A c \in Cells : flash'[c] = IF c \in S THEN v ELSE flash[c]
  BY DEF Set
<1>3. HeaderCell(slot) \in Cells
  BY RegionBounds DEF TypeOK
<1> QED BY <1>1, <1>2, <1>3 DEF Written

\* A write of one cell.
LEMMA CellWrites ==
  ASSUME TypeOK, NEW c \in Region(slot), NEW v \in Content,
         spc # "idle", spc # "verify",
         flash' = [flash EXCEPT ![c] = v],
         \/ c # HeaderCell(slot)
         \/ v \in {flash[HeaderCell(slot)], Torn, Blank, Wreck}
         \/ spc = "header" /\ v \in {Good(image), Bad(image)}
  PROVE  Written
<1>1. HeaderCell(slot) \in Cells /\ c \in Cells
  BY RegionBounds DEF TypeOK
<1>2. flash' \in [Cells -> Content]
  BY <1>1 DEF TypeOK
<1>3. \A d \in Cells : flash'[d] = IF d = c THEN v ELSE flash[d]
  BY <1>1 DEF TypeOK
<1> QED BY <1>1, <1>2, <1>3 DEF Written

LEMMA FlashKept ==
  ASSUME TypeOK, UNCHANGED flash
  PROVE  Written
BY DEF Written, TypeOK

\* The block of the erase, the cell of the program and the header are inside.
LEMMA Aim ==
  ASSUME SlotInv, spc # "idle"
  PROVE  /\ Held(slot, image) \subseteq Region(slot) /\ HeaderCell(slot) \in Region(slot)
         /\ spc \in {"erase", "erasing", "blank"} => BlockCells(slot, blk) \subseteq Region(slot)
         /\ cell \in 1 .. Size[image] =>
              Base[slot] + cell \in Region(slot) /\ Base[slot] + cell # HeaderCell(slot)
<1>1. slot \in Slots /\ image \in Images /\ Fits(slot, image) /\ blk \in Nat /\ cell \in Nat
  BY DEF SlotInv, TypeOK, Course
<1>2. /\ Size[image] \in Nat /\ Size[image] < Writable(slot) /\ Base[slot] \in Nat
      /\ Writable(slot) \in Nat
      /\ NeedBlocks(image) \in Nat
      /\ Held(slot, image) \subseteq Region(slot) /\ HeaderCell(slot) \in Region(slot)
      /\ \A b \in 0 .. (NeedBlocks(image) - 1) : BlockCells(slot, b) \subseteq Region(slot)
  BY <1>1, Inside, RegionBounds, SlotAssumption
<1>3. spc \in {"erase", "erasing", "blank"} => blk \in 0 .. (NeedBlocks(image) - 1)
  BY <1>1, <1>2 DEF SlotInv, Course
<1>4. cell \in 1 .. Size[image] =>
        Base[slot] + cell \in Region(slot) /\ Base[slot] + cell # HeaderCell(slot)
  BY <1>1, <1>2 DEF Region, HeaderCell
<1> QED BY <1>2, <1>3, <1>4

LEMMA FlashStep ==
  ASSUME SlotInv, Next
  PROVE  Written
<1> USE DEF SlotInv
<1>1. CASE \E s \in Slots, i \in Images : Accept(s, i) \/ Reject(s, i)
  BY <1>1, FlashKept DEF Accept, Reject
<1>2. CASE \E s \in Slots : WindowRead(s)
  BY <1>2, FlashKept DEF WindowRead
<1>3. CASE Crash
  BY <1>3, FlashKept DEF Crash
<1>4. CASE EraseBegin
  BY <1>4, Aim, SetWrites DEF EraseBegin
<1>5. CASE EraseEnd
  <2>1. PICK bad \in SUBSET BlockCells(slot, blk) :
          flash' = Set(flash, BlockCells(slot, blk) \ bad, Blank)
    BY <1>5 DEF EraseEnd
  <2>2. BlockCells(slot, blk) \ bad \subseteq Region(slot) /\ spc = "erasing"
    BY <1>5, Aim DEF EraseEnd
  <2> QED BY <2>1, <2>2, SetWrites
<1>6. CASE EraseRefused \/ EraseFails \/ BlankCheckOk \/ BlankCheckFails \/ StreamFails
           \/ VerifyOk \/ VerifyAgain \/ VerifyFails
  BY <1>6, FlashKept DEF EraseRefused, EraseFails, BlankCheckOk, BlankCheckFails, StreamFails,
     VerifyOk, VerifyAgain, VerifyFails, NextBlock
<1>7. CASE ProgramBegin
  <2>1. spc = "stream" /\ cell \in 1 .. Size[image]
    BY <1>7, SlotAssumption DEF ProgramBegin, Course, TypeOK
  <2>2. PICK v \in Content : flash' = [flash EXCEPT ![Base[slot] + cell] = v]
    BY <1>7, Contents DEF ProgramBegin, ProgramStarted
  <2> QED BY <2>1, <2>2, Aim, CellWrites
<1>8. CASE ProgramEnd
  <2>1. spc = "programming" /\ cell \in 1 .. Size[image]
    BY <1>8, SlotAssumption DEF ProgramEnd, Course, TypeOK
  <2>2. PICK v \in Content : flash' = [flash EXCEPT ![Base[slot] + cell] = v]
    BY <1>8, Contents DEF ProgramEnd, Programmed, TypeOK
  <2> QED BY <2>1, <2>2, Aim, CellWrites
<1>9. CASE HeaderBegin
  <2>1. PICK v \in {Torn, Wreck} : flash' = [flash EXCEPT ![HeaderCell(slot)] = v]
    BY <1>9 DEF HeaderBegin, ProgramStarted
  <2> QED BY <1>9, <2>1, Aim, CellWrites, Contents DEF HeaderBegin
<1>10. CASE HeaderEnd \/ HeaderFails
  <2>1. PICK v \in {flash[HeaderCell(slot)], Wreck, Good(image), Bad(image)} :
          flash' = [flash EXCEPT ![HeaderCell(slot)] = v]
    BY <1>10 DEF HeaderEnd, HeaderFails, Programmed
  <2>2. v \in Content /\ spc = "header"
    BY <1>10, Contents, RegionBounds DEF HeaderEnd, HeaderFails, TypeOK
  <2> QED BY <2>1, <2>2, Aim, CellWrites
<1> QED BY <1>1, <1>2, <1>3, <1>4, <1>5, <1>6, <1>7, <1>8, <1>9, <1>10 DEF Next, PushStep
-----------------------------------------------------------------------------
(* The verify *)

CacheType == [Cells -> Content \cup {NoLine}]

LEMMA ViewTypes ==
  ASSUME TypeOK
  PROVE  /\ \A v \in Views : v \in CacheType
         /\ \A v \in Views : \A m \in Marginal(v) : m \in CacheType
<1>1. ASSUME NEW v \in Views
      PROVE  v \in CacheType
  BY DEF Views, TypeOK, CacheType
<1>2. ASSUME NEW v \in Views, NEW m \in Marginal(v)
      PROVE  m \in CacheType
  <2>1. PICK c : m = [v EXCEPT ![c] = Torn]
    BY DEF Marginal
  <2> QED BY <2>1, <1>1, Contents DEF CacheType
<1> QED BY <1>1, <1>2

LEMMA PassTypes ==
  ASSUME TypeOK, NEW p \in FailedPasses
  PROVE  p.view \in CacheType /\ p.good \in BOOLEAN /\ ~ImgCheck(p.view)
         /\ (p.good => p.view \in Views)
<1>1. CASE \E v \in Views : p = [view |-> v, good |-> TRUE]
  BY <1>1, ViewTypes DEF FailedPasses
<1>2. CASE \E v \in Views : \E m \in Marginal(v) : p = [view |-> m, good |-> FALSE]
  BY <1>2, ViewTypes DEF FailedPasses
<1> QED BY <1>1, <1>2 DEF FailedPasses

\* With no line of the image cached, a pass without a marginal read passes exactly
\* what is intact.
LEMMA HonestVerify ==
  ASSUME SlotInv, spc = "verify", NEW v \in Views
  PROVE  ImgCheck(v) <=> Intact(slot, image)
<1>1. /\ slot \in Slots /\ image \in Images /\ Fits(slot, image)
      /\ flash[HeaderCell(slot)] \in {Good(image), Bad(image), Wreck}
      /\ \A c \in Held(slot, image) : cache[c] = NoLine
  BY DEF SlotInv, TypeOK, Course, Reading
<1>2. \A c \in Held(slot, image) : c \in Cells
  BY <1>1, Inside, RegionBounds
<1>3. \A c \in Held(slot, image) : v[c] = flash[c]
  <2>1. PICK stale \in SUBSET {c \in Held(slot, image) : cache[c] # NoLine} :
          v = [c \in Cells |-> IF c \in Held(slot, image) /\ c \notin stale
                              THEN flash[c] ELSE cache[c]]
    BY DEF Views, Held
  <2>2. stale = {}
    BY <1>1, <2>1
  <2> QED BY <1>2, <2>1, <2>2
<1>4. ASSUME ImgCheck(v) PROVE Intact(slot, image)
  <2>1. PICK j \in Images : /\ v[HeaderCell(slot)] = Good(j)
                            /\ \A c \in Payload(slot, j) : v[c] = Good(j)
    BY <1>4 DEF ImgCheck
  <2>2. j = image
    BY <1>1, <1>3, <2>1, Contents DEF Held
  <2> QED BY <1>3, <2>1, <2>2 DEF Intact, Held
<1>5. ASSUME Intact(slot, image) PROVE ImgCheck(v)
  BY <1>1, <1>3, <1>5 DEF Intact, ImgCheck, Held
<1> QED BY <1>4, <1>5
-----------------------------------------------------------------------------
(* Each conjunct of the invariant is kept *)

LEMMA TypeInit == Init => TypeOK
<1>1. AnyImage \in Images
  BY SlotAssumption DEF AnyImage
<1>2. 0 \in 0 .. Attempts /\ KernelSlot \in Slots
  BY SlotAssumption
<1> SUFFICES ASSUME Init PROVE TypeOK
  OBVIOUS
<1>3. flash \in [Cells -> Content] /\ cache \in [Cells -> Content \cup {NoLine}]
  BY Contents DEF Init
<1>4. /\ spc \in Steps /\ slot \in Slots /\ image \in Images /\ blk \in Nat /\ cell \in Nat
      /\ attempt \in 0 .. Attempts /\ clean \in BOOLEAN /\ outcome \in Outcomes
  BY <1>1, <1>2 DEF Init, Steps, Outcomes
<1> QED BY <1>3, <1>4 DEF TypeOK

LEMMA SetCache ==
  ASSUME NEW f \in CacheType, NEW S, NEW v \in Content \cup {NoLine}
  PROVE  Set(f, S, v) \in CacheType
BY DEF Set, CacheType

LEMMA TypeStep ==
  ASSUME SlotInv, Next
  PROVE  TypeOK'
<1> DEFINE Rest == /\ cache' \in CacheType /\ spc' \in Steps /\ slot' \in Slots /\ image' \in Images
                   /\ blk' \in Nat /\ cell' \in Nat /\ attempt' \in 0 .. Attempts
                   /\ clean' \in BOOLEAN /\ outcome' \in Outcomes
<1>1. flash' \in [Cells -> Content]
  BY FlashStep DEF Written
<1>2. SUFFICES Rest
  BY <1>1 DEF TypeOK, CacheType
<1>3. TypeOK /\ cache \in CacheType /\ flash \in [Cells -> Content]
  BY DEF SlotInv, TypeOK, CacheType
<1>4. AnyImage \in Images /\ KernelSlot \in Slots
  BY SlotAssumption DEF AnyImage
<1>5. Attempts \in Nat \ {0} /\ 0 \in 0 .. Attempts /\ 1 \in 0 .. Attempts /\ 0 \in Nat
  BY SlotAssumption
<1>6. GiveUp => /\ spc' \in Steps /\ slot' \in Slots /\ image' \in Images /\ blk' \in Nat /\ cell' \in Nat
                /\ attempt' \in 0 .. Attempts /\ clean' \in BOOLEAN /\ outcome' \in Outcomes
  BY <1>4, <1>5 DEF GiveUp, Leave, Steps, Outcomes
<1>7. \A w \in Outcomes : Verdict(w) =>
        /\ spc' \in Steps /\ slot' \in Slots /\ image' \in Images /\ blk' \in Nat /\ cell' \in Nat
        /\ attempt' \in 0 .. Attempts /\ outcome' \in Outcomes
  BY <1>3, <1>5 DEF Verdict, Leave, Steps, Outcomes, pushVars, TypeOK
<1>8. CASE \E s \in Slots, i \in Images : Accept(s, i) \/ Reject(s, i)
  BY <1>3, <1>5, <1>8 DEF Accept, Reject, pushVars, TypeOK, Steps, Outcomes
<1>9. CASE \E s \in Slots : WindowRead(s)
  <2>1. cache' \in CacheType
    BY <1>3, <1>9 DEF WindowRead, CacheType
  <2> QED BY <2>1, <1>3, <1>9 DEF WindowRead, pushVars, TypeOK
<1>10. CASE Crash \/ EraseRefused \/ EraseFails \/ StreamFails
  <2>1. cache' \in CacheType
    BY <1>3, <1>10 DEF Crash, EraseRefused, EraseFails, StreamFails, CacheType
  <2> QED BY <2>1, <1>6, <1>10 DEF Crash, EraseRefused, EraseFails, StreamFails
<1>11. CASE EraseBegin \/ EraseEnd \/ ProgramBegin \/ HeaderBegin
  BY <1>3, <1>11 DEF EraseBegin, EraseEnd, ProgramBegin, HeaderBegin, pushVars, TypeOK, Steps
<1>12. CASE BlankCheckOk
  <2>1. cache' \in CacheType
    BY <1>3, <1>12, SetCache, Contents DEF BlankCheckOk
  <2> QED BY <2>1, <1>3, <1>12 DEF BlankCheckOk, NextBlock, pushVars, TypeOK, Steps
<1>13. CASE BlankCheckFails
  <2>1. cache' \in CacheType
    BY <1>3, <1>13 DEF BlankCheckFails, CacheType
  <2> QED BY <2>1, <1>6, <1>13 DEF BlankCheckFails
<1>14. CASE ProgramEnd
  BY <1>3, <1>14 DEF ProgramEnd, pushVars, TypeOK, Steps
<1>15. CASE HeaderEnd
  <2>1. cache' \in CacheType
    BY <1>3, <1>15, SetCache DEF HeaderEnd
  <2> QED BY <2>1, <1>3, <1>5, <1>15 DEF HeaderEnd, pushVars, TypeOK, Steps
<1>16. CASE HeaderFails
  <2>1. Verdict("unverified") /\ cache' = cache /\ clean' = clean
    BY <1>16 DEF HeaderFails
  <2> QED BY <2>1, <1>3, <1>7 DEF TypeOK, Outcomes
<1>17. CASE VerifyOk
  <2>1. Verdict("ok") /\ cache' \in CacheType /\ clean' \in BOOLEAN
    BY <1>3, <1>17, ViewTypes DEF VerifyOk
  <2> QED BY <2>1, <1>7 DEF Outcomes
<1>18. CASE VerifyAgain
  <2>1. PICK p \in FailedPasses : /\ cache' = Set(p.view, SpanCells(slot, image), NoLine)
                                  /\ clean' = (clean \/ p.good)
    BY <1>18 DEF VerifyAgain
  <2>2. cache' \in CacheType
    BY <1>3, <2>1, PassTypes, SetCache
  <2>3. clean' \in BOOLEAN
    BY <1>3, <2>1, PassTypes DEF TypeOK
  <2>4. attempt' = attempt + 1 /\ attempt < Attempts /\ attempt \in 0 .. Attempts
    BY <1>3, <1>18 DEF VerifyAgain, TypeOK
  <2>5. attempt' \in 0 .. Attempts
    BY <1>5, <2>4
  <2> QED BY <2>2, <2>3, <2>5, <1>3, <1>18 DEF VerifyAgain, pushVars, TypeOK
<1>19. CASE VerifyFails
  <2>1. PICK p \in FailedPasses : cache' = p.view /\ clean' = (clean \/ p.good)
    BY <1>19 DEF VerifyFails
  <2>2. cache' \in CacheType /\ clean' \in BOOLEAN
    BY <1>3, <2>1, PassTypes DEF TypeOK
  <2>3. Verdict("unverified")
    BY <1>19 DEF VerifyFails
  <2> QED BY <2>2, <2>3, <1>7 DEF Outcomes
<1> QED BY <1>8, <1>9, <1>10, <1>11, <1>12, <1>13, <1>14, <1>15, <1>16, <1>17, <1>18, <1>19
        DEF Next, PushStep

LEMMA HeaderFitsStep ==
  ASSUME SlotInv, Next
  PROVE  HeaderFits'
<1> SUFFICES ASSUME NEW s \in Slots, NEW i \in Images, flash'[HeaderCell(s)] = Good(i)
             PROVE  Fits(s, i)
  BY DEF HeaderFits, HeaderCell, Fits, MaxSize, Writable
<1>1. Written /\ slot \in Slots /\ image \in Images /\ HeaderCell(s) \in Cells
  BY FlashStep, RegionBounds DEF SlotInv, TypeOK
<1>2. CASE flash'[HeaderCell(s)] = flash[HeaderCell(s)]
  BY <1>2 DEF SlotInv, HeaderFits
<1>3. CASE flash'[HeaderCell(s)] # flash[HeaderCell(s)]
  <2>1. s = slot
    BY <1>1, <1>3, Apart DEF Written
  <2>2. spc = "header" /\ i = image
    BY <1>1, <1>3, <2>1, Contents DEF Written
  <2> QED BY <2>1, <2>2 DEF SlotInv, Course
<1> QED BY <1>2, <1>3

Progress == HeaderGone /\ Course /\ Reading /\ AnswersTrue

LEMMA ProgressIdle ==
  ASSUME spc' = "idle", AnswersTrue'
  PROVE  Progress'
BY DEF Progress, HeaderGone, Course, Reading

LEMMA ProgressGiveUp ==
  ASSUME GiveUp
  PROVE  Progress'
<1>1. spc' = "idle" /\ outcome' = "none"
  BY DEF GiveUp, Leave
<1> QED BY <1>1, ProgressIdle DEF AnswersTrue, CommittedIntact, VerifyFailsTruly

\* While img_commit() has not answered there is nothing to be true.
LEMMA ProgressBusy ==
  ASSUME SlotInv, spc # "idle", outcome' = outcome
  PROVE  outcome' = "none" /\ AnswersTrue'
BY DEF SlotInv, TypeOK, Outcomes, Reading, AnswersTrue, CommittedIntact, VerifyFailsTruly

LEMMA ProgressErase ==
  ASSUME SlotInv, EraseBegin \/ EraseEnd \/ BlankCheckOk
  PROVE  Progress'
<1> USE DEF SlotInv
<1>0. /\ slot \in Slots /\ image \in Images /\ Fits(slot, image) /\ blk \in Nat
      /\ slot' = slot /\ image' = image /\ outcome' = outcome /\ clean' = clean /\ spc # "idle"
      /\ HeaderCell(slot) \in Cells /\ ~clean
  BY RegionBounds DEF EraseBegin, EraseEnd, BlankCheckOk, NextBlock, pushVars, TypeOK, Course, Reading
<1>1. outcome' = "none" /\ AnswersTrue'
  BY <1>0, ProgressBusy
<1>2. /\ HeaderCell(slot) \in BlockCells(slot, 0) /\ NeedBlocks(image) \in Nat \ {0}
      /\ \A b \in 0 .. (NeedBlocks(image) - 1) : BlockCells(slot, b) \subseteq Region(slot)
  BY <1>0, Inside
<1>3. CASE EraseBegin
  <2>1. spc = "erase" /\ spc' = "erasing" /\ blk' = blk /\ flash' = Set(flash, BlockCells(slot, blk), Torn)
        /\ blk < NeedBlocks(image)
    BY <1>3 DEF EraseBegin, Course
  <2>2. \A c \in Cells : flash'[c] = IF c \in BlockCells(slot, blk) THEN Torn ELSE flash[c]
    BY <2>1 DEF Set
  <2>3. BlockCells(slot, blk) \subseteq Cells
    BY <1>0, <2>1, Aim, RegionBounds
  <2>4. \A i \in Images : flash'[HeaderCell(slot)] # Good(i)
    <3>1. CASE blk = 0
      BY <1>0, <1>2, <2>2, <3>1, Contents
    <3>2. CASE blk > 0
      BY <1>0, <2>1, <2>2, <3>2, Contents DEF HeaderGone
    <3> QED BY <1>0, <3>1, <3>2
  <2>5. HeaderGone'
    BY <1>0, <2>4 DEF HeaderGone, HeaderCell
  <2>6. Course'
    BY <1>0, <2>1, <2>2, <2>3 DEF Course, Fits, BlockCells
  <2>7. Reading'
    BY <1>0, <1>1, <2>1 DEF Reading
  <2> QED BY <1>1, <2>5, <2>6, <2>7 DEF Progress
<1>4. CASE EraseEnd
  <2>1. PICK bad \in SUBSET BlockCells(slot, blk) :
          flash' = Set(flash, BlockCells(slot, blk) \ bad, Blank)
    BY <1>4 DEF EraseEnd
  <2>2. spc = "erasing" /\ spc' = "blank" /\ blk' = blk
    BY <1>4 DEF EraseEnd
  <2>3. \A c \in Cells : flash'[c] = IF c \in BlockCells(slot, blk) \ bad THEN Blank ELSE flash[c]
    BY <2>1 DEF Set
  <2>4. \A i \in Images : flash'[HeaderCell(slot)] # Good(i)
    BY <1>0, <2>2, <2>3, Contents DEF HeaderGone
  <2>5. HeaderGone'
    BY <1>0, <2>4 DEF HeaderGone, HeaderCell
  <2>6. Course'
    BY <1>0, <2>2 DEF Course, Fits
  <2>7. Reading'
    BY <1>0, <1>1, <2>2 DEF Reading
  <2> QED BY <1>1, <2>5, <2>6, <2>7 DEF Progress
<1>5. CASE BlankCheckOk
  <2>1. /\ spc = "blank" /\ flash' = flash /\ blk' = blk + 1 /\ cell' = 1
        /\ spc' = IF blk + 1 < NeedBlocks(image) THEN "erase" ELSE "stream"
    BY <1>5 DEF BlankCheckOk, NextBlock
  <2>2. HeaderGone'
    BY <1>0, <2>1 DEF HeaderGone, HeaderCell
  <2>3. Course'
    BY <1>0, <1>2, <2>1 DEF Course, Fits
  <2>4. Reading'
    BY <1>0, <1>1, <2>1 DEF Reading
  <2> QED BY <1>1, <2>2, <2>3, <2>4 DEF Progress
<1> QED BY <1>3, <1>4, <1>5

LEMMA ProgressStream ==
  ASSUME SlotInv, ProgramBegin \/ ProgramEnd \/ HeaderBegin
  PROVE  Progress'
<1> USE DEF SlotInv
<1>0. /\ slot \in Slots /\ image \in Images /\ Fits(slot, image) /\ cell \in Nat
      /\ slot' = slot /\ image' = image /\ outcome' = outcome /\ clean' = clean /\ spc # "idle"
      /\ HeaderCell(slot) \in Cells /\ ~clean
  BY RegionBounds DEF ProgramBegin, ProgramEnd, HeaderBegin, pushVars, TypeOK, Course, Reading
<1>1. outcome' = "none" /\ AnswersTrue'
  BY <1>0, ProgressBusy
<1>2. /\ spc \in {"stream", "programming"} /\ spc' \in {"stream", "programming", "header"}
      /\ cell' >= 1
      /\ spc' = "programming" => cell' <= Size[image]
  BY <1>0 DEF ProgramBegin, ProgramEnd, HeaderBegin, Course
<1>3. \A i \in Images : flash'[HeaderCell(slot)] # Good(i)
  <2>1. Written /\ spc # "header"
    BY <1>2, FlashStep DEF Next, PushStep
  <2> QED BY <1>2, <2>1, Contents DEF Written, HeaderGone
<1>4. HeaderGone'
  BY <1>0, <1>3 DEF HeaderGone, HeaderCell
<1>5. Course'
  BY <1>0, <1>2 DEF Course, Fits
<1>6. Reading'
  BY <1>0, <1>1, <1>2 DEF Reading
<1> QED BY <1>1, <1>4, <1>5, <1>6 DEF Progress

LEMMA ProgressHeaderEnd ==
  ASSUME SlotInv, HeaderEnd
  PROVE  Progress'
<1> USE DEF SlotInv
<1>0. /\ slot \in Slots /\ image \in Images /\ Fits(slot, image)
      /\ slot' = slot /\ image' = image /\ outcome' = outcome /\ clean' = clean
      /\ spc = "header" /\ spc' = "verify"
      /\ HeaderCell(slot) \in Cells /\ ~clean /\ flash \in [Cells -> Content]
  BY RegionBounds DEF HeaderEnd, pushVars, TypeOK, Course, Reading
<1>1. outcome' = "none" /\ AnswersTrue'
  BY <1>0, ProgressBusy
<1>2. flash'[HeaderCell(slot)] \in {Good(image), Bad(image), Wreck}
  BY <1>0 DEF HeaderEnd, Programmed
<1>3. \A c \in Held(slot, image) : cache'[c] = NoLine
  <2>1. \A c \in Held(slot, image) : c \in Cells /\ c \in SpanCells(slot, image)
    BY <1>0, Inside, RegionBounds
  <2> QED BY <2>1 DEF HeaderEnd, Set
<1>4. Reading'
  BY <1>0, <1>1, <1>2, <1>3 DEF Reading, HeaderCell, Held, Payload
<1>5. HeaderGone' /\ Course'
  BY <1>0 DEF HeaderGone, Course, Fits
<1> QED BY <1>1, <1>4, <1>5 DEF Progress

LEMMA ProgressVerify ==
  ASSUME SlotInv, VerifyOk \/ VerifyAgain \/ VerifyFails
  PROVE  Progress'
<1> USE DEF SlotInv
<1>0. /\ slot \in Slots /\ image \in Images /\ Fits(slot, image) /\ spc = "verify"
      /\ slot' = slot /\ image' = image /\ flash' = flash /\ TypeOK
  BY DEF VerifyOk, VerifyAgain, VerifyFails, Verdict, pushVars, TypeOK, Course
<1>1. Intact(slot, image)' <=> Intact(slot, image)
  BY <1>0 DEF Intact, HeaderCell, Payload
<1>2. CASE VerifyOk
  <2>1. Intact(slot, image) /\ spc' = "idle" /\ outcome' = "ok"
    BY <1>0, <1>2, HonestVerify DEF VerifyOk, Verdict, Leave
  <2>2. AnswersTrue'
    BY <1>1, <2>1 DEF AnswersTrue, CommittedIntact, VerifyFailsTruly
  <2> QED BY <2>1, <2>2, ProgressIdle
<1>3. ASSUME VerifyAgain \/ VerifyFails
      PROVE  clean' => ~Intact(slot, image)
  <2>1. PICK p \in FailedPasses : clean' = (clean \/ p.good)
    BY <1>3 DEF VerifyAgain, VerifyFails
  <2>2. CASE clean
    BY <1>0, <2>2 DEF Reading
  <2>3. CASE ~clean
    <3>1. clean' => p.good
      BY <2>1, <2>3
    <3> QED BY <1>0, <3>1, PassTypes, HonestVerify
  <2> QED BY <2>2, <2>3
<1>4. CASE VerifyAgain
  <2>1. spc' = "verify" /\ outcome' = "none" /\ AnswersTrue'
    BY <1>0, <1>4, ProgressBusy DEF VerifyAgain
  <2>2. \A c \in Held(slot, image) : cache'[c] = NoLine
    <3>1. \A c \in Held(slot, image) : c \in Cells /\ c \in SpanCells(slot, image)
      BY <1>0, Inside, RegionBounds
    <3> QED BY <1>4, <3>1 DEF VerifyAgain, Set
  <2>3. Reading'
    BY <1>0, <1>1, <1>3, <1>4, <2>1, <2>2 DEF Reading, HeaderCell, Held, Payload
  <2>4. HeaderGone' /\ Course'
    BY <1>0, <2>1 DEF HeaderGone, Course, Fits
  <2> QED BY <2>1, <2>3, <2>4 DEF Progress
<1>5. CASE VerifyFails
  <2>1. spc' = "idle" /\ outcome' = "unverified"
    BY <1>5 DEF VerifyFails, Verdict, Leave
  <2>2. AnswersTrue'
    BY <1>1, <1>3, <1>5, <2>1 DEF AnswersTrue, CommittedIntact, VerifyFailsTruly
  <2> QED BY <2>1, <2>2, ProgressIdle
<1> QED BY <1>2, <1>4, <1>5

LEMMA ProgressStep ==
  ASSUME SlotInv, Next
  PROVE  Progress'
<1> USE DEF SlotInv
<1>1. ASSUME NEW s \in Slots, NEW i \in Images, Accept(s, i)
      PROVE  Progress'
  <2>1. /\ spc' = "erase" /\ slot' = s /\ image' = i /\ blk' = 0 /\ outcome' = "none" /\ ~clean'
        /\ Fits(s, i)
    BY <1>1 DEF Accept, Fits
  <2>2. NeedBlocks(i) \in Nat \ {0}
    BY <2>1, Inside
  <2>3. HeaderGone'
    BY <2>1 DEF HeaderGone
  <2>4. Course'
    BY <2>1, <2>2 DEF Course, Fits
  <2>5. Reading' /\ AnswersTrue'
    BY <2>1 DEF Reading, AnswersTrue, CommittedIntact, VerifyFailsTruly
  <2> QED BY <2>3, <2>4, <2>5 DEF Progress
<1>2. ASSUME NEW s \in Slots, NEW i \in Images, Reject(s, i)
      PROVE  Progress'
  <2>1. spc' = "idle" /\ outcome' = "none"
    BY <1>2 DEF Reject
  <2> QED BY <2>1, ProgressIdle DEF AnswersTrue, CommittedIntact, VerifyFailsTruly
<1>3. ASSUME NEW s \in Slots, WindowRead(s)
      PROVE  Progress'
  <2>1. /\ spc' = "idle" /\ slot' = slot /\ image' = image /\ flash' = flash /\ clean' = clean
        /\ outcome' = outcome
    BY <1>3 DEF WindowRead, pushVars
  <2>2. AnswersTrue'
    BY <2>1 DEF AnswersTrue, CommittedIntact, VerifyFailsTruly, Intact, HeaderCell, Payload
  <2> QED BY <2>1, <2>2, ProgressIdle
<1>4. CASE Crash \/ EraseRefused \/ EraseFails \/ BlankCheckFails \/ StreamFails
  BY <1>4, ProgressGiveUp DEF Crash, EraseRefused, EraseFails, BlankCheckFails, StreamFails
<1>5. CASE HeaderFails
  <2>1. spc' = "idle" /\ outcome' = "unverified" /\ ~clean'
    BY <1>5 DEF HeaderFails, Verdict, Leave, Reading, TypeOK
  <2> QED BY <2>1, ProgressIdle DEF AnswersTrue, CommittedIntact, VerifyFailsTruly
<1> QED BY <1>1, <1>2, <1>3, <1>4, <1>5, ProgressErase, ProgressStream, ProgressHeaderEnd,
           ProgressVerify DEF Next, PushStep
-----------------------------------------------------------------------------
LEMMA SlotInitial == Init => SlotInv
<1> SUFFICES ASSUME Init PROVE SlotInv
  OBVIOUS
<1>1. TypeOK
  BY TypeInit
<1>2. \A s \in Slots : flash[HeaderCell(s)] = Blank
  BY RegionBounds DEF Init
<1>3. HeaderFits
  BY <1>2, Contents DEF HeaderFits
<1>4. HeaderGone /\ Course /\ Reading /\ AnswersTrue
  BY DEF Init, HeaderGone, Course, Reading, AnswersTrue, CommittedIntact, VerifyFailsTruly
<1> QED BY <1>1, <1>3, <1>4 DEF SlotInv

LEMMA SlotStep == SlotInv /\ [Next]_slotVars => SlotInv'
<1> SUFFICES ASSUME SlotInv, [Next]_slotVars PROVE SlotInv'
  OBVIOUS
<1>1. CASE Next
  BY <1>1, TypeStep, HeaderFitsStep, ProgressStep DEF SlotInv, Progress
<1>2. CASE UNCHANGED slotVars
  BY <1>2 DEF slotVars, pushVars, SlotInv, TypeOK, HeaderFits, HeaderGone, Course, Reading,
     AnswersTrue, CommittedIntact, VerifyFailsTruly, Intact, Held, HeaderCell, Payload, Fits
<1> QED BY <1>1, <1>2

LEMMA SlotInvariant == Spec => []SlotInv
BY SlotInitial, SlotStep, PTL DEF Spec

\* What a push does not touch: the header and the payload of any other slot.
LEMMA OthersKept ==
  ASSUME SlotInv, Written, NEW s \in Slots, s # slot
  PROVE  /\ flash'[HeaderCell(s)] = flash[HeaderCell(s)]
         /\ \A i \in Images : flash[HeaderCell(s)] = Good(i) =>
              \A c \in Held(s, i) : flash'[c] = flash[c]
<1>1. slot \in Slots /\ HeaderCell(s) \in Cells
  BY RegionBounds DEF SlotInv, TypeOK
<1>2. flash'[HeaderCell(s)] = flash[HeaderCell(s)]
  BY <1>1, Apart DEF Written
<1>3. ASSUME NEW i \in Images, flash[HeaderCell(s)] = Good(i), NEW c \in Held(s, i)
      PROVE  flash'[c] = flash[c]
  <2>1. Fits(s, i)
    BY <1>3 DEF SlotInv, HeaderFits
  <2>2. c \in Region(s) /\ c \in Cells
    BY <2>1, Inside, RegionBounds
  <2>3. c \notin Region(slot)
    BY <1>1, <2>2, Apart
  <2> QED BY <2>2, <2>3 DEF Written
<1> QED BY <1>2, <1>3

\* The variables of ImgSlot keep to the sets of their types in every state of
\* every push, refused, broken off or finished.
THEOREM SlotTypeCorrect == Spec => []TypeOK
BY SlotInvariant, PTL DEF SlotInv

\* What img_commit() answers is true for every chip, image and number of verify
\* attempts: the verify that follows the cache invalidation passes exactly the
\* slots that hold the image.
THEOREM CommitAnswersTruly == Spec => []AnswersTrue
BY SlotInvariant, PTL DEF SlotInv

\* The bounds of img_accept_len() and plat_slot_offset() keep every erase and
\* program inside the writable part of the slot, and only the erase of a slot
\* loses the image that is stored there.
THEOREM PushesKeepToTheirSlot == Spec => NeighboursSafe
<1>1. ASSUME SlotInv, [Next]_slotVars, NEW s \in Slots, NEW i \in Images,
             Intact(s, i), ~Intact(s, i)'
      PROVE  slot = s /\ spc = "erase"
  <2>1. Next
    BY <1>1 DEF slotVars, Intact, HeaderCell, Payload
  <2>2. Written /\ slot \in Slots
    BY <1>1, <2>1, FlashStep DEF SlotInv, TypeOK
  <2>3. flash[HeaderCell(s)] = Good(i) /\ \E c \in Held(s, i) : flash'[c] # flash[c]
    BY <1>1 DEF Intact, Held, HeaderCell, Payload
  <2>4. s = slot
    BY <1>1, <2>2, <2>3, OthersKept
  <2>5. Held(s, i) \subseteq Cells
    BY <1>1, <2>3, Inside, RegionBounds DEF SlotInv, HeaderFits
  <2>6. spc \notin {"idle", "verify"}
    BY <2>2, <2>3, <2>5 DEF Written
  <2>7. spc \notin {"erasing", "blank", "stream", "programming", "header"}
    BY <1>1, <2>3, <2>4 DEF SlotInv, HeaderGone
  <2> QED BY <1>1, <2>4, <2>6, <2>7 DEF SlotInv, TypeOK, Steps
<1>2. ASSUME SlotInv, [Next]_slotVars, NEW c \in Cells, flash[c] # flash'[c]
      PROVE  /\ c \in Base[slot] .. (Base[slot] + Span[slot] - 1)
             /\ c < FlashCells - CellsPerBlock
  <2>1. Next
    BY <1>2 DEF slotVars
  <2>2. c \in Region(slot) /\ slot \in Slots
    BY <1>2, <2>1, FlashStep DEF Written, SlotInv, TypeOK
  <2> QED BY <2>2, RegionBounds
<1>3. SlotInv /\ [Next]_slotVars =>
        [\A s \in Slots, i \in Images :
           Intact(s, i) /\ ~Intact(s, i)' => slot = s /\ spc = "erase"]_slotVars
  BY <1>1
<1>4. SlotInv /\ [Next]_slotVars =>
        [\A c \in Cells : flash[c] # flash'[c] =>
           /\ c \in Base[slot]..(Base[slot] + Span[slot] - 1)
           /\ c < FlashCells - CellsPerBlock]_slotVars
  BY <1>2
<1> QED BY <1>3, <1>4, SlotInvariant, PTL DEF Spec, NeighboursSafe, StoredIsKept, InsideTheSlot
-----------------------------------------------------------------------------
(* With CONFIG_RVT_PUSHER_BLANK_CHECK *)

LEMMA BlocksApart ==
  ASSUME NEW s \in Slots, NEW b \in Nat, NEW d \in Nat, b < d
  PROVE  BlockCells(s, b) \cap BlockCells(s, d) = {}
<1> DEFINE C == CellsPerBlock
<1>1. C \in Nat \ {0} /\ Base[s] \in Nat /\ b * C \in Nat /\ d * C \in Nat
  BY SlotAssumption
<1>2. b * C + C <= d * C
  <2>1. (b + 1) * C <= d * C
    BY <1>1
  <2> QED BY <1>1, <2>1
<1>3. ASSUME NEW k \in 0 .. (C - 1), NEW l \in 0 .. (C - 1)
      PROVE  Base[s] + b * C + k # Base[s] + d * C + l
  BY <1>1, <1>2
<1> QED BY <1>3 DEF BlockCells

\* Where Ahead speaks of the stream.
Streamed ==
  /\ \A c \in Payload(slot, image) :
       IF c < Base[slot] + cell THEN flash[c] \in {Good(image), Bad(image)}
       ELSE flash[c] = IF spc = "programming" /\ c = Base[slot] + cell THEN Torn ELSE Blank
  /\ flash[HeaderCell(slot)] = IF spc = "header" THEN Torn ELSE Blank
  /\ spc = "header" => cell > Size[image]

\* Where it speaks of the erase.
Erased == \A b \in 0 .. blk - 1 : \A c \in BlockCells(slot, b) : flash[c] = Blank

LEMMA AheadParts ==
  /\ Ahead <=> /\ spc \in {"erase", "erasing", "blank"} => Erased
               /\ spc \in {"stream", "programming", "header"} => Streamed
  /\ Ahead' <=> /\ spc' \in {"erase", "erasing", "blank"} => Erased'
                /\ spc' \in {"stream", "programming", "header"} => Streamed'
BY DEF Ahead, Streamed, Erased

LEMMA AheadErase ==
  ASSUME SlotInv, Ahead, EraseBegin \/ EraseEnd
  PROVE  Erased' /\ spc' \in {"erasing", "blank"}
<1> USE DEF SlotInv
<1>1. /\ slot \in Slots /\ image \in Images /\ blk \in Nat /\ Fits(slot, image)
      /\ slot' = slot /\ blk' = blk /\ blk < NeedBlocks(image)
      /\ spc \in {"erase", "erasing"} /\ spc' \in {"erasing", "blank"}
  BY DEF EraseBegin, EraseEnd, pushVars, TypeOK, Course
<1>2. Erased
  BY <1>1 DEF Ahead, Erased
<1>3. \A c \in Cells : c \notin BlockCells(slot, blk) => flash'[c] = flash[c]
  BY DEF EraseBegin, EraseEnd, Set
<1>4. ASSUME NEW b \in 0 .. blk - 1, NEW c \in BlockCells(slot, b)
      PROVE  flash'[c] = Blank
  <2>1. NeedBlocks(image) \in Nat /\ BlockCells(slot, b) \subseteq Region(slot)
    <3>1. NeedBlocks(image) \in Nat
      BY <1>1, Inside
    <3>2. b \in 0 .. (NeedBlocks(image) - 1)
      BY <1>1, <3>1
    <3> QED BY <1>1, <3>1, <3>2, Inside
  <2>2. c \in Cells
    BY <1>1, <2>1, RegionBounds
  <2>3. c \notin BlockCells(slot, blk)
    <3>1. b \in Nat /\ b < blk
      BY <1>1
    <3> QED BY <1>1, <1>4, <3>1, BlocksApart
  <2> QED BY <1>2, <1>3, <2>2, <2>3 DEF Erased
<1> QED BY <1>1, <1>4 DEF Erased, BlockCells

LEMMA AheadBlank ==
  ASSUME BlankCheck, SlotInv, Ahead, BlankCheckOk
  PROVE  Ahead'
<1> USE DEF SlotInv
<1>1. /\ slot \in Slots /\ image \in Images /\ blk \in Nat /\ Fits(slot, image)
      /\ slot' = slot /\ image' = image /\ blk' = blk + 1 /\ flash' = flash /\ cell' = 1
      /\ spc = "blank"
      /\ spc' = IF blk + 1 < NeedBlocks(image) THEN "erase" ELSE "stream"
      /\ \A c \in BlockCells(slot, blk) : flash[c] = Blank
  BY DEF BlankCheckOk, NextBlock, pushVars, TypeOK, Course
<1>2. \A b \in 0 .. blk : \A c \in BlockCells(slot, b) : flash[c] = Blank
  BY <1>1 DEF Ahead
<1>3. Erased'
  BY <1>1, <1>2 DEF Erased, BlockCells
<1>4. ASSUME spc' = "stream" PROVE Streamed'
  <2>1. NeedBlocks(image) \in Nat /\ blk + 1 >= NeedBlocks(image)
    BY <1>1, <1>4, Inside
  <2>2. \A c \in Held(slot, image) : flash[c] = Blank
    <3> SUFFICES ASSUME NEW c \in Held(slot, image) PROVE flash[c] = Blank
      OBVIOUS
    <3>1. PICK b \in 0 .. (NeedBlocks(image) - 1) : c \in BlockCells(slot, b)
      BY <1>1, Inside DEF SpanCells
    <3>2. b \in 0 .. blk
      BY <1>1, <2>1
    <3> QED BY <1>2, <3>1, <3>2
  <2>3. \A c \in Payload(slot, image) : ~(c < Base[slot] + 1)
    BY <1>1, SlotAssumption DEF Payload
  <2> QED BY <1>1, <1>4, <2>2, <2>3 DEF Streamed, Held, HeaderCell, Payload
<1> QED BY <1>1, <1>3, <1>4, AheadParts

LEMMA AheadStream ==
  ASSUME SlotInv, Ahead, ProgramBegin \/ ProgramEnd \/ HeaderBegin
  PROVE  Streamed' /\ spc' \in {"stream", "programming", "header"}
         /\ \A c \in Cells : flash'[c] = flash[c] \/ flash'[c] # Wreck
<1> USE DEF SlotInv
<1>1. /\ slot \in Slots /\ image \in Images /\ cell \in Nat /\ Fits(slot, image)
      /\ slot' = slot /\ image' = image
      /\ spc \in {"stream", "programming"} /\ cell >= 1
      /\ flash \in [Cells -> Content] /\ Base[slot] \in Nat /\ Size[image] \in Nat
  BY SlotAssumption DEF ProgramBegin, ProgramEnd, HeaderBegin, pushVars, TypeOK, Course
<1>2. Streamed
  BY <1>1, AheadParts
<1>3. \A c \in Held(slot, image) : c \in Cells
  BY <1>1, Inside, RegionBounds
<1>4. cell <= Size[image] =>
        Base[slot] + cell \in Payload(slot, image) /\ Base[slot] + cell # HeaderCell(slot)
  BY <1>1 DEF Payload, HeaderCell
<1>5. HeaderCell(slot) \notin Payload(slot, image)
  BY <1>1 DEF Payload, HeaderCell
<1>6. \A c \in Payload(slot, image) : c \in Nat /\ (c < Base[slot] + (cell + 1) <=>
                                       (c < Base[slot] + cell \/ c = Base[slot] + cell))
  BY <1>1 DEF Payload
<1>7. CASE ProgramBegin
  <2>1. spc = "stream" /\ spc' = "programming" /\ cell' = cell /\ cell <= Size[image]
        /\ flash' = ProgramStarted(Base[slot] + cell)
    BY <1>7 DEF ProgramBegin
  <2>2. flash[Base[slot] + cell] = Blank
    BY <1>1, <1>2, <1>4, <2>1 DEF Streamed
  <2>3. \A c \in Cells : flash'[c] = IF c = Base[slot] + cell THEN Torn ELSE flash[c]
    BY <1>1, <2>1, <2>2 DEF ProgramStarted
  <2>4. Streamed'
    BY <1>1, <1>2, <1>3, <1>4, <2>1, <2>3 DEF Streamed, Held, HeaderCell, Payload
  <2> QED BY <2>1, <2>3, <2>4, Contents
<1>8. CASE ProgramEnd
  <2>1. spc = "programming" /\ spc' = "stream" /\ cell' = cell + 1 /\ cell <= Size[image]
    BY <1>8 DEF ProgramEnd, Course
  <2>2. flash[Base[slot] + cell] = Torn
    BY <1>1, <1>2, <1>4, <2>1 DEF Streamed
  <2>3. PICK v \in {Good(image), Bad(image)} : flash' = [flash EXCEPT ![Base[slot] + cell] = v]
    BY <1>8, <2>2, Contents DEF ProgramEnd, Programmed
  <2>4. \A c \in Cells : flash'[c] = IF c = Base[slot] + cell THEN v ELSE flash[c]
    BY <1>1, <2>3
  <2>5. ASSUME NEW c \in Payload(slot, image)
        PROVE  IF c < Base[slot] + (cell + 1) THEN flash'[c] \in {Good(image), Bad(image)}
               ELSE flash'[c] = Blank
    <3>1. c \in Cells
      BY <1>3 DEF Held
    <3> QED BY <1>2, <1>6, <2>1, <2>3, <2>4, <3>1 DEF Streamed
  <2>6. flash'[HeaderCell(slot)] = Blank
    BY <1>2, <1>3, <1>4, <2>1, <2>4 DEF Streamed, Held
  <2>7. Streamed'
    BY <1>1, <2>1, <2>5, <2>6 DEF Streamed, HeaderCell, Payload
  <2> QED BY <2>1, <2>3, <2>4, <2>7, Contents
<1>9. CASE HeaderBegin
  <2>1. spc = "stream" /\ spc' = "header" /\ cell' = cell /\ cell > Size[image]
        /\ flash' = ProgramStarted(HeaderCell(slot))
    BY <1>9 DEF HeaderBegin
  <2>2. flash[HeaderCell(slot)] = Blank
    BY <1>2, <2>1 DEF Streamed
  <2>3. \A c \in Cells : flash'[c] = IF c = HeaderCell(slot) THEN Torn ELSE flash[c]
    BY <1>1, <2>1, <2>2 DEF ProgramStarted
  <2>4. Streamed'
    BY <1>1, <1>2, <1>3, <1>5, <2>1, <2>3 DEF Streamed, Held, HeaderCell, Payload
  <2> QED BY <2>1, <2>3, <2>4, Contents
<1> QED BY <1>7, <1>8, <1>9

\* No step but these leaves the idle state, an erase or the stream for another.
LEMMA AheadStep ==
  ASSUME BlankCheck, SlotInv, Ahead, Next
  PROVE  Ahead'
<1>1. CASE \E s \in Slots, i \in Images : Accept(s, i)
  <2>1. spc' = "erase" /\ blk' = 0
    BY <1>1 DEF Accept
  <2>2. Erased'
    BY <2>1 DEF Erased
  <2> QED BY <2>1, <2>2, AheadParts
<1>2. CASE EraseBegin \/ EraseEnd
  BY <1>2, AheadErase, AheadParts
<1>3. CASE BlankCheckOk
  BY <1>3, AheadBlank
<1>4. CASE ProgramBegin \/ ProgramEnd \/ HeaderBegin
  BY <1>4, AheadStream, AheadParts
<1>5. CASE \/ \E s \in Slots, i \in Images : Reject(s, i)
           \/ \E s \in Slots : WindowRead(s)
           \/ Crash \/ EraseRefused \/ EraseFails \/ BlankCheckFails \/ StreamFails
           \/ HeaderEnd \/ HeaderFails \/ VerifyOk \/ VerifyAgain \/ VerifyFails
  <2>1. spc' \in {"idle", "verify"}
    BY <1>5 DEF Reject, WindowRead, Crash, EraseRefused, EraseFails, BlankCheckFails, StreamFails,
       HeaderEnd, HeaderFails, VerifyOk, VerifyAgain, VerifyFails, GiveUp, Verdict, Leave
  <2> QED BY <2>1, AheadParts
<1> QED BY <1>1, <1>2, <1>3, <1>4, <1>5 DEF Next, PushStep

\* No step leaves a wreck: what is programmed was blank.
LEMMA NoWreckStep ==
  ASSUME SlotInv, BlankInv, Next
  PROVE  NeverReprogrammed'
<1> SUFFICES ASSUME NEW c \in Cells PROVE flash'[c] # Wreck
  BY DEF NeverReprogrammed
<1>0. flash[c] # Wreck /\ flash \in [Cells -> Content]
  BY DEF BlankInv, NeverReprogrammed, SlotInv, TypeOK
<1>1. CASE flash' = flash
  BY <1>0, <1>1
<1>2. CASE EraseBegin \/ EraseEnd
  BY <1>0, <1>2, Contents DEF EraseBegin, EraseEnd, Set
<1>3. CASE ProgramBegin \/ ProgramEnd \/ HeaderBegin
  BY <1>0, <1>3, AheadStream DEF BlankInv
<1>4. CASE HeaderEnd \/ HeaderFails
  <2>1. flash[HeaderCell(slot)] # Wreck
    BY RegionBounds DEF BlankInv, NeverReprogrammed, SlotInv, TypeOK
  <2>2. PICK v \in {flash[HeaderCell(slot)], Good(image), Bad(image)} :
          flash' = [flash EXCEPT ![HeaderCell(slot)] = v]
    BY <1>4, <2>1 DEF HeaderEnd, HeaderFails, Programmed
  <2> QED BY <1>0, <2>1, <2>2, Contents
<1> QED BY <1>1, <1>2, <1>3, <1>4 DEF Next, PushStep, Accept, Reject, WindowRead, Crash, EraseRefused,
        EraseFails, BlankCheckOk, NextBlock, BlankCheckFails, StreamFails, VerifyOk, VerifyAgain,
        VerifyFails

LEMMA HeaderLastStep ==
  ASSUME SlotInv, BlankInv, Next
  PROVE  HeaderLast'
<1> SUFFICES ASSUME NEW s \in Slots, NEW i \in Images, flash'[HeaderCell(s)] = Good(i),
                    NEW c \in Payload(s, i)
             PROVE  flash'[c] \in {Good(i), Bad(i)}
  BY DEF HeaderLast, HeaderCell, Payload
<1>1. Written /\ slot \in Slots /\ image \in Images /\ c \in Held(s, i)
  BY FlashStep DEF SlotInv, TypeOK, Held
<1>2. flash[HeaderCell(s)] = Good(i) => flash[c] \in {Good(i), Bad(i)}
  BY DEF BlankInv, HeaderLast
<1>3. CASE s # slot
  BY <1>1, <1>2, <1>3, OthersKept
<1>4. CASE s = slot /\ flash' = flash
  BY <1>2, <1>4
<1>5. CASE s = slot /\ spc = "erase" /\ flash' # flash
  <2>1. EraseBegin
    BY <1>5 DEF Next, PushStep, Accept, Reject, WindowRead, Crash, EraseRefused, EraseEnd,
        EraseFails, BlankCheckOk, NextBlock, BlankCheckFails, ProgramBegin, ProgramEnd, StreamFails,
        HeaderBegin, HeaderEnd, HeaderFails, VerifyOk, VerifyAgain, VerifyFails
  <2>2. Progress' /\ spc' = "erasing" /\ slot' = slot
    BY <2>1, ProgressErase DEF EraseBegin, pushVars
  <2> QED BY <1>5, <2>2 DEF Progress, HeaderGone, HeaderCell
<1>6. CASE s = slot /\ spc = "header"
  <2>1. i = image
    BY <1>1, <1>6, Contents DEF Written, SlotInv, HeaderGone
  <2>2. cell > Size[image] /\ cell \in Nat /\ Base[slot] \in Nat /\ Size[image] \in Nat
    BY <1>1, <1>6, SlotAssumption DEF BlankInv, Ahead, SlotInv, TypeOK
  <2>3. c < Base[slot] + cell /\ c # HeaderCell(slot)
    BY <1>6, <2>1, <2>2 DEF Payload, HeaderCell
  <2>4. flash[c] \in {Good(image), Bad(image)}
    BY <1>6, <2>1, <2>3 DEF BlankInv, Ahead
  <2>5. flash'[c] = flash[c]
    <3>0. c \in Cells
      BY <1>1, <1>6, <2>1, Inside, RegionBounds DEF SlotInv, Course
    <3>1. CASE flash' = flash
      BY <3>1
    <3>2. CASE HeaderEnd \/ HeaderFails
      BY <2>3, <3>0, <3>2 DEF HeaderEnd, HeaderFails, SlotInv, TypeOK
    <3> QED BY <1>6, <3>1, <3>2 DEF Next, PushStep, Accept, Reject, WindowRead, Crash, EraseRefused,
        EraseFails, EraseBegin, EraseEnd, BlankCheckOk, NextBlock, BlankCheckFails, ProgramBegin,
        ProgramEnd, StreamFails, HeaderBegin, VerifyOk, VerifyAgain, VerifyFails
  <2> QED BY <2>1, <2>4, <2>5
<1>7. CASE s = slot /\ spc \notin {"erase", "header"} /\ flash' # flash
  <2>1. spc \notin {"idle", "verify"}
    <3>1. flash \in [Cells -> Content] /\ flash' \in [Cells -> Content]
      BY <1>1 DEF Written, SlotInv, TypeOK
    <3>2. \E d \in Cells : flash'[d] # flash[d]
      BY <1>7, <3>1
    <3> QED BY <1>1, <3>2 DEF Written
  <2>2. flash[HeaderCell(slot)] # Good(i)
    BY <1>7, <2>1 DEF SlotInv, TypeOK, Steps, HeaderGone
  <2> QED BY <1>1, <1>7, <2>2, Contents DEF Written
<1> QED BY <1>3, <1>4, <1>5, <1>6, <1>7

LEMMA BlankInvariant == BlankCheck => (Spec => []BlankInv)
<1> SUFFICES ASSUME BlankCheck PROVE Spec => []BlankInv
  OBVIOUS
<1>1. Init => BlankInv
  <2> SUFFICES ASSUME Init PROVE BlankInv
    OBVIOUS
  <2>1. \A c \in Cells : flash[c] = Blank
    BY DEF Init
  <2>2. HeaderLast /\ NeverReprogrammed
    BY <2>1, RegionBounds, Contents DEF HeaderLast, NeverReprogrammed
  <2>3. Ahead
    BY DEF Init, Ahead
  <2> QED BY <2>2, <2>3 DEF BlankInv
<1>2. SlotInv /\ BlankInv /\ [Next]_slotVars => BlankInv'
  <2> SUFFICES ASSUME SlotInv, BlankInv, [Next]_slotVars PROVE BlankInv'
    OBVIOUS
  <2>1. CASE Next
    BY <2>1, AheadStep, NoWreckStep, HeaderLastStep DEF BlankInv
  <2>2. CASE UNCHANGED slotVars
    BY <2>2 DEF slotVars, pushVars, BlankInv, Ahead, HeaderLast, NeverReprogrammed
  <2> QED BY <2>1, <2>2
<1> QED BY <1>1, <1>2, SlotInvariant, PTL DEF Spec

\* With the blank check, a readable header means that every payload cell it
\* covers was programmed from the same image, for every chip, image and order of
\* pushes, errors and power failures.
THEOREM HeaderIsLast == BlankCheck => (Spec => []HeaderLast)
<1> SUFFICES ASSUME BlankCheck PROVE Spec => []HeaderLast
  OBVIOUS
<1>1. Spec => []BlankInv
  BY BlankInvariant
<1> QED BY <1>1, PTL DEF BlankInv

\* With the blank check the ECC rule holds although flash_erase() may silently
\* leave cells unerased: no cell that is not blank is ever programmed.
THEOREM NothingIsReprogrammed == BlankCheck => (Spec => []NeverReprogrammed)
<1> SUFFICES ASSUME BlankCheck PROVE Spec => []NeverReprogrammed
  OBVIOUS
<1>1. Spec => []BlankInv
  BY BlankInvariant
<1> QED BY <1>1, PTL DEF BlankInv
=============================================================================

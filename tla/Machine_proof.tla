--------------------------- MODULE Machine_proof ---------------------------
(***************************************************************************)
(* Proofs about Machine, for every geometry of the screen and every song,  *)
(* and about the arithmetic of its CPU, for every operand.                 *)
(***************************************************************************)
EXTENDS Machine, CpuAlu, TLAPS

(* The line of the compare value has been compared in this frame: line 0   *)
(* in its second cycle, the others in their first.                         *)
Passed(v) == IF v.rasterLatch = 0 THEN v.y > 0 \/ v.x > 0
             ELSE v.rasterLatch <= v.y

(* As long as nobody moves the compare value, a frame has seen one match   *)
(* from that line on, which RasterOncePerFrame only says of its end.       *)
HitsSoFar ==
  ~ moved => hits = IF vic.rasterLatch < LinesPerScreen /\ Passed(vic) THEN 1 ELSE 0

VicInv == /\ vic \in VicState /\ VicCoherent
          /\ hits \in 0 .. 2 /\ moved \in BOOLEAN /\ HitsSoFar
-----------------------------------------------------------------------------
(* What the proofs need of the constants.                                  *)
LEMMA Geometry ==
  /\ CyclesPerRaster \in Nat /\ CyclesPerRaster > 3
  /\ LinesPerScreen \in Nat /\ LinesPerScreen > 2
  /\ LowLines \in Nat /\ ResetLine \in 0 .. LowLines - 1
  /\ Rows \in Nat /\ Rows > 0
  BY VicAssumption

(* The chip's functions on a coherent chip.                                *)
Coherent(v) == /\ v.rasterLatch = RasterOf(v)
               /\ v.signal <=> "irq" \in v.d019
               /\ v.signal => "raster" \in v.d019

LEMMA ResetCoherent == VicReset \in VicState /\ Coherent(VicReset)
<1> DEFINE r == [x |-> CyclesPerRaster - 1, y |-> LinesPerScreen - 1,
                 hi |-> TRUE, den |-> TRUE, yscroll |-> 3 % Rows, lo |-> ResetLine,
                 d019 |-> {"raster"}, d01a |-> FALSE,
                 rasterLatch |-> 0, badlineDen |-> TRUE, signal |-> FALSE, hit |-> FALSE]
<1>1. r \in VicState
  <2>1. CyclesPerRaster - 1 \in Cycle /\ LinesPerScreen - 1 \in Line
    BY Geometry DEF Cycle, Line
  <2>2. 3 % Rows \in 0 .. Rows - 1 BY Geometry
  <2>3. ResetLine \in 0 .. LowLines - 1 /\ 0 \in 0 .. 2 * LowLines - 1
    BY Geometry
  <2>4. {"raster"} \in SUBSET {"raster", "irq"} OBVIOUS
  <2>5. QED BY <2>1, <2>2, <2>3, <2>4, Zenon DEF VicState
<1>2. r.lo = ResetLine /\ r.hi = TRUE /\ r.signal = FALSE /\ r.d019 = {"raster"}
  OBVIOUS
<1>3. VicReset = [r EXCEPT !.rasterLatch = RasterOf(r)]
  BY Zenon DEF VicReset, CacheRasterLatch
<1> HIDE DEF r
<1>4. RasterOf(r) = ResetLine + LowLines BY <1>2 DEF RasterOf
<1>5. RasterOf(r) \in 0 .. 2 * LowLines - 1 BY <1>4, Geometry
<1>6. VicReset \in VicState BY <1>1, <1>3, <1>5 DEF VicState
<1>7. /\ VicReset.lo = ResetLine /\ VicReset.hi = TRUE /\ VicReset.signal = FALSE
      /\ VicReset.d019 = {"raster"} /\ VicReset.rasterLatch = ResetLine + LowLines
  BY <1>1, <1>2, <1>3, <1>4 DEF VicState
<1>8. QED BY <1>6, <1>7 DEF Coherent, RasterOf

(* Flags that are raised together.                                         *)
Flagged(v, s, d) == [v EXCEPT !.hit = TRUE, !.signal = s, !.d019 = d]

LEMMA FlagsCoherent ==
  ASSUME NEW v \in VicState, Coherent(v), NEW s \in BOOLEAN,
         NEW d \in SUBSET {"raster", "irq"}, s <=> "irq" \in d, s => "raster" \in d,
         NEW w, w = Flagged(v, s, d)
  PROVE  /\ w \in VicState /\ Coherent(w)
         /\ w.x = v.x /\ w.y = v.y /\ w.rasterLatch = v.rasterLatch
         /\ w.hit
  BY DEF Flagged, VicState, Coherent, RasterOf

LEMMA CheckCoherent ==
  ASSUME NEW v \in VicState, Coherent(v)
  PROVE  /\ CheckIRQ(v) \in VicState /\ Coherent(CheckIRQ(v))
         /\ CheckIRQ(v).x = v.x /\ CheckIRQ(v).y = v.y
         /\ CheckIRQ(v).rasterLatch = v.rasterLatch
         /\ CheckIRQ(v).hit <=> (v.hit \/ v.y = v.rasterLatch)
<1>1. CASE v.y # v.rasterLatch BY <1>1 DEF CheckIRQ
<1>2. CASE v.y = v.rasterLatch
  <2> DEFINE s == v.signal \/ v.d01a
             d == v.d019 \cup {"raster"} \cup (IF v.d01a THEN {"irq"} ELSE {})
  <2>1. v.d019 \in SUBSET {"raster", "irq"} BY DEF VicState
  <2>2. s \in BOOLEAN OBVIOUS
  <2>3. d \in SUBSET {"raster", "irq"} BY <2>1
  <2>4. (s <=> "irq" \in d) /\ (s => "raster" \in d) BY DEF Coherent
  <2>5. CheckIRQ(v) = Flagged(v, s, d)
    BY <1>2, Zenon DEF CheckIRQ, Flagged
  <2> HIDE DEF s, d
  <2>6. /\ CheckIRQ(v) \in VicState /\ Coherent(CheckIRQ(v))
        /\ CheckIRQ(v).x = v.x /\ CheckIRQ(v).y = v.y
        /\ CheckIRQ(v).rasterLatch = v.rasterLatch /\ CheckIRQ(v).hit
    BY <2>2, <2>3, <2>4, <2>5, FlagsCoherent
  <2>7. QED BY <1>2, <2>6
<1>3. QED BY <1>1, <1>2

(* Line 0 is compared in its second cycle, the others in their first.      *)
Compares(v) == (v.x = 0 /\ v.y # 0) \/ (v.x = 1 /\ v.y = 0)

Moved(v, x, y) == [v EXCEPT !.x = x, !.y = y, !.hit = FALSE]

LEMMA MoveCoherent ==
  ASSUME NEW v \in VicState, Coherent(v), NEW x \in Cycle, NEW y \in Line,
         NEW w, w = Moved(v, x, y)
  PROVE  /\ w \in VicState /\ Coherent(w)
         /\ w.x = x /\ w.y = y /\ w.rasterLatch = v.rasterLatch
         /\ ~ w.hit
  BY DEF Moved, VicState, Coherent, RasterOf

LEMMA DenCoherent ==
  ASSUME NEW v \in VicState, Coherent(v), NEW b \in BOOLEAN,
         NEW w, w = [v EXCEPT !.badlineDen = b]
  PROVE  /\ w \in VicState /\ Coherent(w)
         /\ w.x = v.x /\ w.y = v.y /\ w.rasterLatch = v.rasterLatch
         /\ w.hit <=> v.hit
  BY DEF VicState, Coherent, RasterOf

(* A clock moves the raster on and compares where the code does.           *)
LEMMA ClockCoherent ==
  ASSUME NEW v \in VicState, Coherent(v)
  PROVE  LET w == VicClock(v)
         IN  /\ w \in VicState /\ Coherent(w)
             /\ w.x = IF v.x + 1 < CyclesPerRaster THEN v.x + 1 ELSE 0
             /\ w.y = IF w.x # 0 THEN v.y
                      ELSE IF v.y + 1 < LinesPerScreen THEN v.y + 1 ELSE 0
             /\ w.rasterLatch = v.rasterLatch
             /\ w.hit <=> (Compares(w) /\ w.y = w.rasterLatch)
<1> DEFINE step == [v EXCEPT !.x = @ + 1, !.hit = FALSE]
           next == [step EXCEPT !.x = 0,
                                !.y = IF @ + 1 >= LinesPerScreen THEN 0 ELSE @ + 1]
           w == VicClock(v)
<1>1. v.x \in Cycle /\ v.y \in Line /\ v.den \in BOOLEAN BY DEF VicState
<1>2. step.x = v.x + 1 /\ step.y = v.y BY DEF VicState
<1>3. w = IF step.x = 1 /\ step.y = 0
          THEN [CheckIRQ(step) EXCEPT !.badlineDen = v.den]
          ELSE IF step.x >= CyclesPerRaster
               THEN IF next.y # 0 THEN CheckIRQ(next) ELSE next
               ELSE step
  BY DEF VicClock
<1>4. CASE v.x + 1 < CyclesPerRaster
  <2>1. v.x + 1 \in Cycle BY <1>1, <1>4, Geometry DEF Cycle
  <2>2. step = Moved(v, v.x + 1, v.y) BY DEF Moved, VicState
  <2> HIDE DEF step, next, w
  <2>3. /\ step \in VicState /\ Coherent(step) /\ step.rasterLatch = v.rasterLatch
        /\ ~ step.hit
    BY <1>1, <2>1, <2>2, MoveCoherent
  <2>4. CASE step.x = 1 /\ step.y = 0
    <3>1. /\ CheckIRQ(step) \in VicState /\ Coherent(CheckIRQ(step))
          /\ CheckIRQ(step).x = 1 /\ CheckIRQ(step).y = 0
          /\ CheckIRQ(step).rasterLatch = v.rasterLatch
          /\ CheckIRQ(step).hit <=> 0 = v.rasterLatch
      BY <2>3, <2>4, CheckCoherent
    <3>2. w = [CheckIRQ(step) EXCEPT !.badlineDen = v.den] BY <1>3, <2>4
    <3>3. /\ w \in VicState /\ Coherent(w)
          /\ w.x = 1 /\ w.y = 0 /\ w.rasterLatch = v.rasterLatch
          /\ w.hit <=> 0 = v.rasterLatch
      BY <1>1, <3>1, <3>2, DenCoherent
    <3>4. QED BY <1>2, <1>4, <2>4, <3>3 DEF Compares, w
  <2>5. CASE ~ (step.x = 1 /\ step.y = 0)
    <3>1. w = step BY <1>1, <1>2, <1>3, <1>4, <2>5, Geometry DEF Cycle
    <3>2. ~ Compares(w)
      BY <1>1, <1>2, <2>5, <3>1, Geometry DEF Compares, Cycle
    <3>3. QED BY <1>1, <1>2, <1>4, <2>3, <3>1, <3>2, Geometry DEF Cycle, w
  <2>6. QED BY <2>4, <2>5
<1>5. CASE v.x + 1 >= CyclesPerRaster
  <2> DEFINE y == IF v.y + 1 < LinesPerScreen THEN v.y + 1 ELSE 0
  <2>1. 0 \in Cycle /\ y \in Line BY <1>1, Geometry DEF Cycle, Line
  <2>2. (IF v.y + 1 >= LinesPerScreen THEN 0 ELSE v.y + 1) = y
    BY <1>1, Geometry DEF Line
  <2>3. next = Moved(v, 0, y) BY <2>2 DEF Moved, VicState
  <2> HIDE DEF y, next, w
  <2>4. /\ next \in VicState /\ Coherent(next) /\ next.rasterLatch = v.rasterLatch
        /\ ~ next.hit /\ next.x = 0 /\ next.y = y
    BY <2>1, <2>3, MoveCoherent
  <2>5. w = IF y # 0 THEN CheckIRQ(next) ELSE next
    BY <1>1, <1>2, <1>3, <1>5, <2>4, Geometry DEF Cycle
  <2>6. CASE y # 0
    <3>1. /\ w \in VicState /\ Coherent(w) /\ w.x = 0 /\ w.y = y
          /\ w.rasterLatch = v.rasterLatch
          /\ w.hit <=> y = v.rasterLatch
      BY <2>4, <2>5, <2>6, CheckCoherent
    <3>2. QED BY <1>5, <2>6, <3>1, <1>1, Geometry DEF Compares, y, Cycle, w
  <2>7. CASE y = 0
    <3>1. w = next BY <2>5, <2>7
    <3>2. ~ Compares(w) BY <2>4, <2>7, <3>1 DEF Compares
    <3>3. QED BY <1>1, <1>5, <2>4, <3>1, <3>2, Geometry DEF y, Cycle, w
  <2>8. QED BY <2>6, <2>7
<1>6. QED BY <1>1, <1>4, <1>5, Geometry DEF Cycle

(* A write leaves the raster alone.                                        *)
CompareValue(lo, hi) == lo + (IF hi THEN LowLines ELSE 0)

Latched(v, hi, den, yscroll, b, lo, latch) ==
  [v EXCEPT !.badlineDen = b, !.hi = hi, !.den = den, !.yscroll = yscroll,
            !.lo = lo, !.rasterLatch = latch]

LEMMA RegisterCoherent ==
  ASSUME NEW v \in VicState, Coherent(v), NEW hi \in BOOLEAN, NEW den \in BOOLEAN,
         NEW yscroll \in 0 .. Rows - 1, NEW b \in BOOLEAN, NEW lo \in 0 .. LowLines - 1,
         NEW latch, latch = CompareValue(lo, hi),
         NEW w, w = Latched(v, hi, den, yscroll, b, lo, latch)
  PROVE  w \in VicState /\ Coherent(w) /\ w.x = v.x /\ w.y = v.y
<1>1. latch \in 0 .. 2 * LowLines - 1 BY Geometry DEF CompareValue
<1>2. w \in VicState
  <2> DEFINE u == [v EXCEPT !.badlineDen = b, !.hi = hi, !.den = den]
  <2>1. u \in VicState BY DEF VicState
  <2>2. w = [u EXCEPT !.yscroll = yscroll, !.lo = lo, !.rasterLatch = latch]
    BY DEF Latched, VicState
  <2> HIDE DEF u
  <2>3. QED BY <1>1, <2>1, <2>2 DEF VicState
<1>3. /\ w.hi = hi /\ w.lo = lo /\ w.rasterLatch = latch
      /\ w.signal = v.signal /\ w.d019 = v.d019 /\ w.x = v.x /\ w.y = v.y
  BY DEF Latched, VicState
<1>4. QED BY <1>2, <1>3, Zenon DEF Coherent, RasterOf, CompareValue

Acknowledged(v, on, d, s) == [v EXCEPT !.d01a = on, !.d019 = d, !.signal = s]

LEMMA LatchCoherent ==
  ASSUME NEW v \in VicState, Coherent(v), NEW on \in BOOLEAN, NEW s \in BOOLEAN,
         NEW d \in SUBSET {"raster", "irq"}, s <=> "irq" \in d, s => "raster" \in d,
         NEW w, w = Acknowledged(v, on, d, s)
  PROVE  w \in VicState /\ Coherent(w) /\ w.x = v.x /\ w.y = v.y
  BY DEF Acknowledged, VicState, Coherent, RasterOf

LEMMA WriteCoherent ==
  ASSUME NEW v \in VicState, Coherent(v), NEW w \in Write
  PROVE  /\ VicWriteMem(v, w) \in VicState /\ Coherent(VicWriteMem(v, w))
         /\ VicWriteMem(v, w).x = v.x /\ VicWriteMem(v, w).y = v.y
<1> DEFINE z == VicWriteMem(v, w)
<1>1. CASE w.reg = "d011"
  <2>1. w.hi \in BOOLEAN /\ w.den \in BOOLEAN /\ w.yscroll \in 0 .. Rows - 1
    BY <1>1 DEF Write
  <2>2. z = WriteD011(v, w.hi, w.den, w.yscroll) BY <1>1 DEF VicWriteMem
  <2> DEFINE b == CASE v.y < DenLine -> w.den
                    [] v.y = DenLine -> v.badlineDen \/ w.den
                    [] v.y > DenLine -> v.badlineDen
             latch == v.lo + (IF w.hi THEN LowLines ELSE 0)
  <2>3. v.badlineDen \in BOOLEAN /\ v.lo \in 0 .. LowLines - 1 BY DEF VicState
  <2>4. v.y < DenLine \/ v.y = DenLine \/ v.y > DenLine
    BY VicAssumption DEF VicState, Line, DenLine
  <2>5. b \in BOOLEAN BY <2>1, <2>3, <2>4, Zenon
  <2>6. z = Latched(v, w.hi, w.den, w.yscroll, b, v.lo, latch)
    BY <2>2 DEF Latched, WriteD011, CacheRasterLatch, RasterOf, VicState
  <2>7. latch = CompareValue(v.lo, w.hi) BY DEF CompareValue
  <2> HIDE DEF b, z, latch
  <2>8. z \in VicState /\ Coherent(z) /\ z.x = v.x /\ z.y = v.y
    BY <2>1, <2>3, <2>5, <2>6, <2>7, RegisterCoherent
  <2>9. QED BY <2>8 DEF z
<1>2. CASE w.reg = "d012"
  <2>1. w.lo \in 0 .. LowLines - 1 BY <1>2 DEF Write
  <2>2. z = WriteD012(v, w.lo) BY <1>2 DEF VicWriteMem
  <2> DEFINE latch == w.lo + (IF v.hi THEN LowLines ELSE 0)
  <2>3. z = Latched(v, v.hi, v.den, v.yscroll, v.badlineDen, w.lo, latch)
    BY <2>2 DEF Latched, WriteD012, CacheRasterLatch, RasterOf, VicState
  <2>4. /\ v.hi \in BOOLEAN /\ v.den \in BOOLEAN /\ v.yscroll \in 0 .. Rows - 1
        /\ v.badlineDen \in BOOLEAN
    BY DEF VicState
  <2>5. latch = CompareValue(w.lo, v.hi) BY DEF CompareValue
  <2> HIDE DEF z, latch
  <2>6. z \in VicState /\ Coherent(z) /\ z.x = v.x /\ z.y = v.y
    BY <2>1, <2>3, <2>4, <2>5, RegisterCoherent
  <2>7. QED BY <2>6 DEF z
<1>3. CASE w.reg = "d019"
  <2> DEFINE flags == v.d019 \ w.bits
             d == IF "raster" \in flags THEN flags ELSE {}
  <2>1. d \in SUBSET {"raster", "irq"} BY DEF VicState
  <2> DEFINE s == "irq" \in d
  <2>2. z = [v EXCEPT !.d019 = d, !.signal = s]
    BY <1>3 DEF VicWriteMem, WriteD019
  <2>3. s => "raster" \in d OBVIOUS
  <2>4. s \in BOOLEAN /\ (s <=> "irq" \in d) OBVIOUS
  <2> HIDE DEF d, s
  <2>5. v.d01a \in BOOLEAN BY DEF VicState
  <2>6. z = Acknowledged(v, v.d01a, d, s) BY <2>2 DEF Acknowledged, VicState
  <2> HIDE DEF z
  <2>7. z \in VicState /\ Coherent(z) /\ z.x = v.x /\ z.y = v.y
    BY <2>1, <2>3, <2>4, <2>5, <2>6, LatchCoherent
  <2>8. QED BY <2>7 DEF z
<1>4. CASE w.reg = "d01a"
  <2>1. w.on \in BOOLEAN BY <1>4 DEF Write
  <2>2. z = WriteD01A(v, w.on) BY <1>4 DEF VicWriteMem
  <2>3. CASE w.on /\ "raster" \in v.d019
    <3> DEFINE d == v.d019 \cup {"irq"}
               s == TRUE
    <3>1. z = [v EXCEPT !.d01a = w.on, !.signal = s, !.d019 = d]
      BY <2>2, <2>3 DEF WriteD01A
    <3>2. d \in SUBSET {"raster", "irq"} BY DEF VicState
    <3>3. s \in BOOLEAN /\ (s <=> "irq" \in d) /\ (s => "raster" \in d) BY <2>3
    <3> HIDE DEF d, s
    <3>4. z = Acknowledged(v, w.on, d, s) BY <3>1 DEF Acknowledged, VicState
    <3> HIDE DEF z
    <3>5. z \in VicState /\ Coherent(z) /\ z.x = v.x /\ z.y = v.y
      BY <2>1, <3>2, <3>3, <3>4, LatchCoherent
    <3>6. QED BY <3>5 DEF z
  <2>4. CASE ~ (w.on /\ "raster" \in v.d019)
    <3>1. z = [v EXCEPT !.d01a = w.on] BY <2>2, <2>4 DEF WriteD01A
    <3>2. QED BY <2>1, <3>1 DEF VicState, Coherent, RasterOf
  <2>5. QED BY <2>3, <2>4
<1>5. QED BY <1>1, <1>2, <1>3, <1>4 DEF Write
-----------------------------------------------------------------------------
LEMMA InitVicInv == Init => VicInv
<1>1. SUFFICES ASSUME Init PROVE VicInv OBVIOUS
<1>2. vic \in VicState /\ Coherent(vic) BY <1>1, ResetCoherent DEF Init
<1>3. QED BY <1>1, <1>2 DEF Init, VicInv, VicCoherent, Coherent, HitsSoFar

(* A step clocks the VIC and may then write one of its registers.          *)
LEMMA VicSteps ==
  ASSUME song \in Songs, Next
  PROVE  /\ \/ vic' = VicClock(vic)
            \/ \E w \in Write : vic' = VicWriteMem(VicClock(vic), w)
         /\ LET v == VicClock(vic)
                first == v.x = 0 /\ v.y = 0
            IN  /\ hits' = Few((IF first THEN 0 ELSE hits) + (IF v.hit THEN 1 ELSE 0), 2)
                /\ moved' = (vic'.rasterLatch # v.rasterLatch \/ (moved /\ ~ first))
<1> DEFINE v == VicClock(vic)
<1>1. PICK i \in Raise(cia1, "irq"), n \in Raise(cia2, "nmi") :
        SysClock(v, i, n, Sampled(v, i, n)) /\ Watch(v, i, n, Sampled(v, i, n))
  BY DEF Next
<1> DEFINE c == Sampled(v, i, n)
<1>2. SysClock(v, i, n, c) /\ Watch(v, i, n, c) BY <1>1
<1> HIDE DEF v, c
<1>3. vic' = v \/ \E w \in song.writes : vic' = VicWriteMem(v, w)
  <2>1. CASE Stunned(v, i, n, c) BY <2>1 DEF Stunned
  <2>2. CASE Interrupts(v, i, n, c) BY <2>2 DEF Interrupts
  <2>3. CASE Fetches(v, i, n, c) BY <2>3 DEF Fetches
  <2>4. CASE Works(v, i, n, c) BY <2>4 DEF Works
  <2>5. CASE TakesEffect(v, i, n, c) BY <2>5 DEF TakesEffect
  <2>6. QED BY <1>2, <2>1, <2>2, <2>3, <2>4, <2>5 DEF SysClock
<1>4. LET first == v.x = 0 /\ v.y = 0
      IN  /\ hits' = Few((IF first THEN 0 ELSE hits) + (IF v.hit THEN 1 ELSE 0), 2)
          /\ moved' = (vic'.rasterLatch # v.rasterLatch \/ (moved /\ ~ first))
  BY <1>2 DEF Watch
<1>5. song.writes \subseteq Write BY SongsAssumption DEF Song
<1>6. QED BY <1>3, <1>4, <1>5 DEF v

LEMMA StepVicInv ==
  ASSUME song \in Songs, VicInv, [Next]_vars
  PROVE  VicInv' /\ song' \in Songs
<1>1. song \in Songs /\ VicInv /\ [Next]_vars OBVIOUS
<1>2. CASE UNCHANGED vars
  BY <1>1, <1>2 DEF vars, observers, VicInv, VicCoherent, HitsSoFar, Passed, RasterOf
<1>3. CASE Next
  <2> DEFINE v == VicClock(vic)
  <2>1. vic \in VicState /\ Coherent(vic) BY <1>1 DEF VicInv, VicCoherent, Coherent
  <2>2. /\ v \in VicState /\ Coherent(v)
        /\ v.x = IF vic.x + 1 < CyclesPerRaster THEN vic.x + 1 ELSE 0
        /\ v.y = IF v.x # 0 THEN vic.y
                 ELSE IF vic.y + 1 < LinesPerScreen THEN vic.y + 1 ELSE 0
        /\ v.rasterLatch = vic.rasterLatch
        /\ v.hit <=> (Compares(v) /\ v.y = v.rasterLatch)
    BY <2>1, ClockCoherent
  <2>3. /\ vic' = v \/ \E w \in Write : vic' = VicWriteMem(v, w)
        /\ LET first == v.x = 0 /\ v.y = 0
           IN  /\ hits' = Few((IF first THEN 0 ELSE hits) + (IF v.hit THEN 1 ELSE 0), 2)
               /\ moved' = (vic'.rasterLatch # v.rasterLatch \/ (moved /\ ~ first))
    BY <1>1, <1>3, VicSteps
  <2> HIDE DEF v
  <2>4. vic' \in VicState /\ Coherent(vic') /\ vic'.x = v.x /\ vic'.y = v.y
    BY <2>2, <2>3, WriteCoherent
  <2> DEFINE first == v.x = 0 /\ v.y = 0
             hit == IF v.hit THEN 1 ELSE 0
  <2>5. hits' = Few((IF first THEN 0 ELSE hits) + hit, 2) /\ hit \in 0 .. 1
    BY <2>3
  <2>6. hits' \in 0 .. 2 /\ moved' \in BOOLEAN
    <3>1. hits \in 0 .. 2 BY <1>1 DEF VicInv
    <3> HIDE DEF hit
    <3>2. hits' \in 0 .. 2 BY <2>5, <3>1 DEF Few
    <3>3. moved' \in BOOLEAN BY <2>3
    <3>4. QED BY <3>2, <3>3
  <2>7. ASSUME ~ moved'
        PROVE  hits' = IF vic'.rasterLatch < LinesPerScreen /\ Passed(vic') THEN 1 ELSE 0
    <3> DEFINE L == vic.rasterLatch
               P == Passed(vic)
    <3>1. vic'.rasterLatch = L /\ (first \/ ~ moved) BY <2>2, <2>3, <2>7
    <3>2. /\ vic.x \in Cycle /\ vic.y \in Line /\ v.x \in Cycle /\ v.y \in Line
          /\ L \in Nat
      BY <2>1, <2>2, Geometry DEF VicState
    <3>3. hit = IF Compares(v) /\ v.y = L THEN 1 ELSE 0 BY <2>2
    <3>4. Passed(vic') <=> IF L = 0 THEN v.y > 0 \/ v.x > 0 ELSE L <= v.y
      BY <2>4, <3>1 DEF Passed
    <3>5. P <=> IF L = 0 THEN vic.y > 0 \/ vic.x > 0 ELSE L <= vic.y
      BY DEF Passed
    <3>6. ~ moved => hits = IF L < LinesPerScreen /\ P THEN 1 ELSE 0
      BY <1>1 DEF VicInv, HitsSoFar
    <3> HIDE DEF L, P, hit
    <3>7. CASE first
      <4>1. hit = 0 /\ ~ Passed(vic') BY <3>2, <3>3, <3>4, <3>7 DEF Compares
      <4>2. QED BY <2>5, <3>7, <4>1 DEF Few
    <3>8. CASE ~ first /\ v.x # 0
      <4>1. v.x = vic.x + 1 /\ v.y = vic.y
        BY <2>2, <3>2, <3>8, Geometry DEF Cycle
      <4>2. CASE v.x = 1 /\ v.y = 0
        <5>1. ~ P /\ hit = (IF L = 0 THEN 1 ELSE 0) /\ (Passed(vic') <=> L = 0)
          BY <3>2, <3>3, <3>4, <3>5, <4>1, <4>2 DEF Compares, Cycle
        <5>2. QED BY <2>5, <3>1, <3>6, <3>8, <5>1, Geometry DEF Few
      <4>3. CASE ~ (v.x = 1 /\ v.y = 0)
        <5>1. hit = 0 /\ (Passed(vic') <=> P)
          BY <3>2, <3>3, <3>4, <3>5, <3>8, <4>1, <4>3 DEF Compares, Cycle, Line
        <5>2. QED BY <2>5, <3>1, <3>6, <3>8, <5>1 DEF Few
      <4>4. QED BY <4>2, <4>3
    <3>9. CASE ~ first /\ v.x = 0
      <4>1. v.y = vic.y + 1 /\ vic.x > 0 /\ v.y < LinesPerScreen
        BY <2>2, <3>2, <3>9, Geometry DEF Cycle, Line
      <4>2. hit = IF v.y = L THEN 1 ELSE 0
        BY <3>2, <3>3, <3>9, <4>1 DEF Compares, Line
      <4>3. Passed(vic') <=> P \/ v.y = L
        BY <3>2, <3>4, <3>5, <3>9, <4>1 DEF Line
      <4>4. P => v.y # L BY <3>2, <3>5, <4>1 DEF Line
      <4>5. CASE v.y = L
        <5>1. hit = 1 /\ Passed(vic') /\ ~ P /\ L < LinesPerScreen
          BY <4>1, <4>2, <4>3, <4>4, <4>5
        <5>2. QED BY <2>5, <3>1, <3>6, <3>9, <5>1 DEF Few
      <4>6. CASE v.y # L
        <5>1. hit = 0 /\ (Passed(vic') <=> P) BY <4>2, <4>3, <4>6
        <5>2. QED BY <2>5, <3>1, <3>6, <3>9, <5>1 DEF Few
      <4>7. QED BY <4>5, <4>6
    <3>10. QED BY <3>7, <3>8, <3>9
  <2>8. HitsSoFar' BY <2>7 DEF HitsSoFar
  <2>9. song' \in Songs BY <1>1, <1>3 DEF Next
  <2>10. QED BY <2>4, <2>6, <2>8, <2>9 DEF VicInv, VicCoherent, Coherent
<1>4. QED BY <1>1, <1>2, <1>3

-----------------------------------------------------------------------------
(* The CPU samples its lines ...                                           *)
LEMMA AgedFacts ==
  ASSUME NEW c \in CpuState, NEW d, d = Aged(c)
  PROVE  /\ d \in CpuState
         /\ d.op = c.op /\ d.remain = c.remain /\ d.lead = c.lead
         /\ d.noI = c.noI /\ d.slip = c.slip
         /\ d.irqCommitted = c.irqCommitted /\ d.irqStamped = c.irqStamped
         /\ d.irqAge = (IF c.irqStamped THEN Older(c.irqAge) ELSE 0)
         /\ d.nmiCommitted = c.nmiCommitted /\ d.nmiLine = c.nmiLine
         /\ d.nmiAge = (IF c.nmiCommitted THEN Older(c.nmiAge) ELSE 0)
<1>1. \A a \in Age : Older(a) \in Age BY DEF Older, Age, OldAge
<1>2. c.irqAge \in Age /\ c.nmiAge \in Age /\ 0 \in Age BY DEF CpuState, Age, OldAge
<1>3. QED BY <1>1, <1>2 DEF Aged, CpuState

LEMMA UnstampFacts ==
  ASSUME NEW c \in CpuState, NEW d, d = Unstamp(c)
  PROVE  /\ d \in CpuState
         /\ d.op = c.op /\ d.remain = c.remain /\ d.noI = c.noI
         /\ d.slip = c.slip /\ d.lead = c.lead
         /\ d.nmiCommitted = c.nmiCommitted /\ d.nmiLine = c.nmiLine
         /\ d.nmiAge = c.nmiAge
         /\ d.irqCommitted = c.irqCommitted
         /\ d.irqStamped <=> (c.irqStamped /\ c.irqCommitted)
         /\ c.irqCommitted => d.irqAge = c.irqAge
<1>1. CASE c.irqCommitted BY <1>1 DEF Unstamp, CpuState
<1>2. CASE ~ c.irqCommitted
  <2>1. d = [c EXCEPT !.irqStamped = FALSE, !.irqAge = 0] BY <1>2 DEF Unstamp
  <2>2. 0 \in Age BY DEF Age, OldAge
  <2>3. QED BY <1>2, <2>1, <2>2 DEF CpuState
<1>3. QED BY <1>1, <1>2

LEMMA SlipFacts ==
  ASSUME NEW c \in CpuState, NEW d, d = SlipThroughSei(c)
  PROVE  /\ d \in CpuState
         /\ d.op = c.op /\ d.remain = c.remain /\ d.noI = c.noI
         /\ d.nmiCommitted = c.nmiCommitted /\ d.nmiLine = c.nmiLine
         /\ d.nmiAge = c.nmiAge
         /\ d.irqCommitted = c.irqCommitted /\ d.irqStamped = c.irqStamped
         /\ d.irqAge = c.irqAge
         /\ \/ d.slip = c.slip /\ d.lead = c.lead
            \/ d.slip = "slipped" /\ d.lead = 1 /\ d.irqCommitted /\ d.irqAge >= 1
<1>1. CASE d = c BY <1>1
<1>2. CASE /\ c.irqCommitted /\ c.irqAge = 1
           /\ d = [c EXCEPT !.slip = "slipped", !.lead = 1]
  <2>1. "slipped" \in {"blocked", "potential", "slipped"} /\ 1 \in 1 .. 3 OBVIOUS
  <2>2. d \in CpuState BY <1>2, <2>1, Zenon DEF CpuState
  <2>3. /\ d.op = c.op /\ d.remain = c.remain /\ d.noI = c.noI
        /\ d.nmiCommitted = c.nmiCommitted /\ d.nmiLine = c.nmiLine
        /\ d.nmiAge = c.nmiAge
        /\ d.irqCommitted = c.irqCommitted /\ d.irqStamped = c.irqStamped
        /\ d.irqAge = c.irqAge /\ d.slip = "slipped" /\ d.lead = 1
    BY <1>2 DEF CpuState
  <2>4. d.irqCommitted /\ d.irqAge >= 1 BY <1>2, <2>3
  <2>5. QED BY <2>2, <2>3, <2>4
<1>3. QED BY <1>1, <1>2 DEF SlipThroughSei

LEMMA CheckForIRQFacts ==
  ASSUME NEW c \in CpuState, NEW line \in BOOLEAN, NEW d, d = CheckForIRQ(c, line)
  PROVE  /\ d \in CpuState
         /\ d.op = c.op /\ d.remain = c.remain /\ d.noI = c.noI
         /\ d.nmiCommitted = c.nmiCommitted /\ d.nmiLine = c.nmiLine
         /\ d.nmiAge = c.nmiAge
         /\ \/ d.slip = c.slip /\ d.lead = c.lead
            \/ /\ c.op = "sei" /\ d.slip = "slipped" /\ d.lead = 1
               /\ d.irqCommitted /\ d.irqAge >= 1
         /\ IF line /\ c.noI
            THEN /\ d.irqStamped
                 /\ d.irqCommitted <=> (c.irqCommitted \/ ~ c.irqStamped)
                 /\ d.irqAge = (IF c.irqStamped THEN c.irqAge ELSE 0)
            ELSE /\ d.irqCommitted = c.irqCommitted
                 /\ d.irqStamped <=> (c.irqStamped /\ c.irqCommitted)
                 /\ c.irqCommitted => d.irqAge = c.irqAge
<1>1. 0 \in Age BY DEF Age, OldAge
<1>2. CASE line /\ c.noI
  BY <1>1, <1>2 DEF CheckForIRQ, CommitToIRQ, CpuState
<1>3. CASE ~ (line /\ c.noI)
  <2> DEFINE s == SlipThroughSei(c)
  <2>2. /\ s \in CpuState
        /\ s.op = c.op /\ s.remain = c.remain /\ s.noI = c.noI
        /\ s.nmiCommitted = c.nmiCommitted /\ s.nmiLine = c.nmiLine
        /\ s.nmiAge = c.nmiAge
        /\ s.irqCommitted = c.irqCommitted /\ s.irqStamped = c.irqStamped
        /\ s.irqAge = c.irqAge
        /\ \/ s.slip = c.slip /\ s.lead = c.lead
           \/ s.slip = "slipped" /\ s.lead = 1 /\ s.irqCommitted /\ s.irqAge >= 1
    BY SlipFacts
  <2>3. d = Unstamp(c) \/ (c.op = "sei" /\ d = Unstamp(s))
    BY <1>3 DEF CheckForIRQ
  <2> HIDE DEF s
  <2>4. CASE d = Unstamp(c) BY <1>3, <2>4, UnstampFacts
  <2>5. CASE c.op = "sei" /\ d = Unstamp(s) BY <1>3, <2>2, <2>5, UnstampFacts
  <2>6. QED BY <2>3, <2>4, <2>5
<1>4. QED BY <1>2, <1>3

LEMMA CheckForNMIFacts ==
  ASSUME NEW c \in CpuState, NEW line \in BOOLEAN, NEW d, d = CheckForNMI(c, line)
  PROVE  /\ d \in CpuState
         /\ d.op = c.op /\ d.remain = c.remain /\ d.lead = c.lead
         /\ d.noI = c.noI /\ d.slip = c.slip
         /\ d.irqCommitted = c.irqCommitted /\ d.irqStamped = c.irqStamped
         /\ d.irqAge = c.irqAge
         /\ d.nmiLine = line
         /\ d.nmiCommitted <=> (c.nmiCommitted \/ (line /\ ~ c.nmiLine))
         /\ d.nmiAge = (IF line /\ ~ c.nmiLine THEN 0 ELSE c.nmiAge)
<1>1. 0 \in Age BY DEF Age, OldAge
<1>2. QED BY <1>1 DEF CheckForNMI, CpuState

Samples(v, i, n, c) ==
  /\ c.op = cpu.op /\ c.remain = cpu.remain /\ c.noI = cpu.noI
  /\ \/ c.slip = cpu.slip /\ c.lead = cpu.lead
     \/ /\ cpu.op = "sei" /\ c.slip = "slipped" /\ c.lead = 1
        /\ c.irqCommitted /\ c.irqAge >= 1
  /\ IF SeesIRQ(v, i)
     THEN /\ c.irqStamped
          /\ c.irqCommitted <=> (cpu.irqCommitted \/ ~ cpu.irqStamped)
          /\ c.irqAge = (IF cpu.irqStamped THEN Older(cpu.irqAge) ELSE 0)
     ELSE /\ c.irqCommitted = cpu.irqCommitted
          /\ c.irqStamped <=> (cpu.irqStamped /\ cpu.irqCommitted)
          /\ cpu.irqCommitted /\ cpu.irqStamped => c.irqAge = Older(cpu.irqAge)
  /\ c.nmiLine = n
  /\ c.nmiCommitted <=> (cpu.nmiCommitted \/ (n /\ ~ cpu.nmiLine))
  /\ c.nmiAge = (IF n /\ ~ cpu.nmiLine THEN 0
                 ELSE IF cpu.nmiCommitted THEN Older(cpu.nmiAge) ELSE 0)

LEMMA SampledFacts ==
  ASSUME NEW v, NEW i \in BOOLEAN, NEW n \in BOOLEAN, v.signal \in BOOLEAN,
         cpu \in CpuState, NEW c, c = Sampled(v, i, n)
  PROVE  c \in CpuState /\ Samples(v, i, n, c)
<1> DEFINE a == Aged(cpu)
           q == CheckForIRQ(a, v.signal \/ i)
<1>1. c = CheckForNMI(q, n) BY DEF Sampled
<1>2. /\ a \in CpuState
      /\ a.op = cpu.op /\ a.remain = cpu.remain /\ a.lead = cpu.lead
      /\ a.noI = cpu.noI /\ a.slip = cpu.slip
      /\ a.irqCommitted = cpu.irqCommitted /\ a.irqStamped = cpu.irqStamped
      /\ a.irqAge = (IF cpu.irqStamped THEN Older(cpu.irqAge) ELSE 0)
      /\ a.nmiCommitted = cpu.nmiCommitted /\ a.nmiLine = cpu.nmiLine
      /\ a.nmiAge = (IF cpu.nmiCommitted THEN Older(cpu.nmiAge) ELSE 0)
  BY AgedFacts
<1> HIDE DEF a
<1>3. /\ q \in CpuState
      /\ q.op = a.op /\ q.remain = a.remain /\ q.noI = a.noI
      /\ q.nmiCommitted = a.nmiCommitted /\ q.nmiLine = a.nmiLine
      /\ q.nmiAge = a.nmiAge
      /\ \/ q.slip = a.slip /\ q.lead = a.lead
         \/ /\ a.op = "sei" /\ q.slip = "slipped" /\ q.lead = 1
            /\ q.irqCommitted /\ q.irqAge >= 1
      /\ IF SeesIRQ(v, i)
         THEN /\ q.irqStamped
              /\ q.irqCommitted <=> (a.irqCommitted \/ ~ a.irqStamped)
              /\ q.irqAge = (IF a.irqStamped THEN a.irqAge ELSE 0)
         ELSE /\ q.irqCommitted = a.irqCommitted
              /\ q.irqStamped <=> (a.irqStamped /\ a.irqCommitted)
              /\ a.irqCommitted => q.irqAge = a.irqAge
  <2> DEFINE line == v.signal \/ i
  <2>1. q = CheckForIRQ(a, line) OBVIOUS
  <2>2. line \in BOOLEAN OBVIOUS
  <2>3. SeesIRQ(v, i) <=> line /\ a.noI BY <1>2 DEF SeesIRQ
  <2> HIDE DEF line, q
  <2>4. a \in CpuState BY <1>2
  <2>5. /\ q \in CpuState
        /\ q.op = a.op /\ q.remain = a.remain /\ q.noI = a.noI
        /\ q.nmiCommitted = a.nmiCommitted /\ q.nmiLine = a.nmiLine
        /\ q.nmiAge = a.nmiAge
        /\ \/ q.slip = a.slip /\ q.lead = a.lead
           \/ /\ a.op = "sei" /\ q.slip = "slipped" /\ q.lead = 1
              /\ q.irqCommitted /\ q.irqAge >= 1
        /\ IF line /\ a.noI
           THEN /\ q.irqStamped
                /\ q.irqCommitted <=> (a.irqCommitted \/ ~ a.irqStamped)
                /\ q.irqAge = (IF a.irqStamped THEN a.irqAge ELSE 0)
           ELSE /\ q.irqCommitted = a.irqCommitted
                /\ q.irqStamped <=> (a.irqStamped /\ a.irqCommitted)
                /\ a.irqCommitted => q.irqAge = a.irqAge
    BY <2>1, <2>2, <2>4, CheckForIRQFacts, Z3
  <2>6. QED BY <2>3, <2>5
<1> HIDE DEF q
<1>4. /\ c \in CpuState
      /\ c.op = q.op /\ c.remain = q.remain /\ c.lead = q.lead
      /\ c.noI = q.noI /\ c.slip = q.slip
      /\ c.irqCommitted = q.irqCommitted /\ c.irqStamped = q.irqStamped
      /\ c.irqAge = q.irqAge
      /\ c.nmiLine = n
      /\ c.nmiCommitted <=> (q.nmiCommitted \/ (n /\ ~ q.nmiLine))
      /\ c.nmiAge = (IF n /\ ~ q.nmiLine THEN 0 ELSE q.nmiAge)
  BY <1>1, <1>3, CheckForNMIFacts
<1>5. QED BY <1>2, <1>3, <1>4 DEF Samples

(* ... and then waits, starts an operation, or goes on with the one it is  *)
(* at; d is the CPU after it.                                              *)
Busy(c) == c.op # None => c.remain \in 1 .. Cycles(c.op) - 1

KeepsLines(c, d) == /\ d.nmiLine = c.nmiLine
                    /\ d.irqStamped = c.irqStamped /\ d.irqAge = c.irqAge

Starts(c, d) ==
  /\ c.op = None
  /\ d.op \in Op /\ d.remain = Cycles(d.op) - 1 /\ d.lead = Lead(d.op)
  /\ IF d.op = "sei" THEN d.slip # "slipped"
     ELSE d.slip = c.slip /\ d.noI = c.noI
  /\ d.op = "nmi" <=> IsNMIPending(c)
  /\ d.op = "irq" <=> ~ IsNMIPending(c) /\ IsIRQPending(c)
  /\ IF d.op = "nmi" THEN ~ d.nmiCommitted
     ELSE d.nmiCommitted = c.nmiCommitted /\ d.nmiAge = c.nmiAge
  /\ IF d.op = "irq" THEN ~ d.irqCommitted ELSE d.irqCommitted = c.irqCommitted

Proceeds(c, d) ==
  /\ c.op # None
  /\ d.remain = c.remain - 1
  /\ d.op = IF c.remain = 1 THEN None ELSE c.op
  /\ d.lead = c.lead /\ d.slip = c.slip
  /\ IF ~ Triggers(c) THEN d.noI = c.noI
     ELSE c.op \in {"irq", "nmi"} => ~ d.noI
  /\ d.nmiCommitted = c.nmiCommitted /\ d.nmiAge = c.nmiAge
  /\ d.irqCommitted = c.irqCommitted

Moves(c, d) ==
  \/ d = c
  \/ c.op = None /\ IsNMIPending(c) /\ d = StartNMI(c)
  \/ c.op = None /\ ~ IsNMIPending(c) /\ IsIRQPending(c) /\ d = StartIRQ(c)
  \/ /\ c.op = None /\ ~ IsNMIPending(c) /\ ~ IsIRQPending(c)
     /\ \E op \in Program : d = Prefetch(c, op)
  \/ c.op # None /\ ~ Triggers(c) /\ d = Advance(c)
  \/ /\ c.op # None /\ Triggers(c)
     /\ \E pulled \in BOOLEAN : d = Advance(RunPrefetchedOp(c, pulled))

LEMMA OpFacts ==
  ASSUME NEW op \in Op
  PROVE  Cycles(op) \in 2 .. 7 /\ Lead(op) \in 2 .. 3 /\ op # None
<1>1. op # None BY DEF Op, Program, None
<1>2. Lead(op) \in 2 .. 3 BY DEF Lead
<1>3. CASE op \in {"nop", "sei", "cli"} BY <1>1, <1>2, <1>3 DEF Cycles
<1>4. CASE op = "branch" BY <1>1, <1>2, <1>4 DEF Cycles
<1>5. CASE op \in {"load", "store", "plp"} BY <1>1, <1>2, <1>5 DEF Cycles
<1>6. CASE op = "rti" BY <1>1, <1>2, <1>6 DEF Cycles
<1>7. CASE op \in {"irq", "nmi"} BY <1>1, <1>2, <1>7 DEF Cycles
<1>8. QED BY <1>3, <1>4, <1>5, <1>6, <1>7 DEF Op, Program

LEMMA InitOpFacts ==
  ASSUME NEW c \in CpuState, NEW op \in Op, NEW d, d = InitOp(c, op)
  PROVE  /\ d \in CpuState /\ Busy(d) /\ KeepsLines(c, d)
         /\ d.op = op /\ d.remain = Cycles(op) - 1 /\ d.lead = Lead(op)
         /\ d.slip = c.slip /\ d.noI = c.noI
         /\ d.nmiCommitted = c.nmiCommitted /\ d.nmiAge = c.nmiAge
         /\ d.irqCommitted = c.irqCommitted
<1>1. Cycles(op) - 1 \in 1 .. 6 /\ Lead(op) \in 1 .. 3 BY OpFacts
<1>2. /\ d.op = op /\ d.remain = Cycles(op) - 1 /\ d.lead = Lead(op)
      /\ d.slip = c.slip /\ d.noI = c.noI
      /\ d.nmiCommitted = c.nmiCommitted /\ d.nmiAge = c.nmiAge
      /\ d.irqCommitted = c.irqCommitted /\ KeepsLines(c, d)
  BY DEF InitOp, CpuState, KeepsLines
<1>3. d \in CpuState
  <2>1. op \in Op \cup {None} /\ Cycles(op) - 1 \in 0 .. 7 /\ Lead(op) \in 1 .. 3
    BY <1>1
  <2> DEFINE remain == Cycles(op) - 1
             lead == Lead(op)
  <2>2. d = [c EXCEPT !.op = op, !.remain = remain, !.lead = lead] BY DEF InitOp
  <2> HIDE DEF remain, lead
  <2>3. remain \in 0 .. 7 /\ lead \in 1 .. 3 BY <2>1 DEF remain, lead
  <2>4. QED BY <2>1, <2>2, <2>3 DEF CpuState
<1>4. Busy(d) BY <1>1, <1>2 DEF Busy
<1>5. QED BY <1>2, <1>3, <1>4

LEMMA AdvanceFacts ==
  ASSUME NEW c \in CpuState, Busy(c), c.op # None, NEW d, d = Advance(c)
  PROVE  /\ d \in CpuState /\ Busy(d) /\ KeepsLines(c, d)
         /\ d.remain = c.remain - 1
         /\ d.op = (IF c.remain = 1 THEN None ELSE c.op)
         /\ d.lead = c.lead /\ d.slip = c.slip /\ d.noI = c.noI
         /\ d.nmiCommitted = c.nmiCommitted /\ d.nmiAge = c.nmiAge
         /\ d.irqCommitted = c.irqCommitted
<1>1. c.op \in Op BY DEF CpuState
<1>2. Cycles(c.op) \in 2 .. 7 BY <1>1, OpFacts
<1>3. c.remain \in 1 .. Cycles(c.op) - 1 BY DEF Busy
<1>4. /\ d.remain = c.remain - 1 /\ d.op = (IF c.remain = 1 THEN None ELSE c.op)
      /\ d.lead = c.lead /\ d.slip = c.slip /\ d.noI = c.noI
      /\ d.nmiCommitted = c.nmiCommitted /\ d.nmiAge = c.nmiAge
      /\ d.irqCommitted = c.irqCommitted /\ KeepsLines(c, d)
  BY DEF Advance, CpuState, KeepsLines
<1>5. c.remain - 1 \in 0 .. 7 BY <1>2, <1>3
<1>6. d \in CpuState BY <1>5 DEF Advance, CpuState
<1>7. Busy(d) BY <1>2, <1>3, <1>4 DEF Busy
<1>8. QED BY <1>4, <1>6, <1>7

LEMMA EffectFacts ==
  ASSUME NEW c \in CpuState, NEW pulled \in BOOLEAN,
         NEW d, d = RunPrefetchedOp(c, pulled)
  PROVE  /\ d \in CpuState /\ KeepsLines(c, d)
         /\ d.op = c.op /\ d.remain = c.remain
         /\ d.lead = c.lead /\ d.slip = c.slip
         /\ c.op \in {"irq", "nmi"} => ~ d.noI
         /\ d.nmiCommitted = c.nmiCommitted /\ d.nmiAge = c.nmiAge
         /\ d.irqCommitted = c.irqCommitted
<1>1. /\ c.op \in {"irq", "nmi"} => d = [c EXCEPT !.noI = FALSE]
      /\ d = c \/ \E b \in BOOLEAN : d = [c EXCEPT !.noI = b]
  BY DEF RunPrefetchedOp
<1>2. \A b \in BOOLEAN :
        LET u == [c EXCEPT !.noI = b]
        IN  /\ u \in CpuState /\ KeepsLines(c, u) /\ u.noI = b
            /\ u.op = c.op /\ u.remain = c.remain
            /\ u.lead = c.lead /\ u.slip = c.slip
            /\ u.nmiCommitted = c.nmiCommitted /\ u.nmiAge = c.nmiAge
            /\ u.irqCommitted = c.irqCommitted
  BY DEF CpuState, KeepsLines
<1>3. KeepsLines(c, c) BY DEF KeepsLines
<1>4. QED BY <1>1, <1>2, <1>3

LEMMA MoveFacts ==
  ASSUME NEW c \in CpuState, Busy(c), NEW d, Moves(c, d)
  PROVE  /\ d \in CpuState /\ Busy(d) /\ KeepsLines(c, d)
         /\ d = c \/ Starts(c, d) \/ Proceeds(c, d)
<1>1. CASE d = c BY <1>1 DEF KeepsLines
<1>2. CASE c.op = None /\ IsNMIPending(c) /\ d = StartNMI(c)
  <2> DEFINE u == InitOp(c, "nmi")
  <2>1. "nmi" \in Op /\ 0 \in Age BY DEF Op, Age, OldAge
  <2>2. /\ u \in CpuState /\ Busy(u) /\ KeepsLines(c, u)
        /\ u.op = "nmi" /\ u.remain = Cycles("nmi") - 1 /\ u.lead = Lead("nmi")
        /\ u.slip = c.slip /\ u.noI = c.noI
        /\ u.irqCommitted = c.irqCommitted
    BY <2>1, InitOpFacts
  <2>3. d = [u EXCEPT !.nmiCommitted = FALSE, !.nmiAge = 0] BY <1>2 DEF StartNMI
  <2> HIDE DEF u
  <2>4. /\ d \in CpuState /\ KeepsLines(u, d)
        /\ d.op = u.op /\ d.remain = u.remain /\ d.lead = u.lead
        /\ d.slip = u.slip /\ d.noI = u.noI
        /\ d.irqCommitted = u.irqCommitted /\ ~ d.nmiCommitted
    BY <2>1, <2>2, <2>3 DEF CpuState, KeepsLines
  <2>5. Busy(d) /\ KeepsLines(c, d) BY <2>2, <2>4 DEF Busy, KeepsLines
  <2>6. Starts(c, d) BY <1>2, <2>1, <2>2, <2>4 DEF Starts
  <2>7. QED BY <2>4, <2>5, <2>6
<1>3. CASE c.op = None /\ ~ IsNMIPending(c) /\ IsIRQPending(c) /\ d = StartIRQ(c)
  <2> DEFINE u == InitOp(c, "irq")
  <2>1. "irq" \in Op BY DEF Op
  <2>2. /\ u \in CpuState /\ Busy(u) /\ KeepsLines(c, u)
        /\ u.op = "irq" /\ u.remain = Cycles("irq") - 1 /\ u.lead = Lead("irq")
        /\ u.slip = c.slip /\ u.noI = c.noI
        /\ u.nmiCommitted = c.nmiCommitted /\ u.nmiAge = c.nmiAge
    BY <2>1, InitOpFacts
  <2>3. d = [u EXCEPT !.irqCommitted = FALSE] BY <1>3 DEF StartIRQ
  <2> HIDE DEF u
  <2>4. /\ d \in CpuState /\ KeepsLines(u, d)
        /\ d.op = u.op /\ d.remain = u.remain /\ d.lead = u.lead
        /\ d.slip = u.slip /\ d.noI = u.noI
        /\ d.nmiCommitted = u.nmiCommitted /\ d.nmiAge = u.nmiAge
        /\ ~ d.irqCommitted
    BY <2>2, <2>3 DEF CpuState, KeepsLines
  <2>5. Busy(d) /\ KeepsLines(c, d) BY <2>2, <2>4 DEF Busy, KeepsLines
  <2>6. Starts(c, d) BY <1>3, <2>1, <2>2, <2>4 DEF Starts
  <2>7. QED BY <2>4, <2>5, <2>6
<1>4. CASE /\ c.op = None /\ ~ IsNMIPending(c) /\ ~ IsIRQPending(c)
           /\ \E op \in Program : d = Prefetch(c, op)
  <2>1. PICK op \in Program : d = Prefetch(c, op) BY <1>4
  <2>2. op \in Op /\ op # "irq" /\ op # "nmi" BY DEF Op, Program
  <2> DEFINE u == InitOp(c, op)
  <2>3. /\ u \in CpuState /\ Busy(u) /\ KeepsLines(c, u)
        /\ u.op = op /\ u.remain = Cycles(op) - 1 /\ u.lead = Lead(op)
        /\ u.slip = c.slip /\ u.noI = c.noI
        /\ u.nmiCommitted = c.nmiCommitted /\ u.nmiAge = c.nmiAge
        /\ u.irqCommitted = c.irqCommitted
    BY <2>2, InitOpFacts
  <2>4. d = IF op # "sei" THEN u
            ELSE [u EXCEPT !.noI = FALSE,
                           !.slip = IF c.noI THEN "potential" ELSE "blocked"]
    BY <2>1 DEF Prefetch
  <2> HIDE DEF u
  <2>5. CASE op # "sei"
    <3>1. d = u BY <2>4, <2>5
    <3>2. Starts(c, d) BY <1>4, <2>2, <2>3, <2>5, <3>1 DEF Starts
    <3>3. QED BY <2>3, <3>1, <3>2
  <2>6. CASE op = "sei"
    <3>1. /\ d \in CpuState /\ KeepsLines(u, d)
          /\ d.op = u.op /\ d.remain = u.remain /\ d.lead = u.lead
          /\ d.slip \in {"potential", "blocked"}
          /\ d.nmiCommitted = u.nmiCommitted /\ d.nmiAge = u.nmiAge
          /\ d.irqCommitted = u.irqCommitted
      BY <2>3, <2>4, <2>6 DEF CpuState, KeepsLines
    <3>2. Busy(d) /\ KeepsLines(c, d) BY <2>3, <3>1 DEF Busy, KeepsLines
    <3>3. Starts(c, d) BY <1>4, <2>2, <2>3, <2>6, <3>1 DEF Starts
    <3>4. QED BY <3>1, <3>2, <3>3
  <2>7. QED BY <2>5, <2>6
<1>5. CASE c.op # None /\ ~ Triggers(c) /\ d = Advance(c)
  BY <1>5, AdvanceFacts DEF Proceeds
<1>6. CASE /\ c.op # None /\ Triggers(c)
           /\ \E pulled \in BOOLEAN : d = Advance(RunPrefetchedOp(c, pulled))
  <2>1. PICK pulled \in BOOLEAN : d = Advance(RunPrefetchedOp(c, pulled)) BY <1>6
  <2> DEFINE u == RunPrefetchedOp(c, pulled)
  <2>2. /\ u \in CpuState /\ KeepsLines(c, u)
        /\ u.op = c.op /\ u.remain = c.remain
        /\ u.lead = c.lead /\ u.slip = c.slip
        /\ c.op \in {"irq", "nmi"} => ~ u.noI
        /\ u.nmiCommitted = c.nmiCommitted /\ u.nmiAge = c.nmiAge
        /\ u.irqCommitted = c.irqCommitted
    BY EffectFacts
  <2>3. d = Advance(u) BY <2>1
  <2> HIDE DEF u
  <2>4. Busy(u) /\ u.op # None BY <1>6, <2>2 DEF Busy
  <2>5. /\ d \in CpuState /\ Busy(d) /\ KeepsLines(u, d)
        /\ d.remain = u.remain - 1
        /\ d.op = (IF u.remain = 1 THEN None ELSE u.op)
        /\ d.lead = u.lead /\ d.slip = u.slip /\ d.noI = u.noI
        /\ d.nmiCommitted = u.nmiCommitted /\ d.nmiAge = u.nmiAge
        /\ d.irqCommitted = u.irqCommitted
    BY <2>2, <2>3, <2>4, AdvanceFacts
  <2>6. KeepsLines(c, d) BY <2>2, <2>5 DEF KeepsLines
  <2>7. Proceeds(c, d) BY <1>6, <2>2, <2>5 DEF Proceeds
  <2>8. QED BY <2>5, <2>6, <2>7
<1>7. QED BY <1>1, <1>2, <1>3, <1>4, <1>5, <1>6 DEF Moves

(* The lead time and the flag I of the operation under way or the last one. *)
Recent(c) == IF c.op = None THEN last ELSE c.op
LeadOf(op, slip) == IF op = "sei" /\ slip = "slipped" THEN 1
                    ELSE IF op = "branch" THEN 3 ELSE 2

CpuInv ==
  /\ Busy(cpu)
  /\ cpu.op \in {"irq", "nmi"} /\ cpu.remain <= 2 => ~ cpu.noI
  /\ cpu.lead = LeadOf(Recent(cpu), cpu.slip)

(* What the CPU knows of an NMI is what happened to the line.              *)
NmiInv == /\ owed = cpu.nmiCommitted /\ nmiWas = cpu.nmiLine
          /\ owed => due = cpu.nmiAge

(* An IRQ's time stamp outlives its commitment only until the handler sets *)
(* the flag I; it is as old as the samples in a row that saw the IRQ.      *)
(* After a RTI that cleared the flag, these are all since then.            *)
SinceRTI == IF Recent(cpu) # "rti" THEN 0
            ELSE IF cpu.op = None THEN 2
            ELSE IF cpu.remain = 1 THEN 1 ELSE 0

IrqInv ==
  /\ cpu.irqStamped => cpu.irqCommitted \/ (cpu.op = "irq" /\ cpu.remain >= 2)
  /\ ready > 0 => cpu.irqStamped /\ cpu.irqAge >= ready - 1
  /\ cpu.noI => ready >= Few(seen, SinceRTI)

(* The invariant.                                                          *)
IInv == /\ TypeOK /\ VicInv
        /\ CpuInv /\ NmiInv /\ IrqInv /\ lost <= vic.x

LEMMA InitIInv == Init => IInv
<1>1. SUFFICES ASSUME Init PROVE IInv OBVIOUS
<1>2. VicInv BY <1>1, InitVicInv
<1>3. cpu = CpuInit BY <1>1 DEF Init
<1>4. /\ cpu \in CpuState
      /\ cpu.op = None /\ cpu.lead = 2 /\ cpu.irqStamped = FALSE
      /\ cpu.nmiCommitted = FALSE /\ cpu.nmiLine = FALSE
  BY <1>3 DEF CpuInit, CpuState, Age, OldAge
<1>5. CpuInv BY <1>1, <1>4 DEF Init, CpuInv, Busy, Recent, LeadOf, None
<1>6. NmiInv /\ IrqInv
  <2>1. NmiInv BY <1>1, <1>4 DEF Init, NmiInv
  <2>2. SinceRTI = 0 BY <1>1, <1>4 DEF Init, SinceRTI, Recent, None
  <2>3. QED BY <1>1, <1>4, <2>1, <2>2 DEF Init, IrqInv, Few
<1>7. vic.x \in Cycle BY <1>2 DEF VicInv, VicState
<1>8. 0 <= vic.x /\ 0 \in Cycle BY <1>7, Geometry DEF Cycle
<1>9. TypeOK
  <2>1. song \in Songs /\ vic \in VicState /\ cpu \in CpuState
    BY <1>1, <1>2, <1>4 DEF Init, VicInv
  <2>2. last \in Op \cup {None} /\ lost \in Cycle BY <1>1, <1>8 DEF Init
  <2>3. 0 \in Age /\ 0 \in 0 .. 4 /\ 0 \in 0 .. 2 BY DEF Age, OldAge
  <2>4. QED BY <1>1, <2>1, <2>2, <2>3, Zenon DEF Init, TypeOK
<1>10. QED BY <1>1, <1>2, <1>5, <1>6, <1>8, <1>9 DEF Init, IInv

(* A step in terms of the above.                                           *)
Clocks(v, i, n, c) ==
  /\ v \in VicState /\ v = VicClock(vic)
  /\ c \in CpuState /\ Samples(v, i, n, c)
  /\ cpu' \in CpuState /\ Busy(cpu') /\ KeepsLines(c, cpu')
  /\ cpu' = c \/ Starts(c, cpu') \/ Proceeds(c, cpu')
  /\ Watch(v, i, n, c)
  /\ cia1' \in BOOLEAN /\ cia2' \in BOOLEAN
  /\ \/ vic' = v
     \/ /\ \E w \in Write : vic' = VicWriteMem(v, w)
        /\ c.op = "store" /\ c.remain = 1 /\ Proceeds(c, cpu')

LEMMA CpuSteps ==
  ASSUME IInv, Next
  PROVE  \E v \in VicState, i \in BOOLEAN, n \in BOOLEAN, c \in CpuState :
           Clocks(v, i, n, c)
<1> DEFINE v == VicClock(vic)
<1>1. PICK i \in Raise(cia1, "irq"), n \in Raise(cia2, "nmi") :
        SysClock(v, i, n, Sampled(v, i, n)) /\ Watch(v, i, n, Sampled(v, i, n))
  BY DEF Next
<1> DEFINE c == Sampled(v, i, n)
<1>2. SysClock(v, i, n, c) /\ Watch(v, i, n, c) BY <1>1
<1>3. vic \in VicState /\ Coherent(vic) BY DEF IInv, VicInv, VicCoherent, Coherent
<1>4. v \in VicState BY <1>3, ClockCoherent
<1>5. i \in BOOLEAN /\ n \in BOOLEAN BY DEF Raise, IInv, TypeOK
<1>6. v.signal \in BOOLEAN BY <1>4 DEF VicState
<1>7. cpu \in CpuState /\ song \in Song BY SongsAssumption DEF IInv, TypeOK
<1> HIDE DEF v
<1>8. c \in CpuState /\ Samples(v, i, n, c) BY <1>5, <1>6, <1>7, SampledFacts
<1> HIDE DEF c
<1>9. Busy(c) BY <1>8 DEF IInv, CpuInv, Busy, Samples
<1>10. song.ops \subseteq Program /\ song.writes \subseteq Write BY <1>7 DEF Song
<1>11. /\ Moves(c, cpu') /\ cia1' \in BOOLEAN /\ cia2' \in BOOLEAN
       /\ \/ vic' = v
          \/ /\ \E w \in Write : vic' = VicWriteMem(v, w)
             /\ c.op = "store" /\ Triggers(c)
             /\ \E pulled \in BOOLEAN : cpu' = Advance(RunPrefetchedOp(c, pulled))
  <2>1. CASE Stunned(v, i, n, c) BY <1>5, <2>1 DEF Stunned, Moves
  <2>2. CASE Interrupts(v, i, n, c) BY <1>5, <2>2 DEF Interrupts, Begins, Moves
  <2>3. CASE Fetches(v, i, n, c)
    BY <1>5, <1>10, <2>3 DEF Fetches, Begins, Moves
  <2>4. CASE Works(v, i, n, c) BY <1>5, <2>4 DEF Works, Continues, Moves
  <2>5. CASE TakesEffect(v, i, n, c)
    <3>1. Moves(c, cpu') BY <2>5 DEF TakesEffect, Continues, Moves
    <3>2. cia1' \in BOOLEAN /\ cia2' \in BOOLEAN BY <1>5, <2>5 DEF TakesEffect
    <3>3. \/ vic' = v
          \/ /\ \E w \in Write : vic' = VicWriteMem(v, w)
             /\ c.op = "store" /\ Triggers(c)
             /\ \E pulled \in BOOLEAN : cpu' = Advance(RunPrefetchedOp(c, pulled))
      BY <1>10, <2>5 DEF TakesEffect
    <3>4. QED BY <3>1, <3>2, <3>3
  <2>6. QED BY <1>2, <2>1, <2>2, <2>3, <2>4, <2>5 DEF SysClock
<1>12. /\ cpu' \in CpuState /\ Busy(cpu') /\ KeepsLines(c, cpu')
       /\ cpu' = c \/ Starts(c, cpu') \/ Proceeds(c, cpu')
  BY <1>8, <1>9, <1>11, MoveFacts
<1>13. ASSUME c.op = "store", Triggers(c),
              \E pulled \in BOOLEAN : cpu' = Advance(RunPrefetchedOp(c, pulled))
       PROVE  c.remain = 1 /\ Proceeds(c, cpu')
  <2>1. c.remain \in 0 .. 7 BY <1>8 DEF CpuState
  <2>2. c.remain = 1 BY <1>13, <2>1 DEF Triggers, Trigger
  <2>3. cpu' = Advance(c) BY <1>13 DEF RunPrefetchedOp
  <2>4. c.op # None BY <1>13 DEF None
  <2>5. cpu'.op = None BY <2>2, <2>3, <1>8 DEF Advance, CpuState
  <2>6. cpu' # c /\ ~ Starts(c, cpu') BY <2>4, <2>5 DEF Starts
  <2>7. QED BY <1>12, <2>2, <2>6
<1>14. Clocks(v, i, n, c)
  BY <1>2, <1>4, <1>8, <1>11, <1>12, <1>13 DEF Clocks, v
<1>15. QED BY <1>4, <1>5, <1>8, <1>14

(* Each part of the invariant is kept.                                     *)
LEMMA StepCpuInv ==
  ASSUME IInv, NEW v, NEW i \in BOOLEAN, NEW n \in BOOLEAN, NEW c, Clocks(v, i, n, c)
  PROVE  CpuInv'
<1>1. /\ c \in CpuState /\ Samples(v, i, n, c) /\ cpu' \in CpuState /\ Busy(cpu')
      /\ cpu' = c \/ Starts(c, cpu') \/ Proceeds(c, cpu')
  BY DEF Clocks
<1>2. last' = IF cpu.op # None /\ cpu'.op = None THEN cpu.op ELSE last
  BY DEF Clocks, Watch
<1>3. cpu \in CpuState /\ CpuInv BY DEF IInv, TypeOK
<1>4. c.op = cpu.op /\ c.remain = cpu.remain /\ c.noI = cpu.noI BY <1>1 DEF Samples
<1>5. c.lead = LeadOf(Recent(c), c.slip)
  BY <1>1, <1>3, <1>4 DEF Samples, CpuInv, LeadOf, Recent, None
<1>6. c.op # None => c.op \in Op BY <1>1 DEF CpuState
<1>7. c.remain \in 0 .. 7 /\ cpu'.remain \in 0 .. 7 BY <1>1 DEF CpuState
<1>8. Busy(cpu') BY <1>1
<1>9. ASSUME cpu'.op \in {"irq", "nmi"}, cpu'.remain <= 2 PROVE ~ cpu'.noI
  <2>1. CASE cpu' = c BY <1>3, <1>4, <1>9, <2>1 DEF CpuInv
  <2>2. CASE Starts(c, cpu')
    <3>1. cpu'.remain = 6 BY <1>9, <2>2 DEF Starts, Cycles
    <3>2. QED BY <1>9, <3>1
  <2>3. CASE Proceeds(c, cpu')
    <3>1. c.op \in {"irq", "nmi"} /\ c.remain = cpu'.remain + 1
      BY <1>7, <1>9, <2>3 DEF Proceeds, None
    <3>2. CASE cpu'.remain = 2
      <4>1. Triggers(c) BY <3>1, <3>2 DEF Triggers, Trigger
      <4>2. QED BY <2>3, <3>1, <4>1 DEF Proceeds
    <3>3. CASE cpu'.remain # 2
      <4>1. c.remain <= 2 BY <1>7, <1>9, <3>1, <3>3
      <4>2. ~ Triggers(c) BY <1>7, <3>1, <4>1 DEF Triggers, Trigger
      <4>3. QED BY <1>3, <1>4, <2>3, <3>1, <4>1, <4>2 DEF Proceeds, CpuInv
    <3>4. QED BY <3>2, <3>3
  <2>4. QED BY <1>1, <2>1, <2>2, <2>3
<1>10. cpu'.lead = LeadOf(IF cpu'.op = None THEN last' ELSE cpu'.op, cpu'.slip)
  <2>1. CASE cpu' = c BY <1>2, <1>4, <1>5, <2>1 DEF Recent
  <2>2. CASE Starts(c, cpu')
    <3>1. cpu'.op # None BY <2>2, OpFacts DEF Starts
    <3>2. cpu'.lead = Lead(cpu'.op) /\ (cpu'.op = "sei" => cpu'.slip # "slipped")
      BY <2>2 DEF Starts
    <3>3. QED BY <3>1, <3>2 DEF Lead, LeadOf
  <2>3. CASE Proceeds(c, cpu')
    <3>1. c.op # None /\ cpu'.lead = c.lead /\ cpu'.slip = c.slip
      BY <2>3 DEF Proceeds
    <3>2. (IF cpu'.op = None THEN last' ELSE cpu'.op) = c.op
      BY <1>2, <1>4, <2>3 DEF Proceeds
    <3>3. QED BY <1>5, <3>1, <3>2 DEF Recent
  <2>4. QED BY <1>1, <2>1, <2>2, <2>3
<1>11. QED BY <1>8, <1>9, <1>10 DEF CpuInv, Recent

LEMMA StepNmiInv ==
  ASSUME IInv, NEW v, NEW i \in BOOLEAN, NEW n \in BOOLEAN, NEW c, Clocks(v, i, n, c)
  PROVE  NmiInv'
<1> DEFINE edge == n /\ ~ nmiWas
           enters == cpu.op = None /\ cpu'.op = "nmi"
<1>1. /\ c \in CpuState /\ Samples(v, i, n, c) /\ KeepsLines(c, cpu')
      /\ cpu' \in CpuState
      /\ cpu' = c \/ Starts(c, cpu') \/ Proceeds(c, cpu')
  BY DEF Clocks
<1>2. /\ owed' = (IF enters THEN FALSE ELSE owed \/ edge)
      /\ due' = (IF edge \/ ~ owed THEN 0 ELSE Few(due + 1, OldAge))
      /\ nmiWas' = n
  BY DEF Clocks, Watch
<1>3. /\ cpu \in CpuState /\ owed \in BOOLEAN /\ due \in Age
      /\ owed = cpu.nmiCommitted /\ nmiWas = cpu.nmiLine
      /\ owed => due = cpu.nmiAge
  BY DEF IInv, TypeOK, NmiInv
<1>4. /\ c.op = cpu.op /\ c.nmiLine = n
      /\ c.nmiCommitted <=> (owed \/ edge)
      /\ c.nmiAge = (IF edge THEN 0 ELSE IF owed THEN Older(cpu.nmiAge) ELSE 0)
  BY <1>1, <1>3 DEF Samples
<1>5. owed /\ ~ edge => Older(cpu.nmiAge) = Few(due + 1, OldAge)
  BY <1>3 DEF Older, Few, OldAge, Age
<1> HIDE DEF edge
<1>6. c.nmiAge = due' BY <1>2, <1>4, <1>5
<1>7. nmiWas' = cpu'.nmiLine BY <1>1, <1>2, <1>4 DEF KeepsLines
<1>8. CASE enters
  <2>1. ~ owed' BY <1>2, <1>8
  <2>2. cpu' # c /\ ~ Proceeds(c, cpu')
    BY <1>4, <1>8 DEF Proceeds, None
  <2>3. ~ cpu'.nmiCommitted BY <1>1, <1>8, <2>2 DEF Starts
  <2>4. cpu'.nmiCommitted \in BOOLEAN /\ owed' \in BOOLEAN
    BY <1>1, <1>2, <1>8 DEF CpuState
  <2>5. QED BY <1>7, <2>1, <2>3, <2>4 DEF NmiInv
<1>9. CASE ~ enters
  <2>1. cpu'.nmiCommitted = c.nmiCommitted /\ cpu'.nmiAge = c.nmiAge
    BY <1>1, <1>4, <1>9 DEF Starts, Proceeds
  <2>2. owed' <=> c.nmiCommitted BY <1>2, <1>4, <1>9
  <2>3. c.nmiCommitted \in BOOLEAN /\ owed' \in BOOLEAN
    BY <1>1, <1>2, <1>3, <1>9 DEF CpuState, edge
  <2>4. QED BY <1>6, <1>7, <2>1, <2>2, <2>3 DEF NmiInv
<1>10. QED BY <1>8, <1>9

LEMMA StepIrqInv ==
  ASSUME IInv, NEW v, NEW i \in BOOLEAN, NEW n \in BOOLEAN, NEW c, Clocks(v, i, n, c)
  PROVE  IrqInv'
<1> DEFINE sees == v.signal \/ i
<1>1. /\ c \in CpuState /\ Samples(v, i, n, c) /\ KeepsLines(c, cpu')
      /\ cpu' = c \/ Starts(c, cpu') \/ Proceeds(c, cpu')
      /\ Busy(cpu') /\ cpu' \in CpuState
  BY DEF Clocks
<1>2. /\ ready' = (IF sees /\ cpu.noI THEN Few(ready + 1, 4) ELSE 0)
      /\ seen' = (IF sees THEN Few(seen + 1, 4) ELSE 0)
      /\ last' = (IF cpu.op # None /\ cpu'.op = None THEN cpu.op ELSE last)
  BY DEF Clocks, Watch, SeesIRQ
<1>3. /\ cpu \in CpuState /\ CpuInv /\ IrqInv /\ ready \in 0 .. 4 /\ seen \in 0 .. 4
  BY DEF IInv, TypeOK
<1>4. c.op = cpu.op /\ c.remain = cpu.remain /\ c.noI = cpu.noI BY <1>1 DEF Samples
<1>5. /\ cpu.irqAge \in Age /\ c.irqAge \in Age /\ c.remain \in 0 .. 7
      /\ cpu'.remain \in 0 .. 7
  BY <1>1, <1>3 DEF CpuState
<1>6. IF sees /\ cpu.noI
      THEN /\ c.irqStamped
           /\ c.irqCommitted <=> (cpu.irqCommitted \/ ~ cpu.irqStamped)
           /\ c.irqAge = (IF cpu.irqStamped THEN Older(cpu.irqAge) ELSE 0)
      ELSE /\ c.irqCommitted = cpu.irqCommitted
           /\ c.irqStamped <=> (cpu.irqStamped /\ cpu.irqCommitted)
  BY <1>1 DEF Samples, SeesIRQ
<1> HIDE DEF sees
<1>7. ready' > 0 => cpu'.irqStamped /\ cpu'.irqAge >= ready' - 1
  <2>1. cpu'.irqStamped = c.irqStamped /\ cpu'.irqAge = c.irqAge
    BY <1>1 DEF KeepsLines
  <2>2. CASE ~ (sees /\ cpu.noI) BY <1>2, <2>2
  <2>3. CASE sees /\ cpu.noI
    <3>1. c.irqStamped BY <1>6, <2>3
    <3>2. CASE ready = 0
      <4>1. ready' = 1 BY <1>2, <2>3, <3>2 DEF Few
      <4>2. QED BY <1>5, <2>1, <3>1, <4>1 DEF Age
    <3>3. CASE ready > 0
      <4>1. cpu.irqStamped /\ cpu.irqAge >= ready - 1 BY <1>3, <3>3 DEF IrqInv
      <4>2. c.irqAge = Older(cpu.irqAge) BY <1>6, <2>3, <4>1
      <4>3. ready' = Few(ready + 1, 4) BY <1>2, <2>3
      <4>4. c.irqAge >= ready' - 1
        BY <1>3, <1>5, <4>1, <4>2, <4>3 DEF Older, Few, OldAge, Age
      <4>5. QED BY <2>1, <3>1, <4>4
    <3>4. QED BY <1>3, <3>2, <3>3
  <2>4. QED BY <2>2, <2>3
<1>8. cpu'.irqStamped => cpu'.irqCommitted \/ (cpu'.op = "irq" /\ cpu'.remain >= 2)
  <2>1. SUFFICES ASSUME cpu'.irqStamped, ~ cpu'.irqCommitted
                 PROVE  cpu'.op = "irq" /\ cpu'.remain >= 2
    OBVIOUS
  <2>2. c.irqStamped BY <1>1, <2>1 DEF KeepsLines
  <2>3. CASE c.irqCommitted
    <3>1. Starts(c, cpu') /\ cpu'.op = "irq"
      BY <1>1, <2>1, <2>3 DEF Starts, Proceeds
    <3>2. cpu'.remain = 6 BY <3>1 DEF Starts, Cycles
    <3>3. QED BY <3>1, <3>2
  <2>4. CASE ~ c.irqCommitted
    <3>1. cpu.irqStamped /\ ~ cpu.irqCommitted /\ cpu.noI BY <1>6, <2>2, <2>4
    <3>2. cpu.op = "irq" /\ cpu.remain >= 2 BY <1>3, <3>1 DEF IrqInv
    <3>3. ~ (cpu.remain <= 2) BY <1>3, <3>1, <3>2 DEF CpuInv
    <3>4. c.op = "irq" /\ c.remain > 2 BY <1>4, <1>5, <3>2, <3>3
    <3>5. CASE cpu' = c BY <1>5, <3>4, <3>5
    <3>6. CASE Starts(c, cpu') BY <3>4, <3>6 DEF Starts, None
    <3>7. CASE Proceeds(c, cpu') BY <1>5, <3>4, <3>7 DEF Proceeds
    <3>8. QED BY <1>1, <3>5, <3>6, <3>7
  <2>5. QED BY <2>3, <2>4
<1>9. ASSUME cpu'.noI PROVE ready' >= Few(seen', SinceRTI')
  <2>1. ready' \in 0 .. 4 /\ seen' \in 0 .. 4 BY <1>2, <1>3 DEF Few
  <2>2. SinceRTI' = LET r == IF cpu'.op = None THEN last' ELSE cpu'.op
                    IN  IF r # "rti" THEN 0
                        ELSE IF cpu'.op = None THEN 2
                        ELSE IF cpu'.remain = 1 THEN 1 ELSE 0
    BY DEF SinceRTI, Recent
  <2>3. CASE SinceRTI' = 0 BY <2>1, <2>3 DEF Few
  <2>4. CASE SinceRTI' # 0
    <3>1. ~ Starts(c, cpu')
      <4>1. SUFFICES ASSUME Starts(c, cpu') PROVE FALSE OBVIOUS
      <4>2. cpu'.op \in Op /\ cpu'.op # None BY <4>1, OpFacts DEF Starts
      <4>3. cpu'.op = "rti" /\ cpu'.remain = 1 BY <2>2, <2>4, <4>2
      <4>4. cpu'.remain = 5 BY <4>1, <4>3 DEF Starts, Cycles
      <4>5. QED BY <4>3, <4>4
    <3>2. CASE cpu' = c
      <4>1. cpu.noI /\ SinceRTI' = SinceRTI
        BY <1>2, <1>4, <1>9, <2>2, <3>2 DEF SinceRTI, Recent
      <4>2. ready >= Few(seen, SinceRTI) /\ SinceRTI \in 0 .. 2
        BY <1>3, <4>1 DEF IrqInv, SinceRTI
      <4>3. QED BY <1>2, <1>3, <4>1, <4>2 DEF Few
    <3>3. CASE Proceeds(c, cpu')
      <4>1. /\ c.op = "rti" /\ c.op # None /\ c.remain = cpu'.remain + 1
            /\ cpu'.remain \in {0, 1}
            /\ SinceRTI' = IF cpu'.remain = 1 THEN 1 ELSE 2
        <5>1. c.op # None /\ c.remain = cpu'.remain + 1
              /\ cpu'.op = IF c.remain = 1 THEN None ELSE c.op
          BY <1>5, <3>3 DEF Proceeds
        <5>2. CASE c.remain = 1
          <6>1. cpu'.op = None /\ last' = c.op BY <1>2, <1>4, <5>1, <5>2
          <6>2. c.op = "rti" /\ SinceRTI' = 2 BY <2>2, <2>4, <6>1
          <6>3. QED BY <1>5, <5>1, <5>2, <6>2
        <5>3. CASE c.remain # 1
          <6>1. cpu'.op = c.op /\ cpu'.op # None BY <5>1, <5>3
          <6>2. c.op = "rti" /\ cpu'.remain = 1 /\ SinceRTI' = 1 BY <2>2, <2>4, <6>1
          <6>3. QED BY <5>1, <6>2
        <5>4. QED BY <5>2, <5>3
      <4>2. cpu'.noI = cpu.noI
        BY <1>4, <1>5, <3>3, <4>1 DEF Proceeds, Triggers, Trigger
      <4>3. SinceRTI = IF cpu.remain = 1 THEN 1 ELSE 0
        BY <1>4, <4>1 DEF SinceRTI, Recent
      <4>4. ready >= Few(seen, SinceRTI) BY <1>3, <1>9, <4>2 DEF IrqInv
      <4>5. CASE cpu'.remain = 1
        BY <1>2, <1>3, <1>9, <4>1, <4>2, <4>5 DEF Few
      <4>6. CASE cpu'.remain = 0
        <5>1. cpu.remain = 1 BY <1>4, <4>1, <4>6
        <5>2. SinceRTI = 1 /\ SinceRTI' = 2 BY <4>1, <4>3, <4>6, <5>1
        <5>3. QED BY <1>2, <1>3, <1>9, <4>2, <4>4, <5>2 DEF Few
      <4>7. QED BY <4>1, <4>5, <4>6
    <3>4. QED BY <1>1, <3>1, <3>2, <3>3
  <2>5. QED BY <2>3, <2>4
<1>10. QED BY <1>7, <1>8, <1>9 DEF IrqInv

(* A bad line stuns the CPU from its second cycle on at the earliest.      *)
LEMMA StepTypeOK ==
  ASSUME IInv, VicInv', song' = song,
         NEW v \in VicState, NEW i \in BOOLEAN, NEW n \in BOOLEAN, NEW c \in CpuState,
         Clocks(v, i, n, c)
  PROVE  TypeOK' /\ lost' <= vic'.x
<1>1. vic' \in VicState /\ hits' \in 0 .. 2 /\ moved' \in BOOLEAN BY DEF VicInv
<1>2. vic \in VicState /\ Coherent(vic) BY DEF IInv, VicInv, VicCoherent, Coherent
<1>3. /\ v = VicClock(vic) /\ Coherent(v)
      /\ v.x = IF vic.x + 1 < CyclesPerRaster THEN vic.x + 1 ELSE 0
  BY <1>2, ClockCoherent DEF Clocks
<1>4. vic'.x = v.x BY <1>3, WriteCoherent DEF Clocks
<1>5. cpu' \in CpuState /\ cia1' \in BOOLEAN /\ cia2' \in BOOLEAN BY DEF Clocks
<1>6. TypeOK /\ lost <= vic.x BY DEF IInv
<1>7. Watch(v, i, n, c) BY DEF Clocks
<1>8. lost' \in Cycle /\ lost' <= vic'.x
  <2> DEFINE stun == IF IsStunned(c, VicStunCPU(v)) THEN 1 ELSE 0
  <2>1. lost' = (IF v.x = 0 THEN 0 ELSE lost) + stun BY <1>7 DEF Watch
  <2>2. vic.x \in Cycle /\ v.x \in Cycle /\ lost \in Cycle
    BY <1>2, <1>6 DEF VicState, TypeOK
  <2>3. stun \in 0 .. 1 OBVIOUS
  <2>4. v.x = 0 => stun = 0
    BY VicAssumption DEF VicStunCPU, IsStunned
  <2> HIDE DEF stun
  <2>5. lost' \in Nat /\ lost' <= v.x
    BY <1>3, <1>6, <2>1, <2>2, <2>3, <2>4, Geometry DEF Cycle
  <2>6. QED BY <1>4, <2>2, <2>5, Geometry DEF Cycle
<1>9. ready' \in 0 .. 4 /\ seen' \in 0 .. 4
  BY <1>6, <1>7 DEF Watch, TypeOK, Few
<1>10. masked' \in BOOLEAN /\ last' \in Op \cup {None}
  <2>1. cpu.op \in Op \cup {None} /\ cpu.noI \in BOOLEAN BY <1>6 DEF TypeOK, CpuState
  <2>2. QED BY <1>6, <1>7, <2>1 DEF Watch, TypeOK
<1>11. owed' \in BOOLEAN /\ due' \in Age /\ nmiWas' \in BOOLEAN
  <2>1. nmiWas' \in BOOLEAN /\ owed' \in BOOLEAN BY <1>6, <1>7 DEF Watch, TypeOK
  <2>2. due' \in Age BY <1>6, <1>7 DEF Watch, TypeOK, Few, Age, OldAge
  <2>3. QED BY <2>1, <2>2
<1>12. held' \in BOOLEAN BY <1>7 DEF Watch
<1>13. fresh' \in Age BY <1>6, <1>7 DEF Watch, TypeOK, Few, Age, OldAge
<1>14. touched' \in BOOLEAN BY <1>7 DEF Watch
<1>15. song' \in Songs BY <1>6 DEF TypeOK
<1>16. QED
  BY <1>1, <1>5, <1>8, <1>9, <1>10, <1>11, <1>12, <1>13, <1>14, <1>15, Zenon DEF TypeOK

LEMMA StepIInv == IInv /\ [Next]_vars => IInv'
<1>1. SUFFICES ASSUME IInv, [Next]_vars PROVE IInv' OBVIOUS
<1>2. VicInv' BY <1>1, StepVicInv DEF IInv, TypeOK
<1>3. CASE UNCHANGED vars
  <2>1. TypeOK' /\ lost' <= vic'.x BY <1>1, <1>3 DEF IInv, TypeOK, vars, observers
  <2>2. CpuInv' /\ NmiInv'
    BY <1>1, <1>3 DEF IInv, CpuInv, NmiInv, Recent, vars, observers
  <2>3. IrqInv' BY <1>1, <1>3 DEF IInv, IrqInv, SinceRTI, Recent, vars, observers
  <2>4. QED BY <1>2, <2>1, <2>2, <2>3 DEF IInv
<1>4. CASE Next
  <2>1. PICK v \in VicState, i \in BOOLEAN, n \in BOOLEAN, c \in CpuState :
          Clocks(v, i, n, c)
    BY <1>1, <1>4, CpuSteps
  <2>2. song' = song BY <1>4 DEF Next
  <2>3. CpuInv' BY <1>1, <2>1, StepCpuInv
  <2>4. NmiInv' BY <1>1, <2>1, StepNmiInv
  <2>5. IrqInv' BY <1>1, <2>1, StepIrqInv
  <2>6. TypeOK' /\ lost' <= vic'.x BY <1>1, <1>2, <2>1, <2>2, StepTypeOK
  <2>7. QED BY <1>2, <2>3, <2>4, <2>5, <2>6 DEF IInv
<1>5. QED BY <1>1, <1>3, <1>4

LEMMA InductiveInvariant == Spec => []IInv
<1>1. QED BY InitIInv, StepIInv, PTL DEF Spec

(* Every register and line keeps its width.                                *)
THEOREM TypeCorrect == Spec => []TypeOK
<1>1. IInv => TypeOK BY DEF IInv
<1>2. QED BY <1>1, InductiveInvariant, PTL

(* The copies of the VIC's registers follow every writer (vic.c:64).       *)
THEOREM CopiesCoherent == Spec => []VicCoherent
<1>1. IInv => VicCoherent BY DEF IInv, VicInv
<1>2. QED BY <1>1, InductiveInvariant, PTL

(* Each line that the compare value names matches once in each frame,      *)
(* line 0 included, on a screen of any size (vic.c:133).                   *)
THEOREM OneMatchPerFrame == Spec => []RasterOncePerFrame
<1>1. IInv => RasterOncePerFrame
  <2>1. SUFFICES ASSUME VicInv, LastCycle, vic.y = LinesPerScreen - 1, ~ moved
                 PROVE  hits = IF vic.rasterLatch < LinesPerScreen THEN 1 ELSE 0
    BY DEF IInv, RasterOncePerFrame
  <2>2. vic.rasterLatch \in Nat BY <2>1, Geometry DEF VicInv, VicState
  <2>3. vic.rasterLatch < LinesPerScreen => Passed(vic)
    BY <2>1, <2>2, Geometry DEF Passed
  <2>4. QED BY <2>1, <2>3 DEF VicInv, HitsSoFar
<1>2. QED BY <1>1, InductiveInvariant, PTL

(* A clock that arms the raster interrupt raises it, and of the writes only *)
(* one of $D019 can leave it armed and not raised.                         *)
LEMMA CheckArms ==
  ASSUME NEW v \in VicState, NEW w, w = CheckIRQ(v)
  PROVE  w.d01a = v.d01a /\ (Armed(w) /\ ~ Armed(v) => w.signal) /\ w \in VicState
<1>1. CASE v.y # v.rasterLatch BY <1>1 DEF CheckIRQ
<1>2. CASE v.y = v.rasterLatch
  <2> DEFINE s == v.signal \/ v.d01a
             d == v.d019 \cup {"raster"} \cup (IF v.d01a THEN {"irq"} ELSE {})
  <2>1. w = Flagged(v, s, d) BY <1>2, Zenon DEF CheckIRQ, Flagged
  <2>2. s \in BOOLEAN /\ d \in SUBSET {"raster", "irq"} BY DEF VicState
  <2>3. v.d01a => s OBVIOUS
  <2> HIDE DEF s, d
  <2>4. w.d01a = v.d01a /\ w.signal = s /\ w \in VicState
    BY <2>1, <2>2 DEF Flagged, VicState
  <2>5. QED BY <2>3, <2>4 DEF Armed
<1>3. QED BY <1>1, <1>2

LEMMA ClockArms ==
  ASSUME NEW v \in VicState, ~ Armed(v), NEW w, w = VicClock(v)
  PROVE  w.d01a = v.d01a /\ (Armed(w) => w.signal)
<1> DEFINE step == [v EXCEPT !.x = @ + 1, !.hit = FALSE]
           y == IF v.y + 1 >= LinesPerScreen THEN 0 ELSE v.y + 1
           next == [step EXCEPT !.x = 0, !.y = y]
<1>1. v.x \in Cycle /\ v.y \in Line /\ v.den \in BOOLEAN BY DEF VicState
<1>2. w = IF step.x = 1 /\ step.y = 0
          THEN [CheckIRQ(step) EXCEPT !.badlineDen = v.den]
          ELSE IF step.x >= CyclesPerRaster
               THEN IF next.y # 0 THEN CheckIRQ(next) ELSE next
               ELSE step
  BY DEF VicClock, VicState
<1>3. /\ step.x = v.x + 1 /\ step.d01a = v.d01a /\ step.d019 = v.d019
      /\ next.d01a = v.d01a /\ next.d019 = v.d019
  BY DEF VicState
<1>4. v.x + 1 < CyclesPerRaster => step \in VicState
  <2>1. SUFFICES ASSUME v.x + 1 < CyclesPerRaster PROVE step \in VicState OBVIOUS
  <2>2. v.x + 1 \in Cycle BY <1>1, <2>1, Geometry DEF Cycle
  <2>3. step = Moved(v, v.x + 1, v.y) BY DEF Moved, VicState
  <2> HIDE DEF step
  <2>4. QED BY <1>1, <2>2, <2>3 DEF Moved, VicState
<1>5. next \in VicState
  <2>1. 0 \in Cycle /\ y \in Line BY <1>1, Geometry DEF Cycle, Line
  <2>2. next = Moved(v, 0, y) BY DEF Moved, VicState
  <2> HIDE DEF y, next
  <2>3. QED BY <2>1, <2>2 DEF Moved, VicState
<1> HIDE DEF step, next
<1>6. ~ Armed(step) /\ ~ Armed(next) BY <1>3 DEF Armed
<1>7. CASE step.x = 1 /\ step.y = 0
  <2>1. step \in VicState BY <1>1, <1>3, <1>4, <1>7, Geometry
  <2>2. /\ CheckIRQ(step).d01a = v.d01a /\ CheckIRQ(step) \in VicState
        /\ Armed(CheckIRQ(step)) => CheckIRQ(step).signal
    BY <1>3, <1>6, <2>1, CheckArms
  <2>3. w = [CheckIRQ(step) EXCEPT !.badlineDen = v.den] BY <1>2, <1>7
  <2>4. /\ w.d01a = CheckIRQ(step).d01a /\ w.d019 = CheckIRQ(step).d019
        /\ w.signal = CheckIRQ(step).signal
    BY <2>2, <2>3 DEF VicState
  <2>5. QED BY <2>2, <2>4 DEF Armed
<1>8. CASE ~ (step.x = 1 /\ step.y = 0)
  <2>1. w = step \/ w = next \/ w = CheckIRQ(next) BY <1>2, <1>8
  <2>2. QED BY <1>3, <1>5, <1>6, <2>1, CheckArms
<1>9. QED BY <1>7, <1>8

LEMMA WriteArms ==
  ASSUME NEW v \in VicState, NEW r \in Write, r.reg # "d019",
         NEW w, w = VicWriteMem(v, r), Armed(w), ~ w.signal
  PROVE  Armed(v) /\ ~ v.signal
<1>1. CASE r.reg = "d011"
  <2>1. w.d01a = v.d01a /\ w.d019 = v.d019 /\ w.signal = v.signal
    BY <1>1 DEF VicWriteMem, WriteD011, CacheRasterLatch, VicState
  <2>2. QED BY <2>1 DEF Armed
<1>2. CASE r.reg = "d012"
  <2>1. w.d01a = v.d01a /\ w.d019 = v.d019 /\ w.signal = v.signal
    BY <1>2 DEF VicWriteMem, WriteD012, CacheRasterLatch, VicState
  <2>2. QED BY <2>1 DEF Armed
<1>3. CASE r.reg = "d01a"
  <2>1. w = WriteD01A(v, r.on) BY <1>3 DEF VicWriteMem
  <2>2. CASE r.on /\ "raster" \in v.d019
    BY <2>1, <2>2 DEF WriteD01A, VicState
  <2>3. CASE ~ (r.on /\ "raster" \in v.d019)
    <3>1. w.d01a = r.on /\ w.d019 = v.d019 BY <2>1, <2>3 DEF WriteD01A, VicState
    <3>2. QED BY <2>3, <3>1 DEF Armed
  <2>4. QED BY <2>2, <2>3
<1>4. QED BY <1>1, <1>2, <1>3 DEF Write

(* A match that is flagged and enabled, in whichever order that came about, *)
(* raises the IRQ, but for a write of $D019 in that clock (vic.c:316).     *)
THEOREM NoRasterInterruptLost == Spec => RasterIRQRaised
<1>1. IInv /\ [Next]_vars =>
        [Armed(vic)' /\ ~ Armed(vic) => vic'.signal \/ WritesLatch]_vars
  <2>1. SUFFICES ASSUME IInv, Next, Armed(vic)', ~ Armed(vic)
                 PROVE  vic'.signal \/ WritesLatch
    BY DEF vars
  <2>2. PICK v \in VicState, i \in BOOLEAN, n \in BOOLEAN, c \in CpuState :
          Clocks(v, i, n, c)
    BY <2>1, CpuSteps
  <2>3. vic \in VicState /\ v = VicClock(vic) BY <2>1, <2>2 DEF IInv, TypeOK, Clocks
  <2>4. v.d01a = vic.d01a /\ (Armed(v) => v.signal) BY <2>1, <2>3, ClockArms
  <2>5. CASE vic' = v BY <2>1, <2>4, <2>5 DEF Armed
  <2>6. ASSUME NEW w \in Write, vic' = VicWriteMem(v, w), c.op = "store",
               c.remain = 1, Proceeds(c, cpu')
        PROVE  vic'.signal \/ WritesLatch
    <3>1. CASE w.reg = "d019"
      <4>1. vic'.d01a = v.d01a
        BY <2>6, <3>1 DEF VicWriteMem, WriteD019, VicState
      <4>2. cpu.op = "store" BY <2>2, <2>6 DEF Clocks, Samples
      <4>3. cpu'.op = None BY <2>6 DEF Proceeds
      <4>4. QED BY <2>4, <4>1, <4>2, <4>3 DEF WritesLatch
    <3>2. CASE w.reg # "d019"
      <4>1. (Armed(vic') /\ ~ vic'.signal => Armed(v) /\ ~ v.signal)
        BY <2>6, <3>2, WriteArms
      <4>2. QED BY <2>1, <2>4, <4>1 DEF Armed
    <3>3. QED BY <3>1, <3>2
  <2>7. QED BY <2>2, <2>5, <2>6 DEF Clocks
<1>2. QED BY <1>1, InductiveInvariant, PTL DEF Spec, RasterIRQRaised

(* A handler's start is the CPU's own, at the end of an operation.         *)
LEMMA BeginsStarts ==
  ASSUME IInv, NEW v, NEW i, NEW n, NEW c \in CpuState, Clocks(v, i, n, c), BeginsOp
  PROVE  /\ Starts(c, cpu') /\ c.lead = cpu.lead /\ c.slip = cpu.slip
         /\ cpu.lead = LeadOf(last, cpu.slip)
<1>1. cpu.op = None /\ cpu'.op # None BY DEF BeginsOp
<1>2. c.op = cpu.op BY DEF Clocks, Samples
<1>3. cpu' # c /\ ~ Proceeds(c, cpu') BY <1>1, <1>2 DEF Proceeds
<1>4. Starts(c, cpu') BY <1>3 DEF Clocks
<1>5. c.lead = cpu.lead /\ c.slip = cpu.slip BY <1>1 DEF Clocks, Samples, None
<1>6. cpu.lead = LeadOf(last, cpu.slip) BY <1>1 DEF IInv, CpuInv, Recent
<1>7. QED BY <1>4, <1>5, <1>6

(* Every NMI is entered once for an edge of its line, at the first end of  *)
(* an operation after its lead time, and nothing else enters its handler.  *)
THEOREM OneNMIPerEdge == Spec => NMIOnEdge
<1>1. IInv /\ [Next]_vars =>
        [BeginsOp => (cpu'.op = "nmi" <=> owed /\ due' >= NMILead)]_vars
  <2>1. SUFFICES ASSUME IInv, Next, BeginsOp
                 PROVE  cpu'.op = "nmi" <=> owed /\ due' >= NMILead
    BY DEF vars
  <2>2. PICK v \in VicState, i \in BOOLEAN, n \in BOOLEAN, c \in CpuState :
          Clocks(v, i, n, c)
    BY <2>1, CpuSteps
  <2>3. /\ Starts(c, cpu') /\ c.lead = cpu.lead
        /\ cpu.lead = LeadOf(last, cpu.slip)
    BY <2>1, <2>2, BeginsStarts
  <2>4. cpu'.op = "nmi" <=> c.nmiCommitted /\ c.nmiAge >= c.lead
    BY <2>3 DEF Starts, IsNMIPending
  <2>5. c.lead = NMILead /\ c.lead \in 1 .. 3
    BY <2>3 DEF NMILead, LeadTime, LeadOf
  <2> DEFINE edge == n /\ ~ nmiWas
  <2>6. /\ owed \in BOOLEAN /\ due \in Age
        /\ owed = cpu.nmiCommitted /\ nmiWas = cpu.nmiLine
        /\ owed => due = cpu.nmiAge
    BY <2>1 DEF IInv, TypeOK, NmiInv
  <2>7. due' = (IF edge \/ ~ owed THEN 0 ELSE Few(due + 1, OldAge))
    BY <2>2 DEF Clocks, Watch
  <2>8. /\ c.nmiCommitted <=> (owed \/ edge)
        /\ c.nmiAge = (IF edge THEN 0 ELSE IF owed THEN Older(cpu.nmiAge) ELSE 0)
    BY <2>2, <2>6 DEF Clocks, Samples
  <2> HIDE DEF edge
  <2>9. owed /\ ~ edge => Older(cpu.nmiAge) = Few(due + 1, OldAge)
    BY <2>6 DEF Older, Few, OldAge, Age
  <2>10. c.nmiAge = due' BY <2>7, <2>8, <2>9
  <2>11. c.nmiCommitted /\ c.nmiAge >= c.lead <=> owed /\ c.nmiAge >= c.lead
    BY <2>5, <2>8
  <2>12. QED BY <2>4, <2>5, <2>10, <2>11
<1>2. QED BY <1>1, InductiveInvariant, PTL DEF Spec, NMIOnEdge

(* An IRQ that the CPU saw for its lead time with the flag I clear is       *)
(* taken when the operation ends, unless an NMI is.                        *)
THEOREM IRQTakenInTime == Spec => IRQOnTime
<1>1. IInv /\ [Next]_vars =>
        [BeginsOp /\ (\/ ready' > LeadTime
                      \/ last = "rti" /\ cpu.noI /\ seen' > LeadTime)
           => cpu'.op \in {"irq", "nmi"}]_vars
  <2>1. SUFFICES ASSUME IInv, Next, BeginsOp,
                        \/ ready' > LeadTime
                        \/ last = "rti" /\ cpu.noI /\ seen' > LeadTime
                 PROVE  cpu'.op \in {"irq", "nmi"}
    BY DEF vars
  <2>2. PICK v \in VicState, i \in BOOLEAN, n \in BOOLEAN, c \in CpuState :
          Clocks(v, i, n, c)
    BY <2>1, CpuSteps
  <2>3. /\ Starts(c, cpu') /\ c.lead = cpu.lead
        /\ cpu.lead = LeadOf(last, cpu.slip) /\ cpu.op = None
    BY <2>1, <2>2, BeginsStarts DEF BeginsOp
  <2>4. c.lead <= LeadTime /\ LeadTime \in 2 .. 3 /\ (last = "rti" => LeadTime = 2)
    BY <2>3 DEF LeadTime, LeadOf
  <2>5. /\ IrqInv /\ ready \in 0 .. 4 /\ seen \in 0 .. 4 /\ cpu.irqAge \in Age
    BY <2>1 DEF IInv, TypeOK, CpuState
  <2>6. /\ ready' = (IF SeesIRQ(v, i) THEN Few(ready + 1, 4) ELSE 0)
        /\ seen' = (IF v.signal \/ i THEN Few(seen + 1, 4) ELSE 0)
    BY <2>2 DEF Clocks, Watch
  <2>7. ready' > LeadTime
    <3>1. CASE last = "rti" /\ cpu.noI /\ seen' > LeadTime
      <4>1. (v.signal \/ i) /\ seen >= 2 BY <2>4, <2>5, <2>6, <3>1 DEF Few
      <4>2. SeesIRQ(v, i) BY <3>1, <4>1 DEF SeesIRQ
      <4>3. SinceRTI = 2 BY <2>3, <3>1 DEF SinceRTI, Recent
      <4>4. ready >= 2 BY <2>5, <3>1, <4>1, <4>3 DEF IrqInv, Few
      <4>5. QED BY <2>4, <2>5, <2>6, <3>1, <4>2, <4>4 DEF Few
    <3>2. QED BY <2>1, <3>1
  <2>8. SeesIRQ(v, i) /\ ready >= LeadTime BY <2>4, <2>5, <2>6, <2>7 DEF Few
  <2>9. cpu.irqStamped /\ cpu.irqAge >= LeadTime - 1 BY <2>4, <2>5, <2>8 DEF IrqInv, Age
  <2>10. cpu.irqCommitted BY <2>3, <2>5, <2>9 DEF IrqInv, None
  <2>11. c.irqCommitted /\ c.irqAge = Older(cpu.irqAge)
    BY <2>2, <2>8, <2>9, <2>10 DEF Clocks, Samples
  <2>12. c.irqAge >= c.lead
    <3>1. c.lead \in 1 .. 3 BY <2>2 DEF Clocks, CpuState
    <3>2. QED BY <2>4, <2>5, <2>9, <2>11, <3>1 DEF Older, OldAge, Age
  <2>13. c.noI BY <2>2, <2>8 DEF Clocks, Samples, SeesIRQ
  <2>14. IsIRQPending(c) BY <2>11, <2>12, <2>13 DEF IsIRQPending
  <2>15. QED BY <2>3, <2>14 DEF Starts
<1>2. QED BY <1>1, InductiveInvariant, PTL DEF Spec, IRQOnTime

(* Conversely: what a commitment knows of the time is what has been seen of *)
(* the line since the CPU last entered a handler; an IRQ that is being      *)
(* taken is not committed to again; one that slips through a SEI has been   *)
(* seen for a cycle before it.                                              *)
FreshInv ==
  /\ cpu.irqCommitted => cpu.irqStamped /\ fresh >= Few(cpu.irqAge + 1, OldAge)
  /\ held => cpu.op = "irq" /\ (cpu.noI => cpu.irqStamped)
  /\ Recent(cpu) = "sei" /\ cpu.slip = "slipped" => cpu.irqCommitted /\ cpu.irqAge >= 1

LEMMA StepFreshInv ==
  ASSUME IInv, FreshInv, NEW v, NEW i \in BOOLEAN, NEW n \in BOOLEAN, NEW c,
         Clocks(v, i, n, c)
  PROVE  FreshInv'
<1> DEFINE sees == v.signal \/ i
           enters == cpu.op = None /\ cpu'.op = "irq"
<1>1. /\ c \in CpuState /\ Samples(v, i, n, c) /\ KeepsLines(c, cpu')
      /\ cpu' = c \/ Starts(c, cpu') \/ Proceeds(c, cpu')
  BY DEF Clocks
<1>2. /\ last' = (IF cpu.op # None /\ cpu'.op = None THEN cpu.op ELSE last)
      /\ held' <=> (enters \/ held) /\ cpu'.op = "irq" /\ sees
      /\ fresh' = IF enters THEN 0
                  ELSE IF fresh > 0 \/ (SeesIRQ(v, i) /\ ~ held)
                  THEN Few(fresh + 1, OldAge)
                  ELSE 0
  BY DEF Clocks, Watch
<1>3. cpu.irqAge \in Age /\ fresh \in Age /\ cpu \in CpuState
  BY DEF IInv, TypeOK, CpuState
<1>4. /\ c.op = cpu.op /\ c.remain = cpu.remain /\ c.noI = cpu.noI
      /\ cpu'.irqStamped = c.irqStamped /\ cpu'.irqAge = c.irqAge
  BY <1>1 DEF Samples, KeepsLines
<1>5. SeesIRQ(v, i) <=> sees /\ cpu.noI BY DEF SeesIRQ
<1> HIDE DEF sees
<1>6. enters => Starts(c, cpu') /\ c.irqCommitted
  <2>1. SUFFICES ASSUME enters PROVE Starts(c, cpu') /\ c.irqCommitted OBVIOUS
  <2>2. Starts(c, cpu') BY <1>1, <1>4, <2>1 DEF Proceeds, None
  <2>3. QED BY <2>1, <2>2 DEF Starts, IsIRQPending
<1>7. c.irqCommitted => c.irqStamped
  BY <1>1 DEF Samples, FreshInv
<1>8. ASSUME cpu'.irqCommitted
      PROVE  cpu'.irqStamped /\ fresh' >= Few(cpu'.irqAge + 1, OldAge)
  <2>1. c.irqCommitted /\ ~ enters
    BY <1>1, <1>6, <1>8 DEF Starts, Proceeds
  <2>2. CASE cpu.irqCommitted
    <3>1. cpu.irqStamped /\ fresh >= Few(cpu.irqAge + 1, OldAge) BY <2>2 DEF FreshInv
    <3>2. c.irqAge = Older(cpu.irqAge) BY <1>1, <2>2, <3>1 DEF Samples
    <3>3. fresh > 0 BY <1>3, <3>1 DEF Few, OldAge, Age
    <3>4. fresh' = Few(fresh + 1, OldAge) BY <1>2, <2>1, <3>3
    <3> HIDE DEF enters
    <3>5. QED BY <1>3, <1>4, <1>7, <2>1, <3>1, <3>2, <3>4 DEF Few, Older, OldAge, Age
  <2>3. CASE ~ cpu.irqCommitted
    <3>1. SeesIRQ(v, i) /\ ~ cpu.irqStamped BY <1>1, <2>1, <2>3 DEF Samples
    <3>2. c.irqAge = 0 BY <1>1, <3>1 DEF Samples
    <3>3. ~ held BY <1>5, <3>1 DEF FreshInv
    <3>4. fresh' = Few(fresh + 1, OldAge) BY <1>2, <2>1, <3>1, <3>3
    <3> HIDE DEF enters
    <3>5. QED BY <1>3, <1>4, <1>7, <2>1, <3>2, <3>4 DEF Few, OldAge, Age
  <2>4. QED BY <2>2, <2>3
<1>9. ASSUME held' PROVE cpu'.op = "irq" /\ (cpu'.noI => cpu'.irqStamped)
  <2>1. cpu'.op = "irq" /\ sees BY <1>2, <1>9
  <2>2. CASE enters BY <1>4, <1>6, <1>7, <2>1, <2>2
  <2>3. CASE ~ enters
    <3>1. held /\ cpu.op = "irq" BY <1>2, <1>9, <2>3 DEF FreshInv
    <3>2. cpu'.noI => cpu.noI
      BY <1>1, <1>4, <3>1 DEF Starts, Proceeds, None
    <3>3. cpu.noI => c.irqStamped BY <1>1, <1>5, <2>1 DEF Samples
    <3>4. QED BY <1>4, <2>1, <3>2, <3>3
  <2>4. QED BY <2>2, <2>3
<1>10. ASSUME (IF cpu'.op = None THEN last' ELSE cpu'.op) = "sei", cpu'.slip = "slipped"
       PROVE  cpu'.irqCommitted /\ cpu'.irqAge >= 1
  <2>1. ~ Starts(c, cpu')
    <3>1. SUFFICES ASSUME Starts(c, cpu') PROVE FALSE OBVIOUS
    <3>2. cpu'.op \in Op /\ cpu'.op # None BY <3>1, OpFacts DEF Starts
    <3>3. QED BY <1>10, <3>1, <3>2 DEF Starts
  <2>2. /\ c.slip = "slipped" /\ Recent(cpu) = "sei"
        /\ cpu'.irqCommitted = c.irqCommitted
    <3>1. CASE cpu' = c BY <1>2, <1>4, <1>10, <3>1 DEF Recent
    <3>2. CASE Proceeds(c, cpu') BY <1>2, <1>4, <1>10, <3>2 DEF Recent, Proceeds
    <3>3. QED BY <1>1, <2>1, <3>1, <3>2
  <2>3. c.irqCommitted /\ c.irqAge >= 1
    <3>1. CASE cpu.slip = "slipped"
      <4>1. cpu.irqCommitted /\ cpu.irqAge >= 1 /\ cpu.irqStamped
        BY <2>2, <3>1 DEF FreshInv
      <4>2. c.irqCommitted /\ c.irqAge = Older(cpu.irqAge) BY <1>1, <4>1 DEF Samples
      <4>3. QED BY <1>3, <4>1, <4>2 DEF Older, OldAge, Age
    <3>2. CASE cpu.slip # "slipped" BY <1>1, <2>2, <3>2 DEF Samples
    <3>3. QED BY <3>1, <3>2
  <2>4. QED BY <1>4, <2>2, <2>3
<1>11. Recent(cpu)' = IF cpu'.op = None THEN last' ELSE cpu'.op BY DEF Recent
<1>12. QED BY <1>8, <1>9, <1>10, <1>11 DEF FreshInv

(* No IRQ is taken that the CPU has not seen, since it last entered a       *)
(* handler, for the lead time of the operation before it (cpu.c:98-105).    *)
THEOREM IRQNeverEarly == Spec => IRQNotEarly
<1>1. Init => FreshInv
  BY DEF Init, CpuInit, FreshInv, Recent, None
<1>2. IInv /\ FreshInv /\ [Next]_vars => FreshInv'
  <2>1. SUFFICES ASSUME IInv, FreshInv, [Next]_vars PROVE FreshInv' OBVIOUS
  <2>2. CASE UNCHANGED vars BY <2>1, <2>2 DEF FreshInv, Recent, vars, observers
  <2>3. CASE Next BY <2>1, <2>3, CpuSteps, StepFreshInv
  <2>4. QED BY <2>1, <2>2, <2>3
<1>3. IInv /\ FreshInv /\ [Next]_vars =>
        [BeginsOp /\ cpu'.op = "irq" => fresh >= LeadTime]_vars
  <2>1. SUFFICES ASSUME IInv, FreshInv, Next, BeginsOp, cpu'.op = "irq"
                 PROVE  fresh >= LeadTime
    BY DEF vars
  <2>2. PICK v \in VicState, i \in BOOLEAN, n \in BOOLEAN, c \in CpuState :
          Clocks(v, i, n, c)
    BY <2>1, CpuSteps
  <2>3. /\ Starts(c, cpu') /\ c.lead = cpu.lead /\ c.slip = cpu.slip
        /\ cpu.lead = LeadOf(last, cpu.slip) /\ cpu.op = None
    BY <2>1, <2>2, BeginsStarts DEF BeginsOp
  <2>4. c.irqCommitted /\ c.irqAge >= c.lead BY <2>1, <2>3 DEF Starts, IsIRQPending
  <2>5. Samples(v, i, n, c) /\ cpu.irqAge \in Age /\ fresh \in Age
    BY <2>1, <2>2 DEF Clocks, IInv, TypeOK, CpuState
  <2>6. c.lead \in 1 .. 3 BY <2>3 DEF LeadOf
  <2>7. cpu.irqCommitted
    <3>1. SUFFICES ASSUME ~ cpu.irqCommitted PROVE FALSE OBVIOUS
    <3>2. c.irqAge = 0 BY <2>4, <2>5, <3>1 DEF Samples
    <3>3. QED BY <2>4, <2>6, <3>2
  <2>8. cpu.irqStamped /\ fresh >= Few(cpu.irqAge + 1, OldAge) BY <2>1, <2>7 DEF FreshInv
  <2>9. c.irqAge = Older(cpu.irqAge) BY <2>5, <2>7, <2>8 DEF Samples
  <2>10. last = "sei" /\ cpu.slip = "slipped" => cpu.irqAge >= 1
    BY <2>1, <2>3 DEF FreshInv, Recent
  <2>11. QED
    BY <2>3, <2>4, <2>5, <2>8, <2>9, <2>10
       DEF LeadOf, LeadTime, Few, Older, OldAge, Age
<1>4. QED BY InductiveInvariant, <1>1, <1>2, <1>3, PTL DEF Spec, IRQNotEarly
-----------------------------------------------------------------------------
(* The arithmetic.                                                         *)
\* The low byte of a nine-bit sum.
LEMMA LowByte ==
  ASSUME NEW w \in Nat, w < 512
  PROVE  w % 256 = IF w >= 256 THEN w - 256 ELSE w
  OBVIOUS

\* The sum, free of the record and of %.
LEMMA AddIs ==
  ASSUME NEW a \in Nat, NEW b \in Nat, a < 256, b < 256, NEW carry \in Nat, carry < 2
  PROVE  /\ Add(a, b, carry).r =
              IF a + b + carry >= 256 THEN a + b + carry - 256 ELSE a + b + carry
         /\ Add(a, b, carry).r \in Nat /\ Add(a, b, carry).r < 256
         /\ Add(a, b, carry).c <=> a + b + carry >= 256
         /\ Add(a, b, carry).v <=> /\ Sign(a) <=> Sign(b)
                                  /\ ~ (Sign(a) <=> Sign(Add(a, b, carry).r))
<1>1. a + b + carry \in Nat /\ a + b + carry < 512
  OBVIOUS
<1>2. Add(a, b, carry).r = (a + b + carry) % 256
  BY DEF Add
<1>3. Add(a, b, carry).c <=> a + b + carry >= 256
  BY DEF Add
<1>4. Add(a, b, carry).v <=> /\ Sign(a) <=> Sign(b)
                             /\ ~ (Sign(a) <=> Sign((a + b + carry) % 256))
  BY DEF Add
<1>5. (a + b + carry) % 256 =
        (IF a + b + carry >= 256 THEN a + b + carry - 256 ELSE a + b + carry)
  BY <1>1, LowByte
<1>6. (a + b + carry) % 256 \in Nat /\ (a + b + carry) % 256 < 256
  BY <1>1
<1> QED
  BY <1>2, <1>3, <1>4, <1>5, <1>6

\* adc (and the sum inside rra): result, carry and overflow flag are right for
\* all 2 * 256 * 256 inputs.
THEOREM AdcIsExact ==
  ASSUME NEW a \in Nat, NEW b \in Nat, a < 256, b < 256, NEW carry \in Nat, carry < 2
  PROVE  SumRight(a, b, carry)
<1> DEFINE s == Add(a, b, carry)
<1>1. /\ s.r = IF a + b + carry >= 256 THEN a + b + carry - 256 ELSE a + b + carry
      /\ s.r \in Nat /\ s.r < 256
      /\ s.c <=> a + b + carry >= 256
      /\ s.v <=> (Sign(a) <=> Sign(b)) /\ ~ (Sign(a) <=> Sign(s.r))
  BY AddIs
<1> HIDE DEF s
<1>2. s.r + 256 * BoolBit(s.c) = a + b + carry
  BY <1>1 DEF BoolBit
<1>3. s.v <=> ~ FitsSigned(Signed(a) + Signed(b) + carry)
  BY <1>1 DEF Signed, Sign, FitsSigned
<1>4. ~ s.v => Signed(s.r) = Signed(a) + Signed(b) + carry
  BY <1>1 DEF Signed, Sign
<1> QED
  BY <1>1, <1>2, <1>3, <1>4 DEF SumRight, s

\* sbc (and the difference inside isb): a sum with the complement.
THEOREM SbcIsExact ==
  ASSUME NEW a \in Nat, NEW b \in Nat, a < 256, b < 256, NEW carry \in Nat, carry < 2
  PROVE  DifferenceRight(a, b, carry)
<1> DEFINE n == Complement(b)
           d == Subtract(a, b, carry)
<1>1. /\ n \in Nat /\ n < 256
      /\ n = 255 - b
      /\ d = Add(a, n, carry)
      /\ Signed(n) = -1 - Signed(b)
  BY DEF Complement, Subtract, Signed
<1>2. SumRight(a, n, carry)
  BY <1>1, AdcIsExact
<1>3. d.r + 256 * BoolBit(d.c) = a + n + carry
  BY <1>1, <1>2 DEF SumRight
<1>4. d.r - 256 * (1 - BoolBit(d.c)) = a - b - (1 - carry)
  <2>1. d.r \in Nat
    BY <1>1, AddIs
  <2>2. BoolBit(d.c) \in {0, 1}
    BY DEF BoolBit
  <2> HIDE DEF d, n
  <2> QED
    BY <1>1, <1>3, <2>1, <2>2
<1>5. Signed(a) + Signed(n) + carry = Signed(a) - Signed(b) - (1 - carry)
  BY <1>1 DEF Signed
<1>6. /\ d.v <=> ~ FitsSigned(Signed(a) - Signed(b) - (1 - carry))
      /\ ~ d.v => Signed(d.r) = Signed(a) - Signed(b) - (1 - carry)
  BY <1>1, <1>2, <1>5 DEF SumRight
<1> QED
  BY <1>4, <1>6 DEF DifferenceRight

\* cmp, cpx, cpy, dcp.
THEOREM CompareIsOrder ==
  ASSUME NEW a \in Nat, NEW b \in Nat, a < 256, b < 256
  PROVE  CompareRight(a, b)
<1>1. (a - b) % 65536 = (IF a >= b THEN a - b ELSE a - b + 65536)
  OBVIOUS
<1>2. ((a - b) % 65536) % 256 = (IF a >= b THEN a - b ELSE a - b + 256)
  OBVIOUS
<1>4. Compare(a, b).n <=> Sign(((a - b) % 65536) % 256)
  BY DEF Compare
<1>5. Compare(a, b).c = (a >= b)
  BY DEF Compare
<1>6. /\ Complement(b) \in Nat /\ Complement(b) < 256
      /\ Complement(b) = 255 - b
      /\ Subtract(a, b, 1) = Add(a, Complement(b), 1)
  BY DEF Complement, Subtract
<1>7. Subtract(a, b, 1).r = (a + (255 - b) + 1) % 256
  BY <1>6 DEF Add
<1>8. (a + (255 - b) + 1) % 256 = (IF a >= b THEN a - b ELSE a - b + 256)
  OBVIOUS
<1>9. Subtract(a, b, 1).c = (a + (255 - b) + 1 >= 256)
  BY <1>6 DEF Add
<1>10. Compare(a, b).n <=> Sign(Subtract(a, b, 1).r)
  BY <1>2, <1>4, <1>7, <1>8
<1>11. Compare(a, b).z = (a = b)
  BY <1>1 DEF Compare
<1>12. Compare(a, b).c <=> Subtract(a, b, 1).c
  BY <1>5, <1>9
<1> QED
  BY <1>5, <1>10, <1>11, <1>12 DEF CompareRight

\* The one page bit of adjustBranchTaken is enough for every branch.
THEOREM BranchTimeRight ==
  ASSUME NEW pc \in Nat, NEW dist \in Nat, pc < 65536, dist < 256
  PROVE  BranchRight(pc, dist)
<1> DEFINE next == (pc + 1) % 65536
           to == Target(pc, dist)
<1>1. next \in Nat /\ next < 65536
  OBVIOUS
<1>2. to \in Nat /\ to < 65536
  BY DEF Target, Signed
<1>3. \/ to - next <= 127 /\ to - next >= -128
      \/ to - next <= 127 - 65536 /\ to - next >= -128 - 65536
      \/ to - next <= 127 + 65536 /\ to - next >= -128 + 65536
  BY DEF Target, Signed
<1> HIDE DEF next, to
<1>4. PageBit(next) # PageBit(to) <=> next \div 256 # to \div 256
  BY <1>1, <1>2, <1>3 DEF PageBit
<1>5. BranchCycles(pc, dist) = 2 <=> PageBit(next) # PageBit(to)
  BY DEF BranchCycles, next, to
<1> QED
  BY <1>4, <1>5 DEF BranchRight, next, to
=============================================================================

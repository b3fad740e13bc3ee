-------------------------------- MODULE Vic --------------------------------
(***************************************************************************)
(* The VIC-II of the emulated C64 (src/vic.c) as a full emulation (RSID)   *)
(* clocks it: raster position and compare, interrupt latch and mask, and   *)
(* the bad lines that stun the CPU.                                        *)
(*                                                                         *)
(* The chip is a record, its functions are operators on it.  The geometry  *)
(* of the screen is a parameter; the code's values are in the comments.    *)
(***************************************************************************)
EXTENDS Naturals

CONSTANTS
  CyclesPerRaster,   \* 63 or 65
  LinesPerScreen,    \* 312 or 263
  LowLines,          \* bound: number of values of $D012 (256)
  ResetLine,         \* $D012 after a reset ($37)
  Rows,              \* bound: number of values of YSCROLL (8)
  FirstBadLine,      \* $30
  LastBadLine,       \* $F7
  StunFrom,          \* 11: the CPU's next read is stunned
  BlockFrom,         \* 14: the CPU is blocked
  BlockTo            \* 53: last cycle of both

ASSUME VicAssumption ==
  /\ {CyclesPerRaster, LinesPerScreen, LowLines, ResetLine, Rows} \subseteq Nat
  /\ {FirstBadLine, LastBadLine, StunFrom, BlockFrom, BlockTo} \subseteq Nat
  /\ 1 < StunFrom /\ StunFrom < BlockFrom
  /\ BlockFrom <= BlockTo /\ BlockTo + 1 < CyclesPerRaster
  /\ 1 < FirstBadLine /\ FirstBadLine <= LastBadLine
  /\ LastBadLine < LinesPerScreen
  /\ ResetLine < LowLines /\ 0 < Rows

VARIABLE vic

Cycle == 0 .. CyclesPerRaster - 1
Line  == 0 .. LinesPerScreen - 1

VicState == [
  x : Cycle, y : Line,             \* raster position
  hi : BOOLEAN,                    \* $D011, bit 7: the compare value's bit 8
  den : BOOLEAN,                   \* ... bit 4: display enable
  yscroll : 0 .. Rows - 1,         \* ... bits 0 to 2
  lo : 0 .. LowLines - 1,          \* $D012
  d019 : SUBSET {"raster", "irq"}, \* interrupt latch, bits 0 and 7
  d01a : BOOLEAN,                  \* interrupt mask, bit 0
  (* redundant state *)
  rasterLatch : 0 .. 2 * LowLines - 1,
  badlineDen : BOOLEAN,
  signal : BOOLEAN,
  hit : BOOLEAN]                   \* the compare matched in the last clock;
                                   \* not read by the chip
-----------------------------------------------------------------------------
RasterOf(v) == v.lo + (IF v.hi THEN LowLines ELSE 0)

(* cacheRasterLatch()                                                      *)
CacheRasterLatch(v) == [v EXCEPT !.rasterLatch = RasterOf(v)]

(* vicReset() for an RSID: the next clock begins line 0.                   *)
VicReset ==
  CacheRasterLatch(
    [x |-> CyclesPerRaster - 1, y |-> LinesPerScreen - 1,
     hi |-> TRUE, den |-> TRUE, yscroll |-> 3 % Rows, lo |-> ResetLine,
     d019 |-> {"raster"}, d01a |-> FALSE,
     rasterLatch |-> 0, badlineDen |-> TRUE, signal |-> FALSE, hit |-> FALSE])

(* CHECK_IRQ: always flag a match, signal it if enabled.                   *)
CheckIRQ(v) ==
  IF v.y # v.rasterLatch THEN v
  ELSE [v EXCEPT !.hit = TRUE,
                 !.signal = @ \/ v.d01a,
                 !.d019 = @ \cup {"raster"} \cup (IF v.d01a THEN {"irq"} ELSE {})]

(* Mutant: line 0 is compared in both cycles.                              *)
VicClockTwice(v) ==
  LET step == [v EXCEPT !.x = @ + 1, !.hit = FALSE]
      next == [step EXCEPT !.x = 0,
                           !.y = IF @ + 1 >= LinesPerScreen THEN 0 ELSE @ + 1]
  IN  IF step.x = 1 /\ step.y = 0
      THEN [CheckIRQ(step) EXCEPT !.badlineDen = v.den]
      ELSE IF step.x >= CyclesPerRaster THEN CheckIRQ(next)
      ELSE step

(* Mutant: the screen has a line too many.                                 *)
VicClockLateWrap(v) ==
  LET step == [v EXCEPT !.x = @ + 1, !.hit = FALSE]
      next == [step EXCEPT !.x = 0,
                           !.y = IF @ + 1 > LinesPerScreen THEN 0 ELSE @ + 1]
  IN  IF step.x >= CyclesPerRaster THEN CheckIRQ(next) ELSE step

(* vicClockRSID(): compare in cycle 0 of a line, in line 0 in cycle 1.     *)
VicClock(v) ==
  LET step == [v EXCEPT !.x = @ + 1, !.hit = FALSE]
      next == [step EXCEPT !.x = 0,
                           !.y = IF @ + 1 >= LinesPerScreen THEN 0 ELSE @ + 1]
  IN  IF step.x = 1 /\ step.y = 0
      THEN [CheckIRQ(step) EXCEPT !.badlineDen = v.den]
      ELSE IF step.x >= CyclesPerRaster
           THEN IF next.y # 0 THEN CheckIRQ(next) ELSE next
           ELSE step

(* Mutant: the last blocked cycle is missed.                               *)
StunTooShort(v) ==
  IF /\ v.badlineDen
     /\ v.y >= FirstBadLine /\ v.y <= LastBadLine
     /\ v.yscroll = v.y % Rows
     /\ v.x >= StunFrom /\ v.x < BlockTo
  THEN IF v.x >= BlockFrom THEN 2 ELSE 1
  ELSE 0

(* intBadlineStun(): 2 blocks the CPU, 1 stops its reads.                  *)
VicStunCPU(v) ==
  IF /\ v.badlineDen
     /\ v.y >= FirstBadLine /\ v.y <= LastBadLine
     /\ v.yscroll = v.y % Rows
     /\ v.x >= StunFrom /\ v.x <= BlockTo
  THEN IF v.x >= BlockFrom THEN 2 ELSE 1
  ELSE 0
-----------------------------------------------------------------------------
(* vicWriteMem()                                                           *)

(* The last line before the bad lines decides: $2F in the code.            *)
DenLine == FirstBadLine - 1

(* Mutant: a write of $D011 forgets the compare value's bit 8.             *)
WriteD011NoCache(v, hi, den, yscroll) ==
  [v EXCEPT
     !.badlineDen = CASE v.y < DenLine -> den
                      [] v.y = DenLine -> @ \/ den
                      [] v.y > DenLine -> @,
     !.hi = hi, !.den = den, !.yscroll = yscroll]

WriteD011(v, hi, den, yscroll) ==
  CacheRasterLatch([v EXCEPT
     !.badlineDen = CASE v.y < DenLine -> den
                      [] v.y = DenLine -> @ \/ den
                      [] v.y > DenLine -> @,
     !.hi = hi, !.den = den, !.yscroll = yscroll])

WriteD012(v, lo) == CacheRasterLatch([v EXCEPT !.lo = lo])

(* writeD019(): a bit that is set clears a flag; the interrupt goes with   *)
(* its last source.                                                        *)
WriteD019(v, bits) ==
  LET flags == v.d019 \ bits
      d019 == IF "raster" \in flags THEN flags ELSE {}
  IN  [v EXCEPT !.d019 = d019, !.signal = "irq" \in d019]

(* Mutant: enabling the interrupt ignores what was flagged before.         *)
WriteD01AOnly(v, on) == [v EXCEPT !.d01a = on]

(* writeD01A(): the condition may have fired before.                       *)
WriteD01A(v, on) ==
  IF on /\ "raster" \in v.d019
  THEN [v EXCEPT !.d01a = on, !.signal = TRUE, !.d019 = @ \cup {"irq"}]
  ELSE [v EXCEPT !.d01a = on]
-----------------------------------------------------------------------------
(* The copies agree with the registers they are taken from.                *)
VicCoherent == /\ vic.rasterLatch = RasterOf(vic)
               /\ vic.signal <=> "irq" \in vic.d019
               /\ vic.signal => "raster" \in vic.d019
=============================================================================

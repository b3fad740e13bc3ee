-------------------------------- MODULE Cia --------------------------------
(***************************************************************************)
(* One of the two 6526 timer chips of the emulated C64 (src/cia.c): timers *)
(* A and B, their control registers, the interrupt control register and    *)
(* the cached copies of register bits that speed up each clock.            *)
(*                                                                         *)
(* The chip is a record, its functions are operators on it.  A counter is  *)
(* a number of two "bytes"; a register is the set of bits that matter.     *)
(***************************************************************************)
EXTENDS Naturals

CONSTANTS
  ByteSize,     \* bound: number of values of a "byte"
  Programs      \* bound: songs, by what they write to the registers

Timer == {"A", "B"}
Chip == {"CIA1", "CIA2"}
Count16 == 0 .. ByteSize * ByteSize - 1
Source == {"phi2", "cnt", "A", "Acnt"}   \* bits 0x60 of the control register
Control == [timer : Timer, start : BOOLEAN, oneShot : BOOLEAN, load : BOOLEAN,
            source : Source]
LatchWrite == [timer : Timer, hi : BOOLEAN, value : 0 .. ByteSize - 1]
MaskWrite == [set : BOOLEAN, bits : SUBSET Timer]

ASSUME CiaAssumption ==
  /\ ByteSize \in Nat \ {0, 1}
  /\ \A p \in Programs :
       /\ DOMAIN p = {"rsid", "controls", "latches", "masks"}
       /\ p.rsid \in BOOLEAN /\ p.controls \subseteq Control
       /\ p.latches \subseteq LatchWrite /\ p.masks \subseteq MaskWrite

VARIABLES
  program, \* the song: an element of Programs
  chip,    \* which of the two chips this is
  cia,     \* its state
  mode,    \* ciaClock: "RSID", "RasterPSID" or "TimerPSID"
  playing  \* has the program control over the CPU?

vars == <<program, chip, cia, mode, playing>>

(* _is_rsid                                                                *)
RSID == program.rsid

(* scripted_transition: what the next three clocks of a timer have to do.  *)
Flag == {"started", "load", "end", "under"}
NoScript == [i \in 1 .. 3 |-> {}]
ScriptOf(a, b, c) == [i \in 1 .. 3 |-> CASE i = 1 -> a [] i = 2 -> b [] i = 3 -> c]
Rest(script) == ScriptOf(script[2], script[3], {})

ChipState == [
  counter : [Timer -> Count16],
  latch   : [Timer -> Count16],
  ctrl    : [Timer -> [start : BOOLEAN, oneShot : BOOLEAN, source : Source]],
  script  : [Timer -> [1 .. 3 -> SUBSET Flag]],
  icr     : SUBSET Timer,  \* the mask as the register $Dx0D holds it
  status  : SUBSET Timer,  \* interrupt_status, its two lower bits ...
  irq     : BOOLEAN,       \* ... and its bit 7
  delay   : 0 .. 2,        \* delay_INT
  fired   : SUBSET Timer,  \* the timers that underflowed in the last clock
  (* cached copies *)
  isStarted   : [Timer -> BOOLEAN],
  mask        : SUBSET Timer,
  maskMatch   : BOOLEAN,
  interruptOn : BOOLEAN,
  bLinked     : BOOLEAN]
-----------------------------------------------------------------------------
(* SYNC_STATUS_CACHE                                                       *)
SyncStatus(c) == [c EXCEPT !.interruptOn = c.irq,
                           !.maskMatch = c.status \cap c.mask # {}]

(* Mutant: UPDATE_INT_MASK leaves the cached match alone.                  *)
UpdateMaskOnly(c, bits) == [c EXCEPT !.icr = bits, !.mask = bits]

(* UPDATE_INT_MASK                                                         *)
UpdateMask(c, bits) == [c EXCEPT !.icr = bits, !.mask = bits,
                                 !.maskMatch = c.status \cap bits # {}]

(* Mutant: the condition is not tested again.                              *)
RaiseScheduled(c) ==
  LET due == [c EXCEPT !.delay = IF @ = 0 THEN 0 ELSE @ - 1]
  IN  IF c.delay = 1 THEN SyncStatus([due EXCEPT !.irq = TRUE]) ELSE due

(* HANDLE_INTERRUPT1: a scheduled interrupt becomes due.                   *)
HandleInterrupt1(c) ==
  LET due == [c EXCEPT !.delay = IF @ = 0 THEN 0 ELSE @ - 1]
  IN  IF c.delay = 1 /\ c.maskMatch
      THEN SyncStatus([due EXCEPT !.irq = TRUE])
      ELSE due

(* HANDLE_INTERRUPT2: schedule an interrupt.                               *)
HandleInterrupt2(c, delay) ==
  IF c.maskMatch /\ ~ c.interruptOn THEN [c EXCEPT !.delay = delay] ELSE c

(* STOP_TIMER                                                              *)
StopTimer(c, t) == [c EXCEPT !.ctrl[t].start = FALSE, !.isStarted[t] = FALSE]

(* Mutant: no cycle is skipped after a reload.                             *)
UnderflowAtOnce(c, t) ==
  LET d == SyncStatus([c EXCEPT !.status = @ \cup {t},
                                !.counter[t] = c.latch[t],
                                !.fired = @ \cup {t}])
  IN  IF c.ctrl[t].oneShot THEN StopTimer(d, t) ELSE d

(* The counter has reached 0: set the status bit, reload, skip one cycle,  *)
(* and stop a one-shot timer.                                              *)
Underflow(c, t) ==
  LET d == SyncStatus([c EXCEPT !.status = @ \cup {t},
                                !.script[t][1] = @ \cup {"under"},
                                !.counter[t] = c.latch[t],
                                !.fired = @ \cup {t}])
  IN  IF c.ctrl[t].oneShot THEN StopTimer(d, t) ELSE d

(* Mutant: a counter that is already 0 is counted down.                    *)
CountBelowZero(c, t) == IF c.counter[t] = 1 THEN Underflow(c, t)
                                            ELSE [c EXCEPT !.counter[t] = @ - 1]

(* COUNT: the counters 1 and 0 underflow alike.                            *)
Count(c, t) == IF c.counter[t] <= 1 THEN Underflow(c, t)
                                    ELSE [c EXCEPT !.counter[t] = @ - 1]

(* underflow(): the cycle after one.                                       *)
AfterUnderflow(c, t) ==
  IF t \in c.status \cap c.mask THEN [c EXCEPT !.delay = 1] ELSE c

Load(c, t) == [c EXCEPT !.counter[t] = c.latch[t]]

(* What clockT() makes of the flags m of this cycle, the script already    *)
(* being shifted, when no underflow precedes.                              *)
Obey(c, t, m, scripted) ==
  IF "load" \in m THEN Load(c, t)
  ELSE IF scripted /\ "end" \notin m
       THEN IF "started" \in m THEN Count(c, t) ELSE c
       ELSE IF c.isStarted[t] THEN Count(c, t) ELSE c

Shift(c, t) == [c EXCEPT !.script[t] = Rest(@)]
Scripted(c, t) == c.script[t] # NoScript

ClockPlain(c, t) == Obey(Shift(c, t), t, c.script[t][1], Scripted(c, t))

(* clockT(): in the cycle after an underflow the timer does not count, but *)
(* a linked timer B is clocked, whichever timer the underflow was of; the  *)
(* chip is then "linked".                                                  *)
SkipCycle(c, t) == AfterUnderflow(Shift(c, t), t)

ClockT(c, t, linked) ==
  LET m == c.script[t][1]
      d == IF c.bLinked THEN linked ELSE SkipCycle(c, t)
  IN  IF "under" \notin m THEN ClockPlain(c, t)
      ELSE IF "load" \in m THEN Load(d, t) ELSE d

(* Only the flags for the next cycle ever hold "under": timer B is clocked *)
(* within its own clock at most once.                                      *)
ClockB(c) == ClockT(c, "B", ClockPlain(SkipCycle(c, "B"), "B"))
ClockA(c) == ClockT(c, "A", ClockB(SkipCycle(c, "A")))

(* Mutant: timer B is also clocked while it is linked.                     *)
ClockBoth(c) ==
  HandleInterrupt2(ClockB(ClockA(HandleInterrupt1([c EXCEPT !.fired = {}]))), 1)

(* Mutant: the interrupt comes in the clock of the underflow.              *)
ClockEager(c) ==
  LET c1 == ClockA([c EXCEPT !.fired = {}])
      c2 == IF c.bLinked THEN c1 ELSE ClockB(c1)
  IN  HandleInterrupt1(HandleInterrupt2(c2, 1))

(* clock()                                                                 *)
ClockChip(c) ==
  LET c1 == ClockA(HandleInterrupt1([c EXCEPT !.fired = {}]))
      c2 == IF c.bLinked THEN c1 ELSE ClockB(c1)
  IN  HandleInterrupt2(c2, 1)

(* ciaClockTimerPSID()                                                     *)
ClockTimerA(c) ==
  HandleInterrupt2(ClockA(HandleInterrupt1([c EXCEPT !.fired = {}])), 1)
-----------------------------------------------------------------------------
(* Mutant: no interrupt is scheduled for what has already happened.        *)
SetMaskOnly(c, w) ==
  IF w.set THEN UpdateMask(c, c.icr \cup w.bits)
           ELSE UpdateMask(c, c.icr \ w.bits)

(* setInterruptMask()                                                      *)
SetInterruptMask(c, w) ==
  IF w.set THEN HandleInterrupt2(UpdateMask(c, c.icr \cup w.bits), 2)
           ELSE UpdateMask(c, c.icr \ w.bits)

(* Mutant: a start is not delayed.                                         *)
ScriptAtOnce(c, w) ==
  LET was == IF c.ctrl[w.timer].start THEN {"started"} ELSE {}
  IN  IF w.load THEN ScriptOf(was, {"load"}, {"load"}) ELSE c.script[w.timer]

(* The script of setControl(): a load after one cycle, lasting two; a      *)
(* start or stop after two.                                                *)
Script(c, w) ==
  LET was == IF c.ctrl[w.timer].start THEN {"started"} ELSE {}
  IN  IF w.load THEN ScriptOf(was, {"load"}, {"load"})
      ELSE IF w.start # c.ctrl[w.timer].start
           THEN ScriptOf(was, was, {"end"})
           ELSE c.script[w.timer]

(* A timer that counts CNT pulses is never started.                        *)
Starts(w) == w.start /\ w.source \notin {"cnt", "Acnt"}

(* setControl()                                                            *)
SetControl(c, w) ==
  [c EXCEPT
     !.script[w.timer] = Script(c, w),
     !.ctrl[w.timer] = [start |-> Starts(w), oneShot |-> w.oneShot,
                        source |-> w.source],
     !.isStarted[w.timer] = Starts(w),
     !.bLinked = IF w.timer = "B" THEN w.source = "A" ELSE @]

(* acknInterruptStatus()                                                   *)
AcknInterruptStatus(c) == SyncStatus([c EXCEPT !.status = {}, !.irq = FALSE])

(* setTimerLatch() and writeLatch(): the high byte resets the counter of a *)
(* stopped timer.                                                          *)
WriteLatch(c, w) ==
  LET lo == c.latch[w.timer] % ByteSize
      latch == IF w.hi THEN w.value * ByteSize + lo
                       ELSE c.latch[w.timer] - lo + w.value
      d == [c EXCEPT !.latch[w.timer] = latch]
  IN  IF w.hi /\ ~ c.isStarted[w.timer] THEN Load(d, w.timer) ELSE d
-----------------------------------------------------------------------------
(* ciaReset(): timer 1A runs and may interrupt; the others are stopped.    *)
Stopped(oneShot) == [start |-> FALSE, oneShot |-> oneShot, source |-> "phi2"]

ResetChip(which, latch) ==
  LET first == which = "CIA1"
  IN [counter |-> latch, latch |-> latch,
      ctrl |-> [A |-> IF first THEN [Stopped(FALSE) EXCEPT !.start = TRUE]
                               ELSE Stopped(RSID),
                B |-> Stopped(first \/ RSID)],
      script |-> [t \in Timer |-> NoScript],
      icr |-> IF first THEN {"A"} ELSE {},
      status |-> {}, irq |-> FALSE, delay |-> 0, fired |-> {},
      isStarted |-> [t \in Timer |-> first /\ t = "A"],
      mask |-> IF first THEN {"A"} ELSE {},
      maskMatch |-> FALSE, interruptOn |-> FALSE, bLinked |-> FALSE]

(* The latches: those of an RSID are at their maximum but for 1A, which    *)
(* holds the duration of a frame.                                          *)
ResetLatches(which) ==
  LET max == ByteSize * ByteSize - 1
      other == IF RSID THEN max ELSE 0
  IN  IF which = "CIA1" THEN {[A |-> frame, B |-> other] : frame \in 1 .. max}
                        ELSE {[A |-> other, B |-> other]}

Init ==
  /\ program \in Programs
  /\ chip \in Chip
  /\ \E latch \in ResetLatches(chip) : cia = ResetChip(chip, latch)
  /\ mode = "RSID"
  /\ playing = TRUE

Clocked == mode = "RSID" \/ chip = "CIA1"

(* ciaClock()                                                              *)
Clock ==
  /\ Clocked
  /\ cia' = IF mode = "TimerPSID" THEN ClockTimerA(cia) ELSE ClockChip(cia)
  /\ UNCHANGED <<program, chip, mode, playing>>

(* ciaWriteMem() and ciaReadMem(): the program accesses a register.        *)
WriteICR ==
  /\ playing
  /\ \E w \in program.masks :
       cia' = SetInterruptMask(cia, IF chip = "CIA2" /\ ~ RSID
                                    THEN [w EXCEPT !.set = FALSE] ELSE w)
  /\ UNCHANGED <<program, chip, mode, playing>>

ReadICR ==
  /\ playing
  /\ cia' = AcknInterruptStatus(cia)
  /\ UNCHANGED <<program, chip, mode, playing>>

WriteControl ==
  /\ playing
  /\ \E w \in program.controls : cia' = SetControl(cia, w)
  /\ UNCHANGED <<program, chip, mode, playing>>

WriteTimer ==
  /\ playing
  /\ \E w \in program.latches : cia' = WriteLatch(cia, w)
  /\ UNCHANGED <<program, chip, mode, playing>>

(* ciaSetDefaultsPSID(), after a PSID's INIT: the registers of CIA1 are    *)
(* set behind the back of the cached copies.  A timer driven song then     *)
(* runs an endless loop that only an interrupt leaves.                     *)
SetDefaultsTimerPSID ==
  /\ ~ RSID /\ mode = "RSID"
  /\ mode' = "TimerPSID"
  /\ playing' = FALSE
  /\ cia' = IF chip = "CIA1"
            THEN [cia EXCEPT !.icr = {"A"}, !.ctrl["A"] =
                    [start |-> TRUE, oneShot |-> FALSE, source |-> "phi2"]]
            ELSE cia
  /\ UNCHANGED <<program, chip>>

(* Otherwise the timer interrupt is masked, if the I/O area is visible.    *)
SetDefaultsRasterPSID ==
  /\ ~ RSID /\ mode = "RSID"
  /\ mode' = "RasterPSID"
  /\ \/ /\ chip = "CIA1"
        /\ cia' = SetInterruptMask(cia, [set |-> FALSE, bits |-> Timer])
     \/ UNCHANGED cia
  /\ UNCHANGED <<program, chip, playing>>

(* The CPU enters the handler that calls PLAY.                             *)
Interrupt ==
  /\ ~ playing
  /\ chip = "CIA1" => cia.interruptOn
  /\ playing' = TRUE
  /\ UNCHANGED <<program, chip, cia, mode>>

Next == \/ Clock \/ WriteICR \/ ReadICR \/ WriteControl \/ WriteTimer
        \/ SetDefaultsTimerPSID \/ SetDefaultsRasterPSID \/ Interrupt

Spec == Init /\ [][Next]_vars

(* The emulation clocks the chip; the CPU takes interrupts.                *)
FairSpec == Spec /\ WF_vars(Clock) /\ WF_vars(Interrupt)
-----------------------------------------------------------------------------
TypeOK == /\ program \in Programs
          /\ cia \in ChipState /\ chip \in Chip
          /\ mode \in {"RSID", "RasterPSID", "TimerPSID"}
          /\ playing \in BOOLEAN

(* cia.c:280 "make sure to sync ALL redundant state vars": the cached      *)
(* copies agree with the registers they are taken from - but for a song    *)
(* whose registers ciaSetDefaultsPSID has set behind them.                 *)
Coherent == mode # "TimerPSID" =>
  /\ cia.mask = cia.icr
  /\ cia.interruptOn <=> cia.irq
  /\ cia.maskMatch <=> cia.status \cap cia.icr # {}
  /\ \A t \in Timer : cia.isStarted[t] <=> cia.ctrl[t].start
  /\ cia.bLinked <=> cia.ctrl["B"].source = "A"

(* No interrupt is lost (cia.c:303-306): an underflow that is reported and *)
(* not masked has raised the interrupt or has it scheduled, in whichever   *)
(* order the program set the mask and the timer ran out.  (The same        *)
(* exception as above.)                                                    *)
NoLostInterrupt ==
  mode # "TimerPSID" /\ cia.status \cap cia.mask # {} => cia.irq \/ cia.delay > 0

(* cia.c:835: PLAY is called although INIT may have disabled the timer     *)
(* interrupt that it depends on.                                           *)
PlayIsCalled == mode = "TimerPSID" /\ chip = "CIA1" ~> playing

(* cia.c:847 "ackn whatever is there already": a song that is not timer    *)
(* driven starts without a pending timer interrupt.                        *)
RasterStartsQuiet ==
  [][SetDefaultsRasterPSID => ~ cia'.interruptOn]_vars
=============================================================================

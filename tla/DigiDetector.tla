------------------------------ MODULE DigiDetector ------------------------------
(***************************************************************************)
(* Detection of sample playback from the register writes of a song          *)
(* (src/src/digi.cpp).  A song plays samples by writing registers in quick  *)
(* succession; each technique has a small state machine per voice that      *)
(* gives up when the next write comes too late.                             *)
(*                                                                          *)
(* A detector is a record.  Times are kept as ages: the number of cycles    *)
(* since the time stamp was taken, where Stale stands for all that are as   *)
(* old or older (the code subtracts the time stamp from the clock).         *)
(***************************************************************************)
EXTENDS Integers, Sequences

DigiVoices == 0..2

FreqTimeout0 == 135
FreqTimeout == 22
PulseTimeout == 7
Stale == FreqTimeout0

Unused == -1      \* _digi_source before the first sample (MASK_DIGI_UNUSED)

NewDigi ==
  [used |-> "none", source |-> Unused, count |-> 0, sample |-> 128, src |-> 0, fm |-> 0,
   freq |-> [v \in DigiVoices |-> [state |-> "idle", age |-> Stale]],
   pulse |-> [v \in DigiVoices |-> [state |-> "idle", age |-> Stale, width |-> 0]],
   swallow |-> [v \in DigiVoices |-> 0]]

\* DigiDetector::reset leaves _fm_count alone.
ResetDigi(d) == [NewDigi EXCEPT !.fm = d.fm]

\* Past the timeout of the state it belongs to, an age makes no difference.
Elapse(age, cycles, timeout) == IF age + cycles >= timeout THEN Stale ELSE age + cycles
FreqLimit(state) == IF state = "idle" THEN 0 ELSE IF state = "prep" THEN FreqTimeout0 ELSE FreqTimeout
PulseLimit(state) == IF state = "idle" THEN 0 ELSE PulseTimeout
Aged(d, cycles) ==
  [d EXCEPT !.freq = [v \in DigiVoices |->
                        [d.freq[v] EXCEPT !.age = Elapse(@, cycles, FreqLimit(d.freq[v].state))]],
            !.pulse = [v \in DigiVoices |->
                        [d.pulse[v] EXCEPT !.age = Elapse(@, cycles, PulseLimit(d.pulse[v].state))]]]

HasFlag(value, flag) == (value \div flag) % 2 = 1
Gate(value) == HasFlag(value, 1)
Test(value) == HasFlag(value, 8)
Tri(value) == HasFlag(value, 16)
Pulsed(value) == HasFlag(value, 64)

\* _digi_count is 16 bits wide, _fm_count 8: after 256 samples of one frame it
\* says that there was none.
CountSize == 65536
CountSizeFM == 256
Counted(n) == (n + 1) % CountSize
CountedFM(n) == (n + 1) % CountSizeFM

-----------------------------------------------------------------------------
(* Result of a handler: the detector, the voices it mutes and whether the   *)
(* write is thereby dealt with.                                             *)
Result(d, mutes, done) == [digi |-> d, mutes |-> mutes, done |-> done]
Undone(d) == Result(d, {}, FALSE)

(* assertSameSource: [digi, ok].                                            *)
SameSource(d, source) ==
  IF d.source = source THEN [digi |-> d, ok |-> TRUE]
  ELSE IF d.source = Unused THEN [digi |-> [d EXCEPT !.source = source], ok |-> TRUE]
  ELSE IF source = 0 THEN [digi |-> d, ok |-> FALSE]
  ELSE IF d.source = 0 THEN [digi |-> [d EXCEPT !.source = source, !.count = 0], ok |-> TRUE]
  ELSE [digi |-> d, ok |-> d.used # "FM"]

-----------------------------------------------------------------------------
(* Test-bit/frequency technique: triangle, TEST, then GATE and frequency in *)
(* either order.                                                            *)

FreqState(d, v, state) == [d EXCEPT !.freq[v].state = state]
FreqAt(d, v, state, age) == [d EXCEPT !.freq[v] = [state |-> state, age |-> age]]

\* recordFreqSample
RecordFreq(d, v) ==
  Result([FreqAt(d, v, "idle", Stale) EXCEPT
            !.src = v + 1, !.count = Counted(@), !.used = "FM", !.fm = CountedFM(@)], {}, TRUE)

\* Mutant: a pattern that was begun is never given up.
HandleFreqPatient(d, v, reg, value) ==
  LET state == d.freq[v].state
      next == [prep |-> "set", set |-> "variant1"]
  IN IF reg = 4 /\ Tri(value) /\ Gate(value) /\ ~ Test(value) THEN Undone(FreqAt(d, v, "prep", 0))
     ELSE IF reg = 4 /\ Test(value) /\ state = "prep" THEN Undone(FreqAt(d, v, "set", 4))
     ELSE IF reg = 4 /\ Gate(value) /\ ~ Test(value) /\ state = "set" THEN Undone(FreqState(d, v, "variant1"))
     ELSE IF reg = 1 /\ state = "variant1" THEN RecordFreq(d, v)
     ELSE Undone(d)

\* handleFreqModulationDigi
HandleFreq(d, v, reg, value) ==
  LET state == d.freq[v].state
      quick == d.freq[v].age < FreqTimeout
  IN IF reg = 4 /\ ~ Tri(value) /\ Test(value)
     THEN IF state = "prep" /\ d.freq[v].age < FreqTimeout0
          THEN Undone(FreqAt(d, v, "set", 4)) ELSE Undone(FreqState(d, v, "idle"))
     ELSE IF reg = 4 /\ Tri(value) /\ Gate(value) /\ ~ Test(value)
     THEN Undone(FreqAt(d, v, "prep", 0))
     ELSE IF reg = 4 /\ ~ Tri(value) /\ Gate(value)
     THEN IF state = "set" /\ quick THEN Undone(FreqState(d, v, "variant1"))
          ELSE IF state = "variant2" /\ quick THEN RecordFreq(d, v)
          ELSE Undone(FreqState(d, v, "idle"))
     ELSE IF reg = 4 /\ ~ Tri(value)
     THEN IF state = "variant2" /\ quick THEN RecordFreq(d, v) ELSE Undone(d)
     ELSE IF reg = 1 /\ state = "set" /\ quick THEN Undone(FreqAt(d, v, "variant2", 0))
     ELSE IF reg = 1 /\ state = "variant1" /\ quick THEN RecordFreq(d, v)
     ELSE Undone(d)

-----------------------------------------------------------------------------
(* Test-bit/pulse width technique: width, PULSE+TEST+GATE, PULSE+GATE, or   *)
(* the width between the two.                                               *)

PulseAt(d, v, state) == [d EXCEPT !.pulse[v].state = state, !.pulse[v].age = 0]

RecordPWM(d, v, sample) == [d EXCEPT !.sample = sample, !.src = v + 1, !.count = Counted(@)]

\* recordPulseSample
RecordPulse(d, v, sample) ==
  LET s == SameSource(d, v + 1)
      recorded == IF s.ok THEN RecordPWM(s.digi, v, sample) ELSE s.digi
  IN [recorded EXCEPT !.pulse[v].state = "idle", !.pulse[v].age = Stale, !.used = "PWMTest"]

\* Mutant: the width is only remembered when it starts the pattern.
HandlePulseFirst(d, v, reg, value) ==
  LET state == d.pulse[v].state
      quick == d.pulse[v].age < PulseTimeout
      wave == reg = 4 /\ Gate(value) /\ Pulsed(value)
  IN IF wave /\ Test(value)
     THEN Undone(PulseAt(d, v, IF state = "prep" /\ quick THEN "confirm" ELSE "prep2"))
     ELSE IF wave
     THEN IF state \in {"confirm", "confirm2"} /\ quick
          THEN Result(RecordPulse(d, v, d.pulse[v].width), {v}, TRUE)
          ELSE Undone([d EXCEPT !.pulse[v].state = "idle"])
     ELSE IF reg = 2
     THEN IF state = "prep2" /\ quick THEN Undone(PulseAt(d, v, "confirm2"))
          ELSE Undone([PulseAt(d, v, "prep") EXCEPT !.pulse[v].width = value])
     ELSE Undone(d)

\* handlePulseModulationDigi
HandlePulse(d, v, reg, value) ==
  LET state == d.pulse[v].state
      quick == d.pulse[v].age < PulseTimeout
      wave == reg = 4 /\ Gate(value) /\ Pulsed(value)
  IN IF wave /\ Test(value)
     THEN Undone(PulseAt(d, v, IF state = "prep" /\ quick THEN "confirm" ELSE "prep2"))
     ELSE IF wave
     THEN IF state \in {"confirm", "confirm2"} /\ quick
          THEN Result(RecordPulse(d, v, d.pulse[v].width), {v}, TRUE)
          ELSE Undone([d EXCEPT !.pulse[v].state = "idle"])
     ELSE IF reg = 2
     THEN LET follow == IF state = "prep2" /\ quick THEN "confirm2" ELSE "prep"
          IN Undone([PulseAt(d, v, follow) EXCEPT !.pulse[v].width = value])
     ELSE Undone(d)

-----------------------------------------------------------------------------
(* Swallow's pulse width technique: recognised by how the voice is set up   *)
(* when TEST is released; then the samples are written to the width.        *)

\* regs: the registers of the chip before this write.
SwallowMode(regs, v) ==
  LET R(i) == regs[7 * v + i]
      pulse == (R(3) % 16) * 256 + R(2)
      freq == R(1) * 256 + R(0)
  IN IF R(5) # 0 \/ R(6) # 240 \/ ~ Test(R(4)) THEN 0
     ELSE IF pulse = \h555 /\ freq = \hFE04 THEN 1
     ELSE IF pulse = \h8FE /\ freq = \hFFFF THEN 2
     ELSE IF pulse \div 256 = 8 THEN 3
     ELSE 0

SwallowSample(mode, value) ==
  IF mode = 2 THEN ((value * 16) % 256) + value \div 16 ELSE (value % 16) * 17

\* handleSwallowDigi: only the first voice's mode opens the second step.
HandleSwallow(d, regs, v, reg, value) ==
  LET mode == SwallowMode(regs, v)
  IN IF reg = 4 /\ ~ Test(value) /\ Pulsed(value) /\ mode # 0
     THEN Result([d EXCEPT !.swallow[v] = mode], {v}, TRUE)
     ELSE IF reg = 3 /\ d.swallow[0] # 0
     THEN LET recorded == IF d.swallow[v] = 0 THEN d
                          ELSE RecordPWM(d, v, SwallowSample(d.swallow[v], value))
          IN Result([recorded EXCEPT !.used = "PWM"], {}, TRUE)
     ELSE Undone(d)

-----------------------------------------------------------------------------
(* The volume register.                                                     *)

\* isMahoneyDigi: io holds what was written to the chip's own addresses.
IsMahoney(io) ==
  /\ io[\h17] = 3 /\ io[\h15] >= \hFE /\ io[\h16] >= \hFE
  /\ io[6] >= \hFB /\ io[6] = io[13] /\ io[6] = io[20]
  /\ \A v \in DigiVoices : io[7 * v + 4] = \h49

\* Mutant: volume writes count although the samples come from a voice.
HandleVolumeAlways(d, io, value) ==
  [d EXCEPT !.used = "D418", !.src = 0, !.sample = (value % 16) * 17, !.count = Counted(@)]

\* The sample of Mahoney's technique is looked up in a table: any byte.
HandleVolume(d, io, value) ==
  LET s == SameSource(d, 0)
      used == IF IsMahoney(io) THEN "Mahoney" ELSE "D418"
      sample == IF IsMahoney(io) THEN value ELSE (value % 16) * 17
  IN IF ~ s.ok THEN s.digi
     ELSE [s.digi EXCEPT !.used = used, !.sample = sample, !.src = 0, !.count = Counted(@)]

-----------------------------------------------------------------------------
(* detectSample: the detectors take their turns until one is done.          *)

\* getD418Sample turns the voices back on only when Mahoney's samples end.
Unmutes(d, io) ==
  IF d.used = "Mahoney" /\ ~ IsMahoney(io) /\ SameSource(d, 0).ok THEN DigiVoices ELSE {}

VoiceOf(reg) == IF reg \in 7..13 THEN 1 ELSE IF reg \in 14..20 THEN 2 ELSE 0

\* [digi, mutes, unmutes]; volume: the write is to the volume register.
Detect(d, regs, io, reg, value, volume) ==
  LET v == VoiceOf(reg)
      r == reg - 7 * v
      f == HandleFreq(d, v, r, value)
      p == HandlePulse(f.digi, v, r, value)
      s == HandleSwallow(p.digi, regs, v, r, value)
      Done(h) == [digi |-> h.digi, mutes |-> h.mutes, unmutes |-> {}]
  IN IF f.done THEN Done(f) ELSE IF p.done THEN Done(p) ELSE IF s.done THEN Done(s)
     ELSE IF volume
     THEN [digi |-> HandleVolume(s.digi, io, value), mutes |-> {}, unmutes |-> Unmutes(s.digi, io)]
     ELSE Done(s)

(* resetCount, when its turn has come.                                      *)

\* Mutant: the samples are counted since the song began.
LapsedNever(d) ==
  LET over == \/ d.used = "FM" /\ d.fm = 0
              \/ d.used = "D418" /\ d.count = 0
  IN [d EXCEPT !.used = IF over THEN "none" ELSE @]

Lapsed(d) ==
  LET over == \/ d.used = "FM" /\ d.fm = 0
              \/ d.used = "D418" /\ d.count = 0
      used == IF over THEN "none" ELSE d.used
  IN [d EXCEPT !.used = used,
               !.source = IF d.used = "FM" /\ d.fm = 0 THEN Unused ELSE @,
               !.fm = IF d.used = "FM" THEN 0 ELSE @,
               !.count = 0]

\* useOverrideDigiSignal: the voice whose output is replaced, or none.
OverriddenVoice(d) == IF d.used \in {"PWM", "PWMTest"} THEN d.src - 1 ELSE -1
=============================================================================

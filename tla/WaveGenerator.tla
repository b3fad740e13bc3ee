------------------------------ MODULE WaveGenerator ------------------------------
(***************************************************************************)
(* The oscillators and waveforms of one SID chip                            *)
(* (src/src/wavegenerator.cpp, clocked and read by src/src/sid.cpp).        *)
(*                                                                          *)
(* Every cycle all three oscillators are clocked, then hard sync is applied,*)
(* then the CPU may write a register; after some cycles an audio sample is  *)
(* fetched from every voice that is not silenced.  Noise is averaged over   *)
(* the cycles of the sample with a running sum that the shift register, the *)
(* register writes and the sampling all update; the pulse computes its      *)
(* average in closed form.  A voice that is silenced is not sampled, and its *)
(* sum runs on.  The history variables below keep what a cycle by cycle     *)
(* computation would have found.                                            *)
(*                                                                          *)
(* The chip is clocked only once it has been written to (SID::isAudible,    *)
(* system.cpp:66), which is where a behaviour starts.  A chip of several is  *)
(* sampled by synthSampleStripped, which silences no voice: Mutable = {} and *)
(* no "silence" write.                                                      *)
(*                                                                          *)
(* The accumulator has any size (24 bits in the code); an output is the set *)
(* of the bits of its upper byte; combinations of several waveforms other   *)
(* than with noise are tables of floating point numbers and left out.       *)
(***************************************************************************)
EXTENDS Integers

CONSTANTS Full,          \* values of the accumulator, 2^24 in the code
          NoiseBit,      \* the bit that clocks the noise register, 2^19
          WidthUnit,     \* accumulator steps per step of the pulse width, 2^12
          SampleCycles,  \* cycles per audio sample, about 22
          ResetDelay,    \* cycles until the TEST bit has refilled the register
          FloatDuration, \* cycles for which waveform 0 keeps the last output
          Writes,        \* register writes of the song: <<voice, "ctrl", c>>,
                         \* <<voice, "freq", f>>, <<voice, "width", w>>; or
                         \* <<Chip, "silence", off>>, bit 7 of $D418
          Tunings,       \* choices of [freq, width] of the three voices
          Mutable,       \* voices that the player or the sample detection mutes
          SumSize,       \* values of the running sum: its 32 bits hold 2^24
                         \* outputs of an upper byte
          MaxCycles,     \* bound on the length of a behaviour (below the 2^32
                         \* at which SYS_CYCLES wraps around)
          MaxWrites      \* bound on the register writes in it

Voices == 0..2
Chip == 3
Bits == 0..7
Register == 0..22

ASSUME WaveAssumption ==
  /\ {Full, NoiseBit, SampleCycles, MaxCycles, SumSize} \subseteq Nat \ {0}
  /\ 255 * SampleCycles < SumSize   \* the sum of one sample fits
  /\ Mutable \subseteq Voices
  /\ 2 * NoiseBit <= Full
  /\ \A tuning \in Tunings : \A v \in 0..2 : tuning[v].freq \in Nat
  /\ \A write \in Writes :
       \/ /\ write[1] \in 0..2
          /\ \/ write[2] = "ctrl" /\ write[3].test \in BOOLEAN
             \/ write[2] = "freq" /\ write[3] \in Nat
             \/ write[2] = "width"
       \/ write[1] = Chip /\ write[2] = "silence" /\ write[3] \in BOOLEAN

VARIABLES voice,    \* the state of each WaveGenerator
          now,      \* SYS_CYCLES
          left,     \* cycles left until the next sample
          acc,      \* history: sum of the outputs of the cycles of this sample
          muted,    \* voices with _is_muted
          silent,   \* voice 3 is off and does not pass the filter either
          steady,   \* history: no write, sync or refill has hit the voice since it
                    \* was last heard
          since,    \* history: sum and number of the cycles since then
          writes,   \* number of register writes, for the bound
          heard     \* history: the last sample of each voice, with what it was made of

vars == <<voice, now, left, muted, silent, acc, steady, since, heard, writes>>

-----------------------------------------------------------------------------
(* Waveforms. *)

Msb == Full \div 2
Prev(v) == IF v = 0 THEN 2 ELSE v - 1
Next3(v) == IF v = 2 THEN 0 ELSE v + 1
HasBit(n, b) == (n \div b) % 2 = 1

Value(S) ==
  LET Bit(b, weight) == IF b \in S THEN weight ELSE 0
  IN Bit(0, 1) + Bit(1, 2) + Bit(2, 4) + Bit(3, 8)
     + Bit(4, 16) + Bit(5, 32) + Bit(6, 64) + Bit(7, 128)
UpperByte(c) == LET n == (c * 256) \div Full IN {b \in Bits : HasBit(n, 2^b)}

\* activateNoiseOutput: eight taps of the register.
Tap == <<0, 2, 5, 9, 11, 14, 18, 20>>
NoiseOutput(lfsr) == {b \in Bits : Tap[b + 1] \in lfsr}

\* The previous oscillator's MSB flips the own one.
RingCounter(vs, v) ==
  LET c == vs[v].counter
  IN IF vs[v].ring /\ vs[Prev(v)].counter >= Msb THEN (c + Msb) % Full ELSE c

Triangle(vs, v) ==
  LET c == RingCounter(vs, v) IN UpperByte(2 * (IF c >= Msb THEN Full - 1 - c ELSE c))

PlainPulse(w) == IF ~ w.test /\ w.counter < w.width THEN {} ELSE Bits

\* Mutant: the part of the previous pulse is not limited to this sample.
HighCyclesUncapped(w) ==
  LET passed == w.counter \div w.freq
  IN IF w.counter < w.width THEN (Full - WidthUnit - w.width) \div w.freq
     ELSE SampleCycles - w.width \div w.freq

\* For how many cycles of the sample in which a pulse has begun was it high?
HighCycles(w) ==
  LET passed == w.counter \div w.freq
      previous == (Full - WidthUnit - w.width) \div w.freq
  IN IF w.counter < w.width
     THEN IF previous > SampleCycles - passed THEN SampleCycles - passed ELSE previous
     ELSE SampleCycles - w.width \div w.freq

\* createPulseOutput
Pulse(w) ==
  LET inc == SampleCycles * w.freq
  IN IF w.test THEN 255
     ELSE IF w.counter < inc THEN (HighCycles(w) * 255) \div SampleCycles
     ELSE IF w.counter > w.width /\ w.counter < w.width + inc
          THEN (((w.counter - w.width) \div w.freq) * 255) \div SampleCycles
     ELSE IF w.counter < w.width THEN 0 ELSE 255

\* The waveforms that noise is combined with (combinedNoiseInput).
CombinedInput(vs, v) ==
  CASE "tri" \in vs[v].wf -> Triangle(vs, v)
    [] "saw" \in vs[v].wf -> UpperByte(vs[v].counter)
    [] "pulse" \in vs[v].wf -> PlainPulse(vs[v])

-----------------------------------------------------------------------------
(* The noise register and its running sum. *)

\* The sum with the interval that is still open.
Summed(w, t) == (w.sum + (t - w.ref1) * Value(w.out)) % SumSize

\* Mutant: the sum forgets the interval that it adds.
OversampleLate(w, t) == [w EXCEPT !.sum = Summed(w, t)]

\* OVERSAMPLE_NOISE_OUTPUT
Oversample(w, t) == [w EXCEPT !.sum = Summed(w, t), !.ref1 = t]

\* SAMPLE_END
SampleEnd(w, t) == [w EXCEPT !.ref0 = t, !.ref1 = t, !.sum = 0]

Shifted(lfsr, feed) == {b \in Register : b - 1 \in lfsr} \cup (IF feed THEN {0} ELSE {})

SetRegister(w, lfsr) == [w EXCEPT !.lfsr = lfsr, !.out = NoiseOutput(lfsr)]

ShiftNoTestBit(w, t) ==
  SetRegister(Oversample(w, t), Shifted(w.lfsr, (22 \in w.lfsr) # (17 \in w.lfsr)))
ShiftTestBitDriven(w, t) ==
  SetRegister([Oversample(w, t) EXCEPT !.refill = 0], Shifted(w.lfsr, 17 \notin w.lfsr))

\* Bits that are 0 in the output are cleared in the register.
FeedbackNoise(w, word) ==
  LET out == w.out \cap word
  IN [w EXCEPT !.out = out,
               !.lfsr = {b \in @ : \A k \in Bits : Tap[k + 1] = b => k \in out}]

-----------------------------------------------------------------------------
(* One cycle. *)

\* clockPhase1 without the feedback; the register rests while noise is off.
NoiseClocked(w, old, t) ==
  IF "noise" \notin w.wf THEN w
  ELSE IF w.shift = 1 THEN ShiftNoTestBit([w EXCEPT !.shift = 0], t)
  ELSE LET rose == HasBit(w.counter, NoiseBit) /\ ~ HasBit(old, NoiseBit)
       IN [w EXCEPT !.shift = IF rose THEN 2 ELSE IF @ = 0 THEN 0 ELSE @ - 1]

Refilled(w, t) == w.test /\ w.refill = t

\* Mutant: the accumulator runs beyond its 24 bits.
Clock1Wide(w, t) ==
  IF w.test THEN IF Refilled(w, t) THEN SetRegister(w, Register) ELSE w
  ELSE LET c == w.counter + w.freq
       IN NoiseClocked([w EXCEPT !.counter = c, !.rising = c >= Msb /\ w.counter < Msb],
                       w.counter, t)

\* Mutant: the TEST bit clears the register instead of filling it.
Clock1Cleared(w, t) ==
  IF w.test THEN IF Refilled(w, t) THEN SetRegister(w, {}) ELSE w
  ELSE LET c == (w.counter + w.freq) % Full
       IN NoiseClocked([w EXCEPT !.counter = c, !.rising = c >= Msb /\ w.counter < Msb],
                       w.counter, t)

Clock1(w, t) ==
  IF w.test THEN IF Refilled(w, t) THEN SetRegister(w, Register) ELSE w
  ELSE LET c == (w.counter + w.freq) % Full
       IN NoiseClocked([w EXCEPT !.counter = c, !.rising = c >= Msb /\ w.counter < Msb],
                       w.counter, t)

\* The oscillators are clocked one after the other: the feedback of a voice
\* sees the previous voice already clocked, only voice 0 sees the old voice 2.
FedBack(vs, v) ==
  IF ~ vs[v].test /\ "noise" \in vs[v].wf /\ vs[v].wf # {"noise"}
  THEN FeedbackNoise(vs[v], CombinedInput(vs, v)) ELSE vs[v]

ClockedOne(vs, v, t) ==
  LET first == [vs EXCEPT ![v] = Clock1(@, t)] IN [first EXCEPT ![v] = FedBack(first, v)]

Phase1(vs, t) == ClockedOne(ClockedOne(ClockedOne(vs, 0, t), 1, t), 2, t)

\* Mutant: the sync source is looked up in the wrong direction.
SyncedBackwards(vs, d) ==
  LET s == Next3(d)
  IN vs[d].sync /\ vs[s].freq # 0 /\ vs[s].rising /\ ~ (vs[s].sync /\ vs[Next3(s)].rising)

\* Hard sync: a voice whose source has just passed its MSB starts again, unless
\* the source is itself synced in this cycle.
Synced(vs, d) ==
  LET s == Prev(d)
  IN vs[d].sync /\ vs[s].freq # 0 /\ vs[s].rising /\ ~ (vs[s].sync /\ vs[Prev(s)].rising)

Phase2(vs) == [v \in Voices |-> IF Synced(vs, v) THEN [vs[v] EXCEPT !.counter = 0] ELSE vs[v]]

-----------------------------------------------------------------------------
(* Output (getOutput) and register writes. *)

Output(vs, v, t) ==
  LET w == vs[v]
  IN IF w.wf = {} THEN IF w.floatEnd >= t THEN w.floating ELSE 0
     ELSE IF "noise" \in w.wf THEN Summed(w, t) \div (IF t = w.ref0 THEN 1 ELSE t - w.ref0)
     ELSE IF "tri" \in w.wf THEN Value(Triangle(vs, v))
     ELSE IF "saw" \in w.wf THEN Value(UpperByte(w.counter))
     ELSE Pulse(w)

ByteBits(n) == {b \in Bits : HasBit(n, 2^b)}

\* Waveform 0 floats; noise starts from the last output of the old waveform.
Switched(vs, v, wf, t) ==
  LET w == vs[v]
  IN IF w.wf # {} /\ wf = {}
     THEN [SampleEnd(w, t) EXCEPT !.floating = Output(vs, v, t), !.floatEnd = t + FloatDuration]
     ELSE IF "noise" \in wf /\ "noise" \notin w.wf
     THEN [SampleEnd(w, t) EXCEPT !.out = ByteBits(Output(vs, v, t))]
     ELSE w

\* Mutant: the TEST bit stops the oscillator without resetting it.
TestedRunning(w, test, t) ==
  IF test = w.test THEN w
  ELSE IF test THEN [w EXCEPT !.refill = t + ResetDelay, !.shift = 0]
  ELSE ShiftTestBitDriven(w, t)

Tested(w, test, t) ==
  IF test = w.test THEN w
  ELSE IF test THEN [w EXCEPT !.counter = 0, !.refill = t + ResetDelay, !.shift = 0]
  ELSE ShiftTestBitDriven(w, t)

\* setWave; a control value is [wf, test, sync, ring].
SetWave(vs, v, c, t) ==
  [Tested(Switched(vs, v, c.wf, t), c.test, t) EXCEPT
     !.wf = c.wf, !.test = c.test, !.sync = c.sync, !.ring = c.ring]

Written(vs, write, t) ==
  LET v == write[1]
  IN CASE write[2] = "ctrl" -> [vs EXCEPT ![v] = SetWave(vs, v, write[3], t)]
       [] write[2] = "freq" -> [vs EXCEPT ![v].freq = write[3]]
       [] write[2] = "width" -> [vs EXCEPT ![v].width = write[3] * WidthUnit]
       [] write[2] = "silence" -> vs

-----------------------------------------------------------------------------
(* What the voice puts out in this very cycle. *)
Instant(vs, v) ==
  LET w == vs[v]
  IN IF "noise" \in w.wf THEN Value(w.out)
     ELSE IF "pulse" \in w.wf THEN Value(PlainPulse(w))
     ELSE 0

ResetVoice(tuning) ==
  [counter |-> 0, freq |-> tuning.freq, width |-> tuning.width * WidthUnit, rising |-> FALSE,
   wf |-> {}, test |-> FALSE, sync |-> FALSE, ring |-> FALSE,
   lfsr |-> Register, out |-> NoiseOutput(Register), shift |-> 0, refill |-> 0,
   sum |-> 0, ref0 |-> 0, ref1 |-> 0, floating |-> 0, floatEnd |-> 0]

Nothing == [sum |-> 0, cycles |-> 0]
Unheard == [value |-> 0, own |-> 0, total |-> 0, cycles |-> 0, steady |-> FALSE]

\* Nothing resets the filter's bits, so that voice 3 may start silenced.
Init ==
  /\ \E tuning \in Tunings : voice = [v \in Voices |-> ResetVoice(tuning[v])]
  /\ now = 0 /\ left = SampleCycles /\ writes = 0
  /\ muted = {} /\ silent \in BOOLEAN
  /\ acc = [v \in Voices |-> 0]
  /\ steady = [v \in Voices |-> FALSE]
  /\ since = [v \in Voices |-> Nothing]
  /\ heard = [v \in Voices |-> Unheard]

Advance(clocked, after, hit) ==
  /\ now < MaxCycles /\ left > 0
  /\ voice' = after
  /\ now' = now + 1 /\ left' = left - 1
  /\ acc' = [v \in Voices |-> acc[v] + Instant(after, v)]
  /\ since' = [v \in Voices |-> [sum |-> since[v].sum + Instant(after, v),
                                 cycles |-> since[v].cycles + 1]]
  /\ steady' = [v \in Voices |-> steady[v] /\ v # hit /\ ~ Synced(clocked, v)
                                /\ ~ Refilled(voice[v], now)]
  /\ UNCHANGED <<heard, muted>>

Cycle ==
  /\ LET clocked == Phase1(voice, now) IN Advance(clocked, Phase2(clocked), -1)
  /\ UNCHANGED <<writes, silent>>

WriteCycle(write) ==
  /\ writes < MaxWrites /\ writes' = writes + 1
  /\ LET clocked == Phase1(voice, now)
     IN Advance(clocked, Written(Phase2(clocked), write, now), write[1])
  /\ silent' = IF write[2] = "silence" THEN write[3] ELSE silent

\* enableVoice or the sample detection switches a voice, at any time.
Mute(v) ==
  /\ muted' = IF v \in muted THEN muted \ {v} ELSE muted \cup {v}
  /\ UNCHANGED <<voice, now, left, silent, acc, steady, since, heard, writes>>

\* synthSample asks a silenced voice for no output: only the others end their
\* sample (SAMPLE_END).
Silenced(v) == v \in muted \/ (v = 2 /\ silent)

Heard(v) == [value |-> Output(voice, v, now), own |-> acc[v], total |-> since[v].sum,
             cycles |-> since[v].cycles, steady |-> steady[v]]

Sample ==
  /\ left = 0
  /\ heard' = [v \in Voices |-> IF Silenced(v) THEN Unheard ELSE Heard(v)]
  /\ voice' = [v \in Voices |-> IF Silenced(v) THEN voice[v] ELSE SampleEnd(voice[v], now)]
  /\ since' = [v \in Voices |-> IF Silenced(v) THEN since[v] ELSE Nothing]
  /\ steady' = [v \in Voices |-> Silenced(v) => steady[v]]
  /\ left' = SampleCycles
  /\ acc' = [v \in Voices |-> 0]
  /\ UNCHANGED <<now, muted, silent, writes>>

Next ==
  \/ Cycle
  \/ \E write \in Writes : WriteCycle(write)
  \/ \E v \in Mutable : Mute(v)
  \/ Sample

Spec == Init /\ [][Next]_vars

-----------------------------------------------------------------------------
(* Properties. *)

VoiceOK(w) ==
  /\ w.counter \in 0..(Full - 1) /\ w.shift \in 0..2
  /\ w.lfsr \subseteq Register /\ w.out \subseteq Bits
  /\ w.ref0 <= w.ref1 /\ w.ref1 <= now

TypeOK == \A v \in Voices : VoiceOK(voice[v])

Combined(v) == "noise" \in voice[v].wf /\ voice[v].wf # {"noise"}

\* The noise of a voice goes on: only a combination with another waveform,
\* which feeds back into the register, can empty it for good.
NoiseLives == \A v \in Voices : voice[v].lfsr = {} => \E write \in Writes :
                write[1] = v /\ write[2] = "ctrl" /\ "noise" \in write[3].wf /\ write[3].wf # {"noise"}

\* An oscillator whose TEST bit is set stays at zero, whatever the other
\* voices do ("resets and locks oscillator at zero", clockPhase1).
LockedAtZero == \A v \in Voices : voice[v].test => voice[v].counter = 0

\* A sample of noise is the average of the noise over the cycles since the voice
\* was last heard, however the clocking of the register falls into them and as
\* far as the sum of those cycles fits (OVERSAMPLE_NOISE_OUTPUT, SAMPLE_END,
\* noiseOutput).  For a voice that was heard the sample before, these are the
\* cycles of the sample itself.
JustSampled == left = SampleCycles /\ now > SampleCycles

NoiseIsAverage ==
  JustSampled => \A v \in Voices :
    heard[v].steady /\ voice[v].wf = {"noise"} =>
      /\ heard[v].value = (heard[v].total % SumSize) \div heard[v].cycles
      /\ heard[v].cycles = SampleCycles => heard[v].value = heard[v].own \div SampleCycles

\* The same for the cycles of the sample alone ("_ref0_ts: start of the current
\* sample interval", wavegenerator.h).
NoiseOfSample ==
  JustSampled => \A v \in Voices :
    heard[v].steady /\ voice[v].wf = {"noise"} => heard[v].value = heard[v].own \div SampleCycles

\* A sample of a pulse is within Tolerance cycles of the average of the plain
\* pulse, at every frequency and width: it "mimicks the results that would be
\* achived when brute-force oversampling the output" (createPulseOutput).
Tolerance == 1
Near(a, b, distance) == a - b <= distance /\ b - a <= distance

PulseNear(v) ==
  heard[v].steady /\ voice[v].wf = {"pulse"} =>
    Near(heard[v].value * SampleCycles, heard[v].own, Tolerance * 255 + SampleCycles)

PulseIsAverage == JustSampled => \A v \in Voices : PulseNear(v)

\* The same but for the samples that end in the very cycle in which the
\* accumulator equals the pulse width.
PulseOffEdge ==
  JustSampled => \A v \in Voices : voice[v].counter # voice[v].width => PulseNear(v)

\* An oscillator is only set back by hard sync when the MSB of the previous
\* oscillator has just become set: "clearing the accumulator of an oscillator
\* based on the accumulator MSB of the previous oscillator" (clockPhase2).
Rises(v) ==
  ~ voice[v].test /\ voice[v].counter < Msb /\ voice[v].counter + voice[v].freq >= Msb

SetBack(v) ==
  /\ now' # now /\ ~ voice[v].test /\ ~ voice'[v].test
  /\ voice'[v].counter = 0 /\ (voice[v].counter + voice[v].freq) % Full # 0

SyncOnRise == [][\A v \in Voices : SetBack(v) => Rises(Prev(v))]_vars

\* The same while the source's TEST bit is clear.
SyncFollowsSource ==
  [][\A v \in Voices : SetBack(v) => Rises(Prev(v)) \/ voice[Prev(v)].test]_vars

\* A steady voice that plays noise plays what its register holds; the output of
\* the old waveform is "just" a "dummy for the no-noise-yet interval of the
\* sample" (INIT_NOISE_OVERSAMPLING).
NoiseIsNoise ==
  left = 0 => \A v \in Voices :
    steady[v] /\ voice[v].wf = {"noise"} => voice[v].out = NoiseOutput(voice[v].lfsr)
=============================================================================

--------------------------- MODULE WaveGenerator_proof ---------------------------
(***************************************************************************)
(* Proofs about WaveGenerator, for accumulators of every size, every choice *)
(* of frequencies and every song.                                           *)
(***************************************************************************)
EXTENDS WaveGenerator, TLAPS

Fields == {"counter", "freq", "width", "rising", "wf", "test", "sync", "ring", "lfsr", "out",
           "shift", "refill", "sum", "ref0", "ref1", "floating", "floatEnd"}

\* A voice has these fields (what the sums hold is of no interest here).
Shape(w) == w = [f \in Fields |-> w[f]]

\* VoiceOK at time t, with what it takes to be inductive.
Good(w, t) ==
  /\ Shape(w)
  /\ w.counter \in 0..(Full - 1) /\ w.freq \in Nat /\ w.shift \in 0..2
  /\ w.lfsr \subseteq Register /\ w.out \subseteq Bits
  /\ w.ref0 \in Int /\ w.ref1 \in Int /\ w.ref0 <= w.ref1 /\ w.ref1 <= t

\* u is w after an operation on its noise: the oscillator is as it was, and a
\* register that held something still does.
Kept(u, w, t) ==
  /\ Good(u, t)
  /\ u.counter = w.counter /\ u.test = w.test /\ u.wf = w.wf
  /\ w.lfsr # {} => u.lfsr # {}

LEMMA Sizes == Full \in Nat \ {0} /\ SampleCycles \in Nat \ {0} /\ MaxCycles \in Nat
  BY WaveAssumption

LEMMA NoiseOutputType == \A S : NoiseOutput(S) \subseteq Bits
  BY DEF NoiseOutput

\* Shifting a register that is not empty leaves one that is not: only bit 22
\* falls out, and then it is the feedback.
LEMMA ShiftedLives ==
  ASSUME NEW S, S \subseteq Register
  PROVE /\ \A feed \in BOOLEAN : Shifted(S, feed) \subseteq Register
        /\ S # {} => Shifted(S, (22 \in S) # (17 \in S)) # {}
        /\ S # {} => Shifted(S, 17 \notin S) # {}
<1>1. \A feed \in BOOLEAN : Shifted(S, feed) \subseteq Register
  BY DEF Shifted, Register
<1>2. CASE S = {} BY <1>1, <1>2
<1>3. CASE \E b \in S : b # 22
  <2>1. PICK b \in S : b # 22 BY <1>3
  <2>2. b + 1 \in Register /\ (b + 1) - 1 \in S BY <2>1 DEF Register
  <2>3. \A feed \in BOOLEAN : b + 1 \in Shifted(S, feed) BY <2>2 DEF Shifted
  <2>4. QED BY <1>1, <2>3
<1>4. CASE S = {22}
  <2>1. 17 \notin S /\ 22 \in S BY <1>4
  <2>2. 0 \in Shifted(S, TRUE) BY DEF Shifted
  <2>3. ((22 \in S) # (17 \in S)) = TRUE /\ (17 \notin S) = TRUE BY <2>1
  <2>4. QED BY <1>1, <2>2, <2>3
<1>5. QED BY <1>2, <1>3, <1>4

LEMMA SumKept ==
  ASSUME NEW w, NEW t \in Int, Good(w, t), NEW sum
  PROVE /\ Kept([w EXCEPT !.sum = sum, !.ref1 = t], w, t)
        /\ [w EXCEPT !.sum = sum, !.ref1 = t].lfsr = w.lfsr
<1> DEFINE u == [w EXCEPT !.sum = sum, !.ref1 = t]
<1>1. Shape(u) /\ u.ref1 = t BY DEF Good, Shape, Fields
<1>2. /\ u.counter = w.counter /\ u.test = w.test /\ u.wf = w.wf /\ u.lfsr = w.lfsr
      /\ u.out = w.out /\ u.freq = w.freq /\ u.shift = w.shift /\ u.ref0 = w.ref0
  BY DEF Good, Shape, Fields
<1> HIDE DEF u
<1>3. Kept(u, w, t) /\ u.lfsr = w.lfsr BY <1>1, <1>2 DEF Good, Kept
<1>4. QED BY <1>3 DEF u

LEMMA OversampleKept ==
  ASSUME NEW w, NEW t \in Int, Good(w, t)
  PROVE Kept(Oversample(w, t), w, t) /\ Oversample(w, t).lfsr = w.lfsr
<1> DEFINE sum == Summed(w, t)
<1>1. Oversample(w, t) = [w EXCEPT !.sum = sum, !.ref1 = t] BY DEF Oversample
<1> HIDE DEF sum
<1>2. /\ Kept([w EXCEPT !.sum = sum, !.ref1 = t], w, t)
      /\ [w EXCEPT !.sum = sum, !.ref1 = t].lfsr = w.lfsr
  BY SumKept, Zenon
<1>3. QED BY <1>1, <1>2, Zenon

LEMMA SetRegisterKept ==
  ASSUME NEW w, NEW t \in Int, Good(w, t), NEW S, S \subseteq Register, w.lfsr # {} => S # {}
  PROVE Kept(SetRegister(w, S), w, t)
  BY NoiseOutputType DEF Good, Kept, SetRegister, Shape, Fields

LEMMA SampleEndKept ==
  ASSUME NEW w, NEW t \in Int, Good(w, t)
  PROVE Kept(SampleEnd(w, t), w, t)
<1> DEFINE u == SampleEnd(w, t)
<1>1. Shape(u) /\ u.ref0 = t /\ u.ref1 = t
  BY DEF Good, SampleEnd, Shape, Fields
<1>2. /\ u.counter = w.counter /\ u.test = w.test /\ u.wf = w.wf /\ u.lfsr = w.lfsr
      /\ u.out = w.out /\ u.freq = w.freq /\ u.shift = w.shift
  BY DEF Good, SampleEnd, Shape, Fields
<1> HIDE DEF u
<1>3. Kept(u, w, t) BY <1>1, <1>2 DEF Good, Kept
<1>4. QED BY <1>3 DEF u

LEMMA KeptTransitive ==
  ASSUME NEW w, NEW u, NEW x, NEW t, Kept(u, w, t), Kept(x, u, t)
  PROVE Kept(x, w, t)
  BY DEF Kept

LEMMA RefillKept ==
  ASSUME NEW w, NEW t \in Int, Good(w, t), NEW r
  PROVE Kept([w EXCEPT !.refill = r], w, t) /\ [w EXCEPT !.refill = r].lfsr = w.lfsr
  BY DEF Good, Kept, Shape, Fields

LEMMA ShiftKept ==
  ASSUME NEW w, NEW t \in Int, Good(w, t)
  PROVE Kept(ShiftNoTestBit(w, t), w, t) /\ Kept(ShiftTestBitDriven(w, t), w, t)
<1> DEFINE u == Oversample(w, t)
           x == [u EXCEPT !.refill = 0]
           S == Shifted(w.lfsr, (22 \in w.lfsr) # (17 \in w.lfsr))
           T == Shifted(w.lfsr, 17 \notin w.lfsr)
<1>1. Kept(u, w, t) /\ u.lfsr = w.lfsr BY OversampleKept
<1>2. Good(u, t) BY <1>1 DEF Kept
<1>3. Kept(x, u, t) /\ x.lfsr = u.lfsr BY <1>2, RefillKept
<1>4. Good(x, t) BY <1>3 DEF Kept
<1>5. w.lfsr \subseteq Register BY DEF Good
<1>6. S \subseteq Register /\ (w.lfsr # {} => S # {}) BY <1>5, ShiftedLives
<1>7. T \subseteq Register /\ (w.lfsr # {} => T # {}) BY <1>5, ShiftedLives
<1>8. ShiftNoTestBit(w, t) = SetRegister(u, S) BY DEF ShiftNoTestBit
<1>9. ShiftTestBitDriven(w, t) = SetRegister(x, T) BY DEF ShiftTestBitDriven
<1> HIDE DEF u, x, S, T
<1>10. Kept(SetRegister(u, S), u, t) BY <1>1, <1>2, <1>6, SetRegisterKept
<1>11. Kept(SetRegister(x, T), x, t) BY <1>1, <1>3, <1>4, <1>7, SetRegisterKept
<1>12. Kept(SetRegister(u, S), w, t) BY <1>1, <1>10, KeptTransitive
<1>13. Kept(x, w, t) BY <1>1, <1>3, KeptTransitive
<1>14. Kept(SetRegister(x, T), w, t) BY <1>11, <1>13, KeptTransitive
<1>15. QED BY <1>8, <1>9, <1>12, <1>14

LEMMA ShiftFieldKept ==
  ASSUME NEW w, NEW t \in Int, Good(w, t), NEW n \in 0..2
  PROVE Kept([w EXCEPT !.shift = n], w, t)
  BY DEF Good, Kept, Shape, Fields

LEMMA NoiseClockedKept ==
  ASSUME NEW w, NEW t \in Int, Good(w, t), NEW old
  PROVE Kept(NoiseClocked(w, old, t), w, t)
<1>1. w.shift \in 0..2 BY DEF Good
<1>2. CASE "noise" \notin w.wf BY <1>2 DEF NoiseClocked, Kept
<1>3. CASE "noise" \in w.wf /\ w.shift = 1
  <2> DEFINE u == [w EXCEPT !.shift = 0]
  <2>1. Kept(u, w, t)
    <3>1. 0 \in 0..2 OBVIOUS
    <3>2. QED BY <3>1, ShiftFieldKept, Zenon
  <2>2. NoiseClocked(w, old, t) = ShiftNoTestBit(u, t) BY <1>3 DEF NoiseClocked
  <2> HIDE DEF u
  <2>3. Good(u, t) BY <2>1 DEF Kept
  <2>4. Kept(ShiftNoTestBit(u, t), u, t) BY <2>3, ShiftKept
  <2>5. QED BY <2>1, <2>2, <2>4, KeptTransitive
<1>4. CASE "noise" \in w.wf /\ w.shift # 1
  <2> DEFINE rose == HasBit(w.counter, NoiseBit) /\ ~ HasBit(old, NoiseBit)
             n == IF rose THEN 2 ELSE IF w.shift = 0 THEN 0 ELSE w.shift - 1
  <2>1. n \in 0..2
    <3> HIDE DEF rose
    <3>1. QED BY <1>1
  <2>2. NoiseClocked(w, old, t) = [w EXCEPT !.shift = n] BY <1>4 DEF NoiseClocked
  <2> HIDE DEF n
  <2>3. Kept([w EXCEPT !.shift = n], w, t) BY <2>1, ShiftFieldKept, Zenon
  <2>4. QED BY <2>2, <2>3
<1>5. QED BY <1>2, <1>3, <1>4

\* u is w one clock later: an oscillator under TEST has not moved.
Clocked(u, w, t) ==
  /\ Good(u, t)
  /\ u.test = w.test /\ u.wf = w.wf
  /\ w.test => u.counter = w.counter
  /\ w.lfsr # {} => u.lfsr # {}

LEMMA CounterSet ==
  ASSUME NEW w, NEW t \in Int, Good(w, t), NEW c \in 0..(Full - 1), NEW r
  PROVE LET u == [w EXCEPT !.counter = c, !.rising = r]
        IN Good(u, t) /\ u.test = w.test /\ u.wf = w.wf /\ u.lfsr = w.lfsr
  BY DEF Good, Shape, Fields

LEMMA Clock1Clocked ==
  ASSUME NEW w, NEW t \in Int, Good(w, t), w.test \in BOOLEAN
  PROVE Clocked(Clock1(w, t), w, t)
<1>1. CASE w.test
  <2>1. Register \subseteq Register /\ Register # {} BY DEF Register
  <2>2. Kept(SetRegister(w, Register), w, t) BY <2>1, SetRegisterKept
  <2>3. Clock1(w, t) \in {w, SetRegister(w, Register)} BY <1>1 DEF Clock1
  <2>4. QED BY <2>2, <2>3 DEF Kept, Clocked
<1>2. CASE ~ w.test
  <2> DEFINE c == (w.counter + w.freq) % Full
             r == c >= Msb /\ w.counter < Msb
             u == [w EXCEPT !.counter = c, !.rising = r]
  <2>1. c \in 0..(Full - 1) BY Sizes DEF Good
  <2>2. Clock1(w, t) = NoiseClocked(u, w.counter, t) BY <1>2 DEF Clock1
  <2> HIDE DEF c, r
  <2>3. Good(u, t) /\ u.test = w.test /\ u.wf = w.wf /\ u.lfsr = w.lfsr BY <2>1, CounterSet
  <2> HIDE DEF u
  <2>4. Kept(NoiseClocked(u, w.counter, t), u, t) BY <2>3, NoiseClockedKept
  <2>5. QED BY <1>2, <2>2, <2>3, <2>4 DEF Kept, Clocked
<1>3. QED BY <1>1, <1>2

-----------------------------------------------------------------------------
(* One voice, and all of them. *)

Mixed(w) == "noise" \in w.wf /\ w.wf # {"noise"}

\* The song combines the noise of voice v with another waveform.
Mixes(v) == \E write \in Writes :
              write[1] = v /\ write[2] = "ctrl" /\ "noise" \in write[3].wf /\ write[3].wf # {"noise"}

VoiceInv(w, v, t) ==
  /\ Good(w, t)
  /\ w.test \in BOOLEAN /\ (w.test => w.counter = 0)
  /\ Mixed(w) => Mixes(v)
  /\ w.lfsr = {} => Mixes(v)

AllInv(vs, t) ==
  /\ vs = [v \in Voices |-> vs[v]]
  /\ \A v \in Voices : VoiceInv(vs[v], v, t)

LEMMA ClockedInv ==
  ASSUME NEW w, NEW u, NEW v, NEW t, VoiceInv(w, v, t), Clocked(u, w, t)
  PROVE VoiceInv(u, v, t)
  BY DEF VoiceInv, Clocked, Mixed

LEMMA KeptInv ==
  ASSUME NEW w, NEW u, NEW v, NEW t, VoiceInv(w, v, t), Kept(u, w, t)
  PROVE VoiceInv(u, v, t)
  BY DEF VoiceInv, Kept, Mixed

LEMMA FeedbackGood ==
  ASSUME NEW w, NEW t \in Int, Good(w, t), NEW word
  PROVE LET u == FeedbackNoise(w, word)
        IN Good(u, t) /\ u.counter = w.counter /\ u.test = w.test /\ u.wf = w.wf
<1> DEFINE out == w.out \cap word
           lfsr == {b \in w.lfsr : \A k \in Bits : Tap[k + 1] = b => k \in out}
           u == [w EXCEPT !.out = out, !.lfsr = lfsr]
<1>1. out \subseteq Bits /\ lfsr \subseteq Register BY DEF Good
<1>2. FeedbackNoise(w, word) = u BY DEF FeedbackNoise
<1> HIDE DEF out, lfsr
<1>3. Good(u, t) /\ u.counter = w.counter /\ u.test = w.test /\ u.wf = w.wf
  BY <1>1 DEF Good, Shape, Fields
<1> HIDE DEF u
<1>4. QED BY <1>2, <1>3

\* Changing one voice of all.
LEMMA OneVoice ==
  ASSUME NEW vs, NEW t, AllInv(vs, t), NEW v \in Voices, NEW u, VoiceInv(u, v, t)
  PROVE AllInv([vs EXCEPT ![v] = u], t) /\ [vs EXCEPT ![v] = u][v] = u
  BY DEF AllInv

LEMMA FedBackInv ==
  ASSUME NEW vs, NEW t \in Int, AllInv(vs, t), NEW v \in Voices
  PROVE VoiceInv(FedBack(vs, v), v, t)
<1> DEFINE w == vs[v]
           word == CombinedInput(vs, v)
<1>1. VoiceInv(w, v, t) BY DEF AllInv
<1>2. CASE ~ w.test /\ "noise" \in w.wf /\ w.wf # {"noise"}
  <2>1. FedBack(vs, v) = FeedbackNoise(w, word) BY <1>2 DEF FedBack
  <2>2. Mixes(v) BY <1>1, <1>2 DEF VoiceInv, Mixed
  <2> HIDE DEF w, word
  <2>3. LET u == FeedbackNoise(w, word)
        IN Good(u, t) /\ u.counter = w.counter /\ u.test = w.test /\ u.wf = w.wf
    BY <1>1, FeedbackGood DEF VoiceInv
  <2>4. QED BY <1>1, <2>1, <2>2, <2>3 DEF VoiceInv, Mixed
<1>3. CASE ~ (~ w.test /\ "noise" \in w.wf /\ w.wf # {"noise"})
  <2>1. FedBack(vs, v) = w BY <1>3 DEF FedBack
  <2>2. QED BY <1>1, <2>1
<1>4. QED BY <1>2, <1>3

LEMMA ClockedOneInv ==
  ASSUME NEW vs, NEW t \in Int, AllInv(vs, t), NEW v \in Voices
  PROVE AllInv(ClockedOne(vs, v, t), t)
<1> DEFINE u == Clock1(vs[v], t)
           first == [vs EXCEPT ![v] = u]
           x == FedBack(first, v)
<1>1. VoiceInv(vs[v], v, t) BY DEF AllInv
<1>2. Clocked(u, vs[v], t) BY <1>1, Clock1Clocked DEF VoiceInv
<1>3. ClockedOne(vs, v, t) = [first EXCEPT ![v] = x] BY DEF ClockedOne
<1> HIDE DEF u
<1>4. VoiceInv(u, v, t) BY <1>1, <1>2, ClockedInv
<1>5. AllInv(first, t) BY <1>4, OneVoice
<1> HIDE DEF first
<1>6. VoiceInv(x, v, t) BY <1>5, FedBackInv
<1> HIDE DEF x
<1>7. AllInv([first EXCEPT ![v] = x], t) BY <1>5, <1>6, OneVoice, Zenon
<1>8. QED BY <1>3, <1>7

LEMMA Phase1Inv ==
  ASSUME NEW vs, NEW t \in Int, AllInv(vs, t)
  PROVE AllInv(Phase1(vs, t), t)
<1> DEFINE one == ClockedOne(vs, 0, t)
           two == ClockedOne(one, 1, t)
<1>1. 0 \in Voices /\ 1 \in Voices /\ 2 \in Voices BY DEF Voices
<1>2. Phase1(vs, t) = ClockedOne(two, 2, t) BY DEF Phase1
<1>3. AllInv(one, t) BY <1>1, ClockedOneInv
<1> HIDE DEF one
<1>4. AllInv(two, t) BY <1>1, <1>3, ClockedOneInv
<1> HIDE DEF two
<1>5. QED BY <1>1, <1>2, <1>4, ClockedOneInv

LEMMA CounterCleared ==
  ASSUME NEW w, NEW v, NEW t, VoiceInv(w, v, t)
  PROVE VoiceInv([w EXCEPT !.counter = 0], v, t)
<1> DEFINE u == [w EXCEPT !.counter = 0]
<1>1. Good(u, t) BY Sizes DEF VoiceInv, Good, Shape, Fields
<1>2. u.counter = 0 /\ u.test = w.test /\ u.wf = w.wf /\ u.lfsr = w.lfsr
  BY DEF VoiceInv, Good, Shape, Fields
<1> HIDE DEF u
<1>3. VoiceInv(u, v, t) BY <1>1, <1>2 DEF VoiceInv, Mixed
<1>4. QED BY <1>3 DEF u

LEMMA Phase2Inv ==
  ASSUME NEW vs, NEW t, AllInv(vs, t)
  PROVE AllInv(Phase2(vs), t)
<1>1. ASSUME NEW v \in Voices
      PROVE Phase2(vs)[v] \in {vs[v], [vs[v] EXCEPT !.counter = 0]}
  BY <1>1 DEF Phase2
<1>2. ASSUME NEW v \in Voices PROVE VoiceInv(Phase2(vs)[v], v, t)
  <2>1. VoiceInv(vs[v], v, t) BY <1>2 DEF AllInv
  <2>2. VoiceInv([vs[v] EXCEPT !.counter = 0], v, t) BY <2>1, CounterCleared, Zenon
  <2>3. CASE Phase2(vs)[v] = vs[v] BY <2>1, <2>3
  <2>4. CASE Phase2(vs)[v] = [vs[v] EXCEPT !.counter = 0] BY <2>2, <2>4, Zenon
  <2>5. QED BY <1>1, <1>2, <2>3, <2>4
<1>3. Phase2(vs) = [v \in Voices |-> Phase2(vs)[v]] BY DEF Phase2
<1>4. QED BY <1>2, <1>3 DEF AllInv

-----------------------------------------------------------------------------
(* Register writes. *)

LEMMA ByteBitsType == \A n : ByteBits(n) \subseteq Bits
  BY DEF ByteBits

LEMMA OutKept ==
  ASSUME NEW w, NEW t \in Int, Good(w, t), NEW out, out \subseteq Bits
  PROVE Kept([w EXCEPT !.out = out], w, t)
  BY DEF Good, Kept, Shape, Fields

LEMMA FloatKept ==
  ASSUME NEW w, NEW t \in Int, Good(w, t), NEW x, NEW y
  PROVE Kept([w EXCEPT !.floating = x, !.floatEnd = y], w, t)
<1> DEFINE u == [w EXCEPT !.floating = x, !.floatEnd = y]
<1>1. /\ Shape(u) /\ u.counter = w.counter /\ u.test = w.test /\ u.wf = w.wf
      /\ u.lfsr = w.lfsr /\ u.out = w.out /\ u.freq = w.freq /\ u.shift = w.shift
      /\ u.ref0 = w.ref0 /\ u.ref1 = w.ref1
  BY DEF Good, Shape, Fields
<1> HIDE DEF u
<1>2. Kept(u, w, t) BY <1>1 DEF Good, Kept
<1>3. QED BY <1>2 DEF u

LEMMA SwitchedKept ==
  ASSUME NEW vs, NEW v, NEW t \in Int, Good(vs[v], t), NEW wf
  PROVE Kept(Switched(vs, v, wf, t), vs[v], t)
<1> DEFINE w == vs[v]
           u == SampleEnd(w, t)
           o == Output(vs, v, t)
           x == [u EXCEPT !.floating = o, !.floatEnd = t + FloatDuration]
           y == [u EXCEPT !.out = ByteBits(o)]
<1>1. Kept(u, w, t) BY SampleEndKept
<1>2. Switched(vs, v, wf, t) \in {w, x, y} BY DEF Switched
<1> HIDE DEF u, o
<1>3. Good(u, t) BY <1>1 DEF Kept
<1>4. Kept(x, u, t) BY <1>3, FloatKept, Zenon
<1>5. ByteBits(o) \subseteq Bits BY ByteBitsType
<1>6. Kept(y, u, t) BY <1>3, <1>5, OutKept, Zenon
<1>7. Kept(w, w, t) BY DEF Kept
<1> HIDE DEF x, y
<1>8. Kept(x, w, t) /\ Kept(y, w, t) BY <1>1, <1>4, <1>6, KeptTransitive
<1>9. QED BY <1>2, <1>7, <1>8

\* Setting TEST zeroes the oscillator; releasing it shifts the register.
LEMMA TestedGood ==
  ASSUME NEW w, NEW t \in Int, Good(w, t), w.test \in BOOLEAN, NEW test \in BOOLEAN
  PROVE LET u == Tested(w, test, t)
        IN /\ Good(u, t) /\ u.wf = w.wf
           /\ w.lfsr # {} => u.lfsr # {}
           /\ (test /\ (w.test => w.counter = 0)) => u.counter = 0
<1>1. CASE test = w.test BY <1>1 DEF Tested
<1>2. CASE test # w.test /\ test
  <2> DEFINE u == [w EXCEPT !.counter = 0, !.refill = t + ResetDelay, !.shift = 0]
  <2>1. /\ Shape(u) /\ u.counter = 0 /\ u.wf = w.wf
        /\ u.lfsr = w.lfsr /\ u.out = w.out /\ u.freq = w.freq /\ u.shift = 0
        /\ u.ref0 = w.ref0 /\ u.ref1 = w.ref1
    BY DEF Good, Shape, Fields
  <2>2. Tested(w, test, t) = u BY <1>2 DEF Tested
  <2> HIDE DEF u
  <2>3. Good(u, t) BY <2>1, Sizes DEF Good
  <2>4. QED BY <2>1, <2>2, <2>3
<1>3. CASE test # w.test /\ ~ test
  <2>1. Tested(w, test, t) = ShiftTestBitDriven(w, t) BY <1>3 DEF Tested
  <2>2. Kept(ShiftTestBitDriven(w, t), w, t) BY ShiftKept
  <2>3. QED BY <1>3, <2>1, <2>2 DEF Kept
<1>4. QED BY <1>1, <1>2, <1>3

LEMMA SetWaveInv ==
  ASSUME NEW vs, NEW t \in Int, AllInv(vs, t), NEW write \in Writes,
         write[2] = "ctrl", write[3].test \in BOOLEAN, write[1] \in Voices
  PROVE VoiceInv(SetWave(vs, write[1], write[3], t), write[1], t)
<1> DEFINE v == write[1]
           c == write[3]
           w == vs[v]
           u == Switched(vs, v, c.wf, t)
           x == Tested(u, c.test, t)
           y == [x EXCEPT !.wf = c.wf, !.test = c.test, !.sync = c.sync, !.ring = c.ring]
<1>1. VoiceInv(w, v, t) BY DEF AllInv
<1>2. Kept(u, w, t) BY <1>1, SwitchedKept DEF VoiceInv
<1>3. SetWave(vs, v, c, t) = y BY DEF SetWave
<1> HIDE DEF u
<1>4. /\ Good(x, t) /\ x.wf = u.wf /\ (u.lfsr # {} => x.lfsr # {})
      /\ (c.test /\ (u.test => u.counter = 0)) => x.counter = 0
  BY <1>1, <1>2, TestedGood DEF VoiceInv, Kept
<1> HIDE DEF x
<1>5. /\ Shape(y) /\ y.counter = x.counter /\ y.wf = c.wf /\ y.test = c.test
      /\ y.lfsr = x.lfsr /\ y.out = x.out /\ y.freq = x.freq /\ y.shift = x.shift
      /\ y.ref0 = x.ref0 /\ y.ref1 = x.ref1
  BY <1>4 DEF Good, Shape, Fields
<1> HIDE DEF y
<1>6. Good(y, t) BY <1>4, <1>5 DEF Good
<1>7. Mixed(y) => Mixes(v) BY <1>5 DEF Mixed, Mixes
<1>8. y.lfsr = {} => Mixes(v) BY <1>1, <1>2, <1>4, <1>5 DEF VoiceInv, Kept
<1>9. y.test => y.counter = 0 BY <1>1, <1>2, <1>4, <1>5 DEF VoiceInv, Kept
<1>10. VoiceInv(y, v, t) BY <1>5, <1>6, <1>7, <1>8, <1>9 DEF VoiceInv
<1>11. QED BY <1>3, <1>10

LEMMA TuneKept ==
  ASSUME NEW w, NEW t \in Int, Good(w, t), NEW n
  PROVE /\ Kept([w EXCEPT !.width = n], w, t)
        /\ n \in Nat => Kept([w EXCEPT !.freq = n], w, t)
  BY DEF Good, Kept, Shape, Fields

LEMMA WrittenInv ==
  ASSUME NEW vs, NEW t \in Int, AllInv(vs, t), NEW write \in Writes
  PROVE AllInv(Written(vs, write, t), t)
<1> DEFINE v == write[1]
           w == vs[v]
<1>0. CASE write[2] = "silence"
  <2>1. Written(vs, write, t) = vs BY <1>0 DEF Written
  <2>2. QED BY <2>1
<1> SUFFICES ASSUME write[2] # "silence" PROVE AllInv(Written(vs, write, t), t) BY <1>0
<1>1. v \in Voices BY WaveAssumption DEF Voices
<1>2. \/ write[2] = "ctrl" /\ write[3].test \in BOOLEAN
      \/ write[2] = "freq" /\ write[3] \in Nat
      \/ write[2] = "width"
  BY WaveAssumption
<1>3. VoiceInv(w, v, t) BY <1>1 DEF AllInv
<1>4. CASE write[2] = "ctrl" /\ write[3].test \in BOOLEAN
  <2> DEFINE u == SetWave(vs, v, write[3], t)
  <2>1. VoiceInv(u, v, t) BY <1>1, <1>4, SetWaveInv
  <2>2. Written(vs, write, t) = [vs EXCEPT ![v] = u] BY <1>4 DEF Written
  <2> HIDE DEF u, v
  <2>3. AllInv([vs EXCEPT ![v] = u], t) BY <1>1, <2>1, OneVoice, Zenon
  <2>4. QED BY <2>2, <2>3
<1>5. CASE write[2] = "freq" /\ write[3] \in Nat
  <2> DEFINE u == [w EXCEPT !.freq = write[3]]
  <2>1. Kept(u, w, t) BY <1>3, <1>5, TuneKept DEF VoiceInv
  <2>2. Written(vs, write, t) = [vs EXCEPT ![v] = u] BY <1>1, <1>5 DEF Written, AllInv
  <2> HIDE DEF u, v
  <2>3. VoiceInv(u, v, t) BY <1>3, <2>1, KeptInv, Zenon
  <2>4. AllInv([vs EXCEPT ![v] = u], t) BY <1>1, <2>3, OneVoice, Zenon
  <2>5. QED BY <2>2, <2>4
<1>6. CASE write[2] = "width"
  <2> DEFINE n == write[3] * WidthUnit
             u == [w EXCEPT !.width = n]
  <2>1. Written(vs, write, t) = [vs EXCEPT ![v] = u] BY <1>1, <1>6 DEF Written, AllInv
  <2> HIDE DEF n
  <2>2. Kept(u, w, t) BY <1>3, TuneKept DEF VoiceInv
  <2> HIDE DEF u, v
  <2>3. VoiceInv(u, v, t) BY <1>3, <2>2, KeptInv, Zenon
  <2>4. AllInv([vs EXCEPT ![v] = u], t) BY <1>1, <2>3, OneVoice, Zenon
  <2>5. QED BY <2>1, <2>4
<1>7. QED BY <1>2, <1>4, <1>5, <1>6

-----------------------------------------------------------------------------
(* The specification. *)

IInv == now \in Nat /\ AllInv(voice, now)

LEMMA Later ==
  ASSUME NEW vs, NEW t \in Int, AllInv(vs, t)
  PROVE AllInv(vs, t + 1)
  BY DEF AllInv, VoiceInv, Good

LEMMA InitIInv == Init => IInv
<1>1. SUFFICES ASSUME Init PROVE IInv OBVIOUS
<1>2. PICK tuning \in Tunings : voice = [v \in Voices |-> ResetVoice(tuning[v])]
  BY <1>1 DEF Init
<1>3. now = 0 BY <1>1 DEF Init
<1>4. ASSUME NEW v \in Voices PROVE VoiceInv(ResetVoice(tuning[v]), v, 0)
  <2>1. tuning[v].freq \in Nat BY <1>4, WaveAssumption DEF Voices
  <2>2. Register # {} BY DEF Register
  <2> DEFINE n == tuning[v].freq
             m == tuning[v].width * WidthUnit
             out == NoiseOutput(Register)
             u == ResetVoice(tuning[v])
  <2>3. out \subseteq Bits BY NoiseOutputType
  <2>4. u = [counter |-> 0, freq |-> n, width |-> m, rising |-> FALSE,
             wf |-> {}, test |-> FALSE, sync |-> FALSE, ring |-> FALSE,
             lfsr |-> Register, out |-> out, shift |-> 0, refill |-> 0,
             sum |-> 0, ref0 |-> 0, ref1 |-> 0, floating |-> 0, floatEnd |-> 0]
    BY DEF ResetVoice
  <2> HIDE DEF n, m, out, u
  <2>5. /\ u.counter = 0 /\ u.freq = n /\ u.wf = {} /\ u.test = FALSE /\ u.lfsr = Register
        /\ u.out = out /\ u.shift = 0 /\ u.ref0 = 0 /\ u.ref1 = 0
    BY <2>4
  <2>6. Shape(u) BY <2>4 DEF Shape, Fields
  <2>7. Good(u, 0) BY <2>1, <2>3, <2>5, <2>6, Sizes DEF Good, n
  <2>8. VoiceInv(u, v, 0) BY <2>2, <2>5, <2>7 DEF VoiceInv, Mixed
  <2>9. QED BY <2>8 DEF u
<1>5. QED BY <1>2, <1>3, <1>4 DEF IInv, AllInv

LEMMA CycleIInv == IInv /\ Cycle => IInv'
<1>1. SUFFICES ASSUME IInv, Cycle PROVE IInv' OBVIOUS
<1>2. now \in Nat /\ AllInv(voice, now) BY <1>1 DEF IInv
<1>3. voice' = Phase2(Phase1(voice, now)) /\ now' = now + 1
  BY <1>1 DEF Cycle, Advance
<1>4. AllInv(Phase1(voice, now), now) BY <1>2, Phase1Inv
<1>5. AllInv(Phase2(Phase1(voice, now)), now) BY <1>4, Phase2Inv
<1>6. AllInv(Phase2(Phase1(voice, now)), now + 1) BY <1>2, <1>5, Later
<1>7. QED BY <1>2, <1>3, <1>6 DEF IInv

LEMMA WriteIInv == ASSUME NEW write \in Writes PROVE IInv /\ WriteCycle(write) => IInv'
<1>1. SUFFICES ASSUME IInv, WriteCycle(write) PROVE IInv' OBVIOUS
<1>2. now \in Nat /\ AllInv(voice, now) BY <1>1 DEF IInv
<1> DEFINE vs == Phase2(Phase1(voice, now))
<1>3. voice' = Written(vs, write, now) /\ now' = now + 1
  BY <1>1 DEF WriteCycle, Advance
<1>4. AllInv(Phase1(voice, now), now) BY <1>2, Phase1Inv
<1>5. AllInv(vs, now) BY <1>4, Phase2Inv
<1> HIDE DEF vs
<1>6. AllInv(Written(vs, write, now), now) BY <1>2, <1>5, WrittenInv
<1>7. AllInv(Written(vs, write, now), now + 1) BY <1>2, <1>6, Later
<1>8. QED BY <1>2, <1>3, <1>7 DEF IInv

LEMMA SampleIInv == IInv /\ Sample => IInv'
<1>1. SUFFICES ASSUME IInv, Sample PROVE IInv' OBVIOUS
<1>2. now \in Nat /\ AllInv(voice, now) BY <1>1 DEF IInv
<1>3. /\ voice' = [v \in Voices |-> IF Silenced(v) THEN voice[v] ELSE SampleEnd(voice[v], now)]
      /\ now' = now
  BY <1>1 DEF Sample
<1>4. ASSUME NEW v \in Voices PROVE VoiceInv(SampleEnd(voice[v], now), v, now)
  <2>1. VoiceInv(voice[v], v, now) BY <1>2, <1>4 DEF AllInv
  <2>2. Kept(SampleEnd(voice[v], now), voice[v], now) BY <1>2, <2>1, SampleEndKept DEF VoiceInv
  <2>3. QED BY <2>1, <2>2, KeptInv
<1>5. QED BY <1>2, <1>3, <1>4 DEF IInv, AllInv

LEMMA InductiveInvariant == Spec => []IInv
<1>1. IInv /\ [Next]_vars => IInv'
  <2>1. SUFFICES ASSUME IInv, [Next]_vars PROVE IInv' OBVIOUS
  <2>2. CASE UNCHANGED vars BY <2>1, <2>2 DEF IInv, vars
  <2>3. ASSUME NEW v \in Mutable, Mute(v) PROVE IInv' BY <2>1, <2>3 DEF Mute, IInv
  <2>4. CASE Next BY <2>1, <2>3, <2>4, CycleIInv, WriteIInv, SampleIInv DEF Next
  <2>5. QED BY <2>1, <2>2, <2>4
<1>2. QED BY InitIInv, <1>1, PTL DEF Spec

\* The oscillators and the noise registers keep their widths, and the running
\* sum of a voice never refers to a later cycle (wavegenerator.cpp).
THEOREM WavesTyped == Spec => []TypeOK
<1>1. IInv => TypeOK BY DEF IInv, AllInv, VoiceInv, Good, TypeOK, VoiceOK
<1>2. QED BY <1>1, InductiveInvariant, PTL

\* An oscillator under TEST stays at zero, whatever else is written and however
\* the voices sync each other (clockPhase1: "resets and locks oscillator").
THEOREM OscillatorLocked == Spec => []LockedAtZero
<1>1. IInv => LockedAtZero BY DEF IInv, AllInv, VoiceInv, LockedAtZero
<1>2. QED BY <1>1, InductiveInvariant, PTL

\* Shifting, refilling and the TEST bit never empty the noise register: the
\* noise of a voice can only die if the song combines it with another waveform.
THEOREM NoiseSurvives == Spec => []NoiseLives
<1>1. IInv => NoiseLives BY DEF IInv, AllInv, VoiceInv, NoiseLives, Mixes
<1>2. QED BY <1>1, InductiveInvariant, PTL

-----------------------------------------------------------------------------
(* The running sum of a voice that plays noise and nothing else.           *)

NoiseOnly(w) == w.wf = {"noise"}

\* While no write, sync or refill hits such a voice, the sum is that of its
\* cycles since it was last heard, as far as it fits.
SumInv(v) ==
  steady[v] /\ NoiseOnly(voice[v]) =>
    /\ voice[v].sum \in Int /\ Summed(voice[v], now) = since[v].sum % SumSize
    /\ voice[v].ref0 = now - since[v].cycles

\* These are the cycles of this sample, or more.
SinceInv(v) ==
  /\ since[v].sum \in Int /\ since[v].cycles \in Nat
  /\ acc[v] \in 0..(255 * (SampleCycles - left))
  /\ since[v].cycles >= SampleCycles - left
  /\ since[v].cycles = SampleCycles - left => since[v].sum = acc[v]

HeardInv(v) ==
  heard[v].steady /\ NoiseOnly(voice[v]) =>
    /\ heard[v].value = (heard[v].total % SumSize) \div heard[v].cycles
    /\ heard[v].cycles = SampleCycles => heard[v].value = heard[v].own \div SampleCycles

AverageInv ==
  /\ left \in 0..SampleCycles
  /\ \A v \in Voices : SumInv(v) /\ SinceInv(v)
  /\ left = SampleCycles => \A v \in Voices : HeardInv(v)

LEMMA Sums == SumSize \in Nat /\ SumSize > 255 * SampleCycles /\ Mutable \subseteq Voices
<1>1. SumSize \in Nat /\ SampleCycles \in Nat BY WaveAssumption
<1>2. QED BY <1>1, WaveAssumption

LEMMA ValueType == \A S : Value(S) \in 0..255
  BY DEF Value

\* Sums that wrap around add up to the sum that wraps around.
LEMMA ModAdd ==
  ASSUME NEW a \in Int, NEW b \in Int, NEW n \in Nat \ {0}
  PROVE  ((a % n) + b) % n = (a + b) % n
<1> DEFINE q == a \div n
           c == a % n
           k == (c + b) \div n
           x == (c + b) % n
           l == (a + b) \div n
           y == (a + b) % n
<1>1. q \in Int /\ c \in Int /\ a = n * q + c OBVIOUS
<1>2. k \in Int /\ x \in 0..(n - 1) /\ c + b = n * k + x BY <1>1
<1>3. l \in Int /\ y \in 0..(n - 1) /\ a + b = n * l + y OBVIOUS
<1> HIDE DEF q, c, k, x, l, y
<1>4. n * (q + k) = n * q + n * k BY <1>1, <1>2
<1>5. n * (q + k) + x = n * l + y BY <1>1, <1>2, <1>3, <1>4
<1> DEFINE d == (q + k) - l
<1>6. d \in Int /\ n * d = y - x
  <2>1. n * ((q + k) - l) = n * (q + k) - n * l BY <1>1, <1>2, <1>3
  <2>2. QED BY <1>1, <1>2, <1>3, <1>5, <2>1
<1> HIDE DEF d
<1>7. d = 0
  <2>1. y - x < n /\ y - x > -n BY <1>2, <1>3
  <2>2. d >= 1 => n * d >= n BY <1>6
  <2>3. d <= -1 => n * d <= -n BY <1>6
  <2>4. QED BY <1>6, <2>1, <2>2, <2>3
<1>8. x = y BY <1>2, <1>3, <1>6, <1>7
<1>9. QED BY <1>8 DEF c, x, y

SameSum(u, w) == u.sum = w.sum /\ u.ref0 = w.ref0 /\ u.ref1 = w.ref1 /\ u.out = w.out

\* One cycle adds the output of that cycle, whether or not the register shifts.
Adds(u, w, t) ==
  /\ u.sum \in Int /\ u.ref0 = w.ref0
  /\ Summed(u, t + 1) = (Summed(w, t) + Value(u.out)) % SumSize

LEMMA SameAdds ==
  ASSUME NEW w, NEW t \in Int, Good(w, t), w.sum \in Int, NEW u, SameSum(u, w)
  PROVE Adds(u, w, t)
<1> DEFINE n == Value(w.out)
           a == w.sum + (t - w.ref1) * n
<1>1. n \in Int BY ValueType
<1>2. w.ref1 \in Int BY DEF Good
<1> HIDE DEF n
<1>3. a \in Int BY <1>1, <1>2
<1>4. w.sum + ((t + 1) - w.ref1) * n = a + n
  <2> DEFINE d == t - w.ref1
  <2>1. d \in Int /\ (t + 1) - w.ref1 = d + 1 BY <1>2
  <2> HIDE DEF d
  <2>2. (d + 1) * n = d * n + n BY <1>1, <2>1
  <2>3. d * n \in Int BY <1>1, <2>1
  <2>4. w.sum + (d * n + n) = w.sum + d * n + n BY <1>1, <2>3
  <2>5. QED BY <2>1, <2>2, <2>4 DEF d
<1>5. Summed(w, t) = a % SumSize BY DEF Summed, n
<1>6. Summed(u, t + 1) = (w.sum + ((t + 1) - w.ref1) * n) % SumSize BY DEF Summed, SameSum, n
<1> HIDE DEF a
<1>7. SumSize \in Nat \ {0} BY Sums, WaveAssumption
<1>8. ((a % SumSize) + n) % SumSize = (a + n) % SumSize BY <1>1, <1>3, <1>7, ModAdd
<1>9. Summed(u, t + 1) = (Summed(w, t) + Value(u.out)) % SumSize
  BY <1>4, <1>5, <1>6, <1>8 DEF SameSum, n
<1>10. QED BY <1>9 DEF Adds, SameSum

LEMMA ShiftAdds ==
  ASSUME NEW w, NEW t \in Int, Good(w, t), w.sum \in Int
  PROVE Adds(ShiftNoTestBit(w, t), w, t)
<1> DEFINE S == Shifted(w.lfsr, (22 \in w.lfsr) # (17 \in w.lfsr))
           out == NoiseOutput(S)
           m == Value(out)
           sum == Summed(w, t)
           x == [w EXCEPT !.sum = sum, !.ref1 = t]
           u == [x EXCEPT !.lfsr = S, !.out = out]
<1>1. Value(w.out) \in Int /\ m \in Int BY ValueType
<1>2. w.ref1 \in Int BY DEF Good
<1>3. ShiftNoTestBit(w, t) = u BY DEF ShiftNoTestBit, SetRegister, Oversample
<1>4. sum \in Int
  <2> DEFINE n == Value(w.out)
  <2>1. sum = (w.sum + (t - w.ref1) * n) % SumSize BY DEF Summed
  <2>2. n \in Int BY <1>1
  <2> HIDE DEF n, sum
  <2>3. w.sum + (t - w.ref1) * n \in Int BY <1>2, <2>2
  <2>4. SumSize \in Nat \ {0} BY Sums, WaveAssumption
  <2>5. QED BY <2>1, <2>3, <2>4
<1> HIDE DEF sum, S, out
<1>5. u.sum = sum /\ u.ref0 = w.ref0 /\ u.ref1 = t /\ u.out = out
  BY DEF Good, Shape, Fields
<1> HIDE DEF x, u
<1>6. Summed(u, t + 1) = (sum + ((t + 1) - t) * m) % SumSize BY <1>5 DEF Summed, m
<1> HIDE DEF m
<1>7. sum + ((t + 1) - t) * m = sum + m BY <1>1, <1>4
<1>8. QED BY <1>3, <1>4, <1>5, <1>6, <1>7 DEF Adds, m, sum

LEMMA Clock1Adds ==
  ASSUME NEW w, NEW t \in Int, Good(w, t), w.test \in BOOLEAN, NoiseOnly(w),
         w.sum \in Int, ~ Refilled(w, t)
  PROVE Adds(Clock1(w, t), w, t)
<1>1. CASE w.test
  <2>1. Clock1(w, t) = w BY <1>1 DEF Clock1
  <2>2. SameSum(w, w) BY DEF SameSum
  <2>3. QED BY <2>1, <2>2, SameAdds
<1>2. CASE ~ w.test
  <2> DEFINE c == (w.counter + w.freq) % Full
             r == c >= Msb /\ w.counter < Msb
             x == [w EXCEPT !.counter = c, !.rising = r]
  <2>1. c \in 0..(Full - 1) BY Sizes DEF Good
  <2>2. Clock1(w, t) = NoiseClocked(x, w.counter, t) BY <1>2 DEF Clock1
  <2> HIDE DEF c, r
  <2>3. Good(x, t) /\ x.wf = w.wf BY <2>1 DEF Good, Shape, Fields
  <2>4. SameSum(x, w) BY DEF SameSum, Good, Shape, Fields
  <2>5. "noise" \in x.wf BY <2>3 DEF NoiseOnly
  <2> HIDE DEF x
  <2> DEFINE y == [x EXCEPT !.shift = 0]
             rose == HasBit(x.counter, NoiseBit) /\ ~ HasBit(w.counter, NoiseBit)
             n == IF rose THEN 2 ELSE IF x.shift = 0 THEN 0 ELSE x.shift - 1
             z == [x EXCEPT !.shift = n]
  <2>6. CASE x.shift = 1
    <3>1. NoiseClocked(x, w.counter, t) = ShiftNoTestBit(y, t) BY <2>5, <2>6 DEF NoiseClocked
    <3>2. SameSum(y, x) BY <2>3 DEF SameSum, Good, Shape, Fields
    <3>3. Good(y, t)
      <4>1. 0 \in 0..2 OBVIOUS
      <4>2. Kept(y, x, t) BY <2>3, <4>1, ShiftFieldKept, Zenon
      <4>3. QED BY <4>2 DEF Kept
    <3> HIDE DEF y
    <3>4. Adds(ShiftNoTestBit(y, t), y, t) BY <2>4, <3>2, <3>3, ShiftAdds DEF SameSum
    <3>5. Summed(y, t) = Summed(w, t) BY <2>4, <3>2 DEF SameSum, Summed
    <3>6. QED BY <2>2, <2>4, <3>1, <3>2, <3>4, <3>5 DEF Adds, SameSum
  <2>7. CASE x.shift # 1
    <3>1. NoiseClocked(x, w.counter, t) = z BY <2>5, <2>7 DEF NoiseClocked
    <3> HIDE DEF n
    <3>2. SameSum(z, x) BY <2>3 DEF SameSum, Good, Shape, Fields
    <3> HIDE DEF z
    <3>3. SameSum(z, w) BY <2>4, <3>2 DEF SameSum
    <3>4. QED BY <2>2, <3>1, <3>3, SameAdds
  <2>8. QED BY <2>6, <2>7
<1>3. QED BY <1>1, <1>2

\* The noise alone is not fed back, and the clocks of the other voices do not
\* reach it.
LEMMA ClockedOneIs ==
  ASSUME NEW vs, NEW t \in Int, AllInv(vs, t), NEW v \in Voices, NEW d \in Voices
  PROVE /\ d # v => ClockedOne(vs, d, t)[v] = vs[v]
        /\ d = v /\ NoiseOnly(vs[v]) => ClockedOne(vs, d, t)[v] = Clock1(vs[v], t)
<1> DEFINE u == Clock1(vs[d], t)
           first == [vs EXCEPT ![d] = u]
           x == FedBack(first, d)
<1>1. ClockedOne(vs, d, t) = [first EXCEPT ![d] = x] BY DEF ClockedOne
<1>2. VoiceInv(vs[d], d, t) BY DEF AllInv
<1>3. u.wf = vs[d].wf BY <1>2, Clock1Clocked DEF VoiceInv, Clocked
<1> HIDE DEF u
<1>4. first[d] = u /\ (d # v => first[v] = vs[v]) BY DEF AllInv
<1>5. first = [k \in Voices |-> first[k]] BY DEF AllInv
<1> HIDE DEF first
<1>6. NoiseOnly(vs[d]) => x = u BY <1>3, <1>4 DEF FedBack, NoiseOnly
<1> HIDE DEF x
<1>7. [first EXCEPT ![d] = x][d] = x /\ (d # v => [first EXCEPT ![d] = x][v] = first[v])
  BY <1>5
<1>8. QED BY <1>1, <1>4, <1>6, <1>7 DEF u

LEMMA Phase1Is ==
  ASSUME NEW vs, NEW t \in Int, AllInv(vs, t), NEW v \in Voices, NoiseOnly(vs[v])
  PROVE Phase1(vs, t)[v] = Clock1(vs[v], t)
<1> DEFINE one == ClockedOne(vs, 0, t)
           two == ClockedOne(one, 1, t)
<1>1. 0 \in Voices /\ 1 \in Voices /\ 2 \in Voices /\ v \in {0, 1, 2} BY DEF Voices
<1>2. Phase1(vs, t) = ClockedOne(two, 2, t) BY DEF Phase1
<1>3. AllInv(one, t) BY <1>1, ClockedOneInv
<1>4. one[v] = IF v = 0 THEN Clock1(vs[v], t) ELSE vs[v] BY <1>1, ClockedOneIs
<1> HIDE DEF one
<1>5. AllInv(two, t) BY <1>1, <1>3, ClockedOneInv
<1>6. two[v] = IF v = 1 THEN Clock1(vs[v], t) ELSE one[v]
  BY <1>1, <1>3, <1>4, ClockedOneIs
<1> HIDE DEF two
<1>7. Phase1(vs, t)[v] = IF v = 2 THEN Clock1(vs[v], t) ELSE two[v]
  BY <1>1, <1>2, <1>4, <1>5, <1>6, ClockedOneIs
<1>8. QED BY <1>1, <1>4, <1>6, <1>7

\* Neither clock nor sync selects another waveform.
LEMMA ClockedOneWf ==
  ASSUME NEW vs, NEW t \in Int, AllInv(vs, t), NEW d \in Voices, NEW v \in Voices
  PROVE ClockedOne(vs, d, t)[v].wf = vs[v].wf
<1> DEFINE u == Clock1(vs[d], t)
           first == [vs EXCEPT ![d] = u]
           x == FedBack(first, d)
<1>1. ClockedOne(vs, d, t) = [first EXCEPT ![d] = x] BY DEF ClockedOne
<1>2. VoiceInv(vs[d], d, t) BY DEF AllInv
<1>3. Clocked(u, vs[d], t) BY <1>2, Clock1Clocked DEF VoiceInv
<1> HIDE DEF u
<1>4. first[d] = u /\ (d # v => first[v] = vs[v]) BY DEF AllInv
<1>5. first = [k \in Voices |-> first[k]] BY DEF AllInv
<1> HIDE DEF first
<1>6. x.wf = u.wf
  <2> DEFINE word == CombinedInput(first, d)
             fed == FeedbackNoise(u, word)
  <2>1. x \in {u, fed} BY <1>4 DEF FedBack
  <2> HIDE DEF word
  <2>2. fed.wf = u.wf BY <1>3, FeedbackGood DEF Clocked
  <2> HIDE DEF fed, x
  <2>3. QED BY <2>1, <2>2
<1> HIDE DEF x
<1>7. [first EXCEPT ![d] = x][d] = x /\ (d # v => [first EXCEPT ![d] = x][v] = first[v])
  BY <1>5
<1>8. QED BY <1>1, <1>3, <1>4, <1>6, <1>7 DEF Clocked

LEMMA Phase1Wf ==
  ASSUME NEW vs, NEW t \in Int, AllInv(vs, t), NEW v \in Voices
  PROVE Phase1(vs, t)[v].wf = vs[v].wf
<1> DEFINE one == ClockedOne(vs, 0, t)
           two == ClockedOne(one, 1, t)
<1>1. 0 \in Voices /\ 1 \in Voices /\ 2 \in Voices BY DEF Voices
<1>2. Phase1(vs, t) = ClockedOne(two, 2, t) BY DEF Phase1
<1>3. AllInv(one, t) /\ one[v].wf = vs[v].wf BY <1>1, ClockedOneInv, ClockedOneWf
<1> HIDE DEF one
<1>4. AllInv(two, t) /\ two[v].wf = one[v].wf BY <1>1, <1>3, ClockedOneInv, ClockedOneWf
<1> HIDE DEF two
<1>5. QED BY <1>1, <1>2, <1>3, <1>4, ClockedOneWf

\* A cycle, with whatever is written to the voices that are not hit.
LEMMA AdvanceSum ==
  ASSUME IInv, AverageInv, NEW after, NEW hit, Advance(Phase1(voice, now), after, hit),
         NEW v \in Voices, v # hit => after[v] = Phase2(Phase1(voice, now))[v]
  PROVE SumInv(v)'
<1> DEFINE clocked == Phase1(voice, now)
           u == Clock1(voice[v], now)
<1>1. SUFFICES ASSUME steady'[v], NoiseOnly(voice'[v]) PROVE SumInv(v)' BY DEF SumInv
<1>2. /\ now \in Int /\ left \in Int /\ AllInv(voice, now)
      /\ voice' = after /\ now' = now + 1
  BY DEF IInv, AverageInv, Advance
<1>3. /\ steady[v] /\ v # hit /\ ~ Synced(clocked, v) /\ ~ Refilled(voice[v], now)
      /\ since'[v].sum = since[v].sum + Instant(after, v)
      /\ since'[v].cycles = since[v].cycles + 1
  BY <1>1 DEF Advance
<1>4. Phase2(clocked)[v] = clocked[v] BY <1>3 DEF Phase2
<1>5. NoiseOnly(voice[v]) BY <1>1, <1>2, <1>3, <1>4, Phase1Wf DEF NoiseOnly
<1>6. clocked[v] = u BY <1>2, <1>5, Phase1Is
<1>7. voice'[v] = u BY <1>2, <1>3, <1>4, <1>6
<1>8. /\ voice[v].sum \in Int /\ Summed(voice[v], now) = since[v].sum % SumSize
      /\ voice[v].ref0 = now - since[v].cycles
      /\ since[v].sum \in Int /\ since[v].cycles \in Nat
  BY <1>3, <1>5 DEF AverageInv, SumInv, SinceInv
<1>9. Adds(u, voice[v], now)
  BY <1>2, <1>3, <1>5, <1>8, Clock1Adds DEF AllInv, VoiceInv
<1>10. Instant(after, v) = Value(u.out)
  BY <1>1, <1>2, <1>7 DEF Instant, NoiseOnly
<1> DEFINE n == Value(u.out)
<1>11. n \in Int BY ValueType
<1> HIDE DEF u, n
<1>12. Summed(u, now + 1) = since'[v].sum % SumSize
  <2> DEFINE a == since[v].sum
  <2>1. Summed(u, now + 1) = ((a % SumSize) + n) % SumSize BY <1>8, <1>9 DEF Adds, n
  <2>2. a \in Int /\ since'[v].sum = a + n BY <1>3, <1>8, <1>10 DEF n
  <2>3. SumSize \in Nat \ {0} BY Sums, WaveAssumption
  <2> HIDE DEF a
  <2>4. ((a % SumSize) + n) % SumSize = (a + n) % SumSize BY <1>11, <2>2, <2>3, ModAdd
  <2>5. QED BY <2>1, <2>2, <2>4
<1>13. u.ref0 = (now + 1) - since'[v].cycles BY <1>2, <1>3, <1>8, <1>9 DEF Adds
<1>14. QED BY <1>2, <1>7, <1>9, <1>12, <1>13 DEF SumInv, Adds

LEMMA AdvanceSince ==
  ASSUME AverageInv, NEW clocked, NEW after, NEW hit, Advance(clocked, after, hit),
         NEW v \in Voices
  PROVE SinceInv(v)'
<1> DEFINE n == Instant(after, v)
<1>1. n \in 0..255
  BY ValueType DEF Instant
<1>2. /\ left \in 1..SampleCycles /\ left' = left - 1
      /\ acc'[v] = acc[v] + n
      /\ since'[v].sum = since[v].sum + n /\ since'[v].cycles = since[v].cycles + 1
  BY DEF Advance, AverageInv
<1> HIDE DEF n
<1>3. SinceInv(v) BY DEF AverageInv
<1>4. QED BY <1>1, <1>2, <1>3, Sizes DEF SinceInv

LEMMA SampleSum ==
  ASSUME IInv, AverageInv, Sample, NEW v \in Voices
  PROVE SumInv(v)' /\ SinceInv(v)' /\ HeardInv(v)'
<1> DEFINE w == voice[v]
           u == SampleEnd(w, now)
           out == Output(voice, v, now)
           total == since[v].sum
           cycles == since[v].cycles
<1>1. /\ now \in Int /\ Good(w, now) BY DEF IInv, AllInv, VoiceInv
<1>2. left = 0 /\ now' = now /\ left' = SampleCycles /\ acc'[v] = 0 BY DEF Sample
<1>3. /\ SinceInv(v) /\ SumInv(v) BY DEF AverageInv
<1>4. CASE Silenced(v)
  <2>1. /\ voice'[v] = w /\ since'[v] = since[v] /\ (steady'[v] => steady[v])
        /\ heard'[v] = Unheard
    BY <1>4 DEF Sample
  <2>2. SumInv(v)' BY <1>2, <1>3, <2>1 DEF SumInv
  <2>3. SinceInv(v)' BY <1>2, <1>3, <2>1, Sizes DEF SinceInv
  <2>4. HeardInv(v)' BY <2>1 DEF HeardInv, Unheard
  <2>5. QED BY <2>2, <2>3, <2>4
<1>5. CASE ~ Silenced(v)
  <2>1. /\ voice'[v] = u /\ since'[v] = Nothing
        /\ heard'[v] = [value |-> out, own |-> acc[v], total |-> total, cycles |-> cycles,
                        steady |-> steady[v]]
    BY <1>5 DEF Sample, Heard
  <2>2. u.sum = 0 /\ u.ref0 = now /\ u.ref1 = now /\ u.out = w.out /\ u.wf = w.wf
    BY <1>1 DEF SampleEnd, Good, Shape, Fields
  <2>3. SumInv(v)'
    <3>1. Value(u.out) \in Int BY ValueType
    <3> DEFINE n == Value(u.out)
    <3>2. Summed(u, now) = (0 + (now - now) * n) % SumSize BY <2>2 DEF Summed
    <3> HIDE DEF n, u
    <3>3. 0 + (now - now) * n = 0 BY <1>1, <3>1 DEF n
    <3>4. Summed(u, now) = 0 % SumSize BY <3>2, <3>3
    <3>5. now = now - 0 BY <1>1
    <3>6. since'[v].sum = 0 /\ since'[v].cycles = 0 BY <2>1 DEF Nothing
    <3>7. u.sum \in Int BY <2>2
    <3>8. QED BY <1>2, <2>1, <2>2, <3>4, <3>5, <3>6, <3>7 DEF SumInv
  <2>4. SinceInv(v)' BY <1>2, <2>1, Sizes DEF SinceInv, Nothing
  <2>5. ASSUME steady[v], NoiseOnly(w)
        PROVE  /\ out = (total % SumSize) \div cycles
               /\ cycles = SampleCycles => out = acc[v] \div SampleCycles
    <3>1. Summed(w, now) = total % SumSize /\ w.ref0 = now - cycles
      BY <1>3, <2>5 DEF SumInv
    <3>2. cycles \in Nat /\ cycles >= SampleCycles /\ now # w.ref0 /\ now - w.ref0 = cycles
      BY <1>1, <1>2, <1>3, <3>1, Sizes DEF SinceInv
    <3>3. w.wf # {} /\ "noise" \in w.wf BY <2>5 DEF NoiseOnly
    <3>4. out = Summed(w, now) \div (now - w.ref0) BY <3>2, <3>3 DEF Output
    <3>5. cycles = SampleCycles => total = acc[v] /\ acc[v] \in 0..(255 * SampleCycles)
      BY <1>2, <1>3, Sizes DEF SinceInv
    <3>6. \A a \in 0..(255 * SampleCycles) : a % SumSize = a BY Sums, Sizes
    <3> HIDE DEF out, total, cycles
    <3>7. QED BY <3>1, <3>2, <3>4, <3>5, <3>6
  <2> HIDE DEF out, u, total, cycles
  <2>6. HeardInv(v)' BY <2>1, <2>2, <2>5 DEF HeardInv, NoiseOnly
  <2>7. QED BY <2>3, <2>4, <2>6
<1>6. QED BY <1>4, <1>5

LEMMA AverageStep == ASSUME IInv, AverageInv, [Next]_vars PROVE AverageInv'
<1>1. CASE UNCHANGED <<voice, now, left, acc, steady, since, heard>>
  BY <1>1 DEF AverageInv, SumInv, SinceInv, HeardInv
<1>2. ASSUME NEW after, NEW hit, Advance(Phase1(voice, now), after, hit),
             \A v \in Voices : v # hit => after[v] = Phase2(Phase1(voice, now))[v]
      PROVE  AverageInv'
  <2>1. left' \in 0..SampleCycles /\ left' # SampleCycles
    BY <1>2, Sizes DEF Advance, AverageInv
  <2>2. \A v \in Voices : SumInv(v)' /\ SinceInv(v)' BY <1>2, AdvanceSum, AdvanceSince
  <2>3. QED BY <2>1, <2>2 DEF AverageInv
<1>3. CASE Cycle
  <2>1. Advance(Phase1(voice, now), Phase2(Phase1(voice, now)), -1) BY <1>3 DEF Cycle
  <2>2. QED BY <1>2, <2>1
<1>4. ASSUME NEW write \in Writes, WriteCycle(write) PROVE AverageInv'
  <2> DEFINE vs == Phase2(Phase1(voice, now))
             after == Written(vs, write, now)
  <2>1. Advance(Phase1(voice, now), after, write[1]) BY <1>4 DEF WriteCycle
  <2>2. ASSUME NEW v \in Voices, v # write[1] PROVE after[v] = vs[v]
    <3>1. vs = [k \in Voices |-> vs[k]] BY DEF Phase2
    <3>2. \/ write[2] \in {"ctrl", "freq", "width"}
          \/ write[2] = "silence"
      BY WaveAssumption
    <3> HIDE DEF vs
    <3>3. CASE write[2] \in {"ctrl", "freq", "width"}
      <4>1. \E u : after = [vs EXCEPT ![write[1]] = u] BY <3>3 DEF Written
      <4>2. QED BY <2>2, <3>1, <4>1
    <3>4. CASE write[2] = "silence" BY <3>4 DEF Written
    <3>5. QED BY <3>2, <3>3, <3>4
  <2> HIDE DEF after
  <2>3. QED BY <1>2, <2>1, <2>2
<1>5. CASE Sample
  <2>1. left' = SampleCycles BY <1>5 DEF Sample
  <2>2. left' \in 0..SampleCycles BY <2>1, Sizes
  <2>3. QED BY <1>5, <2>2, SampleSum DEF AverageInv
<1>6. ASSUME NEW v \in Mutable, Mute(v) PROVE AverageInv' BY <1>1, <1>6 DEF Mute
<1>7. QED BY <1>1, <1>3, <1>4, <1>5, <1>6 DEF Next, vars

\* A sample of noise is the average of the noise over the cycles since the voice
\* was last heard, however the shifts of the register, the samples and the
\* muting fall: no cycle is counted twice, none is left out, and the sum wraps
\* around as the sum of all of them would (OVERSAMPLE_NOISE_OUTPUT, SAMPLE_END,
\* noiseOutput, synthSample).
THEOREM NoiseAveraged == Spec => []NoiseIsAverage
<1>1. Init => AverageInv
  BY Sizes DEF Init, AverageInv, SumInv, SinceInv, HeardInv, Nothing, Unheard
<1>2. IInv /\ AverageInv /\ [Next]_vars => AverageInv' BY AverageStep
<1>3. AverageInv => NoiseIsAverage
  BY DEF AverageInv, HeardInv, NoiseOnly, NoiseIsAverage, JustSampled
<1>4. QED BY InductiveInvariant, <1>1, <1>2, <1>3, PTL DEF Spec

-----------------------------------------------------------------------------
(* Hard sync. *)

SameClock(u, w) == u.counter = w.counter /\ u.rising = w.rising

LEMMA ShiftClock ==
  ASSUME NEW w, NEW t \in Int, Good(w, t)
  PROVE SameClock(ShiftNoTestBit(w, t), w)
<1> DEFINE sum == Summed(w, t)
           S == Shifted(w.lfsr, (22 \in w.lfsr) # (17 \in w.lfsr))
           out == NoiseOutput(S)
           x == [w EXCEPT !.sum = sum, !.ref1 = t]
           u == [x EXCEPT !.lfsr = S, !.out = out]
<1>1. ShiftNoTestBit(w, t) = u BY DEF ShiftNoTestBit, SetRegister, Oversample
<1> HIDE DEF sum, S, out
<1>2. SameClock(u, w) BY DEF SameClock, Good, Shape, Fields
<1>3. QED BY <1>1, <1>2

LEMMA NoiseClock ==
  ASSUME NEW w, NEW t \in Int, Good(w, t), NEW old
  PROVE SameClock(NoiseClocked(w, old, t), w)
<1>1. CASE "noise" \notin w.wf BY <1>1 DEF NoiseClocked, SameClock
<1>2. CASE "noise" \in w.wf /\ w.shift = 1
  <2> DEFINE u == [w EXCEPT !.shift = 0]
  <2>1. SameClock(u, w) BY DEF SameClock, Good, Shape, Fields
  <2>2. NoiseClocked(w, old, t) = ShiftNoTestBit(u, t) BY <1>2 DEF NoiseClocked
  <2>3. Good(u, t) BY DEF Good, Shape, Fields
  <2> HIDE DEF u
  <2>4. QED BY <2>1, <2>2, <2>3, ShiftClock DEF SameClock
<1>3. CASE "noise" \in w.wf /\ w.shift # 1
  <2> DEFINE rose == HasBit(w.counter, NoiseBit) /\ ~ HasBit(old, NoiseBit)
             n == IF rose THEN 2 ELSE IF w.shift = 0 THEN 0 ELSE w.shift - 1
             u == [w EXCEPT !.shift = n]
  <2>1. NoiseClocked(w, old, t) = u BY <1>3 DEF NoiseClocked
  <2> HIDE DEF n
  <2>2. SameClock(u, w) BY DEF SameClock, Good, Shape, Fields
  <2>3. QED BY <2>1, <2>2
<1>4. QED BY <1>1, <1>2, <1>3

\* A voice that is not under TEST has moved by its frequency, and says so when
\* its MSB has become set.
Moved(u, w) ==
  ~ w.test => /\ u.counter = (w.counter + w.freq) % Full
              /\ u.rising => w.counter < Msb /\ (w.counter + w.freq) % Full >= Msb

LEMMA Clock1Moved ==
  ASSUME NEW w, NEW t \in Int, Good(w, t)
  PROVE Moved(Clock1(w, t), w)
<1> SUFFICES ASSUME ~ w.test PROVE Moved(Clock1(w, t), w) BY DEF Moved
<1> DEFINE c == (w.counter + w.freq) % Full
           r == c >= Msb /\ w.counter < Msb
           x == [w EXCEPT !.counter = c, !.rising = r]
<1>1. c \in 0..(Full - 1) BY Sizes DEF Good
<1>2. Clock1(w, t) = NoiseClocked(x, w.counter, t) BY DEF Clock1
<1> HIDE DEF c, r
<1>3. Good(x, t) BY <1>1 DEF Good, Shape, Fields
<1>4. x.counter = c /\ x.rising = r BY DEF Good, Shape, Fields
<1> HIDE DEF x
<1>5. SameClock(NoiseClocked(x, w.counter, t), x) BY <1>3, NoiseClock
<1>6. QED BY <1>2, <1>4, <1>5 DEF SameClock, Moved, c, r

LEMMA FedBackClock ==
  ASSUME NEW vs, NEW t, NEW v \in Voices, Good(vs[v], t)
  PROVE SameClock(FedBack(vs, v), vs[v])
<1> DEFINE w == vs[v]
           out == w.out \cap CombinedInput(vs, v)
           lfsr == {b \in w.lfsr : \A k \in Bits : Tap[k + 1] = b => k \in out}
           u == [w EXCEPT !.out = out, !.lfsr = lfsr]
<1>1. FedBack(vs, v) \in {w, u} BY DEF FedBack, FeedbackNoise
<1> HIDE DEF out, lfsr
<1>2. SameClock(u, w) BY DEF SameClock, Good, Shape, Fields
<1>3. SameClock(w, w) BY DEF SameClock
<1> HIDE DEF w, u
<1>4. QED BY <1>1, <1>2, <1>3 DEF w

LEMMA ClockedOneMoved ==
  ASSUME NEW vs, NEW t \in Int, AllInv(vs, t), NEW d \in Voices, NEW v \in Voices
  PROVE /\ d = v => Moved(ClockedOne(vs, d, t)[v], vs[v])
        /\ d # v => ClockedOne(vs, d, t)[v] = vs[v]
<1> DEFINE u == Clock1(vs[d], t)
           first == [vs EXCEPT ![d] = u]
           x == FedBack(first, d)
<1>1. ClockedOne(vs, d, t) = [first EXCEPT ![d] = x] BY DEF ClockedOne
<1>2. VoiceInv(vs[d], d, t) BY DEF AllInv
<1>3. Clocked(u, vs[d], t) /\ Moved(u, vs[d])
  BY <1>2, Clock1Clocked, Clock1Moved DEF VoiceInv
<1> HIDE DEF u
<1>4. first[d] = u /\ (d # v => first[v] = vs[v]) BY DEF AllInv
<1>5. first = [k \in Voices |-> first[k]] BY DEF AllInv
<1> HIDE DEF first
<1>6. SameClock(x, u) BY <1>3, <1>4, FedBackClock DEF Clocked
<1> HIDE DEF x
<1>7. [first EXCEPT ![d] = x][d] = x /\ (d # v => [first EXCEPT ![d] = x][v] = first[v])
  BY <1>5
<1>8. QED BY <1>1, <1>3, <1>4, <1>6, <1>7 DEF Moved, SameClock

LEMMA Phase1Moved ==
  ASSUME NEW vs, NEW t \in Int, AllInv(vs, t), NEW v \in Voices
  PROVE Moved(Phase1(vs, t)[v], vs[v])
<1> DEFINE one == ClockedOne(vs, 0, t)
           two == ClockedOne(one, 1, t)
<1>1. 0 \in Voices /\ 1 \in Voices /\ 2 \in Voices /\ v \in {0, 1, 2} BY DEF Voices
<1>2. Phase1(vs, t) = ClockedOne(two, 2, t) BY DEF Phase1
<1>3. AllInv(one, t) BY <1>1, ClockedOneInv
<1>4. IF v = 0 THEN Moved(one[v], vs[v]) ELSE one[v] = vs[v] BY <1>1, ClockedOneMoved
<1> HIDE DEF one
<1>5. AllInv(two, t) BY <1>1, <1>3, ClockedOneInv
<1>6. IF v = 1 THEN Moved(two[v], one[v]) ELSE two[v] = one[v]
  BY <1>1, <1>3, ClockedOneMoved
<1> HIDE DEF two
<1>7. IF v = 2 THEN Moved(Phase1(vs, t)[v], two[v]) ELSE Phase1(vs, t)[v] = two[v]
  BY <1>1, <1>2, <1>5, ClockedOneMoved
<1>8. CASE v = 0 BY <1>4, <1>6, <1>7, <1>8
<1>9. CASE v = 1 BY <1>4, <1>6, <1>7, <1>9
<1>10. CASE v = 2 BY <1>4, <1>6, <1>7, <1>10
<1>11. QED BY <1>1, <1>8, <1>9, <1>10

\* A write moves an oscillator only by setting its TEST bit.
LEMMA WrittenMoves ==
  ASSUME NEW vs, NEW t \in Int, AllInv(vs, t), NEW write \in Writes, NEW v \in Voices
  PROVE Written(vs, write, t)[v].counter = vs[v].counter \/ Written(vs, write, t)[v].test
<1> DEFINE d == write[1]
           c == write[3]
           w == vs[d]
<1>0. vs = [k \in Voices |-> vs[k]] BY DEF AllInv
<1>01. CASE write[2] = "silence" BY <1>01 DEF Written
<1> SUFFICES ASSUME write[2] # "silence"
             PROVE  \/ Written(vs, write, t)[v].counter = vs[v].counter
                    \/ Written(vs, write, t)[v].test
  BY <1>01
<1>1. d \in Voices BY WaveAssumption DEF Voices
<1>2. Good(w, t) /\ w.test \in BOOLEAN BY <1>1 DEF AllInv, VoiceInv
<1>3. CASE write[2] = "ctrl" /\ c.test \in BOOLEAN
  <2> DEFINE u == Switched(vs, d, c.wf, t)
             x == Tested(u, c.test, t)
             y == [x EXCEPT !.wf = c.wf, !.test = c.test, !.sync = c.sync, !.ring = c.ring]
  <2>1. Kept(u, w, t) BY <1>2, SwitchedKept
  <2>2. Written(vs, write, t) = [vs EXCEPT ![d] = y] BY <1>3 DEF Written, SetWave
  <2> HIDE DEF u
  <2>3. Good(x, t) BY <1>2, <1>3, <2>1, TestedGood DEF Kept
  <2>4. ~ c.test => x.counter = u.counter
    <3>1. Kept(ShiftTestBitDriven(u, t), u, t) BY <2>1, ShiftKept DEF Kept
    <3>2. QED BY <3>1 DEF Tested, Kept
  <2> HIDE DEF x
  <2>5. y.counter = x.counter /\ y.test = c.test BY <2>3 DEF Good, Shape, Fields
  <2> HIDE DEF y, d
  <2>6. [vs EXCEPT ![d] = y][v] = IF v = d THEN y ELSE vs[v] BY <1>0, <1>1
  <2>7. QED BY <2>1, <2>2, <2>4, <2>5, <2>6 DEF Kept
<1>4. CASE write[2] = "freq" \/ write[2] = "width"
  <2> DEFINE y == [w EXCEPT !.freq = c]
             z == [w EXCEPT !.width = c * WidthUnit]
  <2>1. Written(vs, write, t) \in {[vs EXCEPT ![d] = y], [vs EXCEPT ![d] = z]}
    BY <1>0, <1>1, <1>4 DEF Written
  <2>2. y.counter = w.counter /\ z.counter = w.counter BY <1>2 DEF Good, Shape, Fields
  <2> HIDE DEF y, z, d
  <2>3. /\ [vs EXCEPT ![d] = y][v] = IF v = d THEN y ELSE vs[v]
        /\ [vs EXCEPT ![d] = z][v] = IF v = d THEN z ELSE vs[v]
    BY <1>0, <1>1
  <2>4. QED BY <2>1, <2>2, <2>3
<1>5. QED BY <1>3, <1>4, WaveAssumption

\* An oscillator is set back only because the MSB of its source has just become
\* set, or while the TEST bit holds the source (clockPhase1, clockPhase2): no
\* write, no other voice and no wrap-around of its own looks like a sync.
THEOREM SyncOnlyFromSource == Spec => SyncFollowsSource
<1>1. ASSUME IInv, [Next]_vars, NEW v \in Voices, SetBack(v)
      PROVE  Rises(Prev(v)) \/ voice[Prev(v)].test
  <2> DEFINE clocked == Phase1(voice, now)
             s == Prev(v)
  <2>1. now \in Int /\ AllInv(voice, now) BY <1>1 DEF IInv
  <2>2. s \in Voices BY DEF Prev, Voices
  <2>3. AllInv(clocked, now) BY <2>1, Phase1Inv
  <2>4. AllInv(Phase2(clocked), now) BY <2>3, Phase2Inv
  <2>5. Moved(clocked[v], voice[v]) /\ Moved(clocked[s], voice[s])
    BY <2>1, <2>2, Phase1Moved
  <2> HIDE DEF clocked
  <2>6. /\ ~ voice[v].test /\ ~ voice'[v].test /\ voice'[v].counter = 0
        /\ (voice[v].counter + voice[v].freq) % Full # 0 /\ now' # now
    BY <1>1 DEF SetBack
  <2>7. Phase2(clocked)[v].counter = 0
    <3>1. CASE Cycle BY <2>6, <3>1 DEF Cycle, Advance, clocked
    <3>2. ASSUME NEW write \in Writes, WriteCycle(write)
          PROVE  Phase2(clocked)[v].counter = 0
      <4>1. voice' = Written(Phase2(clocked), write, now)
        BY <3>2 DEF WriteCycle, Advance, clocked
      <4>2. QED BY <2>1, <2>4, <2>6, <4>1, WrittenMoves
    <3>3. CASE Sample \/ UNCHANGED vars BY <2>6, <3>3 DEF Sample, vars
    <3>4. ASSUME NEW d \in Mutable, Mute(d) PROVE FALSE BY <2>6, <3>4 DEF Mute
    <3>5. QED BY <1>1, <3>1, <3>2, <3>3, <3>4 DEF Next
  <2>8. clocked[v].counter # 0 BY <2>5, <2>6 DEF Moved
  <2>9. Synced(clocked, v) BY <2>7, <2>8 DEF Phase2
  <2>10. clocked[s].rising BY <2>9 DEF Synced
  <2>11. SUFFICES ASSUME ~ voice[s].test PROVE Rises(s) OBVIOUS
  <2>12. voice[s].counter < Msb /\ (voice[s].counter + voice[s].freq) % Full >= Msb
    BY <2>5, <2>10, <2>11 DEF Moved
  <2>13. voice[s].counter + voice[s].freq >= Msb
    <3>1. voice[s].counter + voice[s].freq \in Nat
      BY <2>1, <2>2, Sizes DEF AllInv, VoiceInv, Good
    <3>2. \A n \in Nat : n % Full <= n BY Sizes
    <3>3. Msb \in Int BY Sizes DEF Msb
    <3>4. \A n \in Nat : n % Full \in Int BY Sizes
    <3>5. QED BY <2>12, <3>1, <3>2, <3>3, <3>4
  <2>14. QED BY <2>11, <2>12, <2>13 DEF Rises
<1>2. IInv /\ [Next]_vars =>
        [\A v \in Voices : SetBack(v) => Rises(Prev(v)) \/ voice[Prev(v)].test]_vars
  BY <1>1
<1>3. QED BY InductiveInvariant, <1>2, PTL DEF Spec, SyncFollowsSource

=============================================================================

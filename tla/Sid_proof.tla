------------------------------ MODULE Sid_proof ------------------------------
(***************************************************************************)
(* Proofs about the SID chips, for all headers and all songs: what the     *)
(* detectors of sample playback take for a sample, and that a write        *)
(* reaches the chip whose address it names.  The second part is about a    *)
(* chip's envelope generators, for every table of rates and delays and     *)
(* every width of the counters.                                            *)
(***************************************************************************)
EXTENDS MCSid, Envelope, FiniteSetTheorems, TLAPS

DigiFields == {"used", "source", "count", "sample", "src", "fm", "freq", "pulse", "swallow"}
Used == {"none", "FM", "PWMTest", "PWM", "D418", "Mahoney"}
FreqMachine == [state : {"idle", "prep", "set", "variant1", "variant2"}, age : 0..Stale]
PulseMachine == [state : {"idle", "prep", "prep2", "confirm", "confirm2"}, age : 0..Stale,
                 width : Bytes]

Counts == 0..(CountSize - 1)
CountsFM == 0..(CountSizeFM - 1)

DigiShape(d) == d = [f \in DigiFields |-> d[f]]

DigiTyped(d) ==
  /\ DigiShape(d)
  /\ d.used \in Used /\ d.source \in -1..3 /\ d.count \in Counts
  /\ d.sample \in Bytes /\ d.src \in 0..3 /\ d.fm \in CountsFM
  /\ d.freq \in [DigiVoices -> FreqMachine] /\ d.pulse \in [DigiVoices -> PulseMachine]
  /\ d.swallow \in [DigiVoices -> 0..3]

(* The source that goes with each kind of sample.                          *)
Sourced(d) == /\ d.used \in {"D418", "Mahoney"} => d.source = 0
              /\ d.used = "PWMTest" => d.source > 0

DigiOK(d) == DigiTyped(d) /\ Sourced(d)

(* What e has in common with d.                                            *)
SameSamples(d, e) ==
  /\ e.used = d.used /\ e.source = d.source /\ e.count = d.count
  /\ e.sample = d.sample /\ e.src = d.src /\ e.fm = d.fm
SameFreq(d, e) == e.freq = d.freq /\ e.fm = d.fm
SamePulse(d, e) == e.pulse = d.pulse
-----------------------------------------------------------------------------
(* The frequency technique.                                                *)
TriOn(value) == Tri(value) /\ Gate(value) /\ ~ Test(value)
TestOn(value) == Test(value) /\ ~ Tri(value)

FreqMoves(old, new, reg, value) ==
  \/ new.state = "idle"
  \/ reg = 4 /\ TriOn(value) /\ new = [state |-> "prep", age |-> 0]
  \/ /\ reg = 4 /\ TestOn(value) /\ old.state = "prep" /\ old.age < FreqTimeout0
     /\ new = [state |-> "set", age |-> 4]
  \/ /\ ~ (reg = 4 /\ (TriOn(value) \/ TestOn(value)))
     /\ \/ new = old
        \/ /\ old.state = "set" /\ old.age < FreqTimeout
           /\ new \in {[state |-> "variant1", age |-> old.age], [state |-> "variant2", age |-> 0]}

LEMMA FreqSet ==
  ASSUME NEW d, DigiOK(d), NEW v \in DigiVoices, NEW m \in FreqMachine
  PROVE  LET e == [d EXCEPT !.freq[v] = m]
         IN  /\ DigiOK(e) /\ SameSamples(d, e) /\ SamePulse(d, e) /\ e.freq[v] = m
             /\ e.swallow = d.swallow
             /\ \A u \in DigiVoices \ {v} : e.freq[u] = d.freq[u]
<1> DEFINE e == [d EXCEPT !.freq[v] = m]
<1>1. /\ DigiShape(e) /\ SameSamples(d, e) /\ SamePulse(d, e) /\ e.swallow = d.swallow
      /\ e.freq = [d.freq EXCEPT ![v] = m]
  BY DEF DigiOK, DigiTyped, Sourced, DigiShape, DigiFields, SameSamples, SamePulse
<1> HIDE DEF e
<1>2. /\ e.freq \in [DigiVoices -> FreqMachine] /\ e.freq[v] = m
      /\ \A u \in DigiVoices \ {v} : e.freq[u] = d.freq[u]
  BY <1>1 DEF DigiOK, DigiTyped, Sourced
<1>3. DigiOK(e) BY <1>1, <1>2 DEF DigiOK, DigiTyped, Sourced, SameSamples, SamePulse
<1>4. QED BY <1>1, <1>2, <1>3 DEF e

LEMMA FreqStateIs ==
  ASSUME NEW d, DigiOK(d), NEW v \in DigiVoices, NEW state
  PROVE  /\ FreqState(d, v, state) = [d EXCEPT !.freq[v] = [state |-> state, age |-> d.freq[v].age]]
         /\ \A age : FreqAt(d, v, state, age) = [d EXCEPT !.freq[v] = [state |-> state, age |-> age]]
<1>1. d.freq[v] = [state |-> d.freq[v].state, age |-> d.freq[v].age]
  BY DEF DigiOK, DigiTyped, Sourced, FreqMachine
<1>2. [d.freq EXCEPT ![v].state = state]
        = [d.freq EXCEPT ![v] = [state |-> state, age |-> d.freq[v].age]]
  BY <1>1 DEF DigiOK, DigiTyped, Sourced
<1>3. QED BY <1>2 DEF FreqState, FreqAt

LEMMA CountedType ==
  /\ 0 \in Counts /\ \A n \in Counts : n \in Nat /\ Counted(n) \in Counts
  /\ 0 \in CountsFM /\ \A n \in CountsFM : n \in Nat /\ CountedFM(n) \in CountsFM
<1>1. \A size \in Nat \ {0} : \A n \in 0..(size - 1) :
        0 \in 0..(size - 1) /\ n \in Nat /\ (n + 1) % size \in 0..(size - 1)
  OBVIOUS
<1>2. CountSize \in Nat \ {0} /\ 0 \in 0..(CountSize - 1) BY DEF CountSize
<1>3. CountSizeFM \in Nat \ {0} /\ 0 \in 0..(CountSizeFM - 1) BY DEF CountSizeFM
<1>4. QED BY <1>1, <1>2, <1>3 DEF Counts, CountsFM, Counted, CountedFM

LEMMA RecordFreqIs ==
  ASSUME NEW d, DigiOK(d), NEW v \in DigiVoices, NEW f, f = RecordFreq(d, v)
  PROVE  /\ DigiOK(f.digi) /\ SamePulse(d, f.digi) /\ f.mutes = {} /\ f.done
         /\ f.digi.used = "FM" /\ f.digi.src = v + 1
         /\ f.digi.freq[v].state = "idle"
         /\ \A u \in DigiVoices \ {v} : f.digi.freq[u] = d.freq[u]
<1> DEFINE m == [state |-> "idle", age |-> Stale]
           x == [d EXCEPT !.freq[v] = m]
           y == [x EXCEPT !.src = v + 1, !.count = Counted(@), !.used = "FM", !.fm = CountedFM(@)]
<1>1. m \in FreqMachine BY DEF FreqMachine, Stale, FreqTimeout0
<1>2. FreqAt(d, v, "idle", Stale) = x BY FreqStateIs
<1>3. f.digi = y /\ f.mutes = {} /\ f.done BY <1>2 DEF RecordFreq, Result
<1>4. /\ DigiOK(x) /\ SamePulse(d, x) /\ x.freq[v] = m
      /\ \A u \in DigiVoices \ {v} : x.freq[u] = d.freq[u]
  BY <1>1, FreqSet
<1> HIDE DEF x
<1>5. /\ DigiShape(y) /\ y.used = "FM" /\ y.src = v + 1 /\ y.count = Counted(x.count)
      /\ y.fm = CountedFM(x.fm) /\ y.source = x.source /\ y.sample = x.sample
      /\ y.freq = x.freq /\ y.pulse = x.pulse /\ y.swallow = x.swallow
  BY <1>4 DEF DigiOK, DigiTyped, Sourced, DigiShape, DigiFields
<1> HIDE DEF y
<1>6. v + 1 \in 0..3 BY DEF DigiVoices
<1>7. DigiOK(y) BY <1>4, <1>5, <1>6, CountedType DEF DigiOK, DigiTyped, Sourced, Used
<1>8. QED BY <1>3, <1>4, <1>5, <1>7 DEF SamePulse

LEMMA FreqHandled ==
  ASSUME NEW d, DigiOK(d), NEW v \in DigiVoices, NEW reg, NEW value,
         NEW f, f = HandleFreq(d, v, reg, value)
  PROVE  /\ DigiOK(f.digi) /\ SamePulse(d, f.digi) /\ f.mutes = {}
         /\ \A u \in DigiVoices \ {v} : f.digi.freq[u] = d.freq[u]
         /\ FreqMoves(d.freq[v], f.digi.freq[v], reg, value)
         /\ IF f.done
            THEN /\ reg \in {1, 4} /\ f.digi.used = "FM" /\ f.digi.src = v + 1
                 /\ d.freq[v].state \in {"variant1", "variant2"} /\ d.freq[v].age < FreqTimeout
            ELSE SameSamples(d, f.digi)
<1> DEFINE old == d.freq[v]
<1>0. old \in FreqMachine BY DEF DigiOK, DigiTyped, Sourced
<1>1. /\ old.age \in 0..Stale
      /\ [state |-> "prep", age |-> 0] \in FreqMachine /\ [state |-> "set", age |-> 4] \in FreqMachine
      /\ [state |-> "variant2", age |-> 0] \in FreqMachine
      /\ [state |-> "variant1", age |-> old.age] \in FreqMachine
      /\ [state |-> "idle", age |-> old.age] \in FreqMachine
  BY <1>0 DEF FreqMachine, Stale, FreqTimeout0
(* The transitions: to another state, to the same one, and with a sample.  *)
<1>2. ASSUME NEW m \in FreqMachine, f = Undone([d EXCEPT !.freq[v] = m]),
             FreqMoves(old, m, reg, value)
      PROVE  /\ DigiOK(f.digi) /\ SamePulse(d, f.digi) /\ f.mutes = {}
             /\ \A u \in DigiVoices \ {v} : f.digi.freq[u] = d.freq[u]
             /\ FreqMoves(old, f.digi.freq[v], reg, value)
             /\ ~ f.done /\ SameSamples(d, f.digi)
  <2> DEFINE e == [d EXCEPT !.freq[v] = m]
  <2>1. f.digi = e /\ f.mutes = {} /\ f.done = FALSE BY <1>2 DEF Undone, Result
  <2>2. /\ DigiOK(e) /\ SameSamples(d, e) /\ SamePulse(d, e) /\ e.freq[v] = m
        /\ \A u \in DigiVoices \ {v} : e.freq[u] = d.freq[u]
    BY <1>2, FreqSet
  <2> HIDE DEF e
  <2>3. QED BY <1>2, <2>1, <2>2
<1>3. ASSUME f = Undone(d), ~ (reg = 4 /\ (TriOn(value) \/ TestOn(value)))
      PROVE  /\ DigiOK(f.digi) /\ SamePulse(d, f.digi) /\ f.mutes = {}
             /\ \A u \in DigiVoices \ {v} : f.digi.freq[u] = d.freq[u]
             /\ FreqMoves(old, f.digi.freq[v], reg, value)
             /\ ~ f.done /\ SameSamples(d, f.digi)
  <2>1. f.digi = d /\ f.mutes = {} /\ f.done = FALSE BY <1>3 DEF Undone, Result
  <2>2. FreqMoves(old, old, reg, value) BY <1>3 DEF FreqMoves
  <2>3. QED BY <2>1, <2>2 DEF SameSamples, SamePulse
<1>4. ASSUME f = RecordFreq(d, v), reg \in {1, 4}, old.age < FreqTimeout,
             old.state \in {"variant1", "variant2"}
      PROVE  /\ DigiOK(f.digi) /\ SamePulse(d, f.digi) /\ f.mutes = {}
             /\ \A u \in DigiVoices \ {v} : f.digi.freq[u] = d.freq[u]
             /\ FreqMoves(old, f.digi.freq[v], reg, value)
             /\ f.done /\ f.digi.used = "FM" /\ f.digi.src = v + 1
  BY <1>4, RecordFreqIs DEF FreqMoves
<1>5. /\ FreqState(d, v, "idle") = [d EXCEPT !.freq[v] = [state |-> "idle", age |-> old.age]]
      /\ FreqState(d, v, "variant1") = [d EXCEPT !.freq[v] = [state |-> "variant1", age |-> old.age]]
      /\ FreqAt(d, v, "prep", 0) = [d EXCEPT !.freq[v] = [state |-> "prep", age |-> 0]]
      /\ FreqAt(d, v, "set", 4) = [d EXCEPT !.freq[v] = [state |-> "set", age |-> 4]]
      /\ FreqAt(d, v, "variant2", 0) = [d EXCEPT !.freq[v] = [state |-> "variant2", age |-> 0]]
  BY FreqStateIs
<1>6. \/ f = Undone(FreqState(d, v, "idle"))
      \/ f = Undone(FreqAt(d, v, "prep", 0)) /\ reg = 4 /\ TriOn(value)
      \/ /\ f = Undone(FreqAt(d, v, "set", 4)) /\ reg = 4 /\ TestOn(value)
         /\ old.state = "prep" /\ old.age < FreqTimeout0
      \/ /\ f = Undone(FreqState(d, v, "variant1")) \/ f = Undone(FreqAt(d, v, "variant2", 0))
         /\ old.state = "set" /\ old.age < FreqTimeout
         /\ ~ (reg = 4 /\ (TriOn(value) \/ TestOn(value)))
      \/ /\ f = RecordFreq(d, v) /\ reg \in {1, 4} /\ old.age < FreqTimeout
         /\ old.state \in {"variant1", "variant2"}
      \/ f = Undone(d) /\ ~ (reg = 4 /\ (TriOn(value) \/ TestOn(value)))
  BY DEF HandleFreq, TriOn, TestOn
<1>7. QED BY <1>1, <1>2, <1>3, <1>4, <1>5, <1>6 DEF FreqMoves
-----------------------------------------------------------------------------
(* The pulse width technique.                                              *)
LEMMA PulseSet ==
  ASSUME NEW d, DigiOK(d), NEW v \in DigiVoices, NEW m \in PulseMachine
  PROVE  LET e == [d EXCEPT !.pulse[v] = m]
         IN  /\ DigiOK(e) /\ SameSamples(d, e) /\ SameFreq(d, e) /\ e.pulse[v] = m
             /\ e.swallow = d.swallow
             /\ \A u \in DigiVoices \ {v} : e.pulse[u] = d.pulse[u]
<1> DEFINE e == [d EXCEPT !.pulse[v] = m]
<1>1. /\ DigiShape(e) /\ SameSamples(d, e) /\ SameFreq(d, e) /\ e.swallow = d.swallow
      /\ e.pulse = [d.pulse EXCEPT ![v] = m]
  BY DEF DigiOK, DigiTyped, DigiShape, DigiFields, SameSamples, SameFreq
<1> HIDE DEF e
<1>2. /\ e.pulse \in [DigiVoices -> PulseMachine] /\ e.pulse[v] = m
      /\ \A u \in DigiVoices \ {v} : e.pulse[u] = d.pulse[u]
  BY <1>1 DEF DigiOK, DigiTyped
<1>3. DigiOK(e) BY <1>1, <1>2 DEF DigiOK, DigiTyped, Sourced, SameSamples, SameFreq
<1>4. QED BY <1>1, <1>2, <1>3 DEF e

At(state, age, width) == [state |-> state, age |-> age, width |-> width]

PulseGoes(d, v, state) == [d EXCEPT !.pulse[v].state = state]
PulseWidth(d, v, state, value) == [PulseAt(d, v, state) EXCEPT !.pulse[v].width = value]
PulseBecomes(d, v, m) == [d EXCEPT !.pulse[v] = m]

LEMMA PulseStateIs ==
  ASSUME NEW d, DigiOK(d), NEW v \in DigiVoices, NEW state, NEW value
  PROVE  /\ PulseGoes(d, v, state)
              = PulseBecomes(d, v, At(state, d.pulse[v].age, d.pulse[v].width))
         /\ PulseAt(d, v, state) = PulseBecomes(d, v, At(state, 0, d.pulse[v].width))
         /\ PulseWidth(d, v, state, value) = PulseBecomes(d, v, At(state, 0, value))
<1> DEFINE old == d.pulse[v]
<1>1. /\ d.pulse = [u \in DigiVoices |-> d.pulse[u]]
      /\ old = At(old.state, old.age, old.width)
  BY DEF DigiOK, DigiTyped, PulseMachine, At
<1>2. \A x, a, w, y : /\ [At(x, a, w) EXCEPT !.state = y] = At(y, a, w)
                       /\ [At(x, a, w) EXCEPT !.age = y] = At(x, y, w)
                       /\ [At(x, a, w) EXCEPT !.width = y] = At(x, a, y)
  BY DEF At
<1>3. PulseAt(d, v, state) = [d EXCEPT !.pulse[v] = At(state, 0, old.width)]
  <2> DEFINE x == [d EXCEPT !.pulse[v] = At(state, old.age, old.width)]
             y == [x EXCEPT !.pulse[v].age = 0]
             z == [d EXCEPT !.pulse[v] = At(state, 0, old.width)]
             Others(e) == /\ DigiShape(e) /\ SameSamples(d, e) /\ e.freq = d.freq
                          /\ e.swallow = d.swallow
  <2>1. [d EXCEPT !.pulse[v].state = state] = x
    BY <1>1, <1>2 DEF DigiOK, DigiTyped, DigiShape, DigiFields
  <2>2. PulseAt(d, v, state) = y BY <2>1 DEF PulseAt
  <2>3. Others(x) /\ x.pulse = [d.pulse EXCEPT ![v] = At(state, old.age, old.width)]
    BY DEF DigiOK, DigiTyped, DigiShape, DigiFields, SameSamples
  <2>4. Others(z) /\ z.pulse = [d.pulse EXCEPT ![v] = At(state, 0, old.width)]
    BY DEF DigiOK, DigiTyped, DigiShape, DigiFields, SameSamples
  <2> HIDE DEF x, z
  <2>5. Others(y) /\ y.pulse = [x.pulse EXCEPT ![v].age = 0]
    BY <2>3 DEF DigiShape, DigiFields, SameSamples
  <2> HIDE DEF y
  <2>6. y.pulse = z.pulse
    <3>1. x.pulse = [u \in DigiVoices |-> IF u = v THEN At(state, old.age, old.width)
                                          ELSE d.pulse[u]]
      BY <1>1, <2>3
    <3>2. y.pulse = [u \in DigiVoices |-> IF u = v THEN [x.pulse[v] EXCEPT !.age = 0]
                                          ELSE x.pulse[u]]
      BY <2>5, <3>1
    <3>3. x.pulse[v] = At(state, old.age, old.width) BY <3>1
    <3>4. [x.pulse[v] EXCEPT !.age = 0] = At(state, 0, old.width) BY <1>2, <3>3
    <3>5. z.pulse = [u \in DigiVoices |-> IF u = v THEN At(state, 0, old.width)
                                          ELSE d.pulse[u]]
      BY <1>1, <2>4
    <3>6. QED BY <3>1, <3>2, <3>4, <3>5
  <2>7. y = z BY <2>4, <2>5, <2>6 DEF DigiShape, DigiFields, SameSamples
  <2>8. QED BY <2>2, <2>7 DEF z
<1>4. QED BY <1>1, <1>2, <1>3 DEF DigiOK, DigiTyped, DigiShape, DigiFields, PulseGoes, PulseWidth,
                                  PulseBecomes

LEMMA SameSourceIs ==
  ASSUME NEW d, DigiOK(d), NEW source \in 0..3, NEW s, s = SameSource(d, source)
  PROVE  /\ DigiTyped(s.digi) /\ SamePulse(d, s.digi) /\ SameFreq(d, s.digi)
         /\ s.digi.swallow = d.swallow /\ s.digi.used = d.used
         /\ s.digi.source = IF s.ok /\ (source = 0 \/ d.source <= 0) THEN source ELSE d.source
         /\ s.digi.count <= d.count
         /\ source > 0 => s.digi.source > 0
         /\ ~ s.ok => s.digi = d
<1> DEFINE x == [d EXCEPT !.source = source]
           y == [d EXCEPT !.source = source, !.count = 0]
           At0(e) == /\ DigiShape(e) /\ SamePulse(d, e) /\ SameFreq(d, e) /\ e.swallow = d.swallow
                     /\ e.used = d.used /\ e.sample = d.sample /\ e.src = d.src
                     /\ e.source = source
<1>1. At0(x) /\ x.count = d.count /\ At0(y) /\ y.count = 0
  BY DEF DigiOK, DigiTyped, DigiShape, DigiFields, SamePulse, SameFreq
<1>2. \/ /\ s = [digi |-> d, ok |-> TRUE] /\ d.source = source
      \/ s = [digi |-> x, ok |-> TRUE] /\ d.source = Unused
      \/ s = [digi |-> d, ok |-> FALSE] /\ source = 0 /\ d.source \notin {0, Unused}
      \/ s = [digi |-> y, ok |-> TRUE] /\ d.source = 0 /\ source # 0
      \/ /\ s = [digi |-> d, ok |-> d.used # "FM"] /\ source # 0
         /\ d.source \notin {0, Unused, source}
  BY DEF SameSource
<1> HIDE DEF x, y
<1>3. DigiTyped(x) /\ DigiTyped(y)
  BY <1>1, CountedType DEF DigiOK, DigiTyped, SamePulse, SameFreq
<1>4. d.source \in -1..3 /\ d.count \in Nat
  BY CountedType DEF DigiOK, DigiTyped
<1>5. CASE s = [digi |-> x, ok |-> TRUE] /\ d.source = Unused
  BY <1>1, <1>3, <1>4, <1>5 DEF Unused
<1>6. CASE s = [digi |-> y, ok |-> TRUE] /\ d.source = 0 /\ source # 0
  BY <1>1, <1>3, <1>4, <1>6
<1>7. CASE s.digi = d /\ (d.source = source \/ d.source \notin {0, Unused}) /\ (source = 0 /\ s.ok => d.source = 0)
  BY <1>4, <1>7 DEF DigiOK, SamePulse, SameFreq, Unused
<1>8. QED BY <1>2, <1>5, <1>6, <1>7

RecordPWMIs(d, e, v, sample) ==
  /\ DigiTyped(e) /\ SamePulse(d, e) /\ SameFreq(d, e) /\ e.swallow = d.swallow
  /\ e.used = d.used /\ e.source = d.source /\ e.sample = sample /\ e.src = v + 1

LEMMA RecordedPWM ==
  ASSUME NEW d, DigiTyped(d), NEW v \in DigiVoices, NEW sample \in Bytes
  PROVE  RecordPWMIs(d, RecordPWM(d, v, sample), v, sample)
<1> DEFINE e == [d EXCEPT !.sample = sample, !.src = v + 1, !.count = Counted(@)]
<1>1. /\ DigiShape(e) /\ SamePulse(d, e) /\ SameFreq(d, e) /\ e.swallow = d.swallow
      /\ e.used = d.used /\ e.source = d.source /\ e.sample = sample /\ e.src = v + 1
      /\ e.count = Counted(d.count)
  BY DEF DigiTyped, DigiShape, DigiFields, SamePulse, SameFreq
<1>2. RecordPWM(d, v, sample) = e BY DEF RecordPWM
<1> HIDE DEF e
<1>3. v + 1 \in 0..3 BY DEF DigiVoices
<1>4. DigiTyped(e) BY <1>1, <1>3, CountedType DEF DigiTyped, SamePulse, SameFreq
<1>5. QED BY <1>1, <1>2, <1>4 DEF RecordPWMIs

LEMMA RecordPulseIs ==
  ASSUME NEW d, DigiOK(d), NEW v \in DigiVoices, NEW sample \in Bytes,
         NEW e, e = RecordPulse(d, v, sample)
  PROVE  /\ DigiOK(e) /\ SameFreq(d, e) /\ e.swallow = d.swallow /\ e.used = "PWMTest"
         /\ e.pulse[v].state = "idle"
         /\ \A u \in DigiVoices \ {v} : e.pulse[u] = d.pulse[u]
         /\ e.count > d.count => e.src = v + 1 /\ e.sample = sample
<1> DEFINE s == SameSource(d, v + 1)
           x == IF s.ok THEN RecordPWM(s.digi, v, sample) ELSE s.digi
           width == d.pulse[v].width
           y == [x EXCEPT !.pulse[v] = At("idle", Stale, width)]
           z == [y EXCEPT !.used = "PWMTest"]
<1>0. v + 1 \in 0..3 /\ v + 1 > 0 BY DEF DigiVoices
<1>1. /\ DigiTyped(s.digi) /\ SamePulse(d, s.digi) /\ SameFreq(d, s.digi)
      /\ s.digi.swallow = d.swallow /\ s.digi.used = d.used
      /\ s.digi.count <= d.count /\ s.digi.source > 0
      /\ ~ s.ok => s.digi = d
  BY <1>0, SameSourceIs
<1> HIDE DEF s
<1>2. RecordPWMIs(s.digi, RecordPWM(s.digi, v, sample), v, sample) BY <1>1, RecordedPWM
<1>3. /\ DigiTyped(x) /\ SamePulse(d, x) /\ SameFreq(d, x) /\ x.swallow = d.swallow
      /\ x.source > 0
      /\ x.count > d.count => x.src = v + 1 /\ x.sample = sample
  <2>1. CASE s.ok
    <3>1. x = RecordPWM(s.digi, v, sample) BY <2>1
    <3> HIDE DEF x
    <3>2. QED BY <1>1, <1>2, <3>1 DEF RecordPWMIs, SamePulse, SameFreq
  <2>2. CASE ~ s.ok
    <3>1. x = d BY <1>1, <2>2
    <3> HIDE DEF x
    <3>2. d.count \in Int BY CountedType DEF DigiOK, DigiTyped
    <3>3. QED BY <1>1, <2>2, <3>1, <3>2
  <2>3. QED BY <2>1, <2>2
<1>4. e = [x EXCEPT !.pulse[v].state = "idle", !.pulse[v].age = Stale, !.used = "PWMTest"]
  BY DEF RecordPulse, s
<1> HIDE DEF x
<1>5. /\ DigiShape(e) /\ e.used = "PWMTest" /\ e.source = x.source /\ e.count = x.count
      /\ e.sample = x.sample /\ e.src = x.src /\ e.freq = x.freq /\ e.swallow = x.swallow
      /\ e.fm = x.fm
  BY <1>3, <1>4 DEF DigiTyped, DigiShape, DigiFields
<1>6. e.pulse = [d.pulse EXCEPT ![v] = At("idle", Stale, width)]
  <2>1. /\ x.pulse = [u \in DigiVoices |-> d.pulse[u]]
        /\ d.pulse[v] = At(d.pulse[v].state, d.pulse[v].age, width)
    BY <1>3 DEF DigiOK, DigiTyped, PulseMachine, At, SamePulse
  <2>2. \A a, b, w, k : /\ [At(a, b, w) EXCEPT !.state = k] = At(k, b, w)
                        /\ [At(a, b, w) EXCEPT !.age = k] = At(a, k, w)
    BY DEF At
  <2> DEFINE one == [x EXCEPT !.pulse[v].state = "idle"]
             two == [one EXCEPT !.pulse[v].age = Stale]
  <2>3. e = [two EXCEPT !.used = "PWMTest"] BY <1>4
  <2>4. DigiShape(one) /\ one.pulse = [x.pulse EXCEPT ![v].state = "idle"]
    BY <1>3 DEF DigiTyped, DigiShape, DigiFields
  <2> HIDE DEF one
  <2>5. DigiShape(two) /\ two.pulse = [one.pulse EXCEPT ![v].age = Stale]
    BY <2>4 DEF DigiShape, DigiFields
  <2> HIDE DEF two
  <2>6. e.pulse = two.pulse BY <2>3, <2>5 DEF DigiShape, DigiFields
  <2>7. one.pulse = [u \in DigiVoices |-> IF u = v THEN [d.pulse[v] EXCEPT !.state = "idle"]
                                          ELSE d.pulse[u]]
    BY <2>1, <2>4
  <2>8. one.pulse[v] = At("idle", d.pulse[v].age, width) BY <2>1, <2>2, <2>7
  <2>9. two.pulse = [u \in DigiVoices |-> IF u = v THEN [one.pulse[v] EXCEPT !.age = Stale]
                                          ELSE one.pulse[u]]
    BY <2>5, <2>7
  <2>10. [one.pulse[v] EXCEPT !.age = Stale] = At("idle", Stale, width) BY <2>2, <2>8
  <2>11. QED BY <2>1, <2>6, <2>7, <2>9, <2>10 DEF DigiOK, DigiTyped
<1>7. /\ e.pulse \in [DigiVoices -> PulseMachine] /\ e.pulse[v].state = "idle"
      /\ \A u \in DigiVoices \ {v} : e.pulse[u] = d.pulse[u]
  <2>1. At("idle", Stale, width) \in PulseMachine
    BY DEF At, PulseMachine, DigiOK, DigiTyped, Stale, FreqTimeout0
  <2>2. At("idle", Stale, width).state = "idle" BY DEF At
  <2>3. QED BY <1>6, <2>1, <2>2 DEF DigiOK, DigiTyped
<1>8. DigiOK(e) BY <1>3, <1>5, <1>7 DEF DigiOK, DigiTyped, Sourced, Used
<1>9. QED BY <1>3, <1>5, <1>7, <1>8 DEF SameFreq

Sure == {"prep", "confirm", "confirm2"}
Known(d, v, w) == d.pulse[v].state \in Sure => d.pulse[v].width = w

LEMMA PulseHandled ==
  ASSUME NEW d, DigiOK(d), NEW v \in DigiVoices, NEW reg, NEW value \in Bytes,
         NEW p, p = HandlePulse(d, v, reg, value)
  PROVE  /\ DigiOK(p.digi) /\ SameFreq(d, p.digi) /\ p.mutes \subseteq {v}
         /\ \A u \in DigiVoices \ {v} : p.digi.pulse[u] = d.pulse[u]
         /\ \A w : Known(d, v, w) => Known(p.digi, v, IF reg = 2 THEN value ELSE w)
         /\ IF p.done
            THEN /\ reg = 4 /\ d.pulse[v].state \in {"confirm", "confirm2"}
                 /\ p.digi.used = "PWMTest"
                 /\ p.digi.count > d.count =>
                      p.digi.src = v + 1 /\ p.digi.sample = d.pulse[v].width
            ELSE SameSamples(d, p.digi)
<1> DEFINE old == d.pulse[v]
<1>0. old \in PulseMachine BY DEF DigiOK, DigiTyped
<1>1. old.age \in 0..Stale /\ old.width \in Bytes BY <1>0 DEF PulseMachine
<1>2. ASSUME NEW m \in PulseMachine, p = Undone(PulseBecomes(d, v, m)),
             m.state \in Sure => m.width = IF reg = 2 THEN value ELSE old.width,
             m.state \in Sure /\ reg # 2 => old.state \in Sure
      PROVE  /\ DigiOK(p.digi) /\ SameFreq(d, p.digi) /\ p.mutes \subseteq {v}
             /\ \A u \in DigiVoices \ {v} : p.digi.pulse[u] = d.pulse[u]
             /\ \A w : Known(d, v, w) => Known(p.digi, v, IF reg = 2 THEN value ELSE w)
             /\ ~ p.done /\ SameSamples(d, p.digi)
  <2> DEFINE e == [d EXCEPT !.pulse[v] = m]
  <2>1. p.digi = e /\ p.mutes = {} /\ p.done = FALSE BY <1>2 DEF Undone, Result, PulseBecomes
  <2>2. /\ DigiOK(e) /\ SameSamples(d, e) /\ SameFreq(d, e) /\ e.pulse[v] = m
        /\ \A u \in DigiVoices \ {v} : e.pulse[u] = d.pulse[u]
    BY <1>2, PulseSet
  <2> HIDE DEF e
  <2>3. \A w : Known(d, v, w) => Known(e, v, IF reg = 2 THEN value ELSE w)
    BY <1>2, <2>2 DEF Known
  <2>4. QED BY <2>1, <2>2, <2>3
<1>3. \A state \in {"idle", "prep", "prep2", "confirm", "confirm2"} :
        /\ At(state, old.age, old.width) \in PulseMachine /\ At(state, 0, old.width) \in PulseMachine
        /\ At(state, 0, value) \in PulseMachine
  BY <1>1 DEF At, PulseMachine, Stale, FreqTimeout0
<1>4. CASE p = Undone(d) /\ reg # 2
  <2>1. p.digi = d /\ p.mutes = {} /\ p.done = FALSE BY <1>4 DEF Undone, Result
  <2>2. QED BY <1>4, <2>1 DEF SameFreq, SameSamples
<1>5. CASE p = Undone(PulseGoes(d, v, "idle"))
  <2>1. p = Undone(PulseBecomes(d, v, At("idle", old.age, old.width)))
    BY <1>5, PulseStateIs
  <2>2. At("idle", old.age, old.width).state \notin Sure BY DEF At, Sure
  <2>3. At("idle", old.age, old.width) \in PulseMachine BY <1>3
  <2>4. QED BY <1>2, <2>1, <2>2, <2>3
<1>6. ASSUME NEW state \in {"confirm", "prep2"}, p = Undone(PulseAt(d, v, state)),
             reg = 4, state = "confirm" => old.state = "prep"
      PROVE  /\ DigiOK(p.digi) /\ SameFreq(d, p.digi) /\ p.mutes \subseteq {v}
             /\ \A u \in DigiVoices \ {v} : p.digi.pulse[u] = d.pulse[u]
             /\ \A w : Known(d, v, w) => Known(p.digi, v, IF reg = 2 THEN value ELSE w)
             /\ ~ p.done /\ SameSamples(d, p.digi)
  <2>1. p = Undone(PulseBecomes(d, v, At(state, 0, old.width)))
    BY <1>6, PulseStateIs
  <2>2. At(state, 0, old.width).state = state /\ At(state, 0, old.width).width = old.width
    BY DEF At
  <2>3. At(state, 0, old.width) \in PulseMachine BY <1>3, <1>6
  <2>4. QED BY <1>2, <1>6, <2>1, <2>2, <2>3 DEF Sure
<1>7. ASSUME NEW state \in {"confirm2", "prep"}, reg = 2,
             p = Undone(PulseWidth(d, v, state, value))
      PROVE  /\ DigiOK(p.digi) /\ SameFreq(d, p.digi) /\ p.mutes \subseteq {v}
             /\ \A u \in DigiVoices \ {v} : p.digi.pulse[u] = d.pulse[u]
             /\ \A w : Known(d, v, w) => Known(p.digi, v, IF reg = 2 THEN value ELSE w)
             /\ ~ p.done /\ SameSamples(d, p.digi)
  <2>1. p = Undone(PulseBecomes(d, v, At(state, 0, value)))
    BY <1>7, PulseStateIs
  <2>2. At(state, 0, value).state = state /\ At(state, 0, value).width = value
    BY DEF At
  <2>3. At(state, 0, value) \in PulseMachine BY <1>3, <1>7
  <2>4. QED BY <1>2, <1>7, <2>1, <2>2, <2>3
<1>8. CASE /\ p = Result(RecordPulse(d, v, old.width), {v}, TRUE) /\ reg = 4
           /\ old.state \in {"confirm", "confirm2"}
  <2> DEFINE e == RecordPulse(d, v, old.width)
  <2>1. p.digi = e /\ p.mutes = {v} /\ p.done = TRUE BY <1>8 DEF Result
  <2>2. /\ DigiOK(e) /\ SameFreq(d, e) /\ e.used = "PWMTest"
        /\ e.pulse[v].state = "idle"
        /\ \A u \in DigiVoices \ {v} : e.pulse[u] = d.pulse[u]
        /\ e.count > d.count => e.src = v + 1 /\ e.sample = old.width
    BY <1>1, RecordPulseIs
  <2> HIDE DEF e
  <2>3. QED BY <1>8, <2>1, <2>2 DEF Known, Sure
<1>9. \/ p = Undone(d) /\ reg # 2
      \/ p = Undone(PulseGoes(d, v, "idle"))
      \/ p = Undone(PulseAt(d, v, "confirm")) /\ reg = 4 /\ old.state = "prep"
      \/ p = Undone(PulseAt(d, v, "prep2")) /\ reg = 4
      \/ /\ reg = 2
         /\ \/ p = Undone(PulseWidth(d, v, "confirm2", value))
            \/ p = Undone(PulseWidth(d, v, "prep", value))
      \/ /\ p = Result(RecordPulse(d, v, old.width), {v}, TRUE) /\ reg = 4
         /\ old.state \in {"confirm", "confirm2"}
  BY DEF HandlePulse, PulseGoes, PulseWidth
<1>10. QED BY <1>4, <1>5, <1>6, <1>7, <1>8, <1>9
-----------------------------------------------------------------------------
(* Swallow's technique.                                                    *)
LEMMA SwallowTypes ==
  /\ \A regs, v : SwallowMode(regs, v) \in 0..3
  /\ \A mode, value : value \in Bytes => SwallowSample(mode, value) \in Bytes
<1>1. \A regs, v : SwallowMode(regs, v) \in 0..3 BY DEF SwallowMode
<1>2. ASSUME NEW value \in Bytes PROVE (value % 16) * 17 \in Bytes BY DEF Bytes
<1>3. ASSUME NEW value \in Bytes PROVE ((value * 16) % 256) + value \div 16 \in Bytes BY DEF Bytes
<1>4. QED BY <1>1, <1>2, <1>3 DEF SwallowSample

LEMMA SwallowHandled ==
  ASSUME NEW d, DigiOK(d), NEW regs, NEW v \in DigiVoices, NEW reg, NEW value \in Bytes,
         NEW s, s = HandleSwallow(d, regs, v, reg, value)
  PROVE  /\ DigiOK(s.digi) /\ SameFreq(d, s.digi) /\ SamePulse(d, s.digi) /\ s.mutes \subseteq {v}
         /\ s.digi.count > d.count => s.digi.used = "PWM"
         /\ ~ s.done => SameSamples(d, s.digi)
<1> DEFINE mode == SwallowMode(regs, v)
<1>0. mode \in 0..3 BY SwallowTypes
<1> HIDE DEF mode
<1>1. CASE s = Undone(d)
  <2>1. s.digi = d /\ s.mutes = {} BY <1>1 DEF Undone, Result
  <2>2. d.count \in Int BY CountedType DEF DigiOK, DigiTyped
  <2>3. QED BY <2>1, <2>2 DEF SameFreq, SamePulse, SameSamples
<1>2. CASE s = Result([d EXCEPT !.swallow[v] = mode], {v}, TRUE)
  <2> DEFINE e == [d EXCEPT !.swallow[v] = mode]
  <2>1. s.digi = e /\ s.mutes = {v} /\ s.done = TRUE BY <1>2 DEF Result
  <2>2. /\ DigiShape(e) /\ SameSamples(d, e) /\ SameFreq(d, e) /\ SamePulse(d, e)
        /\ e.swallow = [d.swallow EXCEPT ![v] = mode]
    BY DEF DigiOK, DigiTyped, DigiShape, DigiFields, SameSamples, SameFreq, SamePulse
  <2> HIDE DEF e
  <2>3. e.swallow \in [DigiVoices -> 0..3] BY <1>0, <2>2 DEF DigiOK, DigiTyped
  <2>4. DigiOK(e) BY <2>2, <2>3 DEF DigiOK, DigiTyped, Sourced, SameSamples, SameFreq, SamePulse
  <2>5. d.count \in Int BY CountedType DEF DigiOK, DigiTyped
  <2>6. QED BY <2>1, <2>2, <2>4, <2>5 DEF SameSamples
<1>3. ASSUME NEW x, DigiTyped(x), SameFreq(d, x), SamePulse(d, x),
             s = Result([x EXCEPT !.used = "PWM"], {}, TRUE)
      PROVE  /\ DigiOK(s.digi) /\ SameFreq(d, s.digi) /\ SamePulse(d, s.digi) /\ s.mutes = {}
             /\ s.digi.used = "PWM" /\ s.done
  <2> DEFINE e == [x EXCEPT !.used = "PWM"]
  <2>1. s.digi = e /\ s.mutes = {} /\ s.done = TRUE BY <1>3 DEF Result
  <2>2. /\ DigiShape(e) /\ SameFreq(x, e) /\ SamePulse(x, e) /\ e.used = "PWM"
        /\ e.source = x.source /\ e.count = x.count /\ e.sample = x.sample /\ e.src = x.src
        /\ e.swallow = x.swallow
    BY <1>3 DEF DigiTyped, DigiShape, DigiFields, SameFreq, SamePulse
  <2> HIDE DEF e
  <2>3. DigiOK(e) BY <1>3, <2>2 DEF DigiOK, DigiTyped, Sourced, SameFreq, SamePulse, Used
  <2>4. QED BY <1>3, <2>1, <2>2, <2>3 DEF SameFreq, SamePulse
<1>4. ASSUME NEW sample \in Bytes
      PROVE  /\ DigiTyped(RecordPWM(d, v, sample))
             /\ SameFreq(d, RecordPWM(d, v, sample)) /\ SamePulse(d, RecordPWM(d, v, sample))
  BY RecordedPWM DEF RecordPWMIs, DigiOK
<1>5. SwallowSample(d.swallow[v], value) \in Bytes BY SwallowTypes
<1>6. SameFreq(d, d) /\ SamePulse(d, d) /\ DigiTyped(d) BY DEF SameFreq, SamePulse, DigiOK
<1>7. \/ s = Undone(d)
      \/ s = Result([d EXCEPT !.swallow[v] = mode], {v}, TRUE)
      \/ s = Result([d EXCEPT !.used = "PWM"], {}, TRUE)
      \/ s = Result([RecordPWM(d, v, SwallowSample(d.swallow[v], value)) EXCEPT !.used = "PWM"], {}, TRUE)
  BY DEF HandleSwallow, mode
<1>8. CASE s = Result([d EXCEPT !.used = "PWM"], {}, TRUE) BY <1>3, <1>6, <1>8
<1>9. CASE s = Result([RecordPWM(d, v, SwallowSample(d.swallow[v], value)) EXCEPT !.used = "PWM"], {}, TRUE)
  <2> DEFINE x == RecordPWM(d, v, SwallowSample(d.swallow[v], value))
  <2>1. DigiTyped(x) /\ SameFreq(d, x) /\ SamePulse(d, x) BY <1>4, <1>5
  <2> HIDE DEF x
  <2>2. s = Result([x EXCEPT !.used = "PWM"], {}, TRUE) BY <1>9 DEF x
  <2>3. QED BY <1>3, <2>1, <2>2
<1>10. QED BY <1>1, <1>2, <1>7, <1>8, <1>9
-----------------------------------------------------------------------------
(* The volume register.                                                    *)
LEMMA VolumeHandled ==
  ASSUME NEW d, DigiOK(d), NEW shown, NEW value \in Bytes, NEW e, e = HandleVolume(d, shown, value)
  PROVE  /\ DigiOK(e) /\ SameFreq(d, e) /\ SamePulse(d, e)
         /\ e.count > d.count => e.used \in {"D418", "Mahoney"}
<1> DEFINE s == SameSource(d, 0)
           used == IF IsMahoney(shown) THEN "Mahoney" ELSE "D418"
           sample == IF IsMahoney(shown) THEN value ELSE (value % 16) * 17
           y == [s.digi EXCEPT !.used = used, !.sample = sample, !.src = 0, !.count = Counted(@)]
<1>1. /\ DigiTyped(s.digi) /\ SamePulse(d, s.digi) /\ SameFreq(d, s.digi)
      /\ s.ok => s.digi.source = 0
      /\ ~ s.ok => s.digi = d
  BY SameSourceIs
<1>2. used \in {"D418", "Mahoney"} OBVIOUS
<1>3. sample \in Bytes
  <2>1. (value % 16) * 17 \in Bytes BY DEF Bytes
  <2>2. QED BY <2>1
<1>4. e = IF ~ s.ok THEN s.digi ELSE y BY Zenon DEF HandleVolume
<1> HIDE DEF s, used, sample
<1>5. /\ DigiShape(y) /\ SameFreq(s.digi, y) /\ SamePulse(s.digi, y) /\ y.swallow = s.digi.swallow
      /\ y.used = used /\ y.source = s.digi.source /\ y.sample = sample /\ y.src = 0
      /\ y.count = Counted(s.digi.count)
  BY <1>1 DEF DigiTyped, DigiShape, DigiFields, SameFreq, SamePulse
<1> HIDE DEF y
<1>6. CASE s.ok
  <2>1. s.digi.count \in Counts BY <1>1 DEF DigiTyped
  <2>2. y.count \in Counts BY <1>5, <2>1, CountedType
  <2>3. used \in Used BY <1>2 DEF Used
  <2>4. DigiTyped(y) BY <1>1, <1>3, <1>5, <2>2, <2>3 DEF DigiTyped, SameFreq, SamePulse
  <2>5. Sourced(y) BY <1>1, <1>2, <1>5, <1>6 DEF Sourced
  <2>6. QED BY <1>1, <1>2, <1>4, <1>5, <1>6, <2>4, <2>5 DEF DigiOK, SameFreq, SamePulse
<1>7. CASE ~ s.ok
  <2>1. e = d BY <1>1, <1>4, <1>7
  <2>2. d.count \in Int BY CountedType DEF DigiOK, DigiTyped
  <2>3. QED BY <2>1, <2>2 DEF SameFreq, SamePulse
<1>8. QED BY <1>6, <1>7
-----------------------------------------------------------------------------
(* All detectors.                                                          *)

(* What a write to a register may make of d.                               *)
Detects(d, e, reg, value) ==
  LET v == VoiceOf(reg)
      r == reg - 7 * v
  IN /\ DigiOK(e)
     /\ FreqMoves(d.freq[v], e.freq[v], r, value)
     /\ \A u \in DigiVoices \ {v} : e.freq[u] = d.freq[u]
     /\ \A w : \A u \in DigiVoices : Known(d, u, w) => Known(e, u, IF reg = 7 * u + 2 THEN value ELSE w)
     /\ e.fm > d.fm =>
          /\ e.src = v + 1 /\ r \in {1, 4}
          /\ d.freq[v].state \in {"variant1", "variant2"} /\ d.freq[v].age < FreqTimeout
     /\ e.count > d.count /\ e.used = "PWMTest" =>
          /\ e.src = v + 1 /\ r = 4 /\ e.sample = d.pulse[v].width
          /\ d.pulse[v].state \in {"confirm", "confirm2"}

LEMMA VoiceOfType ==
  \A reg : /\ VoiceOf(reg) \in DigiVoices
           /\ \A u \in DigiVoices : reg = 7 * u + 2 <=> (VoiceOf(reg) = u /\ reg - 7 * VoiceOf(reg) = 2)
           /\ \A u \in DigiVoices : reg = 7 * u + 4 <=> (VoiceOf(reg) = u /\ reg - 7 * VoiceOf(reg) = 4)
PROOF BY DEF VoiceOf, DigiVoices

LEMMA DetectIs ==
  ASSUME NEW d, DigiOK(d), NEW regs, NEW shown, NEW reg \in Registers, NEW value \in Bytes,
         NEW volume, NEW q, q = Detect(d, regs, shown, reg, value, volume)
  PROVE  /\ Detects(d, q.digi, reg, value)
         /\ q.mutes \subseteq 0..3 /\ q.unmutes \subseteq 0..3
<1> DEFINE v == VoiceOf(reg)
           r == reg - 7 * v
           f == HandleFreq(d, v, r, value)
           g == HandlePulse(f.digi, v, r, value)
           s == HandleSwallow(g.digi, regs, v, r, value)
           z == HandleVolume(s.digi, shown, value)
           um == Unmutes(s.digi, shown)
           New(u, w) == IF reg = 7 * u + 2 THEN value ELSE w
<1>0. v \in DigiVoices BY VoiceOfType
<1>1. \/ f.done /\ q = [digi |-> f.digi, mutes |-> f.mutes, unmutes |-> {}]
      \/ ~ f.done /\ g.done /\ q = [digi |-> g.digi, mutes |-> g.mutes, unmutes |-> {}]
      \/ ~ f.done /\ ~ g.done /\ q = [digi |-> s.digi, mutes |-> s.mutes, unmutes |-> {}]
      \/ ~ f.done /\ ~ g.done /\ ~ s.done /\ q = [digi |-> z, mutes |-> {}, unmutes |-> um]
  BY Zenon DEF Detect
<1>2. um \subseteq 0..3 BY DEF Unmutes, DigiVoices
<1> HIDE DEF um
<1>3. /\ DigiOK(f.digi) /\ SamePulse(d, f.digi) /\ f.mutes = {}
      /\ \A u \in DigiVoices \ {v} : f.digi.freq[u] = d.freq[u]
      /\ FreqMoves(d.freq[v], f.digi.freq[v], r, value)
      /\ IF f.done
         THEN /\ r \in {1, 4} /\ f.digi.used = "FM" /\ f.digi.src = v + 1
              /\ d.freq[v].state \in {"variant1", "variant2"} /\ d.freq[v].age < FreqTimeout
         ELSE SameSamples(d, f.digi)
  BY <1>0, FreqHandled
<1>4. /\ DigiOK(g.digi) /\ SameFreq(f.digi, g.digi) /\ g.mutes \subseteq {v}
      /\ \A u \in DigiVoices \ {v} : g.digi.pulse[u] = f.digi.pulse[u]
      /\ \A w : Known(f.digi, v, w) => Known(g.digi, v, IF r = 2 THEN value ELSE w)
      /\ IF g.done
         THEN /\ r = 4 /\ f.digi.pulse[v].state \in {"confirm", "confirm2"}
              /\ g.digi.used = "PWMTest"
              /\ g.digi.count > f.digi.count =>
                   g.digi.src = v + 1 /\ g.digi.sample = f.digi.pulse[v].width
         ELSE SameSamples(f.digi, g.digi)
  BY <1>0, <1>3, PulseHandled
<1>5. /\ DigiOK(s.digi) /\ SameFreq(g.digi, s.digi) /\ SamePulse(g.digi, s.digi)
      /\ s.mutes \subseteq {v}
      /\ s.digi.count > g.digi.count => s.digi.used = "PWM"
      /\ ~ s.done => SameSamples(g.digi, s.digi)
  BY <1>0, <1>4, SwallowHandled
<1>6. /\ DigiOK(z) /\ SameFreq(s.digi, z) /\ SamePulse(s.digi, z)
      /\ z.count > s.digi.count => z.used \in {"D418", "Mahoney"}
  BY <1>5, VolumeHandled
<1>7. \A u \in DigiVoices : reg = 7 * u + 2 <=> (v = u /\ r = 2) BY VoiceOfType
<1> HIDE DEF f, g, s, z, v, r
<1>8. \A w : \A u \in DigiVoices :
        /\ Known(d, u, w) => Known(f.digi, u, w)
        /\ Known(f.digi, u, w) => Known(g.digi, u, New(u, w))
        /\ Known(g.digi, u, w) => Known(s.digi, u, w)
        /\ Known(s.digi, u, w) => Known(z, u, w)
  <2>1. ASSUME NEW u \in DigiVoices, NEW w, Known(f.digi, u, w) PROVE Known(g.digi, u, New(u, w))
    <3>1. CASE u = v BY <1>0, <1>4, <1>7, <2>1, <3>1
    <3>2. CASE u # v
      <4>1. New(u, w) = w BY <1>7, <3>2
      <4>2. g.digi.pulse[u] = f.digi.pulse[u] BY <1>4, <3>2
      <4>3. QED BY <2>1, <4>1, <4>2 DEF Known
    <3>3. QED BY <3>1, <3>2
  <2>2. QED BY <1>3, <1>5, <1>6, <2>1 DEF SamePulse, Known
<1>9. ASSUME NEW u \in DigiVoices, NEW w, Known(d, u, w)
      PROVE  /\ g.digi = q.digi => Known(q.digi, u, New(u, w))
             /\ s.digi = q.digi => Known(q.digi, u, New(u, w))
             /\ z = q.digi => Known(q.digi, u, New(u, w))
  <2> HIDE DEF New
  <2>1. Known(f.digi, u, w) BY <1>8, <1>9
  <2>2. Known(g.digi, u, New(u, w)) BY <1>8, <2>1
  <2>3. Known(s.digi, u, New(u, w)) BY <1>8, <2>2
  <2>4. Known(z, u, New(u, w)) BY <1>8, <2>3
  <2>5. QED BY <2>2, <2>3, <2>4
<1>10. /\ d.count \in Int /\ d.fm \in Int BY CountedType DEF DigiOK, DigiTyped
<1>11. f.mutes \subseteq 0..3 /\ g.mutes \subseteq 0..3 /\ s.mutes \subseteq 0..3
  BY <1>0, <1>3, <1>4, <1>5 DEF DigiVoices
<1>12. CASE f.done /\ q = [digi |-> f.digi, mutes |-> f.mutes, unmutes |-> {}]
  <2>1. q.digi = f.digi /\ q.mutes = f.mutes /\ q.unmutes = {} BY <1>12
  <2>2. ASSUME NEW u \in DigiVoices, NEW w, Known(d, u, w) PROVE Known(f.digi, u, New(u, w))
    <3>1. r # 2 BY <1>3, <1>12
    <3>2. New(u, w) = w BY <1>7, <3>1
    <3>3. Known(f.digi, u, w)
      <4> HIDE DEF New
      <4>1. QED BY <1>8, <2>2
    <3>4. QED BY <3>2, <3>3
  <2> HIDE DEF New
  <2>3. Detects(d, f.digi, reg, value) BY <1>3, <1>12, <2>2 DEF Detects, v, r, New
  <2>4. QED BY <1>11, <2>1, <2>3
<1>13. CASE ~ f.done /\ g.done /\ q = [digi |-> g.digi, mutes |-> g.mutes, unmutes |-> {}]
  <2>1. q.digi = g.digi /\ q.mutes = g.mutes /\ q.unmutes = {} BY <1>13
  <2>2. Detects(d, g.digi, reg, value)
    BY <1>3, <1>4, <1>9, <1>10, <1>13, <2>1 DEF Detects, SameSamples, SameFreq, SamePulse, v, r
  <2>3. QED BY <1>11, <2>1, <2>2
<1>14. CASE ~ f.done /\ ~ g.done /\ q = [digi |-> s.digi, mutes |-> s.mutes, unmutes |-> {}]
  <2>1. q.digi = s.digi /\ q.mutes = s.mutes /\ q.unmutes = {} BY <1>14
  <2>2. Detects(d, s.digi, reg, value)
    BY <1>3, <1>4, <1>5, <1>9, <1>10, <1>14, <2>1 DEF Detects, SameSamples, SameFreq, v, r
  <2>3. QED BY <1>11, <2>1, <2>2
<1>15. CASE /\ ~ f.done /\ ~ g.done /\ ~ s.done
            /\ q = [digi |-> z, mutes |-> {}, unmutes |-> um]
  <2>1. q.digi = z /\ q.mutes = {} /\ q.unmutes = um BY <1>15
  <2>2. Detects(d, z, reg, value)
    BY <1>3, <1>4, <1>5, <1>6, <1>9, <1>10, <1>15, <2>1 DEF Detects, SameSamples, SameFreq, v, r
  <2>3. QED BY <1>2, <2>1, <2>2
<1>16. QED BY <1>1, <1>12, <1>13, <1>14, <1>15
-----------------------------------------------------------------------------
(* Time, the end of a frame and a new song.                                *)
LEMMA ElapseType ==
  ASSUME NEW age \in 0..Stale, NEW cycles \in Nat, NEW limit \in 0..Stale
  PROVE  /\ Elapse(age, cycles, limit) \in 0..Stale
         /\ Elapse(age, cycles, limit) < limit => Elapse(age, cycles, limit) = age + cycles
BY DEF Elapse, Stale, FreqTimeout0

AgedFrom(d, e, cycles) ==
  /\ DigiOK(e) /\ SameSamples(d, e) /\ e.swallow = d.swallow
  /\ \A v \in DigiVoices :
       /\ e.freq[v].state = d.freq[v].state
       /\ e.freq[v].age = Elapse(d.freq[v].age, cycles, FreqLimit(d.freq[v].state))
       /\ e.pulse[v].state = d.pulse[v].state /\ e.pulse[v].width = d.pulse[v].width

LEMMA AgedIs ==
  ASSUME NEW d, DigiOK(d), NEW cycles \in Nat
  PROVE  AgedFrom(d, Aged(d, cycles), cycles)
<1> DEFINE f == [v \in DigiVoices |->
                   [d.freq[v] EXCEPT !.age = Elapse(@, cycles, FreqLimit(d.freq[v].state))]]
           g == [v \in DigiVoices |->
                   [d.pulse[v] EXCEPT !.age = Elapse(@, cycles, PulseLimit(d.pulse[v].state))]]
           e == [d EXCEPT !.freq = f, !.pulse = g]
<1>1. Aged(d, cycles) = e BY DEF Aged
<1>2. ASSUME NEW v \in DigiVoices
      PROVE  /\ f[v] = [state |-> d.freq[v].state,
                        age |-> Elapse(d.freq[v].age, cycles, FreqLimit(d.freq[v].state))]
             /\ f[v] \in FreqMachine
  <2>1. d.freq[v] \in FreqMachine BY DEF DigiOK, DigiTyped
  <2>2. FreqLimit(d.freq[v].state) \in 0..Stale BY DEF FreqLimit, Stale, FreqTimeout0, FreqTimeout
  <2>3. d.freq[v].age \in 0..Stale BY <2>1 DEF FreqMachine
  <2>4. Elapse(d.freq[v].age, cycles, FreqLimit(d.freq[v].state)) \in 0..Stale
    BY <2>2, <2>3, ElapseType
  <2>5. QED BY <2>1, <2>4 DEF FreqMachine
<1>3. ASSUME NEW v \in DigiVoices
      PROVE  /\ g[v] = [state |-> d.pulse[v].state,
                        age |-> Elapse(d.pulse[v].age, cycles, PulseLimit(d.pulse[v].state)),
                        width |-> d.pulse[v].width]
             /\ g[v] \in PulseMachine
  <2>1. d.pulse[v] \in PulseMachine BY DEF DigiOK, DigiTyped
  <2>2. PulseLimit(d.pulse[v].state) \in 0..Stale BY DEF PulseLimit, Stale, FreqTimeout0, PulseTimeout
  <2>3. d.pulse[v].age \in 0..Stale BY <2>1 DEF PulseMachine
  <2>4. Elapse(d.pulse[v].age, cycles, PulseLimit(d.pulse[v].state)) \in 0..Stale
    BY <2>2, <2>3, ElapseType
  <2>5. QED BY <2>1, <2>4 DEF PulseMachine
<1>4. f \in [DigiVoices -> FreqMachine] /\ g \in [DigiVoices -> PulseMachine]
  <2>1. f = [v \in DigiVoices |-> f[v]] /\ g = [v \in DigiVoices |-> g[v]] OBVIOUS
  <2> HIDE DEF f, g
  <2>2. QED BY <1>2, <1>3, <2>1
<1> HIDE DEF f, g
<1>5. /\ DigiShape(e) /\ SameSamples(d, e) /\ e.swallow = d.swallow /\ e.freq = f /\ e.pulse = g
  BY DEF DigiOK, DigiTyped, DigiShape, DigiFields, SameSamples
<1> HIDE DEF e
<1>6. DigiOK(e) BY <1>4, <1>5 DEF DigiOK, DigiTyped, Sourced, SameSamples
<1>7. ASSUME NEW v \in DigiVoices
      PROVE  /\ e.freq[v].state = d.freq[v].state
             /\ e.freq[v].age = Elapse(d.freq[v].age, cycles, FreqLimit(d.freq[v].state))
             /\ e.pulse[v].state = d.pulse[v].state /\ e.pulse[v].width = d.pulse[v].width
  <2>1. e.freq[v] = f[v] /\ e.pulse[v] = g[v] BY <1>5
  <2> DEFINE a == Elapse(d.freq[v].age, cycles, FreqLimit(d.freq[v].state))
             b == Elapse(d.pulse[v].age, cycles, PulseLimit(d.pulse[v].state))
  <2>2. e.freq[v] = [state |-> d.freq[v].state, age |-> a] BY <1>2, <2>1, Zenon
  <2>3. e.pulse[v] = [state |-> d.pulse[v].state, age |-> b, width |-> d.pulse[v].width]
    BY <1>3, <2>1, Zenon
  <2> HIDE DEF a, b
  <2>4. e.freq[v].state = d.freq[v].state /\ e.freq[v].age = a BY <2>2
  <2>5. e.pulse[v].state = d.pulse[v].state /\ e.pulse[v].width = d.pulse[v].width BY <2>3
  <2>6. QED BY <2>4, <2>5 DEF a
<1>8. QED BY <1>1, <1>5, <1>6, <1>7 DEF AgedFrom

LEMMA LapsedIs ==
  ASSUME NEW d, DigiOK(d), NEW e, e = Lapsed(d)
  PROVE  /\ DigiOK(e) /\ e.freq = d.freq /\ SamePulse(d, e)
         /\ e.fm <= d.fm /\ e.count <= d.count
<1> DEFINE over == \/ d.used = "FM" /\ d.fm = 0
                   \/ d.used = "D418" /\ d.count = 0
           used == IF over THEN "none" ELSE d.used
           source == IF d.used = "FM" /\ d.fm = 0 THEN Unused ELSE d.source
           fm == IF d.used = "FM" THEN 0 ELSE d.fm
           y == [d EXCEPT !.used = used, !.source = source, !.fm = fm, !.count = 0]
<1>1. e = y BY DEF Lapsed
<1>2. /\ used \in {"none", d.used} /\ fm \in {0, d.fm} /\ source \in {Unused, d.source}
      /\ source # d.source => used = "none"
  OBVIOUS
<1> HIDE DEF used, source, fm
<1>3. /\ DigiShape(y) /\ y.used = used /\ y.source = source /\ y.fm = fm /\ y.count = 0
      /\ y.sample = d.sample /\ y.src = d.src /\ y.freq = d.freq /\ y.pulse = d.pulse
      /\ y.swallow = d.swallow
  BY DEF DigiOK, DigiTyped, DigiShape, DigiFields
<1> HIDE DEF y
<1>4. Unused \in -1..3 /\ 0 \in Counts /\ 0 \in CountsFM BY CountedType DEF Unused
<1>5. DigiOK(y) BY <1>2, <1>3, <1>4 DEF DigiOK, DigiTyped, Sourced, Used
<1>6. d.fm \in Nat /\ d.count \in Nat
  BY CountedType DEF DigiOK, DigiTyped
<1>7. QED BY <1>1, <1>2, <1>3, <1>5, <1>6 DEF SamePulse

(* No pattern has begun.                                                   *)
Idle(d) == \A v \in DigiVoices : d.freq[v].state = "idle" /\ d.pulse[v].state = "idle"

LEMMA NewDigiIs ==
  ASSUME NEW fm \in CountsFM
  PROVE  LET e == [NewDigi EXCEPT !.fm = fm]
         IN  DigiOK(e) /\ Idle(e) /\ e.fm = fm /\ e.count = 0
<1> DEFINE e == [NewDigi EXCEPT !.fm = fm]
           f == [v \in DigiVoices |-> [state |-> "idle", age |-> Stale]]
           g == [v \in DigiVoices |-> [state |-> "idle", age |-> Stale, width |-> 0]]
           h == [v \in DigiVoices |-> 0]
<1>1. f \in [DigiVoices -> FreqMachine] /\ g \in [DigiVoices -> PulseMachine]
  BY DEF FreqMachine, PulseMachine, Stale, FreqTimeout0, Bytes
<1>2. /\ h \in [DigiVoices -> 0..3]
      /\ \A v \in DigiVoices : f[v].state = "idle" /\ g[v].state = "idle"
  OBVIOUS
<1> HIDE DEF f, g, h
<1>3. NewDigi = [used |-> "none", source |-> Unused, count |-> 0, sample |-> 128, src |-> 0,
                 fm |-> 0, freq |-> f, pulse |-> g, swallow |-> h]
  BY DEF NewDigi, f, g, h
<1>4. /\ DigiShape(e) /\ e.used = "none" /\ e.source = Unused /\ e.count = 0 /\ e.sample = 128
      /\ e.src = 0 /\ e.fm = fm /\ e.freq = f /\ e.pulse = g /\ e.swallow = h
  BY <1>3 DEF DigiShape, DigiFields
<1> HIDE DEF e
<1>5. DigiOK(e)
  BY <1>1, <1>2, <1>4, CountedType DEF DigiOK, DigiTyped, Sourced, Used, Unused, Bytes
<1>6. QED BY <1>2, <1>4, <1>5 DEF e, Idle

LEMMA NewDigiOK == DigiOK(NewDigi) /\ Idle(NewDigi)
<1>1. 0 \in CountsFM BY CountedType
<1>2. NewDigi = [NewDigi EXCEPT !.fm = 0] BY DEF NewDigi
<1>3. QED BY <1>1, <1>2, NewDigiIs

LEMMA ResetDigiOK ==
  ASSUME NEW d, DigiOK(d)
  PROVE  /\ DigiOK(ResetDigi(d)) /\ Idle(ResetDigi(d))
         /\ ResetDigi(d).fm = d.fm /\ ResetDigi(d).count <= d.count
<1>1. d.fm \in CountsFM /\ d.count \in Nat
  BY CountedType DEF DigiOK, DigiTyped
<1>2. ResetDigi(d) = [NewDigi EXCEPT !.fm = d.fm] BY DEF ResetDigi
<1>3. QED BY <1>1, <1>2, NewDigiIs
-----------------------------------------------------------------------------
(* A chip.                                                                 *)
ChipFields == {"regs", "bus", "filter", "digi", "muted"}
ChipShape(c) == c = [f \in ChipFields |-> c[f]]

FilterOK(f) ==
  /\ f = [is6581 |-> f.is6581, reg |-> f.reg]
  /\ f.reg \in [FilterRegisters -> -1..255] /\ f.reg[\h15] \in -1..7

ChipTyped(c) ==
  /\ ChipShape(c) /\ c.regs \in [Registers -> Bytes] /\ c.bus \in Bytes
  /\ FilterOK(c.filter) /\ DigiOK(c.digi) /\ c.muted \subseteq 0..3

(* The detector remembers a width the song has not changed since.          *)
WidthsKnown(c) == \A v \in DigiVoices : Known(c.digi, v, c.regs[7 * v + 2])

ChipOK(c) == ChipTyped(c) /\ WidthsKnown(c)

LEMMA IdleKnown == \A d : Idle(d) => \A v \in DigiVoices, w \in Bytes : Known(d, v, w)
BY DEF Idle, Known, Sure

LEMMA WidthRegister ==
  ASSUME NEW v \in DigiVoices PROVE 7 * v + 2 \in Registers
BY DEF DigiVoices, Registers

LEMMA NewFilterOK == \A is6581 : FilterOK(NewFilter(is6581))
<1> SUFFICES ASSUME NEW is6581 PROVE FilterOK(NewFilter(is6581)) OBVIOUS
<1> DEFINE r == [k \in FilterRegisters |-> Unknown]
<1>1. r \in [FilterRegisters -> -1..255] /\ r[\h15] \in -1..7
  BY DEF FilterRegisters, Unknown
<1>2. NewFilter(is6581) = [is6581 |-> is6581, reg |-> r] BY DEF NewFilter
<1> HIDE DEF r
<1>3. QED BY <1>1, <1>2 DEF FilterOK

LEMMA FilterPokeOK ==
  ASSUME NEW f, FilterOK(f), NEW reg \in FilterRegisters, NEW value \in Bytes
  PROVE  FilterOK(FilterPoke(f, reg, value))
<1> DEFINE kept == IF reg = \h15 THEN value % 8
                   ELSE IF reg = \h17 THEN value - 8 * ((value \div 8) % 2)
                   ELSE value
<1>1. value % 8 \in 0..7 /\ value - 8 * ((value \div 8) % 2) \in -1..255 /\ value \in -1..255
  BY DEF Bytes
<1>2. kept \in -1..255 /\ (reg = \h15 => kept \in -1..7) BY <1>1
<1>3. FilterPoke(f, reg, value) = [f EXCEPT !.reg[reg] = kept] BY DEF FilterPoke
<1> HIDE DEF kept
<1> DEFINE x == [f EXCEPT !.reg[reg] = kept]
<1>4. x = [is6581 |-> f.is6581, reg |-> [f.reg EXCEPT ![reg] = kept]] BY DEF FilterOK
<1> HIDE DEF x
<1>5. /\ x.reg = [f.reg EXCEPT ![reg] = kept] /\ x.is6581 = f.is6581
      /\ x = [is6581 |-> x.is6581, reg |-> x.reg]
  BY <1>4
<1>6. x.reg \in [FilterRegisters -> -1..255] /\ x.reg[\h15] \in -1..7
  BY <1>2, <1>5 DEF FilterOK, FilterRegisters
<1>7. QED BY <1>3, <1>5, <1>6 DEF FilterOK, x

(* What two chips have in common.                                          *)
SameBut(c, e, fields) ==
  /\ ChipShape(e)
  /\ "regs" \notin fields => e.regs = c.regs
  /\ "bus" \notin fields => e.bus = c.bus
  /\ "filter" \notin fields => e.filter = c.filter
  /\ "digi" \notin fields => e.digi = c.digi
  /\ "muted" \notin fields => e.muted = c.muted

LEMMA PokeIs ==
  ASSUME NEW c, ChipShape(c), c.regs \in [Registers -> Bytes], FilterOK(c.filter),
         NEW reg \in Registers, NEW value \in Bytes, NEW e, e = Poke(c, reg, value)
  PROVE  /\ SameBut(c, e, {"regs", "filter"}) /\ FilterOK(e.filter)
         /\ e.regs = [c.regs EXCEPT ![reg] = value] /\ e.regs \in [Registers -> Bytes]
<1> DEFINE filter == IF reg \in FilterRegisters THEN FilterPoke(c.filter, reg, value) ELSE c.filter
           regs == [c.regs EXCEPT ![reg] = value]
           x == [c EXCEPT !.regs = regs, !.filter = filter]
<1>1. e = x BY DEF Poke, ChipShape, ChipFields
<1>2. FilterOK(filter) BY FilterPokeOK
<1>3. regs \in [Registers -> Bytes] OBVIOUS
<1> HIDE DEF filter, regs
<1>4. /\ ChipShape(x) /\ x.regs = regs /\ x.filter = filter
      /\ x.bus = c.bus /\ x.digi = c.digi /\ x.muted = c.muted
  BY DEF ChipShape, ChipFields
<1> HIDE DEF x
<1>5. QED BY <1>1, <1>2, <1>3, <1>4 DEF SameBut, regs

LEMMA ResetModelIs ==
  ASSUME NEW c, ChipShape(c), FilterOK(c.filter), NEW is6581, NEW e, e = ResetModel(c, is6581)
  PROVE  SameBut(c, e, {"bus", "filter"}) /\ e.bus = 0 /\ FilterOK(e.filter)
<1> DEFINE filter == SetFilterModel(c.filter, is6581)
           x == [c EXCEPT !.bus = 0, !.filter = filter]
<1>1. e = x BY DEF ResetModel
<1>2. FilterOK(filter) BY NewFilterOK DEF SetFilterModel
<1> HIDE DEF filter
<1>3. /\ ChipShape(x) /\ x.regs = c.regs /\ x.filter = filter
      /\ x.bus = 0 /\ x.digi = c.digi /\ x.muted = c.muted
  BY DEF ChipShape, ChipFields
<1> HIDE DEF x
<1>4. QED BY <1>1, <1>2, <1>3 DEF SameBut

FreshRegisters == [r \in Registers |-> IF r = \h18 THEN 15 ELSE 0]

LEMMA ResetChipIs ==
  ASSUME NEW c, ChipTyped(c), NEW is6581, NEW e, e = ResetChip(c, is6581)
  PROVE  /\ ChipOK(e) /\ Idle(e.digi) /\ e.regs = FreshRegisters
         /\ e.digi.fm = c.digi.fm /\ e.digi.count <= c.digi.count
<1> DEFINE x == ResetModel(c, is6581)
           y == [x EXCEPT !.regs = NoRegisters, !.muted = {}, !.digi = ResetDigi(@)]
           z == Poke(y, \h18, 15)
<1>1. e = z BY DEF ResetChip
<1>2. SameBut(c, x, {"bus", "filter"}) /\ x.bus = 0 /\ FilterOK(x.filter)
  BY ResetModelIs DEF ChipTyped
<1> HIDE DEF x
<1>3. /\ ChipShape(y) /\ y.regs = NoRegisters /\ y.muted = {} /\ y.digi = ResetDigi(c.digi)
      /\ y.bus = 0 /\ y.filter = x.filter
  BY <1>2 DEF SameBut, ChipShape, ChipFields
<1> HIDE DEF y
<1>4. NoRegisters \in [Registers -> Bytes] /\ 15 \in Bytes /\ 0 \in Bytes /\ \h18 \in Registers
  BY DEF NoRegisters, Registers, Bytes
<1>5. /\ SameBut(y, z, {"regs", "filter"}) /\ FilterOK(z.filter)
      /\ z.regs = [y.regs EXCEPT ![\h18] = 15] /\ z.regs \in [Registers -> Bytes]
  BY <1>2, <1>3, <1>4, PokeIs
<1> HIDE DEF z
<1>6. z.regs = FreshRegisters
  BY <1>3, <1>5 DEF NoRegisters, FreshRegisters
<1>7. /\ DigiOK(z.digi) /\ Idle(z.digi) /\ z.digi.fm = c.digi.fm /\ z.digi.count <= c.digi.count
  BY <1>3, <1>5, ResetDigiOK DEF SameBut, ChipTyped
<1>8. ChipTyped(z) BY <1>3, <1>4, <1>5, <1>7 DEF ChipTyped, SameBut
<1>9. WidthsKnown(z) BY <1>5, <1>7, IdleKnown, WidthRegister DEF WidthsKnown
<1>10. QED BY <1>1, <1>6, <1>7, <1>8, <1>9 DEF ChipOK

LEMMA NewChipOK == ChipOK(NewChip) /\ Idle(NewChip.digi)
<1> DEFINE f == NewFilter(FALSE)
           g == NewDigi
           r == NoRegisters
<1>1. FilterOK(f) /\ DigiOK(g) /\ Idle(g) BY NewFilterOK, NewDigiOK
<1>2. r \in [Registers -> Bytes] /\ 0 \in Bytes BY DEF NoRegisters, Registers, Bytes
<1>3. NewChip = [regs |-> r, bus |-> 0, filter |-> f, digi |-> g, muted |-> {}] BY DEF NewChip
<1> HIDE DEF f, g, r
<1>4. /\ ChipShape(NewChip) /\ NewChip.regs = r /\ NewChip.bus = 0 /\ NewChip.filter = f
      /\ NewChip.digi = g /\ NewChip.muted = {}
  BY <1>3 DEF ChipShape, ChipFields
<1>5. ChipTyped(NewChip) BY <1>1, <1>2, <1>4 DEF ChipTyped
<1>6. WidthsKnown(NewChip) BY <1>1, <1>2, <1>4, IdleKnown, WidthRegister DEF WidthsKnown
<1>7. QED BY <1>1, <1>4, <1>5, <1>6 DEF ChipOK

LEMMA DigiChanged ==
  ASSUME NEW c, ChipTyped(c), NEW d, DigiOK(d), NEW e, e = [c EXCEPT !.digi = d]
  PROVE  SameBut(c, e, {"digi"}) /\ e.digi = d /\ ChipTyped(e)
<1>1. SameBut(c, e, {"digi"}) /\ e.digi = d BY DEF ChipTyped, ChipShape, ChipFields, SameBut
<1>2. QED BY <1>1 DEF ChipTyped, SameBut

LEMMA ChipAged ==
  ASSUME NEW c, ChipOK(c), NEW cycles \in Nat, NEW e, e = [c EXCEPT !.digi = Aged(@, cycles)]
  PROVE  /\ ChipOK(e) /\ SameBut(c, e, {"digi"}) /\ AgedFrom(c.digi, e.digi, cycles)
<1> DEFINE d == Aged(c.digi, cycles)
<1>1. AgedFrom(c.digi, d, cycles) BY AgedIs DEF ChipOK, ChipTyped
<1>2. e = [c EXCEPT !.digi = d] OBVIOUS
<1> HIDE DEF d
<1>3. SameBut(c, e, {"digi"}) /\ e.digi = d /\ ChipTyped(e)
  BY <1>1, <1>2, DigiChanged DEF AgedFrom, ChipOK
<1>4. WidthsKnown(e) BY <1>1, <1>3 DEF WidthsKnown, Known, AgedFrom, SameBut, ChipOK
<1>5. QED BY <1>1, <1>3, <1>4 DEF ChipOK
-----------------------------------------------------------------------------
(* A write to a chip.                                                      *)
Deaf(h) == h.ext \/ ~ h.compatible \/ ~ h.rsid

(* What the detectors of a chip make of a write, time aside.               *)
Heeds(d, e, reg, value) == IF Deaf(header) THEN e = d ELSE Detects(d, e, reg, value)

LEMMA DetectionIs ==
  ASSUME NEW c, NEW chip, ChipOK(chip), NEW addr \in Nat, NEW value \in Bytes,
         NEW q, q = Detection(c, chip, addr, value)
  PROVE  /\ DigiOK(q.digi) /\ Heeds(chip.digi, q.digi, addr % 32, value)
         /\ q.mutes \subseteq 0..3 /\ q.unmutes \subseteq 0..3
<1>1. addr % 32 \in Registers BY DEF Registers
<1>2. DigiOK(chip.digi) BY DEF ChipOK, ChipTyped
<1>3. CASE Deaf(header)
  <2>1. q = [digi |-> chip.digi, mutes |-> {}, unmutes |-> {}] BY <1>3 DEF Detection, Deaf
  <2>2. QED BY <1>2, <1>3, <2>1 DEF Heeds
<1>4. CASE ~ Deaf(header)
  <2>1. PICK shown, volume : q = Detect(chip.digi, chip.regs, shown, addr % 32, value, volume)
    BY <1>4, Zenon DEF Detection, Deaf
  <2>2. /\ Detects(chip.digi, q.digi, addr % 32, value)
        /\ q.mutes \subseteq 0..3 /\ q.unmutes \subseteq 0..3
    BY <1>1, <1>2, <2>1, DetectIs
  <2>3. QED BY <1>4, <2>2 DEF Heeds, Detects
<1>5. QED BY <1>3, <1>4

LEMMA WrittenIs ==
  ASSUME NEW c, NEW chip, ChipOK(chip), Deaf(header) => Idle(chip.digi),
         NEW addr \in Nat, NEW value \in Bytes, NEW w, w = Written(c, chip, addr, value)
  PROVE  /\ ChipOK(w) /\ w.regs = [chip.regs EXCEPT ![addr % 32] = value]
         /\ \E d : Heeds(chip.digi, d, addr % 32, value) /\ AgedFrom(d, w.digi, 0)
<1> DEFINE q == Detection(c, chip, addr, value)
           d == Aged(q.digi, 0)
           muted == (chip.muted \cup q.mutes) \ q.unmutes
           reg == addr % 32
           x == Poke(chip, reg, value)
           y == [x EXCEPT !.bus = value, !.digi = d, !.muted = muted]
<1>0. reg \in Registers BY DEF Registers
<1>1. /\ DigiOK(q.digi) /\ Heeds(chip.digi, q.digi, reg, value)
      /\ q.mutes \subseteq 0..3 /\ q.unmutes \subseteq 0..3
  BY DetectionIs
<1>2. /\ SameBut(chip, x, {"regs", "filter"}) /\ FilterOK(x.filter)
      /\ x.regs = [chip.regs EXCEPT ![reg] = value] /\ x.regs \in [Registers -> Bytes]
  BY <1>0, PokeIs DEF ChipOK, ChipTyped
<1>3. w = y BY <1>2 DEF Written, SameBut, ChipShape, ChipFields
<1> HIDE DEF q, x, reg
<1>4. AgedFrom(q.digi, d, 0) BY <1>1, AgedIs
<1>5. muted \subseteq 0..3 BY <1>1 DEF ChipOK, ChipTyped
<1> HIDE DEF d, muted
<1>6. /\ ChipShape(y) /\ y.regs = x.regs /\ y.filter = x.filter
      /\ y.bus = value /\ y.digi = d /\ y.muted = muted
  BY <1>2 DEF SameBut, ChipShape, ChipFields
<1> HIDE DEF y
<1>7. ChipTyped(y) BY <1>2, <1>4, <1>5, <1>6 DEF ChipTyped, AgedFrom
<1>8. WidthsKnown(y)
  <2>1. ASSUME NEW v \in DigiVoices PROVE Known(y.digi, v, y.regs[7 * v + 2])
    <3>1. 7 * v + 2 \in Registers BY WidthRegister
    <3> DEFINE old == chip.regs[7 * v + 2]
               new == y.regs[7 * v + 2]
    <3>2. new = IF reg = 7 * v + 2 THEN value ELSE old
      BY <1>2, <1>6, <3>1 DEF ChipOK, ChipTyped
    <3>3. Known(chip.digi, v, old) BY DEF ChipOK, WidthsKnown
    <3> HIDE DEF old, new
    <3>4. Known(q.digi, v, new)
      <4>1. CASE Deaf(header) BY <1>1, <4>1 DEF Heeds, Idle, Known, Sure
      <4>2. CASE ~ Deaf(header) BY <1>1, <3>2, <3>3, <4>2 DEF Heeds, Detects
      <4>3. QED BY <4>1, <4>2
    <3>5. QED BY <1>4, <1>6, <3>4 DEF AgedFrom, Known, new
  <2>2. QED BY <2>1 DEF WidthsKnown
<1>9. Heeds(chip.digi, q.digi, reg, value) /\ AgedFrom(q.digi, y.digi, 0) BY <1>1, <1>4, <1>6
<1>10. QED BY <1>2, <1>3, <1>6, <1>7, <1>8, <1>9 DEF ChipOK, reg

LEMMA MutedIs ==
  ASSUME NEW c, ChipOK(c), NEW voices \in SUBSET (0..3), NEW e, e = [c EXCEPT !.muted = voices]
  PROVE  ChipOK(e) /\ SameBut(c, e, {"muted"})
<1>1. SameBut(c, e, {"muted"}) /\ e.muted = voices
  BY DEF ChipOK, ChipTyped, ChipShape, ChipFields, SameBut
<1>2. ChipTyped(e) BY <1>1 DEF ChipOK, ChipTyped, SameBut
<1>3. WidthsKnown(e) BY <1>1 DEF ChipOK, WidthsKnown, SameBut, Known
<1>4. QED BY <1>1, <1>2, <1>3 DEF ChipOK

-----------------------------------------------------------------------------
(* The chips of a header and their addresses.                              *)
LEMMA HeaderIs ==
  ASSUME NEW h \in Headers
  PROVE  /\ Installed(h) \subseteq ChipIndices /\ 0 \in Installed(h)
         /\ NumberUsedChips(h) \in Nat
         /\ NumberUsedChips(h) = 1 => Installed(h) = {0}
         /\ \A i \in ChipIndices : Addr(h, i) \in Nat /\ Addr(h, i) % 32 = 0
<1>1. Installed(h) \subseteq ChipIndices BY DEF Installed
<1>2. IsFiniteSet(ChipIndices)
  <2>1. 0 \in Int /\ 2 \in Int OBVIOUS
  <2>2. QED BY <2>1, FS_Interval, Zenon DEF ChipIndices
<1>3. NumberUsedChips(h) \in Nat
  BY <1>1, <1>2, FS_Subset, FS_CardinalityType DEF NumberUsedChips
<1>4. Installed(h) = 0..(NumberUsedChips(h) - 1) BY SidAssumption
<1>5. 0 \in Installed(h) BY DEF Installed, ChipIndices, Addr
<1>6. NumberUsedChips(h) = 1 => Installed(h) = {0} BY <1>3, <1>4
<1>7. ASSUME NEW center \in Bytes PROVE SidAddr(center) \in Nat /\ SidAddr(center) % 32 = 0
  <2>1. center % 2 = 0 => (\hD000 + 16 * center) % 32 = 0 BY DEF Bytes
  <2>2. 0 % 32 = 0 OBVIOUS
  <2>3. QED BY <2>1, <2>2 DEF SidAddr, Bytes
<1>8. ASSUME NEW i \in ChipIndices PROVE Addr(h, i) \in Nat /\ Addr(h, i) % 32 = 0
  <2>1. CASE i = 0
    <3>1. \hD400 % 32 = 0 OBVIOUS
    <3>2. QED BY <2>1, <3>1 DEF Addr
  <2>2. CASE i # 0 /\ Named(h, i)
    <3>1. h.centers[i] \in Bytes
      BY <2>2, SidAssumption DEF Named, ChipIndices
    <3>2. Addr(h, i) = SidAddr(h.centers[i]) BY <2>2 DEF Addr
    <3>3. QED BY <1>7, <3>1, <3>2
  <2>3. CASE i # 0 /\ ~ Named(h, i)
    <3>1. 0 % 32 = 0 OBVIOUS
    <3>2. QED BY <2>3, <3>1 DEF Addr
  <2>4. QED BY <2>1, <2>2, <2>3
<1>9. QED BY <1>1, <1>3, <1>5, <1>6, <1>8

LEMMA ChipAtIs ==
  ASSUME NEW h \in Headers, NEW addr
  PROVE  /\ ChipAt(h, addr) \in Installed(h)
         /\ ChipAt(h, addr) # 0 => addr \in Addr(h, ChipAt(h, addr))..(Addr(h, ChipAt(h, addr)) + 30)
<1> DEFINE at == {i \in Installed(h) \ {0} : addr \in Addr(h, i)..(Addr(h, i) + 30)}
<1>1. at \subseteq {1, 2} BY HeaderIs DEF ChipIndices
<1>2. at # {} => \E i \in at : \A j \in at : j <= i BY <1>1
<1>3. ChipAt(h, addr) = IF at = {} THEN 0 ELSE CHOOSE i \in at : \A j \in at : j <= i BY DEF ChipAt
<1>4. ChipAt(h, addr) \in at \/ ChipAt(h, addr) = 0 BY <1>2, <1>3
<1>5. QED BY <1>4, HeaderIs
-----------------------------------------------------------------------------
(* The inductive invariant.                                                *)

(* How far the machine of the frequency technique has come, against the    *)
(* ages of the writes the technique consists of.                           *)
FreqSeen(f, s) ==
  /\ f.state = "prep" /\ f.age < FreqTimeout0 => s.tri = f.age
  /\ f.state \in {"set", "variant1", "variant2"} /\ f.age < FreqTimeout =>
       /\ s.test < s.tri /\ s.tri - s.test < FreqTimeout0
       /\ IF f.state = "variant2" THEN s.test <= f.age + 17 ELSE s.test = f.age - 4

(* No two chips at one address.                                            *)
Apart(h) == \A i, j \in Installed(h) : Addr(h, i) = Addr(h, j) => i = j

ChipsOK ==
  /\ chips = [c \in ChipIndices |-> chips[c]]
  /\ \A c \in ChipIndices :
       /\ ChipOK(chips[c])
       /\ c \in Installed(header) /\ Deaf(header) => Idle(chips[c].digi)

SeenOK ==
  /\ seen \in [DigiVoices -> [tri : 0..Long, test : 0..Long]]
  /\ \A v \in DigiVoices : FreqSeen(chips[0].digi.freq[v], seen[v])

SidInv ==
  /\ header \in Headers /\ audible \in BOOLEAN /\ slow \in {0, 1}
  /\ io = [a \in DOMAIN io |-> io[a]] /\ ChipsOK
  /\ Apart(header) => ReadsBack

IInv == SidInv /\ SeenOK

Ages == [tri : 0..Long, test : 0..Long]

LEMMA FreqSettled ==
  ASSUME NEW f, NEW g, NEW s \in Ages, f.age \in 0..Stale, FreqSeen(f, s), g.state = f.state,
         g.age = Elapse(f.age, 0, FreqLimit(f.state))
  PROVE  FreqSeen(g, s)
<1>0. FreqLimit(f.state) \in 0..Stale BY DEF FreqLimit, Stale, FreqTimeout0, FreqTimeout
<1>1. g.age < FreqLimit(f.state) => g.age = f.age
  <2>1. f.age + 0 = f.age /\ 0 \in Nat BY DEF Stale, FreqTimeout0
  <2>2. QED BY <1>0, <2>1, ElapseType
<1>2. QED BY <1>1 DEF FreqSeen, FreqLimit, FreqTimeout, FreqTimeout0

LEMMA FreqWaited ==
  ASSUME NEW f, NEW g, NEW s \in Ages, NEW gap \in Nat \ {0}, f.age \in 0..Stale, FreqSeen(f, s),
         g.state = f.state, g.age = Elapse(f.age, gap, FreqLimit(f.state)),
         NEW t \in Ages, t.tri = Older(s.tri, gap), t.test = Older(s.test, gap)
  PROVE  FreqSeen(g, t) /\ t.tri > 0
<1>0. FreqLimit(f.state) \in 0..Stale BY DEF FreqLimit, Stale, FreqTimeout0, FreqTimeout
<1>1. g.age < FreqLimit(f.state) => g.age = f.age + gap
  BY <1>0, ElapseType
<1>2. s.tri \in 0..Long /\ s.test \in 0..Long BY DEF Ages
<1>3. t.tri > 0 BY <1>2 DEF Older, Long
<1>4. CASE g.state = "prep" /\ g.age < FreqTimeout0
  <2>1. s.tri = f.age /\ g.age = f.age + gap
    BY <1>1, <1>4 DEF FreqSeen, FreqLimit, FreqTimeout0
  <2>2. t.tri = g.age BY <1>4, <2>1 DEF Older, Long, FreqTimeout0
  <2>3. QED BY <1>3, <1>4, <2>2 DEF FreqSeen
<1>5. CASE g.state \in {"set", "variant1", "variant2"} /\ g.age < FreqTimeout
  <2>1. g.age = f.age + gap BY <1>1, <1>5 DEF FreqLimit, FreqTimeout
  <2>2. /\ s.test < s.tri /\ s.tri - s.test < FreqTimeout0
        /\ IF f.state = "variant2" THEN s.test <= f.age + 17 ELSE s.test = f.age - 4
    BY <1>5, <2>1 DEF FreqSeen, FreqTimeout
  <2>3. t.test = s.test + gap /\ t.tri = s.tri + gap
    BY <1>2, <1>5, <2>1, <2>2 DEF Older, Long, FreqTimeout0, FreqTimeout
  <2>4. QED BY <1>2, <1>3, <1>5, <2>1, <2>2, <2>3 DEF FreqSeen
<1>6. QED BY <1>3, <1>4, <1>5 DEF FreqSeen

LEMMA FreqMoved ==
  ASSUME NEW f, NEW g, NEW reg, NEW value, f.age \in 0..Stale, FreqMoves(f, g, reg, value),
         NEW s \in Ages, FreqSeen(f, s), s.tri > 0,
         NEW t \in Ages,
         t.tri = IF reg = 4 /\ TriOn(value) THEN 0 ELSE s.tri,
         t.test = IF reg = 4 /\ TestOn(value) THEN 0 ELSE s.test
  PROVE  FreqSeen(g, t)
<1>1. s.tri \in 0..Long /\ s.test \in 0..Long BY DEF Ages
<1>2. CASE g.state = "idle" BY <1>2 DEF FreqSeen
<1>3. CASE reg = 4 /\ TriOn(value) /\ g = [state |-> "prep", age |-> 0]
  BY <1>3 DEF FreqSeen
<1>4. CASE /\ reg = 4 /\ TestOn(value) /\ f.state = "prep" /\ f.age < FreqTimeout0
           /\ g = [state |-> "set", age |-> 4]
  <2>1. t.test = 0 /\ t.tri = s.tri BY <1>4 DEF TestOn, TriOn
  <2>2. s.tri = f.age BY <1>4 DEF FreqSeen
  <2>3. QED BY <1>1, <1>4, <2>1, <2>2 DEF FreqSeen, FreqTimeout0
<1>5. ASSUME ~ (reg = 4 /\ (TriOn(value) \/ TestOn(value))) PROVE t.tri = s.tri /\ t.test = s.test
  BY <1>5
<1>6. CASE g = f /\ ~ (reg = 4 /\ (TriOn(value) \/ TestOn(value)))
  BY <1>5, <1>6 DEF FreqSeen
<1>7. CASE /\ f.state = "set" /\ f.age < FreqTimeout
           /\ ~ (reg = 4 /\ (TriOn(value) \/ TestOn(value)))
           /\ g \in {[state |-> "variant1", age |-> f.age], [state |-> "variant2", age |-> 0]}
  <2>1. s.test = f.age - 4 /\ s.test < s.tri /\ s.tri - s.test < FreqTimeout0
    BY <1>7 DEF FreqSeen
  <2>2. t.tri = s.tri /\ t.test = s.test BY <1>5, <1>7
  <2>3. s.test <= 17 BY <1>1, <1>7, <2>1 DEF FreqTimeout
  <2>4. QED BY <1>1, <1>7, <2>1, <2>2, <2>3 DEF FreqSeen
<1>8. QED BY <1>2, <1>3, <1>4, <1>6, <1>7 DEF FreqMoves

(* A chip that is not written, and one that is.                            *)
Waited(c, e, gap) ==
  ChipOK(e) /\ SameBut(c, e, {"digi"}) /\ AgedFrom(c.digi, e.digi, gap)
Touched(c, e, addr, value, gap) ==
  /\ ChipOK(e) /\ e.regs = [c.regs EXCEPT ![addr % 32] = value]
  /\ \E a, d : /\ AgedFrom(c.digi, a, gap) /\ Heeds(a, d, addr % 32, value)
               /\ AgedFrom(d, e.digi, 0)

LEMMA AgedIdle ==
  ASSUME NEW d, NEW e, NEW cycles, AgedFrom(d, e, cycles), Idle(d)
  PROVE  Idle(e)
BY DEF AgedFrom, Idle

LEMMA ChipsWritten ==
  ASSUME SidInv, NEW addr \in Nat, NEW value \in Bytes, NEW gap \in Nat, Write(addr, value, gap)
  PROVE  /\ chips' = [k \in ChipIndices |-> chips'[k]]
         /\ \A k \in ChipIndices :
              IF ReachesSid(addr) /\ k = ChipAt(header, addr)
              THEN Touched(chips[k], chips'[k], addr, value, gap)
              ELSE Waited(chips[k], chips'[k], gap)
<1> DEFINE c == ChipAt(header, addr)
           aged == [k \in ChipIndices |-> [chips[k] EXCEPT !.digi = Aged(@, gap)]]
<1>1. c \in Installed(header) /\ c \in ChipIndices BY ChipAtIs, HeaderIs DEF SidInv
<1>2. ASSUME NEW k \in ChipIndices PROVE Waited(chips[k], aged[k], gap)
  <2>1. aged[k] = [chips[k] EXCEPT !.digi = Aged(@, gap)] OBVIOUS
  <2>2. ChipOK(chips[k]) BY DEF SidInv, ChipsOK
  <2> HIDE DEF aged
  <2>3. QED BY <2>1, <2>2, ChipAged DEF Waited
<1>3. chips' = IF ReachesSid(addr) THEN [aged EXCEPT ![c] = Written(c, aged[c], addr, value)] ELSE aged
  BY DEF Write
<1>4. aged = [k \in ChipIndices |-> aged[k]] OBVIOUS
<1> HIDE DEF aged, c
<1>5. CASE ReachesSid(addr)
  <2> DEFINE w == Written(c, aged[c], addr, value)
  <2>1. chips' = [aged EXCEPT ![c] = w] BY <1>3, <1>5
  <2> HIDE DEF w
  <2>2. /\ chips' = [k \in ChipIndices |-> chips'[k]] /\ chips'[c] = w
        /\ \A k \in ChipIndices \ {c} : chips'[k] = aged[k]
    BY <1>1, <1>4, <2>1
  <2>3. Waited(chips[c], aged[c], gap) BY <1>1, <1>2
  <2>4. Deaf(header) => Idle(aged[c].digi)
    BY <1>1, <2>3, AgedIdle DEF SidInv, ChipsOK, Waited
  <2>5. /\ ChipOK(w) /\ w.regs = [aged[c].regs EXCEPT ![addr % 32] = value]
        /\ \E d : Heeds(aged[c].digi, d, addr % 32, value) /\ AgedFrom(d, w.digi, 0)
    BY <2>3, <2>4, WrittenIs DEF w, Waited
  <2>6. Touched(chips[c], w, addr, value, gap)
    BY <2>3, <2>5 DEF Touched, Waited, SameBut
  <2>7. QED BY <1>2, <1>5, <2>2, <2>6 DEF c
<1>6. CASE ~ ReachesSid(addr)
  BY <1>2, <1>3, <1>4, <1>6
<1>7. QED BY <1>5, <1>6

LEMMA FreqTyped ==
  \A d : DigiOK(d) => \A v \in DigiVoices : d.freq[v].age \in 0..Stale
BY DEF DigiOK, DigiTyped, FreqMachine

LEMMA SeenWritten ==
  ASSUME SidInv, SeenOK, NEW addr \in Nat, NEW value \in Bytes, NEW gap \in Nat \ {0},
         Write(addr, value, gap), seen' = See(addr, value, gap)
  PROVE  SeenOK'
<1> DEFINE wave(v) == ReachesSid(addr) /\ ChipAt(header, addr) = 0 /\ addr % 32 = 7 * v + 4
           s1(v) == [tri |-> Older(seen[v].tri, gap), test |-> Older(seen[v].test, gap)]
           s2(v) == [tri |-> IF wave(v) /\ TriOn(value) THEN 0 ELSE Older(seen[v].tri, gap),
                     test |-> IF wave(v) /\ TestOn(value) THEN 0 ELSE Older(seen[v].test, gap)]
<1>1. seen' = [v \in DigiVoices |-> s2(v)]
  <2>1. ASSUME NEW v \in DigiVoices
        PROVE  /\ wave(v) /\ TriOn(value) <=> wave(v) /\ Tri(value) /\ Gate(value) /\ ~ Test(value)
               /\ wave(v) /\ TestOn(value) <=> wave(v) /\ Test(value) /\ ~ Tri(value)
    <3> HIDE DEF wave
    <3>1. QED BY DEF TriOn, TestOn
  <2>2. QED BY <2>1 DEF See
<1>2. ASSUME NEW v \in DigiVoices
      PROVE  s1(v) \in Ages /\ s2(v) \in Ages /\ FreqSeen(chips'[0].digi.freq[v], s2(v))
  <2>1. seen[v] \in Ages /\ FreqSeen(chips[0].digi.freq[v], seen[v])
    BY DEF SeenOK, Ages
  <2>2. \A age \in 0..Long : Older(age, gap) \in 0..Long BY DEF Older, Long
  <2>3. 0 \in 0..Long BY DEF Long
  <2>4. s1(v) \in Ages /\ s2(v) \in Ages
    <3> HIDE DEF wave
    <3>1. Older(seen[v].tri, gap) \in 0..Long /\ Older(seen[v].test, gap) \in 0..Long
      BY <2>1, <2>2 DEF Ages
    <3>2. QED BY <2>3, <3>1 DEF Ages
  <2>5. 0 \in ChipIndices /\ ChipOK(chips[0]) BY DEF SidInv, ChipsOK, ChipIndices
  <2>6. DigiOK(chips[0].digi) BY <2>5 DEF ChipOK, ChipTyped
  <2>7. ASSUME NEW a, AgedFrom(chips[0].digi, a, gap)
        PROVE  FreqSeen(a.freq[v], s1(v)) /\ s1(v).tri > 0 /\ DigiOK(a)
    <3>1. s1(v).tri = Older(seen[v].tri, gap) /\ s1(v).test = Older(seen[v].test, gap) OBVIOUS
    <3> HIDE DEF s1
    <3>2. chips[0].digi.freq[v].age \in 0..Stale BY <2>6, FreqTyped
    <3>3. QED BY <2>1, <2>4, <2>7, <3>1, <3>2, FreqWaited DEF AgedFrom
  <2>8. CASE ReachesSid(addr) /\ ChipAt(header, addr) = 0
    <3>1. Touched(chips[0], chips'[0], addr, value, gap) BY <2>5, <2>8, ChipsWritten
    <3>2. PICK a, d : /\ AgedFrom(chips[0].digi, a, gap) /\ Heeds(a, d, addr % 32, value)
                      /\ AgedFrom(d, chips'[0].digi, 0)
      BY <3>1 DEF Touched
    <3>3. FreqSeen(a.freq[v], s1(v)) /\ s1(v).tri > 0 /\ DigiOK(a) BY <2>7, <3>2
    <3>4. DigiOK(d) /\ FreqSeen(d.freq[v], s2(v))
      <4>1. CASE Deaf(header)
        <5>1. Idle(chips[0].digi) BY <2>5, <4>1, HeaderIs DEF SidInv, ChipsOK
        <5>2. Idle(a) BY <3>2, <5>1, AgedIdle
        <5>3. d = a BY <3>2, <4>1 DEF Heeds
        <5>4. d.freq[v].state = "idle" BY <5>2, <5>3 DEF Idle
        <5>5. QED BY <3>3, <5>3, <5>4 DEF FreqSeen
      <4>2. CASE ~ Deaf(header) /\ v = VoiceOf(addr % 32)
        <5> DEFINE r == (addr % 32) - 7 * v
        <5>1. DigiOK(d) /\ FreqMoves(a.freq[v], d.freq[v], r, value)
          BY <3>2, <4>2 DEF Heeds, Detects
        <5>2. wave(v) <=> r = 4 BY <2>8, <4>2, VoiceOfType
        <5>3. /\ s2(v).tri = IF r = 4 /\ TriOn(value) THEN 0 ELSE s1(v).tri
              /\ s2(v).test = IF r = 4 /\ TestOn(value) THEN 0 ELSE s1(v).test
          <6> HIDE DEF wave, r
          <6>1. QED BY <5>2
        <5>4. a.freq[v].age \in 0..Stale BY <3>3, FreqTyped
        <5> HIDE DEF r, s1, s2
        <5>5. QED BY <2>4, <3>3, <5>1, <5>3, <5>4, FreqMoved
      <4>3. CASE ~ Deaf(header) /\ v # VoiceOf(addr % 32)
        <5>1. DigiOK(d) /\ d.freq[v] = a.freq[v] BY <3>2, <4>3 DEF Heeds, Detects
        <5>2. ~ wave(v) BY <4>3, VoiceOfType
        <5>3. s2(v) = s1(v)
          <6> HIDE DEF wave
          <6>1. QED BY <5>2
        <5>4. QED BY <3>3, <5>1, <5>3
      <4>4. QED BY <4>1, <4>2, <4>3
    <3>5. d.freq[v].age \in 0..Stale BY <3>4, FreqTyped
    <3> HIDE DEF s1, s2
    <3>6. QED BY <2>4, <3>2, <3>4, <3>5, FreqSettled DEF AgedFrom
  <2>9. CASE ~ (ReachesSid(addr) /\ ChipAt(header, addr) = 0)
    <3>1. Waited(chips[0], chips'[0], gap) BY <2>5, <2>9, ChipsWritten
    <3>2. ~ wave(v) BY <2>9
    <3>3. s2(v) = s1(v)
      <4> HIDE DEF wave
      <4>1. QED BY <3>2
    <3>4. AgedFrom(chips[0].digi, chips'[0].digi, gap) BY <3>1 DEF Waited
    <3>5. FreqSeen(chips'[0].digi.freq[v], s1(v)) BY <2>7, <3>4
    <3>6. QED BY <2>4, <3>3, <3>5
  <2>10. QED BY <2>8, <2>9
<1> HIDE DEF s2
<1>3. /\ seen' \in [DigiVoices -> Ages]
      /\ \A v \in DigiVoices : FreqSeen(chips'[0].digi.freq[v], seen'[v])
  BY <1>1, <1>2
<1>4. QED BY <1>3 DEF SeenOK, Ages

LEMMA Offset ==
  ASSUME NEW b \in Nat, b % 32 = 0, NEW x \in b..(b + 30)
  PROVE  x = b + (x % 32)
OBVIOUS

LEMMA OneBase ==
  ASSUME NEW b \in Nat, b % 32 = 0, NEW e \in Nat, e % 32 = 0,
         NEW x \in b..(b + 30), x \in e..(e + 30)
  PROVE  b = e
OBVIOUS

LEMMA ReadsWritten ==
  ASSUME SidInv, Apart(header), NEW addr \in Nat, NEW value \in Bytes, NEW gap \in Nat,
         Write(addr, value, gap)
  PROVE  ReadsBack'
<1> DEFINE c == ChipAt(header, addr)
           N == NumberUsedChips(header)
           base(k) == Addr(header, k)
           mirror == \hD400 + (addr % 32)
           written == IF N = 1 THEN {addr, mirror} ELSE {addr}
           shown(a) == IF a \in DOMAIN io' THEN io'[a] ELSE 0
<1>0. /\ header \in Headers /\ header' = header /\ io = [a \in DOMAIN io |-> io[a]] /\ ReadsBack
  BY DEF SidInv, Write
<1>1. /\ c \in Installed(header)
      /\ c # 0 => addr \in base(c)..(base(c) + 30)
  BY <1>0, ChipAtIs
<1>2. /\ Installed(header) \subseteq ChipIndices
      /\ N = 1 => Installed(header) = {0}
      /\ \A k \in ChipIndices : base(k) \in Nat /\ base(k) % 32 = 0
  BY <1>0, HeaderIs
<1>3. IF ReachesSid(addr)
      THEN io' = [a \in written \cup DOMAIN io |-> IF a \in written THEN value ELSE io[a]]
      ELSE io' = io
  BY DEF Write
<1>4. \A a : shown(a) = IF ReachesSid(addr) /\ a \in written THEN value ELSE Stored(a)
  <2> HIDE DEF written
  <2>1. QED BY <1>0, <1>3 DEF Stored
<1>5. SUFFICES ASSUME NEW k \in Installed(header), k > 0 \/ N = 1, NEW r \in 0..30
               PROVE  chips'[k].regs[r] = shown(base(k) + r)
  BY <1>0 DEF ReadsBack, Stored
<1> HIDE DEF shown
<1>6. k \in ChipIndices /\ r \in Registers BY <1>2 DEF Registers
<1>7. chips[k].regs[r] = Stored(base(k) + r) BY <1>0, <1>5 DEF ReadsBack
<1>8. chips[k].regs \in [Registers -> Bytes] BY <1>6 DEF SidInv, ChipsOK, ChipOK, ChipTyped
<1>9. (base(k) + r) % 32 = r /\ base(0) = \hD400
  <2>1. base(k) \in Nat /\ base(k) % 32 = 0 BY <1>2, <1>6
  <2> HIDE DEF base
  <2>2. (base(k) + r) % 32 = r BY <2>1
  <2>3. base(0) = \hD400 BY DEF base, Addr
  <2>4. QED BY <2>2, <2>3
(* The write names this address exactly if it reaches this register.       *)
<1>10. ReachesSid(addr) => (base(k) + r \in written <=> c = k /\ addr % 32 = r)
  <2>1. CASE N = 1
    <3>1. k = 0 /\ c = 0 BY <1>1, <1>2, <2>1
    <3>2. addr = base(k) + r => addr % 32 = r BY <1>9
    <3>3. base(k) + r = mirror <=> addr % 32 = r
      <4>1. addr % 32 \in Int OBVIOUS
      <4>2. base(k) = \hD400 BY <1>9, <3>1
      <4> HIDE DEF base
      <4>3. QED BY <4>1, <4>2
    <3>4. QED BY <2>1, <3>1, <3>2, <3>3
  <2>2. CASE N # 1
    <3>1. k # 0 BY <1>5, <2>2
    <3>2. written = {addr} BY <2>2
    <3>3. ASSUME addr = base(k) + r PROVE c = k
      <4> DEFINE at == {i \in Installed(header) \ {0} : addr \in base(i)..(base(i) + 30)}
      <4>0. base(k) \in Nat BY <1>2, <1>6
      <4>1. k \in at
        <5>1. addr \in base(k)..(base(k) + 30)
          <6> HIDE DEF base
          <6>1. QED BY <3>3, <4>0
        <5>2. QED BY <3>1, <5>1
      <4>2. ASSUME NEW i \in at PROVE i = k
        <5>1. /\ i \in Installed(header) /\ i \in ChipIndices
              /\ addr \in base(i)..(base(i) + 30)
          BY <1>2, <4>2
        <5>2. /\ base(i) \in Nat /\ base(i) % 32 = 0 /\ base(k) \in Nat /\ base(k) % 32 = 0
          BY <1>2, <1>6, <5>1
        <5>3. base(i) = base(k)
          <6>1. addr \in base(k)..(base(k) + 30) BY <4>1
          <6> HIDE DEF base
          <6>2. QED BY <5>1, <5>2, <6>1, OneBase
        <5>4. QED BY <5>1, <5>3 DEF Apart
      <4>3. at = {k} BY <4>1, <4>2
      <4>4. c = IF at = {} THEN 0 ELSE CHOOSE i \in at : \A j \in at : j <= i BY DEF ChipAt
      <4> HIDE DEF at, c
      <4>5. k <= k BY <1>6 DEF ChipIndices
      <4>6. QED BY <4>3, <4>4, <4>5
    <3>4. ASSUME c = k, addr % 32 = r PROVE addr = base(k) + r
      <4>1. addr \in base(k)..(base(k) + 30) BY <1>1, <3>1, <3>4
      <4>2. base(k) \in Nat /\ base(k) % 32 = 0 BY <1>2, <1>6
      <4> HIDE DEF base, c
      <4>3. QED BY <3>4, <4>1, <4>2, Offset
    <3>5. QED BY <1>9, <3>2, <3>3, <3>4
  <2>3. QED BY <2>1, <2>2
<1>11. CASE ReachesSid(addr) /\ c = k
  <2>1. Touched(chips[k], chips'[k], addr, value, gap) BY <1>6, <1>11, ChipsWritten
  <2>2. chips'[k].regs = [chips[k].regs EXCEPT ![addr % 32] = value] BY <2>1 DEF Touched
  <2>3. chips'[k].regs[r] = IF addr % 32 = r THEN value ELSE chips[k].regs[r]
    BY <1>6, <1>8, <2>2
  <2> HIDE DEF base, written, c
  <2>4. QED BY <1>4, <1>7, <1>10, <1>11, <2>3
<1>12. CASE ~ (ReachesSid(addr) /\ c = k)
  <2>1. Waited(chips[k], chips'[k], gap) BY <1>6, <1>12, ChipsWritten
  <2>2. chips'[k].regs = chips[k].regs BY <2>1 DEF Waited, SameBut
  <2> HIDE DEF base, written, c
  <2>3. QED BY <1>4, <1>7, <1>10, <1>12, <2>2
<1>13. QED BY <1>11, <1>12
-----------------------------------------------------------------------------
(* The steps.                                                              *)
LEMMA FreshReads ==
  ASSUME NEW h \in Headers, NEW i, i = [a \in {Addr(h, c) + \h18 : c \in Installed(h)} |-> 15],
         NEW k \in Installed(h), NEW r \in 0..30
  PROVE  FreshRegisters[r] = IF Addr(h, k) + r \in DOMAIN i THEN i[Addr(h, k) + r] ELSE 0
<1> DEFINE x == Addr(h, k) + r
<1>1. \A c \in Installed(h) : Addr(h, c) \in Nat /\ Addr(h, c) % 32 = 0 BY HeaderIs
<1>2. x % 32 = r
  <2> DEFINE b == Addr(h, k)
  <2>1. b \in Nat /\ b % 32 = 0 BY <1>1
  <2> HIDE DEF b
  <2>2. (b + r) % 32 = r BY <2>1
  <2>3. QED BY <2>2 DEF b
<1>3. ASSUME NEW c \in Installed(h), x = Addr(h, c) + \h18 PROVE r = \h18
  <2> DEFINE b == Addr(h, c)
  <2>1. b \in Nat /\ b % 32 = 0 BY <1>1
  <2> HIDE DEF b, x
  <2>2. (b + \h18) % 32 = \h18 BY <2>1
  <2>3. QED BY <1>2, <1>3, <2>2 DEF b
<1>4. r = \h18 => x \in DOMAIN i BY Zenon
<1>5. r # \h18 => x \notin DOMAIN i BY <1>3
<1>6. x \in DOMAIN i => i[x] = 15 OBVIOUS
<1>7. FreshRegisters[r] = IF r = \h18 THEN 15 ELSE 0 BY DEF FreshRegisters, Registers
<1> HIDE DEF x
<1>8. QED BY <1>4, <1>5, <1>6, <1>7 DEF x

LEMMA FreqIdle == \A d, s : \A v \in DigiVoices : Idle(d) => FreqSeen(d.freq[v], s)
BY DEF Idle, FreqSeen

LEMMA InitOK == Init => SidInv /\ Idle(chips[0].digi)
<1> SUFFICES ASSUME Init PROVE SidInv /\ Idle(chips[0].digi) OBVIOUS
<1>1. /\ header \in Headers /\ audible \in BOOLEAN /\ slow \in {0, 1}
      /\ io = [a \in {Addr(header, c) + \h18 : c \in Installed(header)} |-> 15]
  BY DEF Init
<1>2. io = [a \in DOMAIN io |-> io[a]] BY <1>1
<1>3. ChipTyped(NewChip) /\ ChipOK(NewChip) /\ Idle(NewChip.digi) BY NewChipOK DEF ChipOK
<1>4. /\ chips = [c \in ChipIndices |->
                   IF c \in Installed(header) THEN ResetChip(NewChip, Is6581(header, c)) ELSE NewChip]
  BY DEF Init
<1>5. ASSUME NEW c \in ChipIndices
      PROVE  /\ ChipOK(chips[c]) /\ Idle(chips[c].digi)
             /\ c \in Installed(header) => chips[c].regs = FreshRegisters
  BY <1>3, <1>4, ResetChipIs
<1>6. chips = [c \in ChipIndices |-> chips[c]] BY <1>4
<1>7. ChipsOK BY <1>5, <1>6 DEF ChipsOK
<1>8. Idle(chips[0].digi) BY <1>5 DEF ChipIndices
<1>9. ReadsBack
  <2>1. Installed(header) \subseteq ChipIndices BY <1>1, HeaderIs
  <2>2. ASSUME NEW c \in Installed(header), NEW r \in 0..30
        PROVE  chips[c].regs[r] = Stored(Addr(header, c) + r)
    <3>1. chips[c].regs = FreshRegisters BY <1>5, <2>1
    <3>2. QED BY <1>1, <3>1, FreshReads DEF Stored
  <2>3. QED BY <2>2 DEF ReadsBack
<1>10. QED BY <1>1, <1>2, <1>7, <1>8, <1>9 DEF SidInv

LEMMA WriteOK ==
  ASSUME SidInv, NEW addr \in Nat, NEW value \in Bytes, NEW gap \in Nat \ {0},
         Write(addr, value, gap)
  PROVE  SidInv'
<1>1. header' = header /\ slow' = slow /\ header \in Headers BY DEF Write, SidInv
<1>2. audible' \in BOOLEAN
  <2>1. ReachesSid(addr) => audible' = (audible \/ value # 0)
    <3> HAVE ReachesSid(addr)
    <3>1. QED BY DEF Write
  <2>2. ~ ReachesSid(addr) => audible' = audible BY DEF Write
  <2>3. audible \in BOOLEAN BY DEF SidInv
  <2>4. QED BY <2>1, <2>2, <2>3, Zenon
<1>3. io' = [a \in DOMAIN io' |-> io'[a]]
  <2> DEFINE written == IF NumberUsedChips(header) = 1 THEN {addr, \hD400 + (addr % 32)} ELSE {addr}
  <2>1. \/ io' = io
        \/ io' = [a \in written \cup DOMAIN io |-> IF a \in written THEN value ELSE io[a]]
    BY DEF Write
  <2> HIDE DEF written
  <2>2. QED BY <2>1 DEF SidInv
<1>4. ChipsOK'
  <2>1. chips' = [k \in ChipIndices |-> chips'[k]] BY ChipsWritten
  <2>2. ASSUME NEW k \in ChipIndices
        PROVE  /\ ChipOK(chips'[k])
               /\ k \in Installed(header) /\ Deaf(header) => Idle(chips'[k].digi)
    <3>1. k \in Installed(header) /\ Deaf(header) => Idle(chips[k].digi) BY DEF SidInv, ChipsOK
    <3>2. CASE Touched(chips[k], chips'[k], addr, value, gap)
      BY <3>1, <3>2, AgedIdle DEF Touched, Heeds
    <3>3. CASE Waited(chips[k], chips'[k], gap)
      BY <3>1, <3>3, AgedIdle DEF Waited
    <3>4. QED BY <3>2, <3>3, ChipsWritten
  <2>3. QED BY <1>1, <2>1, <2>2 DEF ChipsOK
<1>5. Apart(header) => ReadsBack' BY ReadsWritten
<1>6. QED BY <1>1, <1>2, <1>3, <1>4, <1>5 DEF SidInv, Apart

(* A chip that loses samples at most.                                      *)
Subsides(c, e) ==
  /\ ChipOK(e) /\ e.regs = c.regs /\ e.digi.freq = c.digi.freq /\ e.digi.pulse = c.digi.pulse
  /\ e.digi.fm <= c.digi.fm /\ e.digi.count <= c.digi.count

LEMMA CountsAreNumbers == \A c : ChipOK(c) => c.digi.fm \in Int /\ c.digi.count \in Int
BY CountedType DEF ChipOK, ChipTyped, DigiOK, DigiTyped

LEMMA SubsidesOK ==
  ASSUME SidInv, header' = header, io' = io, audible' = audible, slow' \in {0, 1},
         chips' = [k \in ChipIndices |-> chips'[k]],
         \A k \in ChipIndices : Subsides(chips[k], chips'[k])
  PROVE  SidInv'
<1>1. header \in Headers /\ audible \in BOOLEAN /\ io = [a \in DOMAIN io |-> io[a]]
  BY DEF SidInv
<1>2. ASSUME NEW k \in ChipIndices, Idle(chips[k].digi) PROVE Idle(chips'[k].digi)
  BY <1>2 DEF Subsides, Idle
<1>3. ChipsOK' BY <1>2 DEF SidInv, ChipsOK, Subsides
<1>4. ReadsBack => ReadsBack'
  <2>1. Installed(header) \subseteq ChipIndices BY <1>1, HeaderIs
  <2>2. \A k \in Installed(header) : chips'[k].regs = chips[k].regs BY <2>1 DEF Subsides
  <2>3. QED BY <2>2 DEF ReadsBack, Stored
<1>5. QED BY <1>1, <1>3, <1>4 DEF SidInv, Apart

LEMMA SongOK ==
  ASSUME SidInv, NEW h \in Headers, NextSong(h)
  PROVE  /\ SidInv' /\ Idle(chips'[0].digi)
         /\ \A k \in ChipIndices : /\ chips'[k].digi.fm <= chips[k].digi.fm
                                   /\ chips'[k].digi.count <= chips[k].digi.count
<1>1. /\ header' = h /\ audible' \in BOOLEAN /\ slow' = slow /\ slow \in {0, 1}
      /\ io' = [a \in {Addr(h, c) + \h18 : c \in Installed(h)} |-> 15]
      /\ chips' = [c \in ChipIndices |->
                     IF c \in Installed(h) THEN ResetChip(chips[c], Is6581(h, c)) ELSE chips[c]]
  BY DEF NextSong, SidInv
<1>2. ASSUME NEW c \in ChipIndices
      PROVE  /\ ChipOK(chips'[c])
             /\ chips'[c].digi.fm <= chips[c].digi.fm /\ chips'[c].digi.count <= chips[c].digi.count
             /\ c \in Installed(h) => Idle(chips'[c].digi) /\ chips'[c].regs = FreshRegisters
  <2>1. ChipOK(chips[c]) /\ ChipTyped(chips[c]) BY DEF SidInv, ChipsOK, ChipOK
  <2>2. chips[c].digi.fm \in Int /\ chips[c].digi.count \in Int BY <2>1, CountsAreNumbers
  <2>3. CASE c \in Installed(h)
    <3>1. chips'[c] = ResetChip(chips[c], Is6581(h, c)) BY <1>1, <2>3
    <3>2. QED BY <2>1, <2>2, <3>1, ResetChipIs
  <2>4. CASE c \notin Installed(h)
    <3>1. chips'[c] = chips[c] BY <1>1, <2>4
    <3>2. QED BY <2>1, <2>2, <2>4, <3>1
  <2>5. QED BY <2>3, <2>4
<1>3. chips' = [c \in ChipIndices |-> chips'[c]] BY <1>1
<1>4. ChipsOK' BY <1>1, <1>2, <1>3 DEF ChipsOK
<1>5. 0 \in ChipIndices /\ 0 \in Installed(h) BY HeaderIs DEF ChipIndices
<1>6. Idle(chips'[0].digi) BY <1>2, <1>5
<1>7. ReadsBack'
  <2>1. Installed(h) \subseteq ChipIndices BY HeaderIs
  <2> DEFINE shown(a) == IF a \in DOMAIN io' THEN io'[a] ELSE 0
  <2>2. ASSUME NEW c \in Installed(h), NEW r \in 0..30
        PROVE  chips'[c].regs[r] = shown(Addr(h, c) + r)
    <3>1. chips'[c].regs = FreshRegisters BY <1>2, <2>1
    <3>2. io' = [a \in {Addr(h, k) + \h18 : k \in Installed(h)} |-> 15] BY <1>1
    <3>3. FreshRegisters[r] = shown(Addr(h, c) + r) BY <3>2, FreshReads, Zenon
    <3>4. QED BY <3>1, <3>3
  <2>3. QED BY <1>1, <2>2 DEF ReadsBack, Stored
<1>8. io' = [a \in DOMAIN io' |-> io'[a]] BY <1>1
<1>9. QED BY <1>1, <1>2, <1>4, <1>6, <1>7, <1>8 DEF SidInv

LEMMA FrameSubsides ==
  ASSUME SidInv, EndFrame
  PROVE  /\ chips' = [k \in ChipIndices |-> chips'[k]] /\ slow' \in {0, 1}
         /\ \A k \in ChipIndices : Subsides(chips[k], chips'[k])
<1> DEFINE Due(c) == c \in Installed(header) /\ (slow + c + 1) % 2 = 0
<1>1. chips' = [c \in ChipIndices |->
                  IF Due(c) THEN [chips[c] EXCEPT !.digi = Lapsed(@)] ELSE chips[c]]
  BY DEF EndFrame
<1>2. slow' \in {0, 1}
  <2>1. NumberUsedChips(header) \in Nat BY HeaderIs DEF SidInv
  <2>2. slow \in {0, 1} BY DEF SidInv
  <2>3. slow' = (slow + NumberUsedChips(header)) % 2 BY DEF EndFrame
  <2>4. QED BY <2>1, <2>2, <2>3
<1> HIDE DEF Due
<1>3. ASSUME NEW c \in ChipIndices PROVE Subsides(chips[c], chips'[c])
  <2>1. ChipOK(chips[c]) BY DEF SidInv, ChipsOK
  <2>2. CASE Due(c)
    <3> DEFINE d == Lapsed(chips[c].digi)
               e == [chips[c] EXCEPT !.digi = d]
    <3>1. chips'[c] = e BY <1>1, <2>2
    <3>2. /\ DigiOK(d) /\ d.freq = chips[c].digi.freq /\ SamePulse(chips[c].digi, d)
          /\ d.fm <= chips[c].digi.fm /\ d.count <= chips[c].digi.count
      BY <2>1, LapsedIs DEF ChipOK, ChipTyped
    <3> HIDE DEF d
    <3>3. SameBut(chips[c], e, {"digi"}) /\ e.digi = d /\ ChipTyped(e)
      BY <2>1, <3>2, DigiChanged DEF ChipOK
    <3> HIDE DEF e
    <3>4. WidthsKnown(e) BY <2>1, <3>2, <3>3 DEF ChipOK, WidthsKnown, Known, SameBut, SamePulse
    <3>5. QED BY <3>1, <3>2, <3>3, <3>4 DEF Subsides, ChipOK, SameBut, SamePulse
  <2>3. CASE ~ Due(c)
    <3>1. chips'[c] = chips[c] BY <1>1, <2>3
    <3>2. QED BY <2>1, <3>1, CountsAreNumbers DEF Subsides
  <2>4. QED BY <2>2, <2>3
<1>4. QED BY <1>1, <1>2, <1>3

LEMMA ModelSubsides ==
  ASSUME SidInv, NEW is6581, SetModel(is6581)
  PROVE  /\ chips' = [k \in ChipIndices |-> chips'[k]]
         /\ \A k \in ChipIndices : Subsides(chips[k], chips'[k])
<1>1. chips' = [c \in ChipIndices |->
                  IF c \in Installed(header) THEN ResetModel(chips[c], is6581) ELSE chips[c]]
  BY DEF SetModel
<1>2. ASSUME NEW c \in ChipIndices PROVE Subsides(chips[c], chips'[c])
  <2>1. ChipOK(chips[c]) BY DEF SidInv, ChipsOK
  <2>2. chips[c].digi.fm \in Int /\ chips[c].digi.count \in Int BY <2>1, CountsAreNumbers
  <2>3. CASE c \in Installed(header)
    <3> DEFINE e == ResetModel(chips[c], is6581)
    <3>1. chips'[c] = e BY <1>1, <2>3
    <3>2. SameBut(chips[c], e, {"bus", "filter"}) /\ e.bus = 0 /\ FilterOK(e.filter)
      BY <2>1, ResetModelIs DEF ChipOK, ChipTyped
    <3> HIDE DEF e
    <3>3. 0 \in Bytes BY DEF Bytes
    <3>4. ChipOK(e) BY <2>1, <3>2, <3>3 DEF ChipOK, ChipTyped, WidthsKnown, SameBut
    <3>5. QED BY <2>2, <3>1, <3>2, <3>4 DEF Subsides, SameBut
  <2>4. CASE c \notin Installed(header)
    <3>1. chips'[c] = chips[c] BY <1>1, <2>4
    <3>2. QED BY <2>1, <2>2, <3>1 DEF Subsides
  <2>5. QED BY <2>3, <2>4
<1>3. QED BY <1>1, <1>2

LEMMA MuteSubsides ==
  ASSUME SidInv, NEW c \in ChipIndices, NEW v \in UserMutes, NEW on, Mute(c, v, on)
  PROVE  /\ chips' = [k \in ChipIndices |-> chips'[k]]
         /\ \A k \in ChipIndices : Subsides(chips[k], chips'[k])
<1> DEFINE voices == IF on THEN chips[c].muted \cup {v} ELSE chips[c].muted \ {v}
           e == [chips[c] EXCEPT !.muted = voices]
<1>1. chips = [k \in ChipIndices |-> chips[k]] /\ \A k \in ChipIndices : ChipOK(chips[k])
  BY DEF SidInv, ChipsOK
<1>2. chips' = [k \in ChipIndices |-> IF k = c THEN e ELSE chips[k]]
  BY <1>1 DEF Mute
<1>3. voices \subseteq 0..3
  <2>1. chips[c].muted \subseteq 0..3 /\ v \in 0..3 BY <1>1, SidAssumption DEF ChipOK, ChipTyped
  <2>2. QED BY <2>1
<1> HIDE DEF voices
<1>4. ChipOK(e) /\ SameBut(chips[c], e, {"muted"}) BY <1>1, <1>3, MutedIs
<1> HIDE DEF e
<1>5. ASSUME NEW k \in ChipIndices PROVE Subsides(chips[k], chips'[k])
  BY <1>1, <1>2, <1>4, CountsAreNumbers DEF Subsides, SameBut
<1>6. QED BY <1>2, <1>5

WriteStep(addr, value, gap) ==
  addr \in Nat /\ value \in Bytes /\ gap \in Nat \ {0} /\ Write(addr, value, gap)

(* Every other step ends or loses samples at most.                         *)
NoSample ==
  \A k \in ChipIndices : /\ chips'[k].digi.fm <= chips[k].digi.fm
                         /\ chips'[k].digi.count <= chips[k].digi.count

LEMMA WriteIsTyped ==
  ASSUME SidInv, NEW t \in Targets[header], NEW gap \in Gaps, Write(t[1], t[2], gap)
  PROVE  WriteStep(t[1], t[2], gap)
BY SidAssumption DEF SidInv, WriteStep

LEMMA OtherSteps ==
  ASSUME SidInv,
         \/ \E h \in Headers : NextSong(h)
         \/ EndFrame
         \/ \E model \in Models : SetModel(model = 6581)
         \/ \E c \in ChipIndices, v \in UserMutes, on \in BOOLEAN : Mute(c, v, on)
         \/ UNCHANGED vars
  PROVE  /\ SidInv' /\ NoSample
         /\ Idle(chips'[0].digi) \/ chips'[0].digi.freq = chips[0].digi.freq
<1>1. ASSUME header' = header, io' = io, audible' = audible, slow' \in {0, 1},
             chips' = [k \in ChipIndices |-> chips'[k]],
             \A k \in ChipIndices : Subsides(chips[k], chips'[k])
      PROVE  SidInv' /\ NoSample /\ chips'[0].digi.freq = chips[0].digi.freq
  <2>1. SidInv' BY <1>1, SubsidesOK
  <2>2. 0 \in ChipIndices BY DEF ChipIndices
  <2>3. QED BY <1>1, <2>1, <2>2 DEF Subsides, NoSample
<1>2. slow \in {0, 1} BY DEF SidInv
<1>3. CASE \E h \in Headers : NextSong(h)
  <2>1. PICK h \in Headers : NextSong(h) BY <1>3
  <2>2. QED BY <2>1, SongOK DEF NoSample
<1>4. CASE EndFrame
  <2>1. header' = header /\ io' = io /\ audible' = audible BY <1>4 DEF EndFrame
  <2>2. QED BY <1>1, <1>4, <2>1, FrameSubsides
<1>5. CASE \E model \in Models : SetModel(model = 6581)
  <2>1. PICK model \in Models : SetModel(model = 6581) BY <1>5
  <2>2. header' = header /\ io' = io /\ audible' = audible /\ slow' = slow BY <2>1 DEF SetModel
  <2>3. QED BY <1>1, <1>2, <2>1, <2>2, ModelSubsides
<1>6. CASE \E c \in ChipIndices, v \in UserMutes, on \in BOOLEAN : Mute(c, v, on)
  <2>1. PICK c \in ChipIndices, v \in UserMutes, on \in BOOLEAN : Mute(c, v, on) BY <1>6
  <2>2. header' = header /\ io' = io /\ audible' = audible /\ slow' = slow BY <2>1 DEF Mute
  <2>3. QED BY <1>1, <1>2, <2>1, <2>2, MuteSubsides
<1>7. CASE UNCHANGED vars
  <2>1. /\ header' = header /\ io' = io /\ audible' = audible /\ slow' = slow /\ chips' = chips
    BY <1>7 DEF vars
  <2>2. chips = [k \in ChipIndices |-> chips[k]] /\ \A k \in ChipIndices : ChipOK(chips[k])
    BY DEF SidInv, ChipsOK
  <2>3. \A k \in ChipIndices : Subsides(chips[k], chips'[k])
    BY <2>1, <2>2, CountsAreNumbers DEF Subsides
  <2>4. QED BY <1>1, <1>2, <2>1, <2>2, <2>3
<1>8. QED BY <1>3, <1>4, <1>5, <1>6, <1>7

LEMMA Step ==
  ASSUME SidInv, [Next]_vars
  PROVE  SidInv' /\ (NoSample \/ \E addr, value, gap : WriteStep(addr, value, gap))
<1>1. CASE \E t \in Targets[header], gap \in Gaps : Write(t[1], t[2], gap)
  <2>1. PICK t \in Targets[header], gap \in Gaps : Write(t[1], t[2], gap) BY <1>1
  <2>2. WriteStep(t[1], t[2], gap) BY <2>1, WriteIsTyped
  <2>3. SidInv' BY <2>2, WriteOK DEF WriteStep
  <2>4. QED BY <2>2, <2>3
<1>2. CASE \/ \E h \in Headers : NextSong(h)
           \/ EndFrame
           \/ \E model \in Models : SetModel(model = 6581)
           \/ \E c \in ChipIndices, v \in UserMutes, on \in BOOLEAN : Mute(c, v, on)
           \/ UNCHANGED vars
  BY <1>2, OtherSteps
<1>3. QED BY <1>1, <1>2 DEF Next

LEMMA Invariant == Spec => []SidInv
<1>1. Init => SidInv BY InitOK
<1>2. SidInv /\ [Next]_vars => SidInv' BY Step
<1>3. QED BY <1>1, <1>2, PTL DEF Spec

-----------------------------------------------------------------------------
(* Theorems.                                                               *)

(* The registers, the filters and the detectors of all chips have their    *)
(* types, for every header and whatever is written (sid.cpp, digi.cpp,     *)
(* filter.cpp).                                                            *)
THEOREM SidTypes == Spec => []TypeOK
<1>1. SidInv => TypeOK
  <2> SUFFICES ASSUME SidInv PROVE TypeOK OBVIOUS
  <2>1. ASSUME NEW c \in ChipIndices
        PROVE  /\ chips[c].bus \in 0..255 /\ chips[c].muted \subseteq 0..3
               /\ \A r \in Registers : chips[c].regs[r] \in 0..255
               /\ chips[c].digi.source \in -1..3 /\ chips[c].digi.src \in 0..3
               /\ chips[c].digi.sample \in 0..255
               /\ chips[c].filter.reg[\h15] \in -1..7
    <3>1. ChipTyped(chips[c]) BY DEF SidInv, ChipsOK, ChipOK
    <3>2. QED BY <3>1 DEF ChipTyped, FilterOK, DigiOK, DigiTyped, Bytes
  <2>2. QED BY <2>1 DEF TypeOK, SidInv
<1>2. QED BY <1>1, Invariant, PTL

(* A chip whose samples count as those of the volume register has no voice *)
(* as their source, and one whose samples count as those of a pulse width  *)
(* has one (assertSameSource), whatever techniques a song mixes.           *)
THEOREM SampleSources == Spec => []SourceOfSample
<1>1. SidInv => SourceOfSample
  BY DEF SidInv, ChipsOK, ChipOK, ChipTyped, DigiOK, Sourced, SourceOfSample
<1>2. QED BY <1>1, Invariant, PTL

(* As long as no two chips of a song share an address, the I/O area shows  *)
(* at a chip's addresses what the chip holds (memSet and _mem2sid in       *)
(* sid.cpp; isMahoneyDigi reads it), for every song and order of writes.   *)
THEOREM ChipsReadBack == Spec => [](Apart(header) => ReadsBack)
<1>1. SidInv => (Apart(header) => ReadsBack) BY DEF SidInv
<1>2. QED BY <1>1, Invariant, PTL

(* A sample played through the pulse width is the width written last       *)
(* (handlePulseModulationDigi).                                            *)
THEOREM SampleIsLastWidth == Spec => LastWidth
<1> DEFINE A == \A c \in ChipIndices, v \in DigiVoices :
                  (/\ chips[c].digi.pulse[v].state \in {"confirm", "confirm2"}
                   /\ chips'[c].digi.count > chips[c].digi.count /\ chips'[c].digi.used = "PWMTest")
                  => \/ chips'[c].digi.src # v + 1
                     \/ chips'[c].digi.sample = chips'[c].regs[7 * v + 2]
<1>1. ASSUME SidInv, [Next]_vars PROVE A
  <2> SUFFICES ASSUME NEW c \in ChipIndices, NEW v \in DigiVoices,
                      chips'[c].digi.count > chips[c].digi.count,
                      chips'[c].digi.used = "PWMTest", chips'[c].digi.src = v + 1
               PROVE  chips'[c].digi.sample = chips'[c].regs[7 * v + 2]
    OBVIOUS
  <2>1. ChipOK(chips[c]) /\ ChipOK(chips'[c]) BY <1>1, Step DEF SidInv, ChipsOK
  <2>2. /\ chips[c].digi.count \in Int /\ chips'[c].digi.count \in Int BY <2>1, CountsAreNumbers
  <2>3. ~ NoSample BY <2>2 DEF NoSample
  <2>4. PICK addr, value, gap : WriteStep(addr, value, gap) BY <1>1, <2>3, Step
  <2>5. \/ Touched(chips[c], chips'[c], addr, value, gap)
        \/ Waited(chips[c], chips'[c], gap)
    BY <1>1, <2>4, ChipsWritten DEF WriteStep
  <2>6. ~ Waited(chips[c], chips'[c], gap) BY <2>2 DEF Waited, AgedFrom, SameSamples
  <2>7. PICK a, d : /\ AgedFrom(chips[c].digi, a, gap) /\ Heeds(a, d, addr % 32, value)
                    /\ AgedFrom(d, chips'[c].digi, 0)
    BY <2>5, <2>6 DEF Touched
  <2>8. ~ Deaf(header) BY <2>2, <2>7 DEF Heeds, AgedFrom, SameSamples
  <2> DEFINE u == VoiceOf(addr % 32)
  <2>9. Detects(a, d, addr % 32, value) BY <2>7, <2>8 DEF Heeds
  <2>10. /\ d.src = u + 1 /\ (addr % 32) - 7 * u = 4 /\ d.sample = a.pulse[u].width
         /\ a.pulse[u].state \in {"confirm", "confirm2"}
    BY <2>2, <2>7, <2>9 DEF Detects, AgedFrom, SameSamples
  <2>11. u \in DigiVoices BY VoiceOfType
  <2>12. u = v BY <2>7, <2>10, <2>11 DEF AgedFrom, SameSamples, DigiVoices
  <2> HIDE DEF u
  <2>13. d.sample = chips[c].regs[7 * v + 2]
    BY <2>1, <2>7, <2>10, <2>12 DEF AgedFrom, ChipOK, WidthsKnown, Known, Sure
  <2>14. chips'[c].regs[7 * v + 2] = chips[c].regs[7 * v + 2]
    <3>1. chips'[c].regs = [chips[c].regs EXCEPT ![addr % 32] = value]
      BY <2>5, <2>6 DEF Touched
    <3>2. addr % 32 = 7 * v + 4 BY <2>4, <2>10, <2>12 DEF WriteStep, DigiVoices
    <3>3. 7 * v + 2 \in Registers /\ 7 * v + 2 # 7 * v + 4 BY WidthRegister DEF DigiVoices
    <3>4. QED BY <2>1, <3>1, <3>2, <3>3 DEF ChipOK, ChipTyped
  <2>15. QED BY <2>7, <2>13, <2>14 DEF AgedFrom, SameSamples
<1>2. SidInv /\ [Next]_vars => [A]_vars BY <1>1
<1>3. QED BY <1>2, Invariant, PTL DEF Spec, LastWidth

-----------------------------------------------------------------------------
(* The writes of the frequency technique.                                  *)
LEMMA SeenStep ==
  ASSUME SidInv, SeenOK, [MCNext]_mcvars
  PROVE  /\ SeenOK' /\ [Next]_vars
         /\ \/ NoSample
            \/ \E addr, value, gap : WriteStep(addr, value, gap) /\ seen' = See(addr, value, gap)
<1>1. CASE \E t \in Targets[header], gap \in Gaps :
             Write(t[1], t[2], gap) /\ seen' = See(t[1], t[2], gap)
  <2>1. PICK t \in Targets[header], gap \in Gaps :
               Write(t[1], t[2], gap) /\ seen' = See(t[1], t[2], gap)
    BY <1>1
  <2>2. WriteStep(t[1], t[2], gap) BY <2>1, WriteIsTyped
  <2>3. SeenOK' BY <2>1, <2>2, SeenWritten DEF WriteStep
  <2>4. Next BY <2>1 DEF Next
  <2>5. QED BY <2>1, <2>2, <2>3, <2>4
<1>2. CASE /\ seen' = seen
           /\ \/ \E h \in Headers : NextSong(h)
              \/ EndFrame
              \/ \E model \in Models : SetModel(model = 6581)
              \/ \E c \in ChipIndices, v \in UserMutes, on \in BOOLEAN : Mute(c, v, on)
              \/ UNCHANGED vars
  <2>1. NoSample /\ (Idle(chips'[0].digi) \/ chips'[0].digi.freq = chips[0].digi.freq)
    BY <1>2, OtherSteps
  <2>2. SeenOK' BY <1>2, <2>1, FreqIdle DEF SeenOK
  <2>3. [Next]_vars BY <1>2 DEF Next
  <2>4. QED BY <2>1, <2>2, <2>3
<1>3. QED BY <1>1, <1>2 DEF MCNext, mcvars

LEMMA SeenInvariant == MCSpec => []IInv
<1>1. MCInit => IInv
  <2> SUFFICES ASSUME MCInit PROVE IInv OBVIOUS
  <2>1. SidInv /\ Idle(chips[0].digi) BY InitOK DEF MCInit
  <2>2. seen \in [DigiVoices -> [tri : 0..Long, test : 0..Long]] BY DEF MCInit, Long
  <2>3. QED BY <2>1, <2>2, FreqIdle DEF IInv, SeenOK
<1>2. IInv /\ [MCNext]_mcvars => IInv' BY SeenStep, Step DEF IInv
<1>3. QED BY <1>1, <1>2, PTL DEF MCSpec

(* A sample of the frequency technique has followed a triangle and then a  *)
(* test write to the same voice of the chip, each within its time limit    *)
(* (handleFreqModulationDigi), for all songs and all delays between their  *)
(* writes.                                                                 *)
THEOREM FrequencyDocumented == MCSpec => Documented
<1> DEFINE A == \A v \in DigiVoices :
                  (chips'[0].digi.fm > chips[0].digi.fm /\ chips'[0].digi.src = v + 1)
                  => /\ seen[v].test < seen[v].tri
                     /\ seen[v].tri - seen[v].test < FreqTimeout0
                     /\ seen'[v].test < 2 * FreqTimeout
<1>1. ASSUME IInv, [MCNext]_mcvars PROVE A
  <2> SUFFICES ASSUME NEW v \in DigiVoices, chips'[0].digi.fm > chips[0].digi.fm,
                      chips'[0].digi.src = v + 1
               PROVE  /\ seen[v].test < seen[v].tri
                      /\ seen[v].tri - seen[v].test < FreqTimeout0
                      /\ seen'[v].test < 2 * FreqTimeout
    OBVIOUS
  <2>0. 0 \in ChipIndices BY DEF ChipIndices
  <2>1. SidInv /\ SeenOK /\ ChipOK(chips[0]) /\ ChipOK(chips'[0])
    BY <1>1, <2>0, SeenStep, Step DEF IInv, SidInv, ChipsOK
  <2>2. chips[0].digi.fm \in Int /\ chips'[0].digi.fm \in Int BY <2>1, CountsAreNumbers
  <2>3. ~ NoSample BY <2>0, <2>2 DEF NoSample
  <2>4. PICK addr, value, gap : WriteStep(addr, value, gap) /\ seen' = See(addr, value, gap)
    BY <1>1, <2>1, <2>3, SeenStep
  <2>5. \/ Touched(chips[0], chips'[0], addr, value, gap)
        \/ Waited(chips[0], chips'[0], gap)
    BY <2>0, <2>1, <2>4, ChipsWritten DEF WriteStep
  <2>6. ~ Waited(chips[0], chips'[0], gap) BY <2>2 DEF Waited, AgedFrom, SameSamples
  <2>7. PICK a, d : /\ AgedFrom(chips[0].digi, a, gap) /\ Heeds(a, d, addr % 32, value)
                    /\ AgedFrom(d, chips'[0].digi, 0)
    BY <2>5, <2>6 DEF Touched
  <2>8. ~ Deaf(header) BY <2>2, <2>7 DEF Heeds, AgedFrom, SameSamples
  <2> DEFINE u == VoiceOf(addr % 32)
  <2>9. Detects(a, d, addr % 32, value) BY <2>7, <2>8 DEF Heeds
  <2>10. /\ d.src = u + 1 /\ a.freq[u].state \in {"variant1", "variant2"}
         /\ a.freq[u].age < FreqTimeout
    BY <2>2, <2>7, <2>9 DEF Detects, AgedFrom, SameSamples
  <2>11. u \in DigiVoices BY VoiceOfType
  <2>12. u = v BY <2>7, <2>10, <2>11 DEF AgedFrom, SameSamples, DigiVoices
  <2> HIDE DEF u
  <2> DEFINE f == chips[0].digi.freq[v]
  <2>13. /\ f.state = a.freq[v].state /\ f.age \in 0..Stale
         /\ a.freq[v].age = Elapse(f.age, gap, FreqLimit(f.state))
    BY <2>1, <2>7, FreqTyped DEF AgedFrom, ChipOK, ChipTyped
  <2> HIDE DEF f
  <2>14. f.age + gap < FreqTimeout /\ f.state \in {"variant1", "variant2"} /\ gap \in Nat
    <3>1. FreqLimit(f.state) = FreqTimeout BY <2>10, <2>12, <2>13 DEF FreqLimit
    <3>2. FreqTimeout \in 0..Stale BY DEF FreqTimeout, Stale, FreqTimeout0
    <3>3. gap \in Nat BY <2>4 DEF WriteStep
    <3>4. QED BY <2>10, <2>12, <2>13, <3>1, <3>2, <3>3, ElapseType
  <2>15. f.age < FreqTimeout /\ f.age \in Nat BY <2>13, <2>14 DEF FreqTimeout, Stale, FreqTimeout0
  <2>16. seen[v] \in Ages /\ FreqSeen(f, seen[v]) BY <2>1 DEF SeenOK, Ages, f
  <2>17. /\ seen[v].test < seen[v].tri /\ seen[v].tri - seen[v].test < FreqTimeout0
         /\ seen[v].test <= f.age + 17
    BY <2>14, <2>15, <2>16 DEF FreqSeen, Ages
  <2>18. seen'[v].test \in {0, Older(seen[v].test, gap)}
    BY <2>4 DEF See
  <2>19. Older(seen[v].test, gap) < 2 * FreqTimeout
    BY <2>14, <2>15, <2>16, <2>17 DEF Older, Long, FreqTimeout, Ages
  <2>20. 0 < 2 * FreqTimeout BY DEF FreqTimeout
  <2>21. QED BY <2>17, <2>18, <2>19, <2>20
<1>2. IInv /\ [MCNext]_mcvars => [A]_mcvars BY <1>1
<1>3. QED BY <1>2, SeenInvariant, PTL DEF MCSpec, Documented
-----------------------------------------------------------------------------
(* Envelope generators.                                                    *)

(* Clocks until a rate counter l matches a threshold t that stays: up to   *)
(* the threshold if that is still ahead, else once around.                 *)
Left(l, t) == IF l < t THEN t - l ELSE LfsrLimit - l + t

(* The clocks spent waiting and those left never exceed a full round: the  *)
(* reason for StepsInTime, which is not inductive by itself.               *)
WithinARound == waited + Left(lfsr, Threshold) <= LfsrLimit

EnvelopeInv == EnvelopeTypeOK /\ GateDecidesPhase /\ SilenceIsLocked /\ WithinARound

(* What the proofs need of the constants.                                  *)
LEMMA LimitIsPositive == LfsrLimit \in Nat /\ LfsrLimit > 1
  BY EnvelopeAssumption

LEMMA Ranges == /\ LfsrLimit \in Nat /\ LfsrLimit > 1
                /\ MaxPokes \in Nat /\ MaxSince \in Nat
                /\ FirstPeriod \in Periods /\ 0 \in Level
                /\ \A l \in Level : Delays[l] \in Nat \ {0}
  BY LimitIsPositive, EnvelopeAssumption DEF Level

LEMMA PeriodRange == \A p \in Periods : p \in 1 .. LfsrLimit - 1
  BY EnvelopeAssumption

(* A phase is compared with one of the three periods.                      *)
LEMMA ThresholdType == EnvelopeTypeOK => Threshold \in 1 .. LfsrLimit - 1
  BY PeriodRange DEF EnvelopeTypeOK, Threshold, Phases

(* The bound that the code's notes on the ADSR bug give.                   *)
LEMMA RoundIsInTime == EnvelopeInv => StepsInTime
<1>1. SUFFICES ASSUME EnvelopeInv PROVE StepsInTime OBVIOUS
<1>2. Threshold \in 1 .. LfsrLimit - 1 BY <1>1, ThresholdType DEF EnvelopeInv
<1>3. lfsr \in 0 .. LfsrLimit - 1 /\ waited \in Nat BY <1>1 DEF EnvelopeInv, EnvelopeTypeOK
<1>4. QED BY <1>1, <1>2, <1>3, LimitIsPositive
             DEF EnvelopeInv, WithinARound, StepsInTime, Left

LEMMA InitEnvelope == EnvelopeInit => EnvelopeInv
<1>1. SUFFICES ASSUME EnvelopeInit PROVE EnvelopeInv OBVIOUS
<1>2. EnvelopeTypeOK
  <2>1. gate \in BOOLEAN /\ zero_lock \in BOOLEAN /\ opened \in BOOLEAN
    BY <1>1 DEF EnvelopeInit
  <2>2. /\ attack \in Periods /\ decay \in Periods /\ release \in Periods
        /\ sustain \in Levels \cup {0} /\ envphase \in Phases /\ level \in Level
    BY <1>1, Ranges DEF EnvelopeInit, Phases
  <2>3. /\ lfsr \in 0 .. LfsrLimit - 1 /\ expCounter \in 0 .. Delays[level] - 1
        /\ pokes \in 0 .. MaxPokes /\ waited \in Nat /\ since \in -1 .. MaxSince
    BY <1>1, Ranges DEF EnvelopeInit
  <2>4. QED BY <2>1, <2>2, <2>3 DEF EnvelopeTypeOK
<1>3. GateDecidesPhase /\ SilenceIsLocked
  BY <1>1 DEF EnvelopeInit, GateDecidesPhase, SilenceIsLocked
<1>4. WithinARound
  <2>1. Threshold \in 1 .. LfsrLimit - 1 BY <1>2, ThresholdType
  <2>2. QED BY <1>1, <2>1, EnvelopeAssumption DEF EnvelopeInit, WithinARound, Left
<1>5. QED BY <1>2, <1>3, <1>4 DEF EnvelopeInv

(* What a step leaves of WithinARound, for any next threshold t.           *)
LEMMA ThresholdNext == EnvelopeTypeOK' => \E t \in 1 .. LfsrLimit - 1 : Threshold' = t
  BY PeriodRange DEF EnvelopeTypeOK, Threshold, Phases

(* A counter that starts anew.                                             *)
LEMMA FreshRound ==
  ASSUME EnvelopeTypeOK', lfsr' = 0, waited' = 0 PROVE WithinARound'
<1>1. PICK t \in 1 .. LfsrLimit - 1 : Threshold' = t BY ThresholdNext
<1>2. 0 + Left(0, t) <= LfsrLimit BY LimitIsPositive DEF Left
<1>3. QED BY <1>1, <1>2 DEF WithinARound

(* Writes.  Either the threshold stays, and with it what remains, or the   *)
(* observer starts anew.                                                   *)
LEMMA PokeWaits ==
  ASSUME EnvelopeInv, EnvelopeTypeOK', Poked, lfsr' = lfsr PROVE WithinARound'
<1>1. PICK t \in 1 .. LfsrLimit - 1 : Threshold' = t BY ThresholdNext
<1>2. lfsr \in 0 .. LfsrLimit - 1 BY DEF EnvelopeInv, EnvelopeTypeOK
<1>3. waited' = IF t = Threshold THEN waited ELSE 0 BY <1>1 DEF Poked
<1>4. waited' + Left(lfsr, t) <= LfsrLimit
  BY <1>2, <1>3, LimitIsPositive DEF EnvelopeInv, WithinARound, Left
<1>5. QED BY <1>1, <1>4 DEF WithinARound

LEMMA PokeKeeps == EnvelopeInv /\ PokeEnvelope => EnvelopeInv'
<1>1. SUFFICES ASSUME EnvelopeInv, PokeEnvelope PROVE EnvelopeInv' OBVIOUS
<1>2. CASE \E new \in BOOLEAN : PokeControl(new)
  <2>1. PICK new \in BOOLEAN : PokeControl(new) BY <1>2
  <2>2. EnvelopeTypeOK'
    <3>1. gate' \in BOOLEAN /\ zero_lock' \in BOOLEAN /\ opened' \in BOOLEAN
      BY <1>1, <2>1 DEF EnvelopeInv, EnvelopeTypeOK, PokeControl, Poked
    <3>2. envphase' \in Phases BY <1>1, <2>1 DEF EnvelopeInv, EnvelopeTypeOK, PokeControl, Phases
    <3>3. pokes' \in 0 .. MaxPokes /\ waited' \in Nat /\ since' \in -1 .. MaxSince
      BY <1>1, <2>1, Ranges DEF EnvelopeInv, EnvelopeTypeOK, PokeControl, Poked
    <3>4. QED BY <1>1, <2>1, <3>1, <3>2, <3>3 DEF EnvelopeInv, EnvelopeTypeOK, PokeControl
  <2>3. GateDecidesPhase' BY <1>1, <2>1 DEF EnvelopeInv, GateDecidesPhase, PokeControl
  <2>4. SilenceIsLocked'
    BY <1>1, <2>1 DEF EnvelopeInv, EnvelopeTypeOK, SilenceIsLocked, PokeControl, Poked
  <2>5. WithinARound' BY <1>1, <2>1, <2>2, PokeWaits DEF PokeControl
  <2>6. QED BY <2>2, <2>3, <2>4, <2>5 DEF EnvelopeInv
<1>3. CASE \E a, d \in Periods : PokeAD(a, d)
  <2>1. PICK a \in Periods, d \in Periods : PokeAD(a, d) BY <1>3
  <2>2. EnvelopeTypeOK'
    BY <1>1, <2>1, Ranges DEF EnvelopeInv, EnvelopeTypeOK, PokeAD, Poked
  <2>3. GateDecidesPhase' /\ SilenceIsLocked'
    BY <1>1, <2>1 DEF EnvelopeInv, EnvelopeTypeOK, GateDecidesPhase, SilenceIsLocked, PokeAD, Poked
  <2>4. WithinARound' BY <1>1, <2>1, <2>2, PokeWaits DEF PokeAD
  <2>5. QED BY <2>2, <2>3, <2>4 DEF EnvelopeInv
<1>4. CASE \E s \in Levels, r \in Periods : PokeSR(s, r)
  <2>1. PICK s \in Levels, r \in Periods : PokeSR(s, r) BY <1>4
  <2>2. EnvelopeTypeOK'
    BY <1>1, <2>1, Ranges DEF EnvelopeInv, EnvelopeTypeOK, PokeSR, Poked
  <2>3. GateDecidesPhase' /\ SilenceIsLocked'
    BY <1>1, <2>1 DEF EnvelopeInv, EnvelopeTypeOK, GateDecidesPhase, SilenceIsLocked, PokeSR, Poked
  <2>4. WithinARound' BY <1>1, <2>1, <2>2, PokeWaits DEF PokeSR
  <2>5. QED BY <2>2, <2>3, <2>4 DEF EnvelopeInv
<1>5. QED BY <1>1, <1>2, <1>3, <1>4 DEF PokeEnvelope

LEMMA ResetKeeps == EnvelopeInv /\ Reset => EnvelopeInv'
<1>1. SUFFICES ASSUME EnvelopeInv, Reset PROVE EnvelopeInv' OBVIOUS
<1>2. EnvelopeTypeOK'
  <2>1. gate' \in BOOLEAN /\ zero_lock' \in BOOLEAN /\ opened' \in BOOLEAN
    BY <1>1 DEF Reset
  <2>2. /\ attack' \in Periods /\ decay' \in Periods /\ release' \in Periods
        /\ sustain' \in Levels \cup {0} /\ envphase' \in Phases /\ level' \in Level
    BY <1>1, Ranges DEF Reset, Phases
  <2>3. /\ lfsr' \in 0 .. LfsrLimit - 1 /\ expCounter' \in 0 .. Delays[level]' - 1
        /\ pokes' \in 0 .. MaxPokes /\ waited' \in Nat /\ since' \in -1 .. MaxSince
    BY <1>1, Ranges DEF EnvelopeInv, EnvelopeTypeOK, Reset
  <2>4. QED BY <2>1, <2>2, <2>3 DEF EnvelopeTypeOK
<1>3. GateDecidesPhase' /\ SilenceIsLocked'
  BY <1>1 DEF Reset, GateDecidesPhase, SilenceIsLocked
<1>4. WithinARound' BY <1>1, <1>2, FreshRound DEF Reset
<1>5. QED BY <1>2, <1>3, <1>4 DEF EnvelopeInv

(* Clocks.                                                                 *)
LEMMA CountType == EnvelopeTypeOK => CountedUp \in 0 .. LfsrLimit - 1
  BY LimitIsPositive DEF EnvelopeTypeOK, CountedUp

LEMMA LevelType == \A l \in Level : Up(l) \in Level /\ Down(l) \in Level
  BY EnvelopeAssumption DEF Level, Up, Down

(* The counter of the delay starts anew with each change of the level.     *)
LEMMA DelayType ==
  ASSUME EnvelopeTypeOK, Clock, level' \in Level
  PROVE  expCounter' \in 0 .. Delays[level'] - 1
<1>1. Delays[level] \in Nat \ {0} /\ Delays[level'] \in Nat \ {0}
  BY Ranges DEF EnvelopeTypeOK
<1>2. CASE expCounter' = 0 BY <1>1, <1>2
<1>3. CASE expCounter' # 0
  <2>1. level' = level
    BY <1>3 DEF Clock, ClockAttack, ClockDecay, ClockSustain, ClockRelease,
                ExponentialDelay, DelayOver
  <2>2. \/ expCounter' = expCounter
        \/ expCounter' = expCounter + 1 /\ Matches /\ ~ DelayOver
    BY <1>3 DEF Clock, ClockAttack, ClockDecay, ClockSustain, ClockRelease,
                ExponentialDelay
  <2>3. expCounter \in 0 .. Delays[level] - 1 BY DEF EnvelopeTypeOK
  <2>4. CASE expCounter' = expCounter BY <2>1, <2>3, <2>4
  <2>5. CASE expCounter' = expCounter + 1 /\ Matches /\ ~ DelayOver
    BY <1>1, <2>1, <2>3, <2>5 DEF DelayOver
  <2>6. QED BY <2>2, <2>4, <2>5
<1>4. QED BY <1>2, <1>3

LEMMA ClockType == EnvelopeTypeOK /\ Clock => EnvelopeTypeOK'
<1>1. SUFFICES ASSUME EnvelopeTypeOK, Clock PROVE EnvelopeTypeOK' OBVIOUS
<1>2. CountedUp \in 0 .. LfsrLimit - 1 BY <1>1, CountType
<1>3. /\ lfsr' \in 0 .. LfsrLimit - 1 /\ envphase' \in Phases /\ level' \in Level
      /\ zero_lock' \in BOOLEAN
  <2>1. CASE ClockAttack
    BY <1>1, <1>2, <2>1, LevelType, Ranges
       DEF EnvelopeTypeOK, ClockAttack, Count, Lock, Phases
  <2>2. CASE ClockDecay
    BY <1>1, <1>2, <2>2, LevelType, Ranges
       DEF EnvelopeTypeOK, ClockDecay, Count, Lock, Phases
  <2>3. CASE ClockSustain
    BY <1>1, <1>2, <2>3, Ranges DEF EnvelopeTypeOK, ClockSustain, Count, Lock, Phases
  <2>4. CASE ClockRelease
    BY <1>1, <1>2, <2>4, LevelType, Ranges
       DEF EnvelopeTypeOK, ClockRelease, Count, Lock, Phases
  <2>5. QED BY <1>1, <2>1, <2>2, <2>3, <2>4 DEF Clock
<1>4. since' \in -1 .. MaxSince
  BY <1>1, EnvelopeAssumption DEF EnvelopeTypeOK, Clock
<1>5. expCounter' \in 0 .. Delays[level'] - 1 BY <1>1, <1>3, DelayType
<1>6. QED BY <1>1, <1>3, <1>4, <1>5 DEF EnvelopeTypeOK, Clock, registers

LEMMA ClockSilence == EnvelopeInv /\ Clock => SilenceIsLocked'
<1>1. SUFFICES ASSUME EnvelopeInv, Clock PROVE SilenceIsLocked' OBVIOUS
<1>2. level \in Level /\ zero_lock \in BOOLEAN /\ opened \in BOOLEAN BY <1>1 DEF EnvelopeInv, EnvelopeTypeOK
<1>3. level' \in Level BY <1>1, ClockType DEF EnvelopeInv, EnvelopeTypeOK
<1>4. zero_lock => level' = level
  BY <1>1 DEF Clock, ClockAttack, ClockDecay, ClockSustain, ClockRelease
<1>5. zero_lock' = (zero_lock \/ (level' = 0 /\ level > 0))
  BY <1>1 DEF Clock, ClockAttack, ClockDecay, ClockSustain, ClockRelease, Lock
<1>6. opened' = (opened /\ level' = level) BY <1>1 DEF Clock
<1>7. zero_lock' => level' = 0
  BY <1>1, <1>4, <1>5 DEF EnvelopeInv, SilenceIsLocked
<1>8. ASSUME level' = 0 PROVE zero_lock' \/ opened'
  <2>1. CASE level = 0 BY <1>1, <1>5, <1>6, <1>8, <2>1 DEF EnvelopeInv, SilenceIsLocked
  <2>2. CASE level # 0
    <3>1. level > 0 BY <1>2, <2>2, EnvelopeAssumption DEF Level
    <3>2. QED BY <1>5, <1>8, <3>1
  <2>3. QED BY <2>1, <2>2
<1>9. QED BY <1>7, <1>8 DEF SilenceIsLocked

(* A clock brings the match nearer or is one; only a match may change the  *)
(* period, as the phases Decay and Sustain share theirs.                   *)
LEMMA ClockRound == EnvelopeInv /\ Clock => WithinARound'
<1>1. SUFFICES ASSUME EnvelopeInv, Clock PROVE WithinARound' OBVIOUS
<1>2. EnvelopeTypeOK' BY <1>1, ClockType DEF EnvelopeInv
<1>3. Threshold \in 1 .. LfsrLimit - 1 BY <1>1, ThresholdType DEF EnvelopeInv
<1>4. Threshold' \in 1 .. LfsrLimit - 1
  BY <1>2, PeriodRange DEF EnvelopeTypeOK, Threshold, Phases
<1>5. lfsr \in 0 .. LfsrLimit - 1 /\ waited \in Nat BY <1>1 DEF EnvelopeInv, EnvelopeTypeOK
<1>6. lfsr' = IF Matches THEN 0 ELSE CountedUp
  BY <1>1 DEF Clock, ClockAttack, ClockDecay, ClockSustain, ClockRelease, Count
<1>7. waited' = IF Matches THEN 0 ELSE waited + 1 BY <1>1 DEF Clock
<1>8. CASE Matches BY <1>2, <1>6, <1>7, <1>8, FreshRound
<1>9. CASE ~ Matches
  <2>1. Threshold' = Threshold
    BY <1>1, <1>9 DEF Clock, ClockAttack, ClockDecay, ClockSustain, ClockRelease,
                      DelayOver, Threshold, registers
  <2>2. QED
    BY <1>1, <1>3, <1>5, <1>6, <1>7, <1>9, <2>1, EnvelopeAssumption
       DEF EnvelopeInv, WithinARound, Left, Matches, CountedUp
<1>10. QED BY <1>8, <1>9

LEMMA ClockKeeps == EnvelopeInv /\ Clock => EnvelopeInv'
<1>1. SUFFICES ASSUME EnvelopeInv, Clock PROVE EnvelopeInv' OBVIOUS
<1>2. GateDecidesPhase'
  BY <1>1 DEF EnvelopeInv, GateDecidesPhase, Clock, ClockAttack, ClockDecay, ClockSustain,
              ClockRelease, registers
<1>3. QED BY <1>1, <1>2, ClockType, ClockSilence, ClockRound DEF EnvelopeInv

LEMMA StepEnvelope == EnvelopeInv /\ [EnvelopeNext]_envelopeVars => EnvelopeInv'
<1>1. SUFFICES ASSUME EnvelopeInv, [EnvelopeNext]_envelopeVars PROVE EnvelopeInv' OBVIOUS
<1>2. CASE UNCHANGED envelopeVars
  BY <1>1, <1>2 DEF EnvelopeInv, EnvelopeTypeOK, GateDecidesPhase, SilenceIsLocked, WithinARound,
                    Left, Threshold, envelopeVars, registers
<1>3. QED BY <1>1, <1>2, ClockKeeps, PokeKeeps, ResetKeeps DEF EnvelopeNext

LEMMA EnvelopeInvariant == EnvelopeSpec => []EnvelopeInv
  BY InitEnvelope, StepEnvelope, PTL DEF EnvelopeSpec

(* The state of the envelope generator is well typed: the 8-bit level and  *)
(* the 15-bit rate counter stay in their ranges, and the 8-bit exponential *)
(* counter below the delay of the level.                                   *)
THEOREM EnvelopeTyped == EnvelopeSpec => []EnvelopeTypeOK
<1>1. EnvelopeInv => EnvelopeTypeOK BY DEF EnvelopeInv
<1>2. QED BY <1>1, EnvelopeInvariant, PTL

(* The gate bit of the wave generator and the phase of the envelope never  *)
(* disagree (SID::poke()).                                                 *)
THEOREM EveryEdgeSeen == EnvelopeSpec => []GateDecidesPhase
<1>1. EnvelopeInv => GateDecidesPhase BY DEF EnvelopeInv
<1>2. QED BY <1>1, EnvelopeInvariant, PTL

(* A lock is only set in silence, and silence is locked (envelope.cpp:333).*)
THEOREM SilenceLocked == EnvelopeSpec => []SilenceIsLocked
<1>1. EnvelopeInv => SilenceIsLocked BY DEF EnvelopeInv
<1>2. QED BY <1>1, EnvelopeInvariant, PTL

(* The ADSR bug delays a step by less than a round of the rate counter     *)
(* (envelope.cpp:360-362), whatever the rates and the writes.              *)
THEOREM AdsrBugBounded == EnvelopeSpec => []StepsInTime
  BY RoundIsInTime, EnvelopeInvariant, PTL
=============================================================================

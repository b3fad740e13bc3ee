------------------------------ MODULE Envelope ------------------------------
(***************************************************************************)
(* The envelope generator of a SID voice (src/envelope.cpp), with the gate *)
(* bit it reads from the voice's wave generator.                           *)
(*                                                                         *)
(* The chip's tables and widths are parameters.  Of the registers only     *)
(* what the generator caches of them is kept: periods and sustain level.   *)
(***************************************************************************)
EXTENDS Integers

CONSTANTS
  LfsrLimit,    \* $8000
  Periods,      \* the values of COUNTER_PERIOD
  FirstPeriod,  \* ... and the first of them
  MaxLevel,     \* 255
  Delays,       \* EXPONENTIAL_DELAYS, by level
  Levels,       \* sustain levels: a nibble, twice
  MaxPokes,     \* bound: writes to the voice
  MaxSince      \* bound: clocks that "since" counts

Level == 0 .. MaxLevel

ASSUME EnvelopeAssumption ==
  /\ LfsrLimit \in Nat /\ MaxLevel \in Nat \ {0}
  /\ MaxPokes \in Nat /\ MaxSince \in Nat
  /\ Periods \subseteq 1 .. LfsrLimit - 1 /\ FirstPeriod \in Periods
  /\ Delays \in [Level -> Nat \ {0}]
  /\ Levels \subseteq Level

VARIABLES
  gate,        \* of the wave generator: bit 0 of the control register
  attack, decay, sustain, release,
  envphase,
  level,       \* envelope_output
  lfsr,        \* current_LFSR
  zero_lock,
  expCounter,  \* exponential_counter
  (* observers *)
  pokes,       \* writes so far
  waited,      \* clocks since the rate counter matched or got another period
  since,       \* clocks since the level changed; -1 if a write or a change of
               \* the phase came in between
  opened       \* the gate was opened in silence and the level is still 0

registers == <<gate, attack, decay, sustain, release>>
envelopeVars == <<registers, envphase, level, lfsr, zero_lock, expCounter,
                  pokes, waited, since, opened>>

Phases == {"Attack", "Decay", "Sustain", "Release"}

(* reset(): all zero, but for the periods of syncADR(), phase and lock; the *)
(* wave generators are reset before (sid.cpp).                             *)
EnvelopeInit ==
  /\ gate = FALSE
  /\ attack = FirstPeriod /\ decay = FirstPeriod /\ release = FirstPeriod
  /\ sustain = 0
  /\ envphase = "Release" /\ zero_lock = TRUE
  /\ level = 0 /\ lfsr = 0 /\ expCounter = 0
  /\ pokes = 0 /\ waited = 0 /\ since = -1 /\ opened = FALSE

Reset ==
  /\ pokes < MaxPokes /\ pokes' = pokes + 1
  /\ gate' = FALSE
  /\ attack' = FirstPeriod /\ decay' = FirstPeriod /\ release' = FirstPeriod
  /\ sustain' = 0
  /\ envphase' = "Release" /\ zero_lock' = TRUE
  /\ level' = 0 /\ lfsr' = 0 /\ expCounter' = 0
  /\ waited' = 0 /\ since' = -1 /\ opened' = FALSE
-----------------------------------------------------------------------------
(* The period that the rate counter is compared with.                      *)
Threshold == CASE envphase = "Attack" -> attack
               [] envphase \in {"Decay", "Sustain"} -> decay
               [] envphase = "Release" -> release

(* What a write does to the observers.                                     *)
Poked == /\ pokes < MaxPokes /\ pokes' = pokes + 1
         /\ waited' = IF Threshold' = Threshold THEN waited ELSE 0
         /\ since' = -1
         /\ opened' = (opened \/ (level = 0 /\ ~ gate /\ gate'))

(* Mutant: an attack does not release the lock.                            *)
PokeControlLocked(new) ==
  /\ envphase' = IF ~ gate /\ new THEN "Attack"
                 ELSE IF gate /\ ~ new THEN "Release" ELSE envphase
  /\ gate' = new
  /\ UNCHANGED <<zero_lock, attack, decay, sustain, release,
                 level, lfsr, expCounter>>
  /\ Poked

(* A write of the control register: only an edge of the gate bit counts;   *)
(* then SID::poke() hands it on to the wave generator.                     *)
PokeControl(new) ==
  /\ \/ ~ gate /\ new /\ envphase' = "Attack" /\ zero_lock' = FALSE
     \/ gate /\ ~ new /\ envphase' = "Release" /\ UNCHANGED zero_lock
     \/ gate = new /\ UNCHANGED <<envphase, zero_lock>>
  /\ gate' = new
  /\ UNCHANGED <<attack, decay, sustain, release, level, lfsr, expCounter>>
  /\ Poked

PokeAD(a, d) ==
  /\ attack' = a /\ decay' = d
  /\ UNCHANGED <<gate, sustain, release, envphase, level, lfsr, zero_lock,
                 expCounter>>
  /\ Poked

PokeSR(s, r) ==
  /\ sustain' = s /\ release' = r
  /\ UNCHANGED <<gate, attack, decay, envphase, level, lfsr, zero_lock,
                 expCounter>>
  /\ Poked

PokeEnvelope ==
  \/ \E new \in BOOLEAN : PokeControl(new)
  \/ \E a, d \in Periods : PokeAD(a, d)
  \/ \E s \in Levels, r \in Periods : PokeSR(s, r)
-----------------------------------------------------------------------------
(* clockEnvelope()                                                         *)

(* Mutant: the counter has a value too many.                               *)
CountedLate == IF lfsr + 1 > LfsrLimit THEN 0 ELSE lfsr + 1

CountedUp == IF lfsr + 1 >= LfsrLimit THEN 0 ELSE lfsr + 1

(* triggerLFSR_Threshold(): an exact match starts the counter anew.        *)
Matches == CountedUp = Threshold

Count == lfsr' = IF Matches THEN 0 ELSE CountedUp

(* Mutant: a delay counter that is not reset.                              *)
ExponentialDelayNoReset ==
  IF Matches THEN expCounter' = expCounter + 1 ELSE UNCHANGED expCounter

DelayOver == Matches /\ expCounter + 1 >= Delays[level]

(* handleExponentialDelay(), which is only called on a match               *)
ExponentialDelay ==
  IF Matches THEN expCounter' = IF DelayOver THEN 0 ELSE expCounter + 1
  ELSE UNCHANGED expCounter

(* Mutant: 8 bits are not enough.                                          *)
UpUnmasked(l) == l + 1

(* & 0xff                                                                  *)
Up(l) == IF l = MaxLevel THEN 0 ELSE l + 1
Down(l) == IF l = 0 THEN MaxLevel ELSE l - 1

(* Mutant: there is no lock.                                               *)
LockNever == UNCHANGED zero_lock

(* The level has fallen to 0.                                              *)
Lock == zero_lock' = (zero_lock \/ (level' = 0 /\ level > 0))

ClockAttack ==
  /\ envphase = "Attack" /\ Count
  /\ IF Matches /\ ~ zero_lock
     THEN /\ level' = Up(level) /\ expCounter' = 0
          /\ envphase' = IF level' = MaxLevel THEN "Decay" ELSE envphase
     ELSE UNCHANGED <<level, expCounter, envphase>>
  /\ Lock

(* Mutant: the decay ends below the sustain level.                         *)
ClockDecayBelow ==
  /\ envphase = "Decay" /\ Count /\ ExponentialDelay
  /\ IF DelayOver /\ ~ zero_lock
     THEN IF level >= sustain
          THEN level' = Down(level) /\ UNCHANGED envphase
          ELSE envphase' = "Sustain" /\ UNCHANGED level
     ELSE UNCHANGED <<level, envphase>>
  /\ Lock

ClockDecay ==
  /\ envphase = "Decay" /\ Count /\ ExponentialDelay
  /\ IF DelayOver /\ ~ zero_lock
     THEN IF level # sustain
          THEN level' = Down(level) /\ UNCHANGED envphase
          ELSE envphase' = "Sustain" /\ UNCHANGED level
     ELSE UNCHANGED <<level, envphase>>
  /\ Lock

ClockSustain ==
  /\ envphase = "Sustain" /\ Count
  /\ envphase' = IF level > sustain THEN "Decay" ELSE envphase
  /\ UNCHANGED <<level, expCounter>>
  /\ Lock

ClockRelease ==
  /\ envphase = "Release" /\ Count /\ ExponentialDelay
  /\ level' = IF DelayOver /\ ~ zero_lock THEN Down(level) ELSE level
  /\ UNCHANGED envphase
  /\ Lock

Clock ==
  /\ ClockAttack \/ ClockDecay \/ ClockSustain \/ ClockRelease
  /\ UNCHANGED <<registers, pokes>>
  /\ waited' = IF Matches THEN 0 ELSE waited + 1
  /\ since' = CASE level' # level -> 0
                [] level' = level /\ (since = -1 \/ envphase' # envphase) -> -1
                [] OTHER -> IF since < MaxSince THEN since + 1 ELSE since
  /\ opened' = (opened /\ level' = level)
-----------------------------------------------------------------------------
EnvelopeNext == Clock \/ PokeEnvelope \/ Reset

EnvelopeSpec == EnvelopeInit /\ [][EnvelopeNext]_envelopeVars

(* The emulation keeps clocking (runEmulation()).                          *)
FairEnvelope == EnvelopeSpec /\ WF_envelopeVars(Clock)
-----------------------------------------------------------------------------
EnvelopeTypeOK ==
  /\ gate \in BOOLEAN
  /\ attack \in Periods /\ decay \in Periods /\ release \in Periods
  /\ sustain \in Levels \cup {0}
  /\ envphase \in Phases /\ level \in Level /\ lfsr \in 0 .. LfsrLimit - 1
  /\ zero_lock \in BOOLEAN /\ expCounter \in 0 .. Delays[level] - 1
  /\ pokes \in 0 .. MaxPokes /\ waited \in Nat
  /\ since \in -1 .. MaxSince /\ opened \in BOOLEAN

(* The generator sees every edge of a bit that the wave generator keeps:   *)
(* SID::poke() has to hand on a control write in the right order.          *)
GateDecidesPhase == gate <=> envphase # "Release"

(* envelope.cpp:333: a voice that has fallen silent stays locked until a   *)
(* new attack, so that no release can wrap around to the peak - but for    *)
(* one whose gate was closed again before its first step.                  *)
SilenceIsLocked == /\ zero_lock => level = 0
                   /\ level = 0 => zero_lock \/ opened

(* envelope.cpp:360: the rate counter may miss a lowered threshold; "in    *)
(* the worst case that amounts to 32k clock ticks".  Writes that leave the *)
(* threshold alone delay nothing.                                          *)
StepsInTime == waited < LfsrLimit

(* envelope.cpp:53: without writes, level changes follow each other at the *)
(* programmed rate, slowed down by the delay of the level that is left.    *)
Pace ==
  [][level' # level /\ since >= 0 /\ pokes' = pokes =>
       since + 1 = Threshold * (IF envphase = "Attack" THEN 1 ELSE Delays[level])
    ]_envelopeVars

Undisturbed == pokes = MaxPokes

(* Whatever was written before, an attack reaches the peak (unless it      *)
(* starts from there), a decay the sustain level below it, a release       *)
(* silence, and the level stays (envelope.cpp:337-362).                    *)
AttackEnds ==
  (/\ Undisturbed /\ envphase = "Attack" /\ level < MaxLevel
   /\ level = 0 => opened) ~> envphase = "Decay"

SustainReached ==
  (Undisturbed /\ envphase = "Decay" /\ level >= sustain) ~> [](level = sustain)

ReleaseEndsInSilence == (Undisturbed /\ ~ gate) ~> [](level = 0)
=============================================================================

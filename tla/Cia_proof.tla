----------------------------- MODULE Cia_proof -----------------------------
(***************************************************************************)
(* Proofs about the timer chips, for every program and every size of a     *)
(* "byte": the cached copies, the interrupts, and the timing that the      *)
(* observers of CiaTiming watch.                                           *)
(***************************************************************************)
EXTENDS CiaTiming, TLAPS

(* What a song that is left to itself keeps in step: the copies that every *)
(* function of the chip uses.                                              *)
Copies(c) == /\ c.interruptOn <=> c.irq
             /\ c.maskMatch <=> (c.status \cap c.mask # {})

StartCopied(c, t) == c.isStarted[t] <=> c.ctrl[t].start

(* What a function that clocks timer t leaves alone.                       *)
Same(c, d, u) ==
  /\ d.counter[u] = c.counter[u] /\ d.script[u] = c.script[u]
  /\ d.ctrl[u] = c.ctrl[u] /\ d.isStarted[u] = c.isStarted[u]
  /\ u \in d.fired <=> u \in c.fired

Kept(c, d, t) ==
  /\ d \in ChipState /\ Copies(d)
  /\ d.latch = c.latch /\ d.icr = c.icr /\ d.mask = c.mask
  /\ d.bLinked = c.bLinked /\ d.irq = c.irq
  /\ d.ctrl[t].oneShot = c.ctrl[t].oneShot /\ d.ctrl[t].source = c.ctrl[t].source
  /\ StartCopied(c, t) => StartCopied(d, t)
  /\ \A u \in Timer \ {t} : Same(c, d, u)

(* The counter counts, or underflows.                                      *)
Counted(c, d, t) ==
  /\ d.counter[t] = IF c.counter[t] <= 1 THEN c.latch[t] ELSE c.counter[t] - 1
  /\ d.script[t] = IF c.counter[t] <= 1
                   THEN [c.script[t] EXCEPT ![1] = @ \cup {"under"}] ELSE c.script[t]
  /\ t \in d.fired <=> (c.counter[t] <= 1 \/ t \in c.fired)
  /\ d.isStarted[t] <=> (c.isStarted[t] /\ ~ (c.counter[t] <= 1 /\ c.ctrl[t].oneShot))
-----------------------------------------------------------------------------
Settings == [start : BOOLEAN, oneShot : BOOLEAN, source : Source]
Scripts == [1 .. 3 -> SUBSET Flag]

(* The changes that the functions are made of.                             *)
WithCounter(c, t, n) == [c EXCEPT !.counter[t] = n]
Underflown(c, t) == [c EXCEPT !.status = @ \cup {t},
                              !.script[t][1] = @ \cup {"under"},
                              !.counter[t] = c.latch[t],
                              !.fired = @ \cup {t}]
-----------------------------------------------------------------------------
LEMMA ChipFields ==
  ASSUME NEW c \in ChipState, NEW t \in Timer
  PROVE  /\ c.counter \in [Timer -> Count16] /\ c.latch \in [Timer -> Count16]
         /\ c.counter[t] \in Nat /\ c.latch[t] \in Nat
         /\ c.script \in [Timer -> Scripts] /\ c.script[t] \in Scripts
         /\ c.ctrl \in [Timer -> Settings] /\ c.ctrl[t] \in Settings
         /\ c.isStarted \in [Timer -> BOOLEAN]
BY CiaAssumption DEF ChipState, Count16, Settings, Scripts

LEMMA SyncStatusKeeps ==
  ASSUME NEW c \in ChipState, NEW d, d = SyncStatus(c)
  PROVE  /\ d \in ChipState /\ Copies(d)
         /\ d.counter = c.counter /\ d.latch = c.latch /\ d.ctrl = c.ctrl
         /\ d.script = c.script /\ d.icr = c.icr /\ d.status = c.status
         /\ d.irq = c.irq /\ d.delay = c.delay /\ d.fired = c.fired
         /\ d.isStarted = c.isStarted /\ d.mask = c.mask /\ d.bLinked = c.bLinked
<1> DEFINE match == c.status \cap c.mask # {}
<1>1. c.irq \in BOOLEAN /\ match \in BOOLEAN
  BY DEF ChipState
<1>2. d = [c EXCEPT !.interruptOn = c.irq, !.maskMatch = match]
  BY DEF SyncStatus
<1> HIDE DEF match
<1>3. d \in ChipState
  BY <1>1, <1>2, Zenon DEF ChipState
<1>4. /\ d.counter = c.counter /\ d.latch = c.latch /\ d.ctrl = c.ctrl
      /\ d.script = c.script /\ d.icr = c.icr /\ d.status = c.status
      /\ d.irq = c.irq /\ d.delay = c.delay /\ d.fired = c.fired
      /\ d.isStarted = c.isStarted /\ d.mask = c.mask /\ d.bLinked = c.bLinked
      /\ d.interruptOn = c.irq /\ d.maskMatch = match
  BY <1>1, <1>2, Z3 DEF ChipState
<1>5. QED BY <1>3, <1>4 DEF Copies, match

LEMMA RunCleared ==
  ASSUME NEW c \in ChipState, NEW d, NEW t \in Timer, d = StopTimer(c, t)
  PROVE  /\ d \in ChipState
         /\ d.counter = c.counter /\ d.latch = c.latch
         /\ d.script = c.script /\ d.icr = c.icr /\ d.status = c.status
         /\ d.irq = c.irq /\ d.delay = c.delay /\ d.fired = c.fired
         /\ d.mask = c.mask /\ d.bLinked = c.bLinked
         /\ d.interruptOn = c.interruptOn /\ d.maskMatch = c.maskMatch
         /\ ~ d.ctrl[t].start /\ d.ctrl[t].oneShot = c.ctrl[t].oneShot
         /\ d.ctrl[t].source = c.ctrl[t].source
         /\ ~ d.isStarted[t]
         /\ \A u \in Timer \ {t} : d.ctrl[u] = c.ctrl[u] /\ d.isStarted[u] = c.isStarted[u]
<1> DEFINE was == c.ctrl[t]
           now == [was EXCEPT !.start = FALSE]
           ctrl == [c.ctrl EXCEPT ![t] = now]
           run == [c.isStarted EXCEPT ![t] = FALSE]
<1>1. now \in Settings /\ now.start = FALSE /\ now.oneShot = was.oneShot
                       /\ now.source = was.source
  <2>1. was \in Settings BY ChipFields
  <2> HIDE DEF was
  <2>2. FALSE \in BOOLEAN OBVIOUS
  <2>3. now \in Settings BY <2>1, <2>2, Zenon DEF Settings
  <2>4. QED BY <2>1, <2>3, Z3 DEF Settings
<1>2. ctrl \in [Timer -> Settings] /\ ctrl[t] = now
      /\ \A u \in Timer \ {t} : ctrl[u] = c.ctrl[u]
  <2> HIDE DEF now
  <2>1. QED BY <1>1, ChipFields, Zenon
<1>3. run \in [Timer -> BOOLEAN] /\ run[t] = FALSE
      /\ \A u \in Timer \ {t} : run[u] = c.isStarted[u]
  BY ChipFields, Zenon
<1>4. d = [c EXCEPT !.ctrl = ctrl, !.isStarted = run]
  BY DEF StopTimer
<1> HIDE DEF was, now, ctrl, run
<1>5. d \in ChipState
  BY <1>2, <1>3, <1>4, Zenon DEF ChipState, Settings
<1>6. /\ d.counter = c.counter /\ d.latch = c.latch
      /\ d.script = c.script /\ d.icr = c.icr /\ d.status = c.status
      /\ d.irq = c.irq /\ d.delay = c.delay /\ d.fired = c.fired
      /\ d.mask = c.mask /\ d.bLinked = c.bLinked
      /\ d.interruptOn = c.interruptOn /\ d.maskMatch = c.maskMatch
      /\ d.ctrl = ctrl /\ d.isStarted = run
  BY <1>4, Zenon DEF ChipState
<1>7. QED BY <1>1, <1>2, <1>3, <1>5, <1>6 DEF was

LEMMA StopTimerKeeps ==
  ASSUME NEW c \in ChipState, NEW t \in Timer, Copies(c), NEW d, d = StopTimer(c, t)
  PROVE  /\ Kept(c, d, t)
         /\ d.counter[t] = c.counter[t] /\ d.script[t] = c.script[t]
         /\ ~ d.isStarted[t] /\ d.fired = c.fired /\ d.status = c.status
         /\ d.delay = c.delay
<1>1. QED BY RunCleared DEF Kept, Copies, Same, StartCopied

(* The timer underflows: what its run and its control register become is   *)
(* StopTimer's business.                                                   *)
LEMMA UnderflowSet ==
  ASSUME NEW c \in ChipState, NEW t \in Timer, NEW d,
         d = Underflown(c, t)
  PROVE  /\ d \in ChipState
         /\ d.latch = c.latch /\ d.ctrl = c.ctrl /\ d.icr = c.icr
         /\ d.irq = c.irq /\ d.delay = c.delay
         /\ d.isStarted = c.isStarted /\ d.mask = c.mask /\ d.bLinked = c.bLinked
         /\ d.status = c.status \cup {t} /\ d.fired = c.fired \cup {t}
         /\ d.counter[t] = c.latch[t]
         /\ d.script[t] = [c.script[t] EXCEPT ![1] = @ \cup {"under"}]
         /\ \A u \in Timer \ {t} : d.counter[u] = c.counter[u] /\ d.script[u] = c.script[u]
<1> DEFINE was == c.script[t]
           now == [was EXCEPT ![1] = @ \cup {"under"}]
           script == [c.script EXCEPT ![t] = now]
           counter == [c.counter EXCEPT ![t] = c.latch[t]]
           status == c.status \cup {t}
           fired == c.fired \cup {t}
<1>1. now \in Scripts
  <2>1. was \in Scripts /\ "under" \in Flag BY ChipFields DEF Flag
  <2> HIDE DEF was
  <2>2. QED BY <2>1 DEF Scripts
<1>2. script \in [Timer -> Scripts] /\ script[t] = now
      /\ \A u \in Timer \ {t} : script[u] = c.script[u]
  <2> HIDE DEF now
  <2>1. QED BY <1>1, ChipFields, Zenon
<1>3. counter \in [Timer -> Count16] /\ counter[t] = c.latch[t]
      /\ \A u \in Timer \ {t} : counter[u] = c.counter[u]
  <2>1. c.latch[t] \in Count16 BY ChipFields
  <2>2. QED BY <2>1, ChipFields, Zenon
<1>4. status \in SUBSET Timer /\ fired \in SUBSET Timer
  BY DEF ChipState
<1>5. d = [c EXCEPT !.status = status, !.script = script, !.counter = counter,
                    !.fired = fired]
  BY DEF Underflown
<1> HIDE DEF now, script, counter, status, fired
<1>6. d \in ChipState
  BY <1>2, <1>3, <1>4, <1>5, Zenon DEF ChipState, Scripts
<1>7. /\ d.latch = c.latch /\ d.ctrl = c.ctrl /\ d.icr = c.icr
      /\ d.irq = c.irq /\ d.delay = c.delay
      /\ d.isStarted = c.isStarted /\ d.mask = c.mask /\ d.bLinked = c.bLinked
      /\ d.status = status /\ d.fired = fired
      /\ d.counter = counter /\ d.script = script
  BY <1>5, Zenon DEF ChipState
<1>8. QED BY <1>2, <1>3, <1>6, <1>7 DEF status, fired, now, was

LEMMA CounterSet ==
  ASSUME NEW c \in ChipState, NEW t \in Timer, NEW n \in Count16, NEW d,
         d = WithCounter(c, t, n), Copies(c)
  PROVE  /\ Kept(c, d, t)
         /\ d.counter[t] = n /\ d.script = c.script /\ d.ctrl = c.ctrl
         /\ d.isStarted = c.isStarted
         /\ d.fired = c.fired /\ d.status = c.status /\ d.delay = c.delay
<1> DEFINE counter == [c.counter EXCEPT ![t] = n]
<1>1. counter \in [Timer -> Count16] /\ counter[t] = n
      /\ \A u \in Timer \ {t} : counter[u] = c.counter[u]
  BY ChipFields, Zenon
<1>2. d = [c EXCEPT !.counter = counter]
  BY DEF WithCounter
<1> HIDE DEF counter
<1>3. d \in ChipState
  BY <1>1, <1>2, Zenon DEF ChipState
<1>4. /\ d.latch = c.latch /\ d.ctrl = c.ctrl /\ d.icr = c.icr
      /\ d.irq = c.irq /\ d.delay = c.delay
      /\ d.isStarted = c.isStarted /\ d.mask = c.mask /\ d.bLinked = c.bLinked
      /\ d.status = c.status /\ d.fired = c.fired
      /\ d.counter = counter /\ d.script = c.script
      /\ d.interruptOn = c.interruptOn /\ d.maskMatch = c.maskMatch
  BY <1>2, Zenon DEF ChipState
<1>5. QED BY <1>1, <1>3, <1>4 DEF Kept, Copies, Same, StartCopied

(* Kept is transitive.                                                     *)
LEMMA KeptTwice ==
  ASSUME NEW c, NEW d, NEW e, NEW t \in Timer, Kept(c, d, t), Kept(d, e, t)
  PROVE  Kept(c, e, t)
BY DEF Kept, Same

LEMMA UnderflowKeeps ==
  ASSUME NEW c \in ChipState, NEW t \in Timer, Copies(c), NEW d, d = Underflow(c, t)
  PROVE  /\ Kept(c, d, t) /\ d.delay = c.delay
         /\ d.status = c.status \cup {t} /\ d.fired = c.fired \cup {t}
         /\ d.counter[t] = c.latch[t]
         /\ d.script[t] = [c.script[t] EXCEPT ![1] = @ \cup {"under"}]
         /\ d.isStarted[t] <=> (c.isStarted[t] /\ ~ c.ctrl[t].oneShot)
<1> DEFINE a == Underflown(c, t)
           b == SyncStatus(a)
<1>1. d = IF c.ctrl[t].oneShot THEN StopTimer(b, t) ELSE b
  BY DEF Underflow, Underflown
<1>2. /\ a \in ChipState
      /\ a.latch = c.latch /\ a.ctrl = c.ctrl /\ a.icr = c.icr
      /\ a.irq = c.irq /\ a.delay = c.delay
      /\ a.isStarted = c.isStarted /\ a.mask = c.mask /\ a.bLinked = c.bLinked
      /\ a.status = c.status \cup {t} /\ a.fired = c.fired \cup {t}
      /\ a.counter[t] = c.latch[t]
      /\ a.script[t] = [c.script[t] EXCEPT ![1] = @ \cup {"under"}]
      /\ \A u \in Timer \ {t} : a.counter[u] = c.counter[u] /\ a.script[u] = c.script[u]
  BY UnderflowSet
<1> HIDE DEF a
<1>3. /\ b \in ChipState /\ Copies(b)
      /\ b.counter = a.counter /\ b.latch = a.latch /\ b.ctrl = a.ctrl
      /\ b.script = a.script /\ b.icr = a.icr /\ b.status = a.status
      /\ b.irq = a.irq /\ b.delay = a.delay /\ b.fired = a.fired
      /\ b.isStarted = a.isStarted /\ b.mask = a.mask /\ b.bLinked = a.bLinked
  BY <1>2, SyncStatusKeeps
<1> HIDE DEF b
<1>4. Kept(c, b, t)
  BY <1>2, <1>3 DEF Kept, Same, StartCopied
<1>5. CASE c.ctrl[t].oneShot
  <2>1. d = StopTimer(b, t) BY <1>1, <1>5
  <2>2. /\ Kept(b, d, t)
        /\ d.counter[t] = b.counter[t] /\ d.script[t] = b.script[t]
        /\ ~ d.isStarted[t] /\ d.fired = b.fired /\ d.status = b.status
        /\ d.delay = b.delay
    BY <1>3, <2>1, StopTimerKeeps
  <2>3. Kept(c, d, t) BY <1>4, <2>2, KeptTwice
  <2>4. QED BY <1>2, <1>3, <1>5, <2>2, <2>3
<1>6. CASE ~ c.ctrl[t].oneShot
  BY <1>1, <1>2, <1>3, <1>4, <1>6
<1>7. QED BY <1>5, <1>6

LEMMA CountKeeps ==
  ASSUME NEW c \in ChipState, NEW t \in Timer, Copies(c), NEW d, d = Count(c, t)
  PROVE  Kept(c, d, t) /\ Counted(c, d, t) /\ d.delay = c.delay
<1>1. CASE c.counter[t] <= 1
  BY <1>1, UnderflowKeeps DEF Count, Counted
<1>2. CASE ~ c.counter[t] <= 1
  <2>1. c.counter[t] - 1 \in Count16
    BY <1>2, ChipFields, CiaAssumption DEF Count16
  <2>2. d = WithCounter(c, t, c.counter[t] - 1)
    BY <1>2 DEF Count, WithCounter
  <2>3. /\ Kept(c, d, t)
        /\ d.counter[t] = c.counter[t] - 1 /\ d.script = c.script /\ d.ctrl = c.ctrl
        /\ d.isStarted = c.isStarted
        /\ d.fired = c.fired /\ d.status = c.status /\ d.delay = c.delay
    BY <2>1, <2>2, CounterSet
  <2>4. QED BY <1>2, <2>3 DEF Counted
<1>3. QED BY <1>1, <1>2

LEMMA LoadKeeps ==
  ASSUME NEW c \in ChipState, NEW t \in Timer, Copies(c), NEW d, d = Load(c, t)
  PROVE  /\ Kept(c, d, t)
         /\ d.counter[t] = c.latch[t] /\ d.script = c.script
         /\ d.ctrl = c.ctrl /\ d.isStarted = c.isStarted
         /\ d.fired = c.fired /\ d.status = c.status /\ d.delay = c.delay
<1>1. c.latch[t] \in Count16 BY ChipFields
<1>2. d = WithCounter(c, t, c.latch[t]) BY DEF Load, WithCounter
<1>3. QED BY <1>1, <1>2, CounterSet

LEMMA ShiftKeeps ==
  ASSUME NEW c \in ChipState, NEW t \in Timer, Copies(c), NEW d, d = Shift(c, t)
  PROVE  /\ Kept(c, d, t)
         /\ d.script[t] = Rest(c.script[t])
         /\ d.counter = c.counter /\ d.isStarted = c.isStarted /\ d.ctrl = c.ctrl
         /\ d.fired = c.fired /\ d.status = c.status /\ d.delay = c.delay
<1> DEFINE rest == Rest(c.script[t])
           script == [c.script EXCEPT ![t] = rest]
<1>1. rest \in Scripts
  BY ChipFields DEF Rest, ScriptOf, Scripts
<1> HIDE DEF rest
<1>2. script \in [Timer -> Scripts] /\ script[t] = rest
      /\ \A u \in Timer \ {t} : script[u] = c.script[u]
  BY <1>1, ChipFields, Zenon
<1>3. d = [c EXCEPT !.script = script]
  BY DEF Shift, rest
<1> HIDE DEF script
<1>4. d \in ChipState
  BY <1>2, <1>3, Zenon DEF ChipState, Scripts
<1>5. /\ d.latch = c.latch /\ d.ctrl = c.ctrl /\ d.icr = c.icr
      /\ d.irq = c.irq /\ d.delay = c.delay
      /\ d.isStarted = c.isStarted /\ d.mask = c.mask /\ d.bLinked = c.bLinked
      /\ d.status = c.status /\ d.fired = c.fired
      /\ d.counter = c.counter /\ d.script = script
      /\ d.interruptOn = c.interruptOn /\ d.maskMatch = c.maskMatch
  BY <1>3, Zenon DEF ChipState
<1>6. QED BY <1>2, <1>4, <1>5 DEF Kept, Copies, Same, StartCopied, rest
LEMMA DelaySet ==
  ASSUME NEW c \in ChipState, NEW n \in 0 .. 2, NEW d, d = [c EXCEPT !.delay = n]
  PROVE  /\ d \in ChipState /\ d.delay = n
         /\ d.counter = c.counter /\ d.latch = c.latch /\ d.ctrl = c.ctrl
         /\ d.script = c.script /\ d.icr = c.icr /\ d.status = c.status
         /\ d.irq = c.irq /\ d.fired = c.fired
         /\ d.isStarted = c.isStarted /\ d.mask = c.mask /\ d.bLinked = c.bLinked
         /\ d.interruptOn = c.interruptOn /\ d.maskMatch = c.maskMatch
<1>1. d \in ChipState BY Zenon DEF ChipState
<1>2. QED BY <1>1, Zenon DEF ChipState

LEMMA SkipCycleKeeps ==
  ASSUME NEW c \in ChipState, NEW t \in Timer, Copies(c), NEW d, d = SkipCycle(c, t)
  PROVE  /\ Kept(c, d, t)
         /\ d.script[t] = Rest(c.script[t])
         /\ d.counter = c.counter /\ d.isStarted = c.isStarted
         /\ d.fired = c.fired /\ d.status = c.status
<1> DEFINE a == Shift(c, t)
<1>1. /\ Kept(c, a, t)
      /\ a.script[t] = Rest(c.script[t])
      /\ a.counter = c.counter /\ a.isStarted = c.isStarted /\ a.ctrl = c.ctrl
      /\ a.fired = c.fired /\ a.status = c.status /\ a.delay = c.delay
  BY ShiftKeeps
<1>2. d = a \/ d = [a EXCEPT !.delay = 1]
  BY DEF SkipCycle, AfterUnderflow
<1> HIDE DEF a
<1>3. CASE d = a
  BY <1>1, <1>3
<1>4. CASE d = [a EXCEPT !.delay = 1]
  <2>1. a \in ChipState /\ 1 \in 0 .. 2 BY <1>1 DEF Kept
  <2>2. /\ d \in ChipState
        /\ d.counter = a.counter /\ d.latch = a.latch /\ d.ctrl = a.ctrl
        /\ d.script = a.script /\ d.icr = a.icr /\ d.status = a.status
        /\ d.irq = a.irq /\ d.fired = a.fired
        /\ d.isStarted = a.isStarted /\ d.mask = a.mask /\ d.bLinked = a.bLinked
        /\ d.interruptOn = a.interruptOn /\ d.maskMatch = a.maskMatch
    BY <2>1, <1>4, DelaySet
  <2>3. QED BY <1>1, <2>2 DEF Kept, Same, Copies, StartCopied
<1>5. QED BY <1>2, <1>3, <1>4
-----------------------------------------------------------------------------
(* The effect of one clock on timer t, as its flags say.                   *)
Counts(c, t) == IF Scripted(c, t) /\ "end" \notin c.script[t][1]
                THEN "started" \in c.script[t][1] ELSE c.isStarted[t]

Fires(c, t) == /\ "under" \notin c.script[t][1] /\ "load" \notin c.script[t][1]
               /\ Counts(c, t) /\ c.counter[t] <= 1

Moved(c, d, t) ==
  /\ d.counter[t] = IF "load" \in c.script[t][1] THEN c.latch[t]
                    ELSE IF "under" \in c.script[t][1] \/ ~ Counts(c, t) THEN c.counter[t]
                    ELSE IF c.counter[t] <= 1 THEN c.latch[t] ELSE c.counter[t] - 1
  /\ d.script[t] = IF Fires(c, t)
                   THEN [Rest(c.script[t]) EXCEPT ![1] = @ \cup {"under"}]
                   ELSE Rest(c.script[t])
  /\ t \in d.fired <=> (Fires(c, t) \/ t \in c.fired)
  /\ d.isStarted[t] <=> (c.isStarted[t] /\ ~ (Fires(c, t) /\ c.ctrl[t].oneShot))

LEMMA PlainMoves ==
  ASSUME NEW c \in ChipState, NEW t \in Timer, Copies(c), NEW d, d = ClockPlain(c, t)
  PROVE  Kept(c, d, t) /\ ("under" \notin c.script[t][1] => Moved(c, d, t))
<1> DEFINE a == Shift(c, t)
           m == c.script[t][1]
<1>1. /\ Kept(c, a, t)
      /\ a.script[t] = Rest(c.script[t])
      /\ a.counter = c.counter /\ a.isStarted = c.isStarted /\ a.ctrl = c.ctrl
      /\ a.fired = c.fired /\ a.status = c.status /\ a.delay = c.delay
  BY ShiftKeeps
<1>2. a \in ChipState /\ Copies(a) /\ a.latch = c.latch
  BY <1>1 DEF Kept
<1>3. d = IF "load" \in m THEN Load(a, t)
          ELSE IF Counts(c, t) THEN Count(a, t) ELSE a
  <2>1. a.isStarted = c.isStarted BY <1>1
  <2> HIDE DEF a
  <2>2. d = Obey(a, t, m, Scripted(c, t)) BY DEF ClockPlain, a
  <2>3. QED BY <2>1, <2>2 DEF Obey, Counts
<1> HIDE DEF a
<1>4. CASE "load" \in m
  <2>1. d = Load(a, t) BY <1>3, <1>4
  <2>2. /\ Kept(a, d, t)
        /\ d.counter[t] = a.latch[t] /\ d.script = a.script
        /\ d.isStarted = a.isStarted /\ d.fired = a.fired
    BY <1>2, <2>1, LoadKeeps
  <2>3. Kept(c, d, t) BY <1>1, <2>2, KeptTwice
  <2>4. QED BY <1>1, <1>2, <1>4, <2>2, <2>3 DEF Moved, Fires
<1>5. CASE "load" \notin m /\ Counts(c, t)
  <2>1. d = Count(a, t) BY <1>3, <1>5
  <2>2. Kept(a, d, t) /\ Counted(a, d, t)
    BY <1>2, <2>1, CountKeeps
  <2>3. Kept(c, d, t) BY <1>1, <2>2, KeptTwice
  <2>4. QED BY <1>1, <1>2, <1>5, <2>2, <2>3 DEF Moved, Fires, Counted
<1>6. CASE "load" \notin m /\ ~ Counts(c, t)
  BY <1>1, <1>3, <1>6 DEF Moved, Fires
<1>7. QED BY <1>4, <1>5, <1>6

(* A clock that finds the mark of an underflow: d is what it made of the   *)
(* timer before a load.                                                    *)
LEMMA SkipMoves ==
  ASSUME NEW c \in ChipState, NEW t \in Timer, Copies(c), "under" \in c.script[t][1],
         NEW a, a \in ChipState, Copies(a), a.latch = c.latch,
         a.counter[t] = c.counter[t], a.script[t] = Rest(c.script[t]),
         t \in a.fired <=> t \in c.fired, a.isStarted[t] = c.isStarted[t],
         NEW d, d = IF "load" \in c.script[t][1] THEN Load(a, t) ELSE a
  PROVE  Kept(a, d, t) /\ Moved(c, d, t)
<1>1. CASE "load" \in c.script[t][1]
  <2>1. d = Load(a, t) BY <1>1
  <2>2. /\ Kept(a, d, t)
        /\ d.counter[t] = a.latch[t] /\ d.script = a.script
        /\ d.isStarted = a.isStarted /\ d.fired = a.fired
    BY <2>1, LoadKeeps
  <2>3. QED BY <1>1, <2>2 DEF Moved, Fires
<1>2. CASE "load" \notin c.script[t][1]
  BY <1>2 DEF Moved, Fires, Kept, Same
<1>3. QED BY <1>1, <1>2
LEMMA ClockBMoves ==
  ASSUME NEW c \in ChipState, Copies(c), NEW d, d = ClockB(c)
  PROVE  /\ Kept(c, d, "B")
         /\ ~ c.bLinked \/ "under" \notin c.script["B"][1] => Moved(c, d, "B")
<1> DEFINE m == c.script["B"][1]
           a == SkipCycle(c, "B")
           b == ClockPlain(a, "B")
<1>0. "B" \in Timer BY DEF Timer
<1>1. /\ Kept(c, a, "B")
      /\ a.script["B"] = Rest(c.script["B"])
      /\ a.counter = c.counter /\ a.isStarted = c.isStarted /\ a.fired = c.fired
  BY <1>0, SkipCycleKeeps
<1>2. a \in ChipState /\ Copies(a) /\ a.latch = c.latch
  BY <1>1 DEF Kept
<1>3. d = IF "under" \notin m THEN ClockPlain(c, "B")
          ELSE IF "load" \in m THEN Load(IF c.bLinked THEN b ELSE a, "B")
                               ELSE IF c.bLinked THEN b ELSE a
  BY DEF ClockB, ClockT
<1>4. Kept(a, b, "B") BY <1>0, <1>2, PlainMoves
<1> HIDE DEF a, b
<1>5. Kept(c, b, "B") BY <1>0, <1>1, <1>4, KeptTwice
<1>6. CASE "under" \notin m
  BY <1>0, <1>3, <1>6, PlainMoves
<1>7. CASE "under" \in m /\ ~ c.bLinked
  <2>1. d = IF "load" \in m THEN Load(a, "B") ELSE a
    BY <1>3, <1>7
  <2>2. Kept(a, d, "B") /\ Moved(c, d, "B")
    BY <1>0, <1>1, <1>2, <1>7, <2>1, SkipMoves
  <2>3. QED BY <1>0, <1>1, <1>7, <2>2, KeptTwice
<1>8. CASE "under" \in m /\ c.bLinked
  <2>1. d = Load(b, "B") \/ d = b
    BY <1>3, <1>8
  <2>2. b \in ChipState /\ Copies(b) BY <1>5 DEF Kept
  <2>3. d = Load(b, "B") => Kept(b, d, "B") BY <1>0, <2>2, LoadKeeps
  <2>4. QED BY <1>0, <1>5, <1>8, <2>1, <2>3, KeptTwice
<1>9. QED BY <1>6, <1>7, <1>8

(* What a clock leaves alone when both timers may be clocked.              *)
KeptAll(c, d) ==
  /\ d \in ChipState /\ Copies(d)
  /\ d.latch = c.latch /\ d.icr = c.icr /\ d.mask = c.mask /\ d.bLinked = c.bLinked
  /\ \A t \in Timer : /\ d.ctrl[t].oneShot = c.ctrl[t].oneShot
                      /\ d.ctrl[t].source = c.ctrl[t].source
                      /\ StartCopied(c, t) => StartCopied(d, t)

LEMMA KeptIsKeptAll ==
  ASSUME NEW c, NEW d, NEW t \in Timer, Kept(c, d, t)
  PROVE  KeptAll(c, d) /\ d.irq = c.irq
BY DEF Kept, KeptAll, Same, StartCopied

LEMMA KeptAllTwice ==
  ASSUME NEW c, NEW d, NEW e, KeptAll(c, d), KeptAll(d, e)
  PROVE  KeptAll(c, e)
<1>1. ASSUME NEW t \in Timer
      PROVE  /\ e.ctrl[t].oneShot = c.ctrl[t].oneShot
             /\ e.ctrl[t].source = c.ctrl[t].source
             /\ StartCopied(c, t) => StartCopied(e, t)
  <2>1. /\ d.ctrl[t].oneShot = c.ctrl[t].oneShot
        /\ d.ctrl[t].source = c.ctrl[t].source
        /\ StartCopied(c, t) => StartCopied(d, t)
    BY Zenon DEF KeptAll
  <2>2. /\ e.ctrl[t].oneShot = d.ctrl[t].oneShot
        /\ e.ctrl[t].source = d.ctrl[t].source
        /\ StartCopied(d, t) => StartCopied(e, t)
    BY Zenon DEF KeptAll
  <2>3. QED BY <2>1, <2>2
<1>2. QED BY <1>1 DEF KeptAll

(* Only timer A can find the mark of an underflow while B is linked, and   *)
(* clocks B then.                                                          *)
LEMMA ClockAMoves ==
  ASSUME NEW c \in ChipState, Copies(c), NEW d, d = ClockA(c)
  PROVE  /\ KeptAll(c, d) /\ d.irq = c.irq /\ Moved(c, d, "A")
         /\ IF c.bLinked /\ "under" \in c.script["A"][1]
            THEN "under" \notin c.script["B"][1] => Moved(c, d, "B")
            ELSE Same(c, d, "B")
<1> DEFINE m == c.script["A"][1]
           a == SkipCycle(c, "A")
           b == ClockB(a)
<1>0. "A" \in Timer /\ "B" \in Timer BY DEF Timer
<1>1. /\ Kept(c, a, "A")
      /\ a.script["A"] = Rest(c.script["A"])
      /\ a.counter = c.counter /\ a.isStarted = c.isStarted /\ a.fired = c.fired
  BY <1>0, SkipCycleKeeps
<1>2. a \in ChipState /\ Copies(a) /\ a.latch = c.latch /\ a.bLinked = c.bLinked
  BY <1>1 DEF Kept
<1>3. d = IF "under" \notin m THEN ClockPlain(c, "A")
          ELSE IF "load" \in m THEN Load(IF c.bLinked THEN b ELSE a, "A")
                               ELSE IF c.bLinked THEN b ELSE a
  BY DEF ClockA, ClockT
<1>4. /\ Kept(a, b, "B")
      /\ "under" \notin a.script["B"][1] => Moved(a, b, "B")
  BY <1>2, ClockBMoves
<1> HIDE DEF a, b
<1>5. CASE "under" \notin m
  <2>1. Kept(c, d, "A") /\ Moved(c, d, "A")
    BY <1>0, <1>3, <1>5, PlainMoves
  <2>2. QED BY <1>0, <1>5, <2>1, KeptIsKeptAll DEF Kept, Timer
<1>6. CASE "under" \in m /\ ~ c.bLinked
  <2>1. d = IF "load" \in m THEN Load(a, "A") ELSE a
    BY <1>3, <1>6
  <2>2. Kept(a, d, "A") /\ Moved(c, d, "A")
    BY <1>0, <1>1, <1>2, <1>6, <2>1, SkipMoves
  <2>3. Kept(c, d, "A") BY <1>0, <1>1, <2>2, KeptTwice
  <2>4. QED BY <1>0, <1>6, <2>2, <2>3, KeptIsKeptAll DEF Kept, Timer
<1>7. CASE "under" \in m /\ c.bLinked
  <2>1. d = IF "load" \in m THEN Load(b, "A") ELSE b
    BY <1>3, <1>7
  <2>2. Same(a, b, "A") /\ b \in ChipState /\ Copies(b) /\ b.latch = a.latch
    BY <1>4 DEF Kept, Timer
  <2>3. /\ b.counter["A"] = c.counter["A"] /\ b.script["A"] = Rest(c.script["A"])
        /\ "A" \in b.fired <=> "A" \in c.fired
        /\ b.isStarted["A"] = c.isStarted["A"]
        /\ b.latch = c.latch
    BY <1>1, <1>2, <2>2 DEF Same
  <2>4. Kept(b, d, "A") /\ Moved(c, d, "A")
    BY <1>0, <1>7, <2>1, <2>2, <2>3, SkipMoves
  <2>5. KeptAll(c, d) /\ d.irq = c.irq
    BY <1>0, <1>1, <1>4, <2>4, KeptIsKeptAll, KeptAllTwice
  <2>6. ASSUME "under" \notin c.script["B"][1] PROVE Moved(c, d, "B")
    <3>1. Same(c, a, "B") BY <1>1 DEF Kept, Timer
    <3>2. Same(b, d, "B") BY <2>4 DEF Kept, Timer
    <3>3. Moved(a, b, "B") BY <1>4, <2>6, <3>1 DEF Same
    <3>4. Counts(c, "B") = Counts(a, "B") /\ Fires(c, "B") = Fires(a, "B")
      BY <3>1 DEF Same, Counts, Fires, Scripted
    <3>5. QED BY <1>2, <3>1, <3>2, <3>3, <3>4 DEF Moved, Same
  <2>7. QED BY <1>7, <2>4, <2>5, <2>6
<1>8. QED BY <1>5, <1>6, <1>7-----------------------------------------------------------------------------
(* A whole clock of the chip c, at whose begin no timer has fired yet; the *)
(* part of B differs with the clock function.                              *)
Pending(c) == c.status \cap c.mask # {} => c.irq \/ c.delay > 0

Fresh(c) == [c EXCEPT !.fired = {}]

Advanced(c, d) ==
  /\ KeptAll(c, d) /\ Pending(d) /\ Moved(Fresh(c), d, "A")
  /\ c.bLinked /\ "under" \in c.script["A"][1] /\ "under" \notin c.script["B"][1] =>
       Moved(Fresh(c), d, "B")
  /\ c.bLinked /\ "under" \notin c.script["A"][1] => Same(Fresh(c), d, "B")

LEMMA Interrupt1Keeps ==
  ASSUME NEW c \in ChipState, Copies(c), NEW d, d = HandleInterrupt1(c)
  PROVE  /\ d \in ChipState /\ Copies(d)
         /\ d.counter = c.counter /\ d.latch = c.latch /\ d.ctrl = c.ctrl
         /\ d.script = c.script /\ d.icr = c.icr /\ d.status = c.status
         /\ d.fired = c.fired
         /\ d.isStarted = c.isStarted /\ d.mask = c.mask /\ d.bLinked = c.bLinked
         /\ d.irq <=> (c.irq \/ (c.delay = 1 /\ c.maskMatch))
<1> DEFINE n == IF c.delay = 0 THEN 0 ELSE c.delay - 1
           due == [c EXCEPT !.delay = n]
           raised == [due EXCEPT !.irq = TRUE]
<1>1. n \in 0 .. 2 BY DEF ChipState
<1>2. d = IF c.delay = 1 /\ c.maskMatch THEN SyncStatus(raised) ELSE due
  BY DEF HandleInterrupt1
<1> HIDE DEF n
<1>3. /\ due \in ChipState /\ due.delay = n
      /\ due.counter = c.counter /\ due.latch = c.latch /\ due.ctrl = c.ctrl
      /\ due.script = c.script /\ due.icr = c.icr /\ due.status = c.status
      /\ due.irq = c.irq /\ due.fired = c.fired
      /\ due.isStarted = c.isStarted /\ due.mask = c.mask /\ due.bLinked = c.bLinked
      /\ due.interruptOn = c.interruptOn /\ due.maskMatch = c.maskMatch
  BY <1>1, DelaySet
<1> HIDE DEF due
<1>4. CASE c.delay = 1 /\ c.maskMatch
  <2>1. TRUE \in BOOLEAN OBVIOUS
  <2>2. raised \in ChipState
    BY <1>3, <2>1, Zenon DEF ChipState
  <2>3. /\ raised.counter = due.counter /\ raised.latch = due.latch /\ raised.ctrl = due.ctrl
        /\ raised.script = due.script /\ raised.icr = due.icr /\ raised.status = due.status
        /\ raised.irq = TRUE /\ raised.fired = due.fired
        /\ raised.isStarted = due.isStarted /\ raised.mask = due.mask
        /\ raised.bLinked = due.bLinked
    BY <1>3, Zenon DEF ChipState
  <2> HIDE DEF raised
  <2>4. d = SyncStatus(raised) BY <1>2, <1>4
  <2>5. /\ d \in ChipState /\ Copies(d) /\ d.irq = raised.irq
        /\ d.counter = raised.counter /\ d.latch = raised.latch /\ d.ctrl = raised.ctrl
        /\ d.script = raised.script /\ d.icr = raised.icr /\ d.status = raised.status
        /\ d.fired = raised.fired /\ d.isStarted = raised.isStarted
        /\ d.mask = raised.mask /\ d.bLinked = raised.bLinked
    BY <2>2, <2>4, SyncStatusKeeps
  <2>6. QED BY <1>3, <1>4, <2>3, <2>5
<1>5. CASE ~ (c.delay = 1 /\ c.maskMatch)
  BY <1>2, <1>3, <1>5 DEF Copies
<1>6. QED BY <1>4, <1>5

LEMMA Interrupt2Keeps ==
  ASSUME NEW c \in ChipState, Copies(c), NEW delay \in 1 .. 2,
         NEW d, d = HandleInterrupt2(c, delay)
  PROVE  /\ d \in ChipState /\ Copies(d) /\ Pending(d)
         /\ d.counter = c.counter /\ d.latch = c.latch /\ d.ctrl = c.ctrl
         /\ d.script = c.script /\ d.icr = c.icr /\ d.status = c.status
         /\ d.irq = c.irq /\ d.fired = c.fired
         /\ d.isStarted = c.isStarted /\ d.mask = c.mask /\ d.bLinked = c.bLinked
<1>1. CASE c.maskMatch /\ ~ c.interruptOn
  <2>1. d = [c EXCEPT !.delay = delay] /\ delay \in 0 .. 2
    BY <1>1 DEF HandleInterrupt2
  <2>2. /\ d \in ChipState /\ d.delay = delay
        /\ d.counter = c.counter /\ d.latch = c.latch /\ d.ctrl = c.ctrl
        /\ d.script = c.script /\ d.icr = c.icr /\ d.status = c.status
        /\ d.irq = c.irq /\ d.fired = c.fired
        /\ d.isStarted = c.isStarted /\ d.mask = c.mask /\ d.bLinked = c.bLinked
        /\ d.interruptOn = c.interruptOn /\ d.maskMatch = c.maskMatch
    BY <2>1, DelaySet
  <2>3. QED BY <2>2 DEF Copies, Pending
<1>2. CASE ~ (c.maskMatch /\ ~ c.interruptOn)
  <2>1. d = c BY <1>2 DEF HandleInterrupt2
  <2>2. QED BY <1>2, <2>1 DEF Copies, Pending
<1>3. QED BY <1>1, <1>2

LEMMA Interrupt2Schedules ==
  ASSUME NEW c \in ChipState, Copies(c), NEW delay \in 1 .. 2,
         NEW d, d = HandleInterrupt2(c, delay), c.maskMatch
  PROVE  d.irq \/ d.delay = delay
<1>1. CASE ~ c.interruptOn
  <2>1. d = [c EXCEPT !.delay = delay] /\ delay \in 0 .. 2
    BY <1>1 DEF HandleInterrupt2
  <2>2. d.delay = delay BY <2>1, DelaySet
  <2>3. QED BY <2>2
<1>2. CASE c.interruptOn
  BY <1>2 DEF HandleInterrupt2, Copies
<1>3. QED BY <1>1, <1>2

LEMMA FreshKeeps ==
  ASSUME NEW c \in ChipState, Copies(c), NEW d, d = Fresh(c)
  PROVE  /\ d \in ChipState /\ Copies(d)
         /\ d.counter = c.counter /\ d.latch = c.latch /\ d.ctrl = c.ctrl
         /\ d.script = c.script /\ d.icr = c.icr /\ d.status = c.status
         /\ d.irq = c.irq /\ d.fired = {}
         /\ d.isStarted = c.isStarted /\ d.mask = c.mask /\ d.bLinked = c.bLinked
<1>1. {} \in SUBSET Timer OBVIOUS
<1>2. d \in ChipState BY <1>1, Zenon DEF Fresh, ChipState
<1>3. /\ d.counter = c.counter /\ d.latch = c.latch /\ d.ctrl = c.ctrl
      /\ d.script = c.script /\ d.icr = c.icr /\ d.status = c.status
      /\ d.irq = c.irq /\ d.fired = {}
      /\ d.isStarted = c.isStarted /\ d.mask = c.mask /\ d.bLinked = c.bLinked
      /\ d.interruptOn = c.interruptOn /\ d.maskMatch = c.maskMatch
  BY <1>1, Zenon DEF Fresh, ChipState
<1>4. QED BY <1>2, <1>3 DEF Copies

(* Both interrupt handlers leave the timers alone.                         *)
LEMMA SameMoves ==
  ASSUME NEW c, NEW d, NEW e, NEW f, NEW t \in Timer,
         d.counter = c.counter, d.latch = c.latch, d.ctrl = c.ctrl,
         d.script = c.script, d.isStarted = c.isStarted, d.fired = c.fired,
         f.counter = e.counter, f.ctrl = e.ctrl, f.script = e.script,
         f.isStarted = e.isStarted, f.fired = e.fired
  PROVE  /\ Moved(d, e, t) => Moved(c, f, t)
         /\ Same(d, e, t) => Same(c, f, t)
BY DEF Moved, Same, Fires, Counts, Scripted
LEMMA StartMoves ==
  ASSUME NEW c \in ChipState, Copies(c),
         NEW x, x = HandleInterrupt1(Fresh(c)), NEW y, y = ClockA(x)
  PROVE  /\ KeptAll(c, y) /\ Moved(Fresh(c), y, "A")
         /\ x \in ChipState
         /\ IF c.bLinked /\ "under" \in c.script["A"][1]
            THEN "under" \notin c.script["B"][1] => Moved(Fresh(c), y, "B")
            ELSE Same(Fresh(c), y, "B")
<1> DEFINE f == Fresh(c)
<1>0. "A" \in Timer /\ "B" \in Timer BY DEF Timer
<1>1. /\ f \in ChipState /\ Copies(f)
      /\ f.counter = c.counter /\ f.latch = c.latch /\ f.ctrl = c.ctrl
      /\ f.script = c.script /\ f.icr = c.icr
      /\ f.isStarted = c.isStarted /\ f.mask = c.mask /\ f.bLinked = c.bLinked
  BY FreshKeeps
<1> HIDE DEF f
<1>2. /\ x \in ChipState /\ Copies(x)
      /\ x.counter = f.counter /\ x.latch = f.latch /\ x.ctrl = f.ctrl
      /\ x.script = f.script /\ x.icr = f.icr /\ x.fired = f.fired
      /\ x.isStarted = f.isStarted /\ x.mask = f.mask /\ x.bLinked = f.bLinked
  BY <1>1, Interrupt1Keeps DEF f
<1>3. /\ KeptAll(x, y) /\ Moved(x, y, "A")
      /\ IF x.bLinked /\ "under" \in x.script["A"][1]
         THEN "under" \notin x.script["B"][1] => Moved(x, y, "B")
         ELSE Same(x, y, "B")
  BY <1>2, ClockAMoves
<1>4. KeptAll(c, x) BY <1>1, <1>2 DEF KeptAll, StartCopied
<1>5. KeptAll(c, y) BY <1>3, <1>4, KeptAllTwice
<1>6. /\ Moved(x, y, "A") => Moved(f, y, "A")
      /\ Moved(x, y, "B") => Moved(f, y, "B")
      /\ Same(x, y, "B") => Same(f, y, "B")
  BY <1>0, <1>2, SameMoves
<1>7. x.script = c.script /\ x.bLinked = c.bLinked
  BY <1>1, <1>2
<1>8. QED BY <1>2, <1>3, <1>5, <1>6, <1>7 DEF f

LEMMA EndMoves ==
  ASSUME NEW c \in ChipState, Copies(c), NEW y \in ChipState, KeptAll(c, y),
         NEW d, d = HandleInterrupt2(y, 1), NEW f
  PROVE  /\ KeptAll(c, d) /\ Pending(d)
         /\ \A t \in Timer : /\ Moved(f, y, t) => Moved(f, d, t)
                             /\ Same(f, y, t) => Same(f, d, t)
<1>0. 1 \in 1 .. 2 /\ Copies(y) BY DEF KeptAll
<1>1. /\ d \in ChipState /\ Copies(d) /\ Pending(d)
      /\ d.counter = y.counter /\ d.latch = y.latch /\ d.ctrl = y.ctrl
      /\ d.script = y.script /\ d.icr = y.icr /\ d.fired = y.fired
      /\ d.isStarted = y.isStarted /\ d.mask = y.mask /\ d.bLinked = y.bLinked
  BY <1>0, Interrupt2Keeps
<1>2. KeptAll(y, d) BY <1>1 DEF KeptAll, StartCopied
<1>3. \A t \in Timer : /\ Moved(f, y, t) => Moved(f, d, t)
                       /\ Same(f, y, t) => Same(f, d, t)
  BY <1>1, SameMoves
<1>4. QED BY <1>1, <1>2, <1>3, KeptAllTwice

LEMMA ClockTimerAAdvances ==
  ASSUME NEW c \in ChipState, Copies(c), NEW d, d = ClockTimerA(c)
  PROVE  Advanced(c, d)
<1> DEFINE x == HandleInterrupt1(Fresh(c))
           y == ClockA(x)
<1>1. /\ KeptAll(c, y) /\ Moved(Fresh(c), y, "A")
      /\ IF c.bLinked /\ "under" \in c.script["A"][1]
         THEN "under" \notin c.script["B"][1] => Moved(Fresh(c), y, "B")
         ELSE Same(Fresh(c), y, "B")
  BY StartMoves
<1>2. d = HandleInterrupt2(y, 1) BY DEF ClockTimerA, Fresh
<1> HIDE DEF x, y
<1>3. y \in ChipState BY <1>1 DEF KeptAll
<1>4. /\ KeptAll(c, d) /\ Pending(d)
      /\ \A t \in Timer : /\ Moved(Fresh(c), y, t) => Moved(Fresh(c), d, t)
                          /\ Same(Fresh(c), y, t) => Same(Fresh(c), d, t)
  BY <1>1, <1>2, <1>3, EndMoves
<1>5. /\ Moved(Fresh(c), y, "A") => Moved(Fresh(c), d, "A")
      /\ Moved(Fresh(c), y, "B") => Moved(Fresh(c), d, "B")
      /\ Same(Fresh(c), y, "B") => Same(Fresh(c), d, "B")
  BY <1>4 DEF Timer
<1>6. QED BY <1>1, <1>4, <1>5, Zenon DEF Advanced

LEMMA ClockChipAdvances ==
  ASSUME NEW c \in ChipState, Copies(c), NEW d, d = ClockChip(c)
  PROVE  Advanced(c, d) /\ (~ c.bLinked => Moved(Fresh(c), d, "B"))
<1> DEFINE f == Fresh(c)
           x == HandleInterrupt1(f)
           y == ClockA(x)
           z == IF y.bLinked THEN y ELSE ClockB(y)
<1>0. "A" \in Timer /\ "B" \in Timer BY DEF Timer
<1>1. /\ KeptAll(c, y) /\ Moved(f, y, "A")
      /\ IF c.bLinked /\ "under" \in c.script["A"][1]
         THEN "under" \notin c.script["B"][1] => Moved(f, y, "B")
         ELSE Same(f, y, "B")
  BY StartMoves
<1>2. d = HandleInterrupt2(z, 1)
  <2>1. y.bLinked = c.bLinked BY <1>1 DEF KeptAll
  <2>2. d = HandleInterrupt2(IF c.bLinked THEN y ELSE ClockB(y), 1)
    BY DEF ClockChip, Fresh
  <2> HIDE DEF y
  <2>3. QED BY <2>1, <2>2
<1>3. f.latch = c.latch BY FreshKeeps
<1> HIDE DEF f, x, y
<1>4. y \in ChipState /\ Copies(y) /\ y.bLinked = c.bLinked /\ y.latch = c.latch
  BY <1>1 DEF KeptAll
<1>5. /\ KeptAll(c, z) /\ Moved(f, z, "A")
      /\ IF c.bLinked
         THEN IF "under" \in c.script["A"][1]
              THEN "under" \notin c.script["B"][1] => Moved(f, z, "B")
              ELSE Same(f, z, "B")
         ELSE Moved(f, z, "B")
  <2>1. CASE c.bLinked
    BY <1>1, <1>4, <2>1
  <2>2. CASE ~ c.bLinked
    <3>1. z = ClockB(y) BY <1>4, <2>2
    <3> HIDE DEF z
    <3>2. Kept(y, z, "B") /\ Moved(y, z, "B") BY <1>4, <2>2, <3>1, ClockBMoves
    <3>3. KeptAll(c, z) BY <1>0, <1>1, <3>2, KeptIsKeptAll, KeptAllTwice
    <3>4. Same(y, z, "A") BY <3>2 DEF Kept, Timer
    <3>5. Moved(f, z, "A") BY <1>1, <3>4 DEF Moved, Same
    <3>6. Same(f, y, "B") BY <1>1, <2>2
    <3>7. Counts(f, "B") = Counts(y, "B") /\ Fires(f, "B") = Fires(y, "B")
      BY <3>6 DEF Same, Counts, Fires, Scripted
    <3>8. Moved(f, z, "B") BY <1>3, <1>4, <3>2, <3>6, <3>7 DEF Moved, Same
    <3>9. QED BY <2>2, <3>3, <3>5, <3>8
  <2>3. QED BY <2>1, <2>2
<1> HIDE DEF z
<1>6. z \in ChipState BY <1>5 DEF KeptAll
<1>7. /\ KeptAll(c, d) /\ Pending(d)
      /\ \A t \in Timer : /\ Moved(f, z, t) => Moved(f, d, t)
                          /\ Same(f, z, t) => Same(f, d, t)
  BY <1>2, <1>5, <1>6, EndMoves
<1>8. /\ Moved(f, z, "A") => Moved(f, d, "A")
      /\ Moved(f, z, "B") => Moved(f, d, "B")
      /\ Same(f, z, "B") => Same(f, d, "B")
  BY <1>0, <1>7
<1>9. QED BY <1>5, <1>7, <1>8, Zenon DEF Advanced, f
-----------------------------------------------------------------------------
(* The accesses of the program.                                            *)
Written(c, d) ==
  /\ d \in ChipState /\ Copies(d)
  /\ c.mask = c.icr => d.mask = d.icr
  /\ c.mask = c.icr /\ Pending(c) => Pending(d)

(* Masks, status and interrupt change, the timers go on.                   *)
TimersKept(c, d) ==
  /\ d.counter = c.counter /\ d.latch = c.latch /\ d.ctrl = c.ctrl
  /\ d.script = c.script /\ d.fired = c.fired
  /\ d.isStarted = c.isStarted /\ d.bLinked = c.bLinked

LEMMA UpdateMaskKeeps ==
  ASSUME NEW c \in ChipState, Copies(c), NEW bits \in SUBSET Timer,
         NEW d, d = UpdateMask(c, bits)
  PROVE  /\ d \in ChipState /\ Copies(d) /\ TimersKept(c, d)
         /\ d.mask = bits /\ d.icr = bits
         /\ d.irq = c.irq /\ d.delay = c.delay /\ d.status = c.status
<1> DEFINE match == c.status \cap bits # {}
<1>1. match \in BOOLEAN OBVIOUS
<1>2. d = [c EXCEPT !.icr = bits, !.mask = bits, !.maskMatch = match]
  BY DEF UpdateMask
<1> HIDE DEF match
<1>3. d \in ChipState BY <1>1, <1>2, Zenon DEF ChipState
<1>4. /\ d.counter = c.counter /\ d.latch = c.latch /\ d.ctrl = c.ctrl
      /\ d.script = c.script /\ d.status = c.status
      /\ d.irq = c.irq /\ d.delay = c.delay /\ d.fired = c.fired
      /\ d.isStarted = c.isStarted /\ d.bLinked = c.bLinked
      /\ d.interruptOn = c.interruptOn /\ d.maskMatch = match
      /\ d.mask = bits /\ d.icr = bits
  BY <1>2, Zenon DEF ChipState
<1>5. QED BY <1>3, <1>4 DEF Copies, TimersKept, match

LEMMA SetMaskKeeps ==
  ASSUME NEW c \in ChipState, Copies(c), NEW w \in MaskWrite,
         NEW d, d = SetInterruptMask(c, w)
  PROVE  /\ Written(c, d) /\ TimersKept(c, d)
         /\ d.status = c.status /\ d.irq = c.irq
<1>1. c.icr \in SUBSET Timer /\ w.bits \in SUBSET Timer
  BY DEF ChipState, MaskWrite
<1>2. CASE w.set
  <2> DEFINE bits == c.icr \cup w.bits
             e == UpdateMask(c, bits)
  <2>1. bits \in SUBSET Timer BY <1>1
  <2>2. d = HandleInterrupt2(e, 2) BY <1>2 DEF SetInterruptMask
  <2> HIDE DEF bits
  <2>3. /\ e \in ChipState /\ Copies(e) /\ TimersKept(c, e)
        /\ e.mask = bits /\ e.icr = bits /\ e.status = c.status /\ e.irq = c.irq
    BY <2>1, UpdateMaskKeeps
  <2> HIDE DEF e
  <2>4. 2 \in 1 .. 2 OBVIOUS
  <2>5. QED BY <2>2, <2>3, <2>4, Interrupt2Keeps DEF Written, TimersKept
<1>3. CASE ~ w.set
  <2> DEFINE bits == c.icr \ w.bits
  <2>1. bits \in SUBSET Timer BY <1>1
  <2>2. d = UpdateMask(c, bits) BY <1>3 DEF SetInterruptMask
  <2>3. bits \subseteq c.icr OBVIOUS
  <2> HIDE DEF bits
  <2>4. /\ d \in ChipState /\ Copies(d) /\ TimersKept(c, d)
        /\ d.mask = bits /\ d.icr = bits
        /\ d.irq = c.irq /\ d.delay = c.delay /\ d.status = c.status
    BY <2>1, <2>2, UpdateMaskKeeps
  <2>5. QED BY <2>3, <2>4 DEF Written, Pending
<1>4. QED BY <1>2, <1>3
LEMMA AcknKeeps ==
  ASSUME NEW c \in ChipState, NEW d, d = AcknInterruptStatus(c)
  PROVE  Written(c, d) /\ TimersKept(c, d) /\ ~ d.irq /\ d.status = {}
<1> DEFINE e == [c EXCEPT !.status = {}, !.irq = FALSE]
<1>1. {} \in SUBSET Timer /\ FALSE \in BOOLEAN OBVIOUS
<1>2. e \in ChipState BY <1>1, Zenon DEF ChipState
<1>3. /\ e.counter = c.counter /\ e.latch = c.latch /\ e.ctrl = c.ctrl
      /\ e.script = c.script /\ e.status = {} /\ e.irq = FALSE /\ e.fired = c.fired
      /\ e.isStarted = c.isStarted /\ e.bLinked = c.bLinked
      /\ e.mask = c.mask /\ e.icr = c.icr
  BY Zenon DEF ChipState
<1>4. d = SyncStatus(e) BY DEF AcknInterruptStatus
<1> HIDE DEF e
<1>5. QED BY <1>2, <1>3, <1>4, SyncStatusKeeps DEF Written, TimersKept, Pending

LEMMA ControlKeeps ==
  ASSUME NEW c \in ChipState, Copies(c), NEW w \in Control,
         NEW d, d = SetControl(c, w)
  PROVE  /\ Written(c, d) /\ d.counter = c.counter /\ d.latch = c.latch
         /\ d.fired = c.fired /\ d.status = c.status /\ d.irq = c.irq
         /\ d.mask = c.mask
         /\ d.script[w.timer] = Script(c, w)
         /\ d.ctrl[w.timer] = [start |-> Starts(w), oneShot |-> w.oneShot,
                               source |-> w.source]
         /\ d.isStarted[w.timer] = Starts(w)
         /\ d.bLinked = (IF w.timer = "B" THEN w.source = "A" ELSE c.bLinked)
         /\ \A u \in Timer \ {w.timer} : /\ d.script[u] = c.script[u]
                                         /\ d.ctrl[u] = c.ctrl[u]
                                         /\ d.isStarted[u] = c.isStarted[u]
<1> DEFINE t == w.timer
           now == [start |-> Starts(w), oneShot |-> w.oneShot, source |-> w.source]
           sequel == Script(c, w)
           run == Starts(w)
           script == [c.script EXCEPT ![t] = sequel]
           ctrl == [c.ctrl EXCEPT ![t] = now]
           started == [c.isStarted EXCEPT ![t] = run]
           linked == IF t = "B" THEN w.source = "A" ELSE c.bLinked
<1>0. t \in Timer /\ w.start \in BOOLEAN /\ w.oneShot \in BOOLEAN /\ w.source \in Source
  BY DEF Control
<1>1. sequel \in Scripts
  BY <1>0, ChipFields DEF Script, ScriptOf, Scripts, Flag
<1>2. now \in Settings /\ run \in BOOLEAN /\ linked \in BOOLEAN
  <2>1. Starts(w) \in BOOLEAN BY DEF Starts
  <2>2. c.bLinked \in BOOLEAN BY DEF ChipState
  <2>3. QED BY <1>0, <2>1, <2>2 DEF Settings
<1>3. d = [c EXCEPT !.script = script, !.ctrl = ctrl, !.isStarted = started,
                    !.bLinked = linked]
  BY DEF SetControl
<1> HIDE DEF t, now, sequel, run, linked
<1>4. /\ script \in [Timer -> Scripts] /\ script[t] = sequel
      /\ \A u \in Timer \ {t} : script[u] = c.script[u]
  BY <1>0, <1>1, ChipFields, Zenon
<1>5. /\ ctrl \in [Timer -> Settings] /\ ctrl[t] = now
      /\ \A u \in Timer \ {t} : ctrl[u] = c.ctrl[u]
  BY <1>0, <1>2, ChipFields, Zenon
<1>6. /\ started \in [Timer -> BOOLEAN] /\ started[t] = run
      /\ \A u \in Timer \ {t} : started[u] = c.isStarted[u]
  BY <1>0, <1>2, ChipFields, Zenon
<1> HIDE DEF script, ctrl, started
<1>7. d \in ChipState
  BY <1>2, <1>3, <1>4, <1>5, <1>6, Zenon DEF ChipState, Scripts, Settings
<1>8. /\ d.counter = c.counter /\ d.latch = c.latch /\ d.ctrl = ctrl
      /\ d.script = script /\ d.icr = c.icr /\ d.status = c.status
      /\ d.irq = c.irq /\ d.delay = c.delay /\ d.fired = c.fired
      /\ d.isStarted = started /\ d.mask = c.mask /\ d.bLinked = linked
      /\ d.interruptOn = c.interruptOn /\ d.maskMatch = c.maskMatch
  BY <1>3, Zenon DEF ChipState
<1>9. Written(c, d) BY <1>7, <1>8 DEF Written, Copies, Pending
<1>10. QED BY <1>4, <1>5, <1>6, <1>8, <1>9 DEF t, now, sequel, run, linked

(* One byte of a counter is replaced.                                      *)
LEMMA ByteWritten ==
  ASSUME NEW n \in Count16, NEW v \in 0 .. ByteSize - 1
  PROVE  /\ v * ByteSize + (n % ByteSize) \in Count16
         /\ n - (n % ByteSize) + v \in Count16
<1> DEFINE q == n \div ByteSize
           lo == n % ByteSize
           top == (ByteSize - 1) * ByteSize
<1>1. /\ n \in Nat /\ n < ByteSize * ByteSize
      /\ ByteSize \in Nat /\ ByteSize > 1
  BY CiaAssumption DEF Count16
<1>2. q \in Nat /\ lo \in 0 .. ByteSize - 1 /\ n = ByteSize * q + lo
  BY <1>1
<1> HIDE DEF q, lo
<1>3. q <= ByteSize - 1
  <2>1. SUFFICES ASSUME q >= ByteSize PROVE FALSE
    BY <1>1, <1>2
  <2>2. ByteSize * q >= ByteSize * ByteSize BY <1>1, <1>2, <2>1
  <2>3. QED BY <1>1, <1>2, <2>2
<1>4. ByteSize * q \in 0 .. top /\ v * ByteSize \in 0 .. top
  BY <1>1, <1>2, <1>3
<1>5. top + ByteSize = ByteSize * ByteSize /\ top \in Nat
  BY <1>1
<1> HIDE DEF top
<1>6. v * ByteSize + lo \in Count16 /\ n - lo + v \in Count16
  BY <1>1, <1>2, <1>4, <1>5 DEF Count16
<1>7. QED BY <1>6 DEF lo

LEMMA LatchKeeps ==
  ASSUME NEW c \in ChipState, Copies(c), NEW w \in LatchWrite,
         NEW d, d = WriteLatch(c, w)
  PROVE  /\ Written(c, d) /\ d.script = c.script /\ d.ctrl = c.ctrl
         /\ d.isStarted = c.isStarted /\ d.bLinked = c.bLinked
         /\ d.fired = c.fired /\ d.irq = c.irq /\ d.mask = c.mask
         /\ d.status = c.status
         /\ \A u \in Timer \ {w.timer} : /\ d.counter[u] = c.counter[u]
                                         /\ d.latch[u] = c.latch[u]
<1> DEFINE t == w.timer
           lo == c.latch[t] % ByteSize
           new == IF w.hi THEN w.value * ByteSize + lo ELSE c.latch[t] - lo + w.value
           latch == [c.latch EXCEPT ![t] = new]
           e == [c EXCEPT !.latch = latch]
<1>0. t \in Timer /\ w.value \in 0 .. ByteSize - 1
  BY DEF LatchWrite
<1>1. new \in Count16
  <2>1. c.latch[t] \in Count16 BY <1>0, ChipFields
  <2>2. CASE w.hi
    <3>1. new = w.value * ByteSize + (c.latch[t] % ByteSize) BY <2>2
    <3> HIDE DEF new, t
    <3>2. QED BY <1>0, <2>1, <3>1, ByteWritten
  <2>3. CASE ~ w.hi
    <3>1. new = c.latch[t] - (c.latch[t] % ByteSize) + w.value BY <2>3
    <3> HIDE DEF new, t
    <3>2. QED BY <1>0, <2>1, <3>1, ByteWritten
  <2>4. QED BY <2>2, <2>3
<1>2. d = IF w.hi /\ ~ c.isStarted[t] THEN Load(e, t) ELSE e
  BY DEF WriteLatch
<1> HIDE DEF t, lo, new
<1>3. /\ latch \in [Timer -> Count16]
      /\ \A u \in Timer \ {t} : latch[u] = c.latch[u]
  BY <1>0, <1>1, ChipFields, Zenon
<1> HIDE DEF latch
<1>4. e \in ChipState BY <1>3, Zenon DEF ChipState
<1>5. /\ e.counter = c.counter /\ e.latch = latch /\ e.ctrl = c.ctrl
      /\ e.script = c.script /\ e.icr = c.icr /\ e.status = c.status
      /\ e.irq = c.irq /\ e.delay = c.delay /\ e.fired = c.fired
      /\ e.isStarted = c.isStarted /\ e.mask = c.mask /\ e.bLinked = c.bLinked
      /\ e.interruptOn = c.interruptOn /\ e.maskMatch = c.maskMatch
  BY Zenon DEF ChipState
<1> HIDE DEF e
<1>6. Copies(e) BY <1>5 DEF Copies
<1>7. CASE d = e
  BY <1>3, <1>4, <1>5, <1>6, <1>7 DEF Written, Pending, t
<1>8. CASE d = Load(e, t)
  <2>1. /\ Kept(e, d, t) /\ d.script = e.script /\ d.isStarted = e.isStarted
        /\ d.fired = e.fired /\ d.status = e.status /\ d.delay = e.delay
        /\ d.ctrl = e.ctrl
    BY <1>0, <1>4, <1>6, <1>8, LoadKeeps
  <2>2. \A u \in Timer \ {t} : d.counter[u] = e.counter[u] /\ d.latch[u] = e.latch[u]
    BY <2>1 DEF Kept, Same
  <2>3. Written(c, d) BY <1>5, <2>1 DEF Written, Pending, Kept
  <2>4. QED BY <1>3, <1>5, <2>1, <2>2, <2>3 DEF Kept, t
<1>9. QED BY <1>2, <1>7, <1>8
-----------------------------------------------------------------------------
(* The invariant of the chip.  The mark of an underflow in the script of   *)
(* timer A is never older than the last clock.                             *)
Marks(c) == /\ "under" \in c.script["A"][1] => "A" \in c.fired
            /\ "under" \notin c.script["A"][2] \cup c.script["A"][3]

Coherence ==
  /\ Copies(cia)
  /\ cia.bLinked <=> cia.ctrl["B"].source = "A"
  /\ mode # "TimerPSID" =>
       /\ cia.mask = cia.icr
       /\ Pending(cia)
       /\ \A t \in Timer : StartCopied(cia, t)

ChipInv == TypeOK /\ Coherence /\ Marks(cia)

LEMMA RestIs ==
  ASSUME NEW s \in Scripts
  PROVE  /\ Rest(s) \in Scripts
         /\ Rest(s)[1] = s[2] /\ Rest(s)[2] = s[3] /\ Rest(s)[3] = {}
BY DEF Rest, ScriptOf, Scripts

LEMMA FreshMoved ==
  ASSUME NEW c \in ChipState, Copies(c), NEW d, NEW t \in Timer
  PROVE  Moved(Fresh(c), d, t) <=>
    /\ d.counter[t] = IF "load" \in c.script[t][1] THEN c.latch[t]
                      ELSE IF "under" \in c.script[t][1] \/ ~ Counts(c, t) THEN c.counter[t]
                      ELSE IF c.counter[t] <= 1 THEN c.latch[t] ELSE c.counter[t] - 1
    /\ d.script[t] = IF Fires(c, t)
                     THEN [Rest(c.script[t]) EXCEPT ![1] = @ \cup {"under"}]
                     ELSE Rest(c.script[t])
    /\ t \in d.fired <=> Fires(c, t)
    /\ d.isStarted[t] <=> (c.isStarted[t] /\ ~ (Fires(c, t) /\ c.ctrl[t].oneShot))
<1> DEFINE f == Fresh(c)
<1>1. /\ f.counter = c.counter /\ f.latch = c.latch /\ f.ctrl = c.ctrl
      /\ f.script = c.script /\ f.fired = {} /\ f.isStarted = c.isStarted
  BY FreshKeeps
<1> HIDE DEF f
<1>2. Counts(f, t) = Counts(c, t) /\ Fires(f, t) = Fires(c, t)
  BY <1>1 DEF Counts, Fires, Scripted
<1>3. QED BY <1>1, <1>2 DEF Moved, f

LEMMA AdvancedMarks ==
  ASSUME NEW c \in ChipState, Copies(c), NEW d, Advanced(c, d), Marks(c)
  PROVE  Marks(d)
<1>0. "A" \in Timer BY DEF Timer
<1>1. Moved(Fresh(c), d, "A") BY DEF Advanced
<1>2. /\ d.script["A"] = IF Fires(c, "A")
                         THEN [Rest(c.script["A"]) EXCEPT ![1] = @ \cup {"under"}]
                         ELSE Rest(c.script["A"])
      /\ "A" \in d.fired <=> Fires(c, "A")
  BY <1>0, <1>1, FreshMoved
<1>3. c.script["A"] \in Scripts BY <1>0, ChipFields
<1>4. /\ Rest(c.script["A"]) \in Scripts
      /\ Rest(c.script["A"])[1] = c.script["A"][2]
      /\ Rest(c.script["A"])[2] = c.script["A"][3]
      /\ Rest(c.script["A"])[3] = {}
  BY <1>3, RestIs
<1>5. QED BY <1>2, <1>4 DEF Marks, Scripts

LEMMA ClockAdvances ==
  ASSUME TypeOK, Copies(cia), Clock
  PROVE  Advanced(cia, cia')
BY ClockTimerAAdvances, ClockChipAdvances DEF TypeOK, Clock

LEMMA InitChipInv == Init => ChipInv
<1> SUFFICES ASSUME Init PROVE ChipInv
  OBVIOUS
<1>0. program \in Programs /\ chip \in Chip /\ mode = "RSID" /\ playing = TRUE
  BY DEF Init
<1>1. PICK latch \in ResetLatches(chip) : cia = ResetChip(chip, latch)
  BY DEF Init
<1>2. latch \in [Timer -> Count16]
  <2>1. ByteSize * ByteSize - 1 \in Nat /\ ByteSize * ByteSize - 1 >= 0
    BY CiaAssumption
  <2>2. \A n, m \in Count16 : [A |-> n, B |-> m] \in [Timer -> Count16]
    BY DEF Timer
  <2>3. 0 \in Count16 /\ ByteSize * ByteSize - 1 \in Count16
        /\ 1 .. ByteSize * ByteSize - 1 \subseteq Count16
    BY <2>1 DEF Count16
  <2>4. QED BY <1>1, <2>2, <2>3 DEF ResetLatches
<1> DEFINE first == chip = "CIA1"
           ctrl == cia.ctrl
           icr == IF first THEN {"A"} ELSE {}
<1>3. /\ cia.counter = latch /\ cia.latch = latch
      /\ cia.script = [t \in Timer |-> NoScript]
      /\ cia.icr = icr /\ cia.mask = icr
      /\ cia.status = {} /\ cia.irq = FALSE /\ cia.delay = 0 /\ cia.fired = {}
      /\ cia.isStarted = [t \in Timer |-> first /\ t = "A"]
      /\ cia.maskMatch = FALSE /\ cia.interruptOn = FALSE /\ cia.bLinked = FALSE
  BY <1>1 DEF ResetChip
<1>4. /\ ctrl \in [Timer -> Settings]
      /\ ctrl["A"].start <=> first
      /\ ~ ctrl["B"].start
      /\ ctrl["B"].source = "phi2"
  <2> DEFINE a == IF first THEN [Stopped(FALSE) EXCEPT !.start = TRUE] ELSE Stopped(RSID)
             b == Stopped(first \/ RSID)
  <2>1. \A x \in BOOLEAN : Stopped(x) \in Settings /\ ~ Stopped(x).start
                                                  /\ Stopped(x).source = "phi2"
    BY DEF Stopped, Settings, Source
  <2> DEFINE on == [Stopped(FALSE) EXCEPT !.start = TRUE]
  <2>2. Stopped(FALSE) \in Settings /\ FALSE \in BOOLEAN /\ TRUE \in BOOLEAN
    BY <2>1
  <2>3. on \in Settings /\ on.start = TRUE
    BY <2>2, Zenon DEF Settings
  <2>4. RSID \in BOOLEAN BY <1>0, CiaAssumption DEF RSID
  <2>5. a \in Settings /\ b \in Settings /\ (a.start <=> first) /\ ~ b.start
        /\ b.source = "phi2"
    <3>1. (first \/ RSID) \in BOOLEAN BY <2>4
    <3>2. b \in Settings /\ ~ b.start /\ b.source = "phi2" BY <2>1, <3>1
    <3>3. CASE first
      <4>1. a = on BY <3>3
      <4> HIDE DEF on
      <4>2. QED BY <2>3, <3>2, <3>3, <4>1
    <3>4. CASE ~ first
      <4>1. a = Stopped(RSID) BY <3>4
      <4>2. QED BY <2>1, <2>4, <3>2, <3>4, <4>1
    <3>5. QED BY <3>3, <3>4
  <2>6. ctrl = [A |-> a, B |-> b]
    BY <1>1 DEF ResetChip
  <2> HIDE DEF a, b
  <2>7. QED BY <2>5, <2>6 DEF Timer
<1>5. cia \in ChipState
  <2>1. /\ latch \in [Timer -> Count16] /\ icr \in SUBSET Timer
        /\ [t \in Timer |-> NoScript] \in [Timer -> Scripts]
        /\ [t \in Timer |-> first /\ t = "A"] \in [Timer -> BOOLEAN]
    BY <1>2 DEF Timer, NoScript, Scripts
  <2>2. /\ {} \in SUBSET Timer /\ FALSE \in BOOLEAN /\ 0 \in 0 .. 2
    OBVIOUS
  <2>3. cia = [counter |-> latch, latch |-> latch, ctrl |-> ctrl,
               script |-> [t \in Timer |-> NoScript],
               icr |-> icr, status |-> {}, irq |-> FALSE, delay |-> 0, fired |-> {},
               isStarted |-> [t \in Timer |-> first /\ t = "A"],
               mask |-> icr, maskMatch |-> FALSE, interruptOn |-> FALSE, bLinked |-> FALSE]
    BY <1>1 DEF ResetChip
  <2> HIDE DEF ctrl, icr, first
  <2>4. QED BY <1>4, <2>1, <2>2, <2>3, Zenon DEF ChipState, Scripts, Settings
<1>6. Coherence
  BY <1>0, <1>3, <1>4 DEF Coherence, Copies, Pending, StartCopied, Timer
<1>7. Marks(cia)
  BY <1>3 DEF Marks, NoScript, Timer
<1>8. QED BY <1>0, <1>5, <1>6, <1>7 DEF ChipInv, TypeOK
LEMMA NextChipInv == ChipInv /\ [Next]_vars => ChipInv'
<1> SUFFICES ASSUME ChipInv, [Next]_vars PROVE ChipInv'
  OBVIOUS
<1>0. /\ program \in Programs /\ cia \in ChipState /\ chip \in Chip
      /\ mode \in {"RSID", "RasterPSID", "TimerPSID"} /\ playing \in BOOLEAN
      /\ Copies(cia) /\ Marks(cia)
      /\ cia.bLinked <=> cia.ctrl["B"].source = "A"
      /\ "A" \in Timer /\ "B" \in Timer
  BY DEF ChipInv, TypeOK, Coherence, Timer
<1>p. /\ program.rsid \in BOOLEAN /\ program.controls \subseteq Control
      /\ program.latches \subseteq LatchWrite /\ program.masks \subseteq MaskWrite
  BY <1>0, CiaAssumption
<1>c. mode # "TimerPSID" => /\ cia.mask = cia.icr /\ Pending(cia)
                            /\ \A t \in Timer : StartCopied(cia, t)
  BY DEF ChipInv, Coherence
(* A write that leaves the timers alone.                                   *)
<1>w. ASSUME NEW c, Written(cia, c), TimersKept(cia, c), cia' = c,
             UNCHANGED <<program, chip>>, mode' \in {"RSID", "RasterPSID", "TimerPSID"},
             playing' \in BOOLEAN, mode' # "TimerPSID" => mode # "TimerPSID"
      PROVE  ChipInv'
  <2>1. TypeOK' BY <1>0, <1>w DEF TypeOK, Written
  <2>2. \A t \in Timer : StartCopied(c, t) <=> StartCopied(cia, t)
    BY <1>w DEF TimersKept, StartCopied
  <2>3. Coherence' BY <1>0, <1>c, <1>w, <2>2 DEF Coherence, Written, TimersKept
  <2>4. Marks(c) BY <1>0, <1>w DEF Marks, TimersKept
  <2>5. QED BY <1>w, <2>1, <2>3, <2>4 DEF ChipInv
<1>1. CASE Clock
  <2>1. Advanced(cia, cia') BY <1>0, <1>1, ClockAdvances DEF ChipInv
  <2>2. Marks(cia') BY <1>0, <2>1, AdvancedMarks
  <2>3. KeptAll(cia, cia') /\ Pending(cia') BY <2>1 DEF Advanced
  <2>4. UNCHANGED <<program, chip, mode, playing>> BY <1>1 DEF Clock
  <2>5. TypeOK' BY <1>0, <2>3, <2>4 DEF TypeOK, KeptAll
  <2>6. Coherence' BY <1>0, <1>c, <2>3, <2>4 DEF Coherence, KeptAll
  <2>7. QED BY <2>2, <2>5, <2>6 DEF ChipInv
<1>2. CASE WriteICR
  <2>1. PICK w \in program.masks :
          cia' = SetInterruptMask(cia, IF chip = "CIA2" /\ ~ RSID
                                       THEN [w EXCEPT !.set = FALSE] ELSE w)
    BY <1>2 DEF WriteICR
  <2> DEFINE v == IF chip = "CIA2" /\ ~ RSID THEN [w EXCEPT !.set = FALSE] ELSE w
  <2>2. v \in MaskWrite
    <3>1. w \in MaskWrite /\ FALSE \in BOOLEAN BY <1>p
    <3>2. [w EXCEPT !.set = FALSE] \in MaskWrite BY <3>1, Zenon DEF MaskWrite
    <3>3. QED BY <3>1, <3>2
  <2> HIDE DEF v
  <2>3. cia' = SetInterruptMask(cia, v) BY <2>1 DEF v
  <2>4. Written(cia, cia') /\ TimersKept(cia, cia') BY <1>0, <2>2, <2>3, SetMaskKeeps
  <2>5. UNCHANGED <<program, chip, mode, playing>> BY <1>2 DEF WriteICR
  <2>6. QED BY <1>0, <1>w, <2>4, <2>5
<1>3. CASE ReadICR
  <2>1. cia' = AcknInterruptStatus(cia) /\ UNCHANGED <<program, chip, mode, playing>>
    BY <1>3 DEF ReadICR
  <2>2. Written(cia, cia') /\ TimersKept(cia, cia') BY <1>0, <2>1, AcknKeeps
  <2>3. QED BY <1>0, <1>w, <2>1, <2>2
<1>4. CASE WriteControl
  <2>1. PICK w \in program.controls : cia' = SetControl(cia, w)
    BY <1>4 DEF WriteControl
  <2>2. UNCHANGED <<program, chip, mode, playing>>
    BY <1>4 DEF WriteControl
  <2>3. w \in Control /\ w.timer \in Timer BY <1>p DEF Control
  <2>4. /\ Written(cia, cia') /\ cia'.fired = cia.fired
        /\ cia'.script[w.timer] = Script(cia, w)
        /\ cia'.ctrl[w.timer] = [start |-> Starts(w), oneShot |-> w.oneShot,
                                 source |-> w.source]
        /\ cia'.isStarted[w.timer] = Starts(w)
        /\ cia'.bLinked = (IF w.timer = "B" THEN w.source = "A" ELSE cia.bLinked)
        /\ \A u \in Timer \ {w.timer} : /\ cia'.script[u] = cia.script[u]
                                        /\ cia'.ctrl[u] = cia.ctrl[u]
                                        /\ cia'.isStarted[u] = cia.isStarted[u]
    BY <1>0, <2>1, <2>3, ControlKeeps
  <2>5. TypeOK' BY <1>0, <2>2, <2>4 DEF TypeOK, Written
  <2>6. cia'.bLinked <=> cia'.ctrl["B"].source = "A"
    <3>1. CASE w.timer = "B"
      <4>1. cia'.bLinked <=> w.source = "A" BY <2>4, <3>1
      <4>2. cia'.ctrl["B"].source = w.source BY <2>4, <3>1
      <4>3. QED BY <4>1, <4>2
    <3>2. CASE w.timer # "B"
      <4>1. cia'.bLinked <=> cia.bLinked BY <2>4, <3>2
      <4>2. cia'.ctrl["B"] = cia.ctrl["B"] BY <1>0, <2>4, <3>2
      <4>3. QED BY <1>0, <4>1, <4>2
    <3>3. QED BY <3>1, <3>2
  <2>7. ASSUME mode # "TimerPSID" PROVE \A t \in Timer : StartCopied(cia', t)
    BY <1>c, <2>3, <2>4, <2>7 DEF StartCopied
  <2>8. Coherence' BY <1>c, <2>2, <2>4, <2>6, <2>7 DEF Coherence, Written
  <2>9. Marks(cia')
    <3>1. CASE w.timer = "A"
      <4>1. \/ "under" \notin Script(cia, w)[1] \cup Script(cia, w)[2] \cup Script(cia, w)[3]
            \/ Script(cia, w) = cia.script["A"]
        BY <3>1 DEF Script, ScriptOf
      <4>2. QED BY <1>0, <2>4, <3>1, <4>1 DEF Marks
    <3>2. CASE w.timer # "A"
      BY <1>0, <2>4, <3>2 DEF Marks
    <3>3. QED BY <3>1, <3>2
  <2>10. QED BY <2>5, <2>8, <2>9 DEF ChipInv
<1>5. CASE WriteTimer
  <2>1. PICK w \in program.latches : cia' = WriteLatch(cia, w)
    BY <1>5 DEF WriteTimer
  <2>2. UNCHANGED <<program, chip, mode, playing>>
    BY <1>5 DEF WriteTimer
  <2>3. /\ Written(cia, cia') /\ cia'.script = cia.script /\ cia'.ctrl = cia.ctrl
        /\ cia'.isStarted = cia.isStarted /\ cia'.bLinked = cia.bLinked
        /\ cia'.fired = cia.fired
    BY <1>0, <1>p, <2>1, LatchKeeps
  <2>4. TypeOK' BY <1>0, <2>2, <2>3 DEF TypeOK, Written
  <2>5. \A t \in Timer : StartCopied(cia', t) <=> StartCopied(cia, t)
    BY <2>3 DEF StartCopied
  <2>6. Coherence' BY <1>0, <1>c, <2>2, <2>3, <2>5 DEF Coherence, Written
  <2>7. Marks(cia') BY <1>0, <2>3 DEF Marks
  <2>8. QED BY <2>4, <2>6, <2>7 DEF ChipInv
<1>6. CASE SetDefaultsTimerPSID
  <2> DEFINE on == [start |-> TRUE, oneShot |-> FALSE, source |-> "phi2"]
             ctrl == [cia.ctrl EXCEPT !["A"] = on]
  <2>1. /\ mode' = "TimerPSID" /\ playing' = FALSE /\ UNCHANGED <<program, chip>>
        /\ cia' = cia \/ cia' = [cia EXCEPT !.icr = {"A"}, !.ctrl = ctrl]
    BY <1>6 DEF SetDefaultsTimerPSID
  <2>2. CASE cia' = cia
    BY <1>0, <2>1, <2>2 DEF ChipInv, TypeOK, Coherence
  <2>3. CASE cia' = [cia EXCEPT !.icr = {"A"}, !.ctrl = ctrl]
    <3>1. on \in Settings BY DEF Settings, Source
    <3> HIDE DEF on
    <3>2. ctrl \in [Timer -> Settings] /\ ctrl["B"] = cia.ctrl["B"]
      BY <1>0, <3>1, ChipFields
    <3>3. {"A"} \in SUBSET Timer BY <1>0
    <3> HIDE DEF ctrl
    <3>4. cia' \in ChipState BY <1>0, <2>3, <3>2, <3>3, Zenon DEF ChipState, Settings
    <3>5. /\ cia'.script = cia.script /\ cia'.status = cia.status /\ cia'.irq = cia.irq
          /\ cia'.fired = cia.fired /\ cia'.mask = cia.mask /\ cia'.bLinked = cia.bLinked
          /\ cia'.interruptOn = cia.interruptOn /\ cia'.maskMatch = cia.maskMatch
          /\ cia'.ctrl = ctrl
      BY <1>0, <2>3, Zenon DEF ChipState
    <3>6. TypeOK' BY <1>0, <2>1, <3>4 DEF TypeOK
    <3>7. Coherence' BY <1>0, <2>1, <3>2, <3>5 DEF Coherence, Copies
    <3>8. Marks(cia') BY <1>0, <3>5 DEF Marks
    <3>9. QED BY <3>6, <3>7, <3>8 DEF ChipInv
  <2>4. QED BY <2>1, <2>2, <2>3
<1>7. CASE SetDefaultsRasterPSID
  <2>1. /\ UNCHANGED <<program, chip, playing>> /\ mode = "RSID" /\ mode' = "RasterPSID"
    BY <1>7 DEF SetDefaultsRasterPSID
  <2>2. CASE UNCHANGED cia
    <3>1. Written(cia, cia) /\ TimersKept(cia, cia) BY <1>0 DEF Written, TimersKept
    <3>2. QED BY <1>0, <1>w, <2>1, <2>2, <3>1
  <2>3. CASE cia' = SetInterruptMask(cia, [set |-> FALSE, bits |-> Timer])
    <3>1. [set |-> FALSE, bits |-> Timer] \in MaskWrite BY DEF MaskWrite
    <3>2. Written(cia, cia') /\ TimersKept(cia, cia')
      BY <1>0, <2>3, <3>1, SetMaskKeeps
    <3>3. QED BY <1>0, <1>w, <2>1, <3>2
  <2>4. QED BY <1>7, <2>2, <2>3 DEF SetDefaultsRasterPSID
<1>8. CASE Interrupt
  <2>1. playing' = TRUE /\ UNCHANGED <<program, chip, cia, mode>>
    BY <1>8 DEF Interrupt
  <2>2. QED BY <2>1 DEF ChipInv, TypeOK, Coherence
<1>9. CASE UNCHANGED vars
  BY <1>9 DEF ChipInv, TypeOK, Coherence, vars
<1>10. QED BY <1>1, <1>2, <1>3, <1>4, <1>5, <1>6, <1>7, <1>8, <1>9 DEF Next
LEMMA ChipInvariance == Spec => []ChipInv
<1>1. QED BY InitChipInv, NextChipInv, PTL DEF Spec

(* The observers only watch.                                               *)
LEMMA TimingIsSpec == SpecTiming => Spec
<1>1. InitTiming => Init
  BY DEF InitTiming
<1>2. [NextTiming]_<<vars, observers>> => [Next]_vars
  BY DEF NextTiming, Next, WatchClock, WatchControl, WatchTimer, WatchMask, WatchRead,
         WatchDefaults, WatchInterrupt
<1>3. QED BY <1>1, <1>2, PTL DEF SpecTiming, Spec

(* Registers, counters and cached copies keep to their widths.             *)
THEOREM TypeCorrect == SpecTiming => []TypeOK
<1>1. ChipInv => TypeOK BY DEF ChipInv
<1>2. QED BY <1>1, ChipInvariance, TimingIsSpec, PTL

(* cia.c:280: no function of the chip leaves a cached copy behind, but for *)
(* ciaSetDefaultsPSID.                                                     *)
THEOREM CopiesSynced == SpecTiming => []Coherent
<1>1. ChipInv => Coherent
  BY DEF ChipInv, Coherence, Coherent, Copies, StartCopied
<1>2. QED BY <1>1, ChipInvariance, TimingIsSpec, PTL

(* cia.c:303-306: whatever the program writes to mask and control          *)
(* registers, and when, an underflow that is reported and not masked has   *)
(* raised the interrupt or scheduled it.                                   *)
THEOREM NoInterruptLost == SpecTiming => []NoLostInterrupt
<1>1. ChipInv => NoLostInterrupt
  BY DEF ChipInv, Coherence, NoLostInterrupt, Pending
<1>2. QED BY <1>1, ChipInvariance, TimingIsSpec, PTL
-----------------------------------------------------------------------------
(* The observers.                                                          *)
Flags(what) == IF what = "count" THEN {"started"} ELSE {}
Free(started) == IF started THEN "count" ELSE "keep"

(* The rest p of a row of the table of cia.c:59-68, the script s it comes  *)
(* with, and x, what the timer does when no script is left.  A load is     *)
(* repeated, which does not show.                                          *)
Row(p, s, x, loaded) ==
  \/ \E w \in {"keep", "count"} :
       \/ p = <<w, w, x, x>> /\ s = ScriptOf(Flags(w), Flags(w), {"end"})
       \/ p = <<w, x, x>> /\ s = ScriptOf(Flags(w), {"end"}, {})
       \/ p = <<w, "load", "keep", x>> /\ s = ScriptOf(Flags(w), {"load"}, {"load"})
  \/ p = <<x, x>> /\ s = ScriptOf({"end"}, {}, {})
  \/ p = <<x>> /\ s = ScriptOf({}, {}, {})
  \/ p = <<"load", "keep", x>> /\ s = ScriptOf({"load"}, {"load"}, {})
  \/ p = <<"keep", x>> /\ s = ScriptOf({"load"}, {}, {}) /\ loaded

FollowsTable(t) ==
  plan[t] # <<>> =>
    Row(plan[t], cia.script[t], Free(cia.isStarted[t]), cia.counter[t] = cia.latch[t])

(* How far a timer that is left alone has counted.                         *)
Reload == ScriptOf({"under"}, {}, {})

CountedSo(t) ==
  \/ /\ cia.script[t] = Reload
     /\ cia.counter[t] = cia.latch[t] /\ since[t] = 1
  \/ /\ cia.script[t] = NoScript
     /\ since[t] >= 2 /\ cia.counter[t] + since[t] = cia.latch[t] + 2
     /\ since[t] = 2 \/ cia.counter[t] >= 1

Regular(t) ==
  since[t] # 0 =>
    /\ cia.script[t] \in {NoScript, Reload}
    /\ cia.isStarted[t] /\ ~ cia.ctrl[t].oneShot => CountedSo(t)

(* The timers that the table and the period are about.                     *)
Own(t) == ~ Linked(t) /\ ClockedTimer(t)

Observed ==
  /\ plan = [t \in Timer |-> plan[t]]
  /\ since \in [Timer -> Nat]
  /\ quiet /\ "A" \in cia.fired => "under" \in cia.script["A"][1]
  /\ \A t \in Timer : Own(t) => FollowsTable(t) /\ Regular(t)

TimingInv == ChipInv /\ Observed

LEMMA ScriptIs ==
  ASSUME NEW a, NEW b, NEW e
  PROVE  /\ ScriptOf(a, b, e)[1] = a /\ ScriptOf(a, b, e)[2] = b /\ ScriptOf(a, b, e)[3] = e
         /\ Rest(ScriptOf(a, b, e)) = ScriptOf(b, e, {})
         /\ NoScript = ScriptOf({}, {}, {})
BY DEF ScriptOf, Rest, NoScript

LEMMA Tails ==
  ASSUME NEW a, NEW b, NEW x, NEW y
  PROVE  /\ Head(<<a, b, x, y>>) = a /\ Tail(<<a, b, x, y>>) = <<b, x, y>>
         /\ Head(<<a, b, x>>) = a /\ Tail(<<a, b, x>>) = <<b, x>>
         /\ Head(<<a, b>>) = a /\ Tail(<<a, b>>) = <<b>>
         /\ Head(<<a>>) = a /\ Tail(<<a>>) = <<>>
OBVIOUS

(* One clock of a timer that is not linked, c before and d after it.       *)
Does(c, d, t, what) ==
  CASE what = "keep"  -> d.counter[t] = c.counter[t]
    [] what = "load"  -> d.counter[t] = c.latch[t]
    [] what = "count" -> IF c.counter[t] <= 1 THEN t \in d.fired
                         ELSE d.counter[t] = c.counter[t] - 1

LEMMA RowMoves ==
  ASSUME NEW c \in ChipState, Copies(c), NEW d, NEW t \in Timer,
         Moved(Fresh(c), d, t), d.latch = c.latch, NEW p,
         Row(p, c.script[t], Free(c.isStarted[t]), c.counter[t] = c.latch[t])
  PROVE  /\ Does(c, d, t, Head(p))
         /\ \/ t \in d.fired \/ Tail(p) = <<>>
            \/ Row(Tail(p), d.script[t], Free(d.isStarted[t]), d.counter[t] = d.latch[t])
<1> DEFINE x == Free(c.isStarted[t])
           s == c.script[t]
<1>1. /\ d.counter[t] = IF "load" \in s[1] THEN c.latch[t]
                        ELSE IF "under" \in s[1] \/ ~ Counts(c, t) THEN c.counter[t]
                        ELSE IF c.counter[t] <= 1 THEN c.latch[t] ELSE c.counter[t] - 1
      /\ ~ Fires(c, t) => d.script[t] = Rest(s)
      /\ t \in d.fired <=> Fires(c, t)
      /\ ~ Fires(c, t) => (d.isStarted[t] <=> c.isStarted[t])
  BY FreshMoved
<1>2. ~ Fires(c, t) => Free(d.isStarted[t]) = x
  BY <1>1 DEF Free
<1>3. /\ Fires(c, t) <=> /\ "under" \notin s[1] /\ "load" \notin s[1]
                         /\ Counts(c, t) /\ c.counter[t] <= 1
      /\ s # NoScript /\ "end" \notin s[1] => (Counts(c, t) <=> "started" \in s[1])
      /\ s = NoScript \/ "end" \in s[1] => (Counts(c, t) <=> c.isStarted[t])
      /\ x = IF c.isStarted[t] THEN "count" ELSE "keep"
  BY DEF Fires, Counts, Scripted, Free
<1>4. c.counter[t] \in Nat /\ c.latch[t] \in Nat
  BY ChipFields
<1>5. Row(p, s, x, c.counter[t] = c.latch[t])
  OBVIOUS
<1> HIDE DEF x, s
<1>t. ASSUME NEW a, NEW b, NEW e, s = ScriptOf(a, b, e)
      PROVE  s[1] = a /\ Rest(s) = ScriptOf(b, e, {}) /\ s[2] = b /\ s[3] = e
  BY <1>t, ScriptIs
<1>n. NoScript[1] = {} /\ NoScript[2] = {} /\ NoScript[3] = {}
  BY DEF NoScript
<1>6. CASE \E w \in {"keep", "count"} :
             p = <<w, w, x, x>> /\ s = ScriptOf(Flags(w), Flags(w), {"end"})
  <2>1. PICK w \in {"keep", "count"} :
               p = <<w, w, x, x>> /\ s = ScriptOf(Flags(w), Flags(w), {"end"})
    BY <1>6
  <2>2. s[1] = Flags(w) /\ s # NoScript /\ Rest(s) = ScriptOf(Flags(w), {"end"}, {})
    BY <2>1, <1>t, <1>n
  <2>3. Head(p) = w /\ Tail(p) = <<w, x, x>> BY <2>1, Tails
  <2>4. "end" \notin s[1] /\ "load" \notin s[1] /\ "under" \notin s[1]
        /\ ("started" \in s[1] <=> w = "count")
    BY <2>2 DEF Flags
  <2>5. Does(c, d, t, w) BY <1>1, <1>3, <1>4, <2>2, <2>4 DEF Does
  <2>6. ~ Fires(c, t) => Row(Tail(p), d.script[t], x, d.counter[t] = d.latch[t])
    BY <1>1, <2>2, <2>3 DEF Row
  <2>7. QED BY <1>1, <1>2, <2>3, <2>5, <2>6
<1>7. CASE \E w \in {"keep", "count"} : p = <<w, x, x>> /\ s = ScriptOf(Flags(w), {"end"}, {})
  <2>1. PICK w \in {"keep", "count"} : p = <<w, x, x>> /\ s = ScriptOf(Flags(w), {"end"}, {})
    BY <1>7
  <2>2. s[1] = Flags(w) /\ s # NoScript /\ Rest(s) = ScriptOf({"end"}, {}, {})
    BY <2>1, <1>t, <1>n
  <2>3. Head(p) = w /\ Tail(p) = <<x, x>> BY <2>1, Tails
  <2>4. "end" \notin s[1] /\ "load" \notin s[1] /\ "under" \notin s[1]
        /\ ("started" \in s[1] <=> w = "count")
    BY <2>2 DEF Flags
  <2>5. Does(c, d, t, w) BY <1>1, <1>3, <1>4, <2>2, <2>4 DEF Does
  <2>6. ~ Fires(c, t) => Row(Tail(p), d.script[t], x, d.counter[t] = d.latch[t])
    BY <1>1, <2>2, <2>3 DEF Row
  <2>7. QED BY <1>1, <1>2, <2>3, <2>5, <2>6
<1>8. CASE \E w \in {"keep", "count"} :
             p = <<w, "load", "keep", x>> /\ s = ScriptOf(Flags(w), {"load"}, {"load"})
  <2>1. PICK w \in {"keep", "count"} :
               p = <<w, "load", "keep", x>> /\ s = ScriptOf(Flags(w), {"load"}, {"load"})
    BY <1>8
  <2>2. s[1] = Flags(w) /\ s # NoScript /\ Rest(s) = ScriptOf({"load"}, {"load"}, {})
    BY <2>1, <1>t, <1>n
  <2>3. Head(p) = w /\ Tail(p) = <<"load", "keep", x>> BY <2>1, Tails
  <2>4. "end" \notin s[1] /\ "load" \notin s[1] /\ "under" \notin s[1]
        /\ ("started" \in s[1] <=> w = "count")
    BY <2>2 DEF Flags
  <2>5. Does(c, d, t, w) BY <1>1, <1>3, <1>4, <2>2, <2>4 DEF Does
  <2>6. ~ Fires(c, t) => Row(Tail(p), d.script[t], x, d.counter[t] = d.latch[t])
    BY <1>1, <2>2, <2>3 DEF Row
  <2>7. QED BY <1>1, <1>2, <2>3, <2>5, <2>6
<1>9. CASE p = <<x, x>> /\ s = ScriptOf({"end"}, {}, {})
  <2>2. s[1] = {"end"} /\ Rest(s) = ScriptOf({}, {}, {}) BY <1>9, <1>t
  <2>3. Head(p) = x /\ Tail(p) = <<x>> BY <1>9, Tails
  <2>4. Counts(c, t) <=> c.isStarted[t] BY <1>3, <2>2
  <2>5. Does(c, d, t, x) BY <1>1, <1>3, <1>4, <2>2, <2>4 DEF Does
  <2>6. ~ Fires(c, t) => Row(Tail(p), d.script[t], x, d.counter[t] = d.latch[t])
    BY <1>1, <2>2, <2>3 DEF Row
  <2>7. QED BY <1>1, <1>2, <2>3, <2>5, <2>6
<1>10. CASE p = <<x>> /\ s = ScriptOf({}, {}, {})
  <2>2. s[1] = {} /\ s = NoScript BY <1>10, <1>t, ScriptIs
  <2>3. Head(p) = x /\ Tail(p) = <<>> BY <1>10, Tails
  <2>4. Counts(c, t) <=> c.isStarted[t] BY <1>3, <2>2
  <2>5. Does(c, d, t, x) BY <1>1, <1>3, <1>4, <2>2, <2>4 DEF Does
  <2>6. QED BY <2>3, <2>5
<1>11. CASE p = <<"load", "keep", x>> /\ s = ScriptOf({"load"}, {"load"}, {})
  <2>2. s[1] = {"load"} /\ Rest(s) = ScriptOf({"load"}, {}, {}) BY <1>11, <1>t
  <2>3. Head(p) = "load" /\ Tail(p) = <<"keep", x>> BY <1>11, Tails
  <2>4. d.counter[t] = c.latch[t] /\ ~ Fires(c, t) BY <1>1, <1>3, <2>2
  <2>5. Row(Tail(p), d.script[t], x, d.counter[t] = d.latch[t])
    BY <1>1, <2>2, <2>3, <2>4 DEF Row
  <2>6. QED BY <1>2, <2>3, <2>4, <2>5 DEF Does
<1>12. CASE p = <<"keep", x>> /\ s = ScriptOf({"load"}, {}, {}) /\ c.counter[t] = c.latch[t]
  <2>2. s[1] = {"load"} /\ Rest(s) = ScriptOf({}, {}, {}) BY <1>12, <1>t
  <2>3. Head(p) = "keep" /\ Tail(p) = <<x>> BY <1>12, Tails
  <2>4. d.counter[t] = c.latch[t] /\ ~ Fires(c, t) BY <1>1, <1>3, <2>2
  <2>5. Row(Tail(p), d.script[t], x, d.counter[t] = d.latch[t])
    BY <1>1, <2>2, <2>3, <2>4 DEF Row
  <2>6. QED BY <1>2, <1>12, <2>3, <2>4, <2>5 DEF Does
<1>13. QED BY <1>5, <1>6, <1>7, <1>8, <1>9, <1>10, <1>11, <1>12 DEF Row
LEMMA RegularMoves ==
  ASSUME cia \in ChipState, Copies(cia), since \in [Timer -> Nat], NEW t \in Timer,
         KeptAll(cia, cia'), Moved(Fresh(cia), cia', t), Ticks(t), Regular(t),
         since'[t] = IF t \in cia'.fired THEN IF Undisturbed(t) THEN 1 ELSE 0
                     ELSE IF since[t] = 0 THEN 0 ELSE AtMost(since[t] + 1, Cap)
  PROVE  Regular(t)' /\ FiresOnTime(t)
<1> DEFINE s == cia.script[t]
           n == cia.counter[t]
           max == cia.latch[t]
           fires == Fires(cia, t)
<1>1. /\ cia'.counter[t] = IF "load" \in s[1] THEN max
                           ELSE IF "under" \in s[1] \/ ~ Counts(cia, t) THEN n
                           ELSE IF n <= 1 THEN max ELSE n - 1
      /\ cia'.script[t] = IF fires THEN [Rest(s) EXCEPT ![1] = @ \cup {"under"}] ELSE Rest(s)
      /\ t \in cia'.fired <=> fires
      /\ cia'.isStarted[t] <=> (cia.isStarted[t] /\ ~ (fires /\ cia.ctrl[t].oneShot))
  BY FreshMoved
<1>2. /\ fires <=> /\ "under" \notin s[1] /\ "load" \notin s[1] /\ Counts(cia, t) /\ n <= 1
      /\ s = NoScript \/ "end" \in s[1] => (Counts(cia, t) <=> cia.isStarted[t])
  BY DEF Fires, Counts, Scripted
<1>3. /\ n \in Nat /\ max \in Nat /\ max < ByteSize * ByteSize /\ s \in Scripts
      /\ ByteSize * ByteSize \in Nat
  BY ChipFields, CiaAssumption DEF Count16, ChipState
<1>4. cia'.latch[t] = max /\ (cia'.ctrl[t].oneShot <=> cia.ctrl[t].oneShot)
  BY DEF KeptAll
<1>5. since[t] \in Nat OBVIOUS
<1>6. Reload[1] = {"under"} /\ Rest(Reload) = NoScript /\ NoScript[1] = {}
      /\ Rest(NoScript) = NoScript
  BY ScriptIs DEF Reload
<1>7. Regular(t) /\ since[t] # 0 => s = NoScript \/ s = Reload
  BY DEF Regular
<1>8. Regular(t) /\ since[t] # 0 /\ cia.isStarted[t] /\ ~ cia.ctrl[t].oneShot =>
        \/ s = Reload /\ n = max /\ since[t] = 1
        \/ /\ s = NoScript /\ since[t] >= 2 /\ n + since[t] = max + 2
           /\ since[t] = 2 \/ n >= 1
  BY DEF Regular, CountedSo
<1>9. ASSUME since[t] # 0, cia.isStarted[t], ~ cia.ctrl[t].oneShot
      PROVE  fires <=> since[t] = PeriodOf(max)
  <2> HIDE DEF s, n, max, fires
  <2>1. CASE s = Reload /\ n = max /\ since[t] = 1
    BY <1>2, <1>3, <1>6, <2>1 DEF PeriodOf
  <2>2. CASE /\ s = NoScript /\ since[t] >= 2 /\ n + since[t] = max + 2
             /\ since[t] = 2 \/ n >= 1
    <3>1. fires <=> n <= 1 BY <1>2, <1>6, <1>9, <2>2
    <3>2. QED BY <1>3, <1>5, <2>2, <3>1 DEF PeriodOf
  <2>3. QED BY <1>8, <1>9, <2>1, <2>2
<1>10. FiresOnTime(t) BY <1>1, <1>9 DEF FiresOnTime
<1>11. SUFFICES ASSUME since'[t] # 0
                PROVE  /\ cia'.script[t] \in {NoScript, Reload}
                       /\ cia'.isStarted[t] /\ ~ cia'.ctrl[t].oneShot => CountedSo(t)'
  BY <1>10 DEF Regular
<1> HIDE DEF s, n, max, fires
<1>12. CASE fires
  <2>1. Undisturbed(t) /\ since'[t] = 1 BY <1>1, <1>11, <1>12
  <2>2. "under" \in cia'.script[t][1]
    <3>1. Rest(s) \in Scripts BY <1>3, RestIs
    <3>2. QED BY <1>1, <1>12, <3>1 DEF Scripts
  <2>3. cia'.script[t] = Reload BY <1>6, <2>1, <2>2 DEF Undisturbed, Reload
  <2>4. cia'.counter[t] = max
    BY <1>1, <1>2, <1>12
  <2>5. QED BY <1>4, <2>1, <2>3, <2>4 DEF CountedSo
<1>13. CASE ~ fires
  <2>1. since[t] # 0 /\ since'[t] = AtMost(since[t] + 1, Cap)
    BY <1>1, <1>11, <1>13
  <2>2. cia'.script[t] = Rest(s) /\ (cia'.isStarted[t] <=> cia.isStarted[t])
    BY <1>1, <1>13
  <2>3. cia'.script[t] = NoScript BY <1>6, <1>7, <2>1, <2>2
  <2>4. ASSUME cia'.isStarted[t], ~ cia'.ctrl[t].oneShot PROVE CountedSo(t)'
    <3>1. cia.isStarted[t] /\ ~ cia.ctrl[t].oneShot BY <1>4, <2>2, <2>4
    <3>2. CASE s = Reload /\ n = max /\ since[t] = 1
      <4>1. since'[t] = 2 BY <1>3, <2>1, <3>2 DEF AtMost, Cap
      <4>2. cia'.counter[t] = max BY <1>1, <1>6, <3>2
      <4>3. QED BY <1>3, <1>4, <2>3, <4>1, <4>2 DEF CountedSo
    <3>3. CASE /\ s = NoScript /\ since[t] >= 2 /\ n + since[t] = max + 2
               /\ since[t] = 2 \/ n >= 1
      <4>1. n > 1 /\ cia'.counter[t] = n - 1
        BY <1>1, <1>2, <1>3, <1>6, <1>13, <3>1, <3>3
      <4>2. since'[t] = since[t] + 1
        BY <1>3, <1>5, <2>1, <3>3, <4>1 DEF AtMost, Cap
      <4>3. QED BY <1>3, <1>4, <1>5, <2>3, <3>3, <4>1, <4>2 DEF CountedSo
    <3>4. QED BY <1>8, <2>1, <3>1, <3>2, <3>3
  <2>5. QED BY <2>3, <2>4
<1>14. QED BY <1>12, <1>13
LEMMA OwnMoves ==
  ASSUME TypeOK, Copies(cia), Clock, NEW t \in Timer, Own(t)
  PROVE  /\ KeptAll(cia, cia') /\ Moved(Fresh(cia), cia', t) /\ Ticks(t)
         /\ mode' = mode
<1>1. Advanced(cia, cia') /\ mode' = mode
  BY ClockAdvances DEF Clock
<1>2. Ticks(t) BY DEF Own, Linked, Ticks
<1>3. Moved(Fresh(cia), cia', t)
  <2>1. CASE t = "A" BY <1>1, <2>1 DEF Advanced
  <2>2. CASE t = "B"
    <3>1. mode # "TimerPSID" /\ ~ cia.bLinked BY <2>2 DEF Own, Linked, ClockedTimer
    <3>2. cia' = ClockChip(cia) BY <3>1 DEF Clock
    <3>3. QED BY <2>2, <3>1, <3>2, ClockChipAdvances DEF TypeOK
  <2>3. QED BY <2>1, <2>2 DEF Timer
<1>4. QED BY <1>1, <1>2, <1>3 DEF Advanced

LEMMA ClockEffects ==
  ASSUME TimingInv, WatchClock, NEW t \in Timer, Own(t)
  PROVE  /\ FollowsTable(t)' /\ Regular(t)' /\ FiresOnTime(t)
         /\ plan[t] # <<>> => Effect(t, Head(plan[t]))
<1>1. /\ TypeOK /\ cia \in ChipState /\ Copies(cia) /\ since \in [Timer -> Nat]
      /\ FollowsTable(t) /\ Regular(t)
  BY DEF TimingInv, ChipInv, Coherence, Observed, TypeOK
<1>2. /\ Clock
      /\ plan'[t] = IF t \in cia'.fired \/ plan[t] = <<>> THEN <<>> ELSE Tail(plan[t])
      /\ since'[t] = IF t \in cia'.fired THEN IF Undisturbed(t) THEN 1 ELSE 0
                     ELSE IF since[t] = 0 \/ ~ Ticks(t) THEN since[t]
                     ELSE AtMost(since[t] + 1, Cap)
  BY DEF WatchClock
<1>3. KeptAll(cia, cia') /\ Moved(Fresh(cia), cia', t) /\ Ticks(t)
  BY <1>1, <1>2, OwnMoves
<1>4. since'[t] = IF t \in cia'.fired THEN IF Undisturbed(t) THEN 1 ELSE 0
                  ELSE IF since[t] = 0 THEN 0 ELSE AtMost(since[t] + 1, Cap)
  BY <1>2, <1>3
<1>5. Regular(t)' /\ FiresOnTime(t)
  BY <1>1, <1>3, <1>4, RegularMoves
<1>6. cia'.latch = cia.latch BY <1>3 DEF KeptAll
<1>7. ASSUME plan[t] # <<>>
      PROVE  /\ Does(cia, cia', t, Head(plan[t]))
             /\ \/ t \in cia'.fired \/ Tail(plan[t]) = <<>>
                \/ Row(Tail(plan[t]), cia'.script[t], Free(cia'.isStarted[t]),
                       cia'.counter[t] = cia'.latch[t])
  <2>1. Row(plan[t], cia.script[t], Free(cia.isStarted[t]), cia.counter[t] = cia.latch[t])
    BY <1>1, <1>7 DEF FollowsTable
  <2>2. QED BY <1>1, <1>3, <1>6, <2>1, RowMoves
<1>8. FollowsTable(t)'
  BY <1>2, <1>7 DEF FollowsTable
<1>9. plan[t] # <<>> => Effect(t, Head(plan[t]))
  BY <1>7 DEF Does, Effect
<1>10. QED BY <1>5, <1>8, <1>9

LEMMA TimingStep == [NextTiming]_<<vars, observers>> => [Next]_vars
BY DEF NextTiming, Next, WatchClock, WatchControl, WatchTimer, WatchMask, WatchRead,
       WatchDefaults, WatchInterrupt

(* A control write sets up a row of the table.                             *)
LEMMA PlanSetUp ==
  ASSUME NEW c \in ChipState, NEW w \in Control, ~ Scripted(c, w.timer),
         w.source \in {"phi2", "A"}, NEW loaded,
         PlanOf(c.ctrl[w.timer].start, w) # <<>>
  PROVE  Row(PlanOf(c.ctrl[w.timer].start, w), Script(c, w), Free(Starts(w)), loaded)
<1> DEFINE was == c.ctrl[w.timer].start
<1>0. was \in BOOLEAN /\ w.start \in BOOLEAN /\ w.load \in BOOLEAN
  BY DEF ChipState, Control
<1>1. Starts(w) <=> w.start BY DEF Starts
<1>2. Free(Starts(w)) = Free(w.start) BY <1>1 DEF Free
<1>3. CASE w.load
  <2> DEFINE h == IF was THEN "count" ELSE "keep"
  <2>1. Script(c, w) = ScriptOf(Flags(h), {"load"}, {"load"})
    BY <1>3 DEF Script, Flags
  <2>2. PlanOf(was, w) = <<h, "load", "keep", Free(w.start)>>
    BY <1>0, <1>3 DEF PlanOf, Free
  <2>3. h \in {"keep", "count"} OBVIOUS
  <2> HIDE DEF h, was
  <2>4. QED BY <1>2, <2>1, <2>2, <2>3 DEF Row, was
<1>4. CASE ~ w.load
  <2> DEFINE h == IF was THEN "count" ELSE "keep"
  <2>0. w.start # was
    BY <1>0, <1>4 DEF PlanOf
  <2>1. Script(c, w) = ScriptOf(Flags(h), Flags(h), {"end"})
    BY <1>4, <2>0 DEF Script, Flags
  <2>2. PlanOf(was, w) = <<h, h, Free(w.start), Free(w.start)>>
    BY <1>0, <1>4, <2>0 DEF PlanOf, Free
  <2>3. h \in {"keep", "count"} OBVIOUS
  <2> HIDE DEF h, was
  <2>4. QED BY <1>2, <2>1, <2>2, <2>3 DEF Row, was
<1>5. QED BY <1>0, <1>3, <1>4
LEMMA InitTimingInv == InitTiming => TimingInv
<1> SUFFICES ASSUME InitTiming PROVE TimingInv
  OBVIOUS
<1>1. ChipInv BY InitChipInv DEF InitTiming
<1>2. /\ plan = [t \in Timer |-> <<>>] /\ since = [t \in Timer |-> 0]
  BY DEF InitTiming
<1>3. cia.fired = {}
  BY DEF InitTiming, Init, ResetChip
<1>4. QED BY <1>1, <1>2, <1>3 DEF TimingInv, Observed, FollowsTable, Regular

(* Nothing the observers relate to each other changes.                     *)
LEMMA SameObserved ==
  ASSUME NEW t \in Timer, Own(t)' => Own(t), Own(t) => FollowsTable(t) /\ Regular(t),
         plan'[t] = plan[t], since'[t] = since[t], cia'.script[t] = cia.script[t],
         cia'.counter[t] = cia.counter[t], cia'.latch[t] = cia.latch[t],
         cia'.isStarted[t] = cia.isStarted[t], cia'.ctrl[t] = cia.ctrl[t]
  PROVE  Own(t)' => FollowsTable(t)' /\ Regular(t)'
BY DEF FollowsTable, Regular, CountedSo

LEMMA NextTimingInv == TimingInv /\ [NextTiming]_<<vars, observers>> => TimingInv'
<1> SUFFICES ASSUME TimingInv, [NextTiming]_<<vars, observers>> PROVE TimingInv'
  OBVIOUS
<1>0. /\ TypeOK /\ cia \in ChipState /\ Copies(cia) /\ program \in Programs
      /\ plan = [t \in Timer |-> plan[t]] /\ since \in [Timer -> Nat]
      /\ quiet /\ "A" \in cia.fired => "under" \in cia.script["A"][1]
      /\ \A t \in Timer : Own(t) => FollowsTable(t) /\ Regular(t)
      /\ "A" \in Timer /\ "B" \in Timer
  BY DEF TimingInv, ChipInv, Coherence, Observed, TypeOK, Timer
<1>p. program.controls \subseteq Control /\ program.latches \subseteq LatchWrite
      /\ program.masks \subseteq MaskWrite
  BY <1>0, CiaAssumption
<1>i. ChipInv' BY NextChipInv, TimingStep DEF TimingInv
<1>m. ASSUME UNCHANGED <<plan, since, mode>>, TimersKept(cia, cia'),
             quiet' => quiet
      PROVE  TimingInv'
  <2>1. ASSUME NEW t \in Timer PROVE Own(t)' => FollowsTable(t)' /\ Regular(t)'
    <3>1. Own(t)' => Own(t) BY <1>m DEF Own, Linked, ClockedTimer, TimersKept
    <3>2. QED BY <1>0, <1>m, <3>1, SameObserved DEF TimersKept
  <2>2. QED BY <1>0, <1>i, <1>m, <2>1 DEF TimingInv, Observed, TimersKept
<1>1. CASE WatchClock
  <2>1. /\ Clock /\ quiet' = TRUE /\ mode' = mode
        /\ plan' = [t \in Timer |-> IF t \in cia'.fired \/ plan[t] = <<>>
                                    THEN <<>> ELSE Tail(plan[t])]
        /\ since' = [t \in Timer |->
             IF t \in cia'.fired THEN IF Undisturbed(t) THEN 1 ELSE 0
             ELSE IF since[t] = 0 \/ ~ Ticks(t) THEN since[t]
             ELSE AtMost(since[t] + 1, Cap)]
    BY <1>1 DEF WatchClock, Clock
  <2>2. Advanced(cia, cia') BY <1>0, <2>1, ClockAdvances
  <2>3. ASSUME NEW t \in Timer PROVE Own(t)' => FollowsTable(t)' /\ Regular(t)'
    <3>1. Own(t)' => Own(t)
      BY <2>1, <2>2 DEF Own, Linked, ClockedTimer, Advanced, KeptAll
    <3>2. QED BY <1>1, <3>1, ClockEffects
  <2>4. "A" \in cia'.fired => "under" \in cia'.script["A"][1]
    <3>1. Moved(Fresh(cia), cia', "A") BY <2>2 DEF Advanced
    <3>2. "A" \in cia'.fired =>
            cia'.script["A"] = [Rest(cia.script["A"]) EXCEPT ![1] = @ \cup {"under"}]
      BY <1>0, <3>1, FreshMoved
    <3>3. Rest(cia.script["A"]) \in Scripts BY <1>0, ChipFields, RestIs
    <3>4. QED BY <3>2, <3>3 DEF Scripts
  <2>5. since' \in [Timer -> Nat]
    <3>1. Cap \in Nat BY CiaAssumption DEF Cap
    <3>2. \A t \in Timer : AtMost(since[t] + 1, Cap) \in Nat
      BY <1>0, <3>1 DEF AtMost
    <3>3. QED BY <1>0, <2>1, <3>2
  <2>6. plan' = [t \in Timer |-> plan'[t]] BY <2>1
  <2>7. QED BY <1>i, <2>1, <2>3, <2>4, <2>5, <2>6 DEF TimingInv, Observed
<1>2. CASE WatchControl
  <2>1. PICK w \in program.controls :
          /\ cia' = SetControl(cia, w)
          /\ plan' = [plan EXCEPT ![w.timer] =
               IF Scripted(cia, w.timer) \/ w.source \notin {"phi2", "A"}
               THEN <<>> ELSE PlanOf(cia.ctrl[w.timer].start, w)]
          /\ since' = [since EXCEPT ![w.timer] = 0, !["B"] = 0]
    BY <1>2 DEF WatchControl
  <2>2. mode' = mode /\ quiet' = FALSE BY <1>2 DEF WatchControl, WriteControl
  <2>3. w \in Control /\ w.timer \in Timer BY <1>p DEF Control
  <2>4. /\ cia'.counter = cia.counter /\ cia'.latch = cia.latch
        /\ cia'.script[w.timer] = Script(cia, w)
        /\ cia'.isStarted[w.timer] = Starts(w)
        /\ cia'.bLinked = (IF w.timer = "B" THEN w.source = "A" ELSE cia.bLinked)
        /\ \A u \in Timer \ {w.timer} : /\ cia'.script[u] = cia.script[u]
                                        /\ cia'.ctrl[u] = cia.ctrl[u]
                                        /\ cia'.isStarted[u] = cia.isStarted[u]
    <3>1. cia \in ChipState /\ Copies(cia) /\ cia' = SetControl(cia, w)
      BY <1>0, <2>1
    <3>2. /\ Written(cia, cia') /\ cia'.counter = cia.counter /\ cia'.latch = cia.latch
          /\ cia'.fired = cia.fired /\ cia'.status = cia.status /\ cia'.irq = cia.irq
          /\ cia'.mask = cia.mask
          /\ cia'.script[w.timer] = Script(cia, w)
          /\ cia'.ctrl[w.timer] = [start |-> Starts(w), oneShot |-> w.oneShot,
                                   source |-> w.source]
          /\ cia'.isStarted[w.timer] = Starts(w)
          /\ cia'.bLinked = (IF w.timer = "B" THEN w.source = "A" ELSE cia.bLinked)
          /\ \A u \in Timer \ {w.timer} : /\ cia'.script[u] = cia.script[u]
                                          /\ cia'.ctrl[u] = cia.ctrl[u]
                                          /\ cia'.isStarted[u] = cia.isStarted[u]
      BY <2>3, <3>1, ControlKeeps
    <3>3. QED BY <3>2
  <2>5. /\ plan'[w.timer] = IF Scripted(cia, w.timer) \/ w.source \notin {"phi2", "A"}
                            THEN <<>> ELSE PlanOf(cia.ctrl[w.timer].start, w)
        /\ \A u \in Timer \ {w.timer} : plan'[u] = plan[u]
        /\ plan' = [t \in Timer |-> plan'[t]]
    BY <1>0, <2>1, <2>3
  <2>6. /\ since' \in [Timer -> Nat] /\ since'[w.timer] = 0 /\ since'["B"] = 0
        /\ \A u \in Timer \ {w.timer, "B"} : since'[u] = since[u]
    BY <1>0, <2>1, <2>3
  <2>7. ASSUME NEW t \in Timer PROVE Own(t)' => FollowsTable(t)' /\ Regular(t)'
    <3>1. CASE t = w.timer
      <4>1. Regular(t)' BY <2>6, <3>1 DEF Regular
      <4>2. ASSUME plan'[t] # <<>>
            PROVE  Row(plan'[t], cia'.script[t], Free(cia'.isStarted[t]),
                       cia'.counter[t] = cia'.latch[t])
        <5>1. /\ ~ Scripted(cia, w.timer) /\ w.source \in {"phi2", "A"}
              /\ plan'[t] = PlanOf(cia.ctrl[w.timer].start, w)
          BY <2>5, <3>1, <4>2
        <5>2. QED BY <1>0, <2>3, <2>4, <3>1, <4>2, <5>1, PlanSetUp
      <4>3. QED BY <4>1, <4>2 DEF FollowsTable
    <3>2. CASE t # w.timer
      <4>1. Own(t)' => Own(t)
        BY <2>2, <2>3, <2>4, <3>2 DEF Own, Linked, ClockedTimer, Timer
      <4>2. FollowsTable(t) => FollowsTable(t)'
        BY <2>4, <2>5, <3>2 DEF FollowsTable
      <4>3. Regular(t) => Regular(t)'
        <5>1. CASE t = "B" BY <2>6, <5>1 DEF Regular
        <5>2. CASE t # "B" BY <2>4, <2>6, <3>2, <5>2 DEF Regular, CountedSo
        <5>3. QED BY <5>1, <5>2
      <4>4. QED BY <1>0, <4>1, <4>2, <4>3
    <3>3. QED BY <3>1, <3>2
  <2>8. QED BY <1>i, <2>2, <2>5, <2>6, <2>7 DEF TimingInv, Observed
<1>3. CASE WatchTimer
  <2>1. PICK w \in program.latches :
          /\ cia' = WriteLatch(cia, w)
          /\ plan' = [plan EXCEPT ![w.timer] = <<>>]
          /\ since' = [since EXCEPT ![w.timer] = 0]
    BY <1>3 DEF WatchTimer
  <2>2. mode' = mode /\ quiet' = FALSE BY <1>3 DEF WatchTimer, WriteTimer
  <2>3. w \in LatchWrite /\ w.timer \in Timer BY <1>p DEF LatchWrite
  <2>4. /\ cia'.script = cia.script /\ cia'.ctrl = cia.ctrl
        /\ cia'.isStarted = cia.isStarted /\ cia'.bLinked = cia.bLinked
        /\ \A u \in Timer \ {w.timer} : /\ cia'.counter[u] = cia.counter[u]
                                        /\ cia'.latch[u] = cia.latch[u]
    BY <1>0, <2>1, <2>3, LatchKeeps
  <2>5. /\ plan'[w.timer] = <<>> /\ since'[w.timer] = 0
        /\ since' \in [Timer -> Nat] /\ plan' = [t \in Timer |-> plan'[t]]
        /\ \A u \in Timer \ {w.timer} : plan'[u] = plan[u] /\ since'[u] = since[u]
    BY <1>0, <2>1, <2>3
  <2>6. ASSUME NEW t \in Timer PROVE Own(t)' => FollowsTable(t)' /\ Regular(t)'
    <3>1. CASE t = w.timer BY <2>5, <3>1 DEF FollowsTable, Regular
    <3>2. CASE t # w.timer
      <4>1. Own(t)' => Own(t) BY <2>2, <2>4 DEF Own, Linked, ClockedTimer
      <4>2. QED BY <1>0, <2>4, <2>5, <3>2, <4>1, SameObserved
    <3>3. QED BY <3>1, <3>2
  <2>7. QED BY <1>i, <2>2, <2>5, <2>6 DEF TimingInv, Observed
<1>4. CASE WatchMask
  <2>1. PICK w \in program.masks :
          cia' = SetInterruptMask(cia, IF chip = "CIA2" /\ ~ RSID
                                       THEN [w EXCEPT !.set = FALSE] ELSE w)
    BY <1>4 DEF WatchMask, WriteICR
  <2> DEFINE v == IF chip = "CIA2" /\ ~ RSID THEN [w EXCEPT !.set = FALSE] ELSE w
  <2>2. v \in MaskWrite
    <3>1. w \in MaskWrite /\ FALSE \in BOOLEAN BY <1>p
    <3>2. [w EXCEPT !.set = FALSE] \in MaskWrite BY <3>1, Zenon DEF MaskWrite
    <3>3. QED BY <3>1, <3>2
  <2> HIDE DEF v
  <2>3. cia' = SetInterruptMask(cia, v) BY <2>1 DEF v
  <2>4. TimersKept(cia, cia') BY <1>0, <2>2, <2>3, SetMaskKeeps
  <2>5. UNCHANGED <<plan, since, mode>> /\ quiet' = FALSE
    BY <1>4 DEF WatchMask, WriteICR
  <2>6. QED BY <1>m, <2>4, <2>5
<1>5. CASE WatchRead
  <2>1. cia' = AcknInterruptStatus(cia) /\ UNCHANGED <<plan, since, mode>> /\ quiet' = FALSE
    BY <1>5 DEF WatchRead, ReadICR
  <2>2. TimersKept(cia, cia') BY <1>0, <2>1, AcknKeeps
  <2>3. QED BY <1>m, <2>1, <2>2
<1>6. CASE WatchDefaults
  <2>1. plan' = [t \in Timer |-> <<>>] /\ since' = [t \in Timer |-> 0] /\ quiet' = FALSE
    BY <1>6 DEF WatchDefaults
  <2>2. QED BY <1>i, <2>1 DEF TimingInv, Observed, FollowsTable, Regular
<1>7. CASE WatchInterrupt \/ UNCHANGED <<vars, observers>>
  <2>1. UNCHANGED <<plan, since, mode, cia, quiet>>
    BY <1>7 DEF WatchInterrupt, Interrupt, observers, vars
  <2>2. TimersKept(cia, cia') BY <2>1 DEF TimersKept
  <2>3. QED BY <1>m, <2>1, <2>2
<1>8. QED BY <1>1, <1>2, <1>3, <1>4, <1>5, <1>6, <1>7 DEF NextTiming

LEMMA TimingInvariance == SpecTiming => []TimingInv
<1>1. QED BY InitTimingInv, NextTimingInv, PTL DEF SpecTiming
(* An action property only has to hold of the steps that clock the chip.   *)
LEMMA OnlyClocks ==
  ASSUME [NextTiming]_<<vars, observers>>, <<vars, observers>>' # <<vars, observers>>,
         IsClock
  PROVE  WatchClock
<1>1. ~ (WatchControl \/ WatchTimer \/ WatchMask \/ WatchRead \/ WatchDefaults)
  BY DEF IsClock, WatchControl, WatchTimer, WatchMask, WatchRead, WatchDefaults
<1>2. ~ WatchInterrupt
  BY DEF IsClock, WatchInterrupt, Interrupt
<1>3. QED BY <1>1, <1>2 DEF NextTiming

(* cia.c:59-68: the table of what each of the next clocks does after a     *)
(* control write, for every start, stop and load of a timer that no script *)
(* is under way for.                                                       *)
THEOREM ControlAsDocumented == SpecTiming => TransitionTable
<1>1. ASSUME TimingInv, [NextTiming]_<<vars, observers>>
      PROVE  [IsClock => \A t \in Timer :
                plan[t] # <<>> /\ ~ Linked(t) /\ ClockedTimer(t) =>
                  Effect(t, Head(plan[t]))]_<<vars, observers>>
  BY <1>1, OnlyClocks, ClockEffects DEF Own
<1>2. QED BY <1>1, TimingInvariance, PTL DEF SpecTiming, TransitionTable

(* cia.c:561 and cia.c:236: a running timer that is left alone underflows  *)
(* every latch + 1 clocks, whatever the latch.                             *)
THEOREM PeriodKept == SpecTiming => Period
<1>1. ASSUME TimingInv, [NextTiming]_<<vars, observers>>
      PROVE  [IsClock => \A t \in Timer :
                ~ Linked(t) /\ ClockedTimer(t) => FiresOnTime(t)]_<<vars, observers>>
  BY <1>1, OnlyClocks, ClockEffects DEF Own
<1>2. QED BY <1>1, TimingInvariance, PTL DEF SpecTiming, Period

(* cia.c:512: a linked timer B moves one clock after an underflow of timer *)
(* A, then always, and never else.                                         *)
THEOREM LinkedMoves == SpecTiming => LinkedTicks
<1>1. ASSUME TimingInv, WatchClock, Linked("B")
      PROVE  /\ "A" \notin cia.fired =>
                  /\ cia'.counter["B"] = cia.counter["B"]
                  /\ cia'.script["B"] = cia.script["B"]
             /\ "A" \in cia.fired /\ quiet /\ cia.isStarted["B"] /\ ~ Scripted(cia, "B") =>
                  Effect("B", "count")
  <2>1. /\ TypeOK /\ cia \in ChipState /\ Copies(cia) /\ Marks(cia) /\ cia.bLinked
        /\ quiet /\ "A" \in cia.fired => "under" \in cia.script["A"][1]
        /\ "B" \in Timer
    BY <1>1 DEF TimingInv, ChipInv, Coherence, Observed, TypeOK, Linked, Timer
  <2>2. Advanced(cia, cia') BY <1>1, <2>1, ClockAdvances DEF WatchClock
  <2>3. ASSUME "A" \notin cia.fired
        PROVE  /\ cia'.counter["B"] = cia.counter["B"]
               /\ cia'.script["B"] = cia.script["B"]
    <3>1. "under" \notin cia.script["A"][1] BY <2>1, <2>3 DEF Marks
    <3>2. Same(Fresh(cia), cia', "B") BY <2>1, <2>2, <3>1 DEF Advanced
    <3>3. Fresh(cia).counter = cia.counter /\ Fresh(cia).script = cia.script
      BY <2>1, FreshKeeps
    <3>4. QED BY <3>2, <3>3 DEF Same
  <2>4. ASSUME "A" \in cia.fired, quiet, cia.isStarted["B"], ~ Scripted(cia, "B")
        PROVE  Effect("B", "count")
    <3>1. "under" \in cia.script["A"][1] BY <2>1, <2>4
    <3>2. cia.script["B"][1] = {} BY <2>1, <2>4, ScriptIs DEF Scripted
    <3>3. Moved(Fresh(cia), cia', "B") BY <2>1, <2>2, <3>1, <3>2 DEF Advanced
    <3>4. Counts(cia, "B") BY <2>4 DEF Counts
    <3>5. Fires(cia, "B") <=> cia.counter["B"] <= 1 BY <3>2, <3>4 DEF Fires
    <3>6. /\ cia'.counter["B"] = IF cia.counter["B"] <= 1 THEN cia.latch["B"]
                                 ELSE cia.counter["B"] - 1
          /\ "B" \in cia'.fired <=> Fires(cia, "B")
      <4>0. Moved(Fresh(cia), cia', "B") <=>
              /\ cia'.counter["B"] =
                   IF "load" \in cia.script["B"][1] THEN cia.latch["B"]
                   ELSE IF "under" \in cia.script["B"][1] \/ ~ Counts(cia, "B")
                        THEN cia.counter["B"]
                        ELSE IF cia.counter["B"] <= 1 THEN cia.latch["B"]
                             ELSE cia.counter["B"] - 1
              /\ cia'.script["B"] = IF Fires(cia, "B")
                   THEN [Rest(cia.script["B"]) EXCEPT ![1] = @ \cup {"under"}]
                   ELSE Rest(cia.script["B"])
              /\ "B" \in cia'.fired <=> Fires(cia, "B")
              /\ cia'.isStarted["B"] <=>
                   (cia.isStarted["B"] /\ ~ (Fires(cia, "B") /\ cia.ctrl["B"].oneShot))
        BY <2>1, FreshMoved
      <4>1. /\ cia'.counter["B"] =
                 IF "load" \in cia.script["B"][1] THEN cia.latch["B"]
                 ELSE IF "under" \in cia.script["B"][1] \/ ~ Counts(cia, "B")
                      THEN cia.counter["B"]
                      ELSE IF cia.counter["B"] <= 1 THEN cia.latch["B"]
                           ELSE cia.counter["B"] - 1
            /\ "B" \in cia'.fired <=> Fires(cia, "B")
        BY <3>3, <4>0
      <4>2. "load" \notin cia.script["B"][1] /\ "under" \notin cia.script["B"][1]
        BY <3>2
      <4>3. QED BY <3>4, <4>1, <4>2
    <3>7. QED BY <3>5, <3>6 DEF Effect
  <2>5. QED BY <2>3, <2>4
<1>2. ASSUME TimingInv, [NextTiming]_<<vars, observers>>
      PROVE  [IsClock /\ Linked("B") =>
       /\ "A" \notin cia.fired =>
            /\ cia'.counter["B"] = cia.counter["B"]
            /\ cia'.script["B"] = cia.script["B"]
       /\ "A" \in cia.fired /\ quiet /\ cia.isStarted["B"] /\ ~ Scripted(cia, "B") =>
            Effect("B", "count")]_<<vars, observers>>
  BY <1>1, <1>2, OnlyClocks
<1>3. QED BY <1>2, TimingInvariance, PTL DEF SpecTiming, LinkedTicks
-----------------------------------------------------------------------------
(* The interrupt.  A timer that underflows is reported, and nothing else is *)
(* before the program reads the register.                                   *)
Reports(c, d) ==
  /\ c.status \subseteq d.status /\ c.fired \subseteq d.fired
  /\ d.status \subseteq c.status \cup d.fired
  /\ d.fired \subseteq c.fired \cup d.status

LEMMA ReportsTwice ==
  ASSUME NEW c, NEW d, NEW e, Reports(c, d), Reports(d, e)
  PROVE  Reports(c, e)
BY DEF Reports

LEMMA UnderflowReports ==
  ASSUME NEW c \in ChipState, NEW t \in Timer, Copies(c), NEW d, d = Underflow(c, t)
  PROVE  Reports(c, d)
<1> DEFINE script == [c.script[t] EXCEPT ![1] = @ \cup {"under"}]
<1>1. d.status = c.status \cup {t} /\ d.fired = c.fired \cup {t} /\ d.script[t] = script
  BY UnderflowKeeps
<1>2. QED BY <1>1 DEF Reports

LEMMA CountReports ==
  ASSUME NEW c \in ChipState, NEW t \in Timer, Copies(c)
  PROVE  Reports(c, Count(c, t))
<1>1. CASE c.counter[t] <= 1
  <2>1. Count(c, t) = Underflow(c, t) BY <1>1 DEF Count
  <2>2. QED BY <2>1, UnderflowReports
<1>2. CASE ~ c.counter[t] <= 1
  <2>1. c.counter[t] - 1 \in Count16
    BY <1>2, ChipFields, CiaAssumption DEF Count16
  <2>2. Count(c, t) = WithCounter(c, t, c.counter[t] - 1)
    BY <1>2 DEF Count, WithCounter
  <2>3. Count(c, t).status = c.status /\ Count(c, t).fired = c.fired
    BY <2>1, <2>2, CounterSet
  <2>4. QED BY <2>3 DEF Reports
<1>3. QED BY <1>1, <1>2

LEMMA PlainReports ==
  ASSUME NEW c \in ChipState, NEW t \in Timer, Copies(c)
  PROVE  Reports(c, ClockPlain(c, t))
<1> DEFINE a == Shift(c, t)
           d == ClockPlain(c, t)
<1>1. a \in ChipState /\ Copies(a) /\ a.status = c.status /\ a.fired = c.fired
  BY ShiftKeeps DEF Kept
<1>2. d \in {a, Load(a, t), Count(a, t)}
  BY DEF ClockPlain, Obey
<1> HIDE DEF a, d
<1>3. Load(a, t).status = a.status /\ Load(a, t).fired = a.fired BY <1>1, LoadKeeps
<1>4. Reports(a, Count(a, t)) BY <1>1, CountReports
<1>5. Reports(a, d) BY <1>2, <1>3, <1>4 DEF Reports
<1>6. Reports(c, d) BY <1>1, <1>5 DEF Reports
<1>7. QED BY <1>6 DEF d

LEMMA SkipReports ==
  ASSUME NEW c \in ChipState, NEW t \in Timer, Copies(c)
  PROVE  /\ Reports(c, SkipCycle(c, t))
         /\ SkipCycle(c, t) \in ChipState /\ Copies(SkipCycle(c, t))
<1> DEFINE a == SkipCycle(c, t)
<1>1. Kept(c, a, t) /\ a.status = c.status /\ a.fired = c.fired BY SkipCycleKeeps
<1> HIDE DEF a
<1>2. Reports(c, a) /\ a \in ChipState /\ Copies(a) BY <1>1 DEF Reports, Kept
<1>3. QED BY <1>2 DEF a

(* A load after all of this reports nothing.                                *)
LEMMA LoadReports ==
  ASSUME NEW c, NEW b \in ChipState, NEW t \in Timer, Copies(b), Reports(c, b)
  PROVE  Reports(c, Load(b, t))
<1>1. Load(b, t).status = b.status /\ Load(b, t).fired = b.fired BY LoadKeeps
<1>2. QED BY <1>1 DEF Reports

LEMMA ClockBReports ==
  ASSUME NEW c \in ChipState, Copies(c)
  PROVE  Reports(c, ClockB(c)) /\ ClockB(c) \in ChipState /\ Copies(ClockB(c))
<1> DEFINE a == SkipCycle(c, "B")
           b == ClockPlain(a, "B")
<1>0. "B" \in Timer BY DEF Timer
<1>1. Reports(c, a) /\ a \in ChipState /\ Copies(a) BY <1>0, SkipReports
<1>2. ClockB(c) \in {ClockPlain(c, "B"), a, b, Load(a, "B"), Load(b, "B")}
  BY DEF ClockB, ClockT
<1> HIDE DEF a
<1>3. Reports(a, b) /\ b \in ChipState /\ Copies(b)
  BY <1>0, <1>1, PlainReports, PlainMoves DEF Kept
<1> HIDE DEF b
<1>4. Reports(c, b) BY <1>1, <1>3, ReportsTwice
<1>5. Reports(c, Load(a, "B")) /\ Reports(c, Load(b, "B")) BY <1>0, <1>1, <1>3, <1>4, LoadReports
<1>6. Reports(c, ClockPlain(c, "B")) BY <1>0, PlainReports
<1>7. Reports(c, ClockB(c)) BY <1>1, <1>2, <1>4, <1>5, <1>6
<1>8. QED BY <1>7, ClockBMoves DEF Kept

LEMMA ClockAReports ==
  ASSUME NEW c \in ChipState, Copies(c)
  PROVE  Reports(c, ClockA(c))
<1> DEFINE a == SkipCycle(c, "A")
           b == ClockB(a)
<1>0. "A" \in Timer BY DEF Timer
<1>1. Reports(c, a) /\ a \in ChipState /\ Copies(a) BY <1>0, SkipReports
<1>2. ClockA(c) \in {ClockPlain(c, "A"), a, b, Load(a, "A"), Load(b, "A")}
  BY DEF ClockA, ClockT
<1> HIDE DEF a
<1>3. Reports(a, b) /\ b \in ChipState /\ Copies(b) BY <1>1, ClockBReports
<1> HIDE DEF b
<1>4. Reports(c, b) BY <1>1, <1>3, ReportsTwice
<1>5. Reports(c, Load(a, "A")) /\ Reports(c, Load(b, "A")) BY <1>0, <1>1, <1>3, <1>4, LoadReports
<1>6. Reports(c, ClockPlain(c, "A")) BY <1>0, PlainReports
<1>7. QED BY <1>1, <1>2, <1>4, <1>5, <1>6

(* A clock raises what was scheduled one clock ago, then runs the timers,   *)
(* and schedules what they report.                                          *)
Interrupts(c, d) ==
  /\ d.irq <=> (c.irq \/ (c.delay = 1 /\ c.maskMatch))
  /\ d.mask = c.mask /\ d.fired \subseteq d.status /\ d.status \subseteq c.status \cup d.fired
  /\ d.status \cap d.mask # {} => d.irq \/ d.delay = 1

LEMMA StartInterrupts ==
  ASSUME NEW c \in ChipState, Copies(c), NEW x, x = HandleInterrupt1(Fresh(c))
  PROVE  /\ x \in ChipState /\ Copies(x)
         /\ x.irq <=> (c.irq \/ (c.delay = 1 /\ c.maskMatch))
         /\ x.mask = c.mask /\ x.status = c.status /\ x.fired = {}
<1> DEFINE f == Fresh(c)
<1>1. f \in ChipState /\ Copies(f) /\ f.fired = {} /\ f.mask = c.mask /\ f.status = c.status
      /\ f.irq = c.irq
  BY FreshKeeps
<1>2. f.delay = c.delay /\ f.maskMatch = c.maskMatch BY Zenon DEF Fresh, ChipState
<1>3. x = HandleInterrupt1(f) OBVIOUS
<1> HIDE DEF f
<1>4. /\ x \in ChipState /\ Copies(x) /\ x.status = f.status /\ x.fired = f.fired
      /\ x.mask = f.mask
      /\ x.irq <=> (f.irq \/ (f.delay = 1 /\ f.maskMatch))
  BY <1>1, <1>3, Interrupt1Keeps
<1>5. QED BY <1>1, <1>2, <1>4

LEMMA EndInterrupts ==
  ASSUME NEW c, NEW x, NEW y \in ChipState, Copies(y), Reports(x, y),
         x.irq <=> (c.irq \/ (c.delay = 1 /\ c.maskMatch)),
         x.status = c.status, x.fired = {}, x.mask = c.mask,
         y.irq = x.irq, y.mask = x.mask,
         NEW d, d = HandleInterrupt2(y, 1)
  PROVE  Interrupts(c, d)
<1>1. 1 \in 1 .. 2 OBVIOUS
<1>2. d.irq = y.irq /\ d.mask = y.mask /\ d.fired = y.fired /\ d.status = y.status
  BY <1>1, Interrupt2Keeps
<1>3. y.maskMatch => d.irq \/ d.delay = 1 BY <1>1, Interrupt2Schedules
<1>4. y.fired \subseteq y.status /\ y.status \subseteq c.status \cup y.fired BY DEF Reports
<1>5. y.status \cap y.mask # {} => y.maskMatch BY DEF Copies
<1>6. QED BY <1>2, <1>3, <1>4, <1>5 DEF Interrupts

LEMMA ClockInterrupts ==
  ASSUME TypeOK, Copies(cia), Clock
  PROVE  Interrupts(cia, cia')
<1> DEFINE x == HandleInterrupt1(Fresh(cia))
           y == ClockA(x)
           z == ClockB(y)
<1>0. cia \in ChipState /\ "B" \in Timer BY DEF TypeOK, Timer
<1>1. /\ x \in ChipState /\ Copies(x)
      /\ x.irq <=> (cia.irq \/ (cia.delay = 1 /\ cia.maskMatch))
      /\ x.mask = cia.mask /\ x.status = cia.status /\ x.fired = {}
  BY <1>0, StartInterrupts
<1>2. \/ cia' = HandleInterrupt2(y, 1)
      \/ cia' = HandleInterrupt2(z, 1)
  BY DEF Clock, ClockTimerA, ClockChip, Fresh
<1> HIDE DEF x
<1>3. Reports(x, y) /\ y \in ChipState /\ Copies(y) /\ y.irq = x.irq /\ y.mask = x.mask
  BY <1>1, ClockAReports, ClockAMoves DEF KeptAll
<1> HIDE DEF y
<1>4. /\ Reports(y, z) /\ z \in ChipState /\ Copies(z)
      /\ z.irq = y.irq /\ z.mask = y.mask
  BY <1>3, ClockBReports, ClockBMoves DEF Kept
<1> HIDE DEF z
<1>5. Reports(x, z) BY <1>3, <1>4, ReportsTwice
<1>6. CASE cia' = HandleInterrupt2(y, 1) BY <1>1, <1>3, <1>6, EndInterrupts
<1>7. CASE cia' = HandleInterrupt2(z, 1)
  BY <1>1, <1>3, <1>4, <1>5, <1>7, EndInterrupts
<1>8. QED BY <1>2, <1>6, <1>7

(* What the observers know of the interrupt.                                *)
Awaited ==
  /\ cia.fired \subseteq Timer
  /\ quiet /\ cia.fired \cap cia.mask # {} => cia.irq \/ (cia.delay = 1 /\ cia.maskMatch)
  /\ acked => cia.status = {} /\ ~ cia.irq

IrqInv == TimingInv /\ Awaited

LEMMA InitIrqInv == InitTiming => IrqInv
<1>1. InitTiming => cia.fired = {} /\ ~ acked
  BY DEF InitTiming, Init, ResetChip
<1>2. QED BY <1>1, InitTimingInv DEF IrqInv, Awaited

LEMMA ControlReports ==
  ASSUME NEW c \in ChipState, NEW w \in Control
  PROVE  SetControl(c, w).status = c.status /\ SetControl(c, w).irq = c.irq
<1> DEFINE script == [c.script EXCEPT ![w.timer] = Script(c, w)]
           now == [start |-> Starts(w), oneShot |-> w.oneShot, source |-> w.source]
           ctrl == [c.ctrl EXCEPT ![w.timer] = now]
           started == [c.isStarted EXCEPT ![w.timer] = Starts(w)]
           linked == IF w.timer = "B" THEN w.source = "A" ELSE c.bLinked
           d == [c EXCEPT !.script = script, !.ctrl = ctrl, !.isStarted = started,
                          !.bLinked = linked]
<1>1. SetControl(c, w) = d BY DEF SetControl
<1> HIDE DEF script, now, ctrl, started, linked
<1>2. d.status = c.status /\ d.irq = c.irq BY Zenon DEF ChipState
<1> HIDE DEF d
<1>3. QED BY <1>1, <1>2

LEMMA NextIrqInv == IrqInv /\ [NextTiming]_<<vars, observers>> => IrqInv'
<1> SUFFICES ASSUME IrqInv, [NextTiming]_<<vars, observers>> PROVE IrqInv'
  OBVIOUS
<1>0. /\ TypeOK /\ cia \in ChipState /\ Copies(cia) /\ program \in Programs
      /\ acked => cia.status = {} /\ ~ cia.irq
  BY DEF IrqInv, Awaited, TimingInv, ChipInv, Coherence, TypeOK
<1>p. /\ program.controls \subseteq Control /\ program.latches \subseteq LatchWrite
      /\ program.masks \subseteq MaskWrite
  BY <1>0, CiaAssumption
<1>t. TimingInv' /\ TypeOK' /\ Copies(cia)'
  BY NextTimingInv DEF IrqInv, TimingInv, ChipInv, Coherence
<1>f. (cia.fired \subseteq Timer)' BY <1>t DEF TypeOK, ChipState
(* An access of the program that leaves status and interrupt alone.         *)
<1>w. ASSUME ~ quiet', acked' => acked, cia'.status = cia.status, cia'.irq = cia.irq
      PROVE  IrqInv'
  BY <1>0, <1>t, <1>f, <1>w DEF IrqInv, Awaited
<1>1. CASE WatchClock
  <2>1. Clock /\ (acked' => acked /\ cia'.fired = {}) BY <1>1 DEF WatchClock
  <2>2. Interrupts(cia, cia') BY <1>0, <2>1, ClockInterrupts
  <2>3. acked => ~ cia.maskMatch BY <1>0 DEF Copies
  <2>4. acked' => cia'.status = {} /\ ~ cia'.irq BY <1>0, <2>1, <2>2, <2>3 DEF Interrupts
  <2>5. ASSUME cia'.fired \cap cia'.mask # {}
        PROVE  cia'.irq \/ (cia'.delay = 1 /\ cia'.maskMatch)
    <3>1. cia'.status \cap cia'.mask # {} BY <2>2, <2>5 DEF Interrupts
    <3>2. cia'.maskMatch BY <1>t, <3>1 DEF Copies
    <3>3. QED BY <2>2, <3>1, <3>2 DEF Interrupts
  <2>6. QED BY <1>t, <1>f, <2>4, <2>5 DEF IrqInv, Awaited
<1>2. CASE WatchControl
  <2>1. PICK w \in program.controls : cia' = SetControl(cia, w) BY <1>2 DEF WatchControl
  <2>2. ~ quiet' /\ (acked' => acked) BY <1>2 DEF WatchControl
  <2>3. w \in Control BY <1>p
  <2>4. cia'.status = cia.status /\ cia'.irq = cia.irq BY <1>0, <2>1, <2>3, ControlReports
  <2>5. QED BY <1>w, <2>2, <2>4
<1>3. CASE WatchTimer
  <2>1. PICK w \in program.latches : cia' = WriteLatch(cia, w) BY <1>3 DEF WatchTimer
  <2>2. ~ quiet' /\ (acked' => acked) BY <1>3 DEF WatchTimer
  <2>3. w \in LatchWrite BY <1>p
  <2>4. cia'.status = cia.status /\ cia'.irq = cia.irq BY <1>0, <2>1, <2>3, LatchKeeps
  <2>5. QED BY <1>w, <2>2, <2>4
<1>4. CASE WatchMask
  <2>1. PICK w \in program.masks :
          cia' = SetInterruptMask(cia, IF chip = "CIA2" /\ ~ RSID
                                       THEN [w EXCEPT !.set = FALSE] ELSE w)
    BY <1>4 DEF WatchMask, WriteICR
  <2> DEFINE v == IF chip = "CIA2" /\ ~ RSID THEN [w EXCEPT !.set = FALSE] ELSE w
  <2>2. v \in MaskWrite
    <3>1. w \in MaskWrite /\ FALSE \in BOOLEAN BY <1>p
    <3>2. [w EXCEPT !.set = FALSE] \in MaskWrite BY <3>1, Zenon DEF MaskWrite
    <3>3. QED BY <3>1, <3>2
  <2> HIDE DEF v
  <2>3. cia' = SetInterruptMask(cia, v) BY <2>1 DEF v
  <2>4. cia'.status = cia.status /\ cia'.irq = cia.irq BY <1>0, <2>2, <2>3, SetMaskKeeps
  <2>5. ~ quiet' /\ (acked' => acked) BY <1>4 DEF WatchMask
  <2>6. QED BY <1>w, <2>4, <2>5
<1>5. CASE WatchRead
  <2>1. ~ quiet' /\ cia' = AcknInterruptStatus(cia) BY <1>5 DEF WatchRead, ReadICR
  <2>2. ~ cia'.irq /\ cia'.status = {} BY <1>0, <2>1, AcknKeeps
  <2>3. QED BY <1>t, <1>f, <2>1, <2>2 DEF IrqInv, Awaited
<1>6. CASE WatchDefaults
  <2>1. ~ quiet' /\ (acked' => acked) BY <1>6 DEF WatchDefaults
  <2> DEFINE on == [start |-> TRUE, oneShot |-> FALSE, source |-> "phi2"]
             ctrl == [cia.ctrl EXCEPT !["A"] = on]
             off == [set |-> FALSE, bits |-> Timer]
             icr == {"A"}
  <2>2. \/ cia' = cia \/ cia' = [cia EXCEPT !.icr = icr, !.ctrl = ctrl]
        \/ cia' = SetInterruptMask(cia, off)
    BY <1>6 DEF WatchDefaults, SetDefaultsTimerPSID, SetDefaultsRasterPSID
  <2>3. off \in MaskWrite BY DEF MaskWrite
  <2> HIDE DEF ctrl, off, icr
  <2>4. CASE cia' = cia BY <1>w, <2>1, <2>4
  <2>5. CASE cia' = [cia EXCEPT !.icr = icr, !.ctrl = ctrl]
    <3>1. cia'.status = cia.status /\ cia'.irq = cia.irq
      BY <1>0, <2>5, Zenon DEF ChipState
    <3>2. QED BY <1>w, <2>1, <3>1
  <2>6. CASE cia' = SetInterruptMask(cia, off)
    <3>1. cia'.status = cia.status /\ cia'.irq = cia.irq BY <1>0, <2>3, <2>6, SetMaskKeeps
    <3>2. QED BY <1>w, <2>1, <3>1
  <2>7. QED BY <2>2, <2>4, <2>5, <2>6
<1>7. CASE WatchInterrupt \/ UNCHANGED <<vars, observers>>
  <2>1. UNCHANGED <<cia, quiet, acked>>
    BY <1>7 DEF WatchInterrupt, Interrupt, observers, vars
  <2>2. QED BY <1>t, <2>1 DEF IrqInv, Awaited
<1>8. QED BY <1>1, <1>2, <1>3, <1>4, <1>5, <1>6, <1>7 DEF NextTiming

LEMMA IrqInvariance == SpecTiming => []IrqInv
<1>1. QED BY InitIrqInv, NextIrqInv, PTL DEF SpecTiming

(* cia.c:303-306: an underflow that is not masked raises the interrupt in   *)
(* the clock after it, if the program does not interfere, and no interrupt  *)
(* comes that was not reported before that clock.                           *)
THEOREM InterruptOneClockLate == SpecTiming => OneClockLate
<1>1. ASSUME IrqInv, [NextTiming]_<<vars, observers>>
      PROVE  [IsClock =>
                /\ quiet /\ cia.fired \cap cia.mask # {} => cia'.irq
                /\ cia'.irq /\ ~ cia.irq => cia.status \cap cia.mask # {}]_<<vars, observers>>
  <2>1. SUFFICES ASSUME WatchClock
                 PROVE  /\ quiet /\ cia.fired \cap cia.mask # {} => cia'.irq
                        /\ cia'.irq /\ ~ cia.irq => cia.status \cap cia.mask # {}
    BY <1>1, OnlyClocks
  <2>2. TypeOK /\ Copies(cia) /\ Clock
    BY <1>1, <2>1 DEF IrqInv, TimingInv, ChipInv, Coherence, WatchClock
  <2>3. cia'.irq <=> (cia.irq \/ (cia.delay = 1 /\ cia.maskMatch))
    BY <2>2, ClockInterrupts DEF Interrupts
  <2>4. QED BY <1>1, <2>2, <2>3 DEF IrqInv, Awaited, Copies
<1>2. QED BY <1>1, IrqInvariance, PTL DEF SpecTiming, OneClockLate

(* cia.c:308-311: a read of the ICR, even in the clock of the underflow,    *)
(* prevents the interrupt until a timer underflows again.                   *)
THEOREM ReadPreventsInterrupt == SpecTiming => []ReadPrevents
<1>1. IrqInv => ReadPrevents BY DEF IrqInv, Awaited, ReadPrevents
<1>2. QED BY <1>1, IrqInvariance, PTL
====

----------------------------- MODULE CiaTiming -----------------------------
(***************************************************************************)
(* The timing of Cia that src/cia.c documents and Lorenz's test-suite      *)
(* expects, watched by observers of the chip: how a control write takes    *)
(* effect in the four clocks after it, the period of a timer, and when the *)
(* interrupt comes.                                                        *)
(***************************************************************************)
EXTENDS Cia, Sequences

VARIABLES
  plan,   \* what the next clocks must do to a counter after a control write
  since,  \* clocks (for a linked B: underflows of A) since the last underflow
          \* of a timer that was left alone; 0 if unknown
  quiet,  \* no register was accessed since the last clock
  acked   \* no timer underflowed since the last read of the ICR

observers == <<plan, since, quiet, acked>>

Cap == ByteSize * ByteSize + 2   \* bound of since: more than any period

(* cia.c:59-68: "updates to an originally stopped timer" and "... to an    *)
(* originally started timer".                                              *)
PlanOf(was, w) ==
  CASE ~ was /\   w.start /\ ~ w.load -> <<"keep",  "keep",  "count", "count">>
    [] ~ was /\ ~ w.start /\   w.load -> <<"keep",  "load",  "keep",  "keep">>
    [] ~ was /\   w.start /\   w.load -> <<"keep",  "load",  "keep",  "count">>
    []   was /\   w.start /\   w.load -> <<"count", "load",  "keep",  "count">>
    []   was /\ ~ w.start /\   w.load -> <<"count", "load",  "keep",  "keep">>
    []   was /\ ~ w.start /\ ~ w.load -> <<"count", "count", "keep",  "keep">>
    [] OTHER -> <<>>

InitTiming == /\ Init
              /\ plan = [t \in Timer |-> <<>>]
              /\ since = [t \in Timer |-> 0]
              /\ quiet = TRUE
              /\ acked = FALSE

(* B is clocked by the underflows of A, one clock later.                   *)
Ticks(t) == t = "B" /\ cia.bLinked => "A" \in cia.fired
Undisturbed(t) == cia'.script[t] \in {NoScript, ScriptOf({"under"}, {}, {})}
AtMost(n, max) == IF n < max THEN n ELSE max

WatchClock ==
  /\ Clock
  /\ plan' = [t \in Timer |-> IF t \in cia'.fired \/ plan[t] = <<>>
                              THEN <<>> ELSE Tail(plan[t])]
  /\ since' = [t \in Timer |->
       IF t \in cia'.fired THEN IF Undisturbed(t) THEN 1 ELSE 0
       ELSE IF since[t] = 0 \/ ~ Ticks(t) THEN since[t]
       ELSE AtMost(since[t] + 1, Cap)]
  /\ quiet' = TRUE
  /\ acked' = (acked /\ cia'.fired = {})

(* A control write is watched when it meets no script in progress.         *)
WatchControl ==
  /\ WriteControl
  /\ \E w \in program.controls :
       LET t == w.timer
           was == cia.ctrl[t].start
       IN  /\ cia' = SetControl(cia, w)
           /\ plan' = [plan EXCEPT ![t] =
                IF Scripted(cia, t) \/ w.source \notin {"phi2", "A"}
                THEN <<>> ELSE PlanOf(was, w)]
           /\ since' = [since EXCEPT ![t] = 0, !["B"] = 0]
  /\ quiet' = FALSE
  /\ UNCHANGED acked

WatchTimer ==
  /\ WriteTimer
  /\ \E w \in program.latches :
       /\ cia' = WriteLatch(cia, w)
       /\ plan' = [plan EXCEPT ![w.timer] = <<>>]
       /\ since' = [since EXCEPT ![w.timer] = 0]
  /\ quiet' = FALSE
  /\ UNCHANGED acked

WatchMask == WriteICR /\ quiet' = FALSE /\ UNCHANGED <<plan, since, acked>>

WatchRead == /\ ReadICR
             /\ quiet' = FALSE /\ acked' = TRUE
             /\ UNCHANGED <<plan, since>>

(* The registers are set past the chip's functions.                        *)
WatchDefaults == /\ SetDefaultsTimerPSID \/ SetDefaultsRasterPSID
                 /\ plan' = [t \in Timer |-> <<>>]
                 /\ since' = [t \in Timer |-> 0]
                 /\ quiet' = FALSE
                 /\ UNCHANGED acked

WatchInterrupt == Interrupt /\ UNCHANGED observers

NextTiming == \/ WatchClock \/ WatchControl \/ WatchTimer \/ WatchMask \/ WatchRead
              \/ WatchDefaults \/ WatchInterrupt

SpecTiming == InitTiming /\ [][NextTiming]_<<vars, observers>>
-----------------------------------------------------------------------------
Linked(t) == t = "B" /\ cia.bLinked

(* Only a clock leaves the chip quiet.                                     *)
IsClock == quiet' /\ playing' = playing

(* The timers that the clock function of the song clocks at all.           *)
ClockedTimer(t) == mode = "TimerPSID" => t = "A"

Effect(t, what) ==
  CASE what = "keep"  -> cia'.counter[t] = cia.counter[t]
    [] what = "load"  -> cia'.counter[t] = cia.latch[t]
    [] what = "count" -> IF cia.counter[t] <= 1 THEN t \in cia'.fired
                         ELSE cia'.counter[t] = cia.counter[t] - 1

(* cia.c:59-68: a control write takes effect in the clocks after it as     *)
(* the table says.                                                         *)
TransitionTable ==
  [][IsClock => \A t \in Timer :
       plan[t] # <<>> /\ ~ Linked(t) /\ ClockedTimer(t) =>
         Effect(t, Head(plan[t]))]_<<vars, observers>>

(* cia.c:389: "whenever a force load is triggered, the respective reload   *)
(* of the counter must be performed 2 cycles later", for any timer.        *)
LoadOnTime ==
  [][IsClock => \A t \in Timer :
       plan[t] # <<>> /\ Head(plan[t]) = "load" => Effect(t, "load")]_<<vars, observers>>

(* cia.c:561: "the counting interval still is correct: 2-1-0-2-1-0": a     *)
(* running timer that is left alone underflows every latch + 1 clocks, and *)
(* (cia.c:236) with latch 0 as with latch 1.                               *)
PeriodOf(latch) == IF latch = 0 THEN 2 ELSE latch + 1

FiresOnTime(t) ==
  since[t] # 0 /\ cia.isStarted[t] /\ ~ cia.ctrl[t].oneShot /\ Ticks(t) =>
    (t \in cia'.fired <=> since[t] = PeriodOf(cia.latch[t]))

Period ==
  [][IsClock => \A t \in Timer :
       ~ Linked(t) /\ ClockedTimer(t) => FiresOnTime(t)]_<<vars, observers>>

(* The same for a timer B that counts the underflows of timer A.           *)
LinkedPeriod ==
  [][IsClock /\ Linked("B") => FiresOnTime("B")]_<<vars, observers>>

(* cia.c:512: a linked timer B is clocked by nothing but an underflow of   *)
(* timer A one clock before, and by each one.                              *)
LinkedTicks ==
  [][IsClock /\ Linked("B") =>
       /\ "A" \notin cia.fired =>
            /\ cia'.counter["B"] = cia.counter["B"]
            /\ cia'.script["B"] = cia.script["B"]
       /\ "A" \in cia.fired /\ quiet /\ cia.isStarted["B"] /\ ~ Scripted(cia, "B") =>
            Effect("B", "count")]_<<vars, observers>>

(* cia.c:303-306: an underflow that is not masked raises the interrupt     *)
(* "with a delay of one clock": in the next clock if the program does not  *)
(* interfere, and never in the same one.                                   *)
OneClockLate ==
  [][IsClock =>
       /\ quiet /\ cia.fired \cap cia.mask # {} => cia'.irq
       /\ cia'.irq /\ ~ cia.irq => cia.status \cap cia.mask # {}]_<<vars, observers>>

(* cia.c:308-311: a read of the ICR, even at the time of the underflow,    *)
(* prevents the interrupt until a timer underflows again.                  *)
ReadPrevents == acked => ~ cia.irq
=============================================================================

------------------------------ MODULE BusyWait ------------------------------
(***************************************************************************)
(* The bounded busy-wait of raspi: TIMOUT_HANDLER and KEEP_TRYING of       *)
(* websid_driver_api.h around the 32-bit microsecond timer, as used by     *)
(* fetchBuffer, feedBuffer and websid_release:                             *)
(*                                                                         *)
(*    TIMOUT_HANDLER(now, to);                                             *)
(*    while (KEEP_TRYING()) { if (answered) break;  now = micros(); }      *)
(*                                                                         *)
(* One poller runs against a clock that wraps around.  The clock ticks at  *)
(* most MaxGap times between two steps of the poller.                      *)
(***************************************************************************)
EXTENDS Naturals

CONSTANTS
  MaxTime,     \* 0xffffffff: the timer wraps from here to 0
  Timeout,     \* the "to" of TIMOUT_HANDLER
  MaxGap,      \* bound: ticks between two steps of the poller
  Horizon      \* bound: how long the run is watched

ASSUME WaitAssumption ==
  /\ MaxTime \in Nat /\ Timeout \in Nat \ {0} /\ Timeout <= MaxTime
  /\ MaxGap \in Nat \ {0}
  /\ Horizon \in Nat

VARIABLES
  clock,     \* the system timer
  start, now,
  answered,  \* the condition that is waited for
  pc,        \* "test": KEEP_TRYING, "body", or how the wait ended
  elapsed,   \* real time since the start
  gap        \* ticks since the poller's last step

waitVars == <<clock, start, now, answered, pc, elapsed, gap>>

(* Sums of 32-bit numbers.                                                 *)
WrappedSum(a, b) == IF a + b > MaxTime THEN a + b - (MaxTime + 1) ELSE a + b

(* Mutant: the timeout counts twice.                                       *)
WindowTwice(s, t) == WrappedSum(s, 2 * t)

(* Mutant: the window starts at time 0.                                    *)
WindowFromZero(s, t) == t

Window(s, t) == WrappedSum(s, t)

timeout == Window(start, Timeout)

overflow == MaxTime - start <= Timeout

KeepTrying == \/ ~ overflow /\ now < timeout
              \/ overflow /\ (now > start \/ now < timeout)

WaitInit ==
  /\ start \in 0 .. MaxTime
  /\ clock = start /\ now = start
  /\ answered \in BOOLEAN
  /\ pc = "test" /\ elapsed = 0 /\ gap = 0

Waiting == pc \in {"test", "body"}

Tick ==
  /\ Waiting
  /\ gap < MaxGap
  /\ elapsed < Horizon
  /\ clock' = WrappedSum(clock, 1)
  /\ elapsed' = elapsed + 1
  /\ gap' = gap + 1
  /\ UNCHANGED <<start, now, answered, pc>>

(* The other side does what is waited for.                                 *)
Answer ==
  /\ Waiting
  /\ ~ answered
  /\ answered' = TRUE
  /\ UNCHANGED <<clock, start, now, pc, elapsed, gap>>

Test ==
  /\ pc = "test"
  /\ pc' = IF KeepTrying THEN "body" ELSE "gaveUp"
  /\ gap' = 0
  /\ UNCHANGED <<clock, start, now, answered, elapsed>>

Body ==
  /\ pc = "body"
  /\ IF answered
     THEN pc' = "gotIt" /\ UNCHANGED now
     ELSE pc' = "test" /\ now' = clock
  /\ gap' = 0
  /\ UNCHANGED <<clock, start, answered, elapsed>>

Ended == ~ Waiting /\ UNCHANGED waitVars

WaitNext == Tick \/ Answer \/ Test \/ Body \/ Ended

WaitSpec == WaitInit /\ [][WaitNext]_waitVars
-----------------------------------------------------------------------------
WaitTypeOK ==
  /\ clock \in 0 .. MaxTime /\ start \in 0 .. MaxTime /\ now \in 0 .. MaxTime
  /\ answered \in BOOLEAN
  /\ pc \in {"test", "body", "gotIt", "gaveUp"}
  /\ elapsed \in Nat /\ gap \in 0 .. MaxGap

(* The timer wraps around before the time is over: the case that overflow  *)
(* is there for ("couter will overflow during timeout window").            *)
Wraps == start + Timeout > MaxTime

(* The longest that a poller may be late: the delays between its steps.    *)
Slack == 3 * MaxGap

(* The time is over so close before the wrap-around that a late poller     *)
(* first reads the timer again when it has started from 0.                 *)
AtTheEdge == ~ Wraps /\ start + Timeout + Slack > MaxTime

(* The poller never gives up before the time is over (websid_driver_api.h: *)
(* 39-43; device_driver_handler.cpp:118 "blocks until a buffer is          *)
(* available"), unless the timer wraps around in that time.                *)
Patient == pc = "gaveUp" /\ ~ Wraps => elapsed >= Timeout

(* The poller never waits longer than the timeout, up to the delays        *)
(* between its steps (websid_driver_api.h:38 "3 secs"), wherever the timer *)
(* stands but right at the edge.                                           *)
Prompt == Waiting /\ ~ AtTheEdge => elapsed < Timeout + Slack

(* The same for every value of the timer.  Neither holds: see NeverLooks   *)
(* and NeverEnds.                                                          *)
PatientAtWrap == pc = "gaveUp" => elapsed >= Timeout
PromptAtWrap == Waiting => elapsed < Timeout + Slack

(* Where the timer wraps around in the window, KEEP_TRYING (websid_driver_ *)
(* api.h:43) is false at once, for now = start > timeout: the poller gives *)
(* up without one look at what it waits for.                               *)
NeverLooks == Wraps => pc \in {"test", "gaveUp"}

(* Where the window ends with the timer's last value, overflow is set      *)
(* although nothing overflows (websid_driver_api.h:41 tests <=) and the    *)
(* poller never gives up.                                                  *)
NeverEnds == start + Timeout = MaxTime => pc # "gaveUp"
=============================================================================

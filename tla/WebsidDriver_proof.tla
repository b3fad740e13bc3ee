---------------------------- MODULE WebsidDriver_proof ----------------------------
(***************************************************************************)
(* Proofs about WebsidDriver, for every number of sessions and scripts and *)
(* every environment: what the two flags promise as long as no client has  *)
(* died or closed while a script was under way and no timer has overflowed *)
(* (calm); and about BusyWait, the wait of both sides, for every width of  *)
(* the timer, start, timeout and delay: where it is neither early nor late *)
(* and what it does at the wrap-around of the timer.                       *)
(***************************************************************************)
EXTENDS MCWebsidDriver, BusyWait, SequenceTheorems, TLAPS

(* The bounded busy-wait.                                                  *)

(* Where the window ends below the timer's last value, overflow is not set *)
(* and the limit is the plain sum; at the last value, KEEP_TRYING holds    *)
(* for ever; beyond it, it fails at once.                                  *)
LEMMA Windows ==
  ASSUME WaitTypeOK
  PROVE  /\ start + Timeout < MaxTime => (KeepTrying <=> now < start + Timeout)
         /\ start + Timeout = MaxTime => KeepTrying
         /\ Wraps /\ now = start => ~ KeepTrying
<1> USE WaitAssumption DEF WaitTypeOK
<1>1. CASE start + Timeout <= MaxTime
  <2>1. timeout = start + Timeout
    BY <1>1 DEF timeout, Window, WrappedSum
  <2>2. overflow <=> start + Timeout = MaxTime
    BY <1>1 DEF overflow
  <2> QED
    BY <1>1, <2>1, <2>2 DEF KeepTrying, Wraps
<1>2. CASE Wraps
  <2>1. timeout = start + Timeout - (MaxTime + 1) /\ timeout < start
    BY <1>2 DEF timeout, Window, WrappedSum, Wraps
  <2>2. overflow
    BY <1>2 DEF overflow, Wraps
  <2> QED
    BY <1>2, <2>1, <2>2 DEF KeepTrying, Wraps
<1> QED
  BY <1>1, <1>2 DEF Wraps

(* Why no wait ends early: as long as the time is not over, the clock has  *)
(* not wrapped around, and no reading of it lies beyond the window.        *)
OnTime == elapsed < Timeout => clock = start + elapsed /\ now < start + Timeout

(* Why no wait lasts: far from the wrap-around, now is an earlier reading  *)
(* of a clock that has not wrapped.                                        *)
Far == start + Timeout + Slack <= MaxTime
Recent ==
  /\ Waiting => clock = start + elapsed
  /\ pc = "test" =>
       start <= now /\ now < start + Timeout + 2 * MaxGap /\ clock <= now + gap
  /\ pc = "body" => start <= now /\ now < start + Timeout /\ clock <= now + MaxGap + gap

WaitInv ==
  /\ WaitTypeOK
  /\ ~ Wraps => OnTime /\ Patient
  /\ Far => Recent
  /\ Wraps => pc \in {"test", "gaveUp"} /\ (pc = "test" => now = start /\ elapsed <= gap)
  /\ NeverEnds

LEMMA InitWaitInv == WaitInit => WaitInv
<1> SUFFICES ASSUME WaitInit PROVE WaitInv
  OBVIOUS
<1> USE WaitAssumption DEF WaitInit
<1>1. WaitTypeOK
  BY DEF WaitTypeOK
<1>2. ~ Wraps => OnTime /\ Patient
  BY DEF OnTime, Patient
<1>3. Recent
  BY DEF Recent
<1> QED
  BY <1>1, <1>2, <1>3 DEF WaitInv, NeverEnds

LEMMA NextWaitInv == WaitInv /\ [WaitNext]_waitVars => WaitInv'
<1> SUFFICES ASSUME WaitInv, [WaitNext]_waitVars PROVE WaitInv'
  OBVIOUS
<1> USE WaitAssumption
<1>t. WaitTypeOK
  BY DEF WaitInv
<1>1. CASE Tick
  <2> USE <1>1, <1>t DEF Tick, Waiting
  <2>1. clock + 1 <= MaxTime => clock' = clock + 1
    BY DEF WrappedSum, WaitTypeOK
  <2>2. WaitTypeOK'
    BY DEF WaitTypeOK, WrappedSum
  <2>3. (~ Wraps => OnTime /\ Patient)'
    BY <2>1 DEF WaitInv, WaitTypeOK, Wraps, OnTime, Patient
  <2>4. (Far => Recent)'
    BY <2>1 DEF WaitInv, WaitTypeOK, Far, Recent, Slack
  <2>5. (Wraps => /\ pc \in {"test", "gaveUp"}
                  /\ pc = "test" => now = start /\ elapsed <= gap)'
    BY DEF WaitInv, WaitTypeOK, Wraps
  <2> QED
    BY <2>2, <2>3, <2>4, <2>5 DEF WaitInv, NeverEnds
<1>2. CASE Answer
  BY <1>2 DEF Answer, WaitInv, WaitTypeOK, Wraps, OnTime, Patient, Far, Recent, Slack,
              NeverEnds, Waiting
<1>3. CASE Test
  <2> USE <1>3, <1>t DEF Test
  <2>1. WaitTypeOK'
    BY DEF WaitTypeOK
  <2>2. (~ Wraps => OnTime /\ Patient)'
    BY Windows DEF WaitInv, WaitTypeOK, Wraps, OnTime, Patient
  <2>3. (Far => Recent)'
    BY Windows DEF WaitInv, WaitTypeOK, Far, Recent, Slack, Waiting
  <2>4. (Wraps => /\ pc \in {"test", "gaveUp"}
                  /\ pc = "test" => now = start /\ elapsed <= gap)'
    BY Windows DEF WaitInv, WaitTypeOK, Wraps
  <2>5. NeverEnds'
    BY Windows DEF WaitInv, NeverEnds
  <2> QED
    BY <2>1, <2>2, <2>3, <2>4, <2>5 DEF WaitInv
<1>4. CASE Body
  <2> USE <1>4, <1>t DEF Body
  <2>1. WaitTypeOK'
    BY DEF WaitTypeOK
  <2>2. (~ Wraps => OnTime /\ Patient)'
    BY DEF WaitInv, WaitTypeOK, Wraps, OnTime, Patient
  <2>3. (Far => Recent)'
    BY DEF WaitInv, WaitTypeOK, Far, Recent, Slack, Waiting
  <2> QED
    BY <2>1, <2>2, <2>3 DEF WaitInv, Wraps, NeverEnds
<1>5. CASE Ended \/ UNCHANGED waitVars
  BY <1>5 DEF Ended, waitVars, WaitInv, WaitTypeOK, Wraps, OnTime, Patient, Far, Recent,
              Slack, NeverEnds, Waiting
<1> QED
  BY <1>1, <1>2, <1>3, <1>4, <1>5 DEF WaitNext

(* The inductive invariant holds wherever the timer stands at the start.   *)
LEMMA WaitInvariance == WaitSpec => []WaitInv
  BY InitWaitInv, NextWaitInv, PTL DEF WaitSpec

(* websid_driver_api.h:39-43: KEEP_TRYING never ends a wait before its     *)
(* timeout, however near the timer is to its last value, as long as it     *)
(* does not wrap around within the timeout ...                             *)
THEOREM NeverEarly == WaitSpec => []Patient
<1>1. WaitInv => Patient
  BY DEF WaitInv, Patient
<1> QED
  BY <1>1, WaitInvariance, PTL

(* ... and no wait lasts longer, but for the delays of the poller, unless  *)
(* the window ends within these delays of the timer's last value.          *)
THEOREM NeverLate == WaitSpec => []Prompt
<1>1. WaitInv => Prompt
  <2> SUFFICES ASSUME WaitInv, Waiting, ~ AtTheEdge PROVE elapsed < Timeout + Slack
    BY DEF Prompt
  <2> USE WaitAssumption
  <2>1. CASE Wraps
    BY <2>1 DEF WaitInv, WaitTypeOK, Waiting, Slack
  <2>2. CASE ~ Wraps
    BY <2>2 DEF WaitInv, WaitTypeOK, Waiting, Slack, AtTheEdge, Far, Recent
  <2> QED
    BY <2>1, <2>2
<1> QED
  BY <1>1, WaitInvariance, PTL

(* websid_driver_api.h:39-43: if the timer wraps around within the         *)
(* timeout, the wait is over before the first look.                        *)
THEOREM WrapNeverLooks == WaitSpec => []NeverLooks
<1>1. WaitInv => NeverLooks
  BY DEF WaitInv, NeverLooks
<1> QED
  BY <1>1, WaitInvariance, PTL

(* websid_driver_api.h:41: if the window ends with the timer's last value, *)
(* a wait without an answer has no end.                                    *)
THEOREM EdgeNeverEnds == WaitSpec => []NeverEnds
<1>1. WaitInv => NeverEnds
  BY DEF WaitInv
<1> QED
  BY <1>1, WaitInvariance, PTL
-----------------------------------------------------------------------------
(* No client and no thread: all that was recorded was heard.               *)
Over == /\ thread = 0 /\ ready = <<>> /\ playerDone
        /\ sid = "mute" /\ fetch = Clear /\ heard = script

(* The thread has not offered a buffer yet, the client waits for one.      *)
Starting ==
  /\ \/ thread = 0 /\ ready = <<session>>
     \/ /\ thread = session /\ ready = <<>>
        /\ \/ playPc = "start"
           \/ playPc = "init" /\ ~ playerDone
           \/ playPc = "initFeed" /\ ~ playerDone /\ run
           \/ playPc = "initPush" /\ ~ playerDone /\ run /\ feed = Clear
  /\ session > 0
  /\ fetch = Clear /\ uPc \in {"opened", "fetch"} /\ uBuf = 0
  /\ heard = script /\ firstScript = script + 1

(* The client has no buffer.                                               *)
Free == uBuf = 0 /\ uPc \in {"opened", "fetch", "record", "loop"}

(* The kernel expects one buffer, which is offered, held by the client or  *)
(* handed over; n scripts were recorded before it.                         *)
UnderWay(n) ==
  \/ /\ fetch = expecting /\ feed = Clear /\ script = n
     /\ Free \/ (uPc = "take" /\ uBuf = expecting)
  \/ /\ fetch = Clear /\ feed = Clear /\ uBuf = expecting
     /\ \/ uPc = "record" /\ script = n
        \/ uPc \in {"wait", "feed"} /\ script = n + 1 /\ mem[expecting] = script
  \/ /\ fetch = Clear /\ feed = expecting /\ Free
     /\ script = n + 1 /\ mem[expecting] = script

Playing ==
  /\ thread = session /\ session > 0 /\ ready = <<>> /\ ~ playerDone /\ run
  /\ expecting = BufferOf(feedIndex)
  /\ firstScript <= heard + 1
  /\ \/ playPc \in {"next", "poll"} /\ UnderWay(heard)
     \/ /\ playPc \in {"got", "ack"} /\ pbuf = expecting
        /\ fetch = Clear /\ feed = expecting /\ Free
        /\ script = heard + 1 /\ mem[pbuf] = script
     \/ /\ playPc = "push" /\ pbuf = expecting
        /\ fetch = Clear /\ feed = Clear /\ Free
        /\ script = heard + 1 /\ mem[pbuf] = script
     \/ /\ playPc = "play" /\ pbuf = BufferOf(1 - feedIndex)
        /\ mem[pbuf] = heard + 1 /\ UnderWay(heard + 1)

(* The device is being closed: the thread gets the marker and ends.        *)
Leaving ==
  /\ thread = session /\ session > 0 /\ ready = <<>> /\ ~ playerDone /\ heard = script
  /\ \/ /\ uPc \in {"release", "relFetch", "relFeed"}
        /\ playPc = "poll" /\ feed = Clear /\ run
        /\ uPc = "relFeed" => fetch = Clear
     \/ /\ uPc = "relWait" /\ fetch = Clear
        /\ \/ playPc = "poll" /\ feed = ResetMarker /\ run
           \/ playPc = "got" /\ pbuf = ResetMarker
           \/ playPc = "play" /\ pbuf = ResetMarker /\ ~ run
           \/ playPc \in {"next", "end"} /\ ~ run /\ sid = "mute"

CalmInv ==
  /\ status = "OK"
  /\ \/ Over /\ uPc \in {"closed", "relWait", "relEnd"}
     \/ Starting
     \/ Playing
     \/ Leaving

(* A buffer that is played was fed.                                        *)
FedInv == playPc \in {"got", "ack", "push", "play"} => pbuf # Clear

IInv == TypeOK /\ FedInv /\ (calm => CalmInv)
-----------------------------------------------------------------------------
(* The values of the flags are used throughout.                            *)
USE DEF Clear, ResetMarker, BufferOf, Buffer

Switches == /\ run \in BOOLEAN /\ playerDone \in BOOLEAN
            /\ loading \in BOOLEAN /\ quit \in BOOLEAN

Data ==
  /\ fetch \in Buffer \cup {Clear}
  /\ feed \in Buffer \cup {Clear, ResetMarker}
  /\ mem \in [Buffer -> 0 .. Scripts]
  /\ feedIndex \in {0, 1} /\ expecting \in Buffer \cup {0}
  /\ status \in Status
  /\ thread \in 0 .. Sessions /\ ready \in Seq(1 .. Sessions)
  /\ playPc \in PlayPc /\ pbuf \in Buffer \cup {Clear, ResetMarker}
  /\ devOpen \in {0, 1} /\ session \in 0 .. Sessions
  /\ uPc \in UserPc /\ uBuf \in Buffer \cup {0}
  /\ firstScript \in 1 .. Scripts + 1
  /\ script \in 0 .. Scripts /\ heard \in 0 .. Scripts
  /\ sid \in {"mute", "sounding"}

(* Type correctness, action by action.                                     *)
LEMMA TypeKept == ASSUME TypeOK, FedInv, [Next]_vars PROVE TypeOK' /\ FedInv'
<1>1. CASE UNCHANGED vars
  BY <1>1 DEF TypeOK, FedInv, vars, kernelVars, userVars
<1>2. CASE RunThread
  BY <1>2, DriverAssumption
     DEF TypeOK, FedInv, RunThread, userVars, Status, PlayPc, UserPc, Recording, Releasing
<1>3. CASE StartPlayer
  <2>1. Switches' BY <1>3 DEF TypeOK, Switches, StartPlayer, At, userVars
  <2>2. Data' /\ FedInv'
    BY <1>3, DriverAssumption
       DEF TypeOK, Data, FedInv, StartPlayer, At, userVars, Status, PlayPc, UserPc, Recording, Releasing
  <2>3. QED BY <2>1, <2>2 DEF TypeOK, Switches, Data
<1>4. CASE InitFetch
  BY <1>4, DriverAssumption
     DEF TypeOK, FedInv, InitFetch, At, userVars, Status, PlayPc, UserPc, Recording, Releasing
<1>5. CASE InitFeed
  BY <1>5, DriverAssumption
     DEF TypeOK, FedInv, InitFeed, At, userVars, Status, PlayPc, UserPc, Recording, Releasing
<1>6. CASE PushFetchBuffer
  <2>1. Switches' BY <1>6 DEF TypeOK, Switches, PushFetchBuffer, At, userVars
  <2>2. Data' /\ FedInv'
    BY <1>6, DriverAssumption
       DEF TypeOK, Data, FedInv, PushFetchBuffer, At, userVars, Status, PlayPc, UserPc, Recording, Releasing
  <2>3. QED BY <2>1, <2>2 DEF TypeOK, Switches, Data
<1>7. CASE NextScript
  BY <1>7, DriverAssumption
     DEF TypeOK, FedInv, NextScript, At, userVars, Status, PlayPc, UserPc, Recording, Releasing
<1>8. CASE PollFeed
  BY <1>8, DriverAssumption
     DEF TypeOK, FedInv, PollFeed, At, userVars, Status, PlayPc, UserPc, Recording, Releasing
<1>9. CASE GotResetMarker
  <2>1. Switches' BY <1>9 DEF TypeOK, Switches, GotResetMarker, At, userVars
  <2>2. Data' /\ FedInv'
    BY <1>9, DriverAssumption
       DEF TypeOK, Data, FedInv, GotResetMarker, At, userVars, Status, PlayPc, UserPc, Recording, Releasing
  <2>3. QED BY <2>1, <2>2 DEF TypeOK, Switches, Data
<1>10. CASE GotBuffer
  <2>1. Switches' BY <1>10 DEF TypeOK, Switches, GotBuffer, At, userVars
  <2>2. Data' /\ FedInv'
    BY <1>10, DriverAssumption
       DEF TypeOK, Data, FedInv, GotBuffer, At, userVars, Status, PlayPc, UserPc, Recording, Releasing
  <2>3. QED BY <2>1, <2>2 DEF TypeOK, Switches, Data
<1>11. CASE AckFeed
  BY <1>11, DriverAssumption
     DEF TypeOK, FedInv, AckFeed, At, userVars, Status, PlayPc, UserPc, Recording, Releasing
<1>12. CASE PlayScript
  BY <1>12, DriverAssumption
     DEF TypeOK, FedInv, PlayScript, At, userVars, Status, PlayPc, UserPc, Recording, Releasing
<1>13. CASE CounterOverflow
  BY <1>13, DriverAssumption
     DEF TypeOK, FedInv, CounterOverflow, At, userVars, Status, PlayPc, UserPc, Recording, Releasing
<1>14. CASE EndPlayer
  BY <1>14, DriverAssumption
     DEF TypeOK, FedInv, EndPlayer, At, userVars, Status, PlayPc, UserPc, Recording, Releasing
<1>15. CASE Mmap
  BY <1>15, DriverAssumption
     DEF TypeOK, FedInv, Mmap, kernelVars, Status, PlayPc, UserPc, Recording, Releasing
<1>16. CASE SeeFetch
  BY <1>16, DriverAssumption
     DEF TypeOK, FedInv, SeeFetch, kernelVars, Status, PlayPc, UserPc, Recording, Releasing
<1>17. CASE TakeBuffer
  BY <1>17, DriverAssumption
     DEF TypeOK, FedInv, TakeBuffer, kernelVars, Status, PlayPc, UserPc, Recording, Releasing
<1>18. CASE FetchTimeout
  BY <1>18, DriverAssumption
     DEF TypeOK, FedInv, FetchTimeout, kernelVars, Status, PlayPc, UserPc, Recording, Releasing
<1>19. CASE Record
  BY <1>19, DriverAssumption
     DEF TypeOK, FedInv, Record, kernelVars, Status, PlayPc, UserPc, Recording, Releasing
<1>20. CASE RecordNothing
  <2>1. Switches' BY <1>20 DEF TypeOK, Switches, RecordNothing, EndOfFrame, kernelVars
  <2>2. Data' /\ FedInv'
    BY <1>20, DriverAssumption
       DEF TypeOK, Data, FedInv, RecordNothing, EndOfFrame, kernelVars, Status, PlayPc, UserPc, Recording, Releasing
  <2>3. QED BY <2>1, <2>2 DEF TypeOK, Switches, Data
<1>21. CASE SeeFeedClear
  BY <1>21, DriverAssumption
     DEF TypeOK, FedInv, SeeFeedClear, kernelVars, Status, PlayPc, UserPc, Recording, Releasing
<1>22. CASE FeedTimeout
  <2>1. Switches' BY <1>22 DEF TypeOK, Switches, FeedTimeout, EndOfFrame, kernelVars
  <2>2. Data' /\ FedInv'
    BY <1>22, DriverAssumption
       DEF TypeOK, Data, FedInv, FeedTimeout, EndOfFrame, kernelVars, Status, PlayPc, UserPc, Recording, Releasing
  <2>3. QED BY <2>1, <2>2 DEF TypeOK, Switches, Data
<1>23. CASE FeedBuffer
  <2>1. Switches' BY <1>23 DEF TypeOK, Switches, FeedBuffer, EndOfFrame, kernelVars
  <2>2. Data' /\ FedInv'
    BY <1>23, DriverAssumption
       DEF TypeOK, Data, FedInv, FeedBuffer, EndOfFrame, kernelVars, Status, PlayPc, UserPc, Recording, Releasing
  <2>3. QED BY <2>1, <2>2 DEF TypeOK, Switches, Data
<1>24. CASE Close
  BY <1>24, DriverAssumption
     DEF TypeOK, FedInv, Close, kernelVars, Status, PlayPc, UserPc, Recording, Releasing
<1>25. CASE Release
  BY <1>25, DriverAssumption
     DEF TypeOK, FedInv, Release, kernelVars, Status, PlayPc, UserPc, Recording, Releasing
<1>26. CASE ReleaseFetch
  BY <1>26, DriverAssumption
     DEF TypeOK, FedInv, ReleaseFetch, kernelVars, Status, PlayPc, UserPc, Recording, Releasing
<1>27. CASE ReleaseFeed
  BY <1>27, DriverAssumption
     DEF TypeOK, FedInv, ReleaseFeed, kernelVars, Status, PlayPc, UserPc, Recording, Releasing
<1>28. CASE ReleaseDone
  BY <1>28, DriverAssumption
     DEF TypeOK, FedInv, ReleaseDone, kernelVars, Status, PlayPc, UserPc, Recording, Releasing
<1>29. CASE ReleaseTimeout
  <2>1. Switches' BY <1>29 DEF TypeOK, Switches, ReleaseTimeout
  <2>2. Data' /\ FedInv'
    BY <1>29, DriverAssumption
       DEF TypeOK, Data, FedInv, ReleaseTimeout, Status, PlayPc, UserPc, Recording, Releasing
  <2>3. QED BY <2>1, <2>2 DEF TypeOK, Switches, Data
<1>30. CASE ReleaseEnd
  BY <1>30, DriverAssumption
     DEF TypeOK, FedInv, ReleaseEnd, kernelVars, Status, PlayPc, UserPc, Recording, Releasing
<1>31. CASE Open
  <2>1. Switches' BY <1>31 DEF TypeOK, Switches, Open
  <2>2. Data' /\ FedInv'
    BY <1>31, DriverAssumption
       DEF TypeOK, Data, FedInv, Open, Status, PlayPc, UserPc, Recording, Releasing
  <2>3. QED BY <2>1, <2>2 DEF TypeOK, Switches, Data
<1>32. CASE NextFrame
  BY <1>32, DriverAssumption
     DEF TypeOK, FedInv, NextFrame, kernelVars, Status, PlayPc, UserPc, Recording, Releasing
<1>33. CASE Interrupt
  BY <1>33, DriverAssumption
     DEF TypeOK, FedInv, Interrupt, kernelVars, Status, PlayPc, UserPc, Recording, Releasing
<1>34. CASE Kill
  BY <1>34, DriverAssumption
     DEF TypeOK, FedInv, Kill, kernelVars, Status, PlayPc, UserPc, Recording, Releasing
<1>35. QED
  BY <1>1, <1>2, <1>3, <1>4, <1>5, <1>6, <1>7, <1>8, <1>9, <1>10, <1>11, <1>12, <1>13, <1>14, <1>15, <1>16, <1>17, <1>18, <1>19, <1>20, <1>21, <1>22, <1>23, <1>24, <1>25, <1>26, <1>27, <1>28, <1>29, <1>30, <1>31, <1>32, <1>33, <1>34
     DEF Next, Player, Client, Idle
(* What the thread and the client may rely on, action by action.           *)
LEMMA CalmKept ==
  ASSUME TypeOK, FedInv, CalmInv, [Next]_vars, ~ Fault
  PROVE  CalmInv'
<1> USE DEF TypeOK, CalmInv, Over, Starting, Playing, Leaving, UnderWay, Free
<1>1. CASE UNCHANGED vars BY <1>1 DEF vars, kernelVars, userVars
<1>2. CASE RunThread
  BY <1>2 DEF RunThread, userVars
<1>3. CASE StartPlayer
  BY <1>3 DEF StartPlayer, At, userVars
<1>4. CASE InitFetch
  BY <1>4 DEF InitFetch, At, userVars
<1>5. CASE InitFeed
  BY <1>5 DEF InitFeed, At, userVars
<1>6. CASE PushFetchBuffer
  <2>1. fetch = Clear
    <3>1. CASE At("initPush") BY <3>1 DEF At
    <3>2. CASE At("push") BY <3>2 DEF At
    <3>3. QED BY <1>6, <3>1, <3>2 DEF PushFetchBuffer
  <2>2. /\ feedIndex' = 1 - feedIndex /\ fetch' = BufferOf(1 - feedIndex)
        /\ expecting' = fetch' /\ UNCHANGED <<status, run>>
        /\ playPc' = (IF playPc = "push" THEN "play" ELSE "next")
        /\ UNCHANGED <<feed, mem, playerDone, thread, ready, pbuf, heard, userVars>>
    BY <1>6, <2>1 DEF PushFetchBuffer
  <2>3. CASE At("initPush")
    <3>1. Starting /\ playPc' = "next" BY <2>2, <2>3 DEF At
    <3>2. UnderWay(heard)' BY <2>2, <2>3, <3>1 DEF At, userVars
    <3>3. Playing' BY <2>2, <2>3, <3>1, <3>2 DEF At, userVars
    <3>4. QED BY <2>2, <3>3
  <2>4. CASE At("push")
    <3>1. Playing /\ playPc' = "play" BY <2>2, <2>4 DEF At
    <3>2. UnderWay(heard + 1)' BY <2>2, <2>4, <3>1 DEF At, userVars
    <3>3. pbuf' = BufferOf(1 - feedIndex') /\ mem'[pbuf'] = heard' + 1
      BY <2>2, <2>4, <3>1 DEF At
    <3>4. Playing' BY <2>2, <2>4, <3>1, <3>2, <3>3 DEF At, userVars
    <3>5. QED BY <2>2, <3>4
  <2>5. QED BY <1>6, <2>3, <2>4 DEF PushFetchBuffer
<1>7. CASE NextScript
  BY <1>7 DEF NextScript, At, userVars
<1>8. CASE PollFeed
  BY <1>8 DEF PollFeed, At, userVars
<1>9. CASE GotResetMarker
  BY <1>9 DEF GotResetMarker, At, userVars
<1>10. CASE GotBuffer
  BY <1>10 DEF GotBuffer, At, userVars
<1>11. CASE AckFeed
  BY <1>11 DEF AckFeed, At, userVars
<1>12. CASE PlayScript
  BY <1>12 DEF PlayScript, At, userVars
<1>13. CASE CounterOverflow
  BY <1>13 DEF CounterOverflow, At, userVars, Fault
<1>14. CASE EndPlayer
  BY <1>14 DEF EndPlayer, At, userVars
<1>15. CASE Mmap
  BY <1>15 DEF Mmap, kernelVars
<1>16. CASE SeeFetch
  BY <1>16 DEF SeeFetch, kernelVars
<1>17. CASE TakeBuffer
  BY <1>17 DEF TakeBuffer, kernelVars
<1>18. CASE FetchTimeout
  <2>1. uPc = "fetch" /\ MayTimeOut BY <1>18 DEF FetchTimeout
  <2>2. CASE Starting
    <3>1. ~ At("poll") /\ ~ At("play") BY <2>2 DEF At
    <3>2. ~ NoKernelThread
      <4>1. <<session>> # <<>> OBVIOUS
      <4>2. session # 0 BY <2>2
      <4>3. QED BY <2>2, <4>1, <4>2 DEF NoKernelThread
    <3>3. ~ MayTimeOut BY <3>1, <3>2, Zenon DEF MayTimeOut, StuckPlayer
    <3>4. QED BY <2>1, <3>3
  <2>3. CASE Playing
    BY <1>18, <2>1, <2>3 DEF FetchTimeout, kernelVars
  <2>4. QED BY <2>1, <2>2, <2>3
<1>19. CASE Record
  BY <1>19 DEF Record, kernelVars
<1>20. CASE RecordNothing
  BY <1>20 DEF RecordNothing, EndOfFrame, kernelVars
<1>21. CASE SeeFeedClear
  BY <1>21 DEF SeeFeedClear, kernelVars
<1>22. CASE FeedTimeout
  BY <1>22 DEF FeedTimeout, EndOfFrame, kernelVars, MayTimeOut, StuckPlayer, NoKernelThread, At
<1>23. CASE FeedBuffer
  BY <1>23 DEF FeedBuffer, EndOfFrame, kernelVars
<1>24. CASE Close
  BY <1>24 DEF Close, kernelVars, MayClose, NoKernelThread, At, Fault, ClosesEarly, Recording
<1>25. CASE Release
  BY <1>25 DEF Release, kernelVars
<1>26. CASE ReleaseFetch
  BY <1>26 DEF ReleaseFetch, kernelVars
<1>27. CASE ReleaseFeed
  BY <1>27 DEF ReleaseFeed, kernelVars
<1>28. CASE ReleaseDone
  BY <1>28 DEF ReleaseDone, kernelVars
<1>29. CASE ReleaseTimeout
  BY <1>29 DEF ReleaseTimeout, MayTimeOut, StuckPlayer, NoKernelThread, At
<1>30. CASE ReleaseEnd
  BY <1>30 DEF ReleaseEnd, kernelVars
<1>31. CASE Open
  BY <1>31 DEF Open
<1>32. CASE NextFrame
  BY <1>32 DEF NextFrame, kernelVars
<1>33. CASE Interrupt
  BY <1>33 DEF Interrupt, kernelVars, Recording
<1>34. CASE Kill
  BY <1>34 DEF Kill, kernelVars, Fault, ClosesEarly, Recording, NoKernelThread, At
<1>35. QED
  BY <1>1, <1>2, <1>3, <1>4, <1>5, <1>6, <1>7, <1>8, <1>9, <1>10, <1>11, <1>12, <1>13, <1>14, <1>15, <1>16, <1>17, <1>18, <1>19, <1>20, <1>21, <1>22, <1>23, <1>24, <1>25, <1>26, <1>27, <1>28, <1>29, <1>30, <1>31, <1>32, <1>33, <1>34
     DEF Next, Player, Client, Idle

LEMMA InitIInv == MCInit => IInv
<1>1. SUFFICES ASSUME MCInit PROVE IInv OBVIOUS
<1>2. Switches BY <1>1 DEF MCInit, Init, Switches
<1>3. Data /\ FedInv
  <2>1. ready \in Seq(1 .. Sessions) BY <1>1, EmptySeq DEF MCInit, Init
  <2>2. QED
    BY <1>1, <2>1, DriverAssumption
       DEF MCInit, Init, Data, FedInv, Status, PlayPc, UserPc, Recording, Releasing
<1>4. CalmInv BY <1>1 DEF MCInit, Init, CalmInv, Over
<1>5. QED BY <1>2, <1>3, <1>4 DEF IInv, TypeOK, Switches, Data

LEMMA StepIInv == IInv /\ [MCNext]_mcvars => IInv'
<1>1. SUFFICES ASSUME IInv, [MCNext]_mcvars PROVE IInv' OBVIOUS
<1>2. [Next]_vars BY <1>1 DEF MCNext, mcvars
<1>3. TypeOK' /\ FedInv' BY <1>1, <1>2, TypeKept DEF IInv
<1>4. ASSUME calm' PROVE CalmInv'
  <2>1. CASE UNCHANGED mcvars
    <3>1. calm /\ ~ Fault
      BY <1>4, <2>1 DEF mcvars, vars, kernelVars, userVars, Fault, Recording
    <3>2. QED BY <1>1, <1>2, <3>1, CalmKept DEF IInv
  <2>2. CASE MCNext
    <3>1. calm /\ ~ Fault BY <1>4, <2>2 DEF MCNext
    <3>2. QED BY <1>1, <1>2, <3>1, CalmKept DEF IInv
  <2>3. QED BY <1>1, <2>1, <2>2
<1>5. QED BY <1>3, <1>4 DEF IInv

LEMMA InductiveInvariant == MCSpec => []IInv
  BY InitIInv, StepIInv, PTL DEF MCSpec
-----------------------------------------------------------------------------
(* Every flag, index and position keeps to its values, also when clients    *)
(* die, close early or time out and when the timer overflows.               *)
THEOREM TypeCorrect == MCSpec => []TypeOK
<1>1. IInv => TypeOK BY DEF IInv
<1>2. QED BY <1>1, InductiveInvariant, PTL

(* websid_driver_api.h:17: neither side touches a buffer that the other one *)
(* has, for any number of sessions and scripts, while calm holds.           *)
THEOREM BufferExclusive == MCSpec => []ExclusiveWhileCalm
<1>1. IInv => ExclusiveWhileCalm
  <2>1. SUFFICES ASSUME IInv, calm, NEW b \in Buffer, ClientOwns(b), PlayerOwns(b)
                 PROVE  FALSE
    BY DEF ExclusiveWhileCalm, ExclusiveBuffer
  <2>2. CalmInv /\ TypeOK BY <2>1 DEF IInv
  <2>3. thread # 0 /\ playPc \in {"ack", "push", "play"} /\ pbuf = b
        /\ uPc \in {"record", "wait", "feed"} /\ uBuf = b
    BY <2>1 DEF ClientOwns, PlayerOwns, At
  <2>4. Playing BY <2>2, <2>3 DEF CalmInv, Over, Starting, Leaving
  <2>5. QED BY <2>2, <2>3, <2>4 DEF TypeOK, Playing, UnderWay, Free
<1>2. QED BY <1>1, InductiveInvariant, PTL

(* websid_module.c:201: a device that was closed in peace is silent, and no *)
(* thread and no offered buffer is left for the next session to meet.       *)
THEOREM ClosedIsClean == MCSpec => []CleanWhileCalm
<1>1. IInv => CleanWhileCalm
  <2>1. SUFFICES ASSUME IInv, calm, uPc = "closed"
                 PROVE  sid = "mute" /\ thread = 0 /\ ready = <<>> /\ fetch = Clear
    BY DEF CleanWhileCalm, MuteWhenClosed, NothingLeft
  <2>2. Over
    BY <2>1 DEF IInv, CalmInv, Starting, Playing, UnderWay, Free, Leaving
  <2>3. QED BY <2>2 DEF Over
<1>2. QED BY <1>1, InductiveInvariant, PTL

(* Over all sessions, the SID gets every recorded script once and in order. *)
THEOREM ScriptsInOrder == MCSpec => InOrderWhileCalm
<1> DEFINE inOrder == heard' = (IF firstScript > heard THEN firstScript ELSE heard + 1)
<1>1. IInv /\ [MCNext]_mcvars => [calm' /\ heard' # heard => inOrder]_mcvars
  <2>1. SUFFICES ASSUME IInv, MCNext, calm', heard' # heard PROVE inOrder
    BY DEF mcvars, vars, kernelVars
  <2>2. CalmInv /\ TypeOK /\ Next BY <2>1 DEF MCNext, IInv
  <2>3. PlayScript
    BY <2>1, <2>2
       DEF Next, Player, Client, Idle, vars, kernelVars, RunThread, StartPlayer,
           InitFetch, InitFeed, PushFetchBuffer, NextScript, PollFeed, GotResetMarker,
           GotBuffer, AckFeed, CounterOverflow, EndPlayer, Mmap, SeeFetch, TakeBuffer,
           FetchTimeout, Record, RecordNothing, SeeFeedClear, FeedTimeout, FeedBuffer,
           Close, Release, ReleaseFetch, ReleaseFeed, ReleaseDone, ReleaseTimeout,
           ReleaseEnd, Open, NextFrame, Interrupt, Kill
  <2>4. At("play") /\ pbuf # ResetMarker /\ heard' = mem[pbuf]
    BY <2>1, <2>3 DEF PlayScript
  <2>5. Playing BY <2>2, <2>4 DEF At, CalmInv, Over, Starting, Leaving
  <2>6. mem[pbuf] = heard + 1 /\ firstScript <= heard + 1
    BY <2>4, <2>5 DEF At, Playing
  <2>7. QED BY <2>2, <2>4, <2>6 DEF TypeOK
<1>2. QED BY <1>1, InductiveInvariant, PTL DEF MCSpec, InOrderWhileCalm

(* websid_module.c:177 and :337: as long as nothing goes wrong the thread   *)
(* finds no broken protocol.                                                *)
THEOREM NoBrokenProtocol == MCSpec => [](calm => status = "OK")
<1>1. IInv => (calm => status = "OK") BY DEF IInv, CalmInv
<1>2. QED BY <1>1, InductiveInvariant, PTL
====

---------------------------- MODULE WebsidDriver ----------------------------
(***************************************************************************)
(* The kernel module raspi/websid_module and its userland counterpart,     *)
(* the DeviceDriverHandler of raspi/src.  They share two script buffers    *)
(* and two flags and synchronise by polling the flags:                     *)
(*                                                                         *)
(*   fetch   the kernel asks for this buffer to be filled                  *)
(*   feed    userland hands over this buffer to be played                  *)
(*                                                                         *)
(* Each open of /dev/websid creates a kernel thread on core 3.  The thread *)
(* owns its core (interrupts off, SCHED_FIFO): a thread that is created    *)
(* later only runs when the earlier one has ended.                         *)
(*                                                                         *)
(* A script is abstracted to its number.  Playing one takes any time; a    *)
(* timeout of a poller is modelled as a step that it can take while        *)
(* nothing ends its wait (StuckPlayer) or, with LongScripts, while a       *)
(* script is played for longer than the timeout.                           *)
(***************************************************************************)
EXTENDS Naturals, Sequences

CONSTANTS
  Sessions,     \* bound: how often /dev/websid is opened
  Scripts,      \* bound: how many scripts are recorded in all
  LongScripts,  \* may a script play longer than the timeouts of its pollers?
  Killable,     \* may a client die, or fail to map the memory?
  CloseAnyTime, \* may a client close while the player is not idle?
  Overflow      \* may the 32-bit system timer overflow?

ASSUME DriverAssumption ==
  /\ Sessions \in Nat /\ Scripts \in Nat
  /\ LongScripts \in BOOLEAN /\ Killable \in BOOLEAN
  /\ CloseAnyTime \in BOOLEAN /\ Overflow \in BOOLEAN

(* Values of the flags: 0 is "cleared", the buffers are named by their     *)
(* index + 2, and the marker is below every buffer offset.                 *)
Clear == 0
ResetMarker == 1
BufferOf(index) == index + 2
Buffer == {2, 3}

VARIABLES
  fetch, feed, mem,   \* the shared area
  run,                \* _run_next_script
  feedIndex,          \* _feed_index
  expecting,          \* _expecting
  status,             \* _player_status
  playerDone,         \* _player_done
  thread,             \* the session whose kernel thread runs on core 3, or 0
  ready,              \* the sessions whose threads wait for core 3
  playPc,             \* where sid_player() is
  pbuf,               \* _p_buf
  devOpen,            \* _dev_open_count
  session,            \* number of opens so far
  uPc,                \* where the client is: main(), its handler, its close
  uBuf,               \* _buffer_offset; 0 while _script_buf is 0
  loading,            \* the client is before its play loop
  quit,               \* _max_frames is 0
  firstScript,        \* number of the first script of this session
  script,             \* number of scripts recorded so far
  heard,              \* the last recorded script the SID got
  sid                 \* "mute" or "sounding"

kernelVars == <<run, feedIndex, expecting, status, playerDone, thread, ready,
                playPc, pbuf, heard, sid>>
userVars == <<session, uPc, uBuf, loading, quit, firstScript, script>>
vars == <<fetch, feed, mem, kernelVars, devOpen, userVars>>

Status == {"OK", "PREVIOUS_FETCH_NOT_CLEARED", "WRONG_FEED_BUFFER",
           "COUNTER_OVERFLOW"}
PlayPc == {"start", "init", "initFeed", "initPush", "poll", "got", "ack",
           "push", "play", "next", "end"}
Recording == {"opened", "fetch", "take", "record", "wait", "feed", "loop"}
Releasing == {"release", "relFetch", "relFeed", "relWait", "relEnd"}
UserPc == Recording \cup Releasing \cup {"closed"}

Init ==
  /\ fetch = Clear /\ feed = Clear
  /\ mem = [b \in Buffer |-> 0]
  /\ run = FALSE /\ feedIndex = 0 /\ expecting = 0
  /\ status = "OK" /\ playerDone = TRUE
  /\ thread = 0 /\ ready = <<>> /\ playPc = "start" /\ pbuf = 0
  /\ devOpen = 0
  /\ session = 0 /\ uPc = "closed" /\ uBuf = 0
  /\ loading = TRUE /\ quit = FALSE /\ script = 0 /\ firstScript = 1
  /\ heard = 0 /\ sid = "mute"
-----------------------------------------------------------------------------
(* The kernel thread: sid_player() and play_loop().                        *)

(* Core 3 is free: the scheduler runs the thread that waits longest.       *)
RunThread ==
  /\ thread = 0
  /\ ready # <<>>
  /\ thread' = Head(ready)
  /\ ready' = Tail(ready)
  /\ playPc' = "start"
  /\ UNCHANGED <<fetch, feed, mem, run, feedIndex, expecting, status,
                 playerDone, pbuf, heard, sid, devOpen, userVars>>

At(pc) == thread # 0 /\ playPc = pc

StartPlayer ==
  /\ At("start")
  /\ playerDone' = FALSE
  /\ playPc' = "init"
  /\ UNCHANGED <<fetch, feed, mem, run, feedIndex, expecting, status, thread,
                 ready, pbuf, heard, sid, devOpen, userVars>>

(* init_player: clear fetch, then feed, then ask for the first buffer.     *)
InitFetch ==
  /\ At("init")
  /\ run' = TRUE
  /\ feedIndex' = 0
  /\ fetch' = Clear
  /\ playPc' = "initFeed"
  /\ UNCHANGED <<feed, mem, expecting, status, playerDone, thread, ready, pbuf,
                 heard, sid, devOpen, userVars>>

InitFeed ==
  /\ At("initFeed")
  /\ feed' = Clear
  /\ playPc' = "initPush"
  /\ UNCHANGED <<fetch, mem, run, feedIndex, expecting, status, playerDone,
                 thread, ready, pbuf, heard, sid, devOpen, userVars>>

(* Mutant: the buffer index is incremented, not toggled.                   *)
PushNextBuffer ==
  /\ At("initPush") \/ At("push")
  /\ feedIndex' = feedIndex + 1
  /\ fetch' = BufferOf(feedIndex')
  /\ expecting' = fetch'
  /\ playPc' = IF playPc = "push" THEN "play" ELSE "next"
  /\ UNCHANGED <<feed, mem, run, status, playerDone, thread, ready, pbuf, heard,
                 sid, devOpen, userVars>>

(* Mutant: the same buffer is asked for again.                             *)
PushSameBuffer ==
  /\ At("initPush") \/ At("push")
  /\ fetch' = BufferOf(feedIndex)
  /\ expecting' = fetch'
  /\ playPc' = IF playPc = "push" THEN "play" ELSE "next"
  /\ UNCHANGED <<feed, mem, run, feedIndex, status, playerDone, thread, ready,
                 pbuf, heard, sid, devOpen, userVars>>

(* push_fetch_buffer: ask for the other buffer.  At the end of init_player *)
(* and after each script that was taken over.                              *)
PushFetchBuffer ==
  /\ At("initPush") \/ At("push")
  /\ \/ /\ fetch # Clear
        /\ status' = "PREVIOUS_FETCH_NOT_CLEARED"
        /\ run' = FALSE
        /\ UNCHANGED <<fetch, feedIndex, expecting>>
     \/ /\ fetch = Clear
        /\ feedIndex' = 1 - feedIndex
        /\ fetch' = BufferOf(1 - feedIndex)
        /\ expecting' = fetch'
        /\ UNCHANGED <<status, run>>
  /\ playPc' = IF playPc = "push" THEN "play" ELSE "next"
  /\ UNCHANGED <<feed, mem, playerDone, thread, ready, pbuf, heard, sid,
                 devOpen, userVars>>

(* The condition of the outer loop.                                        *)
NextScript ==
  /\ At("next")
  /\ playPc' = IF run THEN "poll" ELSE "end"
  /\ UNCHANGED <<fetch, feed, mem, run, feedIndex, expecting, status,
                 playerDone, thread, ready, pbuf, heard, sid, devOpen, userVars>>

(* The polling loop sees a feed, or that it shall stop.                    *)
PollFeed ==
  /\ At("poll")
  /\ feed # Clear \/ ~ run
  /\ pbuf' = feed
  /\ playPc' = IF run THEN "got" ELSE "end"
  /\ UNCHANGED <<fetch, feed, mem, run, feedIndex, expecting, status,
                 playerDone, thread, ready, heard, sid, devOpen, userVars>>

(* The marker stops the loop after the built-in reset script.              *)
GotResetMarker ==
  /\ At("got")
  /\ pbuf = ResetMarker
  /\ fetch' = Clear
  /\ run' = FALSE
  /\ playPc' = "play"
  /\ UNCHANGED <<feed, mem, feedIndex, expecting, status, playerDone, thread,
                 ready, pbuf, heard, sid, devOpen, userVars>>

GotBuffer ==
  /\ At("got")
  /\ pbuf # ResetMarker
  /\ \/ /\ pbuf # expecting
        /\ status' = "WRONG_FEED_BUFFER"
        /\ run' = FALSE
        /\ playPc' = "end"
     \/ /\ pbuf = expecting
        /\ playPc' = "ack"
        /\ UNCHANGED <<status, run>>
  /\ UNCHANGED <<fetch, feed, mem, feedIndex, expecting, playerDone, thread,
                 ready, pbuf, heard, sid, devOpen, userVars>>

(* Mutant: the buffer is not acknowledged.                                 *)
AckNothing ==
  /\ At("ack")
  /\ playPc' = "push"
  /\ UNCHANGED <<fetch, feed, mem, run, feedIndex, expecting, status, playerDone,
                 thread, ready, pbuf, heard, sid, devOpen, userVars>>

(* Acknowledge the buffer: whatever feed holds by now is cleared.          *)
AckFeed ==
  /\ At("ack")
  /\ feed' = Clear
  /\ playPc' = "push"
  /\ UNCHANGED <<fetch, mem, run, feedIndex, expecting, status, playerDone,
                 thread, ready, pbuf, heard, sid, devOpen, userVars>>

(* play_script: the SID gets the whole script, then the loop goes on.      *)
PlayScript ==
  /\ At("play")
  /\ IF pbuf = ResetMarker
     THEN sid' = "mute" /\ UNCHANGED heard
     ELSE sid' = "sounding" /\ heard' = mem[pbuf]
  /\ playPc' = "next"
  /\ UNCHANGED <<fetch, feed, mem, run, feedIndex, expecting, status,
                 playerDone, thread, ready, pbuf, devOpen, userVars>>

(* The sum of a timestamp and _ts_offset overflows: play_script returns    *)
(* from play_loop.                                                         *)
CounterOverflow ==
  /\ Overflow
  /\ At("play")
  /\ pbuf # ResetMarker
  /\ status' = "COUNTER_OVERFLOW"
  /\ feed' = ResetMarker
  /\ playPc' = "end"
  /\ UNCHANGED <<fetch, mem, run, feedIndex, expecting, playerDone, thread,
                 ready, pbuf, heard, sid, devOpen, userVars>>

EndPlayer ==
  /\ At("end")
  /\ playerDone' = TRUE
  /\ thread' = 0
  /\ UNCHANGED <<fetch, feed, mem, run, feedIndex, expecting, status, ready,
                 playPc, pbuf, heard, sid, devOpen, userVars>>

Player == \/ RunThread \/ StartPlayer \/ InitFetch \/ InitFeed
          \/ PushFetchBuffer \/ NextScript \/ PollFeed
          \/ GotResetMarker \/ GotBuffer \/ AckFeed \/ PlayScript
          \/ CounterOverflow \/ EndPlayer
-----------------------------------------------------------------------------
(* The client: main() with a DeviceDriverHandler.                          *)

NoKernelThread == thread = 0 /\ ready = <<>>

(* A poller that waits for the kernel thread is stuck when no thread is    *)
(* left, or when the thread itself polls for the next feed.                *)
StuckPlayer ==
  \/ NoKernelThread
  \/ At("poll") /\ feed = Clear /\ run

MayTimeOut == \/ StuckPlayer
              \/ LongScripts /\ At("play") /\ pbuf # ResetMarker

(* websid_open, for the one client that may have the device.               *)
Open ==
  /\ uPc = "closed"
  /\ devOpen = 0
  /\ session < Sessions
  /\ script < Scripts
  /\ devOpen' = 1
  /\ session' = session + 1
  /\ ready' = Append(ready, session')
  /\ loading' = TRUE
  /\ quit' = FALSE
  /\ uBuf' = 0
  /\ uPc' = "opened"
  /\ firstScript' = script + 1
  /\ UNCHANGED <<fetch, feed, mem, run, feedIndex, expecting, status,
                 playerDone, thread, playPc, pbuf, heard, sid, script>>

Mmap ==
  /\ uPc = "opened"
  /\ uPc' = "fetch"
  /\ UNCHANGED <<fetch, feed, mem, kernelVars, devOpen, session, firstScript, uBuf, loading,
                 quit, script>>

(* recordBegin: wait for a buffer ...                                      *)
SeeFetch ==
  /\ uPc = "fetch"
  /\ fetch # Clear
  /\ uBuf' = fetch
  /\ uPc' = "take"
  /\ UNCHANGED <<fetch, feed, mem, kernelVars, devOpen, session, firstScript, loading, quit,
                 script>>

(* Mutant: the flag is left set.                                           *)
TakeBufferKeepFlag ==
  /\ uPc = "take"
  /\ uPc' = "record"
  /\ UNCHANGED <<fetch, feed, mem, kernelVars, devOpen, session, firstScript,
                 uBuf, loading, quit, script>>

(* ... and take it.                                                        *)
TakeBuffer ==
  /\ uPc = "take"
  /\ fetch' = Clear
  /\ uPc' = "record"
  /\ UNCHANGED <<feed, mem, kernelVars, devOpen, session, firstScript, uBuf, loading, quit,
                 script>>

(* No buffer for 10 seconds: int_callback, and nothing will be recorded.   *)
FetchTimeout ==
  /\ uPc = "fetch"
  /\ fetch = Clear
  /\ MayTimeOut
  /\ uBuf' = 0
  /\ quit' = TRUE
  /\ uPc' = "record"
  /\ UNCHANGED <<fetch, feed, mem, kernelVars, devOpen, session, firstScript, loading, script>>

(* The emulator runs and recordEnd puts the end marker.                    *)
Record ==
  /\ uPc = "record"
  /\ uBuf # 0
  /\ script < Scripts
  /\ mem' = [mem EXCEPT ![uBuf] = script + 1]
  /\ script' = script + 1
  /\ uPc' = "wait"
  /\ UNCHANGED <<fetch, feed, kernelVars, devOpen, session, firstScript, uBuf, loading, quit>>

(* Without a buffer the emulator runs for nothing.  _max_frames is only    *)
(* set when the song is loaded, an interrupt before that is forgotten.     *)
EndOfFrame(overruled) ==
  /\ loading' = FALSE
  /\ quit' = (overruled /\ ~ loading)
  /\ uPc' = "loop"

RecordNothing ==
  /\ uPc = "record"
  /\ uBuf = 0
  /\ EndOfFrame(quit)
  /\ UNCHANGED <<fetch, feed, mem, kernelVars, devOpen, session, firstScript, uBuf, script>>

(* feedBuffer: wait until the kernel has taken the previous buffer.        *)
SeeFeedClear ==
  /\ uPc = "wait"
  /\ feed = Clear
  /\ uPc' = "feed"
  /\ UNCHANGED <<fetch, feed, mem, kernelVars, devOpen, session, firstScript, uBuf, loading,
                 quit, script>>

(* Mutant: the client never gives up.                                      *)
FeedPatiently ==
  /\ uPc = "wait"
  /\ feed # Clear
  /\ MayTimeOut
  /\ UNCHANGED vars

FeedTimeout ==
  /\ uPc = "wait"
  /\ feed # Clear
  /\ MayTimeOut
  /\ uBuf' = 0
  /\ EndOfFrame(TRUE)
  /\ UNCHANGED <<fetch, feed, mem, kernelVars, devOpen, session, firstScript, script>>

FeedBuffer ==
  /\ uPc = "feed"
  /\ feed' = uBuf
  /\ uBuf' = 0
  /\ EndOfFrame(quit)
  /\ UNCHANGED <<fetch, mem, kernelVars, devOpen, session, firstScript, script>>

(* ctrl-C: int_callback only clears _max_frames.                           *)
Interrupt ==
  /\ uPc \in Recording
  /\ quit' = TRUE
  /\ UNCHANGED <<fetch, feed, mem, kernelVars, devOpen, session, firstScript, uPc, uBuf,
                 loading, script>>

NextFrame ==
  /\ uPc = "loop"
  /\ ~ quit
  /\ script < Scripts
  /\ uPc' = "fetch"
  /\ UNCHANGED <<fetch, feed, mem, kernelVars, devOpen, session, firstScript, uBuf, loading,
                 quit, script>>

MayClose == \/ CloseAnyTime
            \/ NoKernelThread
            \/ At("poll") /\ feed = Clear

(* The song is over or was interrupted: ~DeviceDriverHandler closes.       *)
Close ==
  /\ uPc = "loop"
  /\ MayClose
  /\ uPc' = "release"
  /\ UNCHANGED <<fetch, feed, mem, kernelVars, devOpen, session, firstScript, uBuf, loading,
                 quit, script>>

(* The client is killed, leaves by exit(1) or cannot map the memory: the   *)
(* kernel closes the device for it.                                        *)
Kill ==
  /\ Killable
  /\ uPc \in Recording
  /\ uPc' = "release"
  /\ uBuf' = 0
  /\ UNCHANGED <<fetch, feed, mem, kernelVars, devOpen, session, firstScript, loading, quit,
                 script>>

(* websid_release: a thread that is running gets the marker ...            *)
Release ==
  /\ uPc = "release"
  /\ uPc' = IF playerDone THEN "relEnd" ELSE "relFetch"
  /\ UNCHANGED <<fetch, feed, mem, kernelVars, devOpen, session, firstScript, uBuf, loading,
                 quit, script>>

ReleaseFetch ==
  /\ uPc = "relFetch"
  /\ fetch' = Clear
  /\ uPc' = "relFeed"
  /\ UNCHANGED <<feed, mem, kernelVars, devOpen, session, firstScript, uBuf, loading, quit,
                 script>>

(* Mutant: the thread is stopped without the reset script.                 *)
ReleaseStop ==
  /\ uPc = "relFeed"
  /\ run' = FALSE
  /\ uPc' = "relWait"
  /\ UNCHANGED <<fetch, feed, mem, feedIndex, expecting, status, playerDone,
                 thread, ready, playPc, pbuf, heard, sid, devOpen, session,
                 firstScript, uBuf, loading, quit, script>>

ReleaseFeed ==
  /\ uPc = "relFeed"
  /\ feed' = ResetMarker
  /\ uPc' = "relWait"
  /\ UNCHANGED <<fetch, mem, kernelVars, devOpen, session, firstScript, uBuf, loading, quit,
                 script>>

(* ... and 3 seconds to end.                                               *)
ReleaseDone ==
  /\ uPc = "relWait"
  /\ playerDone
  /\ uPc' = "relEnd"
  /\ UNCHANGED <<fetch, feed, mem, kernelVars, devOpen, session, firstScript, uBuf, loading,
                 quit, script>>

ReleaseTimeout ==
  /\ uPc = "relWait"
  /\ ~ playerDone
  /\ MayTimeOut
  /\ run' = FALSE
  /\ uPc' = "relEnd"
  /\ UNCHANGED <<fetch, feed, mem, feedIndex, expecting, status, playerDone,
                 thread, ready, playPc, pbuf, heard, sid, devOpen, session, firstScript,
                 uBuf, loading, quit, script>>

ReleaseEnd ==
  /\ uPc = "relEnd"
  /\ devOpen' = 0
  /\ uPc' = "closed"
  /\ UNCHANGED <<fetch, feed, mem, kernelVars, session, firstScript, uBuf, loading, quit,
                 script>>

Client == \/ Mmap \/ SeeFetch \/ TakeBuffer \/ FetchTimeout
          \/ Record \/ RecordNothing
          \/ SeeFeedClear \/ FeedTimeout \/ FeedBuffer \/ Close
          \/ Release \/ ReleaseFetch \/ ReleaseFeed
          \/ ReleaseDone \/ ReleaseTimeout \/ ReleaseEnd

(* No client, and no thread or only one that polls for ever.               *)
Idle == /\ uPc = "closed"
        /\ NoKernelThread \/ StuckPlayer
        /\ UNCHANGED vars

Next == \/ Player \/ Client
        \/ Open \/ NextFrame \/ Interrupt \/ Kill
        \/ Idle

Spec == Init /\ [][Next]_vars

(* Core 3 and the client are scheduled; nobody has to open the device,     *)
(* to play another frame, to press ctrl-C or to die.                       *)
FairSpec == Spec /\ WF_vars(Player) /\ WF_vars(Client)
-----------------------------------------------------------------------------
TypeOK ==
  /\ fetch \in Buffer \cup {Clear}
  /\ feed \in Buffer \cup {Clear, ResetMarker}
  /\ mem \in [Buffer -> 0 .. Scripts]
  /\ run \in BOOLEAN /\ playerDone \in BOOLEAN
  /\ feedIndex \in {0, 1}
  /\ expecting \in Buffer \cup {0}
  /\ status \in Status
  /\ thread \in 0 .. Sessions
  /\ ready \in Seq(1 .. Sessions)
  /\ playPc \in PlayPc
  /\ pbuf \in Buffer \cup {Clear, ResetMarker}
  /\ devOpen \in {0, 1}
  /\ session \in 0 .. Sessions
  /\ uPc \in UserPc
  /\ uBuf \in Buffer \cup {0}
  /\ loading \in BOOLEAN /\ quit \in BOOLEAN
  /\ firstScript \in 1 .. Scripts + 1
  /\ script \in 0 .. Scripts
  /\ heard \in 0 .. Scripts
  /\ sid \in {"mute", "sounding"}

(* The client may write to uBuf; the kernel thread reads pbuf.             *)
ClientOwns(b) == uPc \in {"record", "wait", "feed"} /\ uBuf = b
PlayerOwns(b) == (At("ack") \/ At("push") \/ At("play")) /\ pbuf = b

(* websid_driver_api.h:17: "the flags make sure that a buffer is           *)
(* exclusively owned" by one side at any moment.                           *)
ExclusiveBuffer == \A b \in Buffer : ~ (ClientOwns(b) /\ PlayerOwns(b))

(* websid_mmap.c:20-28: only one buffer is under way at any time.  While   *)
(* the client is connected and its thread is up, the buffer that the       *)
(* kernel expects is in exactly one place: offered by fetch, held by the   *)
(* client, handed over by feed.                                            *)
Offered == fetch = expecting
Held == uPc \in {"record", "wait", "feed"} /\ uBuf = expecting
HandedOver == feed = expecting

OneBufferUnderWay ==
  (uPc \in Recording \ {"opened", "take"} /\ (At("poll") \/ At("play"))) =>
     /\ Offered \/ Held \/ HandedOver
     /\ ~ (Offered /\ Held) /\ ~ (Offered /\ HandedOver) /\ ~ (Held /\ HandedOver)

(* The checks of the kernel thread (websid_module.c:177 and :337) never    *)
(* find a broken protocol, whenever the client closes or dies - in the     *)
(* first session, or if clients only close while the player is idle.       *)
NoProtocolError ==
  session <= 1 \/ ~ CloseAnyTime => status \notin {"PREVIOUS_FETCH_NOT_CLEARED", "WRONG_FEED_BUFFER"}

(* Within a session the SID gets every recorded script once, in order; a   *)
(* script may only be missing at the end, cut off by the close.            *)
InOrder ==
  [][heard' # heard =>
       heard' = (IF firstScript > heard THEN firstScript ELSE heard + 1)]_vars

(* websid_module.c:178: a fetch flag that is still set when the next       *)
(* buffer is asked for "should be dead code".                              *)
FetchIsCleared == status # "PREVIOUS_FETCH_NOT_CLEARED"

(* device_driver_handler.cpp:92: closing the device ends the kernel thread *)
(* of the session, given time.                                             *)
CloseEndsKthread == (uPc = "closed") ~> (NoKernelThread \/ uPc # "closed")

(* websid_module.c:201: the reset script mutes "any beeps when quitting    *)
(* the player": a closed device is silent.                                 *)
MuteWhenClosed == uPc = "closed" => sid = "mute"

(* The client gets to its end whatever the kernel side does: none of its   *)
(* waits, nor that of the close, lasts for ever.                           *)
ClientEnds == uPc # "closed" ~> uPc = "closed"

(* websid_module.c:264: a counter overflow "trigger[s] exit sequence", the *)
(* reset script that mutes the SID.                                        *)
OverflowMutes == status = "COUNTER_OVERFLOW" /\ NoKernelThread => sid = "mute"
=============================================================================

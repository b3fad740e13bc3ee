-------------------------- MODULE FallbackPlayback --------------------------
(***************************************************************************)
(* The Raspberry Pi player without its kernel module: the main thread of   *)
(* raspi/src/main.cpp runs the emulator and records its SID writes frame   *)
(* by frame, the PlaybackThread of raspi/src/fallback_handler.cpp replays  *)
(* them on the chip.  Two script buffers circulate between the threads:    *)
(* BufferPool -> main (recording) -> WorkQueue -> player -> BufferPool.    *)
(*                                                                         *)
(* Both deques are sequences whose head is the back of the deque, the end  *)
(* that is popped.  The waiting for the time of a write is not modelled,   *)
(* the player may take any time before it performs the next write.         *)
(***************************************************************************)
EXTENDS PlaybackScript

CONSTANTS FrameLimit,      \* frames of the five minutes a song is played
          PokesPerFrame    \* bound: writes the emulator makes in one script

ASSUME FallbackAssumption == /\ FrameLimit \in Nat
                             /\ PokesPerFrame \in Nat

(* Addresses: 0 is the null pointer, 3 the built-in reset script.          *)
NoBuf == 0
Buffer == {1, 2}
ResetScript == 3

VARIABLES
  pool,         \* BufferPool::_pool
  waiting,      \* main sleeps on BufferPool::_cv
  work,         \* WorkQueue::_work
  runNext,      \* _run_next_script
  mem,          \* _script_buf1 and _script_buf2
  scriptBuf,    \* PlaybackHandler::_script_buf
  scriptLen,    \* PlaybackHandler::_script_len
  mainPc,       \* where main() is
  frame,        \* frame_count of main()
  maxFrames,    \* _max_frames
  interrupted,  \* when ctrl-C came: before or after the limit was set
  emitted,      \* the writes the emulator made since the last recordBegin
  playPc,       \* where playLoop() is
  playBuf,      \* buf of playLoop()
  playPos,      \* i / 2 of playScript()
  last,         \* the last recorded write on the SID's bus
  dirty         \* the SID registers that may hold something else than 0

mainVars == <<scriptBuf, scriptLen, mainPc, frame, maxFrames, interrupted,
              emitted>>
playVars == <<runNext, playPc, playBuf, playPos, last, dirty>>
shared == <<pool, waiting, work, mem>>
vars == <<mainVars, playVars, shared>>

(* The points of main() where it has no buffer and where it records.       *)
Beginning == {"begin", "beginFrame"}
Recording == {"load", "emulate"}
MainPc == Beginning \cup Recording
            \cup {"loop", "teardown", "join", "exited", "died"}
PlayPc == {"poll", "play", "yield", "done", "killed"}

(* initPlaybackHandler has created the pool and started the thread.        *)
Init ==
  /\ pool = <<2, 1>>
  /\ waiting = FALSE
  /\ work = <<>>
  /\ runNext = TRUE
  /\ mem = [b \in Buffer |-> EmptyScript]
  /\ scriptBuf = NoBuf
  /\ scriptLen = 0
  /\ mainPc = "begin"
  /\ frame = 0
  /\ maxFrames = 0
  /\ interrupted = "no"
  /\ emitted = <<>>
  /\ playPc = "poll"
  /\ playBuf = NoBuf
  /\ playPos = 0
  /\ last = EndMarker
  /\ dirty = {}
-----------------------------------------------------------------------------
(* BufferPool::fetchBuffer in recordBegin: take a buffer, or sleep until   *)
(* the player returns one.                                                 *)
FetchBuffer ==
  /\ mainPc \in Beginning
  /\ ~ waiting
  /\ pool # <<>>
  /\ scriptBuf' = Head(pool)
  /\ pool' = Tail(pool)
  /\ scriptLen' = 0
  /\ emitted' = <<>>
  /\ mainPc' = IF mainPc = "begin" THEN "load" ELSE "emulate"
  /\ UNCHANGED <<frame, maxFrames, interrupted, waiting, work, mem, playVars>>

WaitForBuffer ==
  /\ mainPc \in Beginning
  /\ ~ waiting
  /\ pool = <<>>
  /\ waiting' = TRUE
  /\ UNCHANGED <<mainVars, playVars, pool, work, mem>>

(* A condition variable may wake its waiter without a notification.        *)
SpuriousWakeup ==
  /\ waiting
  /\ waiting' = FALSE
  /\ UNCHANGED <<mainVars, playVars, pool, work, mem>>

(* The emulation of INIT or of one frame writes a SID register.            *)
RecordSidWrite ==
  /\ mainPc \in Recording
  /\ Len(emitted) < PokesPerFrame
  /\ \E reg \in Reg :
       LET p == <<frame * PokesPerFrame + Len(emitted) + 1, reg>>
       IN  /\ emitted' = Append(emitted, p)
           /\ mem' = [mem EXCEPT ![scriptBuf] =
                                   RecordPoke(@, scriptLen, p)]
  /\ scriptLen' = RecordLen(scriptLen)
  /\ UNCHANGED <<scriptBuf, mainPc, frame, maxFrames, interrupted, pool,
                 waiting, work, playVars>>

(* Mutant: the queue works as a stack.                                     *)
FeedBufferFirst ==
  /\ mem' = [mem EXCEPT ![scriptBuf] = MarkEnd(@, scriptLen)]
  /\ work' = <<scriptBuf>> \o work
  /\ scriptBuf' = NoBuf
  /\ scriptLen' = 0
  /\ UNCHANGED <<emitted, interrupted, pool, waiting, playVars>>

(* recordEnd: write the end marker and queue the buffer for the player.    *)
FeedBuffer ==
  /\ mem' = [mem EXCEPT ![scriptBuf] = MarkEnd(@, scriptLen)]
  /\ work' = Append(work, scriptBuf)
  /\ scriptBuf' = NoBuf
  /\ scriptLen' = 0
  /\ UNCHANGED <<emitted, interrupted, pool, waiting, playVars>>

(* The song is loaded: the first script is fed and the limit is set, to    *)
(* less than five minutes when the system timer would overflow before.     *)
FinishLoad ==
  /\ mainPc = "load"
  /\ FeedBuffer
  /\ \E limit \in 0 .. FrameLimit : maxFrames' = limit
  /\ mainPc' = "loop"
  /\ UNCHANGED frame

(* A bad file or track: exit(1) from loadSidFile ends the whole process.   *)
LoadFails ==
  /\ mainPc = "load"
  /\ mainPc' = "died"
  /\ playPc' = "killed"
  /\ UNCHANGED <<scriptBuf, scriptLen, frame, maxFrames, interrupted, emitted,
                 runNext, playBuf, playPos, last, dirty, shared>>

(* One frame is recorded.                                                  *)
FinishFrame ==
  /\ mainPc = "emulate"
  /\ FeedBuffer
  /\ frame' = frame + 1
  /\ mainPc' = "loop"
  /\ UNCHANGED maxFrames

(* Mutant: one frame too many.                                             *)
NextFrameInclusive ==
  /\ mainPc = "loop"
  /\ mainPc' = IF frame <= maxFrames THEN "beginFrame" ELSE "teardown"
  /\ UNCHANGED <<scriptBuf, scriptLen, frame, maxFrames, interrupted, emitted,
                 playVars, shared>>

(* The condition of the for loop of main().                                *)
NextFrame ==
  /\ mainPc = "loop"
  /\ mainPc' = IF frame < maxFrames THEN "beginFrame" ELSE "teardown"
  /\ UNCHANGED <<scriptBuf, scriptLen, frame, maxFrames, interrupted, emitted,
                 playVars, shared>>

(* Mutant: the reset script overtakes the queue.                           *)
ResetSIDFirst ==
  /\ mainPc = "teardown"
  /\ work' = <<ResetScript>> \o work
  /\ mainPc' = "join"
  /\ UNCHANGED <<scriptBuf, scriptLen, frame, maxFrames, interrupted, emitted,
                 pool, waiting, mem, playVars>>

(* ~FallbackHandler: queue the reset script, then join the player.         *)
ResetSID ==
  /\ mainPc = "teardown"
  /\ work' = Append(work, ResetScript)
  /\ mainPc' = "join"
  /\ UNCHANGED <<scriptBuf, scriptLen, frame, maxFrames, interrupted, emitted,
                 pool, waiting, mem, playVars>>

Join ==
  /\ mainPc = "join"
  /\ playPc = "done"
  /\ mainPc' = "exited"
  /\ UNCHANGED <<scriptBuf, scriptLen, frame, maxFrames, interrupted, emitted,
                 playVars, shared>>

(* int_callback: ctrl-C at any time the process lives.                     *)
Interrupt ==
  /\ mainPc \notin {"exited", "died"}
  /\ maxFrames' = 0
  /\ interrupted' = IF mainPc \in {"begin", "load"} THEN "early" ELSE "late"
  /\ UNCHANGED <<scriptBuf, scriptLen, mainPc, frame, emitted, playVars,
                 shared>>
-----------------------------------------------------------------------------
(* Mutant: the buffer is returned to the pool before it is played.         *)
PopBufferYieldFirst ==
  /\ playPc = "poll"
  /\ runNext
  /\ work # <<>>
  /\ playBuf' = Head(work)
  /\ work' = Tail(work)
  /\ pool' = Append(pool, Head(work))
  /\ runNext' = (Head(work) # ResetScript)
  /\ playPos' = 0
  /\ playPc' = "play"
  /\ UNCHANGED <<mainVars, waiting, mem, last, dirty>>

(* WorkQueue::popBuffer found a script; the reset script is the last one.  *)
PopBuffer ==
  /\ playPc = "poll"
  /\ runNext
  /\ work # <<>>
  /\ playBuf' = Head(work)
  /\ work' = Tail(work)
  /\ runNext' = (Head(work) # ResetScript)
  /\ playPos' = 0
  /\ playPc' = "play"
  /\ UNCHANGED <<mainVars, pool, waiting, mem, last, dirty>>

(* playScript: write the next entry of a recorded script to the chip.      *)
PlayPoke ==
  /\ playPc = "play"
  /\ playBuf \in Buffer
  /\ LET p == mem[playBuf][playPos]
     IN  /\ p # EndMarker
         /\ last' = p
         /\ dirty' = dirty \cup {p[2]}
  /\ playPos' = playPos + 1
  /\ UNCHANGED <<mainVars, shared, runNext, playPc, playBuf>>

PlayReset ==
  /\ playPc = "play"
  /\ playBuf = ResetScript
  /\ playPos < ResetLen
  /\ dirty' = dirty \ {ResetReg(playPos)}
  /\ playPos' = playPos + 1
  /\ UNCHANGED <<mainVars, shared, runNext, playPc, playBuf, last>>

(* ... until the end marker is reached.                                    *)
ScriptEnd ==
  /\ playPc = "play"
  /\ IF playBuf = ResetScript THEN playPos = ResetLen
                              ELSE mem[playBuf][playPos] = EndMarker
  /\ playPc' = "yield"
  /\ UNCHANGED <<mainVars, shared, runNext, playBuf, playPos, last, dirty>>

(* Mutant: the waiting main thread is not notified.                        *)
YieldBufferSilently ==
  /\ playPc = "yield"
  /\ pool' = Append(pool, playBuf)
  /\ playBuf' = NoBuf
  /\ playPc' = IF runNext THEN "poll" ELSE "done"
  /\ UNCHANGED <<mainVars, waiting, work, mem, runNext, playPos, last, dirty>>

(* BufferPool::yieldBuffer, and the test of the loop.  The reset script    *)
(* goes to the pool like any other buffer.                                 *)
YieldBuffer ==
  /\ playPc = "yield"
  /\ pool' = Append(pool, playBuf)
  /\ waiting' = FALSE
  /\ playBuf' = NoBuf
  /\ playPc' = IF runNext THEN "poll" ELSE "done"
  /\ UNCHANGED <<mainVars, work, mem, runNext, playPos, last, dirty>>
-----------------------------------------------------------------------------
Finished == mainPc \in {"exited", "died"}

(* The process is gone: nothing happens any more.                          *)
Terminated == Finished /\ UNCHANGED vars

Main == \/ FetchBuffer \/ WaitForBuffer
        \/ FinishLoad \/ FinishFrame \/ NextFrame
        \/ ResetSID \/ Join

Player == PopBuffer \/ PlayPoke \/ PlayReset \/ ScriptEnd \/ YieldBuffer

Next == \/ Main \/ RecordSidWrite \/ LoadFails
        \/ SpuriousWakeup \/ Interrupt
        \/ Player
        \/ Terminated

Spec == Init /\ [][Next]_vars

(* Both threads own an isolated core.  What the emulator writes, whether   *)
(* the song loads, ctrl-C and spurious wakeups are up to the environment.  *)
FairSpec == Spec /\ WF_vars(Main) /\ WF_vars(Player)
-----------------------------------------------------------------------------
(* Every variable stays in its range; in particular neither deque ever     *)
(* holds more than the two script buffers and the reset script.            *)
TypeOK ==
  /\ pool \in Seq({1, 2, ResetScript})
  /\ work \in Seq({1, 2, ResetScript})
  /\ waiting \in BOOLEAN
  /\ runNext \in BOOLEAN
  /\ mem \in [Buffer -> Script]
  /\ scriptBuf \in Buffer \cup {NoBuf}
  /\ scriptLen \in Slot
  /\ mainPc \in MainPc
  /\ frame \in Nat
  /\ maxFrames \in 0 .. FrameLimit
  /\ interrupted \in {"no", "early", "late"}
  /\ emitted \in Seq(Poke)
  /\ playPc \in PlayPc
  /\ playBuf \in {NoBuf, 1, 2, ResetScript}
  /\ playPos \in Nat
  /\ last \in Poke \cup {EndMarker}
  /\ dirty \subseteq Reg

Holds(q, b) == \E i \in DOMAIN q : q[i] = b

NoDuplicate(q) == \A i, j \in DOMAIN q : q[i] = q[j] => i = j

(* The four places a script can be in.                                     *)
InPool(b) == Holds(pool, b)
InWork(b) == Holds(work, b)
Recorded(b) == scriptBuf = b
Played(b) == playBuf = b

(* fallback_handler.cpp:212: a script buffer is owned by one thread at a   *)
(* time.  Each of the two buffers is in exactly one place: free in the     *)
(* pool, being recorded, queued, or being played.                          *)
ExclusiveOwner ==
  /\ NoDuplicate(pool)
  /\ NoDuplicate(work)
  /\ \A b \in Buffer :
       /\ InPool(b) \/ Recorded(b) \/ InWork(b) \/ Played(b)
       /\ ~ (InPool(b) /\ (Recorded(b) \/ InWork(b) \/ Played(b)))
       /\ ~ (Recorded(b) /\ (InWork(b) \/ Played(b)))
       /\ ~ (InWork(b) /\ Played(b))

(* The reset script is queued behind all recorded ones and nothing is      *)
(* played after it: when the program ends, every register that the reset   *)
(* script names holds 0 and no script is left over.                        *)
MutedAtExit ==
  mainPc = "exited" => /\ work = <<>>
                       /\ \A i \in 0 .. (ResetLen - 1) : ResetReg(i) \notin dirty

(* playScript stops at an end marker inside the buffer, although the       *)
(* buffer still holds entries of older scripts.                            *)
PlayedScriptEnds ==
  \A b \in Buffer :
     Played(b) \/ InWork(b) => \E i \in Slot : mem[b][i] = EndMarker

(* recordEnd hands over what the emulator wrote since recordBegin, cut at  *)
(* MAX_ENTRIES: no write of an older script, none missing before the cut.  *)
FedAsRecorded ==
  [][\A b \in Buffer : Recorded(b) /\ InWork(b)' =>
       Remaining(mem'[b], 0) =
         SubSeq(emitted, 1, IF Len(emitted) < MaxEntries THEN Len(emitted)
                                                          ELSE MaxEntries)]_vars

(* A ctrl-C that comes once the frame limit is set ends the playback with  *)
(* the frame that is being recorded.                                       *)
InterruptEndsLoop ==
  [][interrupted = "late" /\ mainPc = "loop" => mainPc' # "beginFrame"]_vars

(* The same for every ctrl-C, as README.md:110 says ("playback can be      *)
(* interrupted by pressing ctrl-C") and main.cpp:187 ("make play loop end  *)
(* at next iteration").                                                    *)
AnyInterruptEndsLoop ==
  [][interrupted # "no" /\ mainPc = "loop" => mainPc' # "beginFrame"]_vars

(* fallback_handler.cpp:218: the reset script "reset[s] all SID registers  *)
(* to 0".                                                                  *)
AllRegistersReset == mainPc = "exited" => dirty = {}

-----------------------------------------------------------------------------
(* The parts of the inductive invariant that the safety properties need.   *)

(* main holds a buffer exactly while it records.                           *)
MainOwns == mainPc # "died" => (mainPc \in Recording <=> scriptBuf # NoBuf)

(* The player holds a script exactly while it plays or returns it.         *)
PlayerOwns ==
  /\ mainPc = "died" <=> playPc = "killed"
  /\ playPc # "killed" => (playPc \in {"play", "yield"} <=> playBuf # NoBuf)

(* A script that was handed over has an end marker the player will meet.   *)
EndAhead ==
  \A b \in Buffer :
    /\ InWork(b) => \E i \in Slot : mem[b][i] = EndMarker
    /\ Played(b) => /\ playPos \in Slot
                    /\ \E i \in playPos .. MaxEntries : mem[b][i] = EndMarker

(* The reset script exists only after main has stopped recording, is the   *)
(* last one in the queue, and ends the player.                             *)
ResetLast ==
  /\ InPool(ResetScript) \/ InWork(ResetScript) \/ Played(ResetScript)
       => mainPc \in {"join", "exited"}
  /\ mainPc = "join" => InWork(ResetScript) \/ Played(ResetScript)
                          \/ playPc = "done"
  /\ \A i \in DOMAIN work : work[i] = ResetScript => i = Len(work)
  /\ InWork(ResetScript) => runNext
  /\ InPool(ResetScript) => playPc = "done"
  /\ Played(ResetScript) => work = <<>>
  /\ playPc = "done" => work = <<>> /\ mainPc \in {"join", "exited"}
  /\ playPc \notin {"done", "killed"} => (runNext <=> ~ Played(ResetScript))
  /\ mainPc = "exited" => playPc = "done"

(* What the reset script has muted so far stays mute.                      *)
MuteSoFar ==
  /\ Played(ResetScript) =>
       /\ playPos <= ResetLen
       /\ \A i \in 0 .. (playPos - 1) : ResetReg(i) \notin dirty
       /\ playPc = "yield" => playPos = ResetLen
  /\ playPc = "done" => \A i \in 0 .. (ResetLen - 1) : ResetReg(i) \notin dirty

IInv == /\ TypeOK /\ ExclusiveOwner /\ MainOwns /\ PlayerOwns
        /\ EndAhead /\ ResetLast /\ MuteSoFar

(* The buffer that is recorded begins with what the emulator wrote.        *)
RecordedSoFar ==
  mainPc \in Recording =>
    /\ scriptLen = IF Len(emitted) < MaxEntries THEN Len(emitted) ELSE MaxEntries
    /\ \A i \in 0 .. (scriptLen - 1) : mem[scriptBuf][i] = emitted[i + 1]

(* The first end marker decides what of a script is played.                *)
StopKnown ==
  \A b \in Buffer :
    /\ InWork(b) => \E n \in Slot : StopsAt(mem[b], 0, n)
    /\ Played(b) => /\ \E n \in Slot : StopsAt(mem[b], playPos, n)
                    /\ playPc = "yield" => mem[b][playPos] = EndMarker

(* The player has nothing to do before the first script is fed.            *)
IdleAtFirst == mainPc \in {"begin", "load"} => work = <<>> /\ playBuf = NoBuf

ContentInv == RecordedSoFar /\ StopKnown /\ IdleAtFirst
-----------------------------------------------------------------------------
(* The writes still to come: the rest of the script that is played and     *)
(* the queued scripts, in the order of the queue (at most two of them and  *)
(* the reset script).                                                      *)
Rest(b, i) == IF b \in Buffer THEN Remaining(mem[b], i) ELSE <<>>
Playing == IF playPc \in {"play", "yield"} THEN Rest(playBuf, playPos) ELSE <<>>
Queued(n) == IF Len(work) >= n THEN Rest(work[n], 0) ELSE <<>>

PendingWrites == Playing \o (Queued(1) \o (Queued(2) \o Queued(3)))

Unfinished(b) == IF InWork(b) \/ Played(b) THEN 1 ELSE 0

FedScripts == Unfinished(1) + Unfinished(2)

Phase == IF playPc = "done" THEN "muted"
         ELSE IF mainPc = "join" THEN "closing" ELSE "open"

Channel == INSTANCE SidChannel
             WITH Ahead <- 2, pending <- PendingWrites,
                  fed <- FedScripts, phase <- Phase

(* The two threads implement the bounded FIFO of SidChannel: every         *)
(* recorded write is played once, in order, and the chip is muted last.    *)
ChannelSpec == Channel!Spec
-----------------------------------------------------------------------------
(* Neither thread waits for the other for ever: the program comes to its   *)
(* end, with or without ctrl-C.                                            *)
Terminates == <>Finished
=============================================================================

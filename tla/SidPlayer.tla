------------------------------- MODULE SidPlayer -------------------------------
(***************************************************************************)
(* The interface of the emulator (src/src/sidplayer.cpp) as its caller sees *)
(* it: load a file, start a sub-tune, fetch audio chunk by chunk, and       *)
(* change settings at any time in between.  The calls are not concurrent,   *)
(* but every one of them reallocates or reuses buffers whose sizes depend   *)
(* on what earlier calls have left behind.                                  *)
(***************************************************************************)
EXTENDS Loader

CONSTANT Callers
(* What a caller has and asks for: files (records of Loader), roms (the sets  *)
(* of ROM images it may have), rates of samples, bufs (sizes of its audio     *)
(* buffer, in samples), traces (whether it wants the trace buffers), levels   *)
(* of stereo (below 1 the effect is off), whether it switches the video       *)
(* standard, and the number of chunks it fetches from one start (a bound).    *)

\* 60 samples per second make one sample per frame.
AudioAssumption ==
  \A c \in Callers :
    /\ \A f \in c.files : f.mus \in BOOLEAN
    /\ c.rates \subseteq {r \in Nat : r >= 60}
    /\ c.bufs \subseteq Nat \ {0}
    /\ c.traces \subseteq BOOLEAN
    /\ c.levels \subseteq Int /\ c.switches \in BOOLEAN /\ c.chunks \in Nat
ASSUME AudioAssumption

VARIABLES caller,   \* one of Callers
          loader,   \* "none", or the loader of the last acceptable header
          tune,     \* the file that is loaded and its ROM images, or <<>>
          result,   \* what the last loadSidFile returned
          ready,    \* _ready_to_play
          song, roms, mixed,   \* statics of the loaders
          ram, snapshot, machine,
          audio,    \* sizes and buffers, see NoAudio
          regs,     \* the recorded SID registers, see NoRegs
          heard     \* "new", "silent", "sound": since the last start

statics == <<song, roms, mixed>>
vars == <<caller, loader, tune, result, ready, statics, ram, snapshot, machine, audio, regs, heard>>

-----------------------------------------------------------------------------
(* Buffers. *)

NoAudio == [rate |-> 0, proc |-> 0, trace |-> FALSE, chunk |-> 0, synth |-> 0,
            traces |-> 0, snapshots |-> 0, perBuffer |-> 0, level |-> 0, block |-> 0]

\* Frames per second are 59.8 (NTSC) and 50.1 (PAL).
ChunkSize(rate, ntsc) == IF ntsc THEN (rate * 1000) \div 59826 ELSE (rate * 1000) \div 50125

CeilDiv(a, b) == (a + b - 1) \div b
AtLeast(a, b) == IF a < b THEN b ELSE a

\* Mutant: the buffers are sized before the tune has set the video standard.
ResetAudioBuffersPal(u, ntsc) ==
  LET chunk == ChunkSize(u.rate, FALSE)
  IN [u EXCEPT !.chunk = chunk, !.synth = chunk, !.traces = IF u.trace THEN chunk ELSE 0,
               !.perBuffer = CeilDiv(u.proc, chunk), !.snapshots = AtLeast(@, CeilDiv(u.proc, chunk))]

\* Mutant: the snapshot buffers are allocated once and never grow.
ResetAudioBuffersOnce(u, ntsc) ==
  LET chunk == ChunkSize(u.rate, ntsc)
      perBuffer == CeilDiv(u.proc, chunk)
  IN [u EXCEPT !.chunk = chunk, !.synth = chunk, !.traces = IF u.trace THEN chunk ELSE 0,
               !.perBuffer = perBuffer, !.snapshots = IF @ = 0 THEN perBuffer ELSE @]

\* Mutant: the last, partial chunk of a buffer is not counted.
ResetAudioBuffersFloor(u, ntsc) ==
  LET chunk == ChunkSize(u.rate, ntsc)
      perBuffer == AtLeast(u.proc \div chunk, 1)
  IN [u EXCEPT !.chunk = chunk, !.synth = chunk, !.traces = IF u.trace THEN chunk ELSE 0,
               !.perBuffer = perBuffer, !.snapshots = AtLeast(@, perBuffer)]

\* resetAudioBuffers; a trace buffer exists only while tracing is on, and the
\* snapshot buffers are never made smaller.
ResetAudioBuffers(u, ntsc) ==
  LET chunk == ChunkSize(u.rate, ntsc)
      perBuffer == CeilDiv(u.proc, chunk)
  IN [u EXCEPT !.chunk = chunk, !.synth = chunk, !.traces = IF u.trace THEN chunk ELSE 0,
               !.perBuffer = perBuffer, !.snapshots = AtLeast(@, perBuffer)]

\* The double buffer of register snapshots: where the next one goes, whether
\* that is in the second half, the samples the half stands for so far, and
\* which chunk of the stream each place was last recorded for.
NoRegs == [pos |-> 0, second |-> FALSE, count |-> 0, chunks |-> 0, cells |-> <<>>]

\* recordSidRegSnapshot, once per chunk: a half is left as soon as its chunks
\* make up a buffer of the caller; what they have too much is carried over.
RecordSnapshot(r, u) ==
  LET count == r.count + u.chunk
      full == count >= u.proc
  IN [pos |-> IF ~ full THEN r.pos + 1 ELSE IF r.second THEN 0 ELSE u.perBuffer,
      second |-> IF full THEN ~ r.second ELSE r.second,
      count |-> IF full THEN count - u.proc ELSE count,
      chunks |-> r.chunks + 1,
      cells |-> (r.pos :> r.chunks) @@ r.cells]

\* configurePseudoStereo: the effect is created once, for the block size of
\* that moment.
ConfigurePseudoStereo(u) ==
  IF u.chunk # 0 /\ u.block = 0 THEN [u EXCEPT !.block = u.chunk] ELSE u

-----------------------------------------------------------------------------
(* The calls. *)

NoRam == [code |-> NoCode, song |-> "none"]

Init ==
  /\ caller \in Callers
  /\ loader = "none" /\ tune = <<>> /\ result = 1 /\ ready = FALSE
  /\ song = FirstSong /\ roms = FirstRoms /\ mixed = <<>>
  /\ ram = NoRam /\ snapshot = NoRam
  /\ machine = [pc |-> 0, ntsc |-> FALSE]
  /\ audio = NoAudio /\ regs = NoRegs /\ heard = "new"

\* The rate is limited to 48000.
Limited(rate) == IF rate > 48000 THEN 48000 ELSE rate

\* No loader takes the file.
Refuse(f, rate) ==
  /\ ~ Accepted(f)
  /\ loader' = "none" /\ tune' = <<>> /\ result' = 1
  /\ audio' = [audio EXCEPT !.rate = Limited(rate)]
  /\ UNCHANGED <<statics, ram, snapshot, machine, regs>>

\* The statics of the loader have changed, whether it succeeds or not.
Accept(f, rate, given) ==
  /\ Accepted(f)
  /\ loader' = IF f.mus THEN "mus" ELSE "sid"
  /\ LET l == Load(f, given, song, roms, mixed)
         m == IF l.reset THEN KernalResetMachine ELSE machine
         u == [audio EXCEPT !.rate = Limited(rate)]
     IN /\ result' = l.result
        /\ song' = l.song /\ roms' = l.roms /\ mixed' = l.mixed
        /\ ram' = l.ram
        /\ snapshot' = IF l.saved THEN l.ram ELSE snapshot
        /\ IF l.result = 0
           THEN /\ tune' = <<f, given>>
                /\ machine' = [m EXCEPT !.ntsc = l.song.ntsc]
                /\ audio' = ResetAudioBuffers(u, l.song.ntsc)
                /\ regs' = NoRegs
           ELSE /\ machine' = m /\ audio' = u
                /\ tune' = <<>> /\ UNCHANGED regs

LoadSidFile(f, rate, given) ==
  /\ result # NeverReturns
  /\ ready' = FALSE
  /\ Refuse(f, rate) \/ Accept(f, rate, given)
  /\ UNCHANGED <<caller, heard>>

\* Callers start a tune only after a load that succeeded (adapter: "second
\* step towards playback").
PlayTune(track, trace, proc) ==
  /\ result = 0
  /\ LET selected == ValidatedTrack(song, song.selected, track)
         s == Startup(song, song.init, selected, snapshot, ram)
         u == ResetAudioBuffers([audio EXCEPT !.trace = trace, !.proc = proc], song.ntsc)
     IN /\ song' = [song EXCEPT !.selected = selected, !.init = s.init]
        /\ regs' = NoRegs
        /\ ram' = s.ram /\ machine' = s.machine
        /\ audio' = ConfigurePseudoStereo(u)
  /\ ready' = TRUE
  /\ heard' = "new"
  /\ UNCHANGED <<caller, loader, tune, result, roms, mixed, snapshot>>

\* One chunk: frames are run, several while nothing has been audible yet, and
\* the last one is handed out.  The song may write anywhere in its memory and
\* move its vectors.
ComputeAudioSamples ==
  /\ ready /\ regs.chunks < caller.chunks
  /\ ram' = [ram EXCEPT !.song = "played", !.vectors = "song", !.bank = \h34]
  /\ machine' = [machine EXCEPT !.pc = 0]
  /\ regs' = RecordSnapshot(regs, audio)
  /\ heard' \in IF heard = "sound" THEN {"sound"} ELSE {"silent", "sound"}
  /\ UNCHANGED <<caller, loader, tune, result, ready, statics, snapshot, audio>>

\* Only the running chip and the buffers follow: the loader keeps the setting
\* of the file.
EnvSetNTSC(ntsc) ==
  /\ caller.switches /\ result = 0
  /\ machine' = [machine EXCEPT !.ntsc = ntsc]
  /\ audio' = ResetAudioBuffers(audio, ntsc)
  /\ regs' = NoRegs
  /\ UNCHANGED <<caller, loader, tune, result, ready, statics, ram, snapshot, heard>>

SetStereoLevel(level) ==
  /\ result # NeverReturns
  /\ audio' = ConfigurePseudoStereo([audio EXCEPT !.level = level])
  /\ UNCHANGED <<caller, loader, tune, result, ready, statics, ram, snapshot, machine, regs, heard>>

\* The load that is under way does not end.
Hung == result = NeverReturns /\ UNCHANGED vars

Next ==
  \/ \E f \in caller.files, rate \in caller.rates, given \in caller.roms :
       LoadSidFile(f, rate, given)
  \/ \E track \in 0..2, trace \in caller.traces, proc \in caller.bufs :
       PlayTune(track, trace, proc)
  \/ ComputeAudioSamples
  \/ \E ntsc \in BOOLEAN : EnvSetNTSC(ntsc)
  \/ \E level \in caller.levels : SetStereoLevel(level)
  \/ Hung

Spec == Init /\ [][Next]_vars

-----------------------------------------------------------------------------
(* Properties. *)

TypeOK ==
  /\ loader \in {"none", "sid", "mus"} /\ result \in {0, 1, NeverReturns}
  /\ ready \in BOOLEAN /\ heard \in {"new", "silent", "sound"}
  /\ audio.chunk \in Nat /\ audio.block \in Nat /\ audio.perBuffer <= audio.snapshots

\* While audio is fetched, every buffer has the size of the chunk that the
\* emulation is about to render into it: the calls that change the sample
\* rate, the video standard, tracing or the caller's buffer size may come in
\* any order and none of them leaves a buffer of an older size behind.
BuffersFit ==
  ready =>
    /\ loader # "none"
    /\ audio.chunk = ChunkSize(audio.rate, machine.ntsc)
    /\ audio.synth = audio.chunk /\ audio.chunk <= 1920
    /\ audio.trace <=> audio.traces = audio.chunk
    /\ audio.snapshots >= CeilDiv(audio.proc, audio.chunk)

StartedAs(l) ==
  LET fresh == Startup(l.song, l.song.init, song.selected, l.ram, l.ram)
  IN /\ ram = fresh.ram /\ [machine EXCEPT !.ntsc = fresh.machine.ntsc] = fresh.machine
     /\ song = [l.song EXCEPT !.selected = song.selected, !.init = fresh.init]
     /\ roms.kernal = l.roms.kernal /\ roms.basic = l.roms.basic

\* A sub-tune of a .sid file starts as it would in an emulator that has loaded
\* nothing but its file, whatever has been loaded, started and played before:
\* the snapshot of the memory "is restored before playing a new track"
\* (memory.c:46), every chip is reset, and no static variable of the loaders
\* (loaders.cpp:74-85) still tells of another song.
StartsAlike ==
  ready /\ heard = "new" /\ loader = "sid" => StartedAs(FirstLoad(tune[1], tune[2]))

\* ... also of a .mus file: memory is set up for the video standard of the song
\* before it, its driver goes where that of the song before it went, and behind
\* the file lies the end of a longer one (loaders.cpp:540, 486).  Fails.
MusStartsAlike ==
  ready /\ heard = "new" /\ loader = "mus" => StartedAs(FirstLoad(tune[1], tune[2]))

\* Every load returns (loaders.cpp:457: an index of 8 bits).  Fails.
LoadReturns == result # NeverReturns

\* Snapshots are recorded inside the allocated double buffer, in the half whose
\* turn it is, for every size of the caller's buffer and of the chunks, and
\* although the halves get different numbers of them.
SnapshotsInside ==
  ready =>
    LET half == IF regs.second THEN audio.perBuffer ELSE 0
    IN half <= regs.pos /\ regs.pos < half + audio.perBuffer
       /\ regs.pos < 2 * audio.snapshots

\* getSIDRegister2 returns the "state relating to specified playback time"
\* (sidplayer.cpp:282): what is read for a tick (256 samples) of the buffer
\* that has been filled last was recorded for a chunk that reaches into it.
SnapshotOfBuffer ==
  LET filled == (regs.chunks * audio.chunk) \div audio.proc
      half == IF regs.second THEN 0 ELSE audio.perBuffer
  IN ready /\ filled > 0 =>
       \A tick \in 0..((audio.proc - 1) \div 256) :
         LET i == half + (256 * tick) \div audio.chunk
         IN i \in DOMAIN regs.cells /\ (regs.cells[i] + 1) * audio.chunk > (filled - 1) * audio.proc

\* The stereo effect can process the chunks it is given: "Maximum block size in
\* sample pairs" (stereo/LVCS.h:223).
StereoFits == ready /\ audio.level > 0 => audio.chunk <= audio.block
=============================================================================

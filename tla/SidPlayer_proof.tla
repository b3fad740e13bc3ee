----------------------------- MODULE SidPlayer_proof -----------------------------
(***************************************************************************)
(* Proofs about SidPlayer, SongStart and MemoryMap: the buffers fit         *)
(* whatever is called in whatever order, for all rates and sizes; a sub-tune *)
(* starts alike whatever was loaded before; where the loader puts the driver *)
(* of a song, and which memory the song reaches.                            *)
(***************************************************************************)
EXTENDS SidPlayer, TLAPS

-----------------------------------------------------------------------------
(* Arithmetic of the buffers. *)

LEMMA Division ==
  ASSUME NEW a \in Nat, NEW b \in Nat \ {0}
  PROVE a \div b \in Nat /\ b * (a \div b) <= a /\ a < b * (a \div b) + b
  OBVIOUS

LEMMA CeilDivCovers ==
  ASSUME NEW a \in Nat \ {0}, NEW b \in Nat \ {0}
  PROVE /\ CeilDiv(a, b) \in Nat \ {0}
        /\ a <= b * CeilDiv(a, b)
<1> DEFINE n == a + b - 1
           q == n \div b
<1>1. n \in Nat /\ n >= b OBVIOUS
<1>2. q \in Nat /\ b * q <= n /\ n < b * q + b BY <1>1, Division
<1> HIDE DEF q
<1>3. q # 0
  <2>1. ASSUME q = 0 PROVE FALSE
    <3>1. b * q = 0 BY <2>1
    <3>2. QED BY <1>1, <1>2, <3>1
  <2>2. QED BY <2>1
<1>4. a <= b * q
  <2>1. b * q \in Int BY <1>2
  <2>2. QED BY <1>2, <2>1
<1>5. CeilDiv(a, b) = q BY DEF CeilDiv, q, n
<1>6. QED BY <1>2, <1>3, <1>4, <1>5

\* What has been recorded of a half, j chunks of b samples, makes up less than
\* the caller's buffer, which q chunks cover.
LEMMA PlaceInHalf ==
  ASSUME NEW j \in Nat, NEW q \in Nat, NEW b \in Nat \ {0}, b * j < b * q
  PROVE j < q
<1>1. ASSUME j >= q PROVE FALSE
  <2>1. j - q \in Nat BY <1>1
  <2>2. b * (j - q) \in Nat BY <2>1
  <2>3. b * (j - q) = b * j - b * q OBVIOUS
  <2>4. b * j \in Int /\ b * q \in Int OBVIOUS
  <2>5. QED BY <2>2, <2>3, <2>4
<1>2. QED BY <1>1

LEMMA ChunkFits ==
  ASSUME NEW rate \in Nat, 60 <= rate, rate <= 48000, NEW ntsc \in BOOLEAN
  PROVE ChunkSize(rate, ntsc) \in Nat \ {0} /\ ChunkSize(rate, ntsc) <= 1920
<1>1. (rate * 1000) \div 59826 \in 1..1920 OBVIOUS
<1>2. (rate * 1000) \div 50125 \in 1..1920 OBVIOUS
<1>3. QED BY <1>1, <1>2 DEF ChunkSize

-----------------------------------------------------------------------------
(* The inductive invariant. *)

AudioType ==
  [rate : Nat, proc : Nat, trace : BOOLEAN, chunk : Nat, synth : Nat, traces : Nat,
   snapshots : Nat, perBuffer : Nat, level : Int, block : Nat]

(* The chip model that is selected, in a machine of any stage.              *)
Selects(m, ntsc) == "ntsc" \in DOMAIN m /\ m.ntsc = ntsc

(* After a load that succeeded the buffers may be allocated at any time.    *)
LoadInv ==
  /\ caller \in Callers
  /\ audio \in AudioType
  /\ audio.rate <= 48000
  /\ "ntsc" \in DOMAIN machine
  /\ "ntsc" \in DOMAIN song
  /\ ready => result = 0
  /\ result = 0 => loader # "none" /\ audio.rate >= 60 /\ song.ntsc \in BOOLEAN

(* What resetAudioBuffers has made of u for a video standard.               *)
Sized(u, ntsc) ==
  /\ u.chunk = ChunkSize(u.rate, ntsc)
  /\ u.synth = u.chunk
  /\ u.traces = IF u.trace THEN u.chunk ELSE 0
  /\ u.perBuffer = CeilDiv(u.proc, u.chunk)
  /\ u.snapshots >= u.perBuffer

PlayInv ==
  ready => /\ audio.proc # 0
           /\ \E ntsc \in BOOLEAN : Selects(machine, ntsc) /\ Sized(audio, ntsc)

Half(r, u) == IF r.second THEN u.perBuffer ELSE 0

(* How many snapshots the half holds, and that they stand for less than the *)
(* caller's buffer.                                                         *)
RegsInv(r, u) ==
  /\ r.pos \in Nat /\ r.second \in BOOLEAN /\ r.count \in Nat
  /\ r.pos - Half(r, u) \in Nat
  /\ u.chunk * (r.pos - Half(r, u)) <= r.count
  /\ r.count < u.proc \/ r.pos = Half(r, u)

PlayerInv == LoadInv /\ PlayInv /\ (ready => RegsInv(regs, audio))

-----------------------------------------------------------------------------
LEMMA ResetSizes ==
  ASSUME NEW u \in AudioType, NEW ntsc \in BOOLEAN, u.rate >= 60, u.rate <= 48000
  PROVE LET w == ResetAudioBuffers(u, ntsc)
        IN /\ w \in AudioType
           /\ w.rate = u.rate /\ w.proc = u.proc /\ w.trace = u.trace
           /\ u.proc # 0 => Sized(w, ntsc)
<1> DEFINE chunk == ChunkSize(u.rate, ntsc)
           per == CeilDiv(u.proc, chunk)
<1>1. u.rate \in Nat /\ u.proc \in Nat /\ u.snapshots \in Nat BY DEF AudioType
<1>2. chunk \in Nat \ {0} BY <1>1, ChunkFits
<1>3. per \in Nat
  <2>1. u.proc + chunk - 1 \in Nat BY <1>1, <1>2
  <2>2. QED BY <2>1, <1>2, Division DEF CeilDiv
<1>4. AtLeast(u.snapshots, per) \in Nat /\ AtLeast(u.snapshots, per) >= per
  BY <1>1, <1>3 DEF AtLeast
<1> HIDE DEF chunk, per
<1>5. ResetAudioBuffers(u, ntsc) =
        [u EXCEPT !.chunk = chunk, !.synth = chunk, !.traces = IF u.trace THEN chunk ELSE 0,
                  !.perBuffer = per, !.snapshots = AtLeast(u.snapshots, per)]
  BY DEF ResetAudioBuffers, chunk, per
<1>6. ResetAudioBuffers(u, ntsc) \in AudioType
  <2>1. (IF u.trace THEN chunk ELSE 0) \in Nat BY <1>2
  <2>2. chunk \in Nat BY <1>2
  <2> DEFINE t == IF u.trace THEN chunk ELSE 0
             k == AtLeast(u.snapshots, per)
  <2> HIDE DEF t, k
  <2>3. t \in Nat /\ k \in Nat BY <1>4, <2>1 DEF t, k
  <2> DEFINE v1 == [u EXCEPT !.chunk = chunk]
             v2 == [v1 EXCEPT !.synth = chunk]
             v3 == [v2 EXCEPT !.traces = t]
             v4 == [v3 EXCEPT !.perBuffer = per]
  <2>4. v1 \in AudioType BY <2>2 DEF AudioType
  <2>5. ResetAudioBuffers(u, ntsc) = [v4 EXCEPT !.snapshots = k] BY <1>5 DEF t, k
  <2> HIDE DEF v1
  <2>6. v2 \in AudioType BY <2>2, <2>4 DEF AudioType
  <2> HIDE DEF v2
  <2>7. v3 \in AudioType BY <2>3, <2>6 DEF AudioType
  <2> HIDE DEF v3
  <2>8. v4 \in AudioType BY <1>3, <2>7 DEF AudioType
  <2> HIDE DEF v4
  <2>9. QED BY <2>3, <2>5, <2>8 DEF AudioType
<1>7. Sized(ResetAudioBuffers(u, ntsc), ntsc)
  BY <1>4, <1>5 DEF Sized, AudioType, chunk, per
<1>8. QED BY <1>5, <1>6, <1>7 DEF AudioType

LEMMA StereoKeeps ==
  ASSUME NEW u \in AudioType, NEW ntsc \in BOOLEAN
  PROVE LET w == ConfigurePseudoStereo(u)
        IN /\ w \in AudioType /\ w.rate = u.rate /\ w.proc = u.proc
           /\ w.chunk = u.chunk /\ w.perBuffer = u.perBuffer
           /\ Sized(u, ntsc) => Sized(w, ntsc)
  BY DEF ConfigurePseudoStereo, AudioType, Sized

(* A recorded snapshot moves on inside its half, or to the start of the     *)
(* other one.                                                               *)
LEMMA RecordKeeps ==
  ASSUME NEW r, NEW u \in AudioType, u.chunk # 0, RegsInv(r, u)
  PROVE RegsInv(RecordSnapshot(r, u), u)
<1> DEFINE w == RecordSnapshot(r, u)
           count == r.count + u.chunk
           j == r.pos - Half(r, u)
<1>1. /\ u.chunk \in Nat \ {0} /\ u.proc \in Nat /\ u.perBuffer \in Nat
      /\ r.pos \in Nat /\ r.count \in Nat /\ r.second \in BOOLEAN /\ j \in Nat
      /\ u.chunk * j <= r.count
      /\ r.count < u.proc \/ r.pos = Half(r, u)
  BY DEF AudioType, RegsInv
<1>2. CASE count >= u.proc
  <2>1. /\ w.pos = IF r.second THEN 0 ELSE u.perBuffer
        /\ w.second = ~ r.second
        /\ w.count = count - u.proc
    BY <1>2 DEF RecordSnapshot
  <2>2. w.pos = Half(w, u) BY <1>1, <2>1 DEF Half
  <2>3. w.pos \in Nat /\ w.count \in Nat /\ w.second \in BOOLEAN BY <1>1, <1>2, <2>1
  <2>4. w.pos - Half(w, u) = 0 BY <2>2, <2>3
  <2>5. u.chunk * (w.pos - Half(w, u)) = 0 BY <2>4, <1>1
  <2> HIDE DEF w
  <2>6. RegsInv(w, u) BY <1>1, <2>2, <2>3, <2>4, <2>5 DEF RegsInv
  <2>7. QED BY <2>6 DEF w
<1>3. CASE count < u.proc
  <2>1. w.pos = r.pos + 1 /\ w.second = r.second /\ w.count = count
    BY <1>1, <1>3 DEF RecordSnapshot
  <2>2. Half(w, u) = Half(r, u) BY <2>1 DEF Half
  <2>3. Half(r, u) \in Nat BY <1>1 DEF Half
  <2> HIDE DEF w
  <2>4. w.pos - Half(w, u) = j + 1 BY <1>1, <2>1, <2>2, <2>3
  <2> HIDE DEF j
  <2>5. u.chunk * (j + 1) = u.chunk * j + u.chunk BY <1>1
  <2>6. u.chunk * j \in Int BY <1>1
  <2>7. u.chunk * (w.pos - Half(w, u)) <= w.count BY <1>1, <2>1, <2>4, <2>5, <2>6
  <2>8. w.pos - Half(w, u) \in Nat BY <1>1, <2>4 DEF j
  <2>9. w.pos \in Nat /\ w.count \in Nat /\ w.second \in BOOLEAN BY <1>1, <2>1
  <2>10. w.count < u.proc BY <1>3, <2>1
  <2>11. RegsInv(w, u) BY <2>7, <2>8, <2>9, <2>10 DEF RegsInv
  <2>12. QED BY <2>11 DEF w
<1>4. QED BY <1>1, <1>2, <1>3

(* A started tune runs on the video standard of its file.                   *)
LEMMA StartupSelects ==
  ASSUME NEW t, NEW init, NEW track, NEW snap, NEW r
  PROVE Selects(Startup(t, init, track, snap, r).machine, t.ntsc)
<1> DEFINE m == HackMachine(Restored(snap, r).code, init, ResetMachine(t))
           h == HackRam(init, Restored(snap, r))
<1>1. Selects(ResetMachine(t), t.ntsc) BY DEF ResetMachine, Selects
<1>2. Selects(m, t.ntsc) BY <1>1 DEF HackMachine, Selects
<1> HIDE DEF m, h
<1>3. Selects(StartPsid(t, init, track, h, m).machine, t.ntsc)
  BY <1>2 DEF StartPsid, Selects
<1>4. Selects(StartRsid(t, init, track, h, m).machine, t.ntsc)
  BY <1>2 DEF StartRsid, Selects
<1>5. QED BY <1>3, <1>4 DEF Startup, m, h

LEMMA InitInv == ASSUME Init PROVE PlayerInv
<1>1. audio \in AudioType /\ audio.rate <= 48000 BY DEF Init, NoAudio, AudioType
<1>2. "ntsc" \in DOMAIN machine /\ "ntsc" \in DOMAIN song BY DEF Init, FirstSong
<1>3. QED BY <1>1, <1>2 DEF Init, PlayerInv, LoadInv, PlayInv

(* Every load leaves a video standard, as far as it comes.                  *)
LEMMA SidStandard ==
  ASSUME NEW f, NEW given, NEW s, NEW r, NEW blend, "ntsc" \in DOMAIN s
  PROVE LET t == LoadSid(f, given, s, r, blend).song
        IN "ntsc" \in DOMAIN t /\ t.ntsc \in BOOLEAN
<1> DEFINE h == Header(s, f)
           found == Addresses(h, f)
           placed == Place(found, f)
           started == Started(placed, f, given)
           Kept(t) == "ntsc" \in DOMAIN t /\ t.ntsc \in BOOLEAN
<1>1. Kept(h) BY DEF Header, InitSong
<1> HIDE DEF h
<1>2. Kept(found) BY <1>1 DEF Addresses
<1> HIDE DEF found
<1>3. Kept(placed) BY <1>2 DEF Place
<1> HIDE DEF placed
<1>4. Kept(started) BY <1>3 DEF Started
<1> HIDE DEF started
<1> DEFINE l == LoadSid(f, given, s, r, blend)
<1>5. l.song \in {found, placed, started} BY DEF LoadSid, h, found, placed, started
<1> HIDE DEF l
<1>6. Kept(l.song) BY <1>2, <1>3, <1>4, <1>5
<1>7. QED BY <1>6 DEF l

LEMMA MusStandard ==
  ASSUME NEW f, NEW given, NEW s, NEW r, NEW blend, "ntsc" \in DOMAIN s
  PROVE LET t == LoadMus(f, given, s, r, blend).song
        IN "ntsc" \in DOMAIN t /\ t.ntsc \in BOOLEAN
<1> DEFINE i == InitSong(s)
           h == MusHeader(i)
<1>0. "ntsc" \in DOMAIN i BY DEF InitSong
<1> HIDE DEF i
<1>1. "ntsc" \in DOMAIN h /\ h.ntsc = TRUE
  <2> DEFINE h1 == [i EXCEPT !.version = 2, !.rsid = TRUE, !.ntsc = TRUE]
             h2 == [h1 EXCEPT !.compat = TRUE, !.basic = FALSE, !.load = \h17B0]
  <2>1. h = [h2 EXCEPT !.end = \h9FFF, !.init = \h17B0, !.play = \h1A07] BY DEF MusHeader
  <2> HIDE DEF h
  <2>2. "ntsc" \in DOMAIN h1 /\ h1.ntsc = TRUE BY <1>0
  <2> HIDE DEF h1
  <2>3. "ntsc" \in DOMAIN h2 /\ h2.ntsc = TRUE BY <2>2
  <2> HIDE DEF h2
  <2>4. QED BY <2>1, <2>3
<1> HIDE DEF h
<1>2. LoadMus(f, given, s, r, blend).song = h BY DEF LoadMus, h, i
<1>3. QED BY <1>1, <1>2

LEMMA LoadStandard ==
  ASSUME NEW f, NEW given, NEW s, NEW r, NEW blend, "ntsc" \in DOMAIN s
  PROVE LET t == Load(f, given, s, r, blend).song
        IN "ntsc" \in DOMAIN t /\ t.ntsc \in BOOLEAN
  BY SidStandard, MusStandard DEF Load

LEMMA LoadKeeps ==
  ASSUME PlayerInv, AudioAssumption, NEW f, NEW rate \in caller.rates, NEW given,
         LoadSidFile(f, rate, given)
  PROVE PlayerInv'
<1> DEFINE u == [audio EXCEPT !.rate = Limited(rate)]
<1>1. Limited(rate) \in Nat /\ Limited(rate) >= 60 /\ Limited(rate) <= 48000
  BY DEF AudioAssumption, Limited, PlayerInv, LoadInv
<1>2. u \in AudioType /\ u.rate = Limited(rate)
  BY <1>1 DEF PlayerInv, LoadInv, AudioType
<1>3. ~ ready' /\ caller' = caller BY DEF LoadSidFile
<1>4. LoadInv'
  <2>1. CASE Refuse(f, rate)
    <3>1. result' = 1 /\ audio' = u /\ machine' = machine /\ song' = song
      BY <2>1 DEF Refuse, statics
    <3>2. QED BY <1>1, <1>2, <1>3, <3>1 DEF PlayerInv, LoadInv
  <2>2. CASE Accept(f, rate, given)
    <3> DEFINE l == Load(f, given, song, roms, mixed)
               m == IF l.reset THEN KernalResetMachine ELSE machine
    <3>1. "ntsc" \in DOMAIN l.song /\ l.song.ntsc \in BOOLEAN
      BY LoadStandard DEF PlayerInv, LoadInv
    <3>2. "ntsc" \in DOMAIN m
      BY DEF PlayerInv, LoadInv, KernalResetMachine, ResetMachine
    <3> HIDE DEF l, m
    <3>3. /\ loader' # "none" /\ result' = l.result /\ song' = l.song
          /\ IF l.result = 0
             THEN /\ machine' = [m EXCEPT !.ntsc = l.song.ntsc]
                  /\ audio' = ResetAudioBuffers(u, l.song.ntsc)
             ELSE machine' = m /\ audio' = u
      BY <2>2 DEF Accept, l, m
    <3> HIDE DEF u
    <3>4. CASE l.result = 0
      <4>1. audio' \in AudioType /\ audio'.rate = u.rate
        BY <1>1, <1>2, <3>1, <3>3, <3>4, ResetSizes
      <4>2. "ntsc" \in DOMAIN machine' BY <3>2, <3>3, <3>4
      <4>3. QED BY <1>1, <1>2, <1>3, <3>1, <3>3, <4>1, <4>2 DEF PlayerInv, LoadInv
    <3>5. CASE l.result # 0
      BY <1>1, <1>2, <1>3, <3>1, <3>2, <3>3, <3>5 DEF PlayerInv, LoadInv
    <3>6. QED BY <3>4, <3>5
  <2>3. QED BY <2>1, <2>2 DEF LoadSidFile
<1>5. QED BY <1>3, <1>4 DEF PlayerInv, PlayInv

LEMMA PlayKeeps ==
  ASSUME PlayerInv, AudioAssumption, NEW track, NEW trace \in caller.traces,
         NEW proc \in caller.bufs, PlayTune(track, trace, proc)
  PROVE PlayerInv'
<1> DEFINE selected == ValidatedTrack(song, song.selected, track)
           s == Startup(song, song.init, selected, snapshot, ram)
           u == [audio EXCEPT !.trace = trace, !.proc = proc]
           w == ResetAudioBuffers(u, song.ntsc)
<1>1. /\ result = 0 /\ UNCHANGED <<caller, result, loader>>
      /\ song' = [song EXCEPT !.selected = selected, !.init = s.init]
      /\ machine' = s.machine /\ regs' = NoRegs
      /\ audio' = ConfigurePseudoStereo(w)
  BY DEF PlayTune
<1>2. /\ caller \in Callers /\ loader # "none"
      /\ audio \in AudioType /\ audio.rate >= 60 /\ audio.rate <= 48000
      /\ "ntsc" \in DOMAIN song /\ song.ntsc \in BOOLEAN
  BY <1>1 DEF PlayerInv, LoadInv
<1>3. proc \in Nat /\ proc # 0 /\ trace \in BOOLEAN BY <1>2 DEF AudioAssumption
<1>4. u \in AudioType /\ u.rate = audio.rate /\ u.proc = proc
  <2> DEFINE v == [audio EXCEPT !.trace = trace]
  <2>1. v \in AudioType /\ v.rate = audio.rate BY <1>2, <1>3 DEF AudioType
  <2>2. u = [v EXCEPT !.proc = proc] OBVIOUS
  <2> HIDE DEF u, v
  <2>3. QED BY <1>3, <2>1, <2>2 DEF AudioType
<1>5. Selects(machine', song.ntsc) BY <1>1, StartupSelects
<1> HIDE DEF s, selected, u
<1>6. w \in AudioType /\ w.rate = audio.rate /\ w.proc = proc /\ Sized(w, song.ntsc)
  BY <1>2, <1>3, <1>4, ResetSizes
<1> HIDE DEF w
<1>7. /\ audio' \in AudioType /\ audio'.rate = audio.rate /\ audio'.proc = proc
      /\ Sized(audio', song.ntsc)
  BY <1>1, <1>2, <1>6, StereoKeeps
<1>8. song'.ntsc = song.ntsc /\ "ntsc" \in DOMAIN song' BY <1>1, <1>2
<1>9. LoadInv' BY <1>1, <1>2, <1>5, <1>7, <1>8 DEF LoadInv, Selects
<1>10. PlayInv' BY <1>2, <1>3, <1>5, <1>7 DEF PlayInv
<1>11. RegsInv(regs', audio')
  <2>1. audio'.chunk \in Nat /\ audio'.perBuffer \in Nat /\ audio'.proc \in Nat
    BY <1>7 DEF AudioType
  <2>2. regs'.pos = 0 /\ ~ regs'.second /\ regs'.second \in BOOLEAN /\ regs'.count = 0
    BY <1>1 DEF NoRegs
  <2>3. Half(regs', audio') = 0 BY <2>2 DEF Half
  <2>4. QED BY <2>1, <2>2, <2>3 DEF RegsInv
<1>12. QED BY <1>9, <1>10, <1>11 DEF PlayerInv

LEMMA ComputeKeeps ==
  ASSUME PlayerInv, ComputeAudioSamples
  PROVE PlayerInv'
<1>1. /\ ready /\ UNCHANGED <<caller, loader, result, ready, song, audio>>
      /\ machine' = [machine EXCEPT !.pc = 0]
      /\ regs' = RecordSnapshot(regs, audio)
  BY DEF ComputeAudioSamples, statics
<1>2. LoadInv' BY <1>1 DEF PlayerInv, LoadInv
<1>3. PICK ntsc \in BOOLEAN : Selects(machine, ntsc) /\ Sized(audio, ntsc) /\ audio.proc # 0
  BY <1>1 DEF PlayerInv, PlayInv
<1>4. Selects(machine', ntsc) BY <1>1, <1>3 DEF Selects
<1>5. PlayInv' BY <1>1, <1>3, <1>4 DEF PlayInv, Sized
<1>6. audio.chunk # 0
  <2>1. audio.rate \in Nat /\ audio.rate >= 60 /\ audio.rate <= 48000
    BY <1>1 DEF PlayerInv, LoadInv, AudioType
  <2>2. QED BY <1>3, <2>1, ChunkFits DEF Sized
<1>7. RegsInv(regs', audio')
  <2>1. RegsInv(regs, audio) /\ audio \in AudioType BY <1>1 DEF PlayerInv, LoadInv
  <2>2. RegsInv(RecordSnapshot(regs, audio), audio) BY <1>6, <2>1, RecordKeeps
  <2>3. QED BY <1>1, <2>2
<1>8. QED BY <1>2, <1>5, <1>7 DEF PlayerInv

LEMMA StandardKeeps ==
  ASSUME PlayerInv, NEW ntsc \in BOOLEAN, EnvSetNTSC(ntsc)
  PROVE PlayerInv'
<1>1. /\ result = 0 /\ UNCHANGED <<caller, loader, result, ready, song>>
      /\ machine' = [machine EXCEPT !.ntsc = ntsc] /\ regs' = NoRegs
      /\ audio' = ResetAudioBuffers(audio, ntsc)
  BY DEF EnvSetNTSC, statics
<1>2. /\ caller \in Callers /\ loader # "none"
      /\ audio \in AudioType /\ audio.rate >= 60 /\ audio.rate <= 48000
      /\ "ntsc" \in DOMAIN machine /\ "ntsc" \in DOMAIN song /\ song.ntsc \in BOOLEAN
  BY <1>1 DEF PlayerInv, LoadInv
<1>3. Selects(machine', ntsc) BY <1>1, <1>2 DEF Selects
<1>4. /\ audio' \in AudioType /\ audio'.rate = audio.rate /\ audio'.proc = audio.proc
      /\ audio.proc # 0 => Sized(audio', ntsc)
  BY <1>1, <1>2, ResetSizes
<1>5. LoadInv' BY <1>1, <1>2, <1>3, <1>4 DEF LoadInv, Selects
<1>6. ready => audio.proc # 0 BY DEF PlayerInv, PlayInv
<1>7. PlayInv' BY <1>1, <1>3, <1>4, <1>6 DEF PlayInv
<1>8. ready => RegsInv(regs', audio')
  <2>1. SUFFICES ASSUME ready PROVE RegsInv(regs', audio') OBVIOUS
  <2>2. audio'.chunk \in Nat /\ audio'.proc \in Nat BY <1>4 DEF AudioType
  <2>3. regs'.pos = 0 /\ ~ regs'.second /\ regs'.second \in BOOLEAN /\ regs'.count = 0
    BY <1>1 DEF NoRegs
  <2>4. Half(regs', audio') = 0 BY <2>3 DEF Half
  <2>5. QED BY <2>2, <2>3, <2>4 DEF RegsInv
<1>9. QED BY <1>1, <1>5, <1>7, <1>8 DEF PlayerInv

LEMMA LevelKeeps ==
  ASSUME PlayerInv, AudioAssumption, NEW level \in caller.levels, SetStereoLevel(level)
  PROVE PlayerInv'
<1> DEFINE u == [audio EXCEPT !.level = level]
<1>1. /\ UNCHANGED <<caller, loader, result, ready, song, machine, regs>>
      /\ audio' = ConfigurePseudoStereo(u)
  BY DEF SetStereoLevel, statics
<1>2. audio \in AudioType /\ caller \in Callers BY DEF PlayerInv, LoadInv
<1>3. /\ u \in AudioType /\ u.rate = audio.rate /\ u.proc = audio.proc
      /\ u.chunk = audio.chunk /\ u.perBuffer = audio.perBuffer
      /\ \A ntsc \in BOOLEAN : Sized(audio, ntsc) => Sized(u, ntsc)
  BY <1>2 DEF AudioAssumption, AudioType, Sized
<1> HIDE DEF u
<1>4. /\ audio' \in AudioType /\ audio'.rate = audio.rate /\ audio'.proc = audio.proc
      /\ audio'.chunk = audio.chunk /\ audio'.perBuffer = audio.perBuffer
      /\ \A ntsc \in BOOLEAN : Sized(audio, ntsc) => Sized(audio', ntsc)
  BY <1>1, <1>3, StereoKeeps
<1>5. LoadInv' BY <1>1, <1>4 DEF PlayerInv, LoadInv
<1>6. PlayInv' BY <1>1, <1>4 DEF PlayerInv, PlayInv
<1>7. ready => RegsInv(regs', audio')
  BY <1>1, <1>4 DEF PlayerInv, RegsInv, Half
<1>8. QED BY <1>1, <1>5, <1>6, <1>7 DEF PlayerInv

LEMMA StepInv == ASSUME PlayerInv, AudioAssumption, [Next]_vars PROVE PlayerInv'
<1>1. ASSUME NEW f \in caller.files, NEW rate \in caller.rates, NEW given \in caller.roms,
             LoadSidFile(f, rate, given)
      PROVE PlayerInv'
  BY <1>1, LoadKeeps
<1>2. ASSUME NEW track \in 0..2, NEW trace \in caller.traces, NEW proc \in caller.bufs,
             PlayTune(track, trace, proc)
      PROVE PlayerInv'
  BY <1>2, PlayKeeps
<1>3. CASE ComputeAudioSamples BY <1>3, ComputeKeeps
<1>4. ASSUME NEW ntsc \in BOOLEAN, EnvSetNTSC(ntsc) PROVE PlayerInv' BY <1>4, StandardKeeps
<1>5. ASSUME NEW level \in caller.levels, SetStereoLevel(level) PROVE PlayerInv'
  BY <1>5, LevelKeeps
<1>6. CASE UNCHANGED vars
  BY <1>6 DEF vars, statics, PlayerInv, LoadInv, PlayInv, Selects, Sized, RegsInv, Half
<1>7. CASE Hung BY <1>6, <1>7 DEF Hung
<1>8. QED BY <1>1, <1>2, <1>3, <1>4, <1>5, <1>6, <1>7 DEF Next

LEMMA Invariance == Spec => []PlayerInv
<1>1. Init => PlayerInv BY InitInv
<1>2. PlayerInv /\ [Next]_vars => PlayerInv' BY StepInv, AudioAssumption
<1>3. QED BY <1>1, <1>2, PTL DEF Spec

-----------------------------------------------------------------------------
\* Whatever is loaded, started and changed in whatever order, at every call for
\* audio all buffers have the size of the chunk that is about to be rendered.
THEOREM EveryBufferFits == Spec => []BuffersFit
<1>1. PlayerInv => BuffersFit
  <2>1. SUFFICES ASSUME PlayerInv, ready PROVE BuffersFit BY DEF BuffersFit
  <2>2. /\ loader # "none" /\ audio \in AudioType /\ audio.rate >= 60 /\ audio.rate <= 48000
    BY <2>1 DEF PlayerInv, LoadInv
  <2>3. PICK ntsc \in BOOLEAN : Selects(machine, ntsc) /\ Sized(audio, ntsc)
    BY <2>1 DEF PlayerInv, PlayInv
  <2>4. audio.rate \in Nat /\ audio.trace \in BOOLEAN BY <2>2 DEF AudioType
  <2>5. audio.chunk # 0 /\ audio.chunk <= 1920
    BY <2>2, <2>3, <2>4, ChunkFits DEF Sized
  <2>6. audio.chunk = ChunkSize(audio.rate, machine.ntsc) BY <2>3 DEF Sized, Selects
  <2>7. audio.trace <=> audio.traces = audio.chunk BY <2>3, <2>4, <2>5 DEF Sized
  <2>8. QED BY <2>2, <2>3, <2>5, <2>6, <2>7 DEF BuffersFit, Sized
<1>2. QED BY <1>1, Invariance, PTL

\* A snapshot of the registers is never recorded outside its half of the double
\* buffer, for all chunk sizes, also those beyond the caller's buffer.
THEOREM RecordedInside == Spec => []SnapshotsInside
<1>1. PlayerInv => SnapshotsInside
  <2>1. SUFFICES ASSUME PlayerInv, ready PROVE SnapshotsInside BY DEF SnapshotsInside
  <2> DEFINE h == Half(regs, audio)
             j == regs.pos - h
             per == audio.perBuffer
  <2>2. /\ audio \in AudioType /\ audio.rate >= 60 /\ audio.rate <= 48000 /\ audio.proc # 0
    BY <2>1 DEF PlayerInv, LoadInv, PlayInv
  <2>3. PICK ntsc \in BOOLEAN : Sized(audio, ntsc) BY <2>1 DEF PlayerInv, PlayInv
  <2>4. /\ audio.rate \in Nat /\ audio.proc \in Nat \ {0} /\ audio.chunk \in Nat
        /\ per \in Nat /\ audio.snapshots \in Nat
    BY <2>2 DEF AudioType
  <2>5. audio.chunk # 0 BY <2>2, <2>3, <2>4, ChunkFits DEF Sized
  <2>6. per # 0 /\ audio.proc <= audio.chunk * per
    BY <2>3, <2>4, <2>5, CeilDivCovers DEF Sized
  <2>7. /\ j \in Nat /\ regs.pos \in Nat /\ regs.count \in Nat
        /\ audio.chunk * j <= regs.count /\ (regs.count < audio.proc \/ regs.pos = h)
        /\ h \in Nat /\ h <= per
    BY <2>1, <2>4 DEF PlayerInv, RegsInv, Half
  <2> HIDE DEF per
  <2>8. j < per
    <3>1. CASE regs.pos = h BY <2>4, <2>6, <2>7, <3>1
    <3>2. CASE regs.count < audio.proc
      <4> HIDE DEF j
      <4>1. audio.chunk * j \in Int /\ audio.chunk * per \in Int BY <2>4, <2>7
      <4>2. audio.chunk * j < audio.chunk * per BY <2>4, <2>6, <2>7, <3>2, <4>1
      <4>3. QED BY <2>4, <2>5, <2>7, <4>2, PlaceInHalf
    <3>3. QED BY <2>7, <3>1, <3>2
  <2>9. audio.snapshots >= per BY <2>3 DEF Sized, per
  <2>10. h <= regs.pos /\ regs.pos < h + per /\ regs.pos < 2 * audio.snapshots
    BY <2>4, <2>7, <2>8, <2>9
  <2>11. QED BY <2>10 DEF SnapshotsInside, Half, per
<1>2. QED BY <1>1, Invariance, PTL

-----------------------------------------------------------------------------
(* Every start of a sub-tune finds what the first load of the file leaves. *)

SongFields == {"version", "rsid", "ntsc", "compat", "basic", "free", "load", "end", "init", "play",
               "selected", "tracks", "speed"}
IsSong(s) == DOMAIN s = SongFields /\ s = [k \in SongFields |-> s[k]]

(* Two songs of which the fields K are the same.                            *)
Agree(s, t, K) == IsSong(s) /\ IsSong(t) /\ \A k \in K : s[k] = t[k]

With(s, k, v) == [s EXCEPT ![k] = v]

LEMMA WithAgrees ==
  ASSUME NEW s, NEW t, NEW K, K \subseteq SongFields, Agree(s, t, K), NEW k \in SongFields, NEW v
  PROVE K \cup {k} \subseteq SongFields /\ Agree(With(s, k, v), With(t, k, v), K \cup {k})
<1>1. IsSong(With(s, k, v)) /\ IsSong(With(t, k, v)) BY Zenon DEF Agree, IsSong, With
<1>2. ASSUME NEW j \in K \cup {k} PROVE With(s, k, v)[j] = With(t, k, v)[j]
  BY Zenon DEF Agree, IsSong, With
<1>3. QED BY <1>1, <1>2 DEF Agree

LEMMA AgreeAll ==
  ASSUME NEW s, NEW t, NEW K, SongFields \subseteq K, Agree(s, t, K)
  PROVE s = t
  BY Zenon DEF Agree, IsSong

LEMMA FirstIsSong == IsSong(FirstSong)
  BY DEF IsSong, FirstSong, SongFields

LEMMA InitSongAgrees ==
  ASSUME NEW s, NEW t, NEW K, K \subseteq SongFields, Agree(s, t, K)
  PROVE Agree(InitSong(s), InitSong(t), K \cup {"init", "play", "end", "selected", "tracks", "speed"})
<1> DEFINE A(x) == With(With(x, "init", 0), "play", 0)
           B(x) == With(With(x, "end", 0), "selected", 0)
           C(x) == With(With(x, "tracks", 0), "speed", {})
           K2 == K \cup {"init"} \cup {"play"}
           K4 == K2 \cup {"end"} \cup {"selected"}
           K6 == K4 \cup {"tracks"} \cup {"speed"}
<1>1. InitSong(s) = C(B(A(s))) /\ InitSong(t) = C(B(A(t))) BY DEF InitSong, With
<1>2. \A x \in {"init", "play", "end", "selected", "tracks", "speed"} : x \in SongFields
  BY DEF SongFields
<1>3. K2 \subseteq SongFields /\ Agree(A(s), A(t), K2) BY <1>2, WithAgrees
<1> HIDE DEF A, K2
<1>4. K4 \subseteq SongFields /\ Agree(B(A(s)), B(A(t)), K4) BY <1>2, <1>3, WithAgrees
<1> HIDE DEF B, K4
<1>5. Agree(C(B(A(s))), C(B(A(t))), K6) BY <1>2, <1>4, WithAgrees
<1>6. K6 = K \cup {"init", "play", "end", "selected", "tracks", "speed"} BY DEF K2, K4
<1>7. QED BY <1>1, <1>5, <1>6

HeaderFields == {"version", "rsid", "ntsc", "compat", "basic"}

LEMMA HeaderAgrees ==
  ASSUME NEW s, NEW t, IsSong(s), IsSong(t), NEW f
  PROVE Agree(Header(s, f), Header(t, f),
              HeaderFields \cup {"init", "play", "end", "selected", "tracks", "speed"})
<1> DEFINE flags == IF f.version > 1 THEN f.flags ELSE {}
           ntsc == f.version >= 2 /\ 3 \in flags
           compat == (f.version \div 2) % 2 = 1 /\ 1 \notin flags
           A(x) == With(With(x, "version", f.version), "rsid", f.magic # "P")
           B(x) == With(With(x, "ntsc", ntsc), "compat", compat)
           C(x) == With(x, "basic", f.magic # "P" /\ 1 \in flags)
           K == {"init", "play", "end", "selected", "tracks", "speed"}
           K2 == K \cup {"version"} \cup {"rsid"}
           K4 == K2 \cup {"ntsc"} \cup {"compat"}
<1>1. \A x : Header(x, f) = C(B(A(InitSong(x)))) BY DEF Header, With
<1>2. \A x \in HeaderFields \cup K : x \in SongFields BY DEF SongFields, HeaderFields
<1>3. Agree(InitSong(s), InitSong(t), K)
  <2>1. Agree(s, t, {}) BY DEF Agree
  <2>2. QED BY <2>1, InitSongAgrees
<1> HIDE DEF flags, ntsc, compat
<1>4. K2 \subseteq SongFields /\ Agree(A(InitSong(s)), A(InitSong(t)), K2)
  BY <1>2, <1>3, WithAgrees DEF HeaderFields
<1> HIDE DEF A, K2
<1>5. K4 \subseteq SongFields /\ Agree(B(A(InitSong(s))), B(A(InitSong(t))), K4)
  BY <1>2, <1>4, WithAgrees DEF HeaderFields
<1> HIDE DEF B, K4
<1>6. Agree(C(B(A(InitSong(s)))), C(B(A(InitSong(t)))), K4 \cup {"basic"})
  BY <1>2, <1>5, WithAgrees DEF HeaderFields
<1>7. K4 \cup {"basic"} = HeaderFields \cup K BY DEF K2, K4, HeaderFields
<1>8. QED BY <1>1, <1>6, <1>7

LEMMA AddressesAgree ==
  ASSUME NEW s, NEW t, Agree(s, t, HeaderFields), NEW f
  PROVE Agree(Addresses(s, f), Addresses(t, f), SongFields \ {"free"})
<1> DEFINE A(x) == With(With(x, "load", LoadAddr(f)), "init", OrElse(f.init, LoadAddr(f)))
           B(x) == With(With(x, "play", f.play), "tracks", Tracks(f))
           C(x) == With(With(x, "selected", StartTrack(f)), "speed", f.speed)
           D(x) == With(x, "end", Word16(LoadAddr(f) + Size(f)))
           K2 == HeaderFields \cup {"load"} \cup {"init"}
           K4 == K2 \cup {"play"} \cup {"tracks"}
           K6 == K4 \cup {"selected"} \cup {"speed"}
<1>1. \A x : Addresses(x, f) = D(C(B(A(x)))) BY DEF Addresses, With
<1>2. \A x \in {"load", "init", "play", "tracks", "selected", "speed", "end"} : x \in SongFields
  BY DEF SongFields
<1>3. HeaderFields \subseteq SongFields BY DEF SongFields, HeaderFields
<1>4. K2 \subseteq SongFields /\ Agree(A(s), A(t), K2) BY <1>2, <1>3, WithAgrees
<1> HIDE DEF A, K2
<1>5. K4 \subseteq SongFields /\ Agree(B(A(s)), B(A(t)), K4) BY <1>2, <1>4, WithAgrees
<1> HIDE DEF B, K4
<1>6. K6 \subseteq SongFields /\ Agree(C(B(A(s))), C(B(A(t))), K6) BY <1>2, <1>5, WithAgrees
<1> HIDE DEF C, K6
<1>7. Agree(D(C(B(A(s)))), D(C(B(A(t)))), K6 \cup {"end"}) BY <1>2, <1>6, WithAgrees
<1>8. K6 \cup {"end"} = SongFields \ {"free"} BY DEF K2, K4, K6, SongFields, HeaderFields
<1>9. QED BY <1>1, <1>7, <1>8

(* A load overwrites every field, before it looks at where it begins.       *)
LEMMA PlaceEqual ==
  ASSUME NEW s, NEW t, IsSong(s), IsSong(t), NEW f
  PROVE LET found(x) == Addresses(Header(x, f), f)
        IN /\ IsSong(found(s))
           /\ Place(found(s), f) = Place(found(t), f)
           /\ IsSong(Place(found(s), f))
<1> DEFINE found(x) == Addresses(Header(x, f), f)
           free == FreeSpace(LoadAddr(f), Size(f), f.page)
<1>1. Agree(Header(s, f), Header(t, f), HeaderFields) BY HeaderAgrees DEF Agree
<1>2. Agree(found(s), found(t), SongFields \ {"free"}) BY <1>1, AddressesAgree
<1>3. \A x : Place(x, f) = With(x, "free", free) BY DEF Place, With
<1> HIDE DEF found, free
<1>4. "free" \in SongFields /\ SongFields \ {"free"} \subseteq SongFields BY DEF SongFields
<1>5. Agree(Place(found(s), f), Place(found(t), f), (SongFields \ {"free"}) \cup {"free"})
  BY <1>2, <1>3, <1>4, WithAgrees
<1>6. Place(found(s), f) = Place(found(t), f) BY <1>5, AgreeAll
<1>7. QED BY <1>2, <1>5, <1>6 DEF Agree, found

LEMMA StartedIsSong ==
  ASSUME NEW s, IsSong(s), NEW f, NEW given
  PROVE IsSong(Started(s, f, given))
<1>1. Agree(s, s, {}) BY DEF Agree
<1>2. "init" \in SongFields BY DEF SongFields
<1>3. IsSong(With(s, "init", BasicEntry(s, f, given))) BY <1>1, <1>2, WithAgrees DEF Agree
<1>4. QED BY <1>3 DEF Started, With

LEMMA WithIsSong ==
  ASSUME NEW s, IsSong(s), NEW k \in SongFields, NEW v
  PROVE IsSong(With(s, k, v))
<1>1. Agree(s, s, {}) BY DEF Agree
<1>2. QED BY <1>1, WithAgrees DEF Agree

LEMMA ThreeWithIsSong ==
  ASSUME NEW s, IsSong(s), NEW k \in SongFields, NEW v, NEW k2 \in SongFields, NEW v2,
         NEW k3 \in SongFields, NEW v3
  PROVE IsSong([s EXCEPT ![k] = v, ![k2] = v2, ![k3] = v3])
<1>1. [s EXCEPT ![k] = v, ![k2] = v2, ![k3] = v3] = With(With(With(s, k, v), k2, v2), k3, v3)
  BY Zenon DEF With
<1>2. IsSong(With(With(With(s, k, v), k2, v2), k3, v3)) BY Zenon, WithIsSong
<1>3. QED BY <1>1, <1>2

LEMMA MusIsSong ==
  ASSUME NEW s, IsSong(s)
  PROVE IsSong(MusHeader(InitSong(s)))
<1> DEFINE i == InitSong(s)
           load == \h17B0
           end == \h9FFF
           play == \h1A07
           h1 == [i EXCEPT !.version = 2, !.rsid = TRUE, !.ntsc = TRUE]
           h2 == [h1 EXCEPT !.compat = TRUE, !.basic = FALSE, !.load = load]
           h3 == [h2 EXCEPT !.end = end, !.init = load, !.play = play]
<1>1. IsSong(i)
  <2>1. Agree(s, s, {}) BY DEF Agree
  <2>2. QED BY <2>1, InitSongAgrees DEF Agree
<1> HIDE DEF i
<1>2. MusHeader(i) = h3 BY DEF MusHeader
<1> HIDE DEF load, end, play
<1>3. /\ "version" \in SongFields /\ "rsid" \in SongFields /\ "ntsc" \in SongFields
      /\ "compat" \in SongFields /\ "basic" \in SongFields /\ "load" \in SongFields
      /\ "end" \in SongFields /\ "init" \in SongFields /\ "play" \in SongFields
  BY DEF SongFields
<1>4. IsSong(h1) BY Zenon, <1>1, <1>3, ThreeWithIsSong
<1> HIDE DEF h1
<1>5. IsSong(h2) BY Zenon, <1>3, <1>4, ThreeWithIsSong
<1> HIDE DEF h2
<1>6. IsSong(h3) BY Zenon, <1>3, <1>5, ThreeWithIsSong
<1>7. QED BY <1>2, <1>6 DEF i
(* The result of a load of a .sid file, as far as a start depends on it,    *)
(* whatever was loaded before.                                              *)
LEMMA SidLoadsAlike ==
  ASSUME NEW f, NEW given, NEW s, IsSong(s), NEW r, NEW blend
  PROVE LET l == LoadSid(f, given, s, r, blend)
            first == LoadSid(f, given, FirstSong, FirstRoms, <<>>)
        IN /\ IsSong(l.song)
           /\ l.result = 0 => /\ l.saved /\ l.song = first.song /\ l.ram = first.ram
                              /\ l.roms.kernal = first.roms.kernal
                              /\ l.roms.basic = first.roms.basic
<1> DEFINE H(x) == Header(x, f)
           P(x) == Place(Addresses(H(x), f), f)
           Roms(x, q) ==
             [kernal |-> ResetROM("kernal", given), basic |-> ResetROM("basic", given),
              char |-> IF H(x).rsid THEN ResetCharROM(q.char, given) ELSE q.char]
           Filled(x) ==
             LET cleared == ResetRAM(H(x).ntsc, ~ H(x).rsid, ResetROM("kernal", given))
                 banked == IF "basic" \in given THEN [cleared EXCEPT !.bank = \h37] ELSE cleared
                 reset == IF HasRoms(given) THEN KernalResetRam(banked) ELSE banked
             IN LoadSongBinary(reset, f.code, Size(f), H(x).basic /\ HasRoms(given))
           L(x, q, b) == LoadSid(f, given, x, q, b)
<1>1. Agree(H(s), H(FirstSong), HeaderFields) BY HeaderAgrees, FirstIsSong DEF Agree
<1>2. P(s) = P(FirstSong) /\ IsSong(P(s)) /\ IsSong(Addresses(H(s), f))
  BY PlaceEqual, FirstIsSong
<1>3. H(s).ntsc = H(FirstSong).ntsc /\ H(s).rsid = H(FirstSong).rsid /\ H(s).basic = H(FirstSong).basic
  BY <1>1 DEF Agree, HeaderFields
<1>4. Filled(s) = Filled(FirstSong) BY <1>3
<1>5. \A x, q, b :
        /\ L(x, q, b).result = 0 =>
             /\ L(x, q, b).saved /\ LegalSize(f) /\ P(x).load # 0
             /\ L(x, q, b).song = Started(P(x), f, given)
             /\ L(x, q, b).ram = Filled(x)
             /\ L(x, q, b).roms = Roms(x, q)
        /\ LegalSize(f) /\ P(x).load # 0 => L(x, q, b).result = 0
        /\ L(x, q, b).song \in {Addresses(H(x), f), P(x), Started(P(x), f, given)}
  BY DEF LoadSid
<1>6. \A x, q : Roms(x, q).kernal = ResetROM("kernal", given)
                /\ Roms(x, q).basic = ResetROM("basic", given)
  OBVIOUS
<1> HIDE DEF H, P, Roms, Filled, L
<1>7. L(s, r, blend).result = 0 => L(FirstSong, FirstRoms, <<>>).result = 0 BY <1>2, <1>5
<1>8. IsSong(L(s, r, blend).song) BY <1>2, <1>5, StartedIsSong
<1>9. L(s, r, blend).result = 0 =>
        /\ L(s, r, blend).saved
        /\ L(s, r, blend).song = L(FirstSong, FirstRoms, <<>>).song
        /\ L(s, r, blend).ram = L(FirstSong, FirstRoms, <<>>).ram
        /\ L(s, r, blend).roms.kernal = L(FirstSong, FirstRoms, <<>>).roms.kernal
        /\ L(s, r, blend).roms.basic = L(FirstSong, FirstRoms, <<>>).roms.basic
  BY <1>2, <1>4, <1>5, <1>6, <1>7
<1>10. QED BY <1>8, <1>9 DEF L

(* A start takes no notice of the selection of the file, nor of the memory. *)
LEMMA StartupAlike ==
  ASSUME NEW s, NEW t, Agree(s, t, SongFields \ {"selected", "init"}),
         NEW init, NEW track, NEW snap, NEW r, NEW r2
  PROVE Startup(s, init, track, snap, r) = Startup(t, init, track, snap, r2)
<1>1. /\ s.rsid = t.rsid /\ s.ntsc = t.ntsc /\ s.end = t.end /\ s.play = t.play
      /\ s.free = t.free /\ s.basic = t.basic /\ s.speed = t.speed
  BY DEF Agree, SongFields
<1> DEFINE hacked == HackRam(init, Restored(snap, r))
           m == HackMachine(Restored(snap, r).code, init, ResetMachine(s))
<1>2. m = HackMachine(Restored(snap, r2).code, init, ResetMachine(t))
  BY <1>1 DEF Restored, ResetMachine
<1>3. hacked = HackRam(init, Restored(snap, r2)) BY DEF Restored
<1> HIDE DEF hacked, m
<1>4. StartPsid(s, init, track, hacked, m) = StartPsid(t, init, track, hacked, m)
  <2>1. TimerDriven(s, track) = TimerDriven(t, track) BY <1>1 DEF TimerDriven
  <2>2. QED BY <1>1, <2>1 DEF StartPsid
<1>5. StartRsid(s, init, track, hacked, m) = StartRsid(t, init, track, hacked, m)
  BY <1>1 DEF StartRsid
<1>6. QED BY <1>1, <1>2, <1>3, <1>4, <1>5 DEF Startup, hacked, m

(* The starter code stays, and the song's init address with it, unless an   *)
(* RSID needs a driver.                                                     *)
Driverless(s) == ~ s.rsid \/ s.basic \/ s.free = 0

LEMMA InitKept ==
  ASSUME NEW s, Driverless(s), NEW init, NEW track, NEW snap, NEW r
  PROVE Startup(s, init, track, snap, r).init = init
  BY DEF Driverless, Startup, StartPsid, StartRsid

(* What a start leaves is a machine in which the chip model is selected.    *)
LEMMA StartedMachine ==
  ASSUME NEW s, NEW init, NEW track, NEW snap, NEW r
  PROVE LET m == Startup(s, init, track, snap, r).machine
        IN [m EXCEPT !.ntsc = m.ntsc] = m
<1> DEFINE IsM(m) == [m EXCEPT !.ntsc = m.ntsc] = m
           hacked == HackRam(init, Restored(snap, r))
           h == HackMachine(Restored(snap, r).code, init, ResetMachine(s))
<1>1. IsM(ResetMachine(s)) BY DEF ResetMachine
<1>2. ASSUME NEW m, IsM(m), NEW a, NEW b, NEW c, NEW d, NEW e
      PROVE /\ IsM([m EXCEPT !.pc = a, !.a = b])
            /\ IsM([m EXCEPT !.stun = a, !.nmi = b])
            /\ IsM([m EXCEPT !.pc = a, !.a = b, !.irq = c])
            /\ IsM([m EXCEPT !.pc = a, !.irq = b, !.cia = c, !.vic = d])
  BY Zenon, <1>2
<1>3. IsM(h) BY Zenon, <1>1, <1>2 DEF HackMachine
<1> HIDE DEF hacked, h, IsM
<1>4. IsM(StartPsid(s, init, track, hacked, h).machine) BY <1>2, <1>3 DEF StartPsid
<1>5. IsM(StartRsid(s, init, track, hacked, h).machine) BY <1>2, <1>3 DEF StartRsid
<1>6. IsM(Startup(s, init, track, snap, r).machine) BY <1>4, <1>5 DEF Startup, hacked, h
<1>7. QED BY <1>6 DEF IsM

(* What is loaded, as an emulator would have it that has loaded nothing     *)
(* else.                                                                    *)
Fresh == FirstLoad(tune[1], tune[2])

(* A .sid file that was loaded, the selection and the entry aside.          *)
FileInv ==
  result = 0 /\ loader = "sid" =>
    /\ Agree(song, Fresh.song, SongFields \ {"selected", "init"})
    /\ snapshot = Fresh.ram
    /\ roms.kernal = Fresh.roms.kernal /\ roms.basic = Fresh.roms.basic
    /\ Driverless(song) => song.init = Fresh.song.init

(* ... and started.                                                         *)
StartInv ==
  ready /\ heard = "new" /\ loader = "sid" /\ Driverless(song) => StartedAs(Fresh)

AlikeInv == IsSong(song) /\ (ready => result = 0) /\ FileInv /\ StartInv

LEMMA AlikeInit == ASSUME Init PROVE AlikeInv
  BY FirstIsSong DEF Init, AlikeInv, FileInv, StartInv

LEMMA LoadAlike ==
  ASSUME AlikeInv, NEW f, f.mus \in BOOLEAN, NEW rate, NEW given, LoadSidFile(f, rate, given)
  PROVE AlikeInv'
<1>1. ~ ready' BY DEF LoadSidFile
<1>2. CASE Refuse(f, rate)
  <2>1. result' = 1 /\ song' = song BY <1>2 DEF Refuse, statics
  <2>2. QED BY <1>1, <2>1 DEF AlikeInv, FileInv, StartInv
<1>3. CASE Accept(f, rate, given)
  <2> DEFINE l == Load(f, given, song, roms, mixed)
  <2>1. /\ result' = l.result /\ song' = l.song /\ roms' = l.roms
        /\ snapshot' = IF l.saved THEN l.ram ELSE snapshot
        /\ l.result = 0 => tune' = <<f, given>>
        /\ loader' = IF f.mus THEN "mus" ELSE "sid"
    BY <1>3 DEF Accept
  <2>2. IsSong(song) BY DEF AlikeInv
  <2>3. CASE f.mus
    <3>1. l.song = MusHeader(InitSong(song)) BY <2>3 DEF Load, LoadMus
    <3>2. IsSong(song') BY <2>1, <2>2, <3>1, MusIsSong
    <3>3. loader' # "sid" BY <2>1, <2>3
    <3>4. QED BY <1>1, <3>2, <3>3 DEF AlikeInv, FileInv, StartInv
  <2>4. CASE ~ f.mus
    <3> DEFINE first == FirstLoad(f, given)
    <3>1. l = LoadSid(f, given, song, roms, mixed) BY <2>4 DEF Load
    <3>2. first = LoadSid(f, given, FirstSong, FirstRoms, <<>>) BY <2>4 DEF Load, FirstLoad
    <3> HIDE DEF l, first
    <3>3. /\ IsSong(l.song)
          /\ l.result = 0 => /\ l.saved /\ l.song = first.song /\ l.ram = first.ram
                             /\ l.roms.kernal = first.roms.kernal
                             /\ l.roms.basic = first.roms.basic
      BY <2>2, <3>1, <3>2, SidLoadsAlike
    <3>4. l.result = 0 => Fresh' = first BY <2>1 DEF Fresh, first
    <3>5. l.result = 0 => Agree(song', Fresh'.song, SongFields \ {"selected", "init"})
      BY <2>1, <3>3, <3>4 DEF Agree
    <3>6. FileInv' BY <2>1, <3>3, <3>4, <3>5 DEF FileInv
    <3>7. QED BY <1>1, <2>1, <3>3, <3>6 DEF AlikeInv, StartInv
  <2>5. QED BY <2>3, <2>4
<1>4. QED BY <1>2, <1>3 DEF LoadSidFile

(* A start from the init address of the file.                               *)
LEMMA PlayFromFile ==
  ASSUME AlikeInv, NEW track, NEW trace, NEW proc, PlayTune(track, trace, proc), loader = "sid",
         song.init = Fresh.song.init
  PROVE StartedAs(Fresh)'
<1> DEFINE selected == ValidatedTrack(song, song.selected, track)
           s == Startup(song, song.init, selected, snapshot, ram)
           fresh == Startup(Fresh.song, Fresh.song.init, selected, Fresh.ram, Fresh.ram)
<1>1. /\ result = 0 /\ UNCHANGED <<tune, roms>>
      /\ song' = [song EXCEPT !.selected = selected, !.init = s.init]
      /\ ram' = s.ram /\ machine' = s.machine
  BY DEF PlayTune
<1>2. /\ Agree(song, Fresh.song, SongFields \ {"selected", "init"})
      /\ snapshot = Fresh.ram
      /\ roms.kernal = Fresh.roms.kernal /\ roms.basic = Fresh.roms.basic
  BY <1>1 DEF AlikeInv, FileInv
<1>3. s = fresh BY <1>2, StartupAlike
<1>4. [fresh.machine EXCEPT !.ntsc = fresh.machine.ntsc] = fresh.machine BY StartedMachine
<1>5. Fresh' = Fresh BY <1>1 DEF Fresh
<1> HIDE DEF s, selected
<1>6. song' = [Fresh.song EXCEPT !.selected = selected, !.init = s.init]
  <2>1. /\ "selected" \in SongFields /\ "init" \in SongFields
        /\ SongFields \ {"selected", "init"} \subseteq SongFields
    BY DEF SongFields
  <2> DEFINE K == SongFields \ {"selected", "init"}
             T(x) == With(With(x, "selected", selected), "init", s.init)
  <2>2. Agree(T(song), T(Fresh.song), K \cup {"selected"} \cup {"init"})
    BY <1>2, <2>1, WithAgrees
  <2>3. SongFields \subseteq K \cup {"selected"} \cup {"init"} OBVIOUS
  <2> HIDE DEF K
  <2>4. T(song) = T(Fresh.song) BY <2>2, <2>3, AgreeAll
  <2>5. QED BY <1>1, <2>4 DEF With
<1>7. song'.selected = selected /\ song'.init = s.init
  BY <1>1 DEF AlikeInv, IsSong, SongFields
<1> DEFINE F == Fresh
<1>8. fresh = Startup(F.song, F.song.init, song'.selected, F.ram, F.ram) BY <1>7
<1> HIDE DEF fresh
<1>9. /\ ram' = fresh.ram /\ machine' = fresh.machine
      /\ song' = [F.song EXCEPT !.selected = song'.selected, !.init = fresh.init]
  BY <1>1, <1>3, <1>6, <1>7
<1>10. roms'.kernal = F.roms.kernal /\ roms'.basic = F.roms.basic BY <1>1, <1>2
<1> HIDE DEF F
<1>11. F = Fresh' BY <1>5 DEF F
<1>12. [machine' EXCEPT !.ntsc = fresh.machine.ntsc] = fresh.machine BY <1>4, <1>9
<1>13. QED BY <1>8, <1>9, <1>10, <1>11, <1>12 DEF StartedAs
LEMMA PlayAlike ==
  ASSUME AlikeInv, NEW track, NEW trace, NEW proc, PlayTune(track, trace, proc)
  PROVE AlikeInv'
<1> DEFINE selected == ValidatedTrack(song, song.selected, track)
           s == Startup(song, song.init, selected, snapshot, ram)
<1>1. /\ result = 0 /\ UNCHANGED <<tune, roms, loader, result, snapshot>>
      /\ song' = [song EXCEPT !.selected = selected, !.init = s.init]
  BY DEF PlayTune
<1>2. "selected" \in SongFields /\ "init" \in SongFields BY DEF SongFields
<1>3. Driverless(song) => s.init = song.init BY InitKept
<1> HIDE DEF selected, s
<1>4. IsSong(song)  BY DEF AlikeInv
<1>5. IsSong(song')
  <2>1. song' = With(With(song, "selected", selected), "init", s.init) BY <1>1 DEF With
  <2>2. QED BY <1>2, <1>4, <2>1, WithIsSong
<1>6. /\ song'.init = s.init
      /\ \A k \in SongFields \ {"selected", "init"} : song'[k] = song[k]
  BY <1>1, <1>4 DEF IsSong, SongFields
<1>7. Driverless(song') <=> Driverless(song) BY <1>6 DEF Driverless, SongFields
<1>8. Fresh' = Fresh BY <1>1 DEF Fresh
<1>9. FileInv'
  <2>1. SUFFICES ASSUME loader = "sid" PROVE FileInv' BY <1>1 DEF FileInv
  <2>2. FileInv BY DEF AlikeInv
  <2>3. Agree(song, Fresh.song, SongFields \ {"selected", "init"}) BY <1>1, <2>1, <2>2 DEF FileInv
  <2>4. Agree(song', Fresh'.song, SongFields \ {"selected", "init"})
    BY <1>5, <1>6, <1>8, <2>3 DEF Agree
  <2>5. Driverless(song') => song'.init = Fresh'.song.init
    BY <1>1, <1>3, <1>6, <1>7, <1>8, <2>1, <2>2 DEF FileInv
  <2>6. QED BY <1>1, <1>8, <2>1, <2>2, <2>4, <2>5 DEF FileInv
<1>10. StartInv'
  <2>1. SUFFICES ASSUME loader = "sid", Driverless(song) PROVE StartedAs(Fresh)'
    BY <1>1, <1>7 DEF StartInv
  <2>2. song.init = Fresh.song.init BY <1>1, <2>1 DEF AlikeInv, FileInv
  <2>3. QED BY <2>1, <2>2, PlayFromFile
<1>11. QED BY <1>1, <1>5, <1>9, <1>10 DEF AlikeInv

LEMMA ComputeAlike == ASSUME AlikeInv, ComputeAudioSamples PROVE AlikeInv'
<1>1. heard' # "new" BY DEF ComputeAudioSamples
<1>2. UNCHANGED <<loader, tune, result, ready, song, roms, snapshot>>
  BY DEF ComputeAudioSamples, statics
<1>3. QED BY <1>1, <1>2 DEF AlikeInv, FileInv, StartInv, Fresh

(* Another chip model may be selected after the start.                      *)
LEMMA StandardAlike ==
  ASSUME AlikeInv, NEW ntsc, EnvSetNTSC(ntsc)
  PROVE AlikeInv'
<1>1. /\ UNCHANGED <<loader, tune, result, ready, song, roms, snapshot, ram, heard>>
      /\ machine' = [machine EXCEPT !.ntsc = ntsc]
  BY DEF EnvSetNTSC, statics
<1>2. \A x : [machine' EXCEPT !.ntsc = x] = [machine EXCEPT !.ntsc = x] BY Zenon, <1>1
<1>3. Fresh' = Fresh BY <1>1 DEF Fresh
<1> DEFINE F == Fresh
<1>4. StartedAs(F) => StartedAs(F)'
  <2> HIDE DEF F
  <2>1. F' = F => (StartedAs(F) => StartedAs(F)') BY <1>1, <1>2 DEF StartedAs
  <2>2. QED BY <1>3, <2>1 DEF F
<1>5. QED BY <1>1, <1>3, <1>4 DEF AlikeInv, FileInv, StartInv

LEMMA SameAlike ==
  ASSUME AlikeInv,
         UNCHANGED <<loader, tune, result, ready, song, roms, snapshot, ram, machine, heard>>
  PROVE AlikeInv'
  BY DEF AlikeInv, FileInv, StartInv, Fresh, StartedAs

LEMMA AlikeStep == ASSUME AlikeInv, PlayerInv, AudioAssumption, [Next]_vars PROVE AlikeInv'
<1>1. ASSUME NEW f \in caller.files, NEW rate \in caller.rates, NEW given \in caller.roms,
             LoadSidFile(f, rate, given)
      PROVE AlikeInv'
  <2>1. f.mus \in BOOLEAN BY DEF AudioAssumption, PlayerInv, LoadInv
  <2>2. QED BY <1>1, <2>1, LoadAlike
<1>2. ASSUME NEW track \in 0..2, NEW trace \in caller.traces, NEW proc \in caller.bufs,
             PlayTune(track, trace, proc)
      PROVE AlikeInv'
  BY <1>2, PlayAlike
<1>3. CASE ComputeAudioSamples BY <1>3, ComputeAlike
<1>4. ASSUME NEW ntsc \in BOOLEAN, EnvSetNTSC(ntsc) PROVE AlikeInv' BY <1>4, StandardAlike
<1>5. ASSUME NEW level \in caller.levels, SetStereoLevel(level) PROVE AlikeInv'
  BY <1>5, SameAlike DEF SetStereoLevel, statics
<1>6. CASE UNCHANGED vars BY <1>6, SameAlike DEF vars, statics
<1>7. CASE Hung BY <1>6, <1>7 DEF Hung
<1>8. QED BY <1>1, <1>2, <1>3, <1>4, <1>5, <1>6, <1>7 DEF Next

LEMMA AlikeInvariance == Spec => []AlikeInv
<1>1. Init => AlikeInv BY AlikeInit
<1>2. AlikeInv /\ PlayerInv /\ [Next]_vars => AlikeInv' BY AlikeStep, AudioAssumption
<1>3. QED BY <1>1, <1>2, Invariance, PTL DEF Spec

\* A sub-tune of a .sid file that needs no driver of its own (every PSID is
\* one) starts as in a new emulator, whatever files, of whatever kind and with
\* whatever ROM images, were loaded, started and played before.
THEOREM RestartsAlike == Spec => [](Driverless(song) => StartsAlike)
<1>1. AlikeInv => (Driverless(song) => StartsAlike)
  BY DEF AlikeInv, StartInv, StartsAlike, Fresh
<1>2. QED BY <1>1, AlikeInvariance, PTL

\* ... and so does an RSID with a driver the first time: as long as its init
\* address is the one of the file, and not the driver's (memory.c:592).
THEOREM FirstStartAlike ==
  Spec => [][\A track, trace, proc :
               PlayTune(track, trace, proc) /\ loader = "sid" /\ song.init = Fresh.song.init
                 => StartsAlike']_vars
<1>1. ASSUME AlikeInv, [Next]_vars
      PROVE [\A track, trace, proc :
               PlayTune(track, trace, proc) /\ loader = "sid" /\ song.init = Fresh.song.init
                 => StartsAlike']_vars
  <2>1. ASSUME NEW track, NEW trace, NEW proc, PlayTune(track, trace, proc), loader = "sid",
               song.init = Fresh.song.init
        PROVE StartsAlike'
    <3>1. StartedAs(Fresh)' BY <1>1, <2>1, PlayFromFile
    <3>2. QED BY <3>1 DEF StartsAlike, Fresh
  <2>2. QED BY <2>1
<1>2. QED BY <1>1, AlikeInvariance, PTL DEF Spec

-----------------------------------------------------------------------------
(* The place of a song's driver. *)

(* The place found lies in the memory below the I/O area.                   *)
LEMMA FreeSpaceRange ==
  ASSUME NEW load \in Nat, NEW size \in Nat
  PROVE /\ FreeSpace(load, size, 0) \in {0, 1057, 53214}
        /\ FreeSpace(load, size, 0) = 53214 <=> load + size < 53214
        /\ FreeSpace(load, size, 0) = 1057 <=> (load + size >= 53214 /\ load >= 1057)
  BY DEF FreeSpace, DriverSize

\* The driver lies beside the song for all songs but those that begin within 33
\* bytes of the second place the loader tries and reach up to the first: these
\* are overwritten (loaders.cpp:625-629 leaves room at 0400 but uses 0421).
THEOREM DriverBesideSong ==
  ASSUME NEW load \in Nat, NEW size \in Nat \ {0}
  PROVE DriverApart(load, size) <=> ~ Unlucky(load, size)
<1> DEFINE free == FreeSpace(load, size, 0)
<1>1. CASE load + size < 53214
  <2>1. free = 53214 BY <1>1, FreeSpaceRange
  <2> HIDE DEF free
  <2>2. ~ Overlap(free, free + DriverSize - 1, load, load + size - 1)
    BY <1>1, <2>1 DEF Overlap, DriverSize
  <2>3. ~ Unlucky(load, size) BY <1>1 DEF Unlucky, DriverSize
  <2>4. QED BY <2>2, <2>3 DEF DriverApart, free
<1>2. CASE load + size >= 53214 /\ load >= 1057
  <2>1. free = 1057 BY <1>2, FreeSpaceRange
  <2> HIDE DEF free
  <2>2. Overlap(free, free + DriverSize - 1, load, load + size - 1) <=> load <= 1089
    BY <1>2, <2>1 DEF Overlap, DriverSize
  <2>3. Unlucky(load, size) <=> load <= 1089 BY <1>2 DEF Unlucky, DriverSize, Within
  <2>4. DriverApart(load, size)
          <=> ~ Overlap(free, free + DriverSize - 1, load, load + size - 1)
    BY <2>1 DEF DriverApart, free
  <2>5. QED BY <2>2, <2>3, <2>4
<1>3. CASE load + size >= 53214 /\ load < 1057
  <2>1. free = 0 BY <1>3, FreeSpaceRange
  <2>2. DriverApart(load, size) BY <2>1 DEF DriverApart
  <2>3. ~ Unlucky(load, size) BY <1>3 DEF Unlucky, DriverSize, Within
  <2>4. QED BY <2>2, <2>3
<1>4. QED BY <1>1, <1>2, <1>3

-----------------------------------------------------------------------------
(* The memory. *)
LEMMA AddrIsNat == ASSUME NEW a \in Addr PROVE a \in Nat /\ a <= \hFFFF
  BY DEF Addr

LEMMA BankLines ==
  ASSUME NEW b \in Byte
  PROVE  /\ b % 8 \in 0..7
         /\ KernalVisible(b) <=> b % 8 \in {2, 3, 6, 7}
         /\ BasicVisible(b) <=> b % 8 \in {3, 7}
         /\ CharRomVisible(b) <=> b % 8 \in {1, 2, 3}
         /\ IoVisible(b) <=> b % 8 \in {5, 6, 7}
<1>1. b % 8 \in 0..7
  BY DEF Byte
<1>2. KernalVisible(b) <=> b % 8 \in {2, 3, 6, 7}
  BY DEF Byte, KernalVisible
<1>3. BasicVisible(b) <=> b % 8 \in {3, 7}
  BY DEF Byte, BasicVisible
<1>4. CharRomVisible(b) <=> b % 8 \in {1, 2, 3}
  BY DEF Byte, CharRomVisible
<1>5. IoVisible(b) <=> b % 8 \in {5, 6, 7}
  BY DEF Byte, IoVisible
<1> QED
  BY <1>1, <1>2, <1>3, <1>4, <1>5

LEMMA Areas ==
  ASSUME NEW a \in Addr
  PROVE  /\ a \div \h1000 \in 0..15
         /\ a \div \h1000 \in {10, 11} <=> a >= \hA000 /\ a < \hC000
         /\ a \div \h1000 \in {14, 15} <=> a >= \hE000
         /\ a \div \h1000 = 13 <=> a >= \hD000 /\ a < \hE000
  BY DEF Addr

\* memGet and memSet against the table of the machine's memory logic.
THEOREM BanksAsWired == \A b \in Byte, a \in Addr : BankRight(b, a)
<1> SUFFICES ASSUME NEW b \in Byte, NEW a \in Addr
             PROVE  BankRight(b, a)
  OBVIOUS
<1> DEFINE area == a \div \h1000
           mode == b % 8
           page == a \div \h100
<1>0. a \in Nat /\ a <= \hFFFF
  BY AddrIsNat
<1>1. CASE a < \hA000 \/ (a >= \hC000 /\ a < \hD000)
  <2>1. Source(b, a) = "ram"
    BY <1>0, <1>1 DEF Source
  <2>2. Sinks(b, a) = {"ram"}
    BY <1>0, <1>1 DEF Sinks
  <2>3. area \notin {10, 11} /\ area \notin {14, 15} /\ area # 13
    BY <1>0, <1>1, Areas
  <2>4. WiredSource(b, a) = "ram"
    BY <2>3 DEF WiredSource
  <2> QED
    BY <2>1, <2>2, <2>4 DEF BankRight, Chips
<1>2. CASE a >= \hA000 /\ a < \hC000
  <2>1. Source(b, a) = IF BasicVisible(b) THEN "basic" ELSE "ram"
    BY <1>0, <1>2 DEF Source
  <2>2. Sinks(b, a) = {"ram"}
    BY <1>0, <1>2 DEF Sinks
  <2>3. area \in {10, 11}
    BY <1>0, <1>2, Areas
  <2>4. WiredSource(b, a) = IF mode \in {3, 7} THEN "basic" ELSE "ram"
    BY <2>3 DEF WiredSource
  <2>5. BasicVisible(b) <=> mode \in {3, 7}
    BY BankLines
  <2> QED
    BY <2>1, <2>2, <2>4, <2>5 DEF BankRight, Chips
<1>3. CASE a >= \hE000
  <2>1. Source(b, a) = IF KernalVisible(b) THEN "kernal" ELSE "ram"
    BY <1>0, <1>3 DEF Source
  <2>2. Sinks(b, a) = {"ram"}
    BY <1>0, <1>3 DEF Sinks
  <2>3. area \in {14, 15} /\ area \notin {10, 11}
    BY <1>0, <1>3, Areas
  <2>4. WiredSource(b, a) = IF mode \in {2, 3, 6, 7} THEN "kernal" ELSE "ram"
    BY <2>3 DEF WiredSource
  <2>5. KernalVisible(b) <=> mode \in {2, 3, 6, 7}
    BY BankLines
  <2> QED
    BY <2>1, <2>2, <2>4, <2>5 DEF BankRight, Chips
<1>4. CASE a >= \hD000 /\ a < \hE000
  <2>1. Source(b, a) = IF IoVisible(b) THEN IoRead(a)
                       ELSE IF CharRomVisible(b) THEN "char" ELSE "ram"
    BY <1>0, <1>4 DEF Source
  <2>2. Sinks(b, a) = IoSinks(b, a)
    BY <1>0, <1>4 DEF Sinks
  <2>3. area = 13
    BY <1>0, <1>4, Areas
  <2>4. CASE ~ IoVisible(b)
    <3>1. mode \notin {5, 6, 7} /\ (CharRomVisible(b) <=> mode \in {1, 2, 3})
      BY <2>4, BankLines
    <3>2. WiredSource(b, a) = IF CharRomVisible(b) THEN "char" ELSE "ram"
      BY <2>3, <3>1 DEF WiredSource
    <3>3. Sinks(b, a) = {"ram"}
      BY <2>2, <2>4 DEF IoSinks
    <3> QED
      BY <2>1, <2>4, <3>2, <3>3 DEF BankRight, Chips
  <2>5. CASE IoVisible(b)
    <3>1. mode \in {5, 6, 7}
      BY <2>5, BankLines
    <3>2. WiredSource(b, a) = IF page < \hD4 THEN "vic"
                              ELSE IF page < \hD8 \/ page = \hDE THEN "sid"
                              ELSE IF page \in {\hDC, \hDD} THEN "cia" ELSE "io"
      BY <2>3, <3>1 DEF WiredSource
    <3>3. Source(b, a) = IoRead(a)
      BY <2>1, <2>5
    <3>4. CASE a < \hD400
      <4>1. page < \hD4
        BY <1>0, <1>4, <3>4
      <4>2. IoRead(a) = "vic" /\ Sinks(b, a) = {"vic"}
        BY <2>2, <2>5, <3>4 DEF IoRead, IoSinks
      <4> QED
        BY <3>2, <3>3, <4>1, <4>2 DEF BankRight, Chips
    <3>5. CASE (a >= \hD400 /\ a < \hD800) \/ (a >= \hDE00 /\ a < \hDF00)
      <4>1. page \in Nat /\ ~ (page < \hD4) /\ (page < \hD8 \/ page = \hDE)
        BY <1>0, <1>4, <3>5
      <4>2. IoRead(a) = "sid" /\ Sinks(b, a) = {"sid"}
        BY <1>0, <2>2, <2>5, <3>5 DEF IoRead, IoSinks, Within
      <4> QED
        BY <3>2, <3>3, <4>1, <4>2 DEF BankRight, Chips
    <3>6. CASE a >= \hDC00 /\ a < \hDE00
      <4>1. page \in {\hDC, \hDD}
        BY <1>0, <3>6
      <4>2. IoRead(a) = "cia" /\ Sinks(b, a) = {"cia", "ram"}
        BY <1>0, <2>2, <2>5, <3>6 DEF IoRead, IoSinks, Within
      <4> QED
        BY <3>2, <3>3, <4>1, <4>2 DEF BankRight, Chips
    <3>7. CASE (a >= \hD800 /\ a < \hDC00) \/ (a >= \hDF00 /\ a < \hE000)
      <4>1. page \in Nat /\ ~ (page < \hD8) /\ page # \hDE /\ page \notin {\hDC, \hDD}
        BY <1>0, <3>7
      <4>2. IoRead(a) = "io" /\ Sinks(b, a) = {"io"}
        BY <1>0, <2>2, <2>5, <3>7 DEF IoRead, IoSinks, Within
      <4> QED
        BY <3>2, <3>3, <4>1, <4>2 DEF BankRight, Chips
    <3> QED
      BY <1>0, <1>4, <3>4, <3>5, <3>6, <3>7
  <2> QED
    BY <2>4, <2>5
<1> QED
  BY <1>0, <1>1, <1>2, <1>3, <1>4

\* What is hidden under the settings the code picks from.
LEMMA FixedBanks ==
  /\ ~ BasicVisible(\h36) /\ ~ KernalVisible(\h35)
  /\ ~ IoVisible(\h34) /\ ~ CharRomVisible(\h34)
  BY DEF BasicVisible, KernalVisible, IoVisible, CharRomVisible

\* An address is RAM under the setting chosen for the area it lies in.
LEMMA ChosenBanks ==
  ASSUME NEW a \in Nat
  PROVE  /\ a >= \hD000 /\ a < \hE000 => Source(\h34, a) = "ram"
         /\ a >= \hE000 => Source(\h35, a) = "ram"
         /\ a < \hD000 => Source(\h36, a) = "ram"
         /\ a < \hA000 => \A b : Source(b, a) = "ram"
<1>1. a >= \hD000 /\ a < \hE000 => Source(\h34, a) = "ram"
  BY FixedBanks DEF Source
<1>2. a >= \hE000 => Source(\h35, a) = "ram"
  BY FixedBanks DEF Source
<1>3. a < \hD000 => Source(\h36, a) = "ram"
  BY FixedBanks DEF Source
<1>4. a < \hA000 => \A b : Source(b, a) = "ram"
  BY DEF Source
<1> QED
  BY <1>1, <1>2, <1>3, <1>4

LEMMA InitReachable ==
  ASSUME NEW init \in Nat, NEW end \in Nat, init <= end
  PROVE  Source(DefaultBanksPSID(init, end), init) = "ram"
<1>1. CASE init >= \hD000 /\ init < \hE000
  <2>1. DefaultBanksPSID(init, end) = \h34
    BY <1>1 DEF DefaultBanksPSID, Within
  <2> QED
    BY <1>1, <2>1, ChosenBanks
<1>2. CASE init >= \hE000
  <2>1. DefaultBanksPSID(init, end) = \h35
    BY <1>2 DEF DefaultBanksPSID, Within
  <2> QED
    BY <1>2, <2>1, ChosenBanks
<1>3. CASE init < \hD000 /\ end >= \hA000
  <2>1. DefaultBanksPSID(init, end) = \h36
    BY <1>3 DEF DefaultBanksPSID, Within
  <2> QED
    BY <1>3, <2>1, ChosenBanks
<1>4. CASE init < \hD000 /\ end < \hA000
  <2>1. init < \hA000
    BY <1>4
  <2> QED
    BY <2>1, ChosenBanks
<1> QED
  BY <1>1, <1>2, <1>3, <1>4

LEMMA PlayReachable ==
  ASSUME NEW play \in Nat, NEW bank, play # 0
  PROVE  Source(ResetBanks(bank, play), play) = "ram"
<1>1. CASE play >= \hD000 /\ play < \hE000
  <2>1. ResetBanks(bank, play) = \h34
    BY <1>1 DEF ResetBanks, Within
  <2> QED
    BY <1>1, <2>1, ChosenBanks
<1>2. CASE play >= \hE000
  <2>1. ResetBanks(bank, play) = \h35
    BY <1>2 DEF ResetBanks, Within
  <2> QED
    BY <1>2, <2>1, ChosenBanks
<1>3. CASE play >= \hA000 /\ play < \hD000
  <2>1. ResetBanks(bank, play) = \h36
    BY <1>3 DEF ResetBanks, Within
  <2> QED
    BY <1>3, <2>1, ChosenBanks
<1>4. CASE play < \hA000
  BY <1>4, ChosenBanks
<1> QED
  BY <1>1, <1>2, <1>3, <1>4

\* memSetDefaultBanksPSID and memResetBanksPSID: the song is not hidden behind
\* a ROM or a chip where its init and its play routine start.
THEOREM PsidAlwaysReachable ==
  \A load \in Addr, end \in Addr, init \in Addr, play \in Addr, bank \in Byte :
    PsidReachable(load, end, init, play, bank)
<1> SUFFICES ASSUME NEW load \in Addr, NEW end \in Addr, NEW init \in Addr,
                    NEW play \in Addr, NEW bank \in Byte
             PROVE  PsidReachable(load, end, init, play, bank)
  OBVIOUS
<1>1. load \in Nat /\ init \in Nat /\ end \in Nat /\ play \in Nat
  BY AddrIsNat
<1>2. Within(init, load, end) => init <= end
  BY <1>1 DEF Within
<1>3. Within(init, load, end) => Source(DefaultBanksPSID(init, end), init) = "ram"
  BY <1>1, <1>2, InitReachable
<1>4. play # 0 => Source(ResetBanks(bank, play), play) = "ram"
  BY <1>1, PlayReachable
<1> QED
  BY <1>3, <1>4 DEF PsidReachable
=============================================================================

---------------------------------- MODULE Sid ----------------------------------
(***************************************************************************)
(* The SID chips of the emulated machine (src/src/sid.cpp): which chips a   *)
(* song's header asks for, which of them a bus write reaches, and what a    *)
(* write does to a chip's registers, its filter (src/src/filter.cpp and its *)
(* two models) and its detector of sample playback.  Oscillators and        *)
(* envelopes have modules of their own.                                     *)
(***************************************************************************)
EXTENDS DigiDetector, FiniteSets

CONSTANTS Headers,      \* [ext, version, centers, revisions, rsid, compatible]
          Targets,      \* <<address, value>> pairs the song of a header may write
          Gaps,         \* cycles between two writes
          Models,       \* models the user may switch to: subset of {6581, 8580}
          UserMutes,    \* voices the user may turn on and off; 3: the samples
          MaxWrites, MaxCalls   \* bounds on the writes and on the user's calls

VARIABLES header,   \* of the song that plays
          chips,    \* what the three chip objects hold
          row,      \* Filter6581::_distortion_tbl: the cutoff it was selected for
          io,       \* what was last stored at addresses of the I/O area
          audible,  \* _is_audible
          slow,     \* _slow_down, shared by the detectors of all chips
          writes, calls

vars == <<header, chips, row, io, audible, slow, writes, calls>>

ChipIndices == 0..2
Registers == 0..31
FilterRegisters == {\h15, \h16, \h17, \h18}
Unknown == -1      \* a field nobody has initialized

-----------------------------------------------------------------------------
(* SIDConfigurator *)

\* getSidAddr: even numbers in 42..7F and E0..FE name an address.
SidAddr(center) ==
  IF center \in (\h42..\h7F) \cup (\hE0..\hFE) /\ center % 2 = 0 THEN \hD000 + 16 * center ELSE 0

\* An extended file lists its chips; a standard one names the second from
\* version 3 and the third from version 4 on.
Named(h, i) == i <= Len(h.centers) /\ (h.ext \/ h.version > i + 1)
Addr(h, i) == IF i = 0 THEN \hD400 ELSE IF Named(h, i) THEN SidAddr(h.centers[i]) ELSE 0

\* Revision 2 is the 8580; 0 repeats the first chip's model.
Is6581(h, i) ==
  LET rev == IF i < Len(h.revisions) THEN h.revisions[i + 1] ELSE 0
  IN IF i > 0 /\ rev = 0 THEN h.revisions[1] # 2 ELSE rev # 2

Installed(h) == {i \in ChipIndices : Addr(h, i) # 0}
NumberUsedChips(h) == Cardinality(Installed(h))

\* The chips of a header follow each other without a gap.
Bytes == 0..255

ASSUME SidAssumption ==
  /\ \A h \in Headers :
       /\ Installed(h) = 0..(NumberUsedChips(h) - 1)
       /\ h.centers \in Seq(Bytes)
       /\ \A t \in Targets[h] : t[1] \in Nat /\ t[2] \in Bytes
  /\ Gaps \subseteq Nat \ {0} /\ UserMutes \subseteq 0..3

-----------------------------------------------------------------------------
(* Filters *)

NewFilter(is6581) == [is6581 |-> is6581, reg |-> [r \in FilterRegisters |-> Unknown]]

CutoffRow(f) ==
  IF Unknown \in {f.reg[\h15], f.reg[\h16]} THEN Unknown
  ELSE f.reg[\h16] * 4 + f.reg[\h15] \div 2

\* resyncCache of the 6581 model points the one shared table to the row of
\* this filter.
Resync(f, shared) == IF f.is6581 THEN CutoffRow(f) ELSE shared

\* Mutant: the cutoff's low bits are not cut out of the register.
FilterPokeWide(f, reg, value) == [f EXCEPT !.reg[reg] = value]

\* Filter::poke
FilterPoke(f, reg, value) ==
  LET kept == IF reg = \h15 THEN value % 8
              ELSE IF reg = \h17 THEN value - 8 * ((value \div 8) % 2)
              ELSE value
  IN [f EXCEPT !.reg[reg] = kept]

\* setFilterModel: a filter of the other model is a new object.
SetFilterModel(f, is6581) == IF f.is6581 = is6581 THEN f ELSE NewFilter(is6581)

-----------------------------------------------------------------------------
(* A chip *)

NoRegisters == [r \in Registers |-> 0]
NewChip == [regs |-> NoRegisters, bus |-> 0, filter |-> NewFilter(FALSE),
            digi |-> NewDigi, muted |-> {}]

\* resetModel
ResetModel(chip, is6581) ==
  [chip EXCEPT !.bus = 0, !.filter = SetFilterModel(@, is6581)]

\* poke: every register goes to the generator of its voice, 15 to 18 to the
\* filter as well.
Poke(chip, reg, value) ==
  [chip EXCEPT !.regs[reg] = value,
               !.filter = IF reg \in FilterRegisters THEN FilterPoke(@, reg, value) ELSE @]

\* SID::reset: the generators and the detector start anew, the filter keeps
\* its registers, and the volume is turned on.
ResetChip(chip, is6581) ==
  Poke([ResetModel(chip, is6581) EXCEPT !.regs = NoRegisters, !.muted = {},
                                        !.digi = ResetDigi(@)], \h18, 15)

\* What a voice of a chip adds to a sample (synthSample): its own output, the
\* detected sample in its place, or nothing.
Silenced3(chip, v) ==
  /\ v = 2 /\ chip.filter.reg[\h18] >= 128 /\ (chip.filter.reg[\h17] \div 4) % 2 = 0
Heard(chip, v) ==
  IF v \notin chip.muted /\ ~ Silenced3(chip, v) THEN "voice"
  ELSE IF OverriddenVoice(chip.digi) = v /\ 3 \notin chip.muted THEN "digi"
  ELSE "nothing"

-----------------------------------------------------------------------------
(* The bus *)

\* Mutant: a chip also answers in the gap behind the chip before it.
ChipAtAbove(h, addr) ==
  LET at == {i \in Installed(h) \ {0} : addr \in Addr(h, i)..(Addr(h, i) + 62)}
  IN IF at = {} THEN 0 ELSE CHOOSE i \in at : \A j \in at : j <= i

\* _mem2sid: 31 addresses of every further chip, all others are chip 0.
ChipAt(h, addr) ==
  LET at == {i \in Installed(h) \ {0} : addr \in Addr(h, i)..(Addr(h, i) + 30)}
  IN IF at = {} THEN 0 ELSE CHOOSE i \in at : \A j \in at : j <= i

\* memSet: the part of the I/O area that leads to the chips.
ReachesSid(addr) == addr \in (\hD400..\hD7FF) \cup (\hDE00..\hDEFF)

Stored(addr) == IF addr \in DOMAIN io THEN io[addr] ELSE 0
StoredAt(base) == [r \in Registers |-> Stored(base + r)]

\* detectSample: skipped for extended files, PSIDs and incompatible songs; the
\* mirrors of a single chip count as its registers.
Detection(c, chip, addr, value) ==
  LET base == Addr(header, c)
      reg == addr % 32
      own == IF NumberUsedChips(header) = 1 THEN addr \div 1024 = base \div 1024 ELSE addr = base + reg
      volume == reg = \h18 /\ own
  IN IF header.ext \/ ~ header.compatible \/ ~ header.rsid
     THEN [digi |-> chip.digi, mutes |-> {}, unmutes |-> {}]
     ELSE Detect(chip.digi, chip.regs, StoredAt(base), reg, value, volume)

\* SID::writeMem
Written(c, chip, addr, value) ==
  LET seen == Detection(c, chip, addr, value)
  IN [Poke(chip, addr % 32, value) EXCEPT
        !.bus = value, !.digi = Aged(seen.digi, 0),
        !.muted = (@ \cup seen.mutes) \ seen.unmutes]

-----------------------------------------------------------------------------
Init ==
  /\ header \in Headers
  /\ chips = [c \in ChipIndices |->
                IF c \in Installed(header) THEN ResetChip(NewChip, Is6581(header, c)) ELSE NewChip]
  /\ row = Unknown
  /\ io = [a \in {Addr(header, c) + \h18 : c \in Installed(header)} |-> 15]
  /\ audible = FALSE /\ slow = 1
  /\ writes = 0 /\ calls = 0

Call == calls < MaxCalls /\ calls' = calls + 1

\* resetAll, for the header of the next song.
NextSong(h) ==
  /\ Call
  /\ header' = h
  /\ chips' = [c \in ChipIndices |->
                 IF c \in Installed(h) THEN ResetChip(chips[c], Is6581(h, c)) ELSE chips[c]]
  /\ row' = LET last == {c \in Installed(h) : Is6581(h, c)}
            IN IF last = {} THEN row
               ELSE CutoffRow(chips'[CHOOSE c \in last : \A k \in last : k <= c].filter)
  /\ io' = [a \in {Addr(h, c) + \h18 : c \in Installed(h)} |-> 15]
  /\ audible' = FALSE
  /\ UNCHANGED <<slow, writes>>

\* sidWriteMem, gap cycles after the write before it.
Write(addr, value, gap) ==
  /\ writes < MaxWrites /\ writes' = writes + 1
  /\ LET c == ChipAt(header, addr)
         aged == [k \in ChipIndices |-> [chips[k] EXCEPT !.digi = Aged(@, gap)]]
         mirror == \hD400 + (addr % 32)
         written == IF NumberUsedChips(header) = 1 THEN {addr, mirror} ELSE {addr}
     IN IF ReachesSid(addr)
        THEN /\ chips' = [aged EXCEPT ![c] = Written(c, @, addr, value)]
             /\ row' = IF addr % 32 \in {\h15, \h16, \h17} THEN Resync(chips'[c].filter, row) ELSE row
             /\ io' = [a \in written \cup DOMAIN io |-> IF a \in written THEN value ELSE io[a]]
             /\ audible' = (audible \/ value # 0)
        ELSE chips' = aged /\ UNCHANGED <<row, io, audible>>
  /\ UNCHANGED <<header, slow, calls>>

\* resetGlobalStatistics at the end of a frame: the shared toggle decides
\* whose turn it is.
EndFrame ==
  /\ LET Due(c) == c \in Installed(header) /\ (slow + c + 1) % 2 = 0
     IN chips' = [c \in ChipIndices |-> IF Due(c) THEN [chips[c] EXCEPT !.digi = Lapsed(@)] ELSE chips[c]]
  /\ slow' = (slow + NumberUsedChips(header)) % 2
  /\ UNCHANGED <<header, row, io, audible, writes, calls>>

\* SID::setSID6581, by the user while a song plays.
SetModel(is6581) ==
  /\ Call
  /\ chips' = [c \in ChipIndices |->
                 IF c \in Installed(header) THEN ResetModel(chips[c], is6581) ELSE chips[c]]
  /\ row' = LET last == {c \in Installed(header) : is6581}
            IN IF last = {} THEN row
               ELSE CutoffRow(chips'[CHOOSE c \in last : \A k \in last : k <= c].filter)
  /\ UNCHANGED <<header, io, audible, slow, writes>>

\* SID::setMute, by the user.
Mute(c, v, on) ==
  /\ Call
  /\ chips' = [chips EXCEPT ![c].muted = IF on THEN @ \cup {v} ELSE @ \ {v}]
  /\ UNCHANGED <<header, row, io, audible, slow, writes>>

Next ==
  \/ \E h \in Headers : NextSong(h)
  \/ \E t \in Targets[header], gap \in Gaps : Write(t[1], t[2], gap)
  \/ EndFrame
  \/ \E model \in Models : SetModel(model = 6581)
  \/ \E c \in ChipIndices, v \in UserMutes, on \in BOOLEAN : Mute(c, v, on)

Spec == Init /\ [][Next]_vars /\ WF_vars(EndFrame)
-----------------------------------------------------------------------------
(* Properties *)

\* The chips' registers, detectors and filters have their types.
TypeOK ==
  /\ header \in Headers
  /\ \A c \in ChipIndices :
       /\ chips[c].bus \in 0..255 /\ chips[c].muted \subseteq 0..3
       /\ \A r \in Registers : chips[c].regs[r] \in 0..255
       /\ chips[c].digi.source \in -1..3 /\ chips[c].digi.src \in 0..3
       /\ chips[c].digi.sample \in 0..255
       /\ chips[c].filter.reg[\h15] \in -1..7
  /\ audible \in BOOLEAN /\ slow \in {0, 1}

\* The samples of the volume register only count while no voice has been found
\* to play samples: a type of one kind never goes with a source of the other
\* (assertSameSource).
SourceOfSample ==
  \A c \in ChipIndices :
    /\ chips[c].digi.used \in {"D418", "Mahoney"} => chips[c].digi.source = 0
    /\ chips[c].digi.used = "PWMTest" => chips[c].digi.source > 0

\* Whatever the detectors do in between, a sample played through the pulse
\* width is the width the song wrote last (handlePulseModulationDigi).
LastWidth ==
  [][\A c \in ChipIndices, v \in DigiVoices :
       (/\ chips[c].digi.pulse[v].state \in {"confirm", "confirm2"}
        /\ chips'[c].digi.count > chips[c].digi.count /\ chips'[c].digi.used = "PWMTest")
       => \/ chips'[c].digi.src # v + 1
          \/ chips'[c].digi.sample = chips'[c].regs[7 * v + 2]]_vars

\* What a chip holds is what the I/O area shows at the chip's addresses, where
\* isMahoneyDigi looks for it: the map leads every write of a chip's range to
\* that chip and no other write to it, and the mirrors of a single chip are
\* stored at its own addresses too.
ReadsBack ==
  \A c \in Installed(header) :
    (c > 0 \/ NumberUsedChips(header) = 1)
      => \A r \in 0..30 : chips[c].regs[r] = Stored(Addr(header, c) + r)

\* Once a song no longer plays samples, the frequency and the volume technique
\* are forgotten, so that another one can be detected (resetCount, which
\* forgets no other technique).  With two chips, which toggle the _slow_down
\* that they share, it fails.
Forgotten ==
  \A c \in ChipIndices :
    (c \in Installed(header) /\ chips[c].digi.used \in {"FM", "D418"} /\ writes = MaxWrites)
      ~> (c \notin Installed(header) \/ chips[c].digi.used \notin {"FM", "D418"})

\* digi.cpp:110, for the two techniques that mute a voice: what is muted is
\* replaced by the detected sample.
MutedIsReplaced ==
  \A c \in ChipIndices, v \in DigiVoices :
    v \in chips[c].muted => Heard(chips[c], v) = "digi"

\* sid.cpp:751: the map covers d400-dfff, so every chip of a header can be
\* written.
Reachable == \A c \in Installed(header) : ReachesSid(Addr(header, c))

\* sid.cpp:329: switching the model does not disrupt the song: the filter
\* stays set as the song has set it.
FilterKept ==
  [][writes' = writes /\ header' = header =>
       \A c \in Installed(header) : chips'[c].filter.reg = chips[c].filter.reg]_vars

\* sid.cpp:296: a song starts with a filter that has been reset.
FilterReset ==
  [][header' # header =>
       \A c \in Installed(header)' :
         chips'[c].filter.reg = ResetChip(NewChip, Is6581(header', c)).filter.reg]_vars

\* filter6581.cpp:126: a filter works with its own cutoff.
OwnCutoff ==
  \A c \in Installed(header) :
    (chips[c].filter.is6581 /\ CutoffRow(chips[c].filter) # Unknown)
      => row = CutoffRow(chips[c].filter)
=============================================================================

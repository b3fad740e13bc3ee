-------------------------------- MODULE Loader --------------------------------
(***************************************************************************)
(* The file loaders (src/src/loaders.cpp) with the part of memory.c and     *)
(* core.cpp that they call: from the bytes of a file to what is known of    *)
(* the song, the ROM images, the memory and its snapshot.  All of it is     *)
(* kept in static variables, and a load only overwrites some of them.       *)
(*                                                                          *)
(* A file is a record.  Of a .sid file it has the fields of the header:     *)
(*   mus = FALSE, bytes (its length), magic (its first byte), version,      *)
(*   flags (the bits of byte 77), offset, load, embedded (the load address  *)
(*   that precedes the binary), init, play, songs, start, speed (a set of   *)
(*   bits), page, and code: the binary, for which see SongStart, with       *)
(*   basic = the digits of the SYS of a BASIC program of one line, or <<>>. *)
(* Of a Compute! .mus file (mus = TRUE) it has bytes, voices (the lengths   *)
(* of its parts), returns (the places of its carriage returns among the     *)
(* characters behind the parts), and code.                                  *)
(***************************************************************************)
EXTENDS SongStart, FiniteSets

Word16(n) == n % \h10000

(* What fills memory, ROM and the statics before the first load.            *)
NoCode == [name |-> "none", hangs |-> {}, hack |-> "none", entry |-> 0, basic |-> <<>>]

FirstSong == [version |-> 0, rsid |-> FALSE, ntsc |-> FALSE, compat |-> FALSE, basic |-> FALSE,
              free |-> 0, load |-> 0, end |-> 0, init |-> 0, play |-> 0, selected |-> 0,
              tracks |-> 0, speed |-> {}]

FirstRoms == [kernal |-> "zero", basic |-> "zero", char |-> "zero"]

\* FileLoader::init: what is not listed keeps the value of the last song.
InitSong(s) == [s EXCEPT !.init = 0, !.play = 0, !.end = 0, !.selected = 0, !.tracks = 0,
                         !.speed = {}]

(* FileLoader::getInstance: "poor man's input validation".                  *)
Accepted(f) == ~ f.mus => f.bytes >= \h7C /\ f.magic \in {"P", "R"}

-----------------------------------------------------------------------------
(* ROM images and memory.  given: the images that the caller has.           *)

\* memResetKernelROM, memResetBasicROM: a stand-in replaces a missing image.
ResetROM(name, given) == IF name \in given THEN "image" ELSE "stand-in"

\* memResetCharROM: there is no stand-in, an old image stays.
ResetCharROM(old, given) == IF "char" \in given THEN "image" ELSE old

HasRoms(given) == {"basic", "kernal"} \subseteq given

(* memResetRAM: cleared but for some vectors and keys; pal is $02A6, high   *)
(* what lies below the kernal.                                              *)
ResetRAM(ntsc, psid, kernal) ==
  [code |-> NoCode, song |-> "none", ran |-> <<>>, driver |-> NotThere, vectors |-> "default",
   bank |-> 0, track |-> 0, pal |-> ~ ntsc, high |-> IF psid THEN kernal ELSE "zero",
   reset |-> FALSE, variables |-> 0]

(* Core::callKernalROMReset: the RESET routine of the image is run until it *)
(* returns or the cycle limit is reached.                                   *)
KernalResetRam(ram) == [ram EXCEPT !.reset = TRUE, !.bank = \h37]
KernalResetMachine == [ResetMachine([rsid |-> TRUE, ntsc |-> FALSE]) EXCEPT !.pc = \hFCE2]

\* memSetupBASIC: the variables begin behind the program.
SetupBASIC(size) == Word16(\h801 + size)

(* Core::loadSongBinary                                                     *)
LoadSongBinary(ram, code, size, basicMode) ==
  [ram EXCEPT !.code = code, !.song = "loaded",
              !.variables = IF basicMode THEN SetupBASIC(size) ELSE @]

-----------------------------------------------------------------------------
(* .sid files                                                               *)

(* SidFileLoader::load.  The upper byte of the flags is read from the place *)
(* of the lower one.                                                        *)
Header(s, f) ==
  LET flags == IF f.version > 1 THEN f.flags ELSE {}
  IN [InitSong(s) EXCEPT
        !.version = f.version,
        !.rsid = f.magic # "P",
        !.ntsc = f.version >= 2 /\ 3 \in flags,
        !.compat = (f.version \div 2) % 2 = 1 /\ 1 \notin flags,
        !.basic = f.magic # "P" /\ 1 \in flags]

AtMost(a, b) == IF a > b THEN b ELSE a
OrElse(a, b) == IF a = 0 THEN b ELSE a

Tracks(f) == AtMost(OrElse(f.songs, 1), 255)
StartTrack(f) == AtMost(OrElse(f.start, 1), Tracks(f)) - 1

(* Where the binary begins in the file and in memory.                       *)
DataOffset(f) == IF f.load = 0 THEN (f.offset + 2) % 256 ELSE f.offset
LoadAddr(f) == IF f.load = 0 THEN f.embedded ELSE f.load
Size(f) == f.bytes - DataOffset(f)

(* loadSIDFromMemory                                                        *)
Addresses(s, f) ==
  [s EXCEPT !.load = LoadAddr(f), !.init = OrElse(f.init, LoadAddr(f)), !.play = f.play,
            !.tracks = Tracks(f), !.selected = StartTrack(f), !.speed = f.speed,
            !.end = Word16(LoadAddr(f) + Size(f))]

LegalSize(f) == Size(f) \in 0 .. \hFFFF

(* Mutant: the place of the last song is kept when there is none for this.  *)
PlaceKept(s, f) ==
  LET free == FreeSpace(LoadAddr(f), Size(f), f.page)
  IN IF free = 0 /\ f.page # \hFF THEN s ELSE [s EXCEPT !.free = free]

Place(s, f) == [s EXCEPT !.free = FreeSpace(LoadAddr(f), Size(f), f.page)]

(* parseSYS: the first number that is not 0, in 16 bits.                    *)
Number(digits) ==
  LET value[n \in 0 .. Len(digits)] ==
        IF n = 0 THEN 0 ELSE Word16(value[n - 1] * 10 + digits[n])
  IN value[Len(digits)]

(* startFromBasic                                                           *)
BasicEntry(s, f, given) ==
  IF s.basic THEN (IF HasRoms(given) THEN \hA7AE ELSE s.init)
  ELSE IF s.init = \h801 /\ f.code.basic # <<>> THEN Number(f.code.basic)
  ELSE s.init

Started(s, f, given) == IF s.rsid THEN [s EXCEPT !.init = BasicEntry(s, f, given)] ELSE s

(* What a load leaves: result is what it returns, saved tells whether the   *)
(* snapshot was taken, reset whether the machine was reset.                 *)
LoadSid(f, given, song, roms, mixed) ==
  LET s == Header(song, f)
      r == [kernal |-> ResetROM("kernal", given), basic |-> ResetROM("basic", given),
            char |-> IF s.rsid THEN ResetCharROM(roms.char, given) ELSE roms.char]
      cleared == ResetRAM(s.ntsc, ~ s.rsid, r.kernal)
      banked == IF "basic" \in given THEN [cleared EXCEPT !.bank = \h37] ELSE cleared
      ram == IF HasRoms(given) THEN KernalResetRam(banked) ELSE banked
      found == Addresses(s, f)
      placed == Place(found, f)
      loaded == LoadSongBinary(ram, f.code, Size(f), s.basic /\ HasRoms(given))
      failed == placed.load = 0
  IN IF ~ LegalSize(f)
     THEN [song |-> found, roms |-> r, mixed |-> mixed, ram |-> ram, saved |-> FALSE,
           reset |-> HasRoms(given), result |-> 1]
     ELSE [song |-> IF failed THEN placed ELSE Started(placed, f, given),
           roms |-> r, mixed |-> mixed, ram |-> loaded, saved |-> TRUE,
           reset |-> HasRoms(given), result |-> IF failed THEN 1 ELSE 0]

-----------------------------------------------------------------------------
(* .mus files                                                               *)

MaxSongSize == \hA000 - \h281E

(* musGetSizes                                                              *)
TrackData(f) == Word16(8 + f.voices[1] + f.voices[2] + f.voices[3])

(* musMapInfoTexts looks at the characters with an index of 8 bits, until   *)
(* there are none left or 5 lines are full: it starts anew after 256, and   *)
(* goes on for ever when no return is among them.                           *)
InfoScanEnds(f) ==
  \/ f.bytes - TrackData(f) <= 255
  \/ \E i \in f.returns : i < 256

(* _mus_mem_buffer is allocated once: behind a file lies what is left of    *)
(* the longer ones before it.                                               *)
Mix(mixed, f) == <<f>> \o SelectSeq(mixed, LAMBDA g : g.bytes > f.bytes)

\* _load_addr .. _play_addr, as loadComputeSidplayerData sets them.
MusHeader(s) ==
  [s EXCEPT !.version = 2, !.rsid = TRUE, !.ntsc = TRUE, !.compat = TRUE, !.basic = FALSE,
            !.load = \h17B0, !.end = \h9FFF, !.init = \h17B0, !.play = \h1A07]

MusCode(mixed) == [NoCode EXCEPT !.name = [i \in DOMAIN mixed |-> mixed[i].code.name]]

NeverReturns == 2

LoadMus(f, given, song, roms, mixed) ==
  LET s == MusHeader(InitSong(song))
      r == [roms EXCEPT !.kernal = ResetROM("kernal", given)]
      ram == ResetRAM(song.ntsc, FALSE, r.kernal)
      long == f.bytes > MaxSongSize
      both == IF long THEN mixed ELSE Mix(mixed, f)
      corrupt == long \/ TrackData(f) >= f.bytes
      ok == ~ corrupt /\ InfoScanEnds(f)
  IN [song |-> s, roms |-> r, mixed |-> both, reset |-> FALSE, saved |-> ok,
      ram |-> IF ok THEN LoadSongBinary(ram, MusCode(both), \hA000 - \h17B0, FALSE) ELSE ram,
      result |-> IF corrupt THEN 1 ELSE IF ok THEN 0 ELSE NeverReturns]

Load(f, given, song, roms, mixed) ==
  IF f.mus THEN LoadMus(f, given, song, roms, mixed) ELSE LoadSid(f, given, song, roms, mixed)

(* ... into an emulator that has loaded nothing before.                     *)
FirstLoad(f, given) == Load(f, given, FirstSong, FirstRoms, <<>>)
=============================================================================

------------------------------- MODULE SongStart -------------------------------
(***************************************************************************)
(* Starting a sub-tune of the song that is loaded: what FileLoader::initTune *)
(* and Core::startupTune (src/src/loaders.cpp, src/src/core.cpp) leave in   *)
(* the memory and in the chips of the emulated machine.                     *)
(*                                                                          *)
(* t is what the loader knows of the song (module Loader).  The machine is  *)
(* a record; its memory is divided into the parts that a start may find in  *)
(* different states.  One of them is the song's code, itself a record with  *)
(*   hangs: the tracks whose init routine never returns,                    *)
(*   hack:  "none", or what hackIfNeeded does to the song it recognises by  *)
(*   entry, its init address.                                               *)
(***************************************************************************)
EXTENDS MemoryMap

DriverSize == 33
NotThere == -1

(* Where the starter code goes; 0 stands for "nowhere".                     *)
FreeSpace(load, size, startPage) ==
  IF startPage = \hFF THEN 0
  ELSE IF startPage # 0 THEN startPage * \h100
  ELSE IF load + size < \hCFFF - DriverSize THEN \hCFFF - DriverSize
  ELSE IF load >= \h400 + DriverSize THEN \h400 + DriverSize
  ELSE 0

\* getCurrentSongSpeed: bit 31 stands for all later tracks.
TimerDriven(t, track) == ~ t.rsid /\ (IF track > 31 THEN 31 ELSE track) \in t.speed

\* getValidatedTrack
ValidatedTrack(t, current, track) == IF track >= t.tracks THEN current ELSE track

-----------------------------------------------------------------------------
(* resetDefaults: every chip as after a reset of the machine.               *)
ResetMachine(t) == [pc |-> 0, a |-> 0, irq |-> FALSE, stun |-> "badline", nmi |-> "normal",
                    clock |-> IF t.rsid THEN "rsid" ELSE "psid",
                    cia |-> "rsid", vic |-> "rsid", ntsc |-> t.ntsc]

(* hackIfNeeded looks at the init address and at the bytes of the song.     *)
Recognised(code, init) == code.hack # "none" /\ init = code.entry
HackMachine(code, init, m) ==
  IF ~ Recognised(code, init) THEN m
  ELSE [m EXCEPT !.stun = IF code.hack = "stun" THEN "patched" ELSE @,
                 !.nmi = IF code.hack = "nmi" THEN "patched" ELSE @]
HackRam(init, ram) ==
  IF Recognised(ram.code, init) /\ ram.code.hack = "code" THEN [ram EXCEPT !.song = "patched"] ELSE ram

(* The init routine of a PSID, run with interrupts blocked until it returns *)
(* or runs into the cycle limit (sysClockTimeout): a function of the memory *)
(* it finds.                                                                *)
InitRan(ram, track) == [ram EXCEPT !.ran = Append(@, track)]

StartPsid(t, init, track, ram, m) ==
  LET banked == [ram EXCEPT !.bank = DefaultBanksPSID(init, t.end)]
      ran == InitRan(banked, track)
      bank == ResetBanks(ran.bank, t.play)
      main == [ran EXCEPT !.bank = bank,
                          !.driver = IF t.free = 0 THEN @ ELSE t.play,
                          !.vectors = IF t.free = 0 \/ t.play = 0 THEN @ ELSE "driver"]
      driven == TimerDriven(t, track)
  IN IF track \in ram.code.hangs
     THEN [ram |-> ran, init |-> init, machine |-> [m EXCEPT !.pc = init, !.a = track]]
     ELSE [ram |-> main, init |-> init,
           machine |-> [m EXCEPT !.pc = t.free, !.irq = TRUE,
                                 !.cia = IF driven THEN "timer" ELSE "raster",
                                 !.vic = IF driven THEN "disabled" ELSE "psid"]]

(* An RSID that is a BASIC program is passed its track in memory, any other *)
(* one gets a driver that calls its init routine - and from then on the     *)
(* loader takes the driver for the init routine.                            *)
StartRsid(t, init, track, ram, m) ==
  LET banked == [ram EXCEPT !.bank = \h37]
      installed == IF t.basic \/ t.free = 0 THEN banked
                   ELSE [banked EXCEPT !.driver = init]
      entry == IF t.basic \/ t.free = 0 THEN init ELSE t.free
  IN [ram |-> IF t.basic THEN [installed EXCEPT !.track = track] ELSE installed,
      init |-> entry,
      machine |-> [m EXCEPT !.pc = entry, !.a = track, !.irq = TRUE]]

\* Mutant: the memory is left as the previous track has left it.
RestoredNot(snapshot, ram) == ram

(* memRestoreSnapshot *)
Restored(snapshot, ram) == snapshot

Startup(t, init, track, snapshot, ram) ==
  LET restored == Restored(snapshot, ram)
      m == HackMachine(restored.code, init, ResetMachine(t))
      r == HackRam(init, restored)
  IN IF t.rsid THEN StartRsid(t, init, track, r, m) ELSE StartPsid(t, init, track, r, m)

-----------------------------------------------------------------------------
(* The driver must not lie in the song: "find a space to put the starter    *)
(* code" (loaders.cpp:615).  (A start page in the header is the word of the *)
(* file's author.)                                                          *)
Overlap(first1, last1, first2, last2) == first1 <= last2 /\ first2 <= last1

DriverApart(load, size) ==
  LET free == FreeSpace(load, size, 0)
  IN free = 0 \/ size = 0 \/ ~ Overlap(free, free + DriverSize - 1, load, load + size - 1)

\* A long song that begins where the second choice for the driver lies.
Unlucky(load, size) ==
  /\ load + size >= \hCFFF - DriverSize
  /\ Within(load, \h400 + DriverSize, \h400 + 2 * DriverSize - 1)
=============================================================================

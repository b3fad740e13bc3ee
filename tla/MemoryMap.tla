------------------------------- MODULE MemoryMap -------------------------------
(***************************************************************************)
(* The address space of the emulated C64 (src/src/memory.c): which of RAM,  *)
(* ROM and chip registers an access meets under the bank setting at $0001,  *)
(* the bank settings chosen for PSID songs, and the code the emulator       *)
(* itself puts into memory: the interrupt handlers of the stand-in kernal   *)
(* ROM and the driver that calls a PSID's play routine.                     *)
(*                                                                          *)
(* A memory is a record: ram and chip are sparse functions (an address that *)
(* is not in the domain holds 0, or RTS in the RAM below a PSID's kernal),  *)
(* log the chip accesses of the running instruction, test the ROMs of the   *)
(* build that runs a test suite.  The chips themselves are other modules:   *)
(* here a register holds what was last written to it.                       *)
(***************************************************************************)
EXTENDS Integers, Sequences, TLC

Byte == 0..\hFF
Addr == 0..\hFFFF
Chips == {"vic", "sid", "cia", "io"}

Low(w) == w % \h100
High(w) == w \div \h100
Word(lo, hi) == lo + \h100 * hi
Within(a, first, last) == first <= a /\ a <= last

-----------------------------------------------------------------------------
(* The visible areas.  b is the byte at $0001. *)

KernalVisible(b) == (b \div 2) % 2 = 1
BasicVisible(b) == b % 4 = 3
CharRomVisible(b) == (b \div 4) % 2 = 0 /\ b % 4 # 0
IoVisible(b) == (b \div 4) % 2 = 1 /\ b % 8 # 4

IoRead(a) ==
  IF a < \hD400 THEN "vic"
  ELSE IF a < \hD800 THEN "sid"
  ELSE IF Within(a, \hDC00, \hDDFF) THEN "cia"
  ELSE IF Within(a, \hDE00, \hDEFF) THEN "sid"
  ELSE "io"

\* memGet: what answers a read of address a.
Source(b, a) ==
  IF a < \hA000 THEN "ram"
  ELSE IF a >= \hE000 THEN IF KernalVisible(b) THEN "kernal" ELSE "ram"
  ELSE IF a >= \hD000 THEN IF IoVisible(b) THEN IoRead(a)
                           ELSE IF CharRomVisible(b) THEN "char" ELSE "ram"
  ELSE IF a >= \hC000 THEN "ram"
  ELSE IF BasicVisible(b) THEN "basic" ELSE "ram"

\* WRITE_IO: everything that takes a write to the I/O area.  Only the timer
\* chips are also written through to the RAM below.
IoSinks(b, a) ==
  IF ~ IoVisible(b) THEN {"ram"}
  ELSE IF a < \hD400 THEN {"vic"}
  ELSE IF Within(a, \hD400, \hD7FF) \/ Within(a, \hDE00, \hDEFF) THEN {"sid"}
  ELSE IF Within(a, \hDC00, \hDDFF) THEN {"cia", "ram"}
  ELSE {"io"}

\* memSet.
Sinks(b, a) ==
  IF a < \hD000 THEN {"ram"}
  ELSE IF a < \hE000 THEN IoSinks(b, a)
  ELSE {"ram"}

-----------------------------------------------------------------------------
(* Bank settings for songs that do not set their own. *)

DefaultBanksPSID(initAddr, loadEnd) ==
  IF Within(initAddr, \hD000, \hDFFF) THEN \h34
  ELSE IF initAddr >= \hE000 THEN \h35
  ELSE IF loadEnd >= \hA000 THEN \h36
  ELSE \h37

DefaultBanks(isRsid, initAddr, loadEnd) ==
  IF isRsid THEN \h37 ELSE DefaultBanksPSID(initAddr, loadEnd)

ResetBanks(bank, playAddr) ==
  IF Within(playAddr, \hD000, \hDFFF) THEN \h34
  ELSE IF playAddr >= \hE000 THEN \h35
  ELSE IF playAddr >= \hA000 THEN \h36
  ELSE IF playAddr = 0 THEN bank
  ELSE \h37

-----------------------------------------------------------------------------
(* Code in memory. *)

\* The bytes of s at address a and up.
At(a, s) == [i \in a..(a + Len(s) - 1) |-> s[i - a + 1]]

Over(f, g) == g @@ f                 \* f overwritten with g

IrqHandlerFF48 == <<\h48, \h8A, \h48, \h98, \h48, \hBA, \hBD, \h04, \h01, \h29, \h10,
                    \hF0, \h03, \hEA, \hEA, \hEA, \h6C, \h14, \h03>>
IrqHandlerEA75 == <<\hA5, \h01, \h29, \h1F, \h85, \h01, \hE6, \hA2, \hEA,
                    \hAD, \h0D, \hDC, \h68, \hA8, \h68, \hAA, \h68, \h40>>
NmiHandlerFE43 == <<\h78, \h6C, \h18, \h03, \h40>>
IrqEndFEBC == <<\h68, \hA8, \h68, \hAA, \h68, \h40>>
DelayEEB3 == <<\h8A, \hA2, \hB8, \hCA, \hD0, \hFD, \hAA, \h60>>

\* memResetKernelROM without a ROM image: RTS everywhere but in the handlers.
\* The run of NOPs that leads into the handler at $EA75 starts at $EA31.
KernalParts ==
  LET nops == [a \in \hEA31..(\hEA31 + \h4C) |-> \hEA]
      parts == <<nops, At(\hEA75, IrqHandlerEA75), At(\hEEB3, DelayEEB3),
                 At(\hFE43, NmiHandlerFE43), At(\hFEBC, IrqEndFEBC),
                 At(\hFF48, IrqHandlerFF48), At(\hFFE4, <<\h6C, \h2A, \h03>>),
                 At(\hF13E, <<\hA9, \h00>>), At(\hFFFA, <<\h43, \hFE>>),
                 At(\hFFFE, <<\h48, \hFF>>)>>
      upTo[i \in 0..Len(parts)] ==
        IF i = 0 THEN <<>> ELSE Over(upTo[i - 1], parts[i])
  IN upTo[Len(parts)]

Sparse(f, a, default) == IF a \in DOMAIN f THEN f[a] ELSE default

KernalRom(a) == Sparse(KernalParts, a, \h60)
BasicRom(a) == \h60                  \* memResetBasicROM without an image

\* memInitTest: the kernal of a build that runs a test suite traps every call
\* (BRK) but those of a few routines the tests rely on.
IrqHandlerTestFF48 == SubSeq(IrqHandlerFF48, 1, 13) \o <<\h6C, \h16, \h03, \h6C, \h14, \h03>>
RestoreVectorsFD15 == <<\hA2, \h30, \hA0, \hFD, \h18, \h86, \hC3, \h84, \hC4, \hA0, \h1F,
                        \hB9, \h14, \h03, \hB0, \h02, \hB1, \hC3, \h91, \hC3, \h99, \h14,
                        \h03, \h88, \h10, \hF1, \h60>>
InitIoFDA3 == <<\hA9, \h7F, \h8D, \h0D, \hDC, \h8D, \h0D, \hDD, \h8D, \h00, \hDC, \hA9, \h08,
                \h8D, \h0E, \hDC, \h8D, \h0E, \hDD, \h8D, \h0F, \hDC, \h8D, \h0F, \hDD, \hA2,
                \h00, \h8E, \h03, \hDC, \h8E, \h03, \hDD, \h8E, \h18, \hD4, \hCA, \h8E, \h02,
                \hDC, \hA9, \h07, \h8D, \h00, \hDD, \hA9, \h3F, \h8D, \h02, \hDD, \hA9, \hE7,
                \h85, \h01, \hA9, \h2F, \h85, \h00, \hAD, \hA6, \h02, \hF0, \h0A, \hA9, \h25,
                \h8D, \h04, \hDC, \hA9, \h40, \h4C, \hF3, \hFD, \hA9, \h95, \h8D, \h04, \hDC,
                \hA9, \h42, \h8D, \h05, \hDC, \h4C, \h6E, \hFF>>
ScheduleTimerFF6E == <<\hA9, \h81, \h8D, \h0D, \hDC, \hAD, \h0E, \hDC, \h29, \h80, \h09, \h11,
                       \h8D, \h0E, \hDC, \h4C, \h8E, \hEE>>
SerialClockEE8E == <<\hAD, \h00, \hDD, \h09, \h10, \h8D, \h00, \hDD, \h60>>
TestKernalParts ==
  LET nops == [a \in \hEA31..(\hEA31 + \h4C) |-> \hEA]
  IN nops @@ At(\hEA75, IrqHandlerEA75) @@ At(\hEE8E, SerialClockEE8E)
       @@ At(\hFD15, RestoreVectorsFD15) @@ At(\hFDA3, InitIoFDA3)
       @@ At(\hFF6E, ScheduleTimerFF6E) @@ At(\hFE43, NmiHandlerFE43)
       @@ At(\hFEBC, IrqEndFEBC) @@ At(\hFF48, IrqHandlerTestFF48)
       @@ At(\hFFFA, <<\h43, \hFE>>) @@ At(\hFFFE, <<\h48, \hFF>>)
TestBasicParts == At(\hA4E1, <<\h91, \h24>>) @@ At(\hB82A, <<\h91, \h14>>)
TestCharParts == At(\hD402, <<\h91, \hC3>>)

\* memResetRAM: cleared, but for the vectors and flags songs rely on; PSIDs
\* also find the kernal in the RAM below it (its filling: see Ram).
ResetRam(isNtsc, isPsid) ==
  LET fixed == Over(At(\h314, <<\h31, \hEA>>),
               Over(At(\h32A, <<\h3E, \hF1>>),
                    [a \in {0, \h91, \hC5, \hCB, \h2A6} |->
                       CASE a = 0 -> \h2F
                         [] a = \h91 -> \hFF
                         [] a \in {\hC5, \hCB} -> \h40
                         [] a = \h2A6 -> IF isNtsc THEN 0 ELSE 1]))
  IN IF isPsid THEN Over(fixed, KernalParts) ELSE fixed

\* memPsidMain: the driver at free; 0 stands for "no room", where nothing is
\* installed and the emulation goes on at address 0.
PsidDriver(free, play, bank) ==
  <<\h4C, Low(free), High(free),
    \h48, \h8A, \h48, \h98, \h48, \hA5, \h01, \h48,
    \hA9, IF play = 0 THEN \hFF ELSE bank, \h85, \h01,
    \h20, Low(play), High(play),
    \h68, \h85, \h01, \hEE, \h19, \hD0, \hAD, \h0D, \hDC,
    \h68, \hA8, \h68, \hAA, \h68, \h40>>

\* Mutant: the vectors lead to the endless loop in front of the handler.
HandlerOffsetLoop == 0

HandlerOffset == 3

InstallPsidMain(ram, free, play) ==
  LET bank == ResetBanks(Sparse(ram, 1, 0), play)
      banked == Over(ram, At(1, <<bank>>))
      driver == Over(banked, At(free, PsidDriver(free, play, bank)))
      handler == free + HandlerOffset
      vectors == Over(At(\h314, <<Low(handler + 5), High(handler + 5)>>),
                      At(\hFFFE, <<Low(handler), High(handler)>>))
  IN IF free = 0 THEN [ram |-> banked, main |-> 0]
     ELSE [ram |-> IF play = 0 THEN driver ELSE Over(driver, vectors), main |-> free]

\* memRsidMain: JSR to the init routine, then an endless loop.  The caller's
\* init address becomes the address of this driver.
RsidDriver(free, init) ==
  <<\h20, Low(init), High(init), \h4C, Low(free + 3), High(free + 3)>>

InstallRsidMain(ram, free, init) ==
  IF free = 0 THEN [ram |-> ram, init |-> init]
  ELSE [ram |-> Over(ram, At(free, RsidDriver(free, init))), init |-> free]

-----------------------------------------------------------------------------
(* Reading and writing. *)

Ram(m, a) == Sparse(m.ram, a, IF m.psid /\ a >= \hE000 THEN \h60 ELSE 0)
Bank(m) == Ram(m, 1)

Answer(m, a, source) ==
  CASE source = "ram" -> Ram(m, a)
    [] source = "kernal" -> IF m.test THEN Sparse(TestKernalParts, a, 0) ELSE KernalRom(a)
    [] source = "basic" -> IF m.test THEN Sparse(TestBasicParts, a, 0) ELSE BasicRom(a)
    [] source = "char" -> IF m.test THEN Sparse(TestCharParts, a, 0) ELSE 0
    [] OTHER -> Sparse(m.chip, a, 0)
Get(m, a) == Answer(m, a, Source(Bank(m), a))

\* A read that a chip notices (a read of $DC0D acknowledges its interrupts).
Touch(m, a) ==
  IF Source(Bank(m), a) \in Chips THEN [m EXCEPT !.log = Append(@, <<"r", a>>)] ELSE m

PutTo(m, sinks, a, v) ==
  LET onChip == sinks \cap Chips # {}
  IN [m EXCEPT !.ram = IF "ram" \in sinks THEN Over(@, At(a, <<v>>)) ELSE @,
               !.chip = IF onChip THEN Over(@, At(a, <<v>>)) ELSE @,
               !.log = IF onChip THEN Append(@, <<"w", a, v>>) ELSE @]

Put(m, a, v) == PutTo(m, Sinks(Bank(m), a), a, v)
PutIo(m, a, v) == PutTo(m, IoSinks(Bank(m), a), a, v)
PutRam(m, a, v) == [m EXCEPT !.ram = Over(@, At(a, <<v>>))]

-----------------------------------------------------------------------------
(* Properties of the map. *)

\* What the memory configuration logic of the C64 makes of the three lines at
\* $0001 (LORAM, HIRAM, CHAREN): the table of the machine, written down
\* independently of the tests the code makes.
WiredSource(b, a) ==
  LET area == a \div \h1000
      mode == b % 8
      page == a \div \h100
      io == IF page < \hD4 THEN "vic"
            ELSE IF page < \hD8 \/ page = \hDE THEN "sid"
            ELSE IF page \in {\hDC, \hDD} THEN "cia" ELSE "io"
  IN CASE area \in {10, 11} -> IF mode \in {3, 7} THEN "basic" ELSE "ram"
       [] area \in {14, 15} -> IF mode \in {2, 3, 6, 7} THEN "kernal" ELSE "ram"
       [] area = 13 -> IF mode \in {1, 2, 3} THEN "char"
                       ELSE IF mode \in {5, 6, 7} THEN io ELSE "ram"
       [] OTHER -> "ram"

\* Under every bank setting an address is answered by the part of the machine
\* its memory logic selects; what is written goes to the same place, and to
\* the RAM below where that place is a ROM.
BankRight(b, a) ==
  /\ Source(b, a) = WiredSource(b, a)
  /\ Source(b, a) \in {"basic", "kernal", "char", "ram"} => Sinks(b, a) = {"ram"}
  /\ Source(b, a) \in Chips => /\ Source(b, a) \in Sinks(b, a)
                               /\ "ram" \in Sinks(b, a) <=> Source(b, a) = "cia"

\* A PSID that does not set the banks itself can run: under the setting chosen
\* for it the CPU finds the song's own bytes, not a ROM or a chip, where its
\* init routine (inside the loaded range) and its play routine start.
PsidReachable(load, end, init, play, bank) ==
  /\ Within(init, load, end) => Source(DefaultBanksPSID(init, end), init) = "ram"
  /\ play # 0 => Source(ResetBanks(bank, play), play) = "ram"
=============================================================================

------------------------------ MODULE Machine ------------------------------
(***************************************************************************)
(* The CPU with the chips that interrupt and stun it, clocked together as  *)
(* sysClock() does for an RSID (src/system.cpp).  Of the two CIAs only     *)
(* the interrupt lines are part of this model; module Cia says when they   *)
(* rise.  A song is the set of operations it consists of.                  *)
(***************************************************************************)
EXTENDS Vic, CpuInterrupts

CONSTANT Songs   \* bound: what songs do; see Song

(* Its operations, its writes to the VIC, and the CIAs it programs.        *)
Write == [reg : {"d011"}, hi : BOOLEAN, den : BOOLEAN, yscroll : 0 .. Rows - 1]
  \cup [reg : {"d012"}, lo : 0 .. LowLines - 1]
  \cup [reg : {"d019"}, bits : SUBSET {"raster", "irq"}]
  \cup [reg : {"d01a"}, on : BOOLEAN]
Song == [ops : SUBSET Program, writes : SUBSET Write, cias : SUBSET {"irq", "nmi"}]

ASSUME SongsAssumption == Songs \subseteq Song

VARIABLES
  song,
  cia1,  \* the IRQ line of CIA1
  cia2,  \* the NMI line of CIA2
  (* observers *)
  ready,   \* samples in a row that saw an IRQ while the flag I was clear
  seen,    \* samples in a row that saw an IRQ
  last,    \* the operation that ended last
  masked,  \* the flag I was set when the current or last operation began
  nmiWas,  \* the NMI line in the last clock
  owed,    \* the NMI line was activated and no handler entered since
  due,     \* samples since
  held,    \* the IRQ was active ever since its handler was entered
  fresh,   \* clocks since an IRQ was first seen that no handler was entered
           \* for; 0 if none was
  hits,    \* raster matches in this frame
  moved,   \* the compare value was written in this frame
  lost,    \* clocks of this line in which the CPU was stunned
  touched  \* $D011 was written in this line

observers == <<ready, seen, last, masked, nmiWas, owed, due, held, fresh,
               hits, moved, lost, touched>>
vars == <<song, vic, cpu, cia1, cia2, observers>>

Init ==
  /\ song \in Songs
  /\ vic = VicReset /\ cpu = CpuInit
  /\ cia1 = FALSE /\ cia2 = FALSE
  /\ ready = 0 /\ seen = 0 /\ last = None /\ masked = FALSE
  /\ nmiWas = FALSE /\ owed = FALSE /\ due = 0
  /\ held = FALSE /\ fresh = 0
  /\ hits = 0 /\ moved = TRUE /\ lost = 0 /\ touched = TRUE
-----------------------------------------------------------------------------
(* A line stays active once it is; a CIA that is in use may activate it.   *)
Raise(line, which) == {line} \cup (IF which \in song.cias THEN {TRUE} ELSE {})

(* What the CPU knows after it has sampled the lines.                      *)
Sampled(v, i, n) == CheckForNMI(CheckForIRQ(Aged(cpu), v.signal \/ i), n)

(* Each of the following is one clock of the CPU; v, i, n are the chips    *)
(* after theirs and c is what it has sampled.                              *)
Stunned(v, i, n, c) ==
  /\ IsStunned(c, VicStunCPU(v))
  /\ cpu' = c /\ vic' = v /\ cia1' = i /\ cia2' = n

Begins(v, c) == ~ IsStunned(c, VicStunCPU(v)) /\ c.op = None

Interrupts(v, i, n, c) ==
  /\ Begins(v, c)
  /\ \/ IsNMIPending(c) /\ cpu' = StartNMI(c)
     \/ ~ IsNMIPending(c) /\ IsIRQPending(c) /\ cpu' = StartIRQ(c)
  /\ vic' = v /\ cia1' = i /\ cia2' = n

Fetches(v, i, n, c) ==
  /\ Begins(v, c) /\ ~ IsNMIPending(c) /\ ~ IsIRQPending(c)
  /\ \E op \in song.ops : cpu' = Prefetch(c, op)
  /\ vic' = v /\ cia1' = i /\ cia2' = n

Continues(v, c) == ~ IsStunned(c, VicStunCPU(v)) /\ c.op # None

Works(v, i, n, c) ==
  /\ Continues(v, c) /\ ~ Triggers(c)
  /\ cpu' = Advance(c) /\ vic' = v /\ cia1' = i /\ cia2' = n

(* vicWriteMem()                                                           *)
VicWriteMem(v, w) ==
  CASE w.reg = "d011" -> WriteD011(v, w.hi, w.den, w.yscroll)
    [] w.reg = "d012" -> WriteD012(v, w.lo)
    [] w.reg = "d019" -> WriteD019(v, w.bits)
    [] w.reg = "d01a" -> WriteD01A(v, w.on)

(* The operation takes effect.  A load may read the interrupt control      *)
(* register of a CIA, which gives up its line.                             *)
TakesEffect(v, i, n, c) ==
  /\ Continues(v, c) /\ Triggers(c)
  /\ \E pulled \in BOOLEAN : cpu' = Advance(RunPrefetchedOp(c, pulled))
  /\ IF c.op = "store" /\ song.writes # {}
     THEN \E w \in song.writes : vic' = VicWriteMem(v, w)
     ELSE vic' = v
  /\ \/ cia1' = i /\ cia2' = n
     \/ c.op = "load" /\ cia1' = FALSE /\ cia2' = n
     \/ c.op = "load" /\ cia1' = i /\ cia2' = FALSE

(* sysClock(): the VIC, the CIAs, then the CPU.                            *)
SysClock(v, i, n, c) ==
  \/ Stunned(v, i, n, c)
  \/ Interrupts(v, i, n, c)
  \/ Fetches(v, i, n, c)
  \/ Works(v, i, n, c)
  \/ TakesEffect(v, i, n, c)
-----------------------------------------------------------------------------
(* The observers.                                                          *)
Few(n, max) == IF n < max THEN n ELSE max

SeesIRQ(v, i) == (v.signal \/ i) /\ cpu.noI

Watch(v, i, n, c) ==
  /\ ready' = IF SeesIRQ(v, i) THEN Few(ready + 1, 4) ELSE 0
  /\ seen' = IF v.signal \/ i THEN Few(seen + 1, 4) ELSE 0
  /\ masked' = IF cpu.op = None /\ cpu'.op # None THEN ~ cpu.noI ELSE masked
  /\ last' = IF cpu.op # None /\ cpu'.op = None THEN cpu.op ELSE last
  /\ owed' = IF cpu.op = None /\ cpu'.op = "nmi" THEN FALSE
             ELSE owed \/ (n /\ ~ nmiWas)
  /\ due' = IF (n /\ ~ nmiWas) \/ ~ owed THEN 0 ELSE Few(due + 1, OldAge)
  /\ nmiWas' = n
  /\ LET enters == cpu.op = None /\ cpu'.op = "irq"
     IN  /\ held' = ((enters \/ held) /\ cpu'.op = "irq" /\ (v.signal \/ i))
         /\ fresh' = IF enters THEN 0
                     ELSE IF fresh > 0 \/ (SeesIRQ(v, i) /\ ~ held)
                     THEN Few(fresh + 1, OldAge)
                     ELSE 0
  /\ LET first == v.x = 0 /\ v.y = 0
     IN  /\ hits' = Few((IF first THEN 0 ELSE hits)
                         + (IF v.hit THEN 1 ELSE 0), 2)
         /\ moved' = (vic'.rasterLatch # v.rasterLatch \/ (moved /\ ~ first))
  /\ lost' = (IF v.x = 0 THEN 0 ELSE lost)
               + (IF IsStunned(c, VicStunCPU(v)) THEN 1 ELSE 0)
  /\ touched' = ((touched /\ v.x # 0)
                   \/ <<vic'.yscroll, vic'.badlineDen>> # <<v.yscroll, v.badlineDen>>)

Next ==
  /\ UNCHANGED song
  /\ LET v == VicClock(vic)
     IN  \E i \in Raise(cia1, "irq"), n \in Raise(cia2, "nmi") :
           LET c == Sampled(v, i, n)
           IN  SysClock(v, i, n, c) /\ Watch(v, i, n, c)

Spec == Init /\ [][Next]_vars
-----------------------------------------------------------------------------
TypeOK == /\ song \in Songs /\ vic \in VicState /\ cpu \in CpuState
          /\ cia1 \in BOOLEAN /\ cia2 \in BOOLEAN
          /\ ready \in 0 .. 4 /\ seen \in 0 .. 4 /\ masked \in BOOLEAN
          /\ last \in Op \cup {None}
          /\ owed \in BOOLEAN /\ due \in Age /\ fresh \in Age /\ held \in BOOLEAN
          /\ nmiWas \in BOOLEAN
          /\ hits \in 0 .. 2 /\ moved \in BOOLEAN
          /\ lost \in Cycle /\ touched \in BOOLEAN

BeginsOp == cpu.op = None /\ cpu'.op # None

(* cpu.c:98-105: an IRQ that was there, with the flag I clear, for the     *)
(* lead time before an operation ends is taken right after it: 2 cycles,   *)
(* 3 for a branch to the same page - unless an NMI goes first.  For a RTI  *)
(* that clears the flag I it counts as cleared all along (cpu.c:115-119).  *)
LeadTime == IF last = "branch" THEN 3 ELSE 2

IRQOnTime ==
  [][BeginsOp /\ (\/ ready' > LeadTime
                  \/ last = "rti" /\ cpu.noI /\ seen' > LeadTime)
       => cpu'.op \in {"irq", "nmi"}]_vars

(* ... "Otherwise, the CPU executes the next command first"; and one       *)
(* interrupt does not enter the handler twice.                             *)
IRQNotEarly == [][BeginsOp /\ cpu'.op = "irq" => fresh >= LeadTime]_vars

(* cpu.c:125-128: "if an interrupt is pending and the I flag is currently  *)
(* set, executing CLI will execute the next instruction before the CPU     *)
(* invokes the IRQ handler".                                               *)
CLIDelays ==
  [][BeginsOp /\ last = "cli" /\ masked => cpu'.op # "irq"]_vars

(* cpu.c:121-125: while the flag I is set no IRQ is taken, but for one     *)
(* that was polled before a SEI or PLP set the flag.                       *)
FlagBlocksIRQ ==
  [][BeginsOp /\ cpu'.op = "irq" => cpu.noI \/ last \in {"sei", "plp"}]_vars

(* cpu.c:293-297, 358: an operation that has come to its bus writes        *)
(* goes on when only reads are stunned.                                    *)
WritesNext(c) == /\ c.op # None
                 /\ WriteCycle(c.op) # 0
                 /\ Cycles(c.op) - c.remain + 1 >= WriteCycle(c.op)

WritesGoOn ==
  [][WritesNext(cpu) /\ VicStunCPU(vic') = 1 => cpu'.remain # cpu.remain]_vars

(* cpu.c:242-256: an NMI is entered once for an activation of the line,    *)
(* even if that is gone already, after its lead time and before any IRQ.   *)
(* An IRQ that slips through a SEI shortens the one lead time there is     *)
(* (cpu.c:217), so that of an NMI that comes in the last cycle of the SEI. *)
NMILead == IF last = "sei" /\ cpu.slip = "slipped" THEN 1 ELSE LeadTime

NMIOnEdge ==
  [][BeginsOp => (cpu'.op = "nmi" <=> owed /\ due' >= NMILead)]_vars

(* vic.c:133: a raster line below the end of the screen matches once in    *)
(* each frame, also line 0, if the compare value is left alone.            *)
LastCycle == vic.x = CyclesPerRaster - 1
RasterOncePerFrame ==
  LastCycle /\ vic.y = LinesPerScreen - 1 /\ ~ moved =>
    hits = IF vic.rasterLatch < LinesPerScreen THEN 1 ELSE 0

(* A raster interrupt is not lost: when a match is flagged and enabled, in *)
(* whichever order that came about, the IRQ is raised (vic.c:316 "check if *)
(* RASTER condition has already fired previously") - but for a write of    *)
(* $D019 in that very clock.                                               *)
Armed(v) == v.d01a /\ "raster" \in v.d019
WritesLatch == cpu.op = "store" /\ cpu'.op = None /\ vic'.d01a = vic.d01a

RasterIRQRaised ==
  [][Armed(vic)' /\ ~ Armed(vic) => vic'.signal \/ WritesLatch]_vars

(* cpu.c:331: a bad line stuns the CPU "for 40 (+up to 3) cycles".         *)
LostCycles ==
  LastCycle /\ ~ touched =>
    lost \in {0} \cup ((BlockTo - BlockFrom + 1) .. (BlockTo - StunFrom + 1))
=============================================================================

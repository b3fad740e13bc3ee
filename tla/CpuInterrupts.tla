--------------------------- MODULE CpuInterrupts ---------------------------
(***************************************************************************)
(* How the emulated CPU samples its interrupt lines, when it enters a      *)
(* handler and when the VIC stuns it (src/cpu.c).                          *)
(*                                                                         *)
(* Of an operation the model keeps its duration, the cycle it takes effect *)
(* in, its bus writes and what it does to the flag I.  The counter         *)
(* SYS_CYCLES is only used for differences: a time stamp is its age.       *)
(***************************************************************************)
EXTENDS Naturals

(* Operations with typical timing; "irq" and "nmi" are the pseudo          *)
(* operations START_IRQ_OP and START_NMI_OP, "branch" is a branch taken to *)
(* the same page.                                                          *)
Program == {"nop", "load", "store", "branch", "sei", "cli", "plp", "rti"}
Op == Program \cup {"irq", "nmi"}

(* _opbase_frame_cycles and the adjustments of prefetchOperation()         *)
Cycles(op) == CASE op \in {"nop", "sei", "cli"} -> 2
                [] op = "branch" -> 3
                [] op \in {"load", "store", "plp"} -> 4
                [] op = "rti" -> 6
                [] op \in {"irq", "nmi"} -> 7

(* _opbase_write_trigger: the effect comes this many cycles before the end *)
Trigger(op) == IF op \in {"irq", "nmi", "rti"} THEN 2 ELSE 0

(* _opbase_write_cycle: the first cycle of the bus writes, 0 if none       *)
WriteCycle(op) == CASE op \in {"irq", "nmi"} -> 3
                    [] op = "store" -> 4
                    [] OTHER -> 0

(* IRQ_LEAD_DEFAULT, and adjustBranchTaken()                               *)
Lead(op) == IF op = "branch" THEN 3 ELSE 2

OldAge == 4   \* bound of ages: longer than any lead time
Age == 0 .. OldAge
None == "none"

CpuState == [
  op : Op \cup {None},     \* _exe_instr_opcode
  remain : 0 .. 7,         \* _exe_instr_cycles_remain
  lead : 1 .. 3,           \* _interrupt_lead_time
  noI : BOOLEAN,           \* _no_flag_i
  slip : {"blocked", "potential", "slipped"},   \* _slip_status
  irqCommitted : BOOLEAN,
  irqStamped : BOOLEAN,    \* _irq_line_ts is set ...
  irqAge : Age,            \* ... and SYS_CYCLES() - _irq_line_ts
  nmiCommitted : BOOLEAN,
  nmiLine : BOOLEAN,
  nmiAge : Age]

VARIABLE cpu

(* cpuInit()                                                               *)
CpuInit == [op |-> None, remain |-> 0, lead |-> 2, noI |-> TRUE,
            slip |-> "blocked",
            irqCommitted |-> FALSE, irqStamped |-> FALSE, irqAge |-> 0,
            nmiCommitted |-> FALSE, nmiLine |-> FALSE, nmiAge |-> 0]
-----------------------------------------------------------------------------
Older(age) == IF age < OldAge THEN age + 1 ELSE age

(* The counter has advanced since the last clock.                          *)
Aged(c) == [c EXCEPT !.irqAge = IF c.irqStamped THEN Older(@) ELSE 0,
                     !.nmiAge = IF c.nmiCommitted THEN Older(@) ELSE 0]

(* Mutant: the line is stamped in each clock.                              *)
RestampIRQ(c) ==
  [c EXCEPT !.irqCommitted = TRUE, !.irqStamped = TRUE, !.irqAge = 0]

(* COMMIT_TO_IRQ                                                           *)
CommitToIRQ(c) ==
  IF c.irqStamped THEN c
  ELSE [c EXCEPT !.irqCommitted = TRUE, !.irqStamped = TRUE, !.irqAge = 0]

Unstamp(c) ==
  IF c.irqCommitted THEN c ELSE [c EXCEPT !.irqStamped = FALSE, !.irqAge = 0]

(* An IRQ that came in the first cycle of a SEI slips through.             *)
SlipThroughSei(c) ==
  IF c.irqCommitted /\ c.irqAge = 1
  THEN [c EXCEPT !.slip = "slipped", !.lead = 1]
  ELSE c

(* CHECK_FOR_IRQ                                                           *)
CheckForIRQ(c, line) ==
  IF ~ line THEN Unstamp(c)
  ELSE IF c.noI THEN CommitToIRQ(c)
  ELSE IF c.op = "sei" THEN Unstamp(SlipThroughSei(c))
  ELSE Unstamp(c)

(* Mutant: the line is taken for a level.                                  *)
CheckNMILevel(c, line) ==
  IF line /\ ~ c.nmiCommitted
  THEN [c EXCEPT !.nmiCommitted = TRUE, !.nmiLine = TRUE, !.nmiAge = 0]
  ELSE c

(* CHECK_FOR_NMI (without the hack that lets the flag I block NMIs): only  *)
(* the activation of the line counts.                                      *)
CheckForNMI(c, line) ==
  IF ~ line THEN [c EXCEPT !.nmiLine = FALSE]
  ELSE IF c.nmiLine THEN c
  ELSE [c EXCEPT !.nmiCommitted = TRUE, !.nmiLine = TRUE, !.nmiAge = 0]

(* IS_IRQ_PENDING and IS_NMI_PENDING                                       *)
IsIRQPending(c) ==
  c.irqCommitted /\ (c.noI \/ c.slip = "slipped") /\ c.irqAge >= c.lead

IsNMIPending(c) == c.nmiCommitted /\ c.nmiAge >= c.lead

(* CHECK_FOR_VIC_STUN: the bus writes of an operation go on in mode 1.     *)
Writes(c) == /\ c.op # None
             /\ WriteCycle(c.op) # 0
             /\ Cycles(c.op) - c.remain >= WriteCycle(c.op)

IsStunned(c, stunMode) == stunMode = 2 \/ (stunMode = 1 /\ ~ Writes(c))

(* INIT_OP                                                                 *)
InitOp(c, op) ==
  [c EXCEPT !.op = op, !.remain = Cycles(op) - 1, !.lead = Lead(op)]

(* Mutant: the time stamp goes with the commitment, as for the NMI.        *)
StartIRQUnstamped(c) ==
  [InitOp(c, "irq") EXCEPT !.irqCommitted = FALSE, !.irqStamped = FALSE]

(* What a handler's start does to its commitment; the time stamp of an IRQ *)
(* stays, so that the line is not committed to again before the flag I is  *)
(* set.                                                                    *)
StartIRQ(c) == [InitOp(c, "irq") EXCEPT !.irqCommitted = FALSE]
StartNMI(c) == [InitOp(c, "nmi") EXCEPT !.nmiCommitted = FALSE, !.nmiAge = 0]

(* prefetchOperation(): a SEI is executed at once.                         *)
Prefetch(c, op) ==
  LET d == InitOp(c, op)
  IN  IF op # "sei" THEN d
      ELSE [d EXCEPT !.noI = FALSE,
                     !.slip = IF c.noI THEN "potential" ELSE "blocked"]

(* Mutant: a RTI takes effect in its last cycle.                           *)
TriggersLate(c) == c.remain - 1 = 0

(* The next cycle is the one in which the operation takes effect.          *)
Triggers(c) == c.remain - 1 = Trigger(c.op)

(* runPrefetchedOp(), as far as the flag I goes; "pulled" is the flag on   *)
(* the stack.                                                              *)
RunPrefetchedOp(c, pulled) ==
  CASE c.op \in {"irq", "nmi"} -> [c EXCEPT !.noI = FALSE]
    [] c.op = "cli" -> [c EXCEPT !.noI = TRUE]
    [] c.op \in {"plp", "rti"} -> [c EXCEPT !.noI = ~ pulled]
    [] OTHER -> c

Advance(c) == [c EXCEPT !.remain = @ - 1,
                        !.op = IF c.remain = 1 THEN None ELSE @]
=============================================================================

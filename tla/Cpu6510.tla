--------------------------------- MODULE Cpu6510 ---------------------------------
(***************************************************************************)
(* The instruction set of the emulated 6510 (cpu_operations.inc): decoding, *)
(* addressing, duration, and the effect of every operation, the             *)
(* undocumented ones and the two pseudo operations that enter an interrupt  *)
(* included.  An operation is prefetched (its duration is decided, its      *)
(* opcode consumed) and later run in one step, as in the code.  When a      *)
(* pending interrupt is taken is the subject of CpuInterrupts; here it may  *)
(* come between any two instructions.                                       *)
(***************************************************************************)
EXTENDS CpuAlu, MemoryMap, Bitwise

CONSTANTS MaxNesting,   \* interrupt handlers that may be under way at once
          MaxInterrupts \* interrupts in one behaviour (a bound of the model)

ASSUME BoundsAssumption == MaxNesting \in Nat /\ MaxInterrupts \in Nat

VARIABLES cpu,    \* [a, x, y, s, p, pc]: p is the set of flags that are set
          mem,    \* see MemoryMap
          pre,    \* the prefetched operation: opcode, its address, its cycles
          frames, \* history: what each running interrupt handler interrupted
          taken   \* interrupts so far

vars == <<cpu, mem, pre, frames, taken>>

-----------------------------------------------------------------------------
(* Decoding. *)

Modes ==
  <<"imp", "idx", "abs", "idx", "zpg", "zpg", "zpg", "zpg", "imp", "imm", "acc", "imm", "abs", "abs", "abs", "abs",
    "rel", "idy", "abs", "idy", "zpx", "zpx", "zpx", "zpx", "imp", "aby", "imp", "aby", "abx", "abx", "abx", "abx",
    "abs", "idx", "imp", "idx", "zpg", "zpg", "zpg", "zpg", "imp", "imm", "acc", "imm", "abs", "abs", "abs", "abs",
    "rel", "idy", "imp", "idy", "zpx", "zpx", "zpx", "zpx", "imp", "aby", "imp", "aby", "abx", "abx", "abx", "abx",
    "imp", "idx", "imp", "idx", "zpg", "zpg", "zpg", "zpg", "imp", "imm", "acc", "imm", "abs", "abs", "abs", "abs",
    "rel", "idy", "imp", "idy", "zpx", "zpx", "zpx", "zpx", "imp", "aby", "imp", "aby", "abx", "abx", "abx", "abx",
    "imp", "idx", "imp", "idx", "zpg", "zpg", "zpg", "zpg", "imp", "imm", "acc", "imm", "ind", "abs", "abs", "abs",
    "rel", "idy", "imp", "idy", "zpx", "zpx", "zpx", "zpx", "imp", "aby", "imp", "aby", "abx", "abx", "abx", "abx",
    "imm", "idx", "imm", "idx", "zpg", "zpg", "zpg", "zpg", "imp", "imm", "imp", "imm", "abs", "abs", "abs", "abs",
    "rel", "idy", "imp", "idy", "zpx", "zpx", "zpy", "zpy", "imp", "aby", "imp", "aby", "abx", "abx", "aby", "aby",
    "imm", "idx", "imm", "idx", "zpg", "zpg", "zpg", "zpg", "imp", "imm", "imp", "imm", "abs", "abs", "abs", "abs",
    "rel", "idy", "imp", "idy", "zpx", "zpx", "zpy", "zpy", "imp", "aby", "imp", "aby", "abx", "abx", "aby", "aby",
    "imm", "idx", "imm", "idx", "zpg", "zpg", "zpg", "zpg", "imp", "imm", "imp", "imm", "abs", "abs", "abs", "abs",
    "rel", "idy", "imp", "idy", "zpx", "zpx", "zpx", "zpx", "imp", "aby", "imp", "aby", "abx", "abx", "abx", "abx",
    "imm", "idx", "imm", "idx", "zpg", "zpg", "zpg", "zpg", "imp", "imm", "imp", "imm", "abs", "abs", "abs", "abs",
    "rel", "idy", "imp", "idy", "zpx", "zpx", "zpx", "zpx", "imp", "aby", "imp", "aby", "abx", "abx", "abx", "abx">>

Mnemonics ==
  <<"brk", "ora", "sti", "slo", "nop", "ora", "asl", "slo", "php", "ora", "asl", "anc", "nop", "ora", "asl", "slo",
    "bpl", "ora", "stn", "slo", "nop", "ora", "asl", "slo", "clc", "ora", "nop", "slo", "nop", "ora", "asl", "slo",
    "jsr", "and", "jam", "rla", "bit", "and", "rol", "rla", "plp", "and", "rol", "anc", "bit", "and", "rol", "rla",
    "bmi", "and", "jam", "rla", "nop", "and", "rol", "rla", "sec", "and", "nop", "rla", "nop", "and", "rol", "rla",
    "rti", "eor", "jam", "sre", "nop", "eor", "lsr", "sre", "pha", "eor", "lsr", "alr", "jmp", "eor", "lsr", "sre",
    "bvc", "eor", "jam", "sre", "nop", "eor", "lsr", "sre", "cli", "eor", "nop", "sre", "nop", "eor", "lsr", "sre",
    "rts", "adc", "jam", "rra", "nop", "adc", "ror", "rra", "pla", "adc", "ror", "arr", "jmp", "adc", "ror", "rra",
    "bvs", "adc", "jam", "rra", "nop", "adc", "ror", "rra", "sei", "adc", "nop", "rra", "nop", "adc", "ror", "rra",
    "nop", "sta", "nop", "sax", "sty", "sta", "stx", "sax", "dey", "nop", "txa", "ane", "sty", "sta", "stx", "sax",
    "bcc", "sta", "jam", "sha", "sty", "sta", "stx", "sax", "tya", "sta", "txs", "shs", "shy", "sta", "shx", "sha",
    "ldy", "lda", "ldx", "lax", "ldy", "lda", "ldx", "lax", "tay", "lda", "tax", "lxa", "ldy", "lda", "ldx", "lax",
    "bcs", "lda", "jam", "lax", "ldy", "lda", "ldx", "lax", "clv", "lda", "tsx", "lae", "ldy", "lda", "ldx", "lax",
    "cpy", "cmp", "nop", "dcp", "cpy", "cmp", "dec", "dcp", "iny", "cmp", "dex", "sbx", "cpy", "cmp", "dec", "dcp",
    "bne", "cmp", "jam", "dcp", "nop", "cmp", "dec", "dcp", "cld", "cmp", "nop", "dcp", "nop", "cmp", "dec", "dcp",
    "cpx", "sbc", "nop", "isb", "cpx", "sbc", "inc", "isb", "inx", "sbc", "nop", "sbc", "cpx", "sbc", "inc", "isb",
    "beq", "sbc", "jam", "isb", "nop", "sbc", "inc", "isb", "sed", "sbc", "nop", "isb", "nop", "sbc", "inc", "isb">>

BaseCycles ==
  <<7, 6, 7, 8, 3, 3, 5, 5, 3, 2, 2, 2, 4, 4, 6, 6,
    2, 5, 7, 8, 4, 4, 6, 6, 2, 4, 2, 7, 4, 4, 7, 7,
    6, 6, 0, 8, 3, 3, 5, 5, 4, 2, 2, 2, 4, 4, 6, 6,
    2, 5, 0, 8, 4, 4, 6, 6, 2, 4, 2, 7, 4, 4, 7, 7,
    6, 6, 0, 8, 3, 3, 5, 5, 3, 2, 2, 2, 3, 4, 6, 6,
    2, 5, 0, 8, 4, 4, 6, 6, 2, 4, 2, 7, 4, 4, 7, 7,
    6, 6, 0, 8, 3, 3, 5, 5, 4, 2, 2, 2, 5, 4, 6, 6,
    2, 5, 0, 8, 4, 4, 6, 6, 2, 4, 2, 7, 4, 4, 7, 7,
    2, 6, 2, 6, 3, 3, 3, 3, 2, 2, 2, 2, 4, 4, 4, 4,
    2, 6, 0, 6, 4, 4, 4, 4, 2, 5, 2, 5, 5, 5, 5, 5,
    2, 6, 2, 6, 3, 3, 3, 3, 2, 2, 2, 2, 4, 4, 4, 4,
    2, 5, 0, 5, 4, 4, 4, 4, 2, 4, 2, 4, 4, 4, 4, 4,
    2, 6, 2, 8, 3, 3, 5, 5, 2, 2, 2, 2, 4, 4, 6, 6,
    2, 5, 0, 8, 4, 4, 6, 6, 2, 4, 2, 7, 4, 4, 7, 7,
    2, 6, 2, 8, 3, 3, 5, 5, 2, 2, 2, 2, 4, 4, 6, 6,
    2, 5, 0, 8, 4, 4, 6, 6, 2, 4, 2, 7, 4, 4, 7, 7>>

Mode(opc) == Modes[opc + 1]
Mnemonic(opc) == Mnemonics[opc + 1]

StiOp == \h02            \* the opcodes of two JAMs stand for IRQ and NMI
StnOp == \h12

\* Operand bytes that getInput and operationSTx consume.
Size(mode) == CASE mode \in {"acc", "imp"} -> 0
                [] mode \in {"abs", "abx", "aby", "ind"} -> 2
                [] OTHER -> 1

\* The pointer at z wraps around in page 0.
Pointer(m, z) == Word(Get(m, z % \h100), Get(m, (z + 1) % \h100))

\* The address that the operand bytes, one or a word of two, name.
Named(c, m, mode, one, two) ==
  CASE mode = "abs" -> two
    [] mode = "abx" -> (two + c.x) % \h10000
    [] mode = "aby" -> (two + c.y) % \h10000
    [] mode = "zpg" -> one
    [] mode = "zpx" -> (one + c.x) % \h100
    [] mode = "zpy" -> (one + c.y) % \h100
    [] mode = "idx" -> Pointer(m, one + c.x)
    [] mode = "idy" -> (Pointer(m, one) + c.y) % \h10000

\* The effective address, for an operand that starts at at.
Address(c, m, mode, at) ==
  IF mode = "imm" THEN at
  ELSE Named(c, m, mode, Get(m, at), Word(Get(m, at), Get(m, (at + 1) % \h10000)))

Past(c, mode) == [c EXCEPT !.pc = (@ + Size(mode)) % \h10000]

\* getInput: the value and the memory after the read (a chip may notice it).
ReadAt(m, a) == [v |-> Get(m, a), m |-> Touch(m, a)]
Input(c, m, mode) ==
  CASE mode = "acc" -> [v |-> c.a, m |-> m]
    [] mode = "imp" -> [v |-> 0, m |-> m]
    [] OTHER -> ReadAt(m, Address(c, m, mode, c.pc))

\* Mutant: one operand byte whatever the mode.
OutputAddressShort(c, m, mode) == Address(c, m, mode, (c.pc - 1) % \h10000)

\* getOutputAddr works back from the counter that getInput has moved on.
OutputAddress(c, m, mode) ==
  Address(c, m, mode, (c.pc - (IF mode \in {"abs", "abx", "aby"} THEN 2 ELSE 1)) % \h10000)

\* getH1: one more than the high byte of the address.
H1(c, m, mode) == (High(Address(c, m, mode, c.pc)) + 1) % \h100

-----------------------------------------------------------------------------
(* Registers, flags, stack. *)

SetFlag(c, f, on) == [c EXCEPT !.p = IF on THEN @ \cup {f} ELSE @ \ {f}]
NZ(c, v) == SetFlag(SetFlag(c, "Z", v = 0), "N", Sign(v))
SetA(c, v) == NZ([c EXCEPT !.a = v], v)
SetX(c, v) == NZ([c EXCEPT !.x = v], v)
SetY(c, v) == NZ([c EXCEPT !.y = v], v)
CarryIn(c) == IF "C" \in c.p THEN 1 ELSE 0

FlagBits == [N |-> 128, V |-> 64, D |-> 8, I |-> 4, Z |-> 2, C |-> 1]
Flags == DOMAIN FlagBits
B0 == 16
B1 == 32
PByte(p) == LET bit(f) == IF f \in p THEN FlagBits[f] ELSE 0
            IN bit("N") + bit("V") + bit("D") + bit("I") + bit("Z") + bit("C")
PFrom(b) == {f \in Flags : (b \div FlagBits[f]) % 2 = 1}     \* b & ~(B0 | B1)

\* [c, m] with val pushed; the stack wraps around in page 1.
Push(cm, val) == [c |-> [cm.c EXCEPT !.s = (@ - 1) % \h100],
                  m |-> PutRam(cm.m, \h100 + cm.c.s, val)]
\* Mutant: the stack pointer leaves its page.
Pop1NoWrap(c) == [c EXCEPT !.s = @ + 1]

Pop1(c) == [c EXCEPT !.s = (@ + 1) % \h100]
Top(c, m) == Ram(m, \h100 + c.s)

PushWord(cm, w) == Push(Push(cm, High(w)), Low(w))
PopWord(c, m) == Word(Top(Pop1(c), m), Top(Pop1(Pop1(c)), m))

Vector(m, a) == Word(Get(m, a), Get(m, a + 1))

\* sti, stn and brk: return address and flags, then on through a vector with
\* further interrupts blocked.
Enter(c, m, return, pushed, vector) ==
  LET cm == Push(PushWord([c |-> c, m |-> m], return), pushed)
  IN [c |-> SetFlag([cm.c EXCEPT !.pc = Vector(cm.m, vector)], "I", TRUE), m |-> cm.m]

-----------------------------------------------------------------------------
(* The effect of the operations, by group. *)

\* Mutant: the overflow flag of a sum is forgotten.
LetSumNoOverflow(c, sum) == SetFlag(SetA(c, sum.r), "C", sum.c)

LetSum(c, sum) == SetFlag(SetFlag(SetA(c, sum.r), "C", sum.c), "V", sum.v)

CompareWith(c, r, v) ==
  LET k == Compare(r, v)
  IN SetFlag(SetFlag(SetFlag(c, "Z", k.z), "N", k.n), "C", k.c)

ReadOps == {"adc", "alr", "anc", "and", "ane", "arr", "bit", "cmp", "cpx", "cpy", "eor",
            "lae", "lax", "lda", "ldx", "ldy", "lxa", "nop", "ora", "sbc", "sbx"}

\* Operations that take a value v from their operand and write registers only.
ReadOp(mn, c, v) ==
  CASE mn = "adc" -> LetSum(c, Add(c.a, v, CarryIn(c)))
    [] mn = "sbc" -> LetSum(c, Subtract(c.a, v, CarryIn(c)))
    [] mn = "and" -> SetA(c, c.a & v)
    [] mn = "ora" -> SetA(c, c.a | v)
    [] mn = "eor" -> SetA(c, c.a ^^ v)
    [] mn = "bit" -> SetFlag(SetFlag(SetFlag(c, "Z", c.a & v = 0), "N", Sign(v)), "V",
                             (v \div 64) % 2 = 1)
    [] mn = "cmp" -> CompareWith(c, c.a, v)
    [] mn = "cpx" -> CompareWith(c, c.x, v)
    [] mn = "cpy" -> CompareWith(c, c.y, v)
    [] mn = "lda" -> SetA(c, v)
    [] mn = "ldx" -> SetX(c, v)
    [] mn = "ldy" -> SetY(c, v)
    [] mn = "lax" -> SetA([c EXCEPT !.x = v], v)
    [] mn = "lae" -> LET w == v & c.s IN SetA([c EXCEPT !.x = w, !.s = w], w)
    [] mn = "lxa" -> SetA([c EXCEPT !.x = v], v)
    [] mn = "ane" -> SetA(c, (c.a & c.x) & v)
    [] mn = "alr" -> LET s == ShiftRight(c.a & v, 0) IN SetFlag(SetA(c, s.r), "C", s.c)
    [] mn = "anc" -> LET w == c.a & v IN SetFlag(SetA(c, w), "C", Sign(w))
    [] mn = "arr" -> LET w == c.a & v
                         bit6 == (w \div 64) % 2 = 1
                     IN SetFlag(SetFlag(SetA(c, ShiftRight(w, CarryIn(c)).r),
                                        "V", Sign(w) # bit6), "C", Sign(w))
    [] mn = "sbx" -> LET w == c.a & c.x
                     IN SetFlag(SetX(c, (w - v) % \h100), "C", w >= v)
    [] mn = "nop" -> c

\* Read-modify-write operations: the value w written back and the flags.
Modified(mn, c, v) ==
  LET shifted(s) == [w |-> s.r, c |-> SetFlag(c, "C", s.c)]
  IN CASE mn \in {"asl", "slo"} -> shifted(ShiftLeft(v, 0))
       [] mn \in {"rol", "rla"} -> shifted(ShiftLeft(v, CarryIn(c)))
       [] mn \in {"lsr", "sre"} -> shifted(ShiftRight(v, 0))
       [] mn \in {"ror", "rra"} -> shifted(ShiftRight(v, CarryIn(c)))
       [] mn \in {"inc", "isb"} -> [w |-> (v + 1) % \h100, c |-> c]
       [] mn \in {"dec", "dcp"} -> [w |-> (v - 1) % \h100, c |-> c]

\* What such an operation does with the new value afterwards.
AfterModify(mn, c, w) ==
  CASE mn \in {"asl", "rol", "lsr", "ror", "inc", "dec"} -> NZ(c, w)
    [] mn = "slo" -> SetA(c, c.a | w)
    [] mn = "rla" -> SetA(c, c.a & w)
    [] mn = "sre" -> SetA(c, c.a ^^ w)
    [] mn = "rra" -> LetSum(c, Add(c.a, w, CarryIn(c)))
    [] mn = "isb" -> LetSum(c, Subtract(c.a, w, CarryIn(c)))
    [] mn = "dcp" -> CompareWith(c, c.a, w)

RmwOps == {"asl", "rol", "lsr", "ror", "inc", "dec", "slo", "rla", "sre", "rra", "isb", "dcp"}

\* Undocumented stores that the code also sends through READ_MODIFY_WRITE; h
\* was taken before the operand bytes were consumed.
OddStores == {"sax", "sha", "shx", "shy", "shs"}
OddValue(mn, c, h) ==
  CASE mn = "sax" -> c.a & c.x
    [] mn = "sha" -> (c.a & c.x) & h
    [] mn = "shx" -> c.x & h
    [] mn = "shy" -> c.y & h
    [] mn = "shs" -> (c.a & c.x) & h

\* The write-back: only the interrupt register of the VIC sees both writes of
\* the real CPU.
WriteTwice(m, a, old, new) ==
  IF a = \hD019 THEN PutIo(PutIo(m, a, old), a, new) ELSE Put(m, a, new)
WriteBack(c, m, mode, old, new) ==
  IF mode = "acc" THEN [c |-> [c EXCEPT !.a = new], m |-> m]
  ELSE [c |-> c, m |-> WriteTwice(m, OutputAddress(c, m, mode), old, new)]

\* READ_MODIFY_WRITE, from back to front: in is what was read, mod the new
\* value, cm what the write has left.
Finished(mn, w, cm) == [c |-> AfterModify(mn, cm.c, w), m |-> cm.m]
Rewritten(mn, mode, in, mod) ==
  Finished(mn, mod.w, WriteBack(Past(mod.c, mode), in.m, mode, in.v, mod.w))
ModifiedFrom(mn, mode, c, in) == Rewritten(mn, mode, in, Modified(mn, c, in.v))
RunRmw(mn, mode, c, m) == ModifiedFrom(mn, mode, c, Input(c, m, mode))

OddStored(c, mode, in, value) == WriteBack(Past(c, mode), in.m, mode, in.v, value)
RunOddStore(mn, mode, c, m) ==
  LET c1 == IF mn = "shs" THEN [c EXCEPT !.s = c.a & c.x] ELSE c
  IN OddStored(c1, mode, Input(c1, m, mode), OddValue(mn, c, H1(c, m, mode)))

Stores == {"sta", "stx", "sty"}
RunStore(mn, mode, c, m) ==
  LET val == CASE mn = "sta" -> c.a [] mn = "stx" -> c.x [] mn = "sty" -> c.y
  IN [c |-> Past(c, mode), m |-> Put(m, Address(c, m, mode, c.pc), val)]

Branches == {"bcc", "bcs", "bne", "beq", "bpl", "bmi", "bvc", "bvs"}
BranchTaken(mn, c) ==
  CASE mn = "bcc" -> "C" \notin c.p  [] mn = "bcs" -> "C" \in c.p
    [] mn = "bne" -> "Z" \notin c.p  [] mn = "beq" -> "Z" \in c.p
    [] mn = "bpl" -> "N" \notin c.p  [] mn = "bmi" -> "N" \in c.p
    [] mn = "bvc" -> "V" \notin c.p  [] mn = "bvs" -> "V" \in c.p
RunBranch(mn, c, m) ==
  [c EXCEPT !.pc = IF BranchTaken(mn, c) THEN Target(c.pc, Get(m, c.pc))
                   ELSE (c.pc + 1) % \h10000]

\* One-byte operations on registers and flags.  sei has set its flag when it
\* was prefetched.
Implied == {"clc", "cld", "cli", "clv", "sec", "sed", "sei", "dex", "dey", "inx", "iny",
            "tax", "tay", "tsx", "txa", "txs", "tya", "jam"}
RunImplied(mn, c) ==
  CASE mn = "clc" -> SetFlag(c, "C", FALSE)   [] mn = "sec" -> SetFlag(c, "C", TRUE)
    [] mn = "cld" -> SetFlag(c, "D", FALSE)   [] mn = "sed" -> SetFlag(c, "D", TRUE)
    [] mn = "cli" -> SetFlag(c, "I", FALSE)   [] mn = "sei" -> c
    [] mn = "clv" -> SetFlag(c, "V", FALSE)
    [] mn = "inx" -> SetX(c, (c.x + 1) % \h100)
    [] mn = "dex" -> SetX(c, (c.x - 1) % \h100)
    [] mn = "iny" -> SetY(c, (c.y + 1) % \h100)
    [] mn = "dey" -> SetY(c, (c.y - 1) % \h100)
    [] mn = "tax" -> SetX(c, c.a)   [] mn = "txa" -> SetA(c, c.x)
    [] mn = "tay" -> SetY(c, c.a)   [] mn = "tya" -> SetA(c, c.y)
    [] mn = "tsx" -> SetX(c, c.s)   [] mn = "txs" -> [c EXCEPT !.s = c.x]
    [] mn = "jam" -> [c EXCEPT !.pc = 0]

\* Stack and control flow: [c, m].  brk pushes the counter behind its padding
\* byte, jsr the last byte of its operand; an indirect jmp does not carry into
\* the high byte of its pointer.
StackOps == {"pha", "php", "pla", "plp", "jsr", "brk", "jmp", "sti", "stn"}
RunStack(mn, mode, c, m) ==
  LET cm == [c |-> c, m |-> m]
      next == (c.pc + 1) % \h10000
      target == Word(Get(m, c.pc), Get(m, next))
      status == Pop1(c)
  IN CASE mn = "pha" -> Push(cm, c.a)
       [] mn = "php" -> Push(cm, PByte(c.p) + B0 + B1)
       [] mn = "pla" -> [c |-> SetA(status, Top(status, m)), m |-> m]
       [] mn = "plp" -> [c |-> [status EXCEPT !.p = PFrom(Top(status, m))], m |-> m]
       [] mn = "jsr" -> LET pushed == PushWord(cm, next)
                        IN [c |-> [pushed.c EXCEPT !.pc = Word(Get(pushed.m, c.pc), Get(pushed.m, next))],
                            m |-> pushed.m]
       [] mn = "brk" -> Enter(c, m, next, PByte(c.p) + B0 + B1, \hFFFE)
       [] mn = "sti" -> Enter(c, m, c.pc, PByte(c.p) + B1, \hFFFE)
       [] mn = "stn" -> Enter(c, m, c.pc, PByte(c.p) + B1, \hFFFA)
       [] mn = "jmp" -> [c |-> [c EXCEPT !.pc =
                            IF mode = "abs" THEN target
                            ELSE Word(Get(m, target), Get(m, Word((Low(target) + 1) % \h100, High(target))))],
                         m |-> m]

\* rts and rti, which adds no 1 to the address.  An rti placed in front of an
\* interrupt register of a timer chip acknowledges it.
Returns == {"rts", "rti"}
RunReturn(mn, c, m) ==
  LET status == Pop1(c)
  IN CASE mn = "rts" -> [c |-> [Pop1(status) EXCEPT !.pc = (PopWord(c, m) + 1) % \h10000], m |-> m]
       [] mn = "rti" -> [c |-> [Pop1(Pop1(status)) EXCEPT !.p = PFrom(Top(status, m)),
                                                          !.pc = PopWord(status, m)],
                         m |-> IF c.pc \in {\hDC0D, \hDD0D} THEN Touch(m, c.pc) ELSE m]

RunRead(mn, mode, c, in) == [c |-> ReadOp(mn, Past(c, mode), in.v), m |-> in.m]

\* runPrefetchedOp for an operation whose operand starts at c.pc.
Exec(opc, c, m) ==
  LET mn == Mnemonic(opc)
      mode == Mode(opc)
  IN CASE mn \in ReadOps -> RunRead(mn, mode, c, Input(c, m, mode))
       [] mn \in RmwOps -> RunRmw(mn, mode, c, m)
       [] mn \in OddStores -> RunOddStore(mn, mode, c, m)
       [] mn \in Stores -> RunStore(mn, mode, c, m)
       [] mn \in Branches -> [c |-> RunBranch(mn, c, m), m |-> m]
       [] mn \in Implied -> [c |-> RunImplied(mn, c), m |-> m]
       [] mn \in StackOps -> RunStack(mn, mode, c, m)
       [] mn \in Returns -> RunReturn(mn, c, m)

-----------------------------------------------------------------------------
(* Duration. *)

PageSensitive == {"adc", "and", "cmp", "eor", "lae", "lax", "lda", "ldx", "ldy", "nop",
                  "ora", "sbc"}

\* Mutant: indirect operands are left out.
CrossingAbsolute(c, m, mode) ==
  IF mode \in {"abx", "aby"}
  THEN IndexCycles(Address([c EXCEPT !.x = 0, !.y = 0], m, mode, c.pc), Address(c, m, mode, c.pc))
  ELSE 0

\* adjustPageBoundaryCrossing: base and indexed address, as 16-bit words.
CrossingCycles(c, m, mode) ==
  LET unindexed == [c EXCEPT !.x = 0, !.y = 0]
  IN IF mode \in {"abx", "aby", "idy"}
     THEN IndexCycles(Address(unindexed, m, mode, c.pc), Address(c, m, mode, c.pc))
     ELSE 0

\* prefetchOperation, with c.pc behind the opcode.
Cycles(opc, c, m) ==
  BaseCycles[opc + 1] +
    (CASE Mnemonic(opc) \in PageSensitive -> CrossingCycles(c, m, Mode(opc))
       [] Mnemonic(opc) \in Branches /\ BranchTaken(Mnemonic(opc), c)
            -> BranchCycles(c.pc, Get(m, c.pc))
       [] OTHER -> 0)

-----------------------------------------------------------------------------
(* The processor. *)

Idle(c) == [opc |-> -1, cycles |-> 0, from |-> c]    \* nothing is prefetched
Busy == pre.opc >= 0

Prefetch ==
  /\ ~ Busy
  /\ LET opc == Get(mem, cpu.pc)
         c == [cpu EXCEPT !.pc = (@ + 1) % \h10000]
     IN /\ pre' = [opc |-> opc, cycles |-> Cycles(opc, c, mem), from |-> c]
        /\ cpu' = IF Mnemonic(opc) = "sei" THEN SetFlag(c, "I", TRUE) ELSE c
  /\ mem' = [mem EXCEPT !.log = <<>>]
  /\ UNCHANGED <<frames, taken>>

\* An accepted interrupt is prefetched in place of the next instruction.  The
\* timer chip never lets a PSID raise an NMI.
TakeInterrupt(opc) ==
  /\ ~ Busy
  /\ IF opc = StiOp THEN "I" \notin cpu.p ELSE ~ mem.psid
  /\ taken < MaxInterrupts /\ Len(frames) < MaxNesting
  /\ pre' = [opc |-> opc, cycles |-> BaseCycles[opc + 1], from |-> cpu]
  /\ mem' = [mem EXCEPT !.log = <<>>]
  /\ taken' = taken + 1
  /\ UNCHANGED <<cpu, frames>>

\* frames: an interrupt entry adds what it interrupted, an RTI removes it.
NextFrames(mn) ==
  CASE mn \in {"sti", "stn"} -> Append(frames, [cpu |-> cpu, bank |-> Bank(mem)])
    [] mn = "rti" /\ frames # <<>> -> SubSeq(frames, 1, Len(frames) - 1)
    [] OTHER -> frames

Run ==
  /\ Busy
  /\ \E done \in {Exec(pre.opc, cpu, mem)} : cpu' = done.c /\ mem' = done.m
  /\ frames' = NextFrames(Mnemonic(pre.opc))
  /\ pre' = Idle(cpu')
  /\ UNCHANGED taken

Next == Prefetch \/ TakeInterrupt(StiOp) \/ TakeInterrupt(StnOp) \/ Run

-----------------------------------------------------------------------------
(* Properties. *)

\* The step of a busy CPU runs what was prefetched.
RanOne(mns) == Busy /\ Mnemonic(pre.opc) \in mns
RanMode == Mode(pre.opc)

\* The address an operation names, worked out when it was fetched.
Effective == Address(pre.from, mem, RanMode, pre.from.pc)

Flag(c, f) == IF f \in c.p THEN 1 ELSE 0

\* Exact arithmetic with signed and unsigned readings, for sum = a + v + carry.
IsSum(a, v, carry) ==
  LET exact == Signed(a) + Signed(v) + carry
  IN /\ cpu'.a + 256 * Flag(cpu', "C") = a + v + carry
     /\ ("V" \in cpu'.p) = ~ FitsSigned(exact)
     /\ ("N" \in cpu'.p) = (Signed(cpu'.a) < 0)
     /\ ("Z" \in cpu'.p) = (cpu'.a = 0)
IsDifference(a, v, carry) ==
  LET exact == Signed(a) - Signed(v) - (1 - carry)
  IN /\ cpu'.a - 256 * (1 - Flag(cpu', "C")) = a - v - (1 - carry)
     /\ ("V" \in cpu'.p) = ~ FitsSigned(exact)
     /\ ("N" \in cpu'.p) = (Signed(cpu'.a) < 0)
     /\ ("Z" \in cpu'.p) = (cpu'.a = 0)
IsOrder(r, v) ==
  /\ ("C" \in cpu'.p) = (r >= v)
  /\ ("Z" \in cpu'.p) = (r = v)
  /\ ("N" \in cpu'.p) = (Signed((r - v) % 256) < 0)

Computed(old, stored, c) ==
  /\ RanOne({"adc"}) => IsSum(cpu.a, old, c)
  /\ RanOne({"sbc"}) => IsDifference(cpu.a, old, c)
  /\ RanOne({"rra"}) => stored = old \div 2 + 128 * c /\ IsSum(cpu.a, stored, old % 2)
  /\ RanOne({"isb"}) => stored = (old + 1) % 256 /\ IsDifference(cpu.a, stored, c)
  /\ RanOne({"dcp"}) => stored = (old - 1) % 256 /\ IsOrder(cpu.a, stored)
  /\ RanOne({"cmp"}) => IsOrder(cpu.a, old)
  /\ RanOne({"cpx"}) => IsOrder(cpu.x, old)
  /\ RanOne({"cpy"}) => IsOrder(cpu.y, old)

\* Additions, subtractions and comparisons, those hidden in the undocumented
\* operations included, are exact in binary: dcp compares with the value it
\* has just stored, isb subtracts it, and rra adds it together with the bit
\* its own rotation shifted out.  (Decimal mode is documented as missing.)
ArithmeticRight ==
  [][RanOne({"adc", "sbc", "rra", "isb", "dcp", "cmp", "cpx", "cpy"})
       => Computed(Get(mem, Effective), Get(mem', Effective), CarryIn(cpu))]_vars

\* Bus accesses of an operation: the opcode, its operand bytes and pointer, an
\* extra read to fix the high byte of an indexed address, the access itself,
\* and two more for a value that is written back.
PointerReads(mode) ==
  CASE mode = "zpg" -> 0 [] mode \in {"zpx", "zpy"} -> 1
    [] mode = "abs" -> 0 [] mode \in {"abx", "aby"} -> 0
    [] mode = "idx" -> 3 [] mode = "idy" -> 2
    [] mode \in {"imm", "imp", "acc"} -> 0
Indexed == {"abx", "aby", "idy"}
Crosses == LET base == Address([pre.from EXCEPT !.x = 0, !.y = 0], mem, RanMode, pre.from.pc)
           IN RanMode \in Indexed /\ base \div 256 # Effective \div 256
FixUp(always) == IF RanMode \in Indexed /\ (always \/ Crosses) THEN 1 ELSE 0
BusCycles(always, accesses) ==
  1 + Size(RanMode) + PointerReads(RanMode) + FixUp(always) + accesses

\* An operation takes the number of cycles its bus accesses take, whatever its
\* addressing mode; only a read may skip the fix-up of the address.  (A jam,
\* which never goes on, has no duration.)
\* (Music players count cycles to place the samples they play.)
DurationRight ==
  [][/\ RanOne(ReadOps \ {"nop"}) /\ RanMode # "imm" => pre.cycles = BusCycles(FALSE, 1)
     /\ RanOne(ReadOps) /\ RanMode = "imm" => pre.cycles = 2
     /\ RanOne({"nop"}) /\ RanMode \notin {"imm", "imp"} => pre.cycles = BusCycles(FALSE, 1)
     /\ RanOne(Stores \cup OddStores) => pre.cycles = BusCycles(TRUE, 1)
     /\ RanOne(RmwOps) => pre.cycles = IF RanMode = "acc" THEN 2 ELSE BusCycles(TRUE, 3)
     /\ RanOne(Implied \ {"jam"}) => pre.cycles = 2
     /\ RanOne(Branches) =>
          LET next == (pre.from.pc + 1) % \h10000
          IN pre.cycles = IF ~ BranchTaken(Mnemonic(pre.opc), cpu) THEN 2
                          ELSE IF cpu'.pc \div 256 = next \div 256 THEN 3 ELSE 4
     /\ RanOne({"brk", "sti", "stn"}) => pre.cycles = 7
     /\ RanOne({"jsr", "rts", "rti"}) => pre.cycles = 6
     /\ RanOne({"jmp"}) => pre.cycles = IF RanMode = "abs" THEN 3 ELSE 5
     /\ RanOne({"pha", "php"}) => pre.cycles = 3
     /\ RanOne({"pla", "plp"}) => pre.cycles = 4
     /\ RanOne({"nop"}) /\ RanMode = "imp" => pre.cycles = 2]_vars

\* An operation that does not jump leaves the counter at the next one, writes
\* nothing but the place its operand names, and writes back where it has read
\* (getOutputAddr works the address out again from a counter that has moved).
Contained ==
  [][LET straight == RanOne(ReadOps \cup RmwOps \cup Stores \cup OddStores)
         same(f, g) == \A a \in (DOMAIN f \cup DOMAIN g) \ {Effective} :
                         Sparse(f, a, 0) = Sparse(g, a, 0)
     IN straight =>
          /\ cpu'.pc = (pre.from.pc + Size(RanMode)) % \h10000
          /\ RanMode \in {"acc", "imp"} \/ RanOne(ReadOps) => mem'.ram = mem.ram /\ mem'.chip = mem.chip
          /\ RanMode \notin {"acc", "imp"} => same(mem.ram, mem'.ram) /\ same(mem.chip, mem'.chip)]_vars

\* Whoever is interrupted, at whatever instruction and however deep, gets back
\* its registers, flags, stack position, counter and bank setting.
Transparent ==
  [][RanOne({"rti"}) /\ frames # <<>> =>
       LET interrupted == frames[Len(frames)]
       IN cpu' = interrupted.cpu /\ Bank(mem') = interrupted.bank]_vars
=============================================================================

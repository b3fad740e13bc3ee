--------------------------------- MODULE CpuAlu ---------------------------------
(***************************************************************************)
(* The arithmetic of the 6510 as cpu_operations.inc computes it: 8-bit      *)
(* values, sums and differences in 16-bit words, flags read off the bits of *)
(* the result.  The masks of the code (& 0x80, & 0x100) are bit tests here. *)
(***************************************************************************)
EXTENDS Integers

Sign(v) == v >= 128                       \* v & 0x80

\* adc; sbc, isb and rra use the same sum.  The overflow flag is
\* (~(in1 ^ in2)) & (in1 ^ result) & 0x80.
Add(in1, in2, carry) ==
  LET wval == in1 + in2 + carry
      res == wval % 256
  IN [r |-> res, c |-> wval >= 256, v |-> (Sign(in1) <=> Sign(in2)) /\ ~ (Sign(in1) <=> Sign(res))]

\* sbc adds the complement.
Complement(b) == 255 - b                  \* b ^ 0xff
Subtract(in1, b, carry) == Add(in1, Complement(b), carry)

\* cmp, cpx, cpy and the second half of dcp: wval is a 16-bit word.
Compare(r, b) ==
  LET wval == (r - b) % 65536
  IN [z |-> wval = 0, n |-> Sign(wval % 256), c |-> r >= b]

ShiftLeft(b, in) == [r |-> (2 * b + in) % 256, c |-> b >= 128]
ShiftRight(b, in) == [r |-> b \div 2 + 128 * in, c |-> b % 2 = 1]

\* (int8_t)
Signed(b) == IF b >= 128 THEN b - 256 ELSE b

\* branch(): the distance counts from behind the operand byte at pc.
Target(pc, dist) == (pc + 1 + Signed(dist)) % 65536

\* adjustBranchTaken looks at one bit of the page number only.
PageBit(a) == (a \div 256) % 2
BranchCycles(pc, dist) == IF PageBit((pc + 1) % 65536) # PageBit(Target(pc, dist)) THEN 2 ELSE 1
IndexCycles(base, address) == IF base \div 256 # address \div 256 THEN 1 ELSE 0

-----------------------------------------------------------------------------
(* What the operations are for, in numbers instead of bits. *)

BoolBit(b) == IF b THEN 1 ELSE 0
FitsSigned(i) == -128 <= i /\ i <= 127

\* An addition with carry is exact when result and carry are read together, the
\* overflow flag says whether the same sum of signed numbers left -128..127,
\* and a subtraction is the exact difference when the carry is a missing borrow.
SumRight(a, b, carry) ==
  LET s == Add(a, b, carry)
      exact == Signed(a) + Signed(b) + carry
  IN /\ s.r >= 0 /\ s.r < 256
     /\ s.r + 256 * BoolBit(s.c) = a + b + carry
     /\ s.v <=> ~ FitsSigned(exact)
     /\ ~ s.v => Signed(s.r) = exact

DifferenceRight(a, b, carry) ==
  LET d == Subtract(a, b, carry)
      exact == Signed(a) - Signed(b) - (1 - carry)
  IN /\ d.r - 256 * (1 - BoolBit(d.c)) = a - b - (1 - carry)
     /\ d.v <=> ~ FitsSigned(exact)
     /\ ~ d.v => Signed(d.r) = exact

\* A comparison sets carry and zero like the unsigned order and the negative
\* flag like the subtraction it stands for.
CompareRight(a, b) ==
  LET k == Compare(a, b)
  IN /\ k.c = (a >= b)
     /\ k.z = (a = b)
     /\ k.n <=> Sign(Subtract(a, b, 1).r)
     /\ k.c <=> Subtract(a, b, 1).c

\* A taken branch costs the second extra cycle exactly when it leaves the page,
\* although only one bit of the page number is compared.
BranchRight(pc, dist) ==
  BranchCycles(pc, dist) = 2 <=> ((pc + 1) % 65536) \div 256 # Target(pc, dist) \div 256
=============================================================================

--------------------------------- MODULE MCCpu ---------------------------------
(***************************************************************************)
(* Model checking of Cpu6510.  Single: every operation code on its own, at *)
(* the end of a page or in the middle, with operands that make indexes     *)
(* cross pages and pointers wrap around in page 0, and values at which     *)
(* carry and overflow change.  Programs: the code the emulator puts into a *)
(* song's memory - the driver of a PSID, entered through the RAM vector or *)
(* through the stand-in kernal, for play routines in each area of the      *)
(* memory - and handlers an RSID installs itself, with an interrupt before *)
(* any instruction.                                                        *)
(***************************************************************************)
EXTENDS TestHost

CONSTANT SingleOps      \* are the operation codes checked on their own as well?

VARIABLE steps          \* of a single instruction: it is fetched, then run;
                        \* a program has none to count (Endless)
mcvars == <<hostVars, steps>>
Endless == -1
NoHost == [running |-> TRUE, next |-> NoFile]

-----------------------------------------------------------------------------
(* Single instructions *)

(* A set of cases that covers each edge, without taking all combinations.  *)
Registers == {[a |-> 0, x |-> \hFF, y |-> 1], [a |-> \h7F, x |-> 1, y |-> \hFF],
              [a |-> \h80, x |-> 0, y |-> \h80], [a |-> \hFF, x |-> \h80, y |-> 0]}
Operands == {<<\hFF, \h12>>, <<\h80, \h00>>, <<\h7E, \hFF>>, <<\h10, \hD0>>}
Values == {0, \h7F, \h80, \hFF}
FlagSets == {{}, {"C"}, {"C", "Z", "N", "V", "I"}}
Places == {\h20FD, \h2040}

(* The value at the address the instruction names; the two bytes of any    *)
(* pointer are values as well.                                             *)
Sample(opc, r, o, v, p, at) ==
  LET c == [a |-> r.a, x |-> r.x, y |-> r.y, s |-> \h01, p |-> p, pc |-> at + 1]
      code == Over(At(at, <<opc>> \o o), At(1, <<\h35>>))
      m == [ram |-> code, chip |-> <<>>, log |-> <<>>, psid |-> FALSE, test |-> FALSE]
      ea == Address(c, m, Mode(opc), at + 1)
      put == IF Mode(opc) \in {"acc", "imp", "rel", "ind"} \/ Within(ea, at, at + 2) \/ ea = 1 THEN m ELSE Put(m, ea, v)
  IN [cpu |-> [c EXCEPT !.pc = at], mem |-> put]

SingleInit ==
  /\ SingleOps
  /\ \E opc \in Byte, r \in Registers, o \in Operands, v \in Values, p \in FlagSets, at \in Places :
       LET s == Sample(opc, r, o, v, p, at)
       IN cpu = s.cpu /\ mem = s.mem
  /\ pre = Idle(cpu)
  /\ frames = <<>> /\ taken = 0 /\ steps = 0 /\ host = NoHost

-----------------------------------------------------------------------------
(* Programs *)

Free == \h4000

(* Play routines: one that keeps nothing, one that switches the banks, one *)
(* that lets interrupts in again.                                          *)
Clobber == <<\hA9, \h01, \hAA, \hA8, \h38, \h60>>           \* LDA #1 TAX TAY SEC RTS
Switch == <<\hA9, \h30, \h85, \h01, \hA2, \h00, \h60>>      \* LDA #$30 STA $01 LDX #0 RTS
Nested == <<\h58, \hE8, \h60>>                              \* CLI INX RTS
PlayAddresses == {\h1000, \hA000, \hD400, \hE000}

PsidMemory(play, code) ==
  LET main == InstallPsidMain(ResetRam(FALSE, FALSE), Free, play)
  IN [ram |-> Over(main.ram, At(play, code)), chip |-> <<>>, log |-> <<>>, psid |-> TRUE, test |-> FALSE]

(* An RSID under bank $35: LDX loops at $1000, an IRQ handler that lets    *)
(* interrupts in after its first store and an NMI handler.                 *)
RsidMemory ==
  LET ram == Over(At(1, <<\h35>>),
             Over(At(\h1000, <<\hA2, \h80, \h4C, \h00, \h10>>),
             Over(At(\h1100, <<\h48, \h8A, \h48, \hEE, \h19, \hD0, \h58, \hA2, \h07,
                               \h68, \hAA, \h68, \h40>>),
             Over(At(\h1200, <<\h48, \hAD, \h0D, \hDD, \h68, \h40>>),
                  At(\hFFFA, <<\h00, \h12, \h00, \h00, \h00, \h11>>)))))
  IN [ram |-> ram, chip |-> <<>>, log |-> <<>>, psid |-> FALSE, test |-> FALSE]

Register(s, p, pc) == [a |-> \h12, x |-> \hFE, y |-> \h56, s |-> s, p |-> p, pc |-> pc]

Start(c, m) ==
  /\ cpu = c /\ mem = m
  /\ pre = Idle(cpu) /\ frames = <<>> /\ taken = 0 /\ steps = Endless /\ host = NoHost

PsidInit ==
  \E play \in PlayAddresses, code \in {Clobber, Switch, Nested}, s \in {\hFF, \h03} :
    Start(Register(s, IF s = \hFF THEN {} ELSE {"C", "N"}, Free), PsidMemory(play, code))

RsidInit == Start(Register(\h04, {"Z"}, \h1000), RsidMemory)

(* Programs of a test suite: prints and asks for the next file, its decimal *)
(* part (an endless loop here) skipped; prints a number and returns; fails, *)
(* waits for a key and exits; sets up the chips and the vectors with the   *)
(* routines of the kernal.  Interrupts may come, in two of them IRQs too.  *)
Load(len) == <<\hA9, len, \h85, \hB7, \hA9, \h2F, \h85, \hBB, \hA9, \h08, \h85, \hBC, \h20, \h6F, \hE1>>
Passing ==
  Over(At(Loading, <<\h78, \hA9, \h0D, \h20, \hD2, \hFF, \h4C, \hB3, \h08>>),
       At(\h082F, <<\h41, \h44>>) @@ At(\h08B3, <<\h4C, \hB3, \h08>>) @@ At(\h098C, Load(2)))
Numbers == At(Loading, <<\hA2, \h07, \h20, \hCD, \hBD, \h60>>)
Failing == At(Loading, <<\h78, \h20, \hE4, \hFF, \hC9, \h03, \hD0, \hFE, \h4C, \h74, \hA4>>)
Setup == At(Loading, <<\h78, \h20, \hA3, \hFD>> \o Load(40))
Vectors == At(Loading, <<\h78, \h20, \h15, \hFD, \h58, \h60>>)
Test(file, image) == [file |-> file, size |-> \h0A00 - Loading, image |-> image]
Tests == {Test("adcb", Passing), Test("start", Numbers), Test("trap1", Failing),
          Test("cia1ta", Setup), Test("irq", Vectors)}

-----------------------------------------------------------------------------
Init == SingleInit \/ PsidInit \/ RsidInit \/ (TestInit(Tests) /\ steps = Endless)

Next0 == Prefetch \/ Run
SingleStep == steps \in 0..1 /\ Next0 /\ steps' = steps + 1 /\ UNCHANGED host
SingleDone == steps = 2 /\ UNCHANGED mcvars
ProgramStep == steps = Endless /\ ~ mem.test /\ Next /\ UNCHANGED <<steps, host>>
TestStep == steps = Endless /\ (TestNext \/ TestOver) /\ UNCHANGED steps

(* The system clock never stops: one instruction after the other is run, in *)
(* a test until it is over.  (As Prefetch or Run is always enabled this is  *)
(* WF of their disjunction; TLC decides it much faster than ENABLED of an   *)
(* instruction.)                                                            *)
Runs == steps = Endless => []<>(~ host.running) \/ []<><<Busy /\ ~ Busy'>>_vars

Spec == Init /\ [][SingleStep \/ SingleDone \/ ProgramStep \/ TestStep]_mcvars /\ Runs

\* Every interrupt handler of a program comes to its end, and with it every
\* call of a play routine (_driverPSID).  A program of the test suite comes to
\* its end too, whatever interrupts it.
HandlersEnd ==
  /\ (frames # <<>> /\ steps = Endless /\ ~ mem.test) ~> (frames = <<>>)
  /\ mem.test ~> (~ host.running)

\* The interrupt that called the play routine is acknowledged before the driver
\* returns ("ACKN whatever IRQ might have been used", memory.c:345): both the
\* raster and the timer chip have been told.
Acknowledged ==
  [][mem.psid /\ RanOne({"rti"}) => \hD019 \in DOMAIN mem.chip]_vars
=============================================================================

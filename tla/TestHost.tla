------------------------------- MODULE TestHost -------------------------------
(***************************************************************************)
(* The build of the player that runs Wolfgang Lorenz's test suite on the    *)
(* emulated processor (the parts under #ifdef TEST): a test program is      *)
(* patched and loaded, runs on a kernal that traps the routines a test      *)
(* calls, and ends when it asks for the next test, exits, or leaves the     *)
(* memory a program can be in.                                              *)
(***************************************************************************)
EXTENDS Cpu6510

VARIABLE host       \* [running, next]: test_running and the file that is asked for

hostVars == <<vars, host>>

NoFile == <<>>
Loading == \h0801        \* where every test is loaded and started

-----------------------------------------------------------------------------
(* TestFileLoader *)

\* disableDecimalModeTests: a jump over the part that tests decimal mode.
DecimalPatches ==
  {<<"adcb", \h08B3, \h098C>>, <<"adca", \h08B3, \h098C>>, <<"adczx", \h08B3, \h0993>>,
   <<"adcax", \h08B4, \h099E>>, <<"adcay", \h08B4, \h099E>>, <<"adcix", \h08BC, \h0998>>,
   <<"adciy", \h08BC, \h0998>>, <<"adcz", \h08AF, \h0989>>, <<"sbcb", \h08B3, \h0984>>,
   <<"sbca", \h08B3, \h0984>>, <<"sbcz", \h08AF, \h0981>>, <<"sbczx", \h08B3, \h098B>>,
   <<"sbcax", \h08B4, \h0996>>, <<"sbcay", \h08B4, \h0996>>, <<"sbcix", \h08BC, \h0990>>,
   <<"sbciy", \h08BC, \h0990>>, <<"sbcb(eb)", \h08B7, \h0988>>, <<"arrb", \h0899, \h0959>>}

SkipDecimal(file, size) ==
  LET skip == {p \in DecimalPatches : p[1] = file /\ size > \h09FF - \h0801}
  IN [a \in UNION {p[2]..(p[2] + 2) : p \in skip} |->
        LET p == CHOOSE q \in skip : TRUE
        IN CASE a = p[2] -> \h4C [] a = p[2] + 1 -> Low(p[3]) [] a = p[2] + 2 -> High(p[3])]

\* disableVICTests and disableBRKTest: a store becomes a load, the operation
\* code of a BRK that of an ORA.
SkipVic(file, size) ==
  [a \in {b \in {\h097B, \h097E} : file = "mmufetch" /\ size > \h097E - \h0801 + 2} |-> \hAD]
SkipBrk(file, size) ==
  [a \in {b \in {\h0C29} : file = "nmi" /\ size > \h0C29 - \h0801 + 2} |-> \h01]

Patched(file, size, image) ==
  Over(image, SkipDecimal(file, size) @@ SkipVic(file, size) @@ SkipBrk(file, size))

\* memInitTest, before the program is loaded.
TestRam ==
  Over(ResetRam(FALSE, FALSE),
       TestKernalParts @@ At(\hA003, <<\h80>>) @@ At(\h01FE, <<\hFF, \h7F>>)
         @@ At(1, <<\h37>>) @@ At(\hD3, <<1>>))

\* load and testInit: the processor is reset last, and its three marker bytes
\* take the place of what memInitTest has put on the stack.
StartTest(file, size, image) ==
  LET ram == Over(TestRam, Patched(file, size, image))
      reset == [c |-> [a |-> 0, x |-> 0, y |-> 0, s |-> 0, p |-> {}, pc |-> Loading],
                m |-> [ram |-> ram, chip |-> <<>>, log |-> <<>>, psid |-> FALSE, test |-> TRUE]]
  IN Push(PushWord(reset, 0), 0)

TestInit(files) ==
  /\ \E f \in files :
       LET start == StartTest(f.file, f.size, f.image)
       IN cpu = start.c /\ mem = start.m
  /\ pre = Idle(cpu) /\ frames = <<>> /\ taken = 0
  /\ host = [running |-> TRUE, next |-> NoFile]

-----------------------------------------------------------------------------
(* Traps: a BRK at the entry of a kernal routine stands for the routine. *)

PrintCharAt == \hFFD3
PrintNumberAt == \hBDCE
LoadAt == \hE170
ScanKeyAt == \hFFE5
ExitAt == {\h8001, \hA475}
Traps == {PrintCharAt, PrintNumberAt, LoadAt, ScanKeyAt} \cup ExitAt

AtTrap(addresses) == Busy /\ Mnemonic(pre.opc) = "brk" /\ cpu.pc \in addresses

\* The caller's address is taken from the stack, as by an RTS.
Return(c) == [Pop1(Pop1(c)) EXCEPT !.pc = (PopWord(c, mem) + 1) % \h10000]

Trapped(addresses) ==
  /\ AtTrap(addresses)
  /\ pre' = Idle(cpu')
  /\ UNCHANGED <<frames, taken>>

PrintChar ==     \* also says that the tests are to be chained
  /\ cpu' = Return(cpu) /\ mem' = PutRam(mem, \h030C, 0)
  /\ Trapped({PrintCharAt})
  /\ UNCHANGED host
PrintNumber ==
  /\ cpu' = Return(cpu)
  /\ Trapped({PrintNumberAt})
  /\ UNCHANGED <<mem, host>>
ScanKey ==
  /\ cpu' = Return([cpu EXCEPT !.a = 3])
  /\ Trapped({ScanKeyAt})
  /\ UNCHANGED <<mem, host>>
LoadNext ==
  /\ LET name == Word(Ram(mem, \hBB), Ram(mem, \hBC))
         len == IF Ram(mem, \hB7) > 31 THEN 31 ELSE Ram(mem, \hB7)
     IN host' = [running |-> FALSE,
                 next |-> [i \in 1..len |-> Ram(mem, (name + i - 1) % \h10000)]]
  /\ cpu' = cpu /\ Trapped({LoadAt})
  /\ UNCHANGED mem
Exit ==
  /\ host' = [host EXCEPT !.running = FALSE]
  /\ cpu' = cpu /\ Trapped(ExitAt)
  /\ UNCHANGED mem

\* rsidRunTest looks at the counter after every cycle (sysClockTest).
Clocked ==
  /\ Next /\ ~ AtTrap(Traps)
  /\ host' = [host EXCEPT !.running = cpu'.pc > 1]

TestNext ==
  /\ mem.test /\ host.running
  /\ PrintChar \/ PrintNumber \/ ScanKey \/ LoadNext \/ Exit \/ Clocked

TestOver == mem.test /\ ~ host.running /\ UNCHANGED hostVars
=============================================================================

----------------------------- MODULE Board_proof -----------------------------
(***************************************************************************)
(* Proofs about Board, for any number of players, every set of register    *)
(* writes and every width of the timer: what loading and unloading leave   *)
(* behind, that the kernel thread has what it works on, and that a write   *)
(* of a thread that is alone on the pins reaches the chip.                 *)
(***************************************************************************)
EXTENDS Board, TLAPS

(* Has the device open: the kernel counts it.                              *)
Opened(p) == \/ state[p] = "opened" \/ mode[p] = "kernel"
             \/ state[p] = "closing" /\ mode[p] = "none"

(* A player sets up its clock and, unless the module did, its pins.        *)
Configures == {"mapped", "clockpin", "clock1MHz", "clockPal"}
SetUp == {"load", "loaded", "reclock", "play"}
Sounding == {"loaded", "reclock", "play", "closing"}

ModeFits(p) ==
  /\ mode[p] = "none" => state[p] \in {"off", "started", "opened", "closing"}
  /\ mode[p] = "kernel" => state[p] \in {"setup", "closing"} \cup Configures \cup SetUp
  /\ mode[p] = "local" => state[p] \in {"setup", "pins", "pinsSet", "pinsClear", "closing"}
                                          \cup Configures \cup SetUp

(* The device is counted once, and has one owner.                          *)
DeviceInv ==
  /\ \A p \in Players : ModeFits(p) /\ (Opened(p) => count = 1)
  /\ \A p, q \in Players : Opened(p) /\ Opened(q) => p = q

(* What the module holds is told by how far it is loaded.                  *)
ModuleInv ==
  /\ "memory" \in res <=> mod \in {"memory", "timer", "registered", "in",
                                   "pins freed", "timer freed"}
  /\ "timer" \in res <=> mod \in {"timer", "registered", "in", "pins freed"}
  /\ "device" \in res <=> mod \in {"registered", "in", "pins freed", "timer freed",
                                   "memory freed"}
  /\ "map" \in res <=> mod = "in"
  /\ mod # "in" /\ requested # {} => "pins kept" \in fault

(* The pins are outputs, and chip select is high unless a poke is under    *)
(* way.  Once they are, they stay so.                                      *)
CSPin == ToGpio(CS)
Strobing == {"stamp", "wait", "strobe"}
Up == /\ BoardPins \subseteq out
      /\ CSPin \in level \/ \E p \in Players : step[p] \in Strobing

PinsInv ==
  /\ mod = "in" => Up
  /\ \A p \in Players : mode[p] = "local" =>
       /\ state[p] = "pinsSet" => BoardPins \subseteq out
       /\ state[p] \in {"pinsClear"} \cup SetUp => Up
  /\ CSPin \in level => seen = {}

(* A player that has yet to set the pins up although the clock may run.    *)
Configuring(p) == /\ mode[p] = "local"
                  /\ state[p] \in {"clockpin", "clock1MHz", "clockPal", "pins", "pinsSet"}

Drives(p) == alive[p] \/ (mode[p] = "local" /\ state[p] # "off")

(* How far a poke is.                                                      *)
PokeInv(p) ==
  /\ Drives(p) /\ state[p] \in Sounding
  /\ Clocked /\ BoardPins \subseteq out /\ data[p] \in Pokes
  /\ step[p] \in {"set", "clear"} => CSPin \in level
  /\ step[p] = "clear" => BulkSet(Word(p)) \subseteq level
  /\ step[p] \in Strobing => /\ level \cap BoardPins = BulkSet(Word(p))
                             /\ seen \subseteq {data[p]}
  /\ step[p] = "wait" => seen = {data[p]} \/ clock <= ts[p]
  /\ step[p] = "strobe" => seen = {data[p]}

(* As long as nothing unguarded has happened, one thread at most drives    *)
(* the pins.                                                               *)
CalmInv ==
  /\ \A p \in Players : /\ alive[p] => Opened(p)
                        /\ Opened(p) => mod = "in"
                        /\ step[p] # "idle" => PokeInv(p)
  /\ \A p, q \in Players : Drives(p) /\ Drives(q) => p = q
  /\ Clocked => Up \/ \E p \in Players : Configuring(p)

IInv == TypeOK /\ DeviceInv /\ ModuleInv /\ PinsInv /\ (Calm => CalmInv)
-----------------------------------------------------------------------------
(* The tables.                                                             *)
LEMMA GpioTable ==
  /\ ToGpio(0) = 17 /\ ToGpio(1) = 18 /\ ToGpio(2) = 27 /\ ToGpio(3) = 22
  /\ ToGpio(4) = 23 /\ ToGpio(5) = 24 /\ ToGpio(6) = 25 /\ ToGpio(7) = 4
  /\ ToGpio(8) = 2 /\ ToGpio(9) = 3 /\ ToGpio(10) = 8 /\ ToGpio(11) = 7
  /\ ToGpio(15) = 14 /\ ToGpio(16) = 15 /\ ToGpio(21) = 5 /\ ToGpio(29) = 21
BY DEF ToGpio, pinToGpioR2

LEMMA Pins == PIN_MASK = {0, 1, 2, 3, 4, 5, 6, 7, 8, 9, 10, 11, 15, 16}
BY DEF PIN_MASK

LEMMA Injective == \A p, q \in PIN_MASK : ToGpio(p) = ToGpio(q) => p = q
BY GpioTable, Pins

LEMMA HeaderTable ==
  /\ OnHeader(HeaderCS) = CSPin /\ OnHeader(HeaderCLK) = 21
  /\ \A b \in 0 .. 4 : OnHeader(HeaderAddr[b + 1]) = ToGpio(AddrPin[b + 1])
  /\ \A b \in 0 .. 7 : OnHeader(HeaderData[b + 1]) = ToGpio(DataPin[b + 1])
BY GpioTable
   DEF OnHeader, physToGpioR2, HeaderCS, HeaderCLK, HeaderAddr, HeaderData, AddrPin, DataPin,
       CSPin, CS

LEMMA ClockTable ==
  /\ gpioToClkCon[22] = 30
  /\ ClockRegister(CLK) = 30 /\ ClockRegister(ToGpio(CLK)) = 30
BY GpioTable DEF gpioToClkCon, ClockRegister, CLK

LEMMA BoardIs == /\ BoardPins = {ToGpio(p) : p \in PIN_MASK}
                 /\ CSPin \in BoardPins /\ BoardPins \subseteq 0 .. 53
<1>1. BoardPins = {ToGpio(p) : p \in PIN_MASK}
  BY Pins DEF BoardPins, CS, AddrPin, DataPin
<1>2. CSPin \in BoardPins BY DEF BoardPins, CSPin
<1>3. \A p \in PIN_MASK : ToGpio(p) \in 0 .. 53 BY GpioTable, Pins
<1>4. QED BY <1>1, <1>2, <1>3

LEMMA BulkIs ==
  \A T : /\ BulkSet(T) \subseteq BoardPins /\ BulkClear(T) \subseteq BoardPins
         /\ BulkSet(T) = BoardPins \ BulkClear(T)
         /\ \A p \in PIN_MASK : ToGpio(p) \in BulkSet(T) <=> p \in T
BY BoardIs, Injective DEF BulkSet, BulkClear

LEMMA Shifts ==
  /\ \A b \in 0 .. 4 : b + AddrShift[b + 1] = AddrPin[b + 1]
  /\ \A b \in 0 .. 7 : b + ValueShift[b + 1] = DataPin[b + 1]
BY DEF AddrShift, AddrPin, ValueShift, DataPin

LEMMA PinNumbers ==
  /\ \A b \in 0 .. 4 : AddrPin[b + 1] \in PIN_MASK \ {CS}
  /\ \A b \in 0 .. 7 : DataPin[b + 1] \in PIN_MASK \ {CS}
  /\ \A b, c \in 0 .. 4 : AddrPin[b + 1] = AddrPin[c + 1] => b = c
  /\ \A b, c \in 0 .. 7 : DataPin[b + 1] = DataPin[c + 1] => b = c
  /\ \A b \in 0 .. 4, c \in 0 .. 7 : AddrPin[b + 1] # DataPin[c + 1]
BY Pins DEF AddrPin, DataPin, CS

(* The shifts move every bit to the pin that is wired to its line.         *)
Words == (SUBSET (0 .. 4)) \X (SUBSET (0 .. 7))

LEMMA PokesAreWords == Pokes \subseteq Words /\ NoPoke \in Words
BY BoardAssumption DEF Words, NoPoke

LEMMA WordIs ==
  ASSUME NEW w \in Words, NEW T, T = Toggles(w[1], w[2])
  PROVE  /\ CSPin \notin BulkSet(T)
         /\ \A b \in 0 .. 4 : OnHeader(HeaderAddr[b + 1]) \in BulkSet(T) <=> b \in w[1]
         /\ \A b \in 0 .. 7 : OnHeader(HeaderData[b + 1]) \in BulkSet(T) <=> b \in w[2]
<1>1. w[1] \subseteq 0 .. 4 /\ w[2] \subseteq 0 .. 7 BY DEF Words
<1>2. T = {AddrPin[b + 1] : b \in w[1]} \cup {DataPin[b + 1] : b \in w[2]}
  BY <1>1, Shifts DEF Toggles
<1>3. CS \in PIN_MASK /\ CS \notin T BY <1>1, <1>2, Pins, PinNumbers DEF CS
<1>4. \A b \in 0 .. 4 : AddrPin[b + 1] \in PIN_MASK /\ (AddrPin[b + 1] \in T <=> b \in w[1])
  BY <1>1, <1>2, PinNumbers
<1>5. \A b \in 0 .. 7 : DataPin[b + 1] \in PIN_MASK /\ (DataPin[b + 1] \in T <=> b \in w[2])
  BY <1>1, <1>2, PinNumbers
<1>6. QED BY <1>3, <1>4, <1>5, HeaderTable, BulkIs DEF CSPin

LEMMA LinesAre ==
  ASSUME NEW w \in Words, level \cap BoardPins = BulkSet(Toggles(w[1], w[2]))
  PROVE  Lines = w
<1> DEFINE S == BulkSet(Toggles(w[1], w[2]))
<1>1. w = <<w[1], w[2]>> /\ w[1] \subseteq 0 .. 4 /\ w[2] \subseteq 0 .. 7
  BY DEF Words
<1>2. /\ \A b \in 0 .. 4 : OnHeader(HeaderAddr[b + 1]) \in BoardPins
      /\ \A b \in 0 .. 7 : OnHeader(HeaderData[b + 1]) \in BoardPins
  BY HeaderTable, PinNumbers, BoardIs
<1>3. /\ \A b \in 0 .. 4 : OnHeader(HeaderAddr[b + 1]) \in S <=> b \in w[1]
      /\ \A b \in 0 .. 7 : OnHeader(HeaderData[b + 1]) \in S <=> b \in w[2]
  BY WordIs
<1>4. level \cap BoardPins = S OBVIOUS
<1> HIDE DEF S
<1>5. {b \in 0 .. 4 : OnHeader(HeaderAddr[b + 1]) \in level} = w[1]
  BY <1>1, <1>2, <1>3, <1>4
<1>6. {b \in 0 .. 7 : OnHeader(HeaderData[b + 1]) \in level} = w[2]
  BY <1>1, <1>2, <1>3, <1>4
<1>7. QED BY <1>1, <1>5, <1>6 DEF Lines

LEMMA Selection ==
  /\ Selected <=> CSPin \in out /\ CSPin \notin level
  /\ Clocked <=> 21 \in clockOut /\ rate[30] # "off"
BY HeaderTable, ClockTable DEF Selected, Clocked

LEMMA Bound == MaxTime \in Nat /\ Songs \subseteq Rates
BY BoardAssumption

LEMMA Wraps == \A n \in Nat : n % (MaxTime + 1) \in 0 .. MaxTime
BY BoardAssumption
-----------------------------------------------------------------------------
LEMMA InitIInv == Init => IInv
<1> SUFFICES ASSUME Init PROVE IInv OBVIOUS
<1>1. TypeOK BY BoardAssumption DEF Init, TypeOK
<1>2. DeviceInv BY DEF Init, DeviceInv, ModeFits, Opened
<1>3. ModuleInv BY DEF Init, ModuleInv
<1>4. PinsInv BY DEF Init, PinsInv
<1>5. CalmInv BY Selection DEF Init, CalmInv, Drives, Opened
<1>6. QED BY <1>1, <1>2, <1>3, <1>4, <1>5 DEF IInv

(* What the actions have in common.                                        *)
LEMMA StepCases ==
  ASSUME [Next]_vars
  PROVE  \/ UNCHANGED vars \/ Tick \/ SetupMem \/ MapTimer \/ Register
         \/ InitPins \/ ReleasePins \/ Unload
         \/ \E p \in Players : PokeSID(p) \/ Start(p) \/ Play(p)
BY DEF Next, Module

AsLoaded == UNCHANGED <<mod, res, requested>>
AsPoked == UNCHANGED <<step, data, ts>>
AsPinned == UNCHANGED <<level, out, clockOut, rate, seen>>

LEMMA OpenIs ==
  ASSUME TypeOK, NEW p \in Players, OpenDevice(p)
  PROVE  /\ count = 0 /\ count' = 1 /\ "device" \in res /\ ~ Unloading
         /\ state[p] = "started" /\ state' = [state EXCEPT ![p] = "opened"]
         /\ alive' = [alive EXCEPT ![p] = TRUE] /\ mode' = mode /\ clock' = clock
         /\ AsLoaded /\ AsPoked /\ AsPinned
         /\ mod = "registered" => "early open" \in fault'
         /\ Driving # {} => "shared bus" \in fault'
<1>1. count' = count + 1 /\ count = 0 BY Zenon DEF OpenDevice, CanOpen
<1>2. count' = 1 BY <1>1
<1>3. /\ "device" \in res /\ ~ Unloading
      /\ state[p] = "started" /\ state' = [state EXCEPT ![p] = "opened"]
      /\ alive' = [alive EXCEPT ![p] = TRUE]
  BY Zenon DEF OpenDevice, CanOpen, Enter
<1>4. mode' = mode /\ clock' = clock /\ AsLoaded /\ AsPoked /\ AsPinned
  BY DEF OpenDevice, AsLoaded, AsPoked, AsPinned, pins, module, poke
<1>5. /\ mod = "registered" => "early open" \in fault'
      /\ Driving # {} => "shared bus" \in fault'
  BY DEF OpenDevice
<1>6. QED BY <1>1, <1>2, <1>3, <1>4, <1>5

LEMMA CloseIs ==
  ASSUME TypeOK, DeviceInv, NEW p \in Players, CloseDevice(p)
  PROVE  /\ count = 1 /\ count' = 0 /\ Opened(p)
         /\ state[p] = "closing" /\ mode[p] \in {"none", "kernel"}
         /\ mode[p] = "none" => /\ mode' = [mode EXCEPT ![p] = "local"]
                                /\ state' = [state EXCEPT ![p] = "setup"]
         /\ mode[p] = "kernel" => /\ mode' = [mode EXCEPT ![p] = "none"]
                                  /\ state' = [state EXCEPT ![p] = "off"]
         /\ alive' = alive /\ clock' = clock
         /\ AsLoaded /\ AsPoked /\ AsPinned
         /\ alive[p] => "late thread" \in fault'
         /\ mode[p] = "none" /\ Driving \ {p} # {} => "shared bus" \in fault'
<1>1. state[p] = "closing" /\ mode[p] \in {"none", "kernel"}
  BY DEF CloseDevice, TypeOK
<1>2. Opened(p) BY <1>1 DEF Opened
<1>3. count = 1 BY <1>2 DEF DeviceInv
<1>4. count' = count - 1 BY Zenon DEF CloseDevice
<1>5. count' = 0 BY <1>3, <1>4
<1>6. /\ mode[p] = "none" => /\ mode' = [mode EXCEPT ![p] = "local"]
                             /\ state' = [state EXCEPT ![p] = "setup"]
      /\ mode[p] = "kernel" => /\ mode' = [mode EXCEPT ![p] = "none"]
                               /\ state' = [state EXCEPT ![p] = "off"]
  BY DEF CloseDevice, Enter
<1>7. alive' = alive /\ clock' = clock /\ AsLoaded /\ AsPoked /\ AsPinned
  BY DEF CloseDevice, AsLoaded, AsPoked, AsPinned, pins, module, poke
<1>8. /\ alive[p] => "late thread" \in fault'
      /\ mode[p] = "none" /\ Driving \ {p} # {} => "shared bus" \in fault'
  BY DEF CloseDevice
<1>9. QED BY <1>1, <1>2, <1>3, <1>5, <1>6, <1>7, <1>8

LEMMA TypeStep == ASSUME TypeOK, DeviceInv, [Next]_vars PROVE TypeOK'
<1>0. CASE UNCHANGED vars BY <1>0 DEF TypeOK, vars, pins, module, players, poke
<1>1. CASE Tick
  <2>1. clock' \in 0 .. MaxTime
    <3>0. clock \in 0 .. MaxTime BY DEF TypeOK
    <3>1. clock + 1 \in Nat BY <3>0, Bound
    <3>2. clock' = (clock + 1) % (MaxTime + 1) BY <1>1 DEF Tick
    <3>3. QED BY <3>1, <3>2, Wraps
  <2>2. UNCHANGED <<pins, module, players, poke>> BY <1>1 DEF Tick
  <2>3. QED BY <2>1, <2>2 DEF TypeOK, pins, module, players, poke
<1>2. CASE SetupMem BY <1>2 DEF TypeOK, SetupMem, pins, module, players, poke
<1>3. CASE MapTimer BY <1>3 DEF TypeOK, MapTimer, pins, module, players, poke
<1>4. CASE Register BY <1>4 DEF TypeOK, Register, pins, module, players, poke
<1>5. CASE InitPins BY <1>5, BoardIs DEF TypeOK, InitPins, CSPin, pins, module, players, poke
<1>6. CASE ReleasePins BY <1>6 DEF TypeOK, ReleasePins, pins, module, players, poke
<1>7. CASE Unload BY <1>7 DEF TypeOK, Unload, Unloading, pins, module, players, poke
<1>8. ASSUME NEW p \in Players, PokeSID(p) \/ Start(p) \/ Play(p) PROVE TypeOK'
  <2>1. CASE BeginPoke(p)
    <3>1. PICK w \in Pokes : data' = [data EXCEPT ![p] = w] BY <2>1 DEF BeginPoke
    <3>2. data' \in [Players -> Pokes \cup {NoPoke}] BY <3>1 DEF TypeOK
    <3>3. QED BY <2>1, <3>2 DEF TypeOK, BeginPoke, pins, module, players
  <2>2. CASE BulkWrite(p)
    BY <2>2, BulkIs, BoardIs DEF TypeOK, BulkWrite, Word, pins, module, players, poke
  <2>3. CASE StampTime(p)
    <3>0. clock \in 0 .. MaxTime BY DEF TypeOK
    <3>1. clock + 2 \in Nat BY <3>0, Bound
    <3>2. ts' \in [Players -> 0 .. MaxTime] BY <2>3, <3>1, Wraps DEF TypeOK, StampTime
    <3>3. QED BY <2>3, <3>2 DEF TypeOK, StampTime, pins, module, players
  <2>4. CASE Waited(p)
    BY <2>4 DEF TypeOK, Waited, pins, module, players, poke
  <2>5. CASE Strobe(p)
    <3>1. 0 \in 0 .. MaxTime BY BoardAssumption
    <3>2. ts' \in [Players -> 0 .. MaxTime] BY <2>5, <3>1 DEF TypeOK, Strobe
    <3>3. data' \in [Players -> Pokes \cup {NoPoke}] BY <2>5 DEF TypeOK, Strobe
    <3>4. step' \in [Players -> {"idle", "set", "clear", "stamp", "wait", "strobe"}]
      BY <2>5 DEF TypeOK, Strobe
    <3>5. level' \subseteq 0 .. 53 BY <2>5, BoardIs DEF TypeOK, Strobe, CSPin
    <3>6. QED BY <2>5, <3>2, <3>3, <3>4, <3>5 DEF TypeOK, Strobe, module, players
  <2>6. CASE SystemTimerSetup(p)
    BY <2>6 DEF TypeOK, SystemTimerSetup, Enter, pins, module, players, poke
  <2>7. CASE OpenDevice(p)
    <3>0. count' = 1 BY <2>7, OpenIs
    <3>1. count' \in 0 .. 1 BY <3>0
    <3>2. /\ state' = [state EXCEPT ![p] = "opened"] /\ alive' = [alive EXCEPT ![p] = TRUE]
          /\ mode' = mode /\ clock' = clock /\ AsLoaded /\ AsPoked /\ AsPinned
      BY <2>7, OpenIs
    <3>3. alive' \in [Players -> BOOLEAN] BY <3>2 DEF TypeOK
    <3>4. state' \in [Players -> {"off", "started", "opened", "setup", "mapped", "clockpin",
                                  "clock1MHz", "clockPal", "pins", "pinsSet", "pinsClear",
                                  "load", "loaded", "reclock", "play", "closing"}]
      BY <3>2 DEF TypeOK
    <3>5. QED BY <3>1, <3>2, <3>3, <3>4 DEF TypeOK, AsLoaded, AsPoked, AsPinned
  <2>8. CASE OpenFails(p)
    BY <2>8 DEF TypeOK, OpenFails, Enter, pins, module, players, poke
  <2>9. CASE MapDevice(p)
    BY <2>9 DEF TypeOK, MapDevice, Enter, pins, module, players, poke
  <2>10. CASE WiringPiSetup(p)
    BY <2>10 DEF TypeOK, WiringPiSetup, Enter, pins, module, players, poke
  <2>11. CASE SetupClockPin(p)
    <3>1. ToGpio(CLK) \in 0 .. 53 BY GpioTable DEF CLK
    <3>2. clockOut' \subseteq 0 .. 53
      <4>1. clockOut' = clockOut \/ clockOut' = clockOut \cup {ToGpio(CLK)}
        BY <2>11, Zenon DEF SetupClockPin
      <4>2. clockOut \subseteq 0 .. 53 BY DEF TypeOK
      <4>3. QED BY <3>1, <4>1, <4>2
    <3>3. ClockRegister(ToGpio(CLK)) = 30 BY ClockTable
    <3>4. rate' = rate \/ rate' = [rate EXCEPT ![30] = "off"]
      BY <2>11, <3>3, Zenon DEF SetupClockPin, StopClock
    <3>5. rate' \in [{28, 30, 32} -> Rates \cup {"off"}]
      <4>1. rate \in [{28, 30, 32} -> Rates \cup {"off"}] BY DEF TypeOK
      <4>2. "off" \in Rates \cup {"off"} OBVIOUS
      <4>3. QED BY <3>4, <4>1, <4>2
    <3>6. QED BY <2>11, <3>2, <3>5 DEF TypeOK, SetupClockPin, Enter, module, poke
  <2>12. CASE StartAt1MHz(p)
    BY <2>12, ClockTable DEF TypeOK, StartAt1MHz, Enter, StartClock, Rates, pins, module, players, poke
  <2>13. CASE StopForPal(p)
    BY <2>13, ClockTable DEF TypeOK, StopForPal, Enter, StopClock, pins, module, players, poke
  <2>14. CASE StartPal(p)
    BY <2>14, ClockTable DEF TypeOK, StartPal, Enter, StartClock, Rates, pins, module, players, poke
  <2>15. CASE PinModes(p)
    BY <2>15, BoardIs DEF TypeOK, PinModes, Enter, pins, module, players, poke
  <2>16. CASE ResetPins(p)
    <3>0. BulkSet({CS}) \subseteq 0 .. 53 BY BulkIs, BoardIs
    <3>1. level' \subseteq 0 .. 53 BY <2>16, <3>0 DEF TypeOK, ResetPins
    <3>2. QED BY <2>16, <3>1 DEF TypeOK, ResetPins, Enter, module, poke
  <2>17. CASE LoadSong(p)
    BY <2>17 DEF TypeOK, LoadSong, Enter, pins, module, players, poke
  <2>18. CASE StopForSong(p)
    BY <2>18, ClockTable DEF TypeOK, StopForSong, Enter, StopClock, pins, module, players, poke
  <2>19. CASE StartForSong(p)
    <3>1. PICK r \in Songs : StartClock(CLK, r) BY <2>19 DEF StartForSong
    <3>2. r \in Rates BY BoardAssumption
    <3>3. rate' \in [{28, 30, 32} -> Rates \cup {"off"}]
      BY <3>1, <3>2, ClockTable DEF TypeOK, StartClock
    <3>4. QED BY <2>19, <3>3 DEF TypeOK, StartForSong, Enter, module, poke
  <2>20. CASE EndOfSong(p)
    BY <2>20 DEF TypeOK, EndOfSong, Enter, pins, module, players, poke
  <2>21. CASE KthreadEnds(p)
    BY <2>21 DEF TypeOK, KthreadEnds, pins, module, players, poke
  <2>22. CASE CloseDevice(p)
    <3>0. count' = 0 BY <2>22, CloseIs
    <3>1. count' \in 0 .. 1 BY <3>0
    <3>2. /\ \/ /\ mode' = [mode EXCEPT ![p] = "local"]
                /\ state' = [state EXCEPT ![p] = "setup"]
             \/ /\ mode' = [mode EXCEPT ![p] = "none"]
                /\ state' = [state EXCEPT ![p] = "off"]
          /\ alive' = alive /\ clock' = clock /\ AsLoaded /\ AsPoked /\ AsPinned
      BY <2>22, CloseIs
    <3>3. mode' \in [Players -> {"none", "kernel", "local"}] BY <3>2 DEF TypeOK
    <3>4. state' \in [Players -> {"off", "started", "opened", "setup", "mapped", "clockpin",
                                  "clock1MHz", "clockPal", "pins", "pinsSet", "pinsClear",
                                  "load", "loaded", "reclock", "play", "closing"}]
      BY <3>2 DEF TypeOK
    <3>5. QED BY <3>1, <3>2, <3>3, <3>4 DEF TypeOK, AsLoaded, AsPoked, AsPinned
  <2>23. CASE EndLocal(p)
    BY <2>23 DEF TypeOK, EndLocal, Enter, pins, module, players, poke
  <2>24. QED BY <1>8, <2>1, <2>2, <2>3, <2>4, <2>5, <2>6, <2>7, <2>8, <2>9, <2>10, <2>11, <2>12, <2>13, <2>14, <2>15, <2>16, <2>17, <2>18, <2>19, <2>20, <2>21, <2>22, <2>23 DEF PokeSID, Start, Play
<1>9. QED BY StepCases, <1>0, <1>1, <1>2, <1>3, <1>4, <1>5, <1>6, <1>7, <1>8
-----------------------------------------------------------------------------
(* Players leave the module alone, and no fault is forgotten.              *)
LEMMA PlayerFrame ==
  ASSUME NEW p \in Players, PokeSID(p) \/ Start(p) \/ Play(p)
  PROVE  AsLoaded /\ fault \subseteq fault'
<1>1. CASE BeginPoke(p) BY <1>1 DEF BeginPoke, Faulty, AsLoaded, module
<1>2. CASE BulkWrite(p) BY <1>2 DEF BulkWrite, AsLoaded, module
<1>3. CASE StampTime(p) BY <1>3 DEF StampTime, Faulty, AsLoaded, module
<1>4. CASE Waited(p) BY <1>4 DEF Waited, AsLoaded, module
<1>5. CASE Strobe(p) BY <1>5 DEF Strobe, AsLoaded, module
<1>6. CASE SystemTimerSetup(p) BY <1>6 DEF SystemTimerSetup, AsLoaded, module
<1>7. CASE OpenDevice(p) BY <1>7 DEF OpenDevice, AsLoaded, module
<1>8. CASE OpenFails(p) BY <1>8 DEF OpenFails, Faulty, AsLoaded, module
<1>9. CASE MapDevice(p) BY <1>9 DEF MapDevice, AsLoaded, module
<1>10. CASE WiringPiSetup(p) BY <1>10 DEF WiringPiSetup, AsLoaded, module
<1>11. CASE SetupClockPin(p) BY <1>11 DEF SetupClockPin, Faulty, AsLoaded, module
<1>12. CASE StartAt1MHz(p) BY <1>12 DEF StartAt1MHz, AsLoaded, module
<1>13. CASE StopForPal(p) BY <1>13 DEF StopForPal, Faulty, AsLoaded, module
<1>14. CASE StartPal(p) BY <1>14 DEF StartPal, AsLoaded, module
<1>15. CASE PinModes(p) BY <1>15 DEF PinModes, AsLoaded, module
<1>16. CASE ResetPins(p) BY <1>16 DEF ResetPins, AsLoaded, module
<1>17. CASE LoadSong(p) BY <1>17 DEF LoadSong, AsLoaded, module
<1>18. CASE StopForSong(p) BY <1>18 DEF StopForSong, Faulty, AsLoaded, module
<1>19. CASE StartForSong(p) BY <1>19 DEF StartForSong, AsLoaded, module
<1>20. CASE EndOfSong(p) BY <1>20 DEF EndOfSong, AsLoaded, module
<1>21. CASE KthreadEnds(p) BY <1>21 DEF KthreadEnds, AsLoaded, module
<1>22. CASE CloseDevice(p) BY <1>22 DEF CloseDevice, AsLoaded, module
<1>23. CASE EndLocal(p) BY <1>23 DEF EndLocal, AsLoaded, module
<1>24. QED BY <1>1, <1>2, <1>3, <1>4, <1>5, <1>6, <1>7, <1>8, <1>9, <1>10, <1>11, <1>12, <1>13, <1>14, <1>15, <1>16, <1>17, <1>18, <1>19, <1>20, <1>21, <1>22, <1>23 DEF PokeSID, Start, Play

LEMMA FaultsKept == ASSUME [Next]_vars PROVE fault \subseteq fault'
<1>0. CASE UNCHANGED vars BY <1>0 DEF vars
<1>1. CASE Tick BY <1>1 DEF Tick
<1>2. CASE Module
  BY <1>2 DEF Module, SetupMem, MapTimer, Register, InitPins, ReleasePins, Unload
<1>3. QED BY <1>0, <1>1, <1>2, PlayerFrame DEF Next

LEMMA ModuleStep == ASSUME TypeOK, ModuleInv, [Next]_vars PROVE ModuleInv'
<1>f. fault \subseteq fault' BY FaultsKept
<1>0. CASE AsLoaded BY <1>f, <1>0 DEF ModuleInv, AsLoaded
<1>1. CASE UNCHANGED vars \/ Tick BY <1>0, <1>1 DEF vars, Tick, AsLoaded, module
<1>2. CASE SetupMem
  BY <1>f, <1>2 DEF ModuleInv, SetupMem
<1>3. CASE MapTimer
  BY <1>f, <1>3 DEF ModuleInv, MapTimer
<1>4. CASE Register
  BY <1>f, <1>4 DEF ModuleInv, Register
<1>5. CASE InitPins
  <2>1. /\ mod = "registered" /\ (mod' = "in" \/ mod' = "out")
        /\ mod' = "in" => res' = res \cup {"map"}
        /\ mod' = "out" => res' = res \ {"device", "timer", "memory"}
        /\ mod' = "out" => "pins kept" \in fault'
    BY <1>5 DEF InitPins
  <2>2. QED BY <2>1 DEF ModuleInv
<1>6. CASE ReleasePins
  <2>1. requested' = {} BY <1>6 DEF ReleasePins, TypeOK
  <2>2. QED BY <1>6, <2>1 DEF ModuleInv, ReleasePins
<1>7. CASE Unload
  BY <1>f, <1>7 DEF ModuleInv, Unload, Unloading
<1>8. QED BY <1>0, <1>1, <1>2, <1>3, <1>4, <1>5, <1>6, <1>7, StepCases, PlayerFrame

(* An action that changes neither state, handler nor count.                *)
LEMMA DeviceFrame ==
  ASSUME DeviceInv, UNCHANGED <<state, mode, count>> PROVE DeviceInv'
BY DEF DeviceInv, ModeFits, Opened

(* One player moves on and keeps the device, or keeps without it.          *)
LEMMA DeviceMoves ==
  ASSUME TypeOK, DeviceInv, NEW p \in Players, NEW s, NEW m,
         state' = [state EXCEPT ![p] = s], mode' = [mode EXCEPT ![p] = m],
         ModeFits(p)', count' = count, Opened(p)' => Opened(p)
  PROVE  DeviceInv'
<1>1. ASSUME NEW q \in Players PROVE ModeFits(q)' /\ (Opened(q)' => Opened(q))
  <2>1. CASE q = p BY <2>1
  <2>2. CASE q # p
    <3>1. state'[q] = state[q] /\ mode'[q] = mode[q] BY <2>2 DEF TypeOK
    <3>2. QED BY <3>1 DEF DeviceInv, ModeFits, Opened
  <2>3. QED BY <2>1, <2>2
<1>2. QED BY <1>1 DEF DeviceInv

LEMMA DeviceStep == ASSUME TypeOK, DeviceInv, [Next]_vars PROVE DeviceInv'
<1>0. CASE UNCHANGED vars \/ Tick
  BY <1>0, DeviceFrame DEF vars, Tick, players
<1>1. CASE Module
  BY <1>1, DeviceFrame
     DEF Module, SetupMem, MapTimer, Register, InitPins, ReleasePins, Unload, players
<1>2. ASSUME NEW p \in Players, PokeSID(p) \/ KthreadEnds(p) PROVE DeviceInv'
  BY <1>2, DeviceFrame
     DEF PokeSID, BeginPoke, BulkWrite, StampTime, Waited, Strobe, KthreadEnds, players
<1>3. ASSUME NEW p \in Players, OpenDevice(p) PROVE DeviceInv'
  <2>1. /\ count = 0 /\ count' = 1 /\ mode' = mode
        /\ state[p] = "started" /\ state' = [state EXCEPT ![p] = "opened"]
    BY <1>3, OpenIs
  <2>2. \A q \in Players : ~ Opened(q) BY <2>1 DEF DeviceInv
  <2>3. \A q \in Players : Opened(q)' => q = p
    BY <2>1, <2>2 DEF TypeOK, Opened
  <2>4. \A q \in Players : ModeFits(q)'
    <3>1. ASSUME NEW q \in Players, q # p PROVE ModeFits(q)'
      BY <2>1, <3>1 DEF TypeOK, DeviceInv, ModeFits
    <3>2. ModeFits(p)' BY <2>1 DEF TypeOK, DeviceInv, ModeFits, Configures, SetUp
    <3>3. QED BY <3>1, <3>2
  <2>5. QED BY <2>1, <2>3, <2>4 DEF DeviceInv
<1>4. ASSUME NEW p \in Players, CloseDevice(p) PROVE DeviceInv'
  <2>1. Opened(p) /\ state[p] = "closing" /\ mode[p] \in {"none", "kernel"}
    BY <1>4, CloseIs
  <2>2. \/ /\ mode' = [mode EXCEPT ![p] = "local"] /\ state' = [state EXCEPT ![p] = "setup"]
        \/ /\ mode' = [mode EXCEPT ![p] = "none"] /\ state' = [state EXCEPT ![p] = "off"]
    BY <1>4, CloseIs
  <2>3. ASSUME NEW q \in Players PROVE ModeFits(q)' /\ ~ Opened(q)'
    <3>1. CASE q = p
      <4>1. \/ mode'[p] = "local" /\ state'[p] = "setup"
            \/ mode'[p] = "none" /\ state'[p] = "off"
        BY <2>2 DEF TypeOK
      <4>2. QED BY <3>1, <4>1 DEF ModeFits, Opened
    <3>2. CASE q # p
      <4>1. state'[q] = state[q] /\ mode'[q] = mode[q] BY <2>2, <3>2 DEF TypeOK
      <4>2. ~ Opened(q) BY <2>1, <3>2 DEF DeviceInv
      <4>3. QED BY <4>1, <4>2 DEF DeviceInv, ModeFits, Opened
    <3>3. QED BY <3>1, <3>2
  <2>4. QED BY <2>3 DEF DeviceInv
<1>5. ASSUME NEW p \in Players, Start(p) \/ Play(p), ~ OpenDevice(p), ~ CloseDevice(p),
             ~ KthreadEnds(p)
      PROVE  DeviceInv'
  <2>f. ModeFits(p) BY DEF DeviceInv
  <2>1. CASE SystemTimerSetup(p)
    <3>1. PICK s : state' = [state EXCEPT ![p] = s] BY <2>1 DEF SystemTimerSetup, Enter
    <3>2. mode' = [mode EXCEPT ![p] = mode[p]] /\ count' = count
      BY <2>1 DEF SystemTimerSetup, TypeOK, players
    <3>3. ModeFits(p)' /\ (Opened(p)' => Opened(p))
      BY <2>f, <2>1 DEF SystemTimerSetup, Enter, TypeOK, ModeFits, Opened, Configures, SetUp
    <3>4. QED BY <3>1, <3>2, <3>3, DeviceMoves
  <2>2. CASE OpenFails(p)
    <3>1. /\ mode' = [mode EXCEPT ![p] = "local"] /\ state' = [state EXCEPT ![p] = "setup"]
          /\ count' = count
      BY <2>2 DEF OpenFails, Enter
    <3>2. ModeFits(p)' /\ ~ Opened(p)' BY <3>1 DEF TypeOK, ModeFits, Opened
    <3>3. QED BY <3>1, <3>2, DeviceMoves
  <2>3. CASE MapDevice(p)
    <3>1. CASE mode' = [mode EXCEPT ![p] = "kernel"] /\ state' = [state EXCEPT ![p] = "setup"]
      <4>1. Opened(p) BY <2>3 DEF MapDevice, Opened
      <4>2. ModeFits(p)' BY <3>1 DEF TypeOK, ModeFits
      <4>3. count' = count BY <2>3 DEF MapDevice
      <4>4. QED BY <3>1, <4>1, <4>2, <4>3, DeviceMoves
    <3>2. CASE mode' = mode /\ state' = [state EXCEPT ![p] = "closing"]
      <4>1. Opened(p) BY <2>3 DEF MapDevice, Opened
      <4>2. mode' = [mode EXCEPT ![p] = mode[p]] BY <3>2 DEF TypeOK
      <4>3. ModeFits(p)' BY <2>f, <2>3, <3>2 DEF TypeOK, ModeFits, MapDevice
      <4>4. count' = count BY <2>3 DEF MapDevice
      <4>5. QED BY <3>2, <4>1, <4>2, <4>3, <4>4, DeviceMoves
    <3>3. QED BY <2>3, <3>1, <3>2 DEF MapDevice, Enter
  <2>4. CASE WiringPiSetup(p)
    <3>1. PICK s : state' = [state EXCEPT ![p] = s] BY <2>4 DEF WiringPiSetup, Enter
    <3>2. mode' = [mode EXCEPT ![p] = mode[p]] /\ count' = count
      BY <2>4 DEF WiringPiSetup, TypeOK, players
    <3>3. ModeFits(p)' /\ (Opened(p)' => Opened(p))
      BY <2>f, <2>4 DEF WiringPiSetup, Enter, TypeOK, ModeFits, Opened, Configures, SetUp
    <3>4. QED BY <3>1, <3>2, <3>3, DeviceMoves
  <2>5. CASE SetupClockPin(p)
    <3>1. PICK s : state' = [state EXCEPT ![p] = s] BY <2>5 DEF SetupClockPin, Enter
    <3>2. mode' = [mode EXCEPT ![p] = mode[p]] /\ count' = count
      BY <2>5 DEF SetupClockPin, TypeOK, players
    <3>3. ModeFits(p)' /\ (Opened(p)' => Opened(p))
      BY <2>f, <2>5 DEF SetupClockPin, Enter, TypeOK, ModeFits, Opened, Configures, SetUp
    <3>4. QED BY <3>1, <3>2, <3>3, DeviceMoves
  <2>6. CASE StartAt1MHz(p)
    <3>1. PICK s : state' = [state EXCEPT ![p] = s] BY <2>6 DEF StartAt1MHz, Enter
    <3>2. mode' = [mode EXCEPT ![p] = mode[p]] /\ count' = count
      BY <2>6 DEF StartAt1MHz, TypeOK, players
    <3>3. ModeFits(p)' /\ (Opened(p)' => Opened(p))
      BY <2>f, <2>6 DEF StartAt1MHz, Enter, TypeOK, ModeFits, Opened, Configures, SetUp
    <3>4. QED BY <3>1, <3>2, <3>3, DeviceMoves
  <2>7. CASE StopForPal(p)
    <3>1. PICK s : state' = [state EXCEPT ![p] = s] BY <2>7 DEF StopForPal, Enter
    <3>2. mode' = [mode EXCEPT ![p] = mode[p]] /\ count' = count
      BY <2>7 DEF StopForPal, TypeOK, players
    <3>3. ModeFits(p)' /\ (Opened(p)' => Opened(p))
      BY <2>f, <2>7 DEF StopForPal, Enter, TypeOK, ModeFits, Opened, Configures, SetUp
    <3>4. QED BY <3>1, <3>2, <3>3, DeviceMoves
  <2>8. CASE StartPal(p)
    <3>1. PICK s : state' = [state EXCEPT ![p] = s] BY <2>8 DEF StartPal, Enter
    <3>2. mode' = [mode EXCEPT ![p] = mode[p]] /\ count' = count
      BY <2>8 DEF StartPal, TypeOK, players
    <3>3. ModeFits(p)' /\ (Opened(p)' => Opened(p))
      BY <2>f, <2>8 DEF StartPal, Enter, TypeOK, ModeFits, Opened, Configures, SetUp
    <3>4. QED BY <3>1, <3>2, <3>3, DeviceMoves
  <2>9. CASE PinModes(p)
    <3>1. PICK s : state' = [state EXCEPT ![p] = s] BY <2>9 DEF PinModes, Enter
    <3>2. mode' = [mode EXCEPT ![p] = mode[p]] /\ count' = count
      BY <2>9 DEF PinModes, TypeOK, players
    <3>3. ModeFits(p)' /\ (Opened(p)' => Opened(p))
      BY <2>f, <2>9 DEF PinModes, Enter, TypeOK, ModeFits, Opened, Configures, SetUp
    <3>4. QED BY <3>1, <3>2, <3>3, DeviceMoves
  <2>10. CASE ResetPins(p)
    <3>1. PICK s : state' = [state EXCEPT ![p] = s] BY <2>10 DEF ResetPins, Enter
    <3>2. mode' = [mode EXCEPT ![p] = mode[p]] /\ count' = count
      BY <2>10 DEF ResetPins, TypeOK, players
    <3>3. ModeFits(p)' /\ (Opened(p)' => Opened(p))
      BY <2>f, <2>10 DEF ResetPins, Enter, TypeOK, ModeFits, Opened, Configures, SetUp
    <3>4. QED BY <3>1, <3>2, <3>3, DeviceMoves
  <2>11. CASE LoadSong(p)
    <3>1. PICK s : state' = [state EXCEPT ![p] = s] BY <2>11 DEF LoadSong, Enter
    <3>2. mode' = [mode EXCEPT ![p] = mode[p]] /\ count' = count
      BY <2>11 DEF LoadSong, TypeOK, players
    <3>3. ModeFits(p)' /\ (Opened(p)' => Opened(p))
      BY <2>f, <2>11 DEF LoadSong, Enter, TypeOK, ModeFits, Opened, Configures, SetUp
    <3>4. QED BY <3>1, <3>2, <3>3, DeviceMoves
  <2>12. CASE StopForSong(p)
    <3>1. PICK s : state' = [state EXCEPT ![p] = s] BY <2>12 DEF StopForSong, Enter
    <3>2. mode' = [mode EXCEPT ![p] = mode[p]] /\ count' = count
      BY <2>12 DEF StopForSong, TypeOK, players
    <3>3. ModeFits(p)' /\ (Opened(p)' => Opened(p))
      BY <2>f, <2>12 DEF StopForSong, Enter, TypeOK, ModeFits, Opened, Configures, SetUp
    <3>4. QED BY <3>1, <3>2, <3>3, DeviceMoves
  <2>13. CASE StartForSong(p)
    <3>1. PICK s : state' = [state EXCEPT ![p] = s] BY <2>13 DEF StartForSong, Enter
    <3>2. mode' = [mode EXCEPT ![p] = mode[p]] /\ count' = count
      BY <2>13 DEF StartForSong, TypeOK, players
    <3>3. ModeFits(p)' /\ (Opened(p)' => Opened(p))
      BY <2>f, <2>13 DEF StartForSong, Enter, TypeOK, ModeFits, Opened, Configures, SetUp
    <3>4. QED BY <3>1, <3>2, <3>3, DeviceMoves
  <2>14. CASE EndOfSong(p)
    <3>1. PICK s : state' = [state EXCEPT ![p] = s] BY <2>14 DEF EndOfSong, Enter
    <3>2. mode' = [mode EXCEPT ![p] = mode[p]] /\ count' = count
      BY <2>14 DEF EndOfSong, TypeOK, players
    <3>3. ModeFits(p)' /\ (Opened(p)' => Opened(p))
      BY <2>f, <2>14 DEF EndOfSong, Enter, TypeOK, ModeFits, Opened, Configures, SetUp
    <3>4. QED BY <3>1, <3>2, <3>3, DeviceMoves
  <2>15. CASE EndLocal(p)
    <3>1. /\ mode' = [mode EXCEPT ![p] = "none"] /\ state' = [state EXCEPT ![p] = "off"]
          /\ count' = count
      BY <2>15 DEF EndLocal, Enter
    <3>2. ModeFits(p)' /\ ~ Opened(p)' BY <3>1 DEF TypeOK, ModeFits, Opened
    <3>3. QED BY <3>1, <3>2, DeviceMoves
  <2>16. QED BY <1>5, <2>1, <2>2, <2>3, <2>4, <2>5, <2>6, <2>7, <2>8, <2>9, <2>10, <2>11, <2>12, <2>13, <2>14, <2>15 DEF Start, Play
<1>6. QED BY <1>0, <1>1, <1>2, <1>3, <1>4, <1>5 DEF Next
-----------------------------------------------------------------------------
(* The pins stay outputs.                                                  *)
LEMMA ResetIs == CSPin \in BulkSet({CS}) /\ CSPin \notin BulkClear({CS})
BY BulkIs, Pins DEF CSPin, CS

LEMMA WordSparesCS ==
  ASSUME TypeOK, NEW p \in Players PROVE CSPin \notin BulkSet(Word(p))
<1>1. data[p] \in Words BY PokesAreWords DEF TypeOK
<1>2. QED BY <1>1, WordIs DEF Word

(* What a step can do to level, out and seen.                              *)
PinsKept == UNCHANGED <<level, out, seen>>

LEMMA MaintenanceFrame ==
  ASSUME Module, ~ InitPins PROVE PinsKept
BY DEF Module, SetupMem, MapTimer, Register, ReleasePins, Unload, PinsKept, pins

LEMMA PokesKept == ASSUME Module PROVE AsPoked
BY DEF Module, SetupMem, MapTimer, Register, InitPins, ReleasePins, Unload, AsPoked, poke

LEMMA PlayKeepsPoke ==
  ASSUME NEW p \in Players, Start(p) \/ Play(p)
  PROVE  /\ AsPoked /\ clock' = clock
         /\ PinModes(p) \/ ResetPins(p) \/ PinsKept
<1>1. CASE SystemTimerSetup(p) BY <1>1 DEF SystemTimerSetup, AsPoked, PinsKept, pins, poke
<1>2. CASE OpenDevice(p) BY <1>2 DEF OpenDevice, AsPoked, PinsKept, pins, poke
<1>3. CASE OpenFails(p) BY <1>3 DEF OpenFails, AsPoked, PinsKept, pins, poke
<1>4. CASE MapDevice(p) BY <1>4 DEF MapDevice, AsPoked, PinsKept, pins, poke
<1>5. CASE WiringPiSetup(p) BY <1>5 DEF WiringPiSetup, AsPoked, PinsKept, pins, poke
<1>6. CASE SetupClockPin(p) BY <1>6 DEF SetupClockPin, AsPoked, PinsKept, pins, poke
<1>7. CASE StartAt1MHz(p) BY <1>7 DEF StartAt1MHz, AsPoked, PinsKept, pins, poke
<1>8. CASE StopForPal(p) BY <1>8 DEF StopForPal, AsPoked, PinsKept, pins, poke
<1>9. CASE StartPal(p) BY <1>9 DEF StartPal, AsPoked, PinsKept, pins, poke
<1>10. CASE PinModes(p) BY <1>10 DEF PinModes, AsPoked, PinsKept, pins, poke
<1>11. CASE ResetPins(p) BY <1>11 DEF ResetPins, AsPoked, PinsKept, pins, poke
<1>12. CASE LoadSong(p) BY <1>12 DEF LoadSong, AsPoked, PinsKept, pins, poke
<1>13. CASE StopForSong(p) BY <1>13 DEF StopForSong, AsPoked, PinsKept, pins, poke
<1>14. CASE StartForSong(p) BY <1>14 DEF StartForSong, AsPoked, PinsKept, pins, poke
<1>15. CASE EndOfSong(p) BY <1>15 DEF EndOfSong, AsPoked, PinsKept, pins, poke
<1>16. CASE KthreadEnds(p) BY <1>16 DEF KthreadEnds, AsPoked, PinsKept, pins, poke
<1>17. CASE CloseDevice(p) BY <1>17 DEF CloseDevice, AsPoked, PinsKept, pins, poke
<1>18. CASE EndLocal(p) BY <1>18 DEF EndLocal, AsPoked, PinsKept, pins, poke
<1>19. QED BY <1>1, <1>2, <1>3, <1>4, <1>5, <1>6, <1>7, <1>8, <1>9, <1>10, <1>11, <1>12, <1>13, <1>14, <1>15, <1>16, <1>17, <1>18 DEF Start, Play

LEMMA UpStep == ASSUME TypeOK, Up, [Next]_vars PROVE Up'
<1>a. ASSUME PinsKept, AsPoked PROVE Up' BY <1>a DEF Up, PinsKept, AsPoked
<1>0. CASE UNCHANGED vars
  BY <1>a, <1>0 DEF vars, pins, poke, PinsKept, AsPoked
<1>1. CASE Tick BY <1>1 DEF Up, Tick, pins, poke
<1>2. CASE Module
  <2>1. CASE InitPins
    <3>1. AsPoked BY <1>2, PokesKept
    <3>2. out \subseteq out' BY <2>1 DEF InitPins
    <3>3. CSPin \in level => CSPin \in level' BY <2>1 DEF InitPins, CSPin
    <3>4. QED BY <3>1, <3>2, <3>3 DEF Up, AsPoked
  <2>2. QED BY <1>a, <1>2, <2>1, MaintenanceFrame, PokesKept
<1>3. ASSUME NEW p \in Players, PokeSID(p) PROVE Up'
  <2>1. CASE BeginPoke(p)
    <3>1. \A q \in Players : step[q] \in Strobing => step'[q] = step[q]
      BY <2>1 DEF BeginPoke, Strobing, TypeOK
    <3>2. QED BY <2>1, <3>1 DEF Up, BeginPoke, pins
  <2>2. CASE BulkWrite(p)
    <3>1. CASE step[p] = "set"
      <4>1. \A q \in Players : step[q] \in Strobing => step'[q] = step[q]
        BY <2>2, <3>1 DEF BulkWrite, Strobing, TypeOK
      <4>2. level \subseteq level' /\ out' = out BY <2>2, <3>1 DEF BulkWrite
      <4>3. QED BY <4>1, <4>2 DEF Up
    <3>2. CASE step[p] = "clear"
      <4>1. step'[p] \in Strobing BY <2>2, <3>2 DEF BulkWrite, Strobing, TypeOK
      <4>2. QED BY <2>2, <4>1 DEF Up, BulkWrite
    <3>3. QED BY <2>2, <3>1, <3>2 DEF BulkWrite
  <2>3. CASE StampTime(p) \/ Waited(p)
    <3>1. step'[p] \in Strobing BY <2>3 DEF StampTime, Waited, Strobing, TypeOK
    <3>2. QED BY <2>3, <3>1 DEF Up, StampTime, Waited, pins
  <2>4. CASE Strobe(p)
    BY <2>4 DEF Up, Strobe, CSPin
  <2>5. QED BY <1>3, <2>1, <2>2, <2>3, <2>4 DEF PokeSID
<1>4. ASSUME NEW p \in Players, Start(p) \/ Play(p) PROVE Up'
  <2>1. CASE PinModes(p)
    BY <2>1 DEF Up, PinModes, poke
  <2>2. CASE ResetPins(p)
    <3>1. CSPin \in level => CSPin \in level' BY <2>2, ResetIs DEF ResetPins
    <3>2. QED BY <2>2, <3>1 DEF Up, ResetPins, poke
  <2>3. QED BY <1>a, <1>4, <2>1, <2>2, PlayKeepsPoke
<1>5. QED BY <1>0, <1>1, <1>2, <1>3, <1>4 DEF Next

LEMMA OutputsStay == ASSUME [Next]_vars PROVE out \subseteq out'
<1>0. CASE UNCHANGED vars \/ Tick BY <1>0 DEF vars, Tick, pins
<1>1. CASE Module
  BY <1>1, MaintenanceFrame DEF InitPins, PinsKept
<1>2. ASSUME NEW p \in Players, PokeSID(p) PROVE out \subseteq out'
  BY <1>2 DEF PokeSID, BeginPoke, BulkWrite, StampTime, Waited, Strobe, pins
<1>3. ASSUME NEW p \in Players, Start(p) \/ Play(p) PROVE out \subseteq out'
  BY <1>3, PlayKeepsPoke DEF PinModes, ResetPins, PinsKept
<1>4. QED BY <1>0, <1>1, <1>2, <1>3 DEF Next

LEMMA SeenStep ==
  ASSUME TypeOK, CSPin \in level => seen = {}, [Next]_vars
  PROVE  CSPin \in level' => seen' = {}
<1>0. CASE UNCHANGED vars BY <1>0 DEF vars, pins
<1>1. CASE Tick BY <1>1, Selection DEF Tick, pins
<1>2. CASE Module
  <2>1. CASE InitPins
    BY <2>1 DEF InitPins, CSPin
  <2>2. QED BY <1>2, <2>1, MaintenanceFrame DEF PinsKept
<1>3. ASSUME NEW p \in Players, PokeSID(p) PROVE CSPin \in level' => seen' = {}
  <2>1. CASE BulkWrite(p)
    BY <2>1, WordSparesCS DEF BulkWrite
  <2>2. CASE ~ BulkWrite(p)
    BY <1>3, <2>2 DEF PokeSID, BeginPoke, StampTime, Waited, Strobe, pins
  <2>3. QED BY <2>1, <2>2
<1>4. ASSUME NEW p \in Players, Start(p) \/ Play(p) PROVE CSPin \in level' => seen' = {}
  <2>1. CASE PinModes(p) BY <2>1 DEF PinModes
  <2>2. CASE ResetPins(p) BY <2>2 DEF ResetPins
  <2>3. QED BY <1>4, <2>1, <2>2, PlayKeepsPoke DEF PinsKept
<1>5. QED BY <1>0, <1>1, <1>2, <1>3, <1>4 DEF Next

(* What the steps of one player do to another, and to itself.              *)
LEMMA PokeKeeps ==
  ASSUME TypeOK, NEW p \in Players, PokeSID(p)
  PROVE  /\ UNCHANGED <<clock, out, clockOut, rate, mod, res, count, state, mode, alive>>
         /\ \A q \in Players \ {p} : step'[q] = step[q] /\ data'[q] = data[q] /\ ts'[q] = ts[q]
<1>1. CASE BeginPoke(p) BY <1>1 DEF TypeOK, BeginPoke, pins, module, players
<1>2. CASE BulkWrite(p) BY <1>2 DEF TypeOK, BulkWrite, pins, module, players
<1>3. CASE StampTime(p) BY <1>3 DEF TypeOK, StampTime, pins, module, players
<1>4. CASE Waited(p) BY <1>4 DEF TypeOK, Waited, pins, module, players
<1>5. CASE Strobe(p) BY <1>5 DEF TypeOK, Strobe, pins, module, players
<1>6. QED BY <1>1, <1>2, <1>3, <1>4, <1>5 DEF PokeSID

LEMMA OthersAlone ==
  ASSUME TypeOK, DeviceInv, NEW p \in Players, PokeSID(p) \/ Start(p) \/ Play(p),
         NEW q \in Players, q # p
  PROVE  /\ state'[q] = state[q] /\ mode'[q] = mode[q] /\ alive'[q] = alive[q]
         /\ step'[q] = step[q] /\ data'[q] = data[q] /\ ts'[q] = ts[q]
<1>1. CASE PokeSID(p) BY <1>1, PokeKeeps
<1>2. CASE Start(p) \/ Play(p)
  <2>s. AsPoked BY <1>2, PlayKeepsPoke
  <2> SUFFICES state'[q] = state[q] /\ mode'[q] = mode[q] /\ alive'[q] = alive[q]
    BY <2>s DEF AsPoked
  <2>1. CASE SystemTimerSetup(p)
    BY <2>1 DEF TypeOK, SystemTimerSetup, Enter, players
  <2>2. CASE OpenDevice(p)
    <3>1. /\ state' = [state EXCEPT ![p] = "opened"] /\ mode' = mode
          /\ alive' = [alive EXCEPT ![p] = TRUE]
      BY <2>2, OpenIs
    <3>2. QED BY <3>1 DEF TypeOK
  <2>3. CASE OpenFails(p)
    BY <2>3 DEF TypeOK, OpenFails, Enter, players
  <2>4. CASE MapDevice(p)
    BY <2>4 DEF TypeOK, MapDevice, Enter, players
  <2>5. CASE WiringPiSetup(p)
    BY <2>5 DEF TypeOK, WiringPiSetup, Enter, players
  <2>6. CASE SetupClockPin(p)
    BY <2>6 DEF TypeOK, SetupClockPin, Enter, players
  <2>7. CASE StartAt1MHz(p)
    BY <2>7 DEF TypeOK, StartAt1MHz, Enter, players
  <2>8. CASE StopForPal(p)
    BY <2>8 DEF TypeOK, StopForPal, Enter, players
  <2>9. CASE StartPal(p)
    BY <2>9 DEF TypeOK, StartPal, Enter, players
  <2>10. CASE PinModes(p)
    BY <2>10 DEF TypeOK, PinModes, Enter, players
  <2>11. CASE ResetPins(p)
    BY <2>11 DEF TypeOK, ResetPins, Enter, players
  <2>12. CASE LoadSong(p)
    BY <2>12 DEF TypeOK, LoadSong, Enter, players
  <2>13. CASE StopForSong(p)
    BY <2>13 DEF TypeOK, StopForSong, Enter, players
  <2>14. CASE StartForSong(p)
    BY <2>14 DEF TypeOK, StartForSong, Enter, players
  <2>15. CASE EndOfSong(p)
    BY <2>15 DEF TypeOK, EndOfSong, Enter, players
  <2>16. CASE KthreadEnds(p)
    BY <2>16 DEF TypeOK, KthreadEnds, players
  <2>17. CASE CloseDevice(p)
    <3>1. /\ \/ /\ mode' = [mode EXCEPT ![p] = "local"]
                /\ state' = [state EXCEPT ![p] = "setup"]
             \/ /\ mode' = [mode EXCEPT ![p] = "none"]
                /\ state' = [state EXCEPT ![p] = "off"]
          /\ alive' = alive
      BY <2>17, CloseIs
    <3>2. QED BY <3>1 DEF TypeOK
  <2>18. CASE EndLocal(p)
    BY <2>18 DEF TypeOK, EndLocal, Enter, players
  <2>19. QED BY <1>2, <2>1, <2>2, <2>3, <2>4, <2>5, <2>6, <2>7, <2>8, <2>9, <2>10, <2>11, <2>12, <2>13, <2>14, <2>15, <2>16, <2>17, <2>18 DEF Start, Play
<1>3. QED BY <1>1, <1>2

LEMMA Reaches ==
  ASSUME TypeOK, DeviceInv, NEW p \in Players, Start(p) \/ Play(p), mode'[p] = "local"
  PROVE  /\ state'[p] = "pinsSet" => \/ mode[p] = "local" /\ state[p] = "pinsSet"
                                     \/ PinModes(p)
         /\ state'[p] \in {"pinsClear"} \cup SetUp =>
              /\ mode[p] = "local"
              /\ \/ state[p] \in {"pinsClear"} \cup SetUp
                 \/ state[p] = "pinsSet" /\ ResetPins(p)
<1>1. CASE SystemTimerSetup(p) BY <1>1 DEF TypeOK, SetUp, SystemTimerSetup, Enter, players
<1>2. CASE OpenDevice(p)
  <2>1. state' = [state EXCEPT ![p] = "opened"] BY <1>2, OpenIs
  <2>2. QED BY <2>1 DEF TypeOK, SetUp
<1>3. CASE OpenFails(p) BY <1>3 DEF TypeOK, SetUp, OpenFails, Enter, players
<1>4. CASE MapDevice(p)
  <2>1. \E s \in {"setup", "closing"} : state' = [state EXCEPT ![p] = s]
    BY <1>4 DEF MapDevice, Enter
  <2>2. QED BY <2>1 DEF TypeOK, SetUp
<1>5. CASE WiringPiSetup(p) BY <1>5 DEF TypeOK, SetUp, WiringPiSetup, Enter, players
<1>6. CASE SetupClockPin(p) BY <1>6 DEF TypeOK, SetUp, SetupClockPin, Enter, players
<1>7. CASE StartAt1MHz(p) BY <1>7 DEF TypeOK, SetUp, StartAt1MHz, Enter, players
<1>8. CASE StopForPal(p) BY <1>8 DEF TypeOK, SetUp, StopForPal, Enter, players
<1>9. CASE StartPal(p) BY <1>9 DEF TypeOK, SetUp, StartPal, Enter, players
<1>10. CASE PinModes(p) BY <1>10 DEF TypeOK, SetUp, PinModes, Enter, players
<1>11. CASE ResetPins(p) BY <1>11 DEF TypeOK, SetUp, ResetPins, Enter, players
<1>12. CASE LoadSong(p) BY <1>12 DEF TypeOK, SetUp, LoadSong, Enter, players
<1>13. CASE StopForSong(p) BY <1>13 DEF TypeOK, SetUp, StopForSong, Enter, players
<1>14. CASE StartForSong(p) BY <1>14 DEF TypeOK, SetUp, StartForSong, Enter, players
<1>15. CASE EndOfSong(p) BY <1>15 DEF TypeOK, SetUp, EndOfSong, Enter, players
<1>16. CASE KthreadEnds(p) BY <1>16 DEF TypeOK, SetUp, KthreadEnds, players
<1>17. CASE CloseDevice(p)
  <2>1. \E s \in {"setup", "off"} : state' = [state EXCEPT ![p] = s]
    BY <1>17, CloseIs
  <2>2. QED BY <2>1 DEF TypeOK, SetUp
<1>18. CASE EndLocal(p) BY <1>18 DEF TypeOK, SetUp, EndLocal, Enter, players
<1>19. QED BY <1>1, <1>2, <1>3, <1>4, <1>5, <1>6, <1>7, <1>8, <1>9, <1>10, <1>11, <1>12, <1>13, <1>14, <1>15, <1>16, <1>17, <1>18 DEF Start, Play

LEMMA PinsStep == ASSUME TypeOK, DeviceInv, PinsInv, [Next]_vars PROVE PinsInv'
<1>1. CSPin \in level' => seen' = {} BY SeenStep DEF PinsInv
<1>2. (mod' = "in" => mod = "in" \/ Up') => (mod' = "in" => Up')
  BY UpStep DEF PinsInv
<1>3. ASSUME NEW q \in Players, mode'[q] = "local"
      PROVE  /\ state'[q] = "pinsSet" => BoardPins \subseteq out'
             /\ state'[q] \in {"pinsClear"} \cup SetUp => Up'
  <2>1. CASE state'[q] = state[q] /\ mode[q] = "local"
    BY <2>1, UpStep, OutputsStay DEF PinsInv
  <2>2. CASE Start(q) \/ Play(q)
    <3>1. ASSUME state'[q] = "pinsSet" PROVE BoardPins \subseteq out'
      BY <1>3, <2>2, <3>1, Reaches, OutputsStay DEF PinsInv, PinModes
    <3>2. ASSUME state'[q] \in {"pinsClear"} \cup SetUp PROVE Up'
      <4>1. CASE state[q] \in {"pinsClear"} \cup SetUp
        BY <1>3, <2>2, <3>2, <4>1, Reaches, UpStep DEF PinsInv
      <4>2. CASE state[q] = "pinsSet" /\ mode[q] = "local" /\ ResetPins(q)
        BY <4>2, ResetIs, OutputsStay DEF PinsInv, ResetPins, Up
      <4>3. QED BY <1>3, <2>2, <3>2, <4>1, <4>2, Reaches
    <3>3. QED BY <3>1, <3>2
  <2>3. CASE UNCHANGED vars \/ Tick \/ Module
    <3>1. UNCHANGED <<state, mode>>
      BY <2>3 DEF vars, Tick, Module, SetupMem, MapTimer, Register, InitPins,
                  ReleasePins, Unload, players
    <3>2. QED BY <1>3, <2>1, <3>1
  <2>4. ASSUME NEW p \in Players, p # q, PokeSID(p) \/ Start(p) \/ Play(p)
        PROVE  state'[q] = state[q] /\ mode[q] = "local"
    BY <1>3, <2>4, OthersAlone
  <2>5. CASE PokeSID(q) BY <1>3, <2>1, <2>5, PokeKeeps
  <2>6. QED BY <2>1, <2>2, <2>3, <2>4, <2>5 DEF Next
<1>4. mod' = "in" => mod = "in" \/ Up'
  <2>1. CASE UNCHANGED vars \/ Tick BY <2>1 DEF vars, Tick, module
  <2>2. CASE InitPins
    <3>1. ASSUME mod' = "in" PROVE BoardPins \subseteq out' /\ CSPin \in level'
      BY <2>2, <3>1, BoardIs DEF InitPins, CSPin
    <3>2. QED BY <3>1 DEF Up
  <2>3. CASE Module /\ ~ InitPins
    BY <2>3 DEF Module, SetupMem, MapTimer, Register, ReleasePins, Unload
  <2>4. CASE \E p \in Players : PokeSID(p) \/ Start(p) \/ Play(p)
    BY <2>4, PlayerFrame DEF AsLoaded
  <2>5. QED BY <2>1, <2>2, <2>3, <2>4 DEF Next
<1>5. QED BY <1>1, <1>2, <1>3, <1>4 DEF PinsInv
-----------------------------------------------------------------------------
(* While nothing unguarded happens: who has the device, and who drives.    *)
LEMMA OwnDevice ==
  ASSUME TypeOK, DeviceInv, NEW p \in Players, Start(p) \/ Play(p),
         ~ OpenDevice(p), ~ CloseDevice(p)
  PROVE  /\ (Opened(p) <=> Opened(p)') /\ (alive'[p] => alive[p])
         /\ Drives(p)' => Drives(p) \/ OpenFails(p)
<1>f. ModeFits(p) BY DEF DeviceInv
<1>1. CASE SystemTimerSetup(p) BY <1>1, <1>f DEF TypeOK, ModeFits, Configures, SetUp, Opened, Drives, SystemTimerSetup, Enter, players
<1>2. CASE OpenFails(p) BY <1>2, <1>f DEF TypeOK, ModeFits, Configures, SetUp, Opened, Drives, OpenFails, Enter, players
<1>3. CASE MapDevice(p) BY <1>3, <1>f DEF TypeOK, ModeFits, Configures, SetUp, Opened, Drives, MapDevice, Enter, players
<1>4. CASE WiringPiSetup(p) BY <1>4, <1>f DEF TypeOK, ModeFits, Configures, SetUp, Opened, Drives, WiringPiSetup, Enter, players
<1>5. CASE SetupClockPin(p) BY <1>5, <1>f DEF TypeOK, ModeFits, Configures, SetUp, Opened, Drives, SetupClockPin, Enter, players
<1>6. CASE StartAt1MHz(p) BY <1>6, <1>f DEF TypeOK, ModeFits, Configures, SetUp, Opened, Drives, StartAt1MHz, Enter, players
<1>7. CASE StopForPal(p) BY <1>7, <1>f DEF TypeOK, ModeFits, Configures, SetUp, Opened, Drives, StopForPal, Enter, players
<1>8. CASE StartPal(p) BY <1>8, <1>f DEF TypeOK, ModeFits, Configures, SetUp, Opened, Drives, StartPal, Enter, players
<1>9. CASE PinModes(p) BY <1>9, <1>f DEF TypeOK, ModeFits, Configures, SetUp, Opened, Drives, PinModes, Enter, players
<1>10. CASE ResetPins(p) BY <1>10, <1>f DEF TypeOK, ModeFits, Configures, SetUp, Opened, Drives, ResetPins, Enter, players
<1>11. CASE LoadSong(p) BY <1>11, <1>f DEF TypeOK, ModeFits, Configures, SetUp, Opened, Drives, LoadSong, Enter, players
<1>12. CASE StopForSong(p) BY <1>12, <1>f DEF TypeOK, ModeFits, Configures, SetUp, Opened, Drives, StopForSong, Enter, players
<1>13. CASE StartForSong(p) BY <1>13, <1>f DEF TypeOK, ModeFits, Configures, SetUp, Opened, Drives, StartForSong, Enter, players
<1>14. CASE EndOfSong(p) BY <1>14, <1>f DEF TypeOK, ModeFits, Configures, SetUp, Opened, Drives, EndOfSong, Enter, players
<1>15. CASE KthreadEnds(p) BY <1>15, <1>f DEF TypeOK, ModeFits, Configures, SetUp, Opened, Drives, KthreadEnds, players
<1>16. CASE EndLocal(p) BY <1>16, <1>f DEF TypeOK, ModeFits, Configures, SetUp, Opened, Drives, EndLocal, Enter, players
<1>17. QED BY <1>1, <1>2, <1>3, <1>4, <1>5, <1>6, <1>7, <1>8, <1>9, <1>10, <1>11, <1>12, <1>13, <1>14, <1>15, <1>16 DEF Start, Play

LEMMA OwnerStep ==
  ASSUME IInv, [Next]_vars, Calm', NEW q \in Players
  PROVE  (alive'[q] => Opened(q)') /\ (Opened(q)' => mod' = "in")
<1>c. Calm /\ CalmInv BY FaultsKept DEF IInv, Calm
<1>i. TypeOK /\ DeviceInv /\ ModuleInv BY DEF IInv
<1>1. CASE UNCHANGED vars \/ Tick BY <1>c, <1>1 DEF CalmInv, Opened, vars, Tick, module, players
<1>2. CASE Module
  <2>1. UNCHANGED <<state, mode, alive>>
    BY <1>2 DEF Module, SetupMem, MapTimer, Register, InitPins, ReleasePins, Unload, players
  <2>2. mod = "in" => mod' = "in" \/ count = 0
    BY <1>2 DEF Module, SetupMem, MapTimer, Register, InitPins, ReleasePins, Unload, Unloading
  <2>3. Opened(q) => count = 1 BY <1>i DEF DeviceInv
  <2>4. QED BY <1>c, <2>1, <2>2, <2>3 DEF CalmInv, Opened
<1>3. ASSUME NEW p \in Players, PokeSID(p)
      PROVE  (alive'[q] => Opened(q)') /\ (Opened(q)' => mod' = "in")
  <2>1. UNCHANGED <<state, mode, alive, mod>> BY <1>3, <1>i, PokeKeeps
  <2>2. QED BY <1>c, <2>1 DEF CalmInv, Opened
<1>4. ASSUME NEW p \in Players, Start(p) \/ Play(p)
      PROVE  (alive'[q] => Opened(q)') /\ (Opened(q)' => mod' = "in")
  <2>m. mod' = mod BY <1>4, PlayerFrame DEF AsLoaded
  <2>1. CASE q # p
    <3>1. state'[q] = state[q] /\ mode'[q] = mode[q] /\ alive'[q] = alive[q]
      BY <1>4, <1>i, <2>1, OthersAlone
    <3>2. QED BY <1>c, <2>m, <3>1 DEF CalmInv, Opened
  <2>2. CASE OpenDevice(p) /\ q = p
    <3>1. /\ state' = [state EXCEPT ![p] = "opened"]
          /\ "device" \in res /\ ~ Unloading /\ mod # "registered"
      BY <1>i, <2>2, OpenIs DEF Calm
    <3>2. Opened(q)' BY <1>i, <2>2, <3>1 DEF TypeOK, Opened
    <3>3. mod = "in" BY <1>i, <3>1 DEF ModuleInv, Unloading
    <3>4. QED BY <2>m, <3>2, <3>3
  <2>3. CASE CloseDevice(p) /\ q = p
    <3>1. alive' = alive /\ ~ alive[p] BY <1>i, <2>3, CloseIs DEF Calm
    <3>2. Opened(p) BY <1>i, <2>3, CloseIs
    <3>3. QED BY <1>c, <2>3, <2>m, <3>1, <3>2 DEF CalmInv
  <2>4. CASE ~ OpenDevice(p) /\ ~ CloseDevice(p) /\ q = p
    BY <1>4, <1>c, <1>i, <2>4, <2>m, OwnDevice DEF CalmInv
  <2>5. QED BY <2>1, <2>2, <2>3, <2>4
<1>5. QED BY <1>1, <1>2, <1>3, <1>4 DEF Next

(* Nobody joins another on the pins: that would be the fault "shared bus". *)
LEMMA DriverStep ==
  ASSUME IInv, [Next]_vars, Calm', NEW q \in Players, NEW r \in Players,
         Drives(q)', Drives(r)'
  PROVE  q = r
<1>c. Calm /\ CalmInv BY FaultsKept DEF IInv, Calm
<1>i. TypeOK /\ DeviceInv BY DEF IInv
<1>1. CASE UNCHANGED vars \/ Tick \/ Module
  BY <1>c, <1>1
     DEF CalmInv, Drives, vars, Tick, Module, SetupMem, MapTimer, Register, InitPins,
         ReleasePins, Unload, players
<1>2. ASSUME NEW p \in Players, PokeSID(p) PROVE q = r
  <2>1. UNCHANGED <<state, mode, alive>> BY <1>2, <1>i, PokeKeeps
  <2>2. QED BY <1>c, <2>1 DEF CalmInv, Drives
<1>3. ASSUME NEW p \in Players, Start(p) \/ Play(p) PROVE q = r
  <2>1. ASSUME NEW u \in Players, u # p, Drives(u)' PROVE Drives(u)
    <3>1. state'[u] = state[u] /\ mode'[u] = mode[u] /\ alive'[u] = alive[u]
      BY <1>3, <1>i, <2>1, OthersAlone
    <3>2. QED BY <2>1, <3>1 DEF Drives
  <2>2. Driving = {u \in Players : Drives(u)} BY DEF Driving, Drives
  <2>3. "shared bus" \notin fault' BY DEF Calm
  <2>4. Drives(p)' => Drives(p) \/ Driving \ {p} = {}
    <3>1. CASE OpenDevice(p) BY <1>i, <2>3, <3>1, OpenIs
    <3>2. CASE OpenFails(p) BY <2>3, <3>2 DEF OpenFails, Faulty
    <3>3. CASE CloseDevice(p)
      <4>1. CASE mode[p] = "none" BY <1>i, <2>3, <3>3, <4>1, CloseIs
      <4>2. CASE mode[p] = "kernel"
        <5>1. mode' = [mode EXCEPT ![p] = "none"] /\ alive' = alive
          BY <1>i, <3>3, <4>2, CloseIs
        <5>2. QED BY <1>i, <5>1 DEF TypeOK, Drives
      <4>3. QED BY <1>i, <3>3, <4>1, <4>2, CloseIs
    <3>4. CASE ~ OpenDevice(p) /\ ~ CloseDevice(p) /\ ~ OpenFails(p)
      BY <1>3, <1>i, <3>4, OwnDevice
    <3>5. QED BY <3>1, <3>2, <3>3, <3>4
  <2>5. \A u, v \in Players : Drives(u) /\ Drives(v) => u = v BY <1>c DEF CalmInv
  <2>6. QED BY <2>1, <2>2, <2>4, <2>5
<1>4. QED BY <1>1, <1>2, <1>3 DEF Next
-----------------------------------------------------------------------------
(* The clock of the chip.                                                  *)
LEMMA ClockMoves ==
  ASSUME TypeOK, NEW p \in Players, Start(p) \/ Play(p)
  PROVE  \/ UNCHANGED <<clockOut, rate>>
         \/ /\ SetupClockPin(p) \/ StopForPal(p) \/ StopForSong(p)
            /\ rate'[30] = "off" /\ (Poking # {} => "clock stopped" \in fault')
         \/ /\ StartAt1MHz(p) \/ StartPal(p) \/ StartForSong(p)
            /\ rate'[30] # "off" /\ clockOut' = clockOut
<1>r. rate \in [{28, 30, 32} -> Rates \cup {"off"}] BY DEF TypeOK
<1>1. CASE SystemTimerSetup(p) BY <1>1 DEF SystemTimerSetup, pins
<1>2. CASE OpenDevice(p) BY <1>2 DEF OpenDevice, pins
<1>3. CASE OpenFails(p) BY <1>3 DEF OpenFails, pins
<1>4. CASE MapDevice(p) BY <1>4 DEF MapDevice, pins
<1>5. CASE WiringPiSetup(p) BY <1>5 DEF WiringPiSetup, pins
<1>6. CASE SetupClockPin(p)
  <2>1. /\ clockOut' = clockOut \cup {ToGpio(CLK)} /\ StopClock(ToGpio(CLK))
        \/ UNCHANGED <<clockOut, rate>>
    BY <1>6, Zenon DEF SetupClockPin
  <2>2. QED BY <1>6, <1>r, <2>1, ClockTable DEF SetupClockPin, StopClock, Faulty
<1>7. CASE StartAt1MHz(p) BY <1>7, <1>r, ClockTable DEF StartAt1MHz, StartClock
<1>8. CASE StopForPal(p) BY <1>8, <1>r, ClockTable DEF StopForPal, StopClock, Faulty
<1>9. CASE StartPal(p) BY <1>9, <1>r, ClockTable DEF StartPal, StartClock
<1>10. CASE PinModes(p) BY <1>10 DEF PinModes, pins
<1>11. CASE ResetPins(p) BY <1>11 DEF ResetPins, pins
<1>12. CASE LoadSong(p) BY <1>12 DEF LoadSong, pins
<1>13. CASE StopForSong(p) BY <1>13, <1>r, ClockTable DEF StopForSong, StopClock, Faulty
<1>14. CASE StartForSong(p)
  <2>1. PICK r \in Songs : StartClock(CLK, r) BY <1>14 DEF StartForSong
  <2>2. r # "off" BY Bound DEF Rates
  <2>3. QED BY <1>14, <1>r, <2>1, <2>2, ClockTable DEF StartForSong, StartClock
<1>15. CASE EndOfSong(p) BY <1>15 DEF EndOfSong, pins
<1>16. CASE KthreadEnds(p) BY <1>16 DEF KthreadEnds, pins
<1>17. CASE CloseDevice(p) BY <1>17 DEF CloseDevice, pins
<1>18. CASE EndLocal(p) BY <1>18 DEF EndLocal, pins
<1>19. QED BY <1>1, <1>2, <1>3, <1>4, <1>5, <1>6, <1>7, <1>8, <1>9, <1>10, <1>11, <1>12, <1>13, <1>14, <1>15, <1>16, <1>17, <1>18 DEF Start, Play

LEMMA ConfiguresOn ==
  ASSUME TypeOK, NEW p \in Players, Start(p) \/ Play(p), Configuring(p)
  PROVE  Configuring(p)' \/ (ResetPins(p) /\ state[p] = "pinsSet")
<1>c. /\ mode[p] = "local"
      /\ state[p] \in {"clockpin", "clock1MHz", "clockPal", "pins", "pinsSet"}
  BY DEF Configuring
<1>1. CASE SystemTimerSetup(p) BY <1>1, <1>c DEF SystemTimerSetup, TypeOK, Configuring, Enter, players
<1>2. CASE OpenDevice(p) BY <1>2, <1>c DEF OpenDevice, TypeOK, Configuring, Enter, players
<1>3. CASE OpenFails(p) BY <1>3, <1>c DEF OpenFails, TypeOK, Configuring, Enter, players
<1>4. CASE MapDevice(p) BY <1>4, <1>c DEF MapDevice, TypeOK, Configuring, Enter, players
<1>5. CASE WiringPiSetup(p) BY <1>5, <1>c DEF WiringPiSetup, TypeOK, Configuring, Enter, players
<1>6. CASE SetupClockPin(p) BY <1>6, <1>c DEF SetupClockPin, TypeOK, Configuring, Enter, players
<1>7. CASE StartAt1MHz(p) BY <1>7, <1>c DEF StartAt1MHz, TypeOK, Configuring, Enter, players
<1>8. CASE StopForPal(p) BY <1>8, <1>c DEF StopForPal, TypeOK, Configuring, Enter, players
<1>9. CASE StartPal(p) BY <1>9, <1>c DEF StartPal, TypeOK, Configuring, Enter, players
<1>10. CASE PinModes(p) BY <1>10, <1>c DEF PinModes, TypeOK, Configuring, Enter, players
<1>11. CASE ResetPins(p) BY <1>11, <1>c DEF ResetPins, TypeOK, Configuring, Enter, players
<1>12. CASE LoadSong(p) BY <1>12, <1>c DEF LoadSong, TypeOK, Configuring, Enter, players
<1>13. CASE StopForSong(p) BY <1>13, <1>c DEF StopForSong, TypeOK, Configuring, Enter, players
<1>14. CASE StartForSong(p) BY <1>14, <1>c DEF StartForSong, TypeOK, Configuring, Enter, players
<1>15. CASE EndOfSong(p) BY <1>15, <1>c DEF EndOfSong, TypeOK, Configuring, Enter, players
<1>16. CASE KthreadEnds(p) BY <1>16, <1>c DEF KthreadEnds, TypeOK, Configuring, players
<1>17. CASE CloseDevice(p) BY <1>17, <1>c DEF CloseDevice, TypeOK, Configuring, Enter, players
<1>18. CASE EndLocal(p) BY <1>18, <1>c DEF EndLocal, TypeOK, Configuring, Enter, players
<1>19. QED BY <1>1, <1>2, <1>3, <1>4, <1>5, <1>6, <1>7, <1>8, <1>9, <1>10, <1>11, <1>12, <1>13, <1>14, <1>15, <1>16, <1>17, <1>18 DEF Start, Play

LEMMA ClockStep ==
  ASSUME IInv, [Next]_vars, Calm', Clocked'
  PROVE  Up' \/ \E q \in Players : Configuring(q)'
<1>c. Calm /\ CalmInv BY FaultsKept DEF IInv, Calm
<1>i. TypeOK /\ DeviceInv /\ PinsInv BY DEF IInv
<1>u. Up => Up' BY <1>i, UpStep
<1>g. Clocked <=> 21 \in clockOut /\ rate[30] # "off" BY Selection
<1>h. 21 \in clockOut' /\ rate'[30] # "off" BY HeaderTable, ClockTable DEF Clocked
<1>1. CASE UNCHANGED <<clockOut, rate, state, mode>>
  BY <1>c, <1>u, <1>g, <1>h, <1>1 DEF CalmInv, Configuring
<1>2. CASE UNCHANGED vars \/ Tick \/ Module
  BY <1>1, <1>2
     DEF vars, Tick, Module, SetupMem, MapTimer, Register, InitPins, ReleasePins, Unload,
         pins, players
<1>3. ASSUME NEW p \in Players, PokeSID(p) PROVE Up' \/ \E q \in Players : Configuring(q)'
  BY <1>i, <1>1, <1>3, PokeKeeps
<1>4. ASSUME NEW p \in Players, Start(p) \/ Play(p)
      PROVE  Up' \/ \E q \in Players : Configuring(q)'
  <2>1. CASE StartAt1MHz(p) \/ StartPal(p) \/ StartForSong(p)
    <3>f. ModeFits(p) BY <1>i DEF DeviceInv
    <3>1. mode[p] \in {"kernel", "local"}
      BY <1>i, <3>f, <2>1 DEF TypeOK, ModeFits, StartAt1MHz, StartPal, StartForSong
    <3>2. CASE mode[p] = "kernel"
      <4>1. mod = "in" BY <1>c, <3>2 DEF CalmInv, Opened
      <4>2. QED BY <1>i, <1>u, <4>1 DEF PinsInv
    <3>3. CASE mode[p] = "local"
      <4>1. CASE StartForSong(p)
        <5>1. state[p] \in SetUp BY <4>1 DEF StartForSong, SetUp
        <5>2. QED BY <1>i, <1>u, <3>3, <5>1 DEF PinsInv
      <4>2. CASE StartAt1MHz(p) \/ StartPal(p)
        <5>1. Configuring(p)'
          BY <1>i, <3>3, <4>2 DEF StartAt1MHz, StartPal, TypeOK, Configuring, Enter
        <5>2. QED BY <5>1
      <4>3. QED BY <2>1, <4>1, <4>2
    <3>4. QED BY <3>1, <3>2, <3>3
  <2>2. CASE UNCHANGED <<clockOut, rate>>
    <3>1. Up \/ \E q \in Players : Configuring(q)
      BY <1>c, <1>g, <1>h, <2>2 DEF CalmInv
    <3>2. CASE Up BY <1>u, <3>2
    <3>3. ASSUME NEW q \in Players, Configuring(q)
          PROVE  Up' \/ \E u \in Players : Configuring(u)'
      <4>1. CASE q # p
        <5>1. state'[q] = state[q] /\ mode'[q] = mode[q] BY <1>4, <1>i, <4>1, OthersAlone
        <5>2. QED BY <3>3, <5>1 DEF Configuring
      <4>2. CASE q = p /\ Configuring(p)' BY <4>2
      <4>3. CASE q = p /\ ResetPins(p) /\ state[p] = "pinsSet"
        <5>1. BoardPins \subseteq out /\ CSPin \in level'
          BY <1>i, <3>3, <4>3, ResetIs DEF PinsInv, Configuring, ResetPins
        <5>2. QED BY <5>1, OutputsStay DEF Up
      <4>4. QED BY <1>4, <1>i, <3>3, <4>1, <4>2, <4>3, ConfiguresOn
    <3>4. QED BY <3>1, <3>2, <3>3
  <2>3. QED BY <1>4, <1>i, <1>h, <2>1, <2>2, ClockMoves
<1>5. QED BY <1>2, <1>3, <1>4 DEF Next
-----------------------------------------------------------------------------
(* A poke: whoever pokes drives the pins, so nobody else disturbs it.      *)
LEMMA PokersDrive ==
  ASSUME TypeOK, DeviceInv, CalmInv, NEW p \in Players, MayPoke(p) \/ step[p] # "idle"
  PROVE  Drives(p) /\ state[p] \in Sounding
<1>1. CASE step[p] # "idle" BY <1>1 DEF CalmInv, PokeInv
<1>2. CASE MayPoke(p)
  <2>1. ModeFits(p) /\ (alive[p] => Opened(p)) BY DEF DeviceInv, CalmInv
  <2>2. QED BY <1>2, <2>1 DEF MayPoke, ModeFits, Opened, Drives, Sounding, Configures, SetUp
<1>3. QED BY <1>1, <1>2

(* What a poke is spared leaves it where it is.                            *)
LEMMA PokeFrame ==
  ASSUME NEW p \in Players, PokeInv(p), PinsKept,
         state'[p] \in Sounding, Drives(p)', Clocked',
         clock' = clock, step'[p] = step[p], data'[p] = data[p], ts'[p] = ts[p]
  PROVE  PokeInv(p)'
BY DEF PokeInv, PinsKept, Word

LEMMA TickPoke ==
  ASSUME IInv, Tick, NEW p \in Players, PokeInv(p), step[p] # "idle" PROVE PokeInv(p)'
<1>i. TypeOK /\ PinsInv BY DEF IInv
<1>1. /\ UNCHANGED <<level, out, clockOut, rate, state, mode, alive, step, data, ts>>
      /\ seen' = IF Selected /\ Clocked THEN seen \cup {Lines} ELSE seen
  BY DEF Tick, pins, players, poke
<1>2. Drives(p)' /\ state'[p] \in Sounding /\ Clocked'
  BY <1>1 DEF PokeInv, Drives, Clocked
<1>3. CASE step[p] \in Strobing
  <2>1. level \cap BoardPins = BulkSet(Word(p)) /\ seen \subseteq {data[p]}
    BY <1>3 DEF PokeInv
  <2>2. CSPin \notin level BY <1>i, <2>1, BoardIs, WordSparesCS
  <2>3. Selected /\ Clocked BY <2>2, Selection, BoardIs DEF PokeInv
  <2>4. data[p] \in Words BY PokesAreWords DEF PokeInv
  <2>5. Lines = data[p] BY <2>1, <2>4, LinesAre DEF Word
  <2>6. seen' = {data[p]} BY <1>1, <2>1, <2>3, <2>5
  <2>7. step[p] # "set" /\ step[p] # "clear" BY <1>3 DEF Strobing
  <2>8. QED BY <1>1, <1>2, <2>1, <2>6, <2>7 DEF PokeInv, Word
<1>4. CASE step[p] \notin Strobing
  BY <1>1, <1>2, <1>4 DEF PokeInv, Word, Strobing
<1>5. QED BY <1>3, <1>4

LEMMA OwnPoke ==
  ASSUME IInv, CalmInv, NEW p \in Players, PokeSID(p), Calm', step'[p] # "idle"
  PROVE  PokeInv(p)'
<1>i. TypeOK /\ DeviceInv /\ PinsInv BY DEF IInv
<1>0. /\ UNCHANGED <<clock, out, clockOut, rate, state, mode, alive>>
  BY <1>i, PokeKeeps
<1>1. CASE BeginPoke(p)
  <2>1. step[p] = "idle" /\ MayPoke(p) /\ step'[p] = "set" /\ data'[p] \in Pokes
        /\ UNCHANGED <<level, seen>>
    BY <1>i, <1>1 DEF BeginPoke, TypeOK, pins
  <2>2. Clocked BY <1>1 DEF BeginPoke, Faulty, Calm
  <2>3. Drives(p) /\ state[p] \in Sounding BY <1>i, <2>1, PokersDrive
  <2>4. \A q \in Players : Drives(q) => q = p BY <2>3 DEF CalmInv
  <2>5. \A q \in Players : ~ Configuring(q)
    <3>1. \A q \in Players : Configuring(q) => Drives(q) BY DEF Configuring, Drives
    <3>2. ~ Configuring(p) BY <2>3 DEF Configuring, Sounding
    <3>3. QED BY <2>4, <3>1, <3>2
  <2>6. Up BY <2>2, <2>5 DEF CalmInv
  <2>7. \A q \in Players : step[q] \notin Strobing
    <3>1. \A q \in Players : step[q] \in Strobing => Drives(q)
      BY <1>i, PokersDrive DEF Strobing
    <3>2. QED BY <2>1, <2>4, <3>1 DEF Strobing
  <2>8. BoardPins \subseteq out /\ CSPin \in level BY <2>6, <2>7 DEF Up
  <2>9. Drives(p)' /\ Clocked' BY <1>0, <2>2, <2>3 DEF Drives, Clocked
  <2>10. QED BY <1>0, <2>1, <2>3, <2>8, <2>9 DEF PokeInv, Strobing
<1>2. CASE ~ BeginPoke(p)
  <2>1. PokeInv(p)
    <3>1. step[p] # "idle"
      BY <1>2 DEF PokeSID, BulkWrite, StampTime, Waited, Strobe
    <3>2. QED BY <3>1 DEF CalmInv
  <2>2. Drives(p)' /\ Clocked' /\ state'[p] \in Sounding /\ BoardPins \subseteq out'
    BY <1>0, <2>1 DEF Drives, Clocked, PokeInv
  <2>3. CASE BulkWrite(p) /\ step[p] = "set"
    <3>1. /\ step'[p] = "clear" /\ level' = level \cup BulkSet(Word(p))
          /\ UNCHANGED <<data, seen>>
      BY <1>i, <2>3 DEF BulkWrite, TypeOK
    <3>2. Word(p)' = Word(p) BY <3>1 DEF Word
    <3>3. QED BY <2>1, <2>2, <2>3, <3>1, <3>2 DEF PokeInv, Strobing
  <2>4. CASE BulkWrite(p) /\ step[p] = "clear"
    <3>1. /\ step'[p] = "stamp" /\ level' = level \ BulkClear(Word(p))
          /\ UNCHANGED <<data, seen>>
      BY <1>i, <2>4 DEF BulkWrite, TypeOK
    <3>2. Word(p)' = Word(p) BY <3>1 DEF Word
    <3>3. seen = {} BY <1>i, <2>1, <2>4 DEF PokeInv, PinsInv
    <3>4. BulkSet(Word(p)) \subseteq level BY <2>1, <2>4 DEF PokeInv
    <3>5. level' \cap BoardPins = BulkSet(Word(p)) BY <3>1, <3>4, BulkIs
    <3>6. QED BY <2>1, <2>2, <3>1, <3>2, <3>3, <3>5 DEF PokeInv
  <2>5. CASE StampTime(p)
    <3>1. /\ step[p] = "stamp" /\ step'[p] = "wait"
          /\ ts'[p] = (clock + 2) % (MaxTime + 1) /\ UNCHANGED <<level, data, seen>>
      BY <1>i, <2>5 DEF StampTime, TypeOK, pins
    <3>2. ~ (clock + 2 >= MaxTime) BY <2>5 DEF StampTime, Faulty, Calm
    <3>3. clock \in Nat
      <4>1. clock \in 0 .. MaxTime BY <1>i DEF TypeOK
      <4>2. QED BY <4>1, Bound
    <3>4. \A n \in Nat : n <= MaxTime => n % (MaxTime + 1) = n BY Bound
    <3>5. ts'[p] = clock + 2
      <4>1. clock + 2 \in Nat /\ clock + 2 <= MaxTime BY <3>2, <3>3, Bound
      <4>2. QED BY <3>1, <3>4, <4>1
    <3>6. clock' <= ts'[p] BY <1>0, <3>3, <3>5
    <3>7. Word(p)' = Word(p) BY <3>1 DEF Word
    <3>8. QED BY <2>1, <2>2, <3>1, <3>6, <3>7 DEF PokeInv, Strobing
  <2>6. CASE Waited(p)
    <3>1. /\ step[p] = "wait" /\ step'[p] = "strobe" /\ clock > ts[p]
          /\ UNCHANGED <<level, data, seen>>
      BY <1>i, <2>6 DEF Waited, TypeOK, pins
    <3>2. clock \in Int /\ ts[p] \in Int
      <4>1. clock \in 0 .. MaxTime /\ ts[p] \in 0 .. MaxTime BY <1>i DEF TypeOK
      <4>2. QED BY <4>1, Bound
    <3>3. seen = {data[p]} BY <2>1, <3>1, <3>2 DEF PokeInv
    <3>4. Word(p)' = Word(p) BY <3>1 DEF Word
    <3>5. QED BY <2>1, <2>2, <3>1, <3>3, <3>4 DEF PokeInv, Strobing
  <2>7. CASE Strobe(p)
    BY <1>i, <2>7 DEF Strobe, TypeOK
  <2>8. QED BY <1>2, <2>3, <2>4, <2>5, <2>6, <2>7 DEF PokeSID, BulkWrite
<1>3. QED BY <1>1, <1>2

(* Whoever pokes goes on to sound until the poke is done.                  *)
LEMMA OwnMoves ==
  ASSUME IInv, CalmInv, NEW p \in Players, Start(p) \/ Play(p), Calm', step[p] # "idle"
  PROVE  state'[p] \in Sounding /\ Drives(p)' /\ ~ PinModes(p) /\ ~ ResetPins(p)
<1>i. TypeOK /\ DeviceInv BY DEF IInv
<1>1. Drives(p) /\ state[p] \in Sounding BY <1>i, PokersDrive
<1>2. ~ Start(p)
  BY <1>1 DEF Start, Sounding, SystemTimerSetup, OpenDevice, OpenFails, MapDevice,
              WiringPiSetup, SetupClockPin, StartAt1MHz, StopForPal, StartPal, PinModes,
              ResetPins
<1>3. ~ LoadSong(p) /\ ~ KthreadEnds(p) /\ ~ EndLocal(p)
  BY <1>1 DEF Sounding, LoadSong, KthreadEnds, EndLocal
<1>4. ~ CloseDevice(p)
  <2>1. SUFFICES ASSUME CloseDevice(p) PROVE FALSE OBVIOUS
  <2>2. mode[p] # "local" /\ (alive[p] => "late thread" \in fault')
    BY <1>i, <2>1, CloseIs
  <2>3. QED BY <1>1, <2>2 DEF Drives, Calm
<1>5. StopForSong(p) \/ StartForSong(p) \/ EndOfSong(p) BY <1>2, <1>3, <1>4 DEF Play
<1>6. /\ state'[p] \in {"reclock", "play", "closing"} /\ mode' = mode /\ alive' = alive
  BY <1>i, <1>5 DEF StopForSong, StartForSong, EndOfSong, Enter, TypeOK
<1>7. Drives(p)' BY <1>1, <1>6 DEF Drives
<1>8. QED BY <1>2, <1>6, <1>7 DEF Sounding, Start

LEMMA PokeStep ==
  ASSUME IInv, [Next]_vars, Calm', NEW p \in Players, step'[p] # "idle" PROVE PokeInv(p)'
<1>c. Calm /\ CalmInv BY FaultsKept DEF IInv, Calm
<1>i. TypeOK /\ DeviceInv BY DEF IInv
<1>p. step[p] # "idle" => PokeInv(p) /\ Drives(p) BY <1>c DEF CalmInv, PokeInv
<1>1. CASE UNCHANGED vars
  BY <1>p, <1>1, PokeFrame
     DEF vars, pins, players, poke, PinsKept, PokeInv, Drives, Clocked
<1>2. CASE Tick
  <2>1. step' = step BY <1>2 DEF Tick, poke
  <2>2. QED BY <1>p, <1>2, <2>1, TickPoke
<1>3. CASE Module
  <2>1. AsPoked /\ UNCHANGED <<clock, clockOut, rate, state, mode, alive>>
    BY <1>3, PokesKept
       DEF Module, SetupMem, MapTimer, Register, InitPins, ReleasePins, Unload, pins, players
  <2>2. PokeInv(p) /\ Drives(p) BY <1>p, <2>1 DEF AsPoked
  <2>3. ~ InitPins
    <3>1. Driving # {} BY <2>2 DEF Driving, Drives
    <3>2. InitPins => "shared bus" \in fault' BY <3>1, Zenon DEF InitPins
    <3>3. QED BY <3>2 DEF Calm
  <2>4. PinsKept BY <1>3, <2>3, MaintenanceFrame
  <2>5. Clocked' /\ Drives(p)' /\ state'[p] \in Sounding
    BY <2>1, <2>2 DEF PokeInv, Clocked, Drives
  <2>6. QED BY <2>1, <2>2, <2>4, <2>5, PokeFrame DEF AsPoked
<1>4. CASE PokeSID(p) BY <1>c, <1>4, OwnPoke
<1>5. ASSUME NEW q \in Players, q # p, PokeSID(q) PROVE PokeInv(p)'
  <2>1. step[p] # "idle" BY <1>i, <1>5, PokeKeeps
  <2>2. MayPoke(q) \/ step[q] # "idle"
    BY <1>5 DEF PokeSID, BeginPoke, BulkWrite, StampTime, Waited, Strobe
  <2>3. Drives(p) /\ Drives(q) BY <1>c, <1>i, <2>1, <2>2, PokersDrive
  <2>4. QED BY <1>c, <1>5, <2>3 DEF CalmInv
<1>6. ASSUME NEW q \in Players, Start(q) \/ Play(q) PROVE PokeInv(p)'
  <2>1. AsPoked /\ clock' = clock BY <1>6, PlayKeepsPoke
  <2>2. step[p] # "idle" /\ PokeInv(p) /\ Drives(p) BY <1>p, <2>1 DEF AsPoked
  <2>3. state'[p] \in Sounding /\ Drives(p)' /\ ~ PinModes(q) /\ ~ ResetPins(q)
    <3>1. CASE q = p BY <1>c, <1>6, <2>2, <3>1, OwnMoves
    <3>2. CASE q # p
      <4>1. state'[p] = state[p] /\ mode'[p] = mode[p] /\ alive'[p] = alive[p]
        BY <1>6, <1>i, <3>2, OthersAlone
      <4>2. ~ Drives(q) BY <1>c, <2>2, <3>2 DEF CalmInv
      <4>3. ModeFits(q) BY <1>i DEF DeviceInv
      <4>4. state[q] \notin {"pins", "pinsSet", "pinsClear"}
        BY <1>i, <4>2, <4>3 DEF ModeFits, Drives, TypeOK, Configures, SetUp
      <4>5. ~ PinModes(q) /\ ~ ResetPins(q) BY <4>4 DEF PinModes, ResetPins
      <4>6. QED BY <2>2, <4>1, <4>5 DEF PokeInv, Drives
    <3>3. QED BY <3>1, <3>2
  <2>4. PinsKept BY <1>6, <2>3, PlayKeepsPoke
  <2>5. Clocked'
    <3>1. 21 \in clockOut /\ rate[30] # "off" BY <2>2, Selection DEF PokeInv
    <3>2. Poking # {} BY <2>2 DEF Poking
    <3>3. 21 \in clockOut' /\ rate'[30] # "off"
      BY <1>6, <1>i, <3>1, <3>2, ClockMoves DEF Calm
    <3>4. QED BY <3>3, HeaderTable, ClockTable DEF Clocked
  <2>6. QED BY <2>1, <2>2, <2>3, <2>4, <2>5, PokeFrame DEF AsPoked
<1>7. QED BY <1>1, <1>2, <1>3, <1>4, <1>5, <1>6 DEF Next

LEMMA CalmStep == ASSUME IInv, [Next]_vars, Calm' PROVE CalmInv'
BY OwnerStep, DriverStep, PokeStep, ClockStep DEF CalmInv

LEMMA StepIInv == ASSUME IInv, [Next]_vars PROVE IInv'
<1>1. TypeOK' BY TypeStep DEF IInv
<1>2. DeviceInv' BY DeviceStep DEF IInv
<1>3. ModuleInv' BY ModuleStep DEF IInv
<1>4. PinsInv' BY PinsStep DEF IInv
<1>5. Calm' => CalmInv' BY CalmStep
<1>6. QED BY <1>1, <1>2, <1>3, <1>4, <1>5 DEF IInv

LEMMA AlwaysIInv == Spec => []IInv
<1>1. Init => IInv BY InitIInv
<1>2. IInv /\ [Next]_vars => IInv' BY StepIInv
<1>3. QED BY <1>1, <1>2, PTL DEF Spec
-----------------------------------------------------------------------------
(* The timer, the generators, the pins and every player keep their types.  *)
THEOREM TypeCorrect == Spec => []TypeOK
<1>1. IInv => TypeOK BY DEF IInv
<1>2. QED BY AlwaysIInv, <1>1, PTL

(* A load that fails and an unload give back what was taken: memory, timer *)
(* and device always, the pins unless gpio_init failed (websid_init,       *)
(* websid_exit, websid_module.c:513-579).                                  *)
THEOREM LoadsUnwound == Spec => []Unwound
<1>1. IInv => Unwound
  <2>1. SUFFICES ASSUME IInv PROVE Unwound OBVIOUS
  <2>2. TypeOK /\ ModuleInv BY <2>1 DEF IInv
  <2>3. res \subseteq {"memory", "timer", "device", "map"} BY <2>2 DEF TypeOK
  <2>4. QED BY <2>2, <2>3 DEF ModuleInv, Unwound
<1>2. QED BY AlwaysIInv, <1>1, PTL

(* The kernel thread lives only while memory, timer and pins are there: a  *)
(* device that is open keeps the module from being unloaded, and the       *)
(* thread does not outlive its device (websid_open, websid_release).       *)
THEOREM ThreadOnBoard == Spec => []ThreadHasBoard
<1>1. IInv => ThreadHasBoard
  <2>1. SUFFICES ASSUME IInv, Calm, NEW p \in Players, alive[p]
                 PROVE  {"memory", "timer", "map"} \subseteq res
    BY DEF ThreadHasBoard
  <2>2. mod = "in" BY <2>1 DEF IInv, CalmInv
  <2>3. ModuleInv BY <2>1 DEF IInv
  <2>4. QED BY <2>2, <2>3 DEF ModuleInv
<1>2. QED BY AlwaysIInv, <1>1, PTL

(* Whoever plays, each register write reaches the chip: the words put on   *)
(* the pins are what is wired to it, the clock runs, the wait is long      *)
(* enough and nobody else is on the pins (poke_SID, gpioPokeSID).          *)
THEOREM PokesDelivered == Spec => Delivered
<1>1. ASSUME IInv, [Next]_vars
      PROVE  [\A p \in Players : step[p] = "strobe" /\ step'[p] = "idle" /\ Calm
                => seen = {data[p]}]_vars
  BY <1>1 DEF IInv, CalmInv, PokeInv
<1>2. QED BY AlwaysIInv, <1>1, PTL DEF Spec, Delivered
=============================================================================

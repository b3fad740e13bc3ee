------------------------------- MODULE Board -------------------------------
(***************************************************************************)
(* The pins of a Raspberry Pi that drive a SID chip, and who may drive     *)
(* them: the kernel module websid (websid_init, websid_exit, websid_gpio.c,*)
(* websid_mmap.c, websid_systimer.c) for a player that opened              *)
(* /dev/websid, or a player itself (gpio_sid.cpp on a cut-down wiringPi.c) *)
(* when it could not.                                                      *)
(*                                                                         *)
(* A poke writes the lines, waits for the chip and raises chip select      *)
(* again.  The code is the same twice: the macro poke_SID of the module    *)
(* and gpioPokeSID of the player.  What is played, and the protocol with   *)
(* the kernel thread, are those of WebsidDriver and FallbackPlayback: here *)
(* a thread may poke whenever it lives.                                    *)
(*                                                                         *)
(* A register or a value is the set of its bits; the microsecond timer     *)
(* wraps around at MaxTime.                                                *)
(***************************************************************************)
EXTENDS Integers, FiniteSets, Sequences, TLC

CONSTANTS
  Players,   \* processes of the player program
  Pokes,     \* register writes: pairs <<address, value>> of sets of bits
  Songs,     \* what main wants of the chip's clock: subset of Rates
  MaxTime    \* the timer counts modulo MaxTime + 1

Rates == {"1MHz", "PAL", "NTSC"}

ASSUME BoardAssumption ==
  /\ IsFiniteSet(Players) /\ Songs \subseteq Rates
  /\ Pokes \subseteq (SUBSET (0 .. 4)) \X (SUBSET (0 .. 7))
  /\ MaxTime \in Nat /\ MaxTime >= 4
-----------------------------------------------------------------------------
(* Pin numbers.  The code counts pins the way wiringPi does.               *)
CS == 3
AddrPin == <<8, 9, 7, 0, 2>>                  \* A0 .. A4
DataPin == <<15, 16, 1, 4, 5, 6, 10, 11>>     \* D0 .. D7
CLK == 29

PIN_MASK == (0 .. 11) \cup {15, 16}

pinToGpioR2 ==
  <<17, 18, 27, 22, 23, 24, 25, 4, 2, 3, 8, 7, 10, 9, 11, 14, 15,
    28, 29, 30, 31, 5, 6, 13, 19, 26, 12, 16, 20, 21, 0, 1>>

ToGpio(pin) == pinToGpioR2[pin + 1]

(* The chip's adapter sits on the header: its lines by place on it, and    *)
(* the GPIO pin behind each place.                                         *)
HeaderCS == 15
HeaderAddr == <<3, 5, 7, 11, 13>>
HeaderData == <<8, 10, 12, 16, 18, 22, 24, 26>>
HeaderCLK == 40

physToGpioR2 ==
  <<-1, -1, -1, 2, -1, 3, -1, 4, 14, -1, 15, 17, 18, 27, -1, 22, 23, -1, 24,
    10, -1, 9, 25, 11, 8, -1, 7, 0, 1, 5, -1, 6, 12, 13, -1, 19, 16, 26, 20,
    -1, 21>>

OnHeader(place) == physToGpioR2[place + 1]

(* The control registers of the clock generators, for each GPIO pin that   *)
(* has one, and the pins that can be switched to one.                      *)
gpioToClkCon ==
  <<-1, -1, -1, -1, 28, 30, 32, -1, -1, -1, -1, -1, -1, -1, -1, -1,
    -1, -1, -1, -1, 28, 30, -1, -1, -1, -1, -1, -1, -1, -1, -1, -1,
    28, -1, 28, -1, -1, -1, -1, -1, -1, -1, 28, 30, 28, -1, -1, -1>>

gpioToGpClkALT0 == {4, 5, 6, 20, 21, 32, 34, 42, 43, 44}

BoardPins == {ToGpio(CS)} \cup {ToGpio(AddrPin[i]) : i \in 1 .. 5}
                          \cup {ToGpio(DataPin[i]) : i \in 1 .. 8}

(* Where the shifts of poke_SID and gpioPokeSID move the bits of a         *)
(* register and a value to: the word for digitalBulkWrite.  Chip select is *)
(* never in it.                                                            *)
AddrShift == <<8, 8, 5, -3, -2>>
ValueShift == <<15, 15, -1, 1, 1, 1, 4, 4>>

Toggles(addr, value) == {b + AddrShift[b + 1] : b \in addr}
                          \cup {b + ValueShift[b + 1] : b \in value}

BulkSet(toggles) == {ToGpio(p) : p \in PIN_MASK \cap toggles}
BulkClear(toggles) == {ToGpio(p) : p \in PIN_MASK \ toggles}
-----------------------------------------------------------------------------
VARIABLES
  clock,      \* the microsecond timer
  level, out, \* GPIO pins: written high; switched to output
  clockOut,   \* pins switched to a clock generator
  rate,       \* control register of a generator -> its rate, or "off"
  seen,       \* what the chip has latched since it was selected
  mod,        \* how far the module is loaded or unloaded
  res,        \* what the module holds
  requested,  \* GPIO pins requested by the module and not freed
  count,      \* _dev_open_count
  state,      \* player -> where it is
  mode,       \* player -> handler: "none", "kernel", "local"
  alive,      \* player -> the kernel thread of its open device lives
  step,       \* player -> the poke under way, by whichever thread pokes
  data, ts,   \* player -> register write; _poke_ts, ts
  fault       \* what has happened that the code does not guard against

pins == <<level, out, clockOut, rate>>
module == <<mod, res, requested>>
players == <<count, state, mode, alive>>
poke == <<step, data, ts>>
vars == <<clock, pins, seen, module, players, poke, fault>>

NoPoke == <<{}, {}>>

Init ==
  /\ clock = 0
  /\ level = {} /\ out = {} /\ clockOut = {}
  /\ rate = [r \in {28, 30, 32} |-> "off"]
  /\ seen = {}
  /\ mod = "out" /\ res = {} /\ requested = {}
  /\ count = 0
  /\ state = [p \in Players |-> "off"]
  /\ mode = [p \in Players |-> "none"]
  /\ alive = [p \in Players |-> FALSE]
  /\ step = [p \in Players |-> "idle"]
  /\ data = [p \in Players |-> NoPoke]
  /\ ts = [p \in Players |-> 0]
  /\ fault = {}

(* Whose thread is, or will be, on the pins.                               *)
Driving == {p \in Players : alive[p] \/ (mode[p] = "local" /\ state[p] # "off")}
Poking == {p \in Players : step[p] # "idle"}

Faulty(what, happens) == fault' = IF happens THEN fault \cup {what} ELSE fault
-----------------------------------------------------------------------------
(* The chip (external): while selected it latches its lines with each      *)
(* cycle of its clock.  A chip select line that is no output is pulled up. *)
Selected == LET g == OnHeader(HeaderCS) IN g \in out /\ g \notin level

Clocked == LET g == OnHeader(HeaderCLK)
           IN g \in clockOut /\ rate[gpioToClkCon[g + 1]] # "off"

Lines == <<{b \in 0 .. 4 : OnHeader(HeaderAddr[b + 1]) \in level},
           {b \in 0 .. 7 : OnHeader(HeaderData[b + 1]) \in level}>>

Tick ==
  /\ clock' = (clock + 1) % (MaxTime + 1)
  /\ seen' = IF Selected /\ Clocked THEN seen \cup {Lines} ELSE seen
  /\ UNCHANGED <<pins, module, players, poke, fault>>
-----------------------------------------------------------------------------
(* poke_SID, gpioPokeSID                                                   *)

(* The kernel thread plays from the first script on until it ends, the     *)
(* thread of the fallback until it is joined.                              *)
MayPoke(p) == /\ alive[p] \/ mode[p] = "local"
              /\ state[p] \in {"loaded", "reclock", "play", "closing", "off"}

BeginPoke(p) ==
  /\ step[p] = "idle" /\ MayPoke(p)
  /\ \E w \in Pokes : data' = [data EXCEPT ![p] = w]
  /\ step' = [step EXCEPT ![p] = "set"]
  /\ Faulty("clock stopped", ~ Clocked)
  /\ UNCHANGED <<clock, pins, seen, module, players, ts>>

Word(p) == Toggles(data[p][1], data[p][2])

(* Mutant: the two registers are written in the other order.               *)
ClearFirst(p) ==
  /\ step[p] \in {"set", "clear"}
  /\ level' = IF step[p] = "set" THEN level \ BulkClear(Word(p))
              ELSE level \cup BulkSet(Word(p))
  /\ step' = [step EXCEPT ![p] = IF @ = "set" THEN "clear" ELSE "stamp"]
  /\ UNCHANGED <<clock, out, clockOut, rate, seen, module, players, data, ts, fault>>

BulkWrite(p) ==
  /\ step[p] \in {"set", "clear"}
  /\ level' = IF step[p] = "set" THEN level \cup BulkSet(Word(p))
              ELSE level \ BulkClear(Word(p))
  /\ step' = [step EXCEPT ![p] = IF @ = "set" THEN "clear" ELSE "stamp"]
  /\ UNCHANGED <<clock, out, clockOut, rate, seen, module, players, data, ts, fault>>

StampTime(p) ==
  /\ step[p] = "stamp"
  /\ ts' = [ts EXCEPT ![p] = (clock + 2) % (MaxTime + 1)]
  /\ step' = [step EXCEPT ![p] = "wait"]
  /\ Faulty("timer wrapped", clock + 2 >= MaxTime)
  /\ UNCHANGED <<clock, pins, seen, module, players, data>>

(* while (micros() <= ts) {}                                               *)
Waited(p) ==
  /\ step[p] = "wait" /\ clock > ts[p]
  /\ step' = [step EXCEPT ![p] = "strobe"]
  /\ UNCHANGED <<clock, pins, seen, module, players, data, ts, fault>>

Strobe(p) ==
  /\ step[p] = "strobe"
  /\ level' = level \cup {ToGpio(CS)}
  /\ seen' = {}
  /\ step' = [step EXCEPT ![p] = "idle"]
  /\ data' = [data EXCEPT ![p] = NoPoke]
  /\ ts' = [ts EXCEPT ![p] = 0]
  /\ UNCHANGED <<clock, out, clockOut, rate, module, players, fault>>
-----------------------------------------------------------------------------
(* Loading and unloading the module                                        *)

Unloading == mod \in {"pins freed", "timer freed", "memory freed"}

(* setup_shared_mem, system_timer_mmap, misc_register: each may fail, and  *)
(* what was done before is undone.                                         *)
SetupMem ==
  /\ mod = "out"
  /\ mod' = "memory" /\ res' = {"memory"}
  /\ UNCHANGED <<clock, pins, seen, requested, players, poke, fault>>

MapTimer ==
  /\ mod = "memory"
  /\ \/ mod' = "timer" /\ res' = res \cup {"timer"}
     \/ mod' = "out" /\ res' = res \ {"memory"}
  /\ UNCHANGED <<clock, pins, seen, requested, players, poke, fault>>

(* Mutant: a failed registration forgets the timer.                        *)
RegisterLeaks ==
  /\ mod = "timer"
  /\ \/ mod' = "registered" /\ res' = res \cup {"device"}
     \/ mod' = "out" /\ res' = res \ {"memory"}
  /\ UNCHANGED <<clock, pins, seen, requested, players, poke, fault>>

Register ==
  /\ mod = "timer"
  /\ \/ mod' = "registered" /\ res' = res \cup {"device"}
     \/ mod' = "out" /\ res' = res \ {"timer", "memory"}
  /\ UNCHANGED <<clock, pins, seen, requested, players, poke, fault>>

(* gpio_init: every pin is requested and switched to output, chip select   *)
(* high and the others low, even after one of them failed; pins that are   *)
(* not freed stay requested.  At most one pin meets a foreign user or      *)
(* cannot be switched.                                                     *)
InitPins ==
  /\ mod = "registered"
  /\ \E bad \in {{}} \cup {{b} : b \in BoardPins}, taken, mapped \in BOOLEAN :
       LET refused == requested \cup (IF taken THEN bad ELSE {})
           switched == BoardPins \ (refused \cup bad)
           ok == switched = BoardPins /\ mapped
       IN /\ requested' = requested \cup (BoardPins \ refused)
          /\ out' = out \cup switched
          /\ level' = (level \ switched) \cup ({ToGpio(CS)} \cap switched)
          /\ mod' = IF ok THEN "in" ELSE "out"
          /\ res' = IF ok THEN res \cup {"map"} ELSE res \ {"device", "timer", "memory"}
          /\ seen' = IF ToGpio(CS) \in switched THEN {} ELSE seen
          /\ fault' = fault \cup (IF Driving # {} THEN {"shared bus"} ELSE {})
                            \cup (IF ok THEN {} ELSE {"pins kept"})
  /\ UNCHANGED <<clock, clockOut, rate, players, poke>>

(* rmmod: the system refuses it while a device is open (.owner), and opens *)
(* no device of a module that is being unloaded.                           *)
(* Mutant: the device does not name its owner, an open one can be removed. *)
ReleaseInUse ==
  /\ mod = "in"
  /\ mod' = "pins freed"
  /\ requested' = requested \ BoardPins
  /\ res' = res \ {"map"}
  /\ UNCHANGED <<clock, pins, seen, players, poke, fault>>

ReleasePins ==
  /\ mod = "in" /\ count = 0
  /\ mod' = "pins freed"
  /\ requested' = requested \ BoardPins
  /\ res' = res \ {"map"}
  /\ UNCHANGED <<clock, pins, seen, players, poke, fault>>

Unload ==
  /\ Unloading
  /\ \/ mod = "pins freed" /\ mod' = "timer freed" /\ res' = res \ {"timer"}
     \/ mod = "timer freed" /\ mod' = "memory freed" /\ res' = res \ {"memory"}
     \/ mod = "memory freed" /\ mod' = "out" /\ res' = res \ {"device"}
  /\ UNCHANGED <<clock, pins, seen, requested, players, poke, fault>>
-----------------------------------------------------------------------------
(* The player program                                                      *)

Enter(p, s) == state' = [state EXCEPT ![p] = s]

(* systemTimerSetup: the program exits when memory is out of its reach.    *)
SystemTimerSetup(p) ==
  /\ state[p] = "off" /\ ~ alive[p]
  /\ Enter(p, "started")
  /\ UNCHANGED <<clock, pins, seen, module, count, mode, alive, poke, fault>>

(* detectDeviceDriver, websid_open                                         *)
CanOpen == "device" \in res /\ ~ Unloading /\ count = 0

OpenDevice(p) ==
  /\ state[p] = "started" /\ CanOpen
  /\ count' = count + 1
  /\ alive' = [alive EXCEPT ![p] = TRUE]
  /\ Enter(p, "opened")
  /\ fault' = fault \cup (IF mod = "registered" THEN {"early open"} ELSE {})
                    \cup (IF Driving # {} THEN {"shared bus"} ELSE {})
  /\ UNCHANGED <<clock, pins, seen, module, mode, poke>>

(* A device that is not there and one that is busy look the same.          *)
OpenFails(p) ==
  /\ state[p] = "started" /\ ~ CanOpen
  /\ mode' = [mode EXCEPT ![p] = "local"]
  /\ Enter(p, "setup")
  /\ Faulty("shared bus", Driving # {})
  /\ UNCHANGED <<clock, pins, seen, module, count, alive, poke>>

(* mmap of the shared memory; the device is closed when it fails.          *)
MapDevice(p) ==
  /\ state[p] = "opened"
  /\ \/ mode' = [mode EXCEPT ![p] = "kernel"] /\ Enter(p, "setup")
     \/ UNCHANGED mode /\ Enter(p, "closing")
  /\ UNCHANGED <<clock, pins, seen, module, count, alive, poke, fault>>

(* gpioClockSet stops the generator, then sets the dividers and starts it. *)
ClockRegister(pin) == gpioToClkCon[ToGpio(pin) + 1]
StopClock(pin) == rate' = [rate EXCEPT ![ClockRegister(pin)] = "off"]
StartClock(pin, r) == rate' = [rate EXCEPT ![ClockRegister(pin)] = r]

(* gpioInitClockSID: the program exits when the pins cannot be mapped.     *)
WiringPiSetup(p) ==
  /\ state[p] = "setup"
  /\ Enter(p, "mapped") \/ Enter(p, "closing")
  /\ UNCHANGED <<clock, pins, seen, module, count, mode, alive, poke, fault>>

(* pinMode(CLK, GPIO_CLOCK) hands the translated number to gpioClockSet,   *)
(* which translates it again.                                              *)
SetupClockPin(p) ==
  /\ state[p] = "mapped"
  /\ LET g == ToGpio(CLK)
     IN IF g \in gpioToGpClkALT0
        THEN clockOut' = clockOut \cup {g} /\ StopClock(g)
        ELSE UNCHANGED <<clockOut, rate>>
  /\ Enter(p, "clockpin")
  /\ Faulty("clock stopped", Poking # {})
  /\ UNCHANGED <<clock, level, out, seen, module, count, mode, alive, poke>>

StartAt1MHz(p) ==
  /\ state[p] = "clockpin"
  /\ StartClock(ToGpio(CLK), "1MHz")
  /\ Enter(p, "clock1MHz")
  /\ UNCHANGED <<clock, level, out, clockOut, seen, module, count, mode, alive, poke, fault>>

(* gpioSetClockSID(CLOCK_PAL)                                              *)
StopForPal(p) ==
  /\ state[p] = "clock1MHz"
  /\ StopClock(CLK)
  /\ Enter(p, "clockPal")
  /\ Faulty("clock stopped", Poking # {})
  /\ UNCHANGED <<clock, level, out, clockOut, seen, module, count, mode, alive, poke>>

StartPal(p) ==
  /\ state[p] = "clockPal"
  /\ StartClock(CLK, "PAL")
  /\ Enter(p, IF mode[p] = "local" THEN "pins" ELSE "load")
  /\ UNCHANGED <<clock, level, out, clockOut, seen, module, count, mode, alive, poke, fault>>

(* gpioInitSID: pins to output, chip select the last; until the first      *)
(* write has raised it the chip may be selected.                           *)
PinModes(p) ==
  /\ state[p] = "pins"
  /\ out' = out \cup BoardPins
  /\ Enter(p, "pinsSet")
  /\ UNCHANGED <<clock, level, clockOut, rate, seen, module, count, mode, alive, poke, fault>>

(* digitalBulkWrite(0b1000, PIN_MASK, 17)                                  *)
ResetPins(p) ==
  /\ state[p] \in {"pinsSet", "pinsClear"}
  /\ IF state[p] = "pinsSet"
     THEN level' = level \cup BulkSet({CS}) /\ seen' = {} /\ Enter(p, "pinsClear")
     ELSE level' = level \ BulkClear({CS}) /\ UNCHANGED seen /\ Enter(p, "load")
  /\ UNCHANGED <<clock, out, clockOut, rate, module, count, mode, alive, poke, fault>>

(* loadSidFile: exits when there is no song, and the system closes what is *)
(* open.                                                                   *)
LoadSong(p) ==
  /\ state[p] = "load"
  /\ Enter(p, "loaded") \/ Enter(p, "closing")
  /\ UNCHANGED <<clock, pins, seen, module, count, mode, alive, poke, fault>>

(* main selects the clock of the song while the script of its init routine *)
(* is already being played.                                                *)
StopForSong(p) ==
  /\ state[p] = "loaded"
  /\ StopClock(CLK)
  /\ Enter(p, "reclock")
  /\ Faulty("clock stopped", Poking # {})
  /\ UNCHANGED <<clock, level, out, clockOut, seen, module, count, mode, alive, poke>>

StartForSong(p) ==
  /\ state[p] = "reclock"
  /\ \E r \in Songs : StartClock(CLK, r)
  /\ Enter(p, "play")
  /\ UNCHANGED <<clock, level, out, clockOut, seen, module, count, mode, alive, poke, fault>>

EndOfSong(p) ==
  /\ state[p] = "play"
  /\ Enter(p, "closing")
  /\ UNCHANGED <<clock, pins, seen, module, count, mode, alive, poke, fault>>

(* The kernel thread ends between two scripts once it is told to.          *)
KthreadEnds(p) ==
  /\ alive[p] /\ step[p] = "idle" /\ state[p] \in {"closing", "off"}
  /\ alive' = [alive EXCEPT ![p] = FALSE]
  /\ UNCHANGED <<clock, pins, seen, module, count, state, mode, poke, fault>>

(* websid_release waits for it, but not longer than TIMEOUT.  A player     *)
(* whose mmap failed goes on with its own thread.                          *)
CloseDevice(p) ==
  /\ state[p] = "closing" /\ mode[p] # "local"
  /\ count' = count - 1
  /\ IF mode[p] = "none"
     THEN mode' = [mode EXCEPT ![p] = "local"] /\ Enter(p, "setup")
     ELSE mode' = [mode EXCEPT ![p] = "none"] /\ Enter(p, "off")
  /\ fault' = fault \cup (IF alive[p] THEN {"late thread"} ELSE {})
       \cup (IF mode[p] = "none" /\ Driving \ {p} # {} THEN {"shared bus"} ELSE {})
  /\ UNCHANGED <<clock, pins, seen, module, alive, poke>>

(* ~FallbackHandler joins the thread; gpioTeardownSID.                     *)
EndLocal(p) ==
  /\ state[p] = "closing" /\ mode[p] = "local" /\ step[p] = "idle"
  /\ mode' = [mode EXCEPT ![p] = "none"]
  /\ Enter(p, "off")
  /\ UNCHANGED <<clock, pins, seen, module, count, alive, poke, fault>>
-----------------------------------------------------------------------------
PokeSID(p) == \/ BeginPoke(p) \/ BulkWrite(p) \/ StampTime(p) \/ Waited(p)
              \/ Strobe(p)

Start(p) == \/ SystemTimerSetup(p) \/ OpenDevice(p) \/ OpenFails(p)
            \/ MapDevice(p) \/ WiringPiSetup(p) \/ SetupClockPin(p) \/ StartAt1MHz(p) \/ StopForPal(p) \/ StartPal(p)
            \/ PinModes(p) \/ ResetPins(p)

Play(p) == \/ LoadSong(p) \/ StopForSong(p) \/ StartForSong(p) \/ EndOfSong(p)
           \/ KthreadEnds(p) \/ CloseDevice(p) \/ EndLocal(p)

Module == SetupMem \/ MapTimer \/ Register \/ InitPins \/ ReleasePins \/ Unload

Next == Tick \/ Module \/ \E p \in Players : PokeSID(p) \/ Start(p) \/ Play(p)

Spec == Init /\ [][Next]_vars
-----------------------------------------------------------------------------
TypeOK ==
  /\ clock \in 0 .. MaxTime /\ level \cup out \cup clockOut \subseteq 0 .. 53
  /\ rate \in [{28, 30, 32} -> Rates \cup {"off"}]
  /\ mod \in {"out", "memory", "timer", "registered", "in",
              "pins freed", "timer freed", "memory freed"}
  /\ res \subseteq {"memory", "timer", "device", "map"}
  /\ requested \subseteq BoardPins /\ count \in 0 .. 1
  /\ state \in [Players -> {"off", "started", "opened", "setup", "mapped", "clockpin",
                            "clock1MHz", "clockPal", "pins", "pinsSet", "pinsClear",
                            "load", "loaded", "reclock", "play", "closing"}]
  /\ mode \in [Players -> {"none", "kernel", "local"}]
  /\ alive \in [Players -> BOOLEAN]
  /\ step \in [Players -> {"idle", "set", "clear", "stamp", "wait", "strobe"}]
  /\ data \in [Players -> Pokes \cup {NoPoke}] /\ ts \in [Players -> 0 .. MaxTime]

(* What the code does not guard against and a property has to leave out.   *)
(* "pins kept" is none of them.                                            *)
Calm == fault \subseteq {"pins kept"}

(* Each register write arrives: while a poke selects the chip, the chip    *)
(* latches the register and the value that were asked for, at least once,  *)
(* and nothing else (websid_gpio.c:245-281, gpio_sid.cpp:232-290: order of *)
(* the set and clear registers, the wait, the wiring of the lines).        *)
Delivered == [][\A p \in Players :
                  step[p] = "strobe" /\ step'[p] = "idle" /\ Calm => seen = {data[p]}]_vars

(* What a load or an unload leaves behind: nothing, except for pins when   *)
(* one of them could not be had (websid_module.c:513-544, 573-578).        *)
Unwound == mod = "out" => res = {} /\ (requested # {} => "pins kept" \in fault)

(* A thread of the module runs only while its timer, its buffers and its   *)
(* pins are mapped.                                                        *)
ThreadHasBoard == Calm => \A p \in Players : alive[p] => {"memory", "timer", "map"} \subseteq res
=============================================================================

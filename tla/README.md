# A TLA+ model of websid

websid emulates enough of a Commodore 64 to play SID music. The same emulator
core is compiled for web pages and for a Raspberry Pi 4 that drives a real SID
chip. This directory holds TLA+ models of its parts, TLC configurations that
check them on small instances, and proofs of some of their properties that
TLAPS checks for every instance.

Paths below are relative to the repository; `raspi/...` is the Raspberry Pi
player, `src/...` the emulator core.

## 1. The system and its parts

| Part | State | Operations | Interacts with |
|---|---|---|---|
| script buffers, `raspi/src/playback_handler.cpp` | the buffer being recorded, its length | `recordPokeSID` | called by the emulator for each SID write |
| thread based player, `raspi/src/fallback_handler.cpp` | `BufferPool`, `WorkQueue`, two buffers, `_run_next_script` | `recordBegin`, `recordEnd`, `playLoop`, constructor, destructor | two threads, a mutex and a condition variable |
| player main loop, `raspi/src/main.cpp` | `_max_frames`, the frame counter | load, frame loop, ctrl-C, teardown | drives the emulator and one of the two playback handlers |
| driver client, `raspi/src/device_driver_handler.cpp` | mapped flags, offset of the current buffer | `fetchBuffer`, `feedBuffer`, `recordBegin`, `recordEnd`, constructor, destructor | polls flags in memory shared with the kernel |
| kernel module, `raspi/websid_module/` | `_run_next_script`, `_feed_index`, `_expecting`, `_player_done`, `_player_status`, `_dev_open_count` | `open`, `mmap`, `release`, player thread, load, unload | one kernel thread for each open of the device |
| CIA timers, `src/cia.c` | two chips with two timers each: counter, latch, control, mask, status, scheduled transitions, cached copies | one clock, register reads and writes, reset, PSID defaults | raises IRQ and NMI, is written by the CPU |
| VIC, `src/vic.c` | raster position, raster latch, interrupt flags, display enable | one clock, register accesses, stun query | raises IRQ, stuns the CPU |
| CPU, `src/cpu.c`, `src/cpu_operations.inc` | registers, the instruction in progress, interrupt bookkeeping | one clock | samples IRQ/NMI, reads and writes memory |
| memory, `src/memory.c` | RAM, I/O area, ROM images, bank setting, snapshot | access with banking, PSID driver | CPU, CIA, VIC, SID |
| system, core, `src/system.cpp`, `src/core.cpp` | cycle counter | clocking order, start of a tune, one frame | everything above |
| SID, `src/sid.cpp`, `envelope.cpp`, `wavegenerator.cpp`, `filter*.cpp` | registers, oscillators, envelopes, filters | one clock, register writes | CPU writes, output samples |
| digi detection, `src/digi.cpp` | detector state for each playback technique | writes, frame ends | SID writes |
| player interface, loaders, hacks, `src/sidplayer.cpp`, `loaders.cpp`, `hacks.c` | buffers of samples, song info | load, select track, compute a chunk | web page or Raspberry main |

The rest of the repository is user interface, generated or vendored code and
data; `PROJECT.json` lists it with the reason for leaving it out.

What is hard in this code:

* two threads, or a process and a kernel thread, hand buffers to each other
  through a pool, a queue or two polled flags, while either may stop,
  die or time out at any moment;
* the scripts are replayed by time stamps of a 32-bit timer that overflows
  every 70 minutes;
* the chips are emulated clock by clock: effects of a register write come one,
  two or three clocks later and overlap with underflows, reads and other
  writes;
* copies of register bits are cached for speed and have to follow all writers.

What makes the parts correct:

* *players*: each recorded write reaches the chip once and in order; a buffer
  has one owner; nobody waits for ever; a player that ends leaves a muted SID;
* *bounded waits*: not before the timeout, and not much later;
* *CIA*: the documented timing of starts, stops and loads, the period of a
  timer, no lost and no spurious interrupt, coherent copies;
* *VIC*: one raster interrupt for each frame and compare value, coherent
  copies, bad lines; *CPU*: the documented delays of interrupts; *envelope*: the
  documented state machine including its wrap-around; *memory*: what a bank
  setting shows; *instructions*: result, flags, duration and the addresses that
  are touched; *life cycle*: each start of a track meets the same machine;
  *player interface*: buffers fit whatever is called in whatever order;
* *SID*: sync, test bit and noise as documented, a register write reaches its
  chip only; *digi detection*: a sample has one source and a documented pattern.

## 2. Modules

| Module | Models | Role |
|---|---|---|
| `SidChannel` | what a playback handler promises | abstract specification |
| `PlaybackScript` | `playback_handler.cpp` | operators on a script buffer |
| `FallbackPlayback` | `main.cpp`, `fallback_handler.cpp` | both threads, refines `SidChannel` |
| `FallbackPlayback_proof` | | TLAPS proofs |
| `WebsidDriver` | `websid_module.c`, `device_driver_handler.cpp`, `main.cpp` | client, kernel thread, open and close |
| `WebsidDriver_proof` | | TLAPS proofs of `WebsidDriver`, with the history variable of `MCWebsidDriver`, and of `BusyWait` |
| `Board` | `websid_module.c`, `websid_gpio.c`, `websid_mmap.c`, `websid_systimer.c`, `gpio_sid.cpp`, `wiringPi.c`, `rpi4_utils.cpp`, `main.cpp` | who drives the pins of the SID chip, and how |
| `Board_proof` | | TLAPS proofs |
| `BusyWait` | `websid_driver_api.h` | the bounded busy-wait |
| `Cia` | `cia.c` | one timer chip |
| `CiaTiming` | `cia.c` | observers of `Cia` for timing properties |
| `Cia_proof` | | TLAPS proofs of both |
| `Vic` | `vic.c` | raster, compare, interrupt flags, bad lines |
| `CpuInterrupts` | `cpu.c`, `cpu_operations.inc` | how the CPU samples its lines and when it is stunned |
| `Machine` | `cpuClockRSID`, `sysClock` | composes `Vic`, `CpuInterrupts` and the lines of both CIAs |
| `Machine_proof` | | TLAPS proofs of the machine and of the arithmetic of `CpuAlu` |
| `Envelope` | `envelope.cpp`, `SID::poke` | one envelope generator and the gate bit it looks at |
| `CpuAlu` | `cpu_operations.inc` | arithmetic, shifts, branches, with reference definitions |
| `Cpu6510` | `cpu_operations.inc`, `cpu.c` | the instruction set, extends `CpuAlu` and `MemoryMap` |
| `TestHost` | `loaders.cpp`, `memory.c`, `core.cpp`, `cpu.c` under `#ifdef TEST` | the build that runs a processor test suite, extends `Cpu6510` |
| `MemoryMap` | `memory.c` | banks, ROM stand-ins, drivers of a song |
| `SongStart` | `loaders.cpp`, `core.cpp`, `hacks.c`, `memory.c` | operators: what starting a tune leaves behind |
| `Loader` | `loaders.cpp`, `memory.c`, `core.cpp` | operators: from a file to statics, ROM images, memory and snapshot, extends `SongStart` |
| `SidPlayer`, `SidPlayer_proof` | `sidplayer.cpp` | the player interface, extends `Loader`; the proofs also cover `MemoryMap` |
| `WaveGenerator`, `WaveGenerator_proof` | `wavegenerator.cpp`, `sid.cpp` | three oscillators of a chip |
| `DigiDetector` | `digi.cpp` | operators: detectors of sample playback |
| `Sid` | `sid.cpp`, `filter*.cpp` | the chips of a song and the path of a register write, extends `DigiDetector` |
| `Sid_proof` | | TLAPS proofs of `Sid`, with the history variable of `MCSid`, and of `Envelope` |
| `MC...` | | instances for TLC |

Definitions have the names of the functions they model, or of what the
function does at that point; `PROJECT.json` (`map`) gives the lines of each.
Definitions whose comment begins with "Mutant" are plausible defects: each
property is accompanied by one that violates it, so that a property that could
not fail would be noticed.

### FallbackPlayback

The two script buffers circulate: pool, main thread (recording), work queue,
player. Addresses are the numbers 1 and 2, the built-in reset script is 3. A deque is a
sequence with the popped end first. A SID write is the pair of a running
number, which stands for time and value, and a register. The mutexes make each pool or
queue operation one step; recording and playing are one step for each write, so
that both threads interleave inside a script. The condition variable is the
flag `waiting`: the main thread sleeps until `yieldBuffer` notifies it, or wakes
for no reason.

The actions of `main()` are `FetchBuffer`, `WaitForBuffer`, `RecordSidWrite`, `FinishLoad`
(end of `loadSidFile`, `recordEnd`, `_max_frames`), `LoadFails` (`exit(1)`),
`FinishFrame`, `NextFrame`, `ResetSID`, `Join`; ctrl-C is `Interrupt` and can come in any
state. Those of the player are `PopBuffer`, `PlayPoke`, `PlayReset`, `ScriptEnd`
and `YieldBuffer`. `playLoop` tests `_run_next_script` a second time after a pop;
only the player itself clears that flag, so the test cannot succeed and is not a step.

### WebsidDriver

The shared memory is the variables `fetch`, `feed` and `mem`. Every access to a flag is
a step of its own: reading fetch and clearing it are two steps, the kernel thread's
poll and its acknowledgement are two steps, `init_player` clears the flags one
after the other. A script is its number. Several threads may exist when a close
has timed out: the thread on core 3 owns it and the others wait in `ready`.
A wait may time out only while nothing can end it (`StuckPlayer`) or while a
script that is longer than the timeout is played (`LongScripts`), so that a
timeout is not confused with a slow schedule.

### Board

The pins of the Raspberry Pi, below the protocols of the two modules above. A poke is split where the
code writes a pin register: set (`BulkWrite`), clear, `StampTime`, `Waited`, `Strobe`. The tables of pin numbers are
those of the code, so that the wiring counts: a poke goes from bits of an address and a value through the shifts of
`poke_SID`, `PIN_MASK` and `pinToGpioR2` to GPIO pins, and from there through the header to the lines of the
chip, an external part that latches its lines with each cycle of its clock while it is selected. Loading
the module (`SetupMem`, `MapTimer`, `Register`, `InitPins`) can fail at each step and undoes what was done; players start,
open the device or fall back to their own thread, set the clock up, load, play and close.

The variable `fault` is a history variable: what has happened that the code does not guard against. These are
a player that sets up pins or clock while another thread pokes (`shared bus`, `clock stopped`), a device that is opened
before the pins are requested (`early open`), a thread that outlives its close (`late thread`) and a timer that
wraps around within a wait (`timer wrapped`). The properties are about runs without (`Calm`).

### BusyWait

`TIMOUT_HANDLER` and `KEEP_TRYING` with a timer of any width that wraps around, from every
value of the timer. The delay between two steps of the poller is bounded by `MaxGap`. The overflow branch of the macro does not do
what its comment says: if the timer wraps around within the timeout (`Wraps`), the condition is false from the start and the
poller gives up without a look (`NeverLooks`); if the window ends with the timer's last value, `overflow` is set although
nothing overflows, and the poller never gives up (`NeverEnds`).

### Cia and CiaTiming

A chip is a record and the functions of `cia.c` are operators on it, in the order of their
calls. Counters have two "bytes" of `ByteSize` values, which keeps the two latch
writes and makes periods short. `script[t]` is `scripted_transition`: what the
timer has to do in the next three clocks. A cleared byte of the code (`WAS_STOPPED_MASK` is 0)
is the empty set. The flag `UNDERFLOW_MASK` lets a timer's clock call the clock of
timer B once more (cia.c:513); the call cannot nest deeper, so `ClockT` takes
the nested clock as a parameter and needs no recursion. `fired` records which timers
underflowed in the last clock; it is not read by the chip. `playing` stands for the CPU of a PSID,
which after INIT only runs when an interrupt occurs.

`CiaTiming` adds observers: `plan` is what the table of the header comment prescribes for
the next clocks, `since` counts the clocks since an underflow, `quiet` and `acked`
say what the program did to the chip since.

### Vic, CpuInterrupts and Machine

`Vic` and `CpuInterrupts` are records and operators on them, like `Cia`. `Machine` clocks
them in the order of `sysClock`: VIC, CIAs, CPU. Each clock is one step with one
disjunct for each way out of `cpuClockRSID`: `Stunned`, `Interrupts`, `Fetches`,
`Works`, `TakesEffect`. The lines of the CIAs rise at any time and fall when a load reads
the control register; module `Cia` says when they really do.

Of an operation the model keeps what the interrupt logic sees of it: duration, the cycle it takes
effect in, its bus writes, its effect on the flag I. A *song* is the set
of operations it may execute in any order, the VIC writes it makes and the CIAs it uses; the
instance has four songs, so that the state space is the sum of four and not their product. Time
stamps (`_irq_line_ts`) are ages, which stop counting at 4: longer than any lead time.

Left out: the VIC and CPU clocks of a PSID, the hack that lets the flag I block NMIs, and
the I/O reads of `vic.c`. The line before the bad lines decides about
display enable, as in the code ($2F), although its comment says $30.

### Envelope

The register writes are the actions `PokeControl`, `PokeAD`, `PokeSR`; a write of the control
register sees the gate bit that the wave generator still has, and then changes it (`sid.cpp`). A
clock is one of four phases. Rates, delays and widths are constants. The observers `waited` and
`since` measure what the file's notes on the ADSR bug and on the rates say.

### CpuAlu, Cpu6510 and MemoryMap

The code prefetches an operation, which decides its duration, and later runs it
in one call of `runPrefetchedOp`. The actions are the same: `Prefetch`, `Run`, and
`TakeInterrupt`, which may come between any two instructions (module
`CpuInterrupts` says when it really does). `Modes`, `Mnemonics` and `BaseCycles`
are the tables of the code. Registers are bytes, the flags a set. `ADC` and `SBC`
ignore the decimal flag, as the code does. A memory is a
sparse function, so that a program of a few instructions is a small state; `log`
records the chips an instruction writes to. `frames` is a history variable: what
each handler under way has interrupted.

`MemoryMap` contains the routines that the emulator assembles into memory: the
handlers of the stand-in kernal and both drivers. `MCCpu` runs them.

`TestHost` is the same processor in the build that runs a test suite: `StartTest` loads and patches a test program (the
parts that test decimal mode are jumped over) below a kernal of BRKs with a few routines left. A BRK at the entry
of a trapped routine stands for it: `PrintChar`, `PrintNumber`, `ScanKey`, `LoadNext`, `Exit`. Its variable `host` is the flag
`test_running` and the name of the next test. Two things to know: the routine at $FD15 "restores" the I/O vectors from $FD30,
where this kernal holds zeros, so that they become 0; and the loader's bytes at the stack pointer are
overwritten by the markers that `cpuStatusInit` puts there.

### SongStart and SidPlayer

`Loader` and `SongStart` divide the state of the machine into the parts that a load or a start may find
changed: the statics of the loaders, ROM images, the loaded song, the init routines that ran on it, the address the
driver calls, vectors, banks, chips. `Load` is a load of a .sid or a .mus file into whatever was there before, with
each of its error paths; `Startup` is `Core::startupTune`. A file is a record of its header fields.

`SidPlayer` has one action for each exported call that changes state: `LoadSidFile` (with `Refuse`, when no loader
takes the file, and `Accept`), `PlayTune`, `ComputeAudioSamples`, `EnvSetNTSC`, `SetStereoLevel`; `Hung` is a load
that does not return. The calls are not concurrent, but come in any order. `caller` fixes what a caller may ask for, so that the
state space is the sum of several and not their product. Buffers are represented by their sizes, register snapshots
by the number of the chunk they were recorded for.

### WaveGenerator

A step is a cycle (`Cycle`), a cycle with a register write (`WriteCycle`), the sample
that ends an interval (`Sample`), or the muting of a voice by the user or the sample detection (`Mute`). A voice that is muted, or the
third one while the filter silences it (`Silenced`), is not sampled: its noise sum runs on, and the next
sample that is taken of it averages over all cycles since the last one. The model begins when the chip is audible; of
several chips none is silenced, which is the case of an empty `Mutable` and no write "silence". Within a cycle all oscillators are clocked
(`Phase1`) before sync (`Phase2`), as in `SID::clockWaveGenerators`. Accumulator,
pulse width, delays and sample length are constants; the noise register has its
23 bits, as a set. `since` and `acc` are history variables that add up the output cycle by cycle, since the voice was
last heard and since the last sample; `steady` says that nothing has hit the voice in that time, and `heard` keeps what
the last sample was made of. The sum has `SumSize` values, 2^32 in the code, and wraps around. Combinations of waveforms are tables of floating point
numbers; of them only the feedback into the noise register is modelled.

### DigiDetector and Sid

A detector is a record, times are ages that stop counting at the longest
timeout. `Sid` composes three chips with their detectors: `Write` goes through
`memSet`, the address map and `SID::writeMem` to the registers, the filter and
the detector of one chip; `NextSong` is `SID::resetAll`, `EndFrame` the reset of the
counters, `SetModel` and `Mute` are the user's calls. `_slow_down` is shared by all
detectors, as in the code. The counters of samples wrap around as their types do: that of the frequency technique after 256, so
that a song with exactly 256 samples between two resets is taken for one that has stopped.

## 3. Runs

Passing runs. Type invariants are not repeated here: each module has a `TypeOK`,
which the theorems of section 4 imply or which can be added to its cfg.

| Run | Shows | Bounds and why they suffice |
|---|---|---|
| `fallback` | exclusive ownership, the mute at the end, what is fed is what was recorded, `SidChannel` is implemented, termination | buffers of 2 entries and 3 writes for each script: scripts that are empty, shorter, full and overfull follow each other; three scripts for two buffers reuse one, and stale entries stay behind a shorter script |
| `driver` | every wait of a client ends, whatever dies, overflows or times out; buffers are exclusive, scripts arrive once and in order and a closed device is silent as long as no client died, every close came while the kernel thread had ended or was polling with nothing fed, and no timestamp overflowed (`calm`) | 3 sessions and 4 scripts use both buffers, each twice; a session may meet the thread of the one before |
| `busy_wait` | the busy-wait gives up early only if the timer wraps around within the timeout, and is late only if its window ends right at the timer's last values | a timer of 32 values, a timeout of 5 and delays of up to 2 ticks: every start, so that the window lies below, ends at, or contains the wrap-around; watched for a round of the timer |
| `envelope` | the ADSR bug delays a match by less than a round of the rate counter; no wrap-around out of silence; decay and release come to their end | three rates and a counter of 8: a lowered rate can be missed; levels of 2 bits and three sustain levels, so that one can be above, at and below the current level; 5 writes (`MaxPokes`): open, change the rates, close, open again and one more; clocks are counted up to 15 (`MaxSince`), more than the slowest step takes |
| `cia` | no lost interrupt, the documented timing of control writes, the period of a timer; a linked timer B moves with the underflows of timer A only | counters 0 to 3: 0 and 1 are the boundary cases, 2 and 3 count; all controls and masks, both chips. The CIA1 is that of a PSID: until its defaults are set, it behaves as for an RSID |
| `board` | a write reaches the chip, once selected, as it was asked for and nothing else does; a failed load and an unload leave nothing behind; a thread of the module runs only while timer, buffers and pins are there | two players, with or without the module, that are alike (`Alike` is the symmetry); four pokes, chosen so that any two of the chip's 13 lines differ in one of them; a timer of 6 values (`MaxTime`), which a wait of 3 fits in. States with an unguarded fault are left out (`Calm`) |
| `machine` | interrupts are entered when the polling rules of `cpu.c` say so, once for each cause; one raster match for each frame; no raster interrupt is lost | a screen of 4 lines of 8 cycles, of which 2 can be bad lines, and compare values on it and below it; a line is longer than the longest operation, so that every operation meets every raster position; 900000 states |
| `cpu` | result and flags of each operation, its duration, the addresses it writes; interrupted programs go on as if nothing had happened; handlers end, and so do the programs of a test suite | each of the 256 codes in the middle and at the end of a page, with operands that make indexes cross a page and pointers wrap around in page 0, and values at the edges of carry and overflow. The programs are both drivers and all handlers of `memory.c`, play routines in each area of the memory, two nested handlers (`MaxNesting`) and two interrupts (`MaxInterrupts`) at a stack pointer that wraps around. Five small test programs (`Tests`) use every trap and the routines that are left of the kernal |
| `sid_player` | every buffer has the size of the chunk to be rendered, recorded registers stay in their half of the double buffer, each start of a track of a .sid file meets the machine it would meet after its first load | three callers. One changes video standard, rate, buffer and tracing, with PAL and NTSC files, one whose init hangs and two broken ones: 7 chunks (`chunks`) fill both halves and begin the first again, buffers are smaller than one chunk and no multiple of one. One turns the stereo effect on and off. One loads nine files with and without ROM images: .sid files of each kind (a PSID without an own place for its driver, BASIC, a SYS line, one that needs a hack), .mus files of two lengths, and files that fail |
| `sid_wave` | hard sync resets exactly with a rise of its source; averaged noise is the average of the cycles since the voice was last heard, as far as their sum fits; the noise register does not run empty | an accumulator of 64 steps, three speeds and three pulse widths; two writes (`MaxWrites`) at any of 18 cycles (`MaxCycles`), four samples of 4 cycles each, of which those of the voice that plays noise may be silenced; a sum of 2048 values, which overflows when they are; the refill of the test bit (6 cycles) ends inside and after the samples |
| `sid_digi` | samples of the volume register count only while no voice plays samples; those of the frequency technique follow their documented pattern; a song that stops is forgotten; every write reaches its chip only | four writes (`MaxWrites`): as many as the longest pattern has, in gaps of 4 cycles (inside each limit but the sum of two outside the shortest) and 140 (outside all); one chip with three techniques mixed, and three chips with writes to, between and beyond their addresses |

The three conditions `...WhileCalm` of `driver` and those of `board` are conditional: what breaks them otherwise is named below.
`sid_wave` ends at `MaxCycles`, hence it does not check deadlock (`Wave.cfg`). Every other run does; where the
system stops, the model says so with a stuttering action (`Terminated`, `Idle`, `Ended`)
whose guard names the final states. The bounds on writes and calls (`MaxWrites`, `MaxCalls`)
limit the environment only.

One run finds a disagreement between the code and its comment: `song_restart`
(`StartsAlike`). `memRsidMain` replaces the loader's init address by that of its driver, and the
next start of a track installs a driver that calls itself. `sid_player`
checks the same property for the songs that get no such driver.

More configurations, which are not part of the regular runs, show further
disagreements. TLC finds the named property violated in each:

| Configuration (module) | Property | Shows |
|---|---|---|
| `DriverCloseRace.cfg` (`WebsidDriver`) | `MuteWhenClosed` | the acknowledgement of a script wipes out the close marker |
| `MachineCLI.cfg` (`MCMachine`) | `CLIDelays` | an IRQ that was committed to before a SEI is entered right after the next CLI |
| `SnapshotTime.cfg` (`MCSidPlayer`) | `SnapshotOfBuffer` | a snapshot read for a tick of the last buffer may belong to an earlier one |
| `WaveSync.cfg` (`MCWave`) | `SyncOnRise` | an oscillator stopped by its test bit keeps a stale rise and goes on syncing the next one |

Some properties are stated, known to fail, and have no configuration of their
own; they are checked by naming them in the cfg of the run in brackets:

* `WebsidDriver` (`driver`): `FetchIsCleared` and `ExclusiveBuffer`: after a close that timed out,
  the old thread and the new client share flags and a buffer; `CloseEndsKthread`: a close before the thread
  has started leaves it running; `OverflowMutes`: after a counter overflow nobody plays the reset script;
* `FallbackPlayback` (`fallback`): `AnyInterruptEndsLoop`: ctrl-C while a song is loaded is overwritten;
  `AllRegistersReset`: the reset script never writes register 0;
* `BusyWait` (`busy_wait`): `PatientAtWrap` and `PromptAtWrap`, which are `Patient` and `Prompt` for every start: a wait across the
  timer's wrap-around is over at once, one that ends right before it may have no end;
* `MCCpu` (`cpu`): `Acknowledged`: a play routine whose bank setting hides the chips lets the driver acknowledge
  its interrupt into RAM;
* `CiaTiming` (`cia`): `LoadOnTime`: a linked timer B delays force loads; `LinkedPeriod`: a linked timer B counts its
  own underflow; `Cia` (`cia`): `RasterStartsQuiet`: the PSID defaults do not acknowledge a pending interrupt;
  `Coherent` and `PlayIsCalled`: they also bypass the cached copy of the mask, so that PLAY is never called;
* `SidPlayer` (`sid_player`): `MusStartsAlike`: a .mus file starts with the video standard and the driver's place of the
  song before it, and behind it in memory lies the end of a longer one; `LoadReturns`: the loop over the info texts of a .mus
  file counts its characters in 8 bits and, without a line end among the first 256, goes on for ever; `StereoFits`: the
  effect's block size is that of the first song, a PAL song after an NTSC song has longer chunks;
* `Machine` (`machine`): `FlagBlocksIRQ`: a slip status that is left over lets an IRQ pass the flag I;
  `WritesGoOn`: the first bus write of an operation is stunned. `NMIOnEdge` holds with `NMILead` only: `cpu.c:98` says that a
  line must be low for "2 or more cycles", but the IRQ that slips through a SEI shortens `_interrupt_lead_time` (`cpu.c:217`),
  which the NMI shares, so that an NMI of the SEI's last cycle is entered after one;
* `WaveGenerator` (`sid_wave`): `PulseIsAverage`: wrong for a sample that ends in the cycle in which the accumulator
  equals the pulse width (`PulseOffEdge` excludes it); `NoiseOfSample`: the first sample of a voice that was muted or silenced
  averages over the silence as well, and after some 65000 cycles of loud noise the sum has overflowed; `NoiseIsNoise`: the output before a switch to noise stays until
  the register is shifted;
* `Sid` (`sid_digi` with the targets and headers of `MCSid` that fit): `MutedIsReplaced`: a voice may stay muted without
  a sample in its place; `Reachable`: the map has a chip at $DFxx, `memSet` never routes to it; `FilterKept` and `FilterReset`: a
  change of the model loses the filter's settings, a new song keeps those of the last one; `OwnCutoff`: two 6581 filters
  share one distortion table; `Forgotten` with two chips, whose detectors share `_slow_down`.

Comments that the code does not follow and that no property is about: `musMapInfoTexts` says that it removes empty
lines, and removes none.

More properties hold and are not part of a run: `Envelope`'s `SustainReached`, which its cfg can name;
`Machine`'s `IRQNotEarly`, `WaveGenerator`'s `LockedAtZero`, `Sid`'s `LastWidth`, and `CiaTiming`'s `OneClockLate` and `ReadPrevents`, which theorems
`IRQNeverEarly`, `OscillatorLocked`, `SampleIsLastWidth`, `InterruptOneClockLate` and `ReadPreventsInterrupt` state.

### Fairness

`FallbackPlayback` assumes that both threads are scheduled: main and player are pinned to
isolated cores 2 and 3. Nothing is assumed of the emulated program, of ctrl-C or of
spurious wakeups. `WebsidDriver` assumes the same of client and kernel thread, and
nothing of opening, ctrl-C or dying. `Cia` assumes that the emulation clocks the
chip and that the CPU takes a pending interrupt in its endless loop (`_driverPSID`). `Envelope`
assumes that the emulation clocks the generator; writes may come or not. `MCCpu` assumes that
the system clock goes on, so that one instruction after the other is run; interrupts may come or
not. `MCSid` assumes that frames end. `Machine`, `SidPlayer` and `WaveGenerator` have no liveness property.

## 4. Proofs

`FallbackPlayback_proof` proves, for every buffer size, number of registers and
frame limit, that the specification implies always `TypeOK`, `ExclusiveOwner`,
`MutedAtExit`, `PlayedScriptEnds`, and further `InterruptEndsLoop`, `FedAsRecorded` and the refinement of
`SidChannel` (`ChannelSpec`). None of the invariants is inductive alone. `IInv` adds:

* `MainOwns`, `PlayerOwns`: the program counters tell who holds a buffer, so that a pop
  or a fetch cannot duplicate one;
* `EndAhead`: every queued or played script has an end marker at or behind the player, which needs
  that a recording never exceeds its buffer;
* `ResetLast`: once the reset script is queued nothing follows it;
* `MuteSoFar`: while it is played, the registers below the player's position
  are clear.

`Invariance` proves that `IInv` is preserved, with one step for each action. Main facts
about the two sequences (append, head and tail keep elements distinct) are separate
lemmas. `InterruptHonoured` is an action property from a smaller invariant.

What the buffers contain is the second invariant, `ContentInv`: the buffer being recorded begins with what the emulator
wrote (`RecordedSoFar`), and every script that is queued or played has a first end marker at a known place (`StopKnown`).
`RecordsFaithfully` follows from it. For `ImplementsChannel` the mapping takes the pending writes of the channel to be the rest of the played script
followed by the (at most three) queued ones; the lemmas `FeedRefines`, `CloseRefines`, `PopRefines`, `PlayRefines` and
`YieldRefines` map each step to a step of the channel or to a stutter. What a script still holds
is `Remaining`; `RemainingStep` and `RemainingEmpty` say all that the proof needs of it, so that no
induction over its length is necessary.

`WebsidDriver_proof` proves, for every number of sessions and scripts and every environment, `TypeOK` without condition
and, as long as `calm` holds, `ExclusiveBuffer`, what a closed device leaves behind (`CleanWhileCalm`: the chip is muted, no
thread and no offered buffer is left), the order of the scripts and that the kernel
thread never stops for a broken protocol (`NoBrokenProtocol`). The
inductive invariant is a list of the phases of a session: nobody is there (`Over`); a thread
was started and has not offered a buffer (`Starting`); one buffer is under way between the sides and another may be played
(`Playing`, `UnderWay`); the close marker is on its way (`Leaving`). Each phase says for each pair of program counters what
the two flags hold, who has which buffer and which script is in it: the flags alone do not tell an offered buffer from one that
the client has not cleared yet. Each action moves within a phase or from one to the next: `CalmKept` has one step for each. `FedInv` holds
in any case: what is played was once fed.

`WebsidDriver_proof` also contains the proofs about `BusyWait`, for every width of the timer, timeout and delay, and wherever the
timer stands: `Patient` and `Prompt`, and what happens in the cases that they except, `NeverLooks` and `NeverEnds`. What
`KEEP_TRYING` amounts to is a lemma with three cases (`Windows`): the window lies below the timer's last value, ends with it, or lies across
the wrap-around. In the first two, no reading of the timer is beyond the window before the time is over (`OnTime`); where
the poller's delays still fit in below the wrap-around (`Far`), `now` is an earlier reading, by at most these delays, of a clock
that has not wrapped (`Recent`); in the third, the poller never gets past its first test.

`Board_proof` proves, for any players, register writes and timer width, `TypeOK`, `Unwound`, `ThreadHasBoard` and `Delivered`. The
inductive invariant `IInv` has five parts:

* `DeviceInv`: the kernel counts the device once, for one owner; `ModuleInv`: what the module holds is told by how far
  it is loaded. `Unwound` follows from the second;
* `PinsInv`: once the pins are set up they stay outputs, and chip select is high unless a poke is under way; while it is high
  the chip takes nothing;
* `CalmInv`, as long as nothing unguarded has happened (`Calm`): one thread at most drives the pins, a kernel thread belongs to
  whoever has the device open, and the clock of the chip runs only if the pins are set up or a player is about to do it (`Configuring`);
* `PokeInv` says how far a poke is: what is on the lines after each of its steps, and that the chip takes the write before the wait
  is over.

That the lines then carry the address and the value that were asked for (`WordIs`, `LinesAre`) is a lemma
about the tables alone: the shifts of `websid_gpio.c` move each bit to the pin that the table of wiringPi wires to its
line, and no two bits share a pin. The wait ends too early when the timer wraps around in it, which is one of the
excluded faults.

`Sid_proof` has two parts. The first proves about the chips of a song and their sample detectors, for every header, every
song and all delays between its writes, `TypeOK`, `SourceOfSample`, `LastWidth`, `Documented` and `ReadsBack`. Each handler of a
detector has a lemma that says what it keeps of the others' machines and what a sample of it means (`FreqHandled`,
`PulseHandled`, `SwallowHandled`, `VolumeHandled`); `DetectIs` combines them in the order in which the code asks them. A
write is then: all detectors wait, that of the chip heeds the write (`Touched`), the others do not (`Waited`). The invariants
are:

* `ChipsOK`: types; `Sourced`, the source that goes with the kind of a sample; `WidthsKnown`: in the three states in which the
  pulse machine relies on a width, it is the one in the chip's register; and detectors that are switched off are idle, for
  otherwise the register could change behind their back;
* `SeenOK` relates the state of the frequency machine to the history variable of `MCSid`: what a state says about the age of the
  triangle and test writes. It holds as long as the machine's own age has not reached its time limit, whatever is written elsewhere;
* `ReadsBack` is inductive by itself but depends on the addresses: they are multiples of 32, so that two chips of which a
  write could reach either share their address (`OneBase`). It is proved under the condition that they do not (`Apart`): nothing in `sid.cpp`
  keeps a file from giving its second and third chip the same address, and then all writes go to the last of them.

The second part is about `Envelope`, whose names carry a prefix where the chip uses the same. It proves, for every table of rates
and delays and every width of level and rate counter, `EnvelopeTypeOK`, `GateDecidesPhase` (the phase follows every edge of
the gate), `SilenceIsLocked` and `StepsInTime`, the bound of the ADSR bug. For the last one
`WithinARound` adds what is left until the rate counter matches (`Left`): the clocks waited and those left
never exceed one round. A write that lowers the rate below the counter makes the rest
longer, but then the observer starts anew; and no clock without a match changes the
period, since the phases decay and sustain share theirs.

`Cia_proof` proves about one chip, for every number of values of a byte (hence for every latch), every chip and every set of
writes, `TypeOK`, `Coherent`, `NoLostInterrupt`, and the timing properties `TransitionTable`, `Period`, `LinkedTicks`, `OneClockLate`
and `ReadPrevents`. `Coherent` and
`NoLostInterrupt` exclude a PSID whose defaults are set, since `ciaSetDefaultsPSID` writes past the cached mask and start
flags (see the list above). There are three inductive invariants:

* `ChipInv`: types, all copies (`Coherence`), and that the mark of an underflow in the script of timer A is never
  older than one clock (`Marks`). The proof first states what each function of the chip changes
  (`ControlKeeps`, `LatchKeeps`...) and what one clock does to each timer (`Advanced`, `Moved`), whose nested clock of timer B must be
  shown to happen once at most; all later proofs use these facts instead of the definitions;
* `TimingInv` adds the observers: the rest of the row of the table of `cia.c:59` that is still to come determines the script, and
  conversely (`Row`), but for a load, which the script repeats; and the counter of a timer that is left alone and the clocks
  since its underflow add up to its latch (`CountedSo`);
* `IrqInv` adds what the observers know of the interrupt (`Awaited`): after a clock without an access, an underflow that the
  mask lets through has raised the interrupt already or leaves it one clock away, and after a read of the ICR neither is
  the interrupt raised nor anything reported. It rests on `Reports`: between the two halves of a clock, the status
  gains exactly the timers that underflow in it.

`Machine_proof` proves, for every geometry of the screen and every song, `TypeOK`, `VicCoherent`, `RasterOncePerFrame`, `RasterIRQRaised`,
`NMIOnEdge`, `IRQOnTime` and its converse `IRQNotEarly`. Neither says anything about the flag I when the IRQ is entered: `FlagBlocksIRQ` does,
and fails (see above). The inductive invariant `IInv` has these parts:

* `VicInv` with `HitsSoFar`: at any moment of a frame, not only at its end, there
  was a match exactly if the raster has passed the compare position of that line, which is a
  cycle later for line 0;
* `CpuInv`: the remaining cycles are fewer than those of the operation, and the lead time is that of
  the last operation and its slip status;
* `NmiInv`: what the CPU has stored of an NMI agrees with what the observers have seen of the line;
* `IrqInv`: a time stamp outlives its commitment only until the handler sets the flag I, and is as
  old as the samples in a row that saw the IRQ. After a RTI that clears the flag, these are all samples since then;
* `FreshInv`, for `IRQNotEarly`: a commitment is never older than the first sight of an IRQ that no handler was
  entered for, and one that slips through a SEI has been there for a cycle before it.

Half of the module are lemmas about the functions of VIC and CPU: which of them move the raster, arm or
acknowledge an interrupt (`CheckArms`, `ClockArms`, `WriteArms`), what a sample of the lines stores (`SampledFacts`) and what a
step of the CPU keeps (`MoveFacts`). The CPU enters the proofs about the VIC only
through `VicSteps`: a step clocks the VIC and then writes at most one register.

The theorems about the arithmetic of `CpuAlu` need no state: `AdcIsExact`, `SbcIsExact`, `CompareIsOrder` and `BranchTimeRight` state
for all operands what `cpu` checks for some, that the bit operations of the code give the
exact arithmetic result, its flags and the duration. The lemmas take the sum apart into low byte, carry and sign.

`SidPlayer_proof` begins with `MemoryMap`: `memGet` and `memSet` follow the machine's memory logic for every bank setting and
address (`BanksAsWired`), and that the bank settings chosen for a PSID never hide its init or play routine
(`PsidAlwaysReachable`).

It then proves `BuffersFit` and `SnapshotsInside` for all callers: all files, ROM images, rates and buffer sizes. The
invariant says that the sizes are those of the last chunk size (`Sized`), that the chunks recorded into a half of the
double buffer make up less than the caller's buffer (`PlaceInHalf`), and that the running video standard is one of two; `LoadStandard`
is what it needs of the loaders. `DriverBesideSong` states exactly for which songs
the driver of `loaders.cpp` overwrites the song: those that begin within 33 bytes of $0421 and reach up to the first place.

`StartsAlike` is proved for every file, caller and history, but only of songs without an RSID driver of their own
(`Driverless`: PSIDs, BASIC programs and RSIDs without room for a driver; theorem `RestartsAlike`). Of the others it is false, as `song_restart`
shows, and `FirstStartAlike` says how far it holds: at a start that finds the init address of the file. The
invariant `AlikeInv` says that a file that has been loaded left the statics of the loaders (but the selected track), the
snapshot and the ROMs of an emulator that has loaded nothing else (`FileInv`), and that a song that has been started
left what such an emulator would have left (`StartInv`). The proof follows two songs that differ at first, the one before the load
and that of a fresh emulator, through the assignments of the loader, and keeps the set of fields in which they agree (`Agree`): each
assignment adds its field (`WithAgrees`), and in the end none is missing.

`WaveGenerator_proof` proves `TypeOK`, `LockedAtZero`, `NoiseLives`, `NoiseIsAverage` and `SyncFollowsSource` for every size of the
accumulator, every tuning and every song. A voice is good (`Good`) if its fields are typed and its time stamps ordered;
one lemma for each operation shows what it keeps of the voice (`Kept`). The heart of `NoiseLives` is `ShiftedLives`: only
bit 22 falls out of the register, and then the feedback refills it.

`NoiseIsAverage` is proved for every sample length. The code adds to its sum only when the register is shifted, with the number
of cycles since the last shift; the history variable adds in every cycle. `Tally`, the sum and what
the cycles since the last shift will add to it, equals the history variable of the cycles since the voice was last heard at any time,
modulo the size of the sum (`ModAdd`), whatever is shifted, refilled, muted or silenced in between (`AverageInv`). The two history
variables agree if the voice was heard the sample before (`SinceInv`), so that the average is then that of the sample's own cycles.

`SyncFollowsSource` needs no invariant but the types: in a cycle an accumulator first takes a step (`Moved`), and is
cleared afterwards only if the flag of its source is set, which that step of the source has set itself unless its test bit
held it; a write in the same cycle comes later and moves no accumulator of a voice that is not under test (`WrittenMoves`).

The constants are restricted by the ASSUMEs of the modules only, all of which some run evaluates.

TLC alone checks liveness (`Terminates`, `ClientEnds`, `ReleaseEndsInSilence`, `HandlersEnd`, `Forgotten`: fairness and ENABLED are out of the prover's reach)
and the programs of `cpu` (`Cpu6510` uses the module Bitwise, which the prover cannot use).

## 5. Not modelled

* The PSID clocks of VIC and CPU (`vicClockPSID` computes the cycle of the next interrupt, which
  wraps around), register reads of the VIC, the time-of-day counter of the CIA, and the hack that lets the flag I block NMIs.
* One composition of everything: `Machine` takes the lines of the CIAs as they come, and what an operation
  does to interrupts as a choice; `Cia` and `Cpu6510` say when and what. Together they would exceed TLC's reach.
* Signal processing: filter output, combined waveforms, shaping of the saw, panning, mixing, the stereo library
  (vendored). They are floating point.
* Sample generators of PSIDs (`genPsidSample`), the Mahoney technique beyond its recognition; the swallow technique is
  modelled but not part of the listed instance (`SwallowTargets`).
* Text fields of the headers, getters, the oscilloscope's copies: formatting and copying without state.
* The web adapter: `src/tinyrsid_adapter.js` does not parse at this commit (its class separates methods by commas), and the
  engine it extends is in another repository. `SidPlayer` allows every order of the calls it could make.
* Those parts of wiringPi that the player does not call (PWM, pull-ups, interrupts of pins, SPI, serial), the fan service, user
  interface, generated and test data.

Simplifications to know about: the wait of the players for a time stamp takes any
time; hence lateness is not a property here. The wait in `websid_exit`, which never refreshes `now`, is not
reached. Dummy bus accesses of instructions are left out, as most are in the code.

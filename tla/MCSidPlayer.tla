------------------------------ MODULE MCSidPlayer ------------------------------
(***************************************************************************)
(* Model checking of SidPlayer: files of each kind, with and without ROM   *)
(* images, two sample rates, and every order of calls.                     *)
(***************************************************************************)
EXTENDS SidPlayer

Code(name) == [NoCode EXCEPT !.name = name]

(* A .sid file of two tracks.                                              *)
File(name, magic, flags, init, play, page) ==
  [mus |-> FALSE, bytes |-> \h87C, magic |-> magic, version |-> 2, flags |-> flags,
   offset |-> \h7C, load |-> \h1000, embedded |-> 0, init |-> init, play |-> play,
   songs |-> 2, start |-> 2, speed |-> {1}, page |-> page, code |-> Code(name)]

Psid == File("psid", "P", {}, \h1000, \h1003, 0)
NtscPsid == [File("ntsc", "P", {3}, 0, \h1003, 0) EXCEPT !.code.hangs = {1}]
OwnIrqPsid == [File("own irq", "P", {}, \h1000, 0, 0) EXCEPT
                 !.version = 1, !.songs = 0, !.code.hack = "code", !.code.entry = \h1000]
LongPsid == [File("long", "P", {}, 0, \h1003, 0) EXCEPT
               !.bytes = \hFC7C, !.load = 0, !.embedded = \h300, !.songs = 300, !.start = 300]
Rsid == File("rsid", "R", {}, \h1000, 0, 0)
BasicRsid == [File("basic", "R", {1}, 0, 0, 0) EXCEPT !.load = \h801]
SysRsid == [File("sys", "R", {}, 0, 0, \hFF) EXCEPT !.load = \h801, !.code.basic = <<2, 0, 6, 4>>]
FullRsid == [File("full", "R", {}, \h1000, 0, \hFF) EXCEPT
               !.code.hack = "stun", !.code.entry = \h1000]

NoHeader == [Psid EXCEPT !.magic = "other"]
Short == [Psid EXCEPT !.offset = 250, !.bytes = \hA0]
LoadsAtZero == [Psid EXCEPT !.load = 0]

Mus == [mus |-> TRUE, bytes |-> 200, voices |-> <<50, 50, 50>>, returns |-> {20, 30},
        code |-> Code("mus")]
LongMus == [Mus EXCEPT !.bytes = 500, !.voices = <<100, 100, 20>>, !.code.name = "long mus"]
CorruptMus == [Mus EXCEPT !.voices = <<50, 50, 92>>]
UnbrokenMus == [LongMus EXCEPT !.returns = {260}]

Asks == [files |-> {Psid}, roms |-> {{}}, rates |-> {44100}, bufs |-> {512}, traces |-> {FALSE},
         levels |-> {}, switches |-> FALSE, chunks |-> 1]

(* One caller that changes the settings, one that switches the stereo effect *)
(* on and off, and one that loads whatever it finds.                        *)
Listener == [Asks EXCEPT !.files = {NtscPsid, OwnIrqPsid, NoHeader, Short}, !.rates = {44100, 96000},
                         !.bufs = {512, 2048}, !.traces = BOOLEAN, !.switches = TRUE, !.chunks = 7]
StereoListener == [Asks EXCEPT !.files = {NtscPsid, CorruptMus}, !.levels = {0, 1}, !.switches = TRUE]
Collector == [Asks EXCEPT !.files = {Psid, LongPsid, BasicRsid, SysRsid, FullRsid, Mus, LongMus,
                                     LoadsAtZero, UnbrokenMus},
                          !.roms = {{}, {"kernal", "basic", "char"}}]
EachCaller == {Listener, StereoListener, Collector}

RsidListener == {[Asks EXCEPT !.files = {Rsid}, !.levels = {0, 1}, !.switches = TRUE]}
LongListener == {[Asks EXCEPT !.files = {Psid, NtscPsid}, !.bufs = {2048}, !.levels = {1},
                         !.switches = TRUE, !.chunks = 20]}
=============================================================================

----------------------------- MODULE MCMachine -----------------------------
(***************************************************************************)
(* Model checking of Machine: songs that between them use every operation, *)
(* register and source of interrupts.                                      *)
(***************************************************************************)
EXTENDS Machine

WritesOf(regs) == {w \in Write : w.reg \in regs}

(* Handlers of both CIAs.                                                  *)
TimerSong == [ops |-> {"nop", "load", "branch", "rti"},
              writes |-> {}, cias |-> {"irq", "nmi"}]

(* What changes the flag I, without and with NMIs.                         *)
FlagSong == [ops |-> Program \ {"store"}, writes |-> {}, cias |-> {"irq"}]
FlagNMISong == [FlagSong EXCEPT !.cias = {"irq", "nmi"}]

(* A raster interrupt in line 1 and its handler.                           *)
RasterSong ==
  [ops |-> {"nop", "store", "rti"},
   writes |-> WritesOf({"d019", "d01a"})
                \cup {[reg |-> "d011", hi |-> FALSE, den |-> TRUE, yscroll |-> 1]},
   cias |-> {}]

(* The compare value, display enable and scroll position are moved about.  *)
DisplaySong == [ops |-> {"nop", "store"},
                writes |-> WritesOf({"d012"})
                  \cup {w \in WritesOf({"d011"}) : w.den \/ w.yscroll = 0},
                cias |-> {}]

AllSongs == {TimerSong, FlagNMISong, RasterSong, DisplaySong}
FlagSongs == {FlagSong}
RasterSongs == {RasterSong}
=============================================================================

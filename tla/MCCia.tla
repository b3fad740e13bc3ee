------------------------------- MODULE MCCia -------------------------------
(***************************************************************************)
(* Model checking of Cia: what the program writes to the registers.        *)
(***************************************************************************)
EXTENDS Cia

MasksA == {w \in MaskWrite : w.bits \subseteq {"A"}}
Latches(timers) == {w \in LatchWrite : w.timer \in timers}
ControlsOf(timer, sources) ==
  {w \in Control : w.timer = timer /\ w.source \in sources}

(* One timer, with all that its control register can hold.                 *)
ControlsA == ControlsOf("A", {"phi2"}) \cup
  {w \in ControlsOf("A", {"cnt"}) : w.start /\ ~ w.load /\ ~ w.oneShot}
LatchesA == Latches({"A"})

(* B counts the underflows of A.                                           *)
ControlsBoth == {w \in ControlsOf("B", {"phi2", "A"}) \cup ControlsOf("A", {"phi2"}) :
                   ~ w.load /\ ~ w.oneShot}
HighLatchB == {w \in Latches({"B"}) : w.hi}

(* A PSID that uses one timer and its interrupt, and an RSID that links    *)
(* two of them.                                                            *)
OneTimer == [rsid |-> FALSE, controls |-> ControlsA, latches |-> LatchesA,
             masks |-> MasksA]
LinkedTimers == [rsid |-> TRUE, controls |-> ControlsBoth, latches |-> HighLatchB,
                 masks |-> {}]
MCPrograms == {OneTimer, LinkedTimers}
=============================================================================

------------------------------ MODULE SidChannel ------------------------------
(***************************************************************************)
(* What a PlaybackHandler promises to the emulator: a bounded FIFO of      *)
(* recorded scripts.  Every recorded write reaches the SID exactly once    *)
(* and in the order of recording, the emulator can be at most Ahead        *)
(* scripts ahead of the chip, and closing the channel mutes the chip after *)
(* the last recorded write.                                                *)
(***************************************************************************)
EXTENDS Naturals, SequencesExt

CONSTANTS Poke,     \* the writes that can be recorded
          Ahead     \* scripts that may be fed but not yet played to the end

VARIABLES pending,  \* the writes of fed scripts that the SID has not seen
          fed,      \* number of fed scripts that are not played to the end
          last,     \* the last recorded write that reached the SID
          phase     \* "open", "closing" or "muted"

channel == <<pending, fed, last, phase>>

None == <<0, 0>>

Init == /\ pending = <<>>
        /\ fed = 0
        /\ last = None
        /\ phase = "open"

(* The emulator hands over a complete script.                              *)
Feed == /\ phase = "open"
        /\ fed < Ahead
        /\ pending' \in Seq(Poke)
        /\ IsPrefix(pending, pending')
        /\ fed' = fed + 1
        /\ UNCHANGED <<last, phase>>

(* The next write in line reaches the chip.                                *)
Play == /\ pending # <<>>
        /\ last' = Head(pending)
        /\ pending' = Tail(pending)
        /\ UNCHANGED <<fed, phase>>

(* A script is done when none of its writes is left: the scripts that are  *)
(* still counted may be empty ones.                                        *)
Retire == /\ fed > 0
          /\ fed = 1 => pending = <<>>
          /\ fed' = fed - 1
          /\ UNCHANGED <<pending, last, phase>>

Close == /\ phase = "open"
         /\ phase' = "closing"
         /\ UNCHANGED <<pending, fed, last>>

(* The chip is muted only after everything recorded was played.            *)
Mute == /\ phase = "closing"
        /\ pending = <<>>
        /\ fed = 0
        /\ phase' = "muted"
        /\ UNCHANGED <<pending, fed, last>>

Next == Feed \/ Play \/ Retire \/ Close \/ Mute

Spec == Init /\ [][Next]_channel
=============================================================================

--------------------------- MODULE PlaybackScript ---------------------------
(***************************************************************************)
(* The "scripts" that the Raspberry Pi player records and replays          *)
(* (raspi/src/playback_handler.cpp): an array of SID writes that ends at   *)
(* the first entry whose timestamp is 0.  A buffer is never cleared when   *)
(* it is reused, so that entries of an older, longer script stay behind    *)
(* the end marker.                                                         *)
(*                                                                         *)
(* A SID write is the pair <<number, register>>: the number stands for     *)
(* timestamp and value, it counts the writes of the emulation from 1.      *)
(***************************************************************************)
EXTENDS Naturals, Sequences

CONSTANTS MaxEntries,   \* MAX_ENTRIES: writes a buffer can hold
          LastReg       \* highest SID register (0x18 on the chip)

ASSUME ScriptAssumption == /\ MaxEntries \in Nat \ {0}
                           /\ LastReg \in Nat \ {0}

Reg == 0 .. LastReg

Poke == (Nat \ {0}) \X Reg

EndMarker == <<0, 0>>

(* A buffer has room for MAX_ENTRIES writes and one more end marker.       *)
Slot == 0 .. MaxEntries

Script == [Slot -> Poke \cup {EndMarker}]

EmptyScript == [i \in Slot |-> EndMarker]

(* Mutant: the test is off by one.                                         *)
FitsOffByOne(len) == len <= MaxEntries

(* PlaybackHandler::recordPokeSID: a write that no longer fits is dropped. *)
Fits(len) == len < MaxEntries

RecordPoke(buf, len, p) == IF Fits(len) THEN [buf EXCEPT ![len] = p] ELSE buf

RecordLen(len) == IF Fits(len) THEN len + 1 ELSE len

(* Mutant: no end marker.                                                  *)
LeaveUnmarked(buf, len) == buf

(* recordEnd: terminate the script behind its last entry.                  *)
MarkEnd(buf, len) == [buf EXCEPT ![len] = EndMarker]

(* The built-in script that mutes the SID: its entry i writes 0 to         *)
(* register i + 1.                                                         *)
ResetLen == LastReg

ResetReg(i) == i + 1

(* A player that starts at slot i stops at slot n.                         *)
StopsAt(buf, i, n) ==
  /\ n \in i .. MaxEntries
  /\ buf[n] = EndMarker
  /\ \A m \in i .. (n - 1) : buf[m] # EndMarker

(* What a player that starts at slot i will still send to the SID.         *)
Remaining(buf, i) ==
  LET end == CHOOSE n \in Slot : StopsAt(buf, i, n)
  IN  SubSeq([k \in 1 .. MaxEntries |-> buf[k - 1]], i + 1, end)
=============================================================================

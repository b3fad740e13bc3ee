------------------------------ MODULE MCBoard ------------------------------
(***************************************************************************)
(* Model checking of Board.  The 13 lines of the chip are numbered; the    *)
(* i-th poke raises the lines whose number has bit i, so that any two      *)
(* lines differ in one of them.                                            *)
(***************************************************************************)
EXTENDS Board

CONSTANTS p1, p2

MCPlayers == {p1, p2}
MCPokes == {<<{b \in 0 .. 4 : ((b + 1) \div i) % 2 = 1},
              {b \in 0 .. 7 : ((b + 6) \div i) % 2 = 1}>> : i \in {1, 2, 4, 8}}
MCSongs == {"PAL", "NTSC"}

(* The players are alike.                                                  *)
Alike == Permutations(MCPlayers)
=============================================================================

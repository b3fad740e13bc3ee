----------------------------- MODULE MCEnvelope -----------------------------
(***************************************************************************)
(* Model checking of Envelope: three rates, a level of two bits, and       *)
(* delays of one or two matches.                                           *)
(***************************************************************************)
EXTENDS Envelope

SomePeriods == {2, 3, 6}
SmallDelays == [l \in Level |-> IF l \in {1, 2} THEN 2 ELSE 1]
SustainLevels == {0, 2, 3}
=============================================================================

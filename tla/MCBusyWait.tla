----------------------------- MODULE MCBusyWait -----------------------------
(***************************************************************************)
(* Model checking of BusyWait with a timer of 5 bits.                      *)
(***************************************************************************)
EXTENDS BusyWait
=============================================================================

---------------------------- MODULE MCCiaTiming ----------------------------
(***************************************************************************)
(* Model checking of CiaTiming, with the program's writes of MCCia.        *)
(***************************************************************************)
EXTENDS MCCia, CiaTiming
=============================================================================

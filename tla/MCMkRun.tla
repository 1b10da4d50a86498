------------------------------ MODULE MCMkRun ------------------------------
(***************************************************************************)
(* MkRun for TLC.                                                          *)
(***************************************************************************)
EXTENDS MkRun, TLC

Symmetry == Permutations(Pid) \cup Permutations(Job)
=============================================================================

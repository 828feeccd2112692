------------------------------ MODULE MCSchedPBS ------------------------------
(* SchedPBS for TLC.                                                      *)
EXTENDS SchedPBS, TLC

CPUSymmetry == Permutations(CPUs)
=============================================================================

------------------------------- MODULE MCProc -------------------------------
(* Model-checking instance of Proc: the CPUs are interchangeable.         *)
EXTENDS Proc, TLC

CPUSymmetry == Permutations(CPUs)
=============================================================================

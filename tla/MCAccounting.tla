---------------------------- MODULE MCAccounting ----------------------------
(* Model-checking instance of Accounting.  The CPUs are not symmetric:    *)
(* one of them takes the timer interrupt.                                 *)
EXTENDS Accounting, TLC
=============================================================================

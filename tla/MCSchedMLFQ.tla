----------------------------- MODULE MCSchedMLFQ -----------------------------
(* SchedMLFQ for TLC.  Max_wait is {10, 30, 100} for levels 1..3 in       *)
(* proc.c; the model keeps its order and scales it to the few ticks TLC   *)
(* can afford.                                                            *)
EXTENDS SchedMLFQ, TLC

MCMaxWait == <<0, 1, 1>>
CPUSymmetry == Permutations(CPUs)
=============================================================================

----------------------------- MODULE MCSchedFCFS -----------------------------
(* SchedFCFS for TLC.  No symmetry: TimerCpu is one particular CPU.     *)
EXTENDS SchedFCFS, TLC

=============================================================================

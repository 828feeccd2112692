\* Proc under the DEFAULT scheduler with its fairness: does wait() return
\* once a child has exited?  3 slots, 2 CPUs, 3 pids after init's.  No symmetry:
\* it is unsound with liveness.
CONSTANTS
    NPROC = 3
    CPUs = {c1, c2}
    NoCPU = NoCPU
    MaxPid = 4
    KillPids = {2, 3}
SPECIFICATION FairSpec
PROPERTY WaitReturns

\* Proc under the DEFAULT scheduler with its fairness: 3 slots, 2 CPUs, up to
\* 3 pids handed out after init's.  No symmetry: it is unsound with liveness.
CONSTANTS
    NPROC = 3
    CPUs = {c1, c2}
    NoCPU = NoCPU
    MaxPid = 4
    KillPids = {2, 3}
SPECIFICATION FairSpec
INVARIANT TypeOK
INVARIANT RunningOnOneCpu
INVARIANT NoLostWakeup
INVARIANT ParentAlive
INVARIANT SlotIdentity
PROPERTY RefinesLifecycle

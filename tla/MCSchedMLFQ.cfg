\* The MLFQ build on the single CPU its scheduler's comment assumes.
CONSTANTS
    NPROC = 3
    CPUs = {c1}
    NoCPU = NoCPU
    MaxPid = 3
    KillPids = {2, 3}
    MaxTick = 2
    MaxWait <- MCMaxWait
SPECIFICATION MLFQSpec
INVARIANTS
    MLFQTypeOK
    RunningOnOneCpu

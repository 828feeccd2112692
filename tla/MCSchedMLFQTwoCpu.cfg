\* The MLFQ build on two CPUs, each running its lock-free scheduler().
CONSTANTS
    NPROC = 3
    CPUs = {c1, c2}
    NoCPU = NoCPU
    MaxPid = 3
    KillPids = {2, 3}
    MaxTick = 2
    MaxWait <- MCMaxWait
SPECIFICATION MLFQSpec
INVARIANTS
    RunningOnOneCpu
SYMMETRY CPUSymmetry

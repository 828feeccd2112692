\* The MLFQ build on one CPU: is the chosen process at the most urgent level?
CONSTANTS
    NPROC = 3
    CPUs = {c1}
    NoCPU = NoCPU
    MaxPid = 3
    KillPids = {2, 3}
    MaxTick = 2
    MaxWait <- MCMaxWait
SPECIFICATION MLFQSpec
PROPERTY
    LevelOrder

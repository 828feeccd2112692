\* kill() racing wait(): is a killed process always made to exit?
CONSTANTS
    NPROC = 3
    CPUs = {c1, c2}
    NoCPU = NoCPU
    MaxPid = 4
    KillPids = {2, 3}
SPECIFICATION LockFairSpec
PROPERTY KilledExits

\* The PBS build on two CPUs whose schedulers hold the candidate's lock.
CONSTANTS
    NPROC = 3
    CPUs = {c1, c2}
    NoCPU = NoCPU
    MaxPid = 3
    KillPids = {2, 3}
    MaxTick = 1
    MaxSched = 1
    PrioValues = {50, 70}
SPECIFICATION PbsSpec
INVARIANTS
    PbsTypeOK
    RunningOnOneCpu
PROPERTY
    PbsDispatchesInOrder
SYMMETRY CPUSymmetry

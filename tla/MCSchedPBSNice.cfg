\* The PBS build: is PSBPriority defined for every process it compares?
CONSTANTS
    NPROC = 3
    CPUs = {c1, c2}
    NoCPU = NoCPU
    MaxPid = 3
    KillPids = {2, 3}
    MaxTick = 1
    MaxSched = 1
    PrioValues = {50, 70}
SPECIFICATION PbsSpec
INVARIANT
    NicenessInRange
SYMMETRY CPUSymmetry

\* kill(0): does a kill of a pid that no process has leave the table untouched?
CONSTANTS
    NPROC = 3
    CPUs = {c1, c2}
    NoCPU = NoCPU
    MaxPid = 4
    KillPids = {0}
SPECIFICATION Spec
SYMMETRY CPUSymmetry
INVARIANT SlotIdentity

\* The FCFS build with the time accounting, on two CPUs; c1 takes the timer.
CONSTANTS
    NPROC = 3
    CPUs = {c1, c2}
    NoCPU = NoCPU
    MaxPid = 3
    KillPids = {2, 3}
    MaxTick = 2
    TimerCpu = c1
    UintWidth = 16
SPECIFICATION FcfsSpec
INVARIANT FcfsTypeOK
INVARIANT RunningOnOneCpu
INVARIANT CpuTimeOverrunAtMostOne
PROPERTY
    FcfsDispatchesOldest

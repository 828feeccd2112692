\* update_time() against fork/exit on two CPUs: 3 slots, pids up to 4, 2 ticks.
CONSTANTS
    NPROC = 3
    CPUs = {c1, c2}
    NoCPU = NoCPU
    MaxPid = 4
    KillPids = {}
    MaxTick = 2
    TimerCpu = c1
    UintWidth = 16
SPECIFICATION AccSpec
INVARIANT WaitxWaitTimeInRange

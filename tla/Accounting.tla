----------------------------- MODULE Accounting -----------------------------
(***************************************************************************)
(* The time accounting of src/kernel/proc.c composed with the lifecycle   *)
(* of Proc: allocproc() stamps ctime and zeroes rtime and etime, exit()   *)
(* stamps etime, update_time() adds a tick to rtime of every RUNNING      *)
(* process, and waitx() reports wtime = etime - ctime - rtime.            *)
(*                                                                         *)
(* update_time() is called by the timer interrupt after ticks++ (trap.c's *)
(* clockintr, on one CPU, TimerCpu).  It scans proc[] taking each p->lock *)
(* in turn, so the other CPUs go on while it runs; the interrupted CPU    *)
(* does nothing else until it returns, and it is taken only when that CPU *)
(* holds no spinlock (acquire() disables interrupts).                     *)
(***************************************************************************)
EXTENDS Proc

CONSTANTS
    MaxTick,   \* bound on the timer's ticks counter
    TimerCpu,  \* the CPU whose timer interrupt runs clockintr()
    UintWidth  \* bits of a uint (32 on the target; TLC's integers are 32-bit signed)

ASSUME MaxTick \in Nat /\ TimerCpu \in CPUs /\ UintWidth \in Nat \ {0}

\* uint arithmetic wraps modulo 2^UintWidth
Uint(x) == x % (2 ^ UintWidth)

VARIABLES
    ticks,     \* ticks
    ctime,     \* p->ctime
    etime,     \* p->etime
    rtime,     \* p->rtime
    sweep,     \* the slot update_time()'s loop is at, 0 outside it
    xwtime     \* the *wtime that each process's last waitx() reported

accVars == <<ticks, ctime, etime, rtime, sweep, xwtime>>
allVars == <<vars, accVars>>

AccTypeOK ==
    /\ TypeOK
    /\ ticks \in 0..MaxTick
    /\ ctime \in [Slots -> 0..MaxTick]
    /\ etime \in [Slots -> 0..MaxTick]
    /\ rtime \in [Slots -> 0..MaxTick]
    /\ sweep \in 0..NPROC
    /\ xwtime \in [Slots -> 0..2 ^ UintWidth - 1]

AccInit ==
    /\ Init
    /\ ticks = 0
    /\ ctime = [s \in Slots |-> 0]
    /\ etime = [s \in Slots |-> 0]
    /\ rtime = [s \in Slots |-> 0]
    /\ sweep = 0
    /\ xwtime = [s \in Slots |-> 0]

-----------------------------------------------------------------------------
(* clockintr(): ticks++, then update_time().  The interrupt is taken     *)
(* only while TimerCpu holds no spinlock.                                 *)
Tick ==
    /\ sweep = 0 /\ ticks < MaxTick
    /\ waitLock # TimerCpu /\ \A q \in Slots : lk[q] # TimerCpu
    /\ ticks' = ticks + 1
    /\ sweep' = 1
    /\ UNCHANGED <<vars, ctime, etime, rtime, xwtime>>

(* update_time(): acquire(&p->lock); a RUNNING process gets rtime++;      *)
(* release; next slot.                                                    *)
UpdateTime ==
    /\ sweep # 0
    /\ lk[sweep] = NoCPU
    /\ rtime' = [rtime EXCEPT ![sweep] = IF state[sweep] = "RUNNING" THEN @ + 1 ELSE @]
    /\ sweep' = IF sweep = NPROC THEN 0 ELSE sweep + 1
    /\ UNCHANGED <<vars, ticks, ctime, etime, xwtime>>

\* TimerCpu, and the process it runs, are stopped while in clockintr()
Interrupted(s) == sweep # 0 /\ cproc[TimerCpu] = s

\* fault model: allocproc() does not reset p->rtime of the recycled slot
AccAllocFoundKeepRtime(s) ==
    /\ AllocFound(s)
    /\ ctime' = [ctime EXCEPT ![np[s]] = ticks]
    /\ etime' = [etime EXCEPT ![np[s]] = 0]
    /\ UNCHANGED <<ticks, sweep, rtime, xwtime>>

(* allocproc(): rtime = 0, etime = 0, ctime = ticks.                      *)
AccAllocFound(s) ==
    /\ AllocFound(s)
    /\ ctime' = [ctime EXCEPT ![np[s]] = ticks]
    /\ rtime' = [rtime EXCEPT ![np[s]] = 0]
    /\ etime' = [etime EXCEPT ![np[s]] = 0]
    /\ UNCHANGED <<ticks, sweep, xwtime>>

(* exit(): etime = ticks, with the state set to ZOMBIE.                   *)
AccExit(s) ==
    /\ Exit(s)
    /\ etime' = [etime EXCEPT ![s] = ticks]
    /\ UNCHANGED <<ticks, ctime, rtime, sweep, xwtime>>

(* waitx(): wait()'s scan, sleep and retry, but the ZOMBIE child it      *)
(* reaps has *rtime = rtime and *wtime = etime - ctime - rtime, in uint,  *)
(* reported before the copyout of xstate.  The copyout failure, the       *)
(* no-children return and the sleep are wait()'s (WaitCopyoutFail,        *)
(* WaitNone, WaitBlock); which of the two calls a process is in carries   *)
(* no control, so they share the retry point pc = "wait".                 *)
WaitxReap(s) ==
    /\ WaitEnter(s)
    /\ Zombies(s) # {}
    /\ LET q == Min(Zombies(s)) IN
         /\ xwtime' = [xwtime EXCEPT ![s] = Uint(etime[q] - ctime[q] - rtime[q])]
         /\ FreeProc(q)
    /\ pc' = [pc EXCEPT ![s] = "user"]
    /\ UNCHANGED <<lk, waitLock, nextpid, cproc, sidx, np,
                   ticks, ctime, etime, rtime, sweep>>

\* the Proc steps that leave the accounting alone
PlainStep(s) ==
    /\ \/ ForkRet(s) \/ YieldResume(s) \/ AllocNext(s) \/ ForkFail(s)
       \/ ForkCopy(s) \/ ForkLink(s) \/ ForkRun(s) \/ SleepAcquire(s) \/ WaitSleep(s)
       \/ SleepResume(s) \/ Yield(s) \/ ForkStart(s)
       \/ pc[s] \in {"user", "wait"}
          /\ (WaitReap(s) \/ WaitCopyoutFail(s) \/ WaitNone(s) \/ WaitBlock(s))
       \/ \E k \in KillPids : Kill(s, k)
    /\ UNCHANGED accVars

AccStep(s) ==
    /\ ~Interrupted(s)
    /\ \/ PlainStep(s) \/ AccAllocFound(s) \/ AccExit(s)
       \/ pc[s] \in {"user", "wait"} /\ WaitxReap(s)

AccSched(c) ==
    /\ c = TimerCpu => sweep = 0
    /\ Sched(c)
    /\ UNCHANGED accVars

AccNext ==
    \/ \E c \in CPUs : AccSched(c)
    \/ \E s \in Slots : AccStep(s)
    \/ Tick \/ UpdateTime

AccSpec == AccInit /\ [][AccNext]_allVars

-----------------------------------------------------------------------------
(* Properties                                                             *)

(* The wait time waitx() reports (spec: exitTick - createdTick -          *)
(* cpuTicksUsed of the reaped child) is a number of ticks that elapsed:   *)
(* it never exceeds ticks.  It is computed in uint, so a child charged    *)
(* more CPU ticks than it lived would be reported as a huge wait.         *)
WaitxWaitTimeInRange ==
    \A s \in Slots : xwtime[s] <= ticks

\* procdump(): the ticks a process has lived, until exit() stamped etime
\* or until now; its waittime is this less rtime
Lifetime(q) == IF etime[q] = 0 THEN ticks - ctime[q] ELSE etime[q] - ctime[q]

(* The error of the accounting is at most one tick: update_time() charges *)
(* a process at most once per sweep, and only the sweep under way when    *)
(* allocproc() stamped ctime can charge a tick the process did not live.  *)
(* So waitx's wtime and procdump's waittime wrap, if at all, only to      *)
(* UINT_MAX (-1), and a slot reused by allocproc starts from rtime 0.     *)
CpuTimeOverrunAtMostOne ==
    \A q \in Slots : state[q] # "UNUSED" => rtime[q] <= Lifetime(q) + 1
=============================================================================

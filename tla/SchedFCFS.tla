------------------------------ MODULE SchedFCFS ------------------------------
(***************************************************************************)
(* The FCFS build of src/kernel/proc.c: scheduler() under #ifdef FCFS and *)
(* allocproc()'s start_time, composed with the lifecycle of Proc on       *)
(* several CPUs and with the time accounting of Accounting, which runs   *)
(* in every build.  Like PBS, the scan keeps the lock of the earliest     *)
(* RUNNABLE process found so far while it takes the later locks: one      *)
(* action per slot, scanAt the slot, cand the candidate.  FCFS has no     *)
(* preemption: a process leaves the CPU by sleeping or exiting, and the   *)
(* timer only counts ticks and charges the RUNNING processes.             *)
(***************************************************************************)
EXTENDS Accounting

VARIABLES
    startTime, \* p->start_time
    scanAt,    \* the slot each CPU's scheduler scan is at (NPROC + 1: done)
    cand,      \* ToBeScheduled while First_start # -1, its lock held; else 0
    seen       \* history: <<slot, pid, start_time>> of each RUNNABLE slot this scan read

fcfsVars == <<startTime, scanAt, cand, seen>>
fcfsAllVars == <<vars, accVars, fcfsVars>>

(* Type invariant of the FCFS build; a live slot's start_time, stamped by   *)
(* allocproc from ticks, is never later than the current tick.            *)
FcfsTypeOK ==
    /\ AccTypeOK
    /\ startTime \in [Slots -> 0..MaxTick]
    \* allocproc stamps start_time with the current ticks: never in the future
    /\ \A q \in Slots : state[q] # "UNUSED" => startTime[q] <= ticks
    /\ scanAt \in [CPUs -> 1..NPROC + 1]
    /\ cand \in [CPUs -> 0..NPROC]
    /\ seen \in [CPUs -> SUBSET (Slots \X (0..MaxPid) \X (0..MaxTick))]

FcfsInit ==
    /\ AccInit
    /\ startTime = [s \in Slots |-> 0]
    /\ scanAt = [c \in CPUs |-> 1]
    /\ cand = [c \in CPUs |-> 0]
    /\ seen = [c \in CPUs |-> {}]

-----------------------------------------------------------------------------
\* fault model: a tie on start_time goes to the later slot
EarlierOrSame(c, p) ==
    /\ state[p] = "RUNNABLE"
    /\ IF cand[c] = 0 THEN TRUE ELSE startTime[p] <= startTime[cand[c]]

(* scheduler(): acquire(&p->lock); the first RUNNABLE slot, or one that   *)
(* started strictly earlier than the candidate, becomes the candidate and *)
(* keeps its lock; the old candidate's lock is released.                  *)
Earlier(c, p) ==
    /\ state[p] = "RUNNABLE"
    /\ IF cand[c] = 0 THEN TRUE ELSE startTime[p] < startTime[cand[c]]

\* the scan records each RUNNABLE slot it reads, with its start_time
Record(c) ==
    seen' = [seen EXCEPT ![c] =
               IF state[scanAt[c]] = "RUNNABLE"
               THEN @ \cup {<<scanAt[c], pid[scanAt[c]], startTime[scanAt[c]]>>}
               ELSE @]

\* fault model: the scan releases every lock, the candidate's included
FcfsTakeNoHold(c) ==
    /\ cproc[c] = 0 /\ scanAt[c] <= NPROC
    /\ lk[scanAt[c]] = NoCPU
    /\ Earlier(c, scanAt[c])
    /\ lk' = IF cand[c] = 0 THEN lk ELSE [lk EXCEPT ![cand[c]] = NoCPU]
    /\ cand' = [cand EXCEPT ![c] = scanAt[c]]
    /\ scanAt' = [scanAt EXCEPT ![c] = @ + 1]
    /\ Record(c)
    /\ UNCHANGED <<procVars, waitLock, nextpid, cproc, sidx, pc, np,
                   startTime, accVars>>

FcfsTake(c) ==
    /\ cproc[c] = 0 /\ scanAt[c] <= NPROC
    /\ lk[scanAt[c]] = NoCPU
    /\ Earlier(c, scanAt[c])
    /\ lk' = IF cand[c] = 0 THEN [lk EXCEPT ![scanAt[c]] = c]
             ELSE [lk EXCEPT ![scanAt[c]] = c, ![cand[c]] = NoCPU]
    /\ cand' = [cand EXCEPT ![c] = scanAt[c]]
    /\ scanAt' = [scanAt EXCEPT ![c] = @ + 1]
    /\ Record(c)
    /\ UNCHANGED <<procVars, waitLock, nextpid, cproc, sidx, pc, np,
                   startTime, accVars>>

\* not earlier: release(&p->lock) and go on
FcfsPass(c) ==
    /\ cproc[c] = 0 /\ scanAt[c] <= NPROC
    /\ lk[scanAt[c]] = NoCPU
    /\ ~Earlier(c, scanAt[c])
    /\ scanAt' = [scanAt EXCEPT ![c] = @ + 1]
    /\ Record(c)
    /\ UNCHANGED <<vars, accVars, startTime, cand>>

(* End of the scan: switch to the candidate, still locked.                *)
FcfsDispatch(c) ==
    /\ cproc[c] = 0 /\ scanAt[c] = NPROC + 1 /\ cand[c] # 0
    /\ state' = [state EXCEPT ![cand[c]] = "RUNNING"]
    /\ cproc' = [cproc EXCEPT ![c] = cand[c]]
    /\ scanAt' = [scanAt EXCEPT ![c] = 1]
    /\ cand' = [cand EXCEPT ![c] = 0]
    /\ seen' = [seen EXCEPT ![c] = {}]
    /\ UNCHANGED <<pid, parent, killed, chan, lk, waitLock, nextpid, sidx,
                   pc, np, startTime, accVars>>

\* First_start == -1: nothing RUNNABLE was seen, continue
FcfsIdle(c) ==
    /\ cproc[c] = 0 /\ scanAt[c] = NPROC + 1 /\ cand[c] = 0
    /\ scanAt' = [scanAt EXCEPT ![c] = 1]
    /\ UNCHANGED <<vars, accVars, startTime, cand, seen>>

-----------------------------------------------------------------------------
\* fault model: the start tick stamped one tick late
FcfsAllocFoundLate(s) ==
    /\ AccAllocFound(s)
    /\ startTime' = [startTime EXCEPT ![np[s]] = ticks + 1]
    /\ UNCHANGED <<scanAt, cand, seen>>

(* allocproc(): start_time = ticks, with the accounting's stamps.         *)
FcfsAllocFound(s) ==
    /\ AccAllocFound(s)
    /\ startTime' = [startTime EXCEPT ![np[s]] = ticks]
    /\ UNCHANGED <<scanAt, cand, seen>>

\* the Proc steps of the FCFS build: no timer yield
FcfsStep(s) ==
    /\ ~Interrupted(s)
    /\ \/ FcfsAllocFound(s)
       \/ AccExit(s) /\ UNCHANGED fcfsVars
       \/ pc[s] \in {"user", "wait"} /\ WaitxReap(s) /\ UNCHANGED fcfsVars
       \/ /\ \/ ForkRet(s) \/ AllocNext(s) \/ ForkFail(s)
             \/ ForkCopy(s) \/ ForkLink(s) \/ ForkRun(s) \/ SleepAcquire(s) \/ WaitSleep(s)
             \/ SleepResume(s) \/ ForkStart(s)
             \/ pc[s] \in {"user", "wait"}
                /\ (WaitReap(s) \/ WaitCopyoutFail(s) \/ WaitNone(s) \/ WaitBlock(s))
             \/ \E k \in KillPids : Kill(s, k)
          /\ UNCHANGED <<accVars, fcfsVars>>

\* TimerCpu's scheduler is stopped while it runs clockintr()
FcfsSched(c) ==
    /\ c = TimerCpu => sweep = 0
    /\ FcfsTake(c) \/ FcfsPass(c) \/ FcfsDispatch(c) \/ FcfsIdle(c)

FcfsNext ==
    \/ \E c \in CPUs : FcfsSched(c)
    \/ \E s \in Slots : FcfsStep(s)
    \/ (Tick \/ UpdateTime) /\ UNCHANGED fcfsVars

FcfsSpec == FcfsInit /\ [][FcfsNext]_fcfsAllVars


(* Each dispatch is first come, first served (spec 4.2): no process the   *)
(* scan read as RUNNABLE, and that is still there and RUNNABLE, started   *)
(* earlier than the process switched to, or at the same tick in an       *)
(* earlier slot (ties broken by table order).  The scan reads one slot at *)
(* a time while the other CPU forks, exits and wakes processes, and keeps *)
(* only the candidate's lock; a slot woken after the scan passed it is a  *)
(* race the code accepts and is not compared.                             *)
FcfsDispatchesOldest ==
    [][\A c \in CPUs :
         cproc[c] = 0 /\ cproc'[c] # 0 =>
            \A r \in seen[c] :
                state[r[1]] = "RUNNABLE" /\ pid[r[1]] = r[2] =>
                    \/ r[3] > startTime[cproc'[c]]
                    \/ r[3] = startTime[cproc'[c]] /\ r[1] >= cproc'[c]
      ]_fcfsAllVars

=============================================================================

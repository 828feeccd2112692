------------------------------- MODULE SchedPBS -------------------------------
(***************************************************************************)
(* The PBS build of src/kernel/proc.c: scheduler() under #ifdef PBS with  *)
(* PSBPriority() and PcbCompare(), set_priority_i(), and the PBS          *)
(* bookkeeping of allocproc(), sleep() and wakeup(), composed with the    *)
(* lifecycle of Proc on several CPUs.                                     *)
(*                                                                         *)
(* The scheduler scans proc[] taking each p->lock in turn and keeps the   *)
(* lock of the best candidate so far while it takes the later ones, so    *)
(* its scan is one action per slot: scanAt is the slot it is at and cand  *)
(* the candidate whose lock it holds.  running_time and sleeping_time    *)
(* hold -1 ("fresh"), a tick stamp or a duration at different times, as   *)
(* in the code.  The build has no timer preemption in this file: a        *)
(* process gives up the CPU by sleeping, exiting or set_priority's yield. *)
(***************************************************************************)
EXTENDS Proc

CONSTANTS
    MaxTick,    \* bound on the timer's ticks counter
    MaxSched,   \* set_priority is called only while Times_scheduled <= MaxSched
    PrioValues  \* the static priorities passed to set_priority

ASSUME /\ MaxTick \in Nat /\ MaxSched \in Nat
       /\ PrioValues \subseteq 0..100

VARIABLES
    staticPrio, \* p->Static_priority
    timesSched, \* p->Times_scheduled
    startTime,  \* p->start_time
    runTime,    \* p->running_time
    sleepTime,  \* p->sleeping_time
    ticks,      \* ticks
    scanAt,     \* the slot each CPU's scheduler scan is at (NPROC + 1: done)
    cand,       \* ToBeScheduled while intialized = 0, its lock held; else 0
    seen        \* history: <<slot, ScanKey>> of each RUNNABLE slot this scan read

pbsVars == <<staticPrio, timesSched, startTime, runTime, sleepTime, ticks,
             scanAt, cand, seen>>
allVars == <<vars, pbsVars>>

PbsTypeOK ==
    /\ TypeOK
    /\ staticPrio \in [Slots -> 0..100]
    /\ timesSched \in [Slots -> Nat]
    /\ startTime \in [Slots -> 0..MaxTick]
    /\ runTime \in [Slots -> -1..MaxTick]
    /\ sleepTime \in [Slots -> -1..MaxTick + 1]
    /\ ticks \in 0..MaxTick
    /\ scanAt \in [CPUs -> 1..NPROC + 1]
    /\ cand \in [CPUs -> 0..NPROC]
    /\ \A c \in CPUs : \A r \in seen[c] : r[1] \in Slots /\ r[2][1] \in 0..100

(* userinit()'s allocproc() at tick 0: Static_priority 60, fresh times.   *)
PbsInit ==
    /\ Init
    /\ staticPrio = [s \in Slots |-> IF s = InitSlot THEN 60 ELSE 0]
    /\ timesSched = [s \in Slots |-> 0]
    /\ startTime = [s \in Slots |-> 0]
    /\ runTime = [s \in Slots |-> IF s = InitSlot THEN -1 ELSE 0]
    /\ sleepTime = [s \in Slots |-> IF s = InitSlot THEN -1 ELSE 0]
    /\ ticks = 0
    /\ scanAt = [c \in CPUs |-> 1]
    /\ cand = [c \in CPUs |-> 0]
    /\ seen = [c \in CPUs |-> {}]

-----------------------------------------------------------------------------
(* C's int division truncates toward zero.  A zero divisor is undefined;  *)
(* RISC-V's divw, which the kernel's compiler emits, gives -1.            *)
CDiv(a, b) ==
    IF b = 0 THEN -1
    ELSE LET q == (IF a < 0 THEN -a ELSE a) \div (IF b < 0 THEN -b ELSE b)
         IN  IF (a < 0) = (b < 0) THEN q ELSE -q

Fresh(p) == sleepTime[p] = -1 /\ runTime[p] = -1

\* niceness in PSBPriority()
Niceness(p) ==
    IF Fresh(p) THEN 5
    ELSE CDiv(sleepTime[p] * 10, runTime[p] + sleepTime[p])

(* PSBPriority(): Static_priority - niceness + 5, clamped to 0..100.      *)
PSBPriority(p) ==
    LET v == staticPrio[p] - Niceness(p) + 5
    IN  IF v > 100 THEN 100 ELSE IF v < 0 THEN 0 ELSE v

\* fault model: the Times_scheduled tie-break the wrong way round
PcbCompareMoreRuns(p, q) ==
    CASE PSBPriority(p) < PSBPriority(q) -> -1
      [] PSBPriority(p) > PSBPriority(q) -> 1
      [] timesSched[p] < timesSched[q] -> 1
      [] timesSched[q] < timesSched[p] -> -1
      [] startTime[p] < startTime[q] -> -1
      [] startTime[q] < startTime[p] -> 1
      [] OTHER -> -1

(* PcbCompare(p, q): positive when q is to be preferred to p.             *)
PcbCompare(p, q) ==
    CASE PSBPriority(p) < PSBPriority(q) -> -1
      [] PSBPriority(p) > PSBPriority(q) -> 1
      [] timesSched[p] > timesSched[q] -> 1
      [] timesSched[q] > timesSched[p] -> -1
      [] startTime[p] < startTime[q] -> -1
      [] startTime[q] < startTime[p] -> 1
      [] OTHER -> -1

\* what PcbCompare looks at, in the order it looks
ScanKey(p) == <<PSBPriority(p), timesSched[p], startTime[p]>>

\* the scan records the key of each RUNNABLE slot it reads
Record(c) ==
    seen' = [seen EXCEPT ![c] = IF state[scanAt[c]] = "RUNNABLE"
                                THEN @ \cup {<<scanAt[c], ScanKey(scanAt[c])>>}
                                ELSE @]

(* scheduler(): acquire(&p->lock); a RUNNABLE p that PcbCompare prefers  *)
(* to the candidate (or the first RUNNABLE one) becomes the candidate and *)
(* keeps its lock, the old candidate's lock is released.                  *)
Better(c, p) ==
    /\ state[p] = "RUNNABLE"
    /\ IF cand[c] = 0 THEN TRUE ELSE PcbCompare(cand[c], p) > 0

\* fault model: the scan releases every lock, the candidate's included
PbsTakeNoHold(c) ==
    /\ cproc[c] = 0 /\ scanAt[c] <= NPROC
    /\ lk[scanAt[c]] = NoCPU
    /\ Better(c, scanAt[c])
    /\ lk' = IF cand[c] = 0 THEN lk ELSE [lk EXCEPT ![cand[c]] = NoCPU]
    /\ cand' = [cand EXCEPT ![c] = scanAt[c]]
    /\ scanAt' = [scanAt EXCEPT ![c] = @ + 1]
    /\ Record(c)
    /\ UNCHANGED <<procVars, waitLock, nextpid, cproc, sidx, pc, np,
                   staticPrio, timesSched, startTime, runTime, sleepTime, ticks>>

PbsTake(c) ==
    /\ cproc[c] = 0 /\ scanAt[c] <= NPROC
    /\ lk[scanAt[c]] = NoCPU
    /\ Better(c, scanAt[c])
    /\ lk' = IF cand[c] = 0 THEN [lk EXCEPT ![scanAt[c]] = c]
             ELSE [lk EXCEPT ![scanAt[c]] = c, ![cand[c]] = NoCPU]
    /\ cand' = [cand EXCEPT ![c] = scanAt[c]]
    /\ scanAt' = [scanAt EXCEPT ![c] = @ + 1]
    /\ Record(c)
    /\ UNCHANGED <<procVars, waitLock, nextpid, cproc, sidx, pc, np,
                   staticPrio, timesSched, startTime, runTime, sleepTime, ticks>>

\* not preferred: release(&p->lock) and go on
PbsPass(c) ==
    /\ cproc[c] = 0 /\ scanAt[c] <= NPROC
    /\ lk[scanAt[c]] = NoCPU
    /\ ~Better(c, scanAt[c])
    /\ scanAt' = [scanAt EXCEPT ![c] = @ + 1]
    /\ Record(c)
    /\ UNCHANGED <<vars, staticPrio, timesSched, startTime, runTime,
                   sleepTime, ticks, cand>>

(* End of the scan: switch to the candidate, still locked: RUNNING,       *)
(* Times_scheduled++, sleeping_time = 0, running_time = ticks.            *)
PbsDispatch(c) ==
    /\ cproc[c] = 0 /\ scanAt[c] = NPROC + 1 /\ cand[c] # 0
    /\ state' = [state EXCEPT ![cand[c]] = "RUNNING"]
    /\ timesSched' = [timesSched EXCEPT ![cand[c]] = @ + 1]
    /\ sleepTime' = [sleepTime EXCEPT ![cand[c]] = 0]
    /\ runTime' = [runTime EXCEPT ![cand[c]] = ticks]
    /\ cproc' = [cproc EXCEPT ![c] = cand[c]]
    /\ scanAt' = [scanAt EXCEPT ![c] = 1]
    /\ cand' = [cand EXCEPT ![c] = 0]
    /\ seen' = [seen EXCEPT ![c] = {}]
    /\ UNCHANGED <<pid, parent, killed, chan, lk, waitLock, nextpid, sidx,
                   pc, np, staticPrio, startTime, ticks>>

\* nothing RUNNABLE was seen: continue
PbsIdle(c) ==
    /\ cproc[c] = 0 /\ scanAt[c] = NPROC + 1 /\ cand[c] = 0
    /\ scanAt' = [scanAt EXCEPT ![c] = 1]
    /\ UNCHANGED <<vars, staticPrio, timesSched, startTime, runTime,
                   sleepTime, ticks, cand, seen>>

-----------------------------------------------------------------------------
(* The lifecycle steps of Proc in the PBS build.                          *)

(* allocproc(): Static_priority 60, Times_scheduled 0, start_time ticks,  *)
(* running_time and sleeping_time -1.                                     *)
PbsAllocFound(s) ==
    /\ AllocFound(s)
    /\ staticPrio' = [staticPrio EXCEPT ![np[s]] = 60]
    /\ timesSched' = [timesSched EXCEPT ![np[s]] = 0]
    /\ startTime' = [startTime EXCEPT ![np[s]] = ticks]
    /\ runTime' = [runTime EXCEPT ![np[s]] = -1]
    /\ sleepTime' = [sleepTime EXCEPT ![np[s]] = -1]
    /\ UNCHANGED <<ticks, scanAt, cand, seen>>

(* sleep(): running_time becomes the time run since dispatch, and         *)
(* sleeping_time the tick it went to sleep.                               *)
PbsWaitSleep(s) ==
    /\ WaitSleep(s)
    /\ runTime' = [runTime EXCEPT ![s] = ticks - @]
    /\ sleepTime' = [sleepTime EXCEPT ![s] = ticks]
    /\ UNCHANGED <<staticPrio, timesSched, startTime, ticks, scanAt, cand, seen>>

\* fault model: wakeup's subtraction the wrong way round
PbsExitSwapped(s) ==
    /\ Exit(s)
    /\ sleepTime' = [q \in Slots |->
                       IF state[q] = "SLEEPING" /\ state'[q] = "RUNNABLE"
                       THEN sleepTime[q] - ticks ELSE sleepTime[q]]
    /\ UNCHANGED <<staticPrio, timesSched, startTime, runTime, ticks, scanAt,
                   cand, seen>>

(* exit()'s wakeups: sleeping_time becomes the time slept.  kill() wakes  *)
(* a sleeper without this.                                                *)
PbsExit(s) ==
    /\ Exit(s)
    /\ sleepTime' = [q \in Slots |->
                       IF state[q] = "SLEEPING" /\ state'[q] = "RUNNABLE"
                       THEN ticks - sleepTime[q] ELSE sleepTime[q]]
    /\ UNCHANGED <<staticPrio, timesSched, startTime, runTime, ticks, scanAt,
                   cand, seen>>

(* set_priority_i(priority, pid): the RUNNABLE or SLEEPING slot with that *)
(* pid, found under its lock, gets the new Static_priority and fresh     *)
(* running/sleeping times; the caller then yields if priority > old.     *)
(* An out-of-range priority or an unmatched pid changes nothing and is    *)
(* left out.                                                              *)
SetPriority(s, prio, k) ==
    /\ pc[s] = "user" /\ OnCpu(s) /\ ~killed[s]
    /\ timesSched[s] <= MaxSched
    /\ \E q \in Slots :
         /\ pid[q] = k /\ state[q] \in {"RUNNABLE", "SLEEPING"}
         /\ lk[q] = NoCPU
         /\ staticPrio' = [staticPrio EXCEPT ![q] = prio]
         /\ runTime' = [runTime EXCEPT ![q] = -1]
         /\ sleepTime' = [sleepTime EXCEPT ![q] = -1]
         /\ pc' = [pc EXCEPT ![s] = IF prio > staticPrio[q]
                                    THEN "setprio_yield" ELSE "user"]
    /\ UNCHANGED <<procVars, lk, waitLock, nextpid, cproc, sidx, np,
                   timesSched, startTime, ticks, scanAt, cand, seen>>

\* set_priority_i's yield()
SetPrioYield(s) ==
    /\ pc[s] = "setprio_yield" /\ OnCpu(s)
    /\ YieldStep(s)
    /\ UNCHANGED pbsVars

(* clockintr(): ticks++.                                                  *)
Tick ==
    /\ ticks < MaxTick
    /\ ticks' = ticks + 1
    /\ UNCHANGED <<vars, staticPrio, timesSched, startTime, runTime,
                   sleepTime, scanAt, cand, seen>>

\* the Proc steps that leave the PBS fields alone
PlainStep(s) ==
    /\ \/ ForkRet(s) \/ YieldResume(s) \/ AllocNext(s) \/ ForkFail(s)
       \/ ForkCopy(s) \/ ForkLink(s) \/ ForkRun(s) \/ SleepAcquire(s)
       \/ SleepResume(s)
       \/ pc[s] \in {"user", "wait"}
          /\ (WaitReap(s) \/ WaitCopyoutFail(s) \/ WaitNone(s) \/ WaitBlock(s))
       \/ ForkStart(s)
       \/ \E k \in KillPids : Kill(s, k)
    /\ UNCHANGED pbsVars

PbsSched(c) ==
    PbsTake(c) \/ PbsPass(c) \/ PbsDispatch(c) \/ PbsIdle(c)

PbsStep(s) ==
    \/ PlainStep(s) \/ PbsAllocFound(s) \/ PbsWaitSleep(s) \/ PbsExit(s)
    \/ \E prio \in PrioValues, k \in KillPids : SetPriority(s, prio, k)
    \/ SetPrioYield(s)

PbsNext ==
    \/ \E c \in CPUs : PbsSched(c)
    \/ \E s \in Slots : PbsStep(s)
    \/ Tick

PbsSpec == PbsInit /\ [][PbsNext]_allVars

-----------------------------------------------------------------------------
(* Properties                                                             *)

(* PSBPriority is well defined for every process the scheduler may       *)
(* compare: a process that is not fresh has run or slept a non-zero total *)
(* and its niceness is 10 x sleeping / (sleeping + running), in 0..10     *)
(* (spec 4.3).  Dispatch, sleep, wakeup, kill and set_priority each       *)
(* rewrite running_time and sleeping_time between stamps and durations.   *)
NicenessInRange ==
    \A q \in Slots :
        state[q] = "RUNNABLE" /\ ~Fresh(q) =>
            /\ runTime[q] + sleepTime[q] # 0
            /\ Niceness(q) \in 0..10

(* The spec's PBS order (spec 4.3): lower dynamic priority first, then    *)
(* fewer times scheduled, then the earlier start.                         *)
SpecBefore(k1, k2) ==
    \/ k1[1] < k2[1]
    \/ k1[1] = k2[1] /\ k1[2] < k2[2]
    \/ k1[1] = k2[1] /\ k1[2] = k2[2] /\ k1[3] < k2[3]

(* Each dispatch follows the spec's PBS order: no process the scan read   *)
(* as RUNNABLE, and that is still RUNNABLE with the key the scan read,    *)
(* comes before the process switched to.  The scan reads one slot at a    *)
(* time while other CPUs run, and keeps only the candidate's lock, so the *)
(* candidate's key must stay fixed while later slots are compared with   *)
(* it through PcbCompare.  Slots that change after they were read (woken, *)
(* re-prioritised) are a race the code accepts and are not compared.      *)
PbsDispatchesInOrder ==
    [][\A c \in CPUs :
         cproc[c] = 0 /\ cproc'[c] # 0 =>
            \A r \in seen[c] :
                state[r[1]] = "RUNNABLE" /\ ScanKey(r[1]) = r[2] =>
                    ~SpecBefore(r[2], ScanKey(cproc'[c]))
      ]_allVars

=============================================================================

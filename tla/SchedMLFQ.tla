------------------------------ MODULE SchedMLFQ ------------------------------
(***************************************************************************)
(* The MLFQ build of src/kernel/proc.c: scheduler() under #ifdef MLFQ     *)
(* with UpgradePolicy(), composed with the lifecycle of Proc and the MLFQ *)
(* bookkeeping that the lifecycle does in that build: allocproc() puts a  *)
(* new process at level 0 stamped with ticks, wakeup() re-stamps the      *)
(* processes it wakes, fork() yields when the parent is below level 0,    *)
(* and the scheduler stamps the process it dispatches with 0.             *)
(*                                                                         *)
(* The scheduler takes no lock while it chooses ("single processor        *)
(* system no need"); it acquires the chosen process's lock only to        *)
(* switch to it, and does not look at its state again.  Choosing and      *)
(* switching are therefore two actions, and the choice is kept in pick.   *)
(* Proc's sidx is the round-robin cursor rr_s of each CPU's scheduler.    *)
(* no_of_ticks and No_times carry no control in proc.c and are left out.  *)
(***************************************************************************)
EXTENDS Proc, SequencesExt

CONSTANTS
    MaxTick,   \* bound on the timer's ticks counter
    MaxWait    \* Max_wait[1..3]: the wait after which a level is promoted

ASSUME /\ MaxTick \in Nat
       /\ MaxWait \in [1..3 -> Nat]

Levels == 0..3

VARIABLES
    level,     \* p->priority_number
    timeAdded, \* p->time_added
    ticks,     \* ticks
    pick,      \* each CPU's toSchedule between choosing and switching, or 0
    forkYield  \* fork() has made the child RUNNABLE and will now yield

mlfqVars == <<level, timeAdded, ticks, pick, forkYield>>
allVars == <<vars, mlfqVars>>

MLFQTypeOK ==
    /\ TypeOK
    /\ level \in [Slots -> Levels]
    /\ timeAdded \in [Slots -> 0..MaxTick]
    /\ ticks \in 0..MaxTick
    /\ pick \in [CPUs -> 0..NPROC]
    /\ forkYield \in [Slots -> BOOLEAN]

(* userinit()'s allocproc() runs at tick 0: initproc at level 0 with      *)
(* time_added 0; the other slots hold zeroed fields.                      *)
MLFQInit ==
    /\ Init
    /\ level = [s \in Slots |-> 0]
    /\ timeAdded = [s \in Slots |-> 0]
    /\ ticks = 0
    /\ pick = [c \in CPUs |-> 0]
    /\ forkYield = [s \in Slots |-> FALSE]

-----------------------------------------------------------------------------
\* fault model: UpgradePolicy() without the priority_number != 0 test
UpgradeLevelNoTopCheck ==
    [q \in Slots |-> IF state[q] = "RUNNABLE"
                        /\ ticks - timeAdded[q] > MaxWait[Max({level[q], 1})]
                     THEN level[q] - 1 ELSE level[q]]

(* UpgradePolicy(): a RUNNABLE process below level 0 that has waited more *)
(* than Max_wait of its level since time_added moves up one level and is  *)
(* stamped with ticks.  time_added never exceeds ticks, so the unsigned   *)
(* difference does not wrap.                                              *)
Aged(q) ==
    /\ state[q] = "RUNNABLE" /\ level[q] # 0
    /\ ticks - timeAdded[q] > MaxWait[level[q]]

UpgradeLevel == [q \in Slots |-> IF Aged(q) THEN level[q] - 1 ELSE level[q]]
UpgradeTime == [q \in Slots |-> IF Aged(q) THEN ticks ELSE timeAdded[q]]

(* The scan of level i over proc[] with minimum_time starting at 0: a     *)
(* RUNNABLE process of level i is taken when minimum_time is 0 or its     *)
(* time_added is smaller.  The result is <<minimum_time, toSchedule>>;    *)
(* the level counts as found only when minimum_time ends non-zero.        *)
ScanLevel(lv, ta, i) ==
    LET take(acc, p) ==
            IF state[p] = "RUNNABLE" /\ lv[p] = i
               /\ (acc[1] = 0 \/ ta[p] < acc[1])
            THEN <<ta[p], p>> ELSE acc
    IN  FoldLeft(take, <<0, 0>>, [k \in 1..NPROC |-> k])

FoundLevels(lv, ta) == {i \in Levels : ScanLevel(lv, ta, i)[1] # 0}

\* proc[] from rr_s on, wrapping at NPROC
Cyc(i) == ((i - 1) % NPROC) + 1

(* scheduler(): c->proc = 0, UpgradePolicy(), then the first level whose  *)
(* scan found a process gives toSchedule.                                 *)
SelectLevel(c) ==
    /\ cproc[c] = 0 /\ pick[c] = 0
    /\ FoundLevels(UpgradeLevel, UpgradeTime) # {}
    /\ level' = UpgradeLevel
    /\ timeAdded' = UpgradeTime
    /\ pick' = [pick EXCEPT ![c] =
                  ScanLevel(UpgradeLevel, UpgradeTime,
                            Min(FoundLevels(UpgradeLevel, UpgradeTime)))[2]]
    /\ UNCHANGED <<vars, ticks, forkYield>>

(* No level found one: the round-robin loop from rr_s takes the first     *)
(* RUNNABLE slot of any level and leaves rr_s past it.  With no RUNNABLE  *)
(* slot the loop spins, which is stuttering.                              *)
SelectRR(c) ==
    /\ cproc[c] = 0 /\ pick[c] = 0
    /\ FoundLevels(UpgradeLevel, UpgradeTime) = {}
    /\ \E k \in 0..NPROC - 1 : state[Cyc(sidx[c] + k)] = "RUNNABLE"
    /\ LET k == Min({j \in 0..NPROC - 1 : state[Cyc(sidx[c] + j)] = "RUNNABLE"})
       IN  /\ pick' = [pick EXCEPT ![c] = Cyc(sidx[c] + k)]
           /\ sidx' = [sidx EXCEPT ![c] = NextSlot(Cyc(sidx[c] + k))]
    /\ level' = UpgradeLevel
    /\ timeAdded' = UpgradeTime
    /\ UNCHANGED <<procVars, lk, waitLock, nextpid, cproc, pc, np,
                   ticks, forkYield>>

\* fault model: the switch leaves toSchedule->state as it was
DispatchNoState(c) ==
    /\ pick[c] # 0
    /\ lk[pick[c]] = NoCPU
    /\ cproc' = [cproc EXCEPT ![c] = pick[c]]
    /\ lk' = [lk EXCEPT ![pick[c]] = c]
    /\ timeAdded' = [timeAdded EXCEPT ![pick[c]] = 0]
    /\ pick' = [pick EXCEPT ![c] = 0]
    /\ UNCHANGED <<procVars, waitLock, nextpid, sidx, pc, np, level, ticks,
                   forkYield>>

(* Schedu: acquire toSchedule's lock, c->proc = toSchedule, RUNNING,      *)
(* time_added = 0, swtch.  The state is not tested under the lock.        *)
Dispatch(c) ==
    /\ pick[c] # 0
    /\ lk[pick[c]] = NoCPU
    /\ state' = [state EXCEPT ![pick[c]] = "RUNNING"]
    /\ cproc' = [cproc EXCEPT ![c] = pick[c]]
    /\ lk' = [lk EXCEPT ![pick[c]] = c]
    /\ timeAdded' = [timeAdded EXCEPT ![pick[c]] = 0]
    /\ pick' = [pick EXCEPT ![c] = 0]
    /\ UNCHANGED <<pid, parent, killed, chan, waitLock, nextpid, sidx, pc, np,
                   level, ticks, forkYield>>

-----------------------------------------------------------------------------
(* The lifecycle steps of Proc in the MLFQ build.                         *)

\* fork() returns only after its MLFQ yield: no user step before it
InUser(s) == pc[s] = "user" /\ ~forkYield[s]

(* allocproc(): priority_number = 0, time_added = ticks.                  *)
MLFQAllocFound(s) ==
    /\ AllocFound(s)
    /\ level' = [level EXCEPT ![np[s]] = 0]
    /\ timeAdded' = [timeAdded EXCEPT ![np[s]] = ticks]
    /\ UNCHANGED <<ticks, pick, forkYield>>

(* fork(): after np is RUNNABLE, a parent with priority_number != 0 sets  *)
(* no_of_ticks = 0 and calls yield() before it returns.                   *)
MLFQForkRun(s) ==
    /\ ForkRun(s)
    /\ forkYield' = [forkYield EXCEPT ![s] = level[s] # 0]
    /\ UNCHANGED <<level, timeAdded, ticks, pick>>

(* fork()'s yield(): time_added is left as the dispatch set it, 0.        *)
ForkYield(s) ==
    /\ forkYield[s] /\ pc[s] = "user" /\ OnCpu(s)
    /\ YieldStep(s)
    /\ forkYield' = [forkYield EXCEPT ![s] = FALSE]
    /\ UNCHANGED <<level, timeAdded, ticks, pick>>

\* the slots a step moves from SLEEPING to RUNNABLE
Woken == {q \in Slots : state[q] = "SLEEPING" /\ state'[q] = "RUNNABLE"}

(* exit(): the wakeup()s it makes stamp each process they wake with       *)
(* ticks (MLFQ's time_added = ticks in wakeup).                           *)
MLFQExit(s) ==
    /\ ~forkYield[s]
    /\ Exit(s)
    /\ timeAdded' = [q \in Slots |-> IF q \in Woken THEN ticks ELSE timeAdded[q]]
    /\ UNCHANGED <<level, ticks, pick, forkYield>>

(* The timer interrupt's yield() from user mode (usertrap, trap.c): the   *)
(* process re-enters its queue stamped with ticks, and is moved one level *)
(* down if it has used its slice there (no_of_ticks is not modelled, so   *)
(* the demotion is a choice).                                             *)
MLFQYield(s) ==
    /\ ~forkYield[s]
    /\ Yield(s)
    /\ timeAdded' = [timeAdded EXCEPT ![s] = ticks]
    /\ \/ UNCHANGED level
       \/ level[s] < 3 /\ level' = [level EXCEPT ![s] = @ + 1]
    /\ UNCHANGED <<ticks, pick, forkYield>>

(* clockintr(): ticks++.                                                  *)
Tick ==
    /\ ticks < MaxTick
    /\ ticks' = ticks + 1
    /\ UNCHANGED <<vars, level, timeAdded, pick, forkYield>>

\* the Proc steps that leave the MLFQ fields alone
PlainStep(s) ==
    /\ \/ ForkRet(s) \/ YieldResume(s) \/ AllocNext(s) \/ ForkFail(s)
       \/ ForkCopy(s) \/ ForkLink(s) \/ SleepAcquire(s) \/ WaitSleep(s) \/ SleepResume(s)
       \/ (pc[s] = "wait" \/ InUser(s))
          /\ (WaitReap(s) \/ WaitCopyoutFail(s) \/ WaitNone(s) \/ WaitBlock(s))
       \/ InUser(s) /\ ForkStart(s)
       \/ InUser(s) /\ \E k \in KillPids : Kill(s, k)
    /\ UNCHANGED mlfqVars

MLFQSched(c) == SelectLevel(c) \/ SelectRR(c) \/ Dispatch(c)

MLFQStep(s) ==
    \/ PlainStep(s) \/ MLFQAllocFound(s) \/ MLFQForkRun(s) \/ ForkYield(s)
    \/ MLFQExit(s) \/ MLFQYield(s)

MLFQNext ==
    \/ \E c \in CPUs : MLFQSched(c)
    \/ \E s \in Slots : MLFQStep(s)
    \/ Tick

MLFQSpec == MLFQInit /\ [][MLFQNext]_allVars

-----------------------------------------------------------------------------
(* Properties                                                             *)

(* MLFQ order (spec 4.4): the process the scheduler chooses is at the     *)
(* most urgent level that has a RUNNABLE process after aging.  The scan   *)
(* uses minimum_time = 0 as "none found", while the dispatch stamps       *)
(* time_added = 0 and fork's yield and kill's wakeup leave it so.         *)
LevelOrder ==
    [][\A c \in CPUs :
         pick[c] = 0 /\ pick'[c] # 0 =>
            \A q \in Slots : state[q] = "RUNNABLE" => level'[pick'[c]] <= level'[q]
      ]_allVars

=============================================================================

# TLA+ models of the process core (`src/kernel/proc.c`)

This directory holds TLA+ models of the process table, the process lifecycle,
sleep/wakeup and the schedulers of `src/kernel/proc.c`, an xv6-derived RISC-V
teaching kernel extended with four build-time scheduling policies (DEFAULT,
FCFS, PBS, MLFQ). The models are checked with TLC. `PROJECT.json` lists the
components, the runs, the mutants that show each property can fail, the map
from every definition to the source lines it models, the findings and the
hazards.

## 1. Inventory

### Components and their state

| Component | Code | State it keeps |
|---|---|---|
| Process table | `proc[NPROC]`, `procinit`, `allocpid`, `allocproc`, `freeproc`, `userinit` | per slot: `state`, `pid`, `parent`, `killed`, `xstate`, `chan`, `lock`, trapframe, page table, size, files, cwd, name, timing fields; global `nextpid` (under `pid_lock`), `initproc` |
| Lifecycle | `fork`, `exit`, `reparent`, `wait`, `waitx`, `kill` | parent links (under `wait_lock`), `killed`, `xstate` |
| Blocking | `sleep`, `wakeup` | `chan`, `state` SLEEPING/RUNNABLE |
| Context switch | `sched`, `yield`, `forkret` | per CPU `c->proc`, `c->context`, `noff`, `intena` |
| Schedulers | `scheduler` in 4 `#ifdef` variants, `UpgradePolicy`, `PSBPriority`, `PcbCompare`, `set_priority_i` | FCFS `start_time`; PBS `Static_priority`, `Times_scheduled`, `start_time`, `running_time`, `sleeping_time`; MLFQ `priority_number`, `time_added`, `no_of_ticks`, `No_times`, the scheduler's `rr_s` cursor |
| Accounting | `update_time`, `waitx`, `procdump` | `rtime`, `ctime`, `etime`; the global `ticks` (owned by the timer) |
| Not in this core | `growproc`, `procdump`, `either_copyin/out`, `proc_pagetable`, `proc_mapstacks` | memory and console collaborators |

### How they interact

* Locks: each slot has `p->lock`; the global `wait_lock` guards every `parent`
  field and must be taken before any `p->lock`. Spinlocks are held by a CPU,
  not a thread: the scheduler acquires `p->lock`, switches to the process, and
  the process releases it (in `forkret`, or after `sched()` returns in
  `yield`/`sleep`); in the other direction the process acquires it and the
  scheduler releases it after `swtch` returns.
* `fork` calls `allocproc` (scan of the table taking each lock), releases the
  child's lock, links the parent under `wait_lock`, makes the child RUNNABLE
  under its lock. Under MLFQ a parent below level 0 then yields.
* `exit` takes `wait_lock`, hands its children to init (`reparent`, waking
  init), wakes its parent, becomes ZOMBIE under its lock and calls `sched()`.
* `wait` takes `wait_lock`, scans for its children taking each child's lock,
  reaps the first ZOMBIE (`freeproc`), returns -1 if it has no children or is
  killed, otherwise `sleep(p, &wait_lock)`; `sleep` takes `p->lock` before
  releasing `wait_lock`, which is what prevents a lost wakeup.
* `kill` sets `killed` and makes a SLEEPING victim RUNNABLE; the victim calls
  `exit(-1)` when it next crosses the user boundary (`usertrap`, in `trap.c`).
* The timer interrupt (in `trap.c`) calls `yield` and `update_time`.
* Each CPU runs `scheduler()` for ever. DEFAULT scans the table under each
  lock; FCFS and PBS scan keeping the best candidate's lock held while taking
  later ones; MLFQ scans with no lock at all (its comment assumes a single
  CPU), ages processes with `UpgradePolicy`, and falls back to a round-robin
  cursor.

### What is hard

* Interleavings of CPUs: scheduler loops, processes in fork/exit/wait/kill,
  lock hand-offs across `swtch`.
* Lost wakeups between `wait` deciding to sleep and `exit` waking it; kills that
  arrive between a check and a sleep.
* Stale state: slots are recycled, and some fields are not reset by
  `allocproc`/`freeproc`; PBS fields that hold a timestamp at one time and a
  duration at another; MLFQ's `time_added = 0` doubling as "none found".
* Numeric edges: a division by zero in `PSBPriority`, unsigned wait time in
  `waitx`, the pid counter.
* Liveness: every RUNNABLE process must eventually run, MLFQ aging must bound
  starvation, a killed process must exit.

### What makes each component correct

* Table/lifecycle: live pids are distinct; a free slot keeps nothing of its
  last process; every live non-init process has a live parent; a slot's state
  follows the lifecycle machine (UNUSED, USED, RUNNABLE, RUNNING, SLEEPING,
  ZOMBIE, UNUSED).
* Blocking: a process asleep in `wait` never has a zombie child (no lost
  wakeup); a killed process eventually exits.
* Context switch / schedulers: a process is RUNNING exactly when one CPU runs
  it; every RUNNABLE process eventually runs (DEFAULT); the chosen process is
  the one the policy says (earliest `start_time` for FCFS, least `PcbCompare`
  for PBS, lowest level then earliest `time_added` for MLFQ); PBS niceness stays
  within 0..10; MLFQ levels stay within 0..3 and aging promotes.
* Accounting: `rtime` never exceeds the time since creation, so `wtime` is not
  negative.

## 2. Plan

Modules, in order of importance:

1. `Proc` (done): the table, fork/exit/wait/kill, sleep/wakeup on the wait
   channel, yield/sched/forkret and the DEFAULT scheduler on several CPUs.
   `MCProc` instantiates it.
2. `SchedMLFQ` (done): the MLFQ scheduler composed with the whole lifecycle,
   with `time_added`, `priority_number`, `UpgradePolicy` and the lock-free
   selection. `MCSchedMLFQ` instantiates it.
3. `SchedPBS` (done): the PBS scan, `PSBPriority`, `PcbCompare`,
   `set_priority_i` and the PBS bookkeeping, composed with the lifecycle.
   `MCSchedPBS` instantiates it.
4. `SchedFCFS` (done): the FCFS scan holding the candidate lock on two CPUs
   (deadlock check). `MCSchedFCFS` instantiates it.
5. `SchedSelect` (to do): the four selection loops as RECURSIVE operators over a table
   snapshot, checked against reference definitions (minimum by key, table order
   for ties) over all small tables.
6. `Lifecycle` (abstract, done): per-slot state machine with atomic allocate, fork,
   exit, reap; `Proc` shown to refine it with `INSTANCE Lifecycle WITH ...`.
7. `Accounting` (done): ticks, `update_time`, `waitx` wait time.

## 3. The `Proc` module

State: `state`, `pid`, `parent`, `killed`, `chan` per slot (`parent` and
`chan` are slot indices, 0 for NULL), `lk[p]` and `waitLock` (the CPU holding
the lock, or `NoCPU`), `nextpid`, per CPU `cproc` (`c->proc`) and `sidx`
(the scheduler loop's position), per slot `pc` (where its kernel thread is,
or where it resumes after `swtch`) and `np` (fork's allocproc index, then the
child). Init is the state after `procinit` and `userinit`: initproc RUNNABLE
in slot 1 with pid 1.

Granularity: an action is a stretch of code between two points where another
CPU can observe a difference. Code that runs entirely under one lock is one
action; a lock held across actions (the scheduler's `p->lock` handed to the
process, allocproc's returned lock, `wait_lock` between wait's scan and
`sleep`) stays held in the model. `sleep` is two actions: `SleepAcquire`
takes `p->lock` while `wait_lock` is still held (line 871), and `WaitSleep`
releases `wait_lock`, sets `chan` and SLEEPING and switches away. `wakeup` is
one action inside `exit`. It waits for the `p->lock` of each slot it may wake:
the parent and, if there are children to hand over, init
(`WakeLocksFree`). The code takes every other slot's lock in turn, but only
a slot SLEEPING on the channel can change. So a waiter between its two
`sleep` steps holds off its child's `exit`, as the code's lock does.
wait's scan is one action: it runs under `wait_lock`, and every change that
matters to it (a child becoming ZOMBIE, a parent link) needs `wait_lock`.

Actions: `SchedRun`/`SchedSkip` (scheduler loop), `ForkRet`, `Yield`,
`YieldResume`, `Kill`, `ForkStart`, `AllocFound`, `AllocNext`, `ForkFail`
(trapframe, page table or uvmcopy allocation fails), `ForkCopy`, `ForkLink`,
`ForkRun`, `Exit`, `WaitReap`, `WaitCopyoutFail`, `WaitNone`, `WaitBlock`,
`SleepAcquire`, `WaitSleep`, `SleepResume`. The user side (which system call a process makes,
the timer's yield, `exit(-1)` of a killed process) comes from `usertrap` in
`trap.c`, which is not in this repository: it is modelled from the spec.
Init's program never calls `exit`.

Bounds: 3 slots (init, a child, a grandchild: enough for reparenting and a
full table), 2 CPUs (enough for every cross-CPU race),
`MaxPid` 4 (forks that fill the table and reuse a freed slot).
`PidBudget` keeps the pid counter within `MaxPid`.

Fairness: each CPU's scheduler loop and each process's kernel steps are weakly
fair (the kernel does not stop), the timer's yield of a process in user mode
is strongly fair (the timer fires every tick but the process leaves user mode
for system calls), and a killed process in user mode is strongly fair to
exit. `LockFairness` adds strong fairness on kernel steps (a lock that is
free again and again is eventually taken); it is used only where a
counterexample must not rest on spinlock starvation.

### Runs

| Run | Checks | Result |
|---|---|---|
| `proc_safety` (`MCProc.cfg`) | under `FairSpec`: `TypeOK`, `RunningOnOneCpu`, `NoLostWakeup`, `ParentAlive`, `SlotIdentity`, `RefinesLifecycle` (`Proc` implements `Lifecycle`) | pass, ~71k states, 15 s |
| `proc_live` (`MCProcLive.cfg`) | `RunnableRuns` under `FairSpec` | pass, ~71k states, 2 min (no symmetry: it is unsound with liveness) |
| `proc_wait_returns` (`MCProcWait.cfg`) | `WaitReturns` under `FairSpec` | pass, ~71k states, 2 min |
| `proc_kill_wait` (`MCProcKill.cfg`) | `KilledExits` under `LockFairSpec` | violation: a kill between wait's `p->killed` test and `sleep()` is lost; the killed process sleeps while its child runs for ever |
| `proc_kill_zero` (`MCProcKillZero.cfg`) | `SlotIdentity` with `kill(0)` allowed | violation: `kill(0)` marks a free slot killed |

Every property of a passing run has a mutant in `PROJECT.json`: an
operator beside the one it replaces (`SchedRunNoRecheck`, `ExitNoWakeParent`,
`SleepAcquireLate`, `ReparentedNone`, `FreeProcKeepKilled`, `AllocNextPastEnd`,
`NextSlotRestart`, `ZombiesAny`, `ZombiesFirstKid`) that TLC shows breaks
the property.

`NoLostWakeup` is checked against two different bugs. `ExitNoWakeParent`
drops `exit`'s `wakeup(p->parent)`. `SleepAcquireLate` makes `sleep`
release `wait_lock` before it holds `p->lock`, the order the comment at
line 864 warns against. In between, the child's `exit` takes `wait_lock`,
finds the parent not yet SLEEPING and wakes nobody; the parent then sleeps
with a ZOMBIE child.

Code-reading note, not a run: `kill(1)` from any process sets init's
`killed` (930-938), and `usertrap` then calls `exit(-1)`, which panics for
initproc (376-377). The spec treats init exiting as something no user action
can cause. In the model `Exit` is guarded by `s # InitSlot`, so a killed
init stays at the user boundary, and a property on init's `killed` flag
would only restate `kill`'s assignment.

`WaitReturns` is the liveness half of the spec's "sleep/wakeup never
loses a wakeup" (spec section 8): a process anywhere in `wait`'s loop that
has a ZOMBIE child eventually returns to user mode. `NoLostWakeup` is the
safety half: it says such a process is never asleep.

The liveness half needs more than the safety half. The woken parent must be
scheduled, its `sleep` must return, and its rescan must take every child's
`p->lock` and find the ZOMBIE.

Under `FairSpec` alone it does not hold. A child that yields for ever holds
its own `p->lock` from each dispatch until `yield` returns, so the parent's
scan is enabled only on and off. TLC finds a fair behaviour in which it is
never taken. xv6's test-and-set spinlocks promise nothing against this.

So the property assumes lock fairness, but only for the waiting process:
`SF_vars(KernelStep(s)) => (... ~> pc[s] = "user")`. The rest of the run
stays under `FairSpec`. Assuming strong fairness for every slot gives the
same result, but its check takes more than five minutes.

The mutant `ZombiesFirstKid` makes the scan look only at the first child.
The parent then sleeps with a ZOMBIE second child while the first one runs
for ever. `NoLostWakeup` uses the scan's own notion of ZOMBIE child, so it
does not catch this; `WaitReturns` is stated on the table itself, and TLC
finds it violated.

### The abstract `Lifecycle` and the refinement

`Lifecycle` is what the process table promises once the locks, the CPUs
and the kernel threads' program counters are hidden. Its variables are
`state`, `pid`, `parent`, `killed` and `nextpid`, and each of its actions is
one atomic step of a slot:

- `Alloc`: UNUSED to USED, with the next pid.
- `Link`: the parent link of an unlinked USED slot.
- `Start`: a linked child becomes RUNNABLE.
- `Abandon`: a failed fork frees an unlinked USED slot.
- `Reap`: the running parent frees a ZOMBIE child.
- `Run`, `Preempt`, `Sleep`: the scheduler, yield and sleep.
- `Kill`: marks a live process killed and wakes it if asleep.
- `Exit`: makes the caller a ZOMBIE, gives its children to init, and wakes
  its parent if asleep. Init may be woken too.

`Proc` defines `Life == INSTANCE Lifecycle WITH ...`. The mapping is the
identity on the five shared variables, and the rest of `Proc` is hidden.
The property is `RefinesLifecycle == Life!Spec`.

Every concrete step must be one abstract step, or leave the five variables
unchanged. Lock-only steps, `np` moves and `pc` changes are stutters. This
is a check across the whole interleaving: with three slots and two CPUs it
holds. The mutant `ZombiesAny` makes `wait()` lose its `state == ZOMBIE`
test, and the check then fails.

## 4. The `SchedMLFQ` module

`SchedMLFQ` extends `Proc` with the MLFQ build: `level`
(`priority_number`), `timeAdded` (`time_added`), `ticks`, per CPU `pick`
(the scheduler's `toSchedule` between choosing and switching) and per slot
`forkYield` (fork has made the child RUNNABLE and still has to yield).
Proc's `sidx` is the scheduler's round-robin cursor `rr_s`.

The MLFQ scheduler chooses with no lock at all, and after
`acquire(&toSchedule->lock)` it sets RUNNING without testing the state
again, so choosing and switching are two actions:

* `SelectLevel`/`SelectRR`: `UpgradePolicy()` (operators `Aged`,
  `UpgradeLevel`, `UpgradeTime`), then the four level scans (`ScanLevel`, a
  fold over `proc[]` that keeps `minimum_time` with 0 meaning "none yet"),
  then, if no level scan ended with a non-zero `minimum_time`, the
  round-robin tail from `rr_s`. That tail takes a RUNNABLE slot of any
  level. With nothing RUNNABLE the tail spins, which is a stutter.
* `Dispatch`: take the lock, RUNNING, `c->proc`, `time_added = 0`.

The lifecycle steps of `Proc` come with the MLFQ bookkeeping the code does
in them:

* `MLFQAllocFound`: level 0, `time_added = ticks`.
* `MLFQExit`: each process its wakeups make RUNNABLE gets `time_added = ticks`.
* `MLFQForkRun` and `ForkYield`: fork's `yield()` when the parent's level is
  not 0. `yield()` leaves `time_added` at 0.
* `MLFQYield`: the timer's yield re-stamps the process and may demote it one
  level. Demotion is decided in `trap.c` from `no_of_ticks`, so here it is a
  choice.
* `Tick`: `ticks++`, bounded by `MaxTick`.

`kill` does not touch the MLFQ fields, so a process it wakes keeps
`time_added = 0`.

Bounds: 3 slots, `MaxPid` 3, `MaxTick` 2, and `Max_wait` = 0, 1, 1 for
levels 1..3. The code's values are 10, 30, 100; the model keeps their order
and lets aging happen within two ticks.

### Runs

| Run | Checks | Result |
|---|---|---|
| `mlfq_safety` (`MCSchedMLFQ.cfg`, 1 CPU) | `MLFQTypeOK`, `RunningOnOneCpu` | pass, ~551k states |
| `mlfq_two_cpu` (`MCSchedMLFQTwoCpu.cfg`) | `RunningOnOneCpu` on 2 CPUs | violation: both CPUs choose initproc and switch to it, the second once the first's `forkret` has released the lock |
| `mlfq_level_order` (`MCSchedMLFQOrder.cfg`) | `LevelOrder` | violation: a child forked at tick 0 has `time_added` 0 and is skipped by the level-0 scan; its demoted parent is chosen from level 1 |

Liveness (aging bounds starvation) is not checked. With `ticks` bounded,
aging stops at `MaxTick`, so a starvation counterexample would be an
artefact of the bound.

## 5. The `SchedPBS` module

`SchedPBS` extends `Proc` with the PBS build on two CPUs. It adds
`staticPrio`, `timesSched`, `startTime`, `runTime` and `sleepTime` (the
`Static_priority`, `Times_scheduled`, `start_time`, `running_time` and
`sleeping_time` fields) and `ticks`. Each CPU's scan has a position
`scanAt` and a candidate `cand`.

The PBS scheduler takes each `p->lock` in turn and keeps the lock of the best
candidate so far while it takes the later ones. Its scan is therefore one
action per slot:

* `PbsTake`: the slot is RUNNABLE and preferred by `PcbCompare`. It becomes
  the candidate and keeps its lock; the old candidate's lock is released.
* `PbsPass`: the slot is not preferred, and its lock is released.
* `PbsDispatch` / `PbsIdle`: the end of the scan, with or without a
  candidate.

`PSBPriority` and `PcbCompare` are operators, written as in the code. C's
truncating division is `CDiv`; a zero divisor gives -1, which is what
RISC-V's `divw` returns.

The lifecycle steps carry the PBS bookkeeping:

* `PbsAllocFound`: priority 60 and fresh times.
* `PbsWaitSleep`: `sleep()` turns `running_time` into a duration and stamps
  `sleeping_time`.
* `PbsExit`: `exit()`'s wakeups turn `sleeping_time` into a duration.
* `kill` leaves these fields alone.
* `SetPriority` and `SetPrioYield`: `set_priority_i` and its `yield()`.

`proc.c` has no timer preemption for this build, so a process gives up the
CPU only by sleeping, exiting or `set_priority`'s yield.

Code-reading note, not a run: `set_priority_i` yields when
`priority > old_priority` (line 1063), that is, when the process became
less urgent. The spec says the caller yields when the new priority is more
urgent. This is one comparison with no interleaving in it, so it is
recorded here rather than as a property.

Bounds: 3 slots, 2 CPUs (symmetric), `MaxPid` 3, `MaxTick` 1, priorities
{50, 70} around the default 60. `set_priority` is called only while the
caller's `Times_scheduled` is at most `MaxSched` = 1, which bounds the
yields it causes. Deadlock is checked.

### Runs

| Run | Checks | Result |
|---|---|---|
| `pbs_safety` (`MCSchedPBS.cfg`) | `PbsTypeOK`, `RunningOnOneCpu`, `PbsDispatchesInOrder`, deadlock | pass, ~1.1M states, 50 s |
| `pbs_niceness` (`MCSchedPBSNice.cfg`) | `NicenessInRange` | violation: init runs at tick 0, forks, makes its child less urgent, and yields. It is then RUNNABLE with `running_time + sleeping_time = 0`, so `PSBPriority` divides by zero |

`PbsDispatchesInOrder` checks the scan and `PcbCompare` against the spec's
order. That order is lower dynamic priority first, then fewer times
scheduled, then the earlier start (`SpecBefore`).

The scan reads one slot at a time while the other CPU changes slots. So
"the dispatched process is the best RUNNABLE one" is not something the
code promises: a slot woken after the scan passed it is simply missed.
The property therefore uses a history variable `seen`:

* The scan's actions (`Record`) store, for each RUNNABLE slot they read,
  the key that `PcbCompare` looks at (`ScanKey`).
* At a dispatch, the property considers each stored slot that is still
  RUNNABLE with the same key. None of them may come before the process
  switched to.

The property holds only because the candidate's lock is kept, so its key
cannot change mid-scan, and because `PcbCompare` is a strict
lexicographic order. The mutant `PcbCompareMoreRuns` reverses the
`Times_scheduled` tie-break, and TLC finds a dispatch out of order.

## 6. The `SchedFCFS` module

`SchedFCFS` extends `Accounting` (section 7), and through it `Proc`. It
models the FCFS build on two CPUs together with the time accounting that
runs in every build. It adds `startTime` (`start_time`, stamped by
`allocproc` together with `ctime`), and each CPU's scan position and
candidate.

The scan has the same shape as PBS's (`FcfsTake`, `FcfsPass`,
`FcfsDispatch`, `FcfsIdle`). A RUNNABLE slot becomes the candidate if it is
the first one seen, or if it started strictly earlier than the current
candidate. `FcfsTypeOK` also requires that no live slot's `start_time` is
later than `ticks`. FCFS never preempts, so there is no yield: a process leaves the
CPU by sleeping or exiting. The timer only counts ticks and runs
`update_time`. While it does, `TimerCpu`'s scheduler and process are stopped.

Bounds: 3 slots, 2 CPUs, `MaxPid` 3, `MaxTick` 2. There is no symmetry,
because `TimerCpu` is a particular CPU. Two ticks are needed so that a
process can build up `rtime` 2 and its slot can then be reused.

| Run | Checks | Result |
|---|---|---|
| `fcfs_safety` (`MCSchedFCFS.cfg`) | `FcfsTypeOK`, `RunningOnOneCpu`, `CpuTimeOverrunAtMostOne`, `FcfsDispatchesOldest`, deadlock | pass, ~1.0M states, 40 s |

`FcfsDispatchesOldest` is the FCFS counterpart of `PbsDispatchesInOrder`.
It uses the same kind of history variable `seen`, which holds slot, pid and
`start_time`. At a dispatch, no process that the scan read and that is
still RUNNABLE started earlier than the process switched to. None started
at the same tick in an earlier slot either: the spec breaks ties by table
order, and the code's strict `<` is what does that. The mutant
`EarlierOrSame` uses `<=`, and TLC finds two children forked in the same
tick dispatched in the wrong order.

`CpuTimeOverrunAtMostOne` bounds the error that `acct_wait_time` exhibits:
no live process has `rtime` more than one above its lifetime. The lifetime
is `procdump`'s `etime` or `ticks`, less `ctime`. So the reported wait time
is off by at most one tick, and wraps only to `UINT_MAX`. The mutant
`AccAllocFoundKeepRtime` drops `allocproc`'s `rtime = 0`, and a reused slot
then breaks the bound.

## 7. The `Accounting` module

`Accounting` extends `Proc` with `ticks` and with each slot's `ctime`,
`etime` and `rtime`:

- `AccAllocFound`: `allocproc` stamps `ctime = ticks` and zeroes the other two.
- `AccExit`: `exit` stamps `etime = ticks`.
- `UpdateTime`: `update_time` adds a tick to the `rtime` of every RUNNING
  slot. It takes one `p->lock` per step and uses `sweep` as its loop index.
- `WaitxReap`: `waitx` reaps a ZOMBIE child like `wait`, and records in
  `xwtime[s]` the `*wtime` it reports: `etime - ctime - rtime`, computed in
  `uint`. The rest of `waitx` is the same code as `wait`: the scan, the
  copyout failure, the no-children return and the sleep. So it shares
  `WaitCopyoutFail`, `WaitNone`, `WaitBlock` and the retry point
  `pc = "wait"`.

`uint` arithmetic is `Uint(x) == x % 2^UintWidth`. TLC's integers are
32-bit signed, so the cfgs set `UintWidth` to 16. It wraps the same way as
the target's 32 bits: a difference of -1 becomes `UINT_MAX`.

`update_time` is called by `clockintr` in trap.c, right after `ticks++`.
That call is the one part modelled from the spec:

- `Tick` starts a sweep on the CPU `TimerCpu`, and only while that CPU holds
  no spinlock: `acquire` disables interrupts.
- While the sweep runs, that CPU's scheduler and process take no step
  (`Interrupted`).
- The other CPU keeps running.

Bounds: 3 slots, 2 CPUs, `MaxPid` 4, `MaxTick` 2, no `kill`. There is no
symmetry, because `TimerCpu` is a particular CPU.

| Run | Checks | Result |
|---|---|---|
| `acct_wait_time` (`MCAccounting.cfg`) | `WaitxWaitTimeInRange` | violation, 20 states deep |

In the trace, init forks at tick 1 and the child gets `ctime` 1. The child
runs on c2 while c1's timer sweep reaches its slot and charges it a tick.
The child then exits in the same tick. So `rtime` is 1, while
`etime - ctime` is 0. When init reaps the child, `waitx` reports
`wtime` = `UINT_MAX` (4294967295 on the target, 65535 in the model). The
property says that a reported wait time never exceeds `ticks`.

`procdump`'s `ticks - ctime - rtime` for a live process has the same race.
The FCFS run (section 6) shows that the error never exceeds this one tick.

## 8. Not modelled

Page tables, trapframes, kernel stacks, file descriptors and cwd (owned by the
memory and file collaborators), `growproc`, `procdump`, the copy helpers,
interrupt-enable bookkeeping (`noff`, `intena`: `sched()`'s checks hold by
construction of the actions), exit status values (`xstate` carries no
control), sleeps on channels other than a proc.

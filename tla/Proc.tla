-------------------------------- MODULE Proc --------------------------------
(***************************************************************************)
(* The process table of src/kernel/proc.c under the DEFAULT scheduler:    *)
(* allocproc/freeproc, fork, exit with reparent, wait with sleep/wakeup   *)
(* on wait_lock, kill, yield/sched and the per-CPU round-robin scheduler, *)
(* on a set of CPUs that interleave.                                      *)
(*                                                                         *)
(* Spinlocks are held by CPUs, as in xv6 (holding() compares with the     *)
(* current CPU): lk[p] and waitLock are a CPU or NoCPU.  A step that runs *)
(* entirely under a lock is one action; a lock that is held across steps  *)
(* (the scheduler's p->lock handed to the process it switches to, the     *)
(* slot that allocproc returns locked, wait_lock between the scan and     *)
(* sleep) is held in the model across those actions.                      *)
(***************************************************************************)
EXTENDS Naturals, FiniteSets, FiniteSetsExt, Functions

CONSTANTS
    NPROC,     \* size of the process table proc[NPROC]
    CPUs,      \* the CPUs, each running scheduler()
    NoCPU,     \* a lock that no CPU holds
    MaxPid,    \* bound on allocpid(): nextpid never exceeds MaxPid + 1
    KillPids   \* the pids a user process may pass to kill()

ASSUME /\ NPROC \in Nat \ {0}
       /\ CPUs # {} /\ NoCPU \notin CPUs
       /\ MaxPid \in Nat
       /\ KillPids \subseteq 0..MaxPid

Slots == 1..NPROC
\* userinit()'s allocproc() takes the first UNUSED slot, so initproc is slot 1
InitSlot == 1

VARIABLES
    state,     \* p->state
    pid,       \* p->pid (0 in a free slot)
    parent,    \* p->parent, a slot or 0 for NULL
    killed,    \* p->killed
    chan,      \* p->chan: the slot slept on (wait sleeps on its own proc), or 0
    lk,        \* p->lock: the CPU holding it, or NoCPU
    waitLock,  \* wait_lock
    nextpid,   \* nextpid (guarded by pid_lock)
    cproc,     \* c->proc for each CPU: the slot it runs, 0 while in scheduler()
    sidx,      \* the slot each CPU's scheduler loop is at
    pc,        \* where each slot's kernel thread is, or resumes after swtch
    np         \* fork's np: allocproc's scan index, then the child slot

procVars == <<state, pid, parent, killed, chan>>
vars == <<state, pid, parent, killed, chan, lk, waitLock, nextpid,
          cproc, sidx, pc, np>>

States == {"UNUSED", "USED", "SLEEPING", "RUNNABLE", "RUNNING", "ZOMBIE"}
Live == States \ {"UNUSED"}
PCs == {"forkret", "user", "yield_resume", "fork_alloc", "fork_copy",
        "fork_link", "fork_run", "wait", "wait_sleep", "sleep_locked",
        "wait_resume",
        "zombie", "setprio_yield"}

TypeOK ==
    /\ state \in [Slots -> States]
    /\ pid \in [Slots -> 0..MaxPid]
    /\ parent \in [Slots -> 0..NPROC]
    /\ killed \in [Slots -> BOOLEAN]
    /\ chan \in [Slots -> 0..NPROC]
    /\ lk \in [Slots -> CPUs \cup {NoCPU}]
    /\ waitLock \in CPUs \cup {NoCPU}
    /\ nextpid \in 2..MaxPid + 1
    /\ cproc \in [CPUs -> 0..NPROC]
    /\ sidx \in [CPUs -> Slots]
    /\ pc \in [Slots -> PCs]
    /\ np \in [Slots -> Slots]

-----------------------------------------------------------------------------
(* State after procinit() and userinit(): initproc RUNNABLE in slot 1,    *)
(* its context returning to forkret, every CPU about to enter scheduler().*)
Init ==
    /\ state = [s \in Slots |-> IF s = InitSlot THEN "RUNNABLE" ELSE "UNUSED"]
    /\ pid = [s \in Slots |-> IF s = InitSlot THEN 1 ELSE 0]
    /\ parent = [s \in Slots |-> 0]
    /\ killed = [s \in Slots |-> FALSE]
    /\ chan = [s \in Slots |-> 0]
    /\ lk = [s \in Slots |-> NoCPU]
    /\ waitLock = NoCPU
    /\ nextpid = 2
    /\ cproc = [c \in CPUs |-> 0]
    /\ sidx = [c \in CPUs |-> 1]
    /\ pc = [s \in Slots |-> "forkret"]
    /\ np = [s \in Slots |-> 1]

\* myproc() is s on some CPU
OnCpu(s) == \E c \in CPUs : cproc[c] = s
CpuOf(s) == CHOOSE c \in CPUs : cproc[c] = s

\* fault model: the scheduler loop restarts at proc[0] every time
NextSlotRestart(i) == 1

\* the scheduler's for loop over proc[], restarted by its for(;;)
NextSlot(i) == IF i = NPROC THEN 1 ELSE i + 1

\* sched(): swtch to the scheduler of c, which sets c->proc = 0, releases
\* p->lock and goes on with its loop.
ToScheduler(c) == cproc' = [cproc EXCEPT ![c] = 0]

\* wakeup(x) called by self: every other slot SLEEPING on x becomes RUNNABLE.
\* The slots it changes are SLEEPING, whose p->lock is free between steps.
Wakeup(st, x, self) ==
    [q \in Slots |-> IF q # self /\ st[q] = "SLEEPING" /\ chan[q] = x
                     THEN "RUNNABLE" ELSE st[q]]

\* fault model: freeproc() does not clear p->killed
FreeProcKeepKilled(q) ==
    /\ state' = [state EXCEPT ![q] = "UNUSED"]
    /\ pid' = [pid EXCEPT ![q] = 0]
    /\ parent' = [parent EXCEPT ![q] = 0]
    /\ chan' = [chan EXCEPT ![q] = 0]
    /\ UNCHANGED killed

\* freeproc(q): the slot becomes UNUSED and forgets its identity.
FreeProc(q) ==
    /\ state' = [state EXCEPT ![q] = "UNUSED"]
    /\ pid' = [pid EXCEPT ![q] = 0]
    /\ parent' = [parent EXCEPT ![q] = 0]
    /\ chan' = [chan EXCEPT ![q] = 0]
    /\ killed' = [killed EXCEPT ![q] = FALSE]

Kids(s) == {q \in Slots : parent[q] = s}

-----------------------------------------------------------------------------
\* fault model: a slot chosen as RUNNABLE is switched to without
\* re-checking its state under p->lock (it may be RUNNING elsewhere)
SchedRunNoRecheck(c) ==
    /\ cproc[c] = 0
    /\ lk[sidx[c]] = NoCPU
    /\ state[sidx[c]] \in {"RUNNABLE", "RUNNING"}
    /\ state' = [state EXCEPT ![sidx[c]] = "RUNNING"]
    /\ cproc' = [cproc EXCEPT ![c] = sidx[c]]
    /\ lk' = [lk EXCEPT ![sidx[c]] = c]
    /\ UNCHANGED <<pid, parent, killed, chan, waitLock, nextpid, sidx, pc, np>>

(* scheduler() (DEFAULT): acquire the slot's lock; if RUNNABLE, switch to *)
(* it holding the lock, else release it; either way the loop then goes on *)
(* to the next slot (for a switch, once the process comes back: nothing   *)
(* reads the index meanwhile, so it is advanced here).                    *)
SchedRun(c) ==
    /\ cproc[c] = 0
    /\ lk[sidx[c]] = NoCPU
    /\ state[sidx[c]] = "RUNNABLE"
    /\ state' = [state EXCEPT ![sidx[c]] = "RUNNING"]
    /\ cproc' = [cproc EXCEPT ![c] = sidx[c]]
    /\ lk' = [lk EXCEPT ![sidx[c]] = c]
    /\ sidx' = [sidx EXCEPT ![c] = NextSlot(sidx[c])]
    /\ UNCHANGED <<pid, parent, killed, chan, waitLock, nextpid, pc, np>>

SchedSkip(c) ==
    /\ cproc[c] = 0
    /\ lk[sidx[c]] = NoCPU
    /\ state[sidx[c]] # "RUNNABLE"
    /\ sidx' = [sidx EXCEPT ![c] = NextSlot(sidx[c])]
    /\ UNCHANGED <<procVars, lk, waitLock, nextpid, cproc, pc, np>>

(* forkret(): release the p->lock the scheduler still holds, go to user.  *)
ForkRet(s) ==
    /\ pc[s] = "forkret" /\ OnCpu(s)
    /\ lk' = [lk EXCEPT ![s] = NoCPU]
    /\ pc' = [pc EXCEPT ![s] = "user"]
    /\ UNCHANGED <<procVars, waitLock, nextpid, cproc, sidx, np>>

(* yield(): acquire p->lock, RUNNABLE, sched().                          *)
YieldStep(s) ==
    /\ lk[s] = NoCPU
    /\ state' = [state EXCEPT ![s] = "RUNNABLE"]
    /\ ToScheduler(CpuOf(s))
    /\ pc' = [pc EXCEPT ![s] = "yield_resume"]
    /\ UNCHANGED <<pid, parent, killed, chan, lk, waitLock, nextpid, np, sidx>>

(* The timer interrupt in user mode calls yield().                        *)
Yield(s) ==
    /\ pc[s] = "user" /\ OnCpu(s) /\ ~killed[s]
    /\ YieldStep(s)

(* yield() after sched() returns: release p->lock.                        *)
YieldResume(s) ==
    /\ pc[s] = "yield_resume" /\ OnCpu(s)
    /\ lk' = [lk EXCEPT ![s] = NoCPU]
    /\ pc' = [pc EXCEPT ![s] = "user"]
    /\ UNCHANGED <<procVars, waitLock, nextpid, cproc, sidx, np>>

(* kill(k): the first slot whose pid is k gets killed set and, if         *)
(* SLEEPING, is made RUNNABLE.  A kill that matches no slot changes       *)
(* nothing and is left out.                                               *)
Kill(s, k) ==
    /\ pc[s] = "user" /\ OnCpu(s) /\ ~killed[s]
    /\ \E q \in Slots : pid[q] = k
    /\ LET q == Min({r \in Slots : pid[r] = k}) IN
         /\ lk[q] = NoCPU
         /\ killed' = [killed EXCEPT ![q] = TRUE]
         /\ state' = [state EXCEPT ![q] = IF @ = "SLEEPING" THEN "RUNNABLE" ELSE @]
    /\ UNCHANGED <<pid, parent, chan, lk, waitLock, nextpid, cproc, sidx, pc, np>>
-----------------------------------------------------------------------------
(* fork(), part 1: entering the syscall.  The bound keeps every pid that  *)
(* the forks under way will take within MaxPid.                           *)
PidBudget == nextpid + Cardinality({q \in Slots : pc[q] = "fork_alloc"}) <= MaxPid

ForkStart(s) ==
    /\ pc[s] = "user" /\ OnCpu(s) /\ ~killed[s]
    /\ PidBudget
    /\ pc' = [pc EXCEPT ![s] = "fork_alloc"]
    /\ np' = [np EXCEPT ![s] = 1]
    /\ UNCHANGED <<procVars, lk, waitLock, nextpid, cproc, sidx>>

(* allocproc(): acquire slot np[s]; if UNUSED take a pid, mark it USED,   *)
(* point its context at forkret and return it still locked.               *)
AllocFound(s) ==
    /\ pc[s] = "fork_alloc" /\ OnCpu(s)
    /\ LET i == np[s] IN
         /\ lk[i] = NoCPU
         /\ state[i] = "UNUSED"
         /\ lk' = [lk EXCEPT ![i] = CpuOf(s)]
         /\ pid' = [pid EXCEPT ![i] = nextpid]
         /\ nextpid' = nextpid + 1
         /\ state' = [state EXCEPT ![i] = "USED"]
         /\ pc' = [pc EXCEPT ![i] = "forkret", ![s] = "fork_copy"]
    /\ UNCHANGED <<parent, killed, chan, waitLock, cproc, sidx, np>>

\* fault model: allocproc's loop bound off by one (p <= &proc[NPROC])
AllocNextPastEnd(s) ==
    /\ pc[s] = "fork_alloc" /\ OnCpu(s)
    /\ lk[np[s]] = NoCPU
    /\ state[np[s]] # "UNUSED"
    /\ np' = [np EXCEPT ![s] = @ + 1]
    /\ UNCHANGED <<procVars, lk, waitLock, nextpid, cproc, sidx, pc>>

(* allocproc(): the slot is in use, release it and try the next one; at  *)
(* the end of the table allocproc returns 0 and fork returns -1.          *)
AllocNext(s) ==
    /\ pc[s] = "fork_alloc" /\ OnCpu(s)
    /\ lk[np[s]] = NoCPU
    /\ state[np[s]] # "UNUSED"
    /\ IF np[s] < NPROC
         THEN /\ np' = [np EXCEPT ![s] = @ + 1]
              /\ UNCHANGED pc
         ELSE /\ pc' = [pc EXCEPT ![s] = "user"]
              /\ UNCHANGED np
    /\ UNCHANGED <<procVars, lk, waitLock, nextpid, cproc, sidx>>

(* The trapframe kalloc, proc_pagetable or uvmcopy fails: freeproc(np),   *)
(* release np->lock, return -1.  The pid stays consumed.                  *)
ForkFail(s) ==
    /\ pc[s] = "fork_copy" /\ OnCpu(s)
    /\ FreeProc(np[s])
    /\ lk' = [lk EXCEPT ![np[s]] = NoCPU]
    /\ pc' = [pc EXCEPT ![s] = "user"]
    /\ UNCHANGED <<waitLock, nextpid, cproc, sidx, np>>

(* Memory, trapframe, files and name copied; release np->lock.            *)
ForkCopy(s) ==
    /\ pc[s] = "fork_copy" /\ OnCpu(s)
    /\ lk' = [lk EXCEPT ![np[s]] = NoCPU]
    /\ pc' = [pc EXCEPT ![s] = "fork_link"]
    /\ UNCHANGED <<procVars, waitLock, nextpid, cproc, sidx, np>>

(* acquire(&wait_lock); np->parent = p; release(&wait_lock)               *)
ForkLink(s) ==
    /\ pc[s] = "fork_link" /\ OnCpu(s)
    /\ waitLock = NoCPU
    /\ parent' = [parent EXCEPT ![np[s]] = s]
    /\ pc' = [pc EXCEPT ![s] = "fork_run"]
    /\ UNCHANGED <<state, pid, killed, chan, lk, waitLock, nextpid, cproc, sidx, np>>

(* acquire(&np->lock); np->state = RUNNABLE; release; return pid          *)
ForkRun(s) ==
    /\ pc[s] = "fork_run" /\ OnCpu(s)
    /\ lk[np[s]] = NoCPU
    /\ state' = [state EXCEPT ![np[s]] = "RUNNABLE"]
    /\ pc' = [pc EXCEPT ![s] = "user"]
    /\ UNCHANGED <<pid, parent, killed, chan, lk, waitLock, nextpid, cproc, sidx, np>>

-----------------------------------------------------------------------------
(* exit(): under wait_lock give the children to init (reparent, waking    *)
(* init), wake the parent, then under p->lock become ZOMBIE, release      *)
(* wait_lock and sched() for good.  Init never gets here: exit() panics   *)
(* for initproc, and init's program never calls exit.  A killed process   *)
(* in user mode has no other step (usertrap calls exit(-1)).              *)
\* fault model: exit() does not hand its children to init
ReparentedNone(s) == parent

Reparented(s) == [q \in Slots |-> IF parent[q] = s THEN InitSlot ELSE parent[q]]

(* wakeup() acquires each other slot's p->lock before it tests the slot:  *)
(* exit()'s wakeups of init and of the parent wait for those two locks.   *)
WakeLocksFree(s) ==
    \A q \in {parent[s]} \cup (IF Kids(s) # {} THEN {InitSlot} ELSE {}) :
        lk[q] = NoCPU

\* fault model: exit() forgets wakeup(p->parent)
ExitNoWakeParent(s) ==
    /\ pc[s] = "user" /\ OnCpu(s)
    /\ s # InitSlot
    /\ waitLock = NoCPU
    /\ lk[s] = NoCPU
    /\ WakeLocksFree(s)
    /\ LET st1 == IF Kids(s) # {} THEN Wakeup(state, InitSlot, s) ELSE state
       IN  state' = [st1 EXCEPT ![s] = "ZOMBIE"]
    /\ parent' = Reparented(s)
    /\ ToScheduler(CpuOf(s))
    /\ pc' = [pc EXCEPT ![s] = "zombie"]
    /\ UNCHANGED <<pid, killed, chan, lk, waitLock, nextpid, np, sidx>>

Exit(s) ==
    /\ pc[s] = "user" /\ OnCpu(s)
    /\ s # InitSlot
    /\ waitLock = NoCPU
    /\ lk[s] = NoCPU
    /\ WakeLocksFree(s)
    /\ LET st1 == IF Kids(s) # {} THEN Wakeup(state, InitSlot, s) ELSE state
           st2 == Wakeup(st1, parent[s], s)
       IN  state' = [st2 EXCEPT ![s] = "ZOMBIE"]
    /\ parent' = Reparented(s)
    /\ ToScheduler(CpuOf(s))
    /\ pc' = [pc EXCEPT ![s] = "zombie"]
    /\ UNCHANGED <<pid, killed, chan, lk, waitLock, nextpid, np, sidx>>

-----------------------------------------------------------------------------
(* wait(): acquire wait_lock and scan for children; each child's p->lock  *)
(* is acquired in turn (the step waits for all to be free).  Entered from *)
(* the syscall or, after a wakeup, from the retry of its for(;;).         *)
WaitEnter(s) ==
    /\ OnCpu(s)
    /\ \/ pc[s] = "user" /\ ~killed[s]
       \/ pc[s] = "wait"
    /\ waitLock = NoCPU
    /\ \A q \in Kids(s) : lk[q] = NoCPU

\* fault model: wait() takes any child without the np->state == ZOMBIE test
ZombiesAny(s) == Kids(s)

\* fault model: the scan looks only at the first child it meets
ZombiesFirstKid(s) ==
    {q \in Kids(s) : state[q] = "ZOMBIE" /\ \A r \in Kids(s) : q <= r}

Zombies(s) == {q \in Kids(s) : state[q] = "ZOMBIE"}

\* found the first ZOMBIE child: copyout xstate, freeproc, return its pid
WaitReap(s) ==
    /\ WaitEnter(s)
    /\ Zombies(s) # {}
    /\ FreeProc(Min(Zombies(s)))
    /\ pc' = [pc EXCEPT ![s] = "user"]
    /\ UNCHANGED <<lk, waitLock, nextpid, cproc, sidx, np>>

\* copyout of xstate to a bad user address fails: return -1, child kept
WaitCopyoutFail(s) ==
    /\ WaitEnter(s)
    /\ Zombies(s) # {}
    /\ pc' = [pc EXCEPT ![s] = "user"]
    /\ UNCHANGED <<procVars, lk, waitLock, nextpid, cproc, sidx, np>>

\* if(!havekids || p->killed) return -1
WaitNone(s) ==
    /\ WaitEnter(s)
    /\ Zombies(s) = {}
    /\ Kids(s) = {} \/ killed[s]
    /\ pc' = [pc EXCEPT ![s] = "user"]
    /\ UNCHANGED <<procVars, lk, waitLock, nextpid, cproc, sidx, np>>

\* children, none exited: keep wait_lock and call sleep(p, &wait_lock)
WaitBlock(s) ==
    /\ WaitEnter(s)
    /\ Zombies(s) = {}
    /\ Kids(s) # {} /\ ~killed[s]
    /\ waitLock' = CpuOf(s)
    /\ pc' = [pc EXCEPT ![s] = "wait_sleep"]
    /\ UNCHANGED <<procVars, lk, nextpid, cproc, sidx, np>>

\* fault model: sleep() releases wait_lock before it holds p->lock
SleepAcquireLate(s) ==
    /\ pc[s] = "wait_sleep" /\ OnCpu(s)
    /\ waitLock' = NoCPU
    /\ pc' = [pc EXCEPT ![s] = "sleep_locked"]
    /\ UNCHANGED <<procVars, lk, nextpid, cproc, sidx, np>>

\* sleep(p, &wait_lock): acquire(&p->lock), still holding wait_lock
SleepAcquire(s) ==
    /\ pc[s] = "wait_sleep" /\ OnCpu(s)
    /\ lk[s] = NoCPU
    /\ lk' = [lk EXCEPT ![s] = CpuOf(s)]
    /\ pc' = [pc EXCEPT ![s] = "sleep_locked"]
    /\ UNCHANGED <<procVars, waitLock, nextpid, cproc, sidx, np>>

(* then release(&wait_lock), set chan and SLEEPING, sched(); the          *)
(* scheduler releases p->lock.                                            *)
WaitSleep(s) ==
    /\ pc[s] = "sleep_locked" /\ OnCpu(s)
    /\ waitLock' = NoCPU
    /\ chan' = [chan EXCEPT ![s] = s]
    /\ state' = [state EXCEPT ![s] = "SLEEPING"]
    /\ lk' = [lk EXCEPT ![s] = NoCPU]
    /\ ToScheduler(CpuOf(s))
    /\ pc' = [pc EXCEPT ![s] = "wait_resume"]
    /\ UNCHANGED <<pid, parent, killed, nextpid, np, sidx>>

(* sleep() after sched() returns: chan = 0, release p->lock; wait() then  *)
(* reacquires wait_lock and scans again.                                  *)
SleepResume(s) ==
    /\ pc[s] = "wait_resume" /\ OnCpu(s)
    /\ chan' = [chan EXCEPT ![s] = 0]
    /\ lk' = [lk EXCEPT ![s] = NoCPU]
    /\ pc' = [pc EXCEPT ![s] = "wait"]
    /\ UNCHANGED <<state, pid, parent, killed, waitLock, nextpid, cproc, sidx, np>>

-----------------------------------------------------------------------------
Sched(c) == SchedRun(c) \/ SchedSkip(c)

\* the steps a slot's kernel thread takes without a choice of the user
KernelStep(s) ==
    \/ ForkRet(s) \/ YieldResume(s)
    \/ AllocFound(s) \/ AllocNext(s) \/ ForkFail(s) \/ ForkCopy(s)
    \/ ForkLink(s) \/ ForkRun(s)
    \/ (pc[s] = "wait" /\ (WaitReap(s) \/ WaitCopyoutFail(s) \/ WaitNone(s) \/ WaitBlock(s)))
    \/ SleepAcquire(s) \/ WaitSleep(s) \/ SleepResume(s)

\* the system calls a process in user mode makes, and the timer's yield
UserStep(s) ==
    \/ Yield(s) \/ ForkStart(s) \/ Exit(s)
    \/ (pc[s] = "user" /\ (WaitReap(s) \/ WaitCopyoutFail(s) \/ WaitNone(s) \/ WaitBlock(s)))
    \/ \E k \in KillPids : Kill(s, k)

Next ==
    \/ \E c \in CPUs : Sched(c)
    \/ \E s \in Slots : KernelStep(s) \/ UserStep(s)

(* Every CPU keeps running scheduler(); kernel code that is not blocked   *)
(* goes on; the timer interrupt eventually preempts a process in user     *)
(* mode (strongly fair: the process leaves user mode for system calls);  *)
(* a killed process is made to exit at the user boundary.  Spinlocks are  *)
(* not fair, so kernel steps get only weak fairness here.                 *)
Fairness ==
    /\ \A c \in CPUs : WF_vars(Sched(c))
    /\ \A s \in Slots : WF_vars(KernelStep(s))
    /\ \A s \in Slots : SF_vars(Yield(s))
    /\ \A s \in Slots : SF_vars(killed[s] /\ Exit(s))

(* As Fairness, but a kernel step waiting for a lock that is free again   *)
(* and again does get it: no behaviour of this spec blocks on lock        *)
(* starvation, which spinlocks do not prevent but which is not the point. *)
LockFairness ==
    /\ Fairness
    /\ \A s \in Slots : SF_vars(KernelStep(s))

Spec == Init /\ [][Next]_vars
FairSpec == Spec /\ Fairness
LockFairSpec == Spec /\ LockFairness
-----------------------------------------------------------------------------
(* Properties                                                             *)

(* A slot is RUNNING exactly when one CPU's c->proc is that slot: the     *)
(* scheduler re-checks RUNNABLE under p->lock, and every sched() caller   *)
(* changes the state before switching away, so no process runs on two    *)
(* CPUs and no CPU runs a process that is not RUNNING.                    *)
RunningOnOneCpu ==
    /\ \A s \in Slots :
         state[s] = "RUNNING" <=> Cardinality({c \in CPUs : cproc[c] = s}) = 1
    /\ \A c \in CPUs : cproc[c] # 0 => state[cproc[c]] = "RUNNING"

(* No lost wakeup in wait()/exit(): a process asleep in wait() never has  *)
(* a ZOMBIE child.  wait() holds wait_lock from its scan until sleep()    *)
(* holds p->lock, and exit() wakes the parent (and init, for the orphans  *)
(* reparent() hands it) under wait_lock before it becomes ZOMBIE.         *)
NoLostWakeup ==
    \A s \in Slots : state[s] = "SLEEPING" /\ chan[s] = s => Zombies(s) = {}

(* Every process other than init that has been made runnable has a live,  *)
(* non-exited parent that can reap it: exit() reparents the children to   *)
(* init before it becomes ZOMBIE, and a slot is freed only after exit.    *)
ParentAlive ==
    \A q \in Slots \ {InitSlot} :
        state[q] \in {"RUNNABLE", "RUNNING", "SLEEPING", "ZOMBIE"} =>
            /\ parent[q] \in Slots
            /\ state[parent[q]] \in {"RUNNABLE", "RUNNING", "SLEEPING"}

(* Live processes have distinct pids taken from nextpid, and a free slot  *)
(* keeps nothing of its last process (pid, parent, channel, kill flag)    *)
(* that the next process allocproc() puts there would inherit.            *)
SlotIdentity ==
    /\ \A p, q \in Slots :
         p # q /\ state[p] \in Live /\ state[q] \in Live => pid[p] # pid[q]
    /\ \A q \in Slots : state[q] \in Live => pid[q] \in 1..nextpid - 1
    /\ \A q \in Slots :
         state[q] = "UNUSED" =>
            pid[q] = 0 /\ parent[q] = 0 /\ chan[q] = 0 /\ ~killed[q]

(* Under the round-robin scheduler and timer preemption, every RUNNABLE   *)
(* process is eventually run.                                             *)
RunnableRuns ==
    \A s \in Slots : state[s] = "RUNNABLE" ~> state[s] = "RUNNING"

\* a process between wait()'s acquire(&wait_lock) and its return
InWait(s) == pc[s] \in {"wait", "wait_sleep", "sleep_locked", "wait_resume"}

(* wait() does not hang on an exited child (spec 8: a sleeper always     *)
(* eventually observes the wakeup): a process in wait()'s loop that has  *)
(* a ZOMBIE child eventually returns, provided its kernel steps get a   *)
(* p->lock that is free again and again (LockFairness's strong fairness). *)
(* exit() wakes it under wait_lock, the scheduler runs it, sleep() gives  *)
(* back p->lock, and the rescan must take every child's lock and find the *)
(* ZOMBIE.  Weak fairness alone is not enough: a child that yields for    *)
(* ever holds its own lock again and again, and can starve the scan.      *)
WaitReturns ==
    \A s \in Slots :
        SF_vars(KernelStep(s)) =>
            (InWait(s) /\ (\E q \in Slots : parent[q] = s /\ state[q] = "ZOMBIE")
                ~> pc[s] = "user")

(* kill() is observed: a killed process other than init eventually exits. *)
KilledExits ==
    \A s \in Slots \ {InitSlot} :
        killed[s] /\ state[s] \in Live ~> state[s] \in {"ZOMBIE", "UNUSED"}

(* The lifecycle the process table promises (module Lifecycle), seen with *)
(* the locks, CPUs and kernel program counters hidden.  Every step of the *)
(* interleaved, lock-by-lock code is a step of it or leaves the process   *)
(* table as it was: no slot skips an edge of the lifecycle, wait() frees  *)
(* only a ZOMBIE child of the running caller, fork() makes its child     *)
(* RUNNABLE only once linked, and a failed fork frees an unlinked slot.   *)
Life == INSTANCE Lifecycle WITH NPROC <- NPROC, InitSlot <- InitSlot,
            state <- state, pid <- pid, parent <- parent, killed <- killed,
            nextpid <- nextpid

RefinesLifecycle == Life!Spec
=============================================================================

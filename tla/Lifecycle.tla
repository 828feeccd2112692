------------------------------ MODULE Lifecycle ------------------------------
(***************************************************************************)
(* What the process table of src/kernel/proc.c promises, with the locks,  *)
(* the CPUs and the kernel threads' program counters hidden: each slot    *)
(* moves along the edges of the process lifecycle in single atomic steps, *)
(* a pid is handed out once, the parent link is set only while the child  *)
(* is being created and changes afterwards only when the parent exits,   *)
(* and a slot is freed only by a failed fork or by its running parent     *)
(* reaping it as a ZOMBIE.                                                *)
(***************************************************************************)
EXTENDS Naturals

CONSTANTS NPROC, InitSlot

Slots == 1..NPROC

VARIABLES
    state,     \* p->state
    pid,       \* p->pid
    parent,    \* p->parent, a slot or 0
    killed,    \* p->killed
    nextpid    \* nextpid

lifeVars == <<state, pid, parent, killed, nextpid>>

Init ==
    /\ state = [s \in Slots |-> IF s = InitSlot THEN "RUNNABLE" ELSE "UNUSED"]
    /\ pid = [s \in Slots |-> IF s = InitSlot THEN 1 ELSE 0]
    /\ parent = [s \in Slots |-> 0]
    /\ killed = [s \in Slots |-> FALSE]
    /\ nextpid = 2

\* the running process s that makes a system call
Caller(s) == state[s] = "RUNNING"

(* allocproc(): an UNUSED slot becomes USED with the next pid.            *)
Alloc(s, i) ==
    /\ Caller(s) /\ state[i] = "UNUSED"
    /\ state' = [state EXCEPT ![i] = "USED"]
    /\ pid' = [pid EXCEPT ![i] = nextpid]
    /\ nextpid' = nextpid + 1
    /\ UNCHANGED <<parent, killed>>

(* fork(): the parent link of the child being created.                    *)
Link(s, i) ==
    /\ Caller(s) /\ state[i] = "USED" /\ parent[i] = 0
    /\ parent' = [parent EXCEPT ![i] = s]
    /\ UNCHANGED <<state, pid, killed, nextpid>>

(* fork(): the linked child becomes RUNNABLE.                             *)
Start(s, i) ==
    /\ Caller(s) /\ state[i] = "USED" /\ parent[i] = s
    /\ state' = [state EXCEPT ![i] = "RUNNABLE"]
    /\ UNCHANGED <<pid, parent, killed, nextpid>>

\* freeproc(): the slot forgets its process
Free(i) ==
    /\ state' = [state EXCEPT ![i] = "UNUSED"]
    /\ pid' = [pid EXCEPT ![i] = 0]
    /\ parent' = [parent EXCEPT ![i] = 0]
    /\ killed' = [killed EXCEPT ![i] = FALSE]
    /\ UNCHANGED nextpid

(* fork() fails after allocproc(): the unlinked USED slot is freed.       *)
Abandon(s, i) ==
    /\ Caller(s) /\ state[i] = "USED" /\ parent[i] = 0
    /\ Free(i)

(* wait(): the running parent frees a ZOMBIE child.                       *)
Reap(s, i) ==
    /\ Caller(s) /\ state[i] = "ZOMBIE" /\ parent[i] = s
    /\ Free(i)

(* scheduler(), yield(), sleep(): RUNNABLE -> RUNNING -> RUNNABLE or      *)
(* SLEEPING.                                                              *)
Run(i) ==
    /\ state[i] = "RUNNABLE"
    /\ state' = [state EXCEPT ![i] = "RUNNING"]
    /\ UNCHANGED <<pid, parent, killed, nextpid>>

Preempt(i) ==
    /\ Caller(i)
    /\ state' = [state EXCEPT ![i] = "RUNNABLE"]
    /\ UNCHANGED <<pid, parent, killed, nextpid>>

Sleep(i) ==
    /\ Caller(i)
    /\ state' = [state EXCEPT ![i] = "SLEEPING"]
    /\ UNCHANGED <<pid, parent, killed, nextpid>>

(* kill(): a live process is marked killed and, if asleep, woken.        *)
Kill(s, i) ==
    /\ Caller(s) /\ state[i] # "UNUSED"
    /\ killed' = [killed EXCEPT ![i] = TRUE]
    /\ state' = [state EXCEPT ![i] = IF @ = "SLEEPING" THEN "RUNNABLE" ELSE @]
    /\ UNCHANGED <<pid, parent, nextpid>>

(* exit(): a running process other than init becomes a ZOMBIE, its       *)
(* children pass to init, and its parent, if asleep (in wait), is woken;  *)
(* init may be woken too.  Nothing else changes.                          *)
Exit(s) ==
    /\ Caller(s) /\ s # InitSlot
    /\ \E W \in SUBSET ({parent[s], InitSlot} \cap Slots) :
         /\ \A w \in W : state[w] = "SLEEPING"
         /\ parent[s] \in Slots /\ state[parent[s]] = "SLEEPING" => parent[s] \in W
         /\ state' = [q \in Slots |-> IF q = s THEN "ZOMBIE"
                                      ELSE IF q \in W THEN "RUNNABLE"
                                      ELSE state[q]]
    /\ parent' = [q \in Slots |-> IF parent[q] = s THEN InitSlot ELSE parent[q]]
    /\ UNCHANGED <<pid, killed, nextpid>>

Next ==
    \/ \E s, i \in Slots :
         Alloc(s, i) \/ Link(s, i) \/ Start(s, i) \/ Abandon(s, i)
         \/ Reap(s, i) \/ Kill(s, i)
    \/ \E i \in Slots : Run(i) \/ Preempt(i) \/ Sleep(i) \/ Exit(i)

Spec == Init /\ [][Next]_lifeVars
=============================================================================

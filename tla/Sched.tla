-------------------------------- MODULE Sched --------------------------------
(***************************************************************************)
(* The scheduler of kernel/proc.c and the tick handling of kernel/trap.c:  *)
(* every CPU scans the process table for the RUNNABLE process with the     *)
(* smallest vruntime, taking each p->lock in table order and keeping the   *)
(* lock of the best one so far; a timer tick charges the running process   *)
(* and makes it yield; wakeup places a sleeper relative to min_vruntime,   *)
(* which it read before it took any lock.                                  *)
(*                                                                         *)
(* p->lock is held across swtch: the process takes it on the way out and   *)
(* the scheduler, on its own stack, releases it.                           *)
(***************************************************************************)
EXTENDS Integers

CONSTANTS
  CPU,         \* the harts
  NoCpu,       \* stands for "no hart"
  NPROC,       \* slots of the process table
  Priorities,  \* the nice values in use
  DefaultPriority,  \* 10
  InitPriority,     \* -5: init is a kernel-class process
  VDelta,      \* VDelta[i]: vruntime charged for a tick at nice value i
  MaxDelta,    \* the largest of them
  Bonus,       \* CFS_WAKEUP_BONUS
  MaxV         \* bound: no tick is charged to a process beyond this vruntime

ASSUME SchedAssumption ==
  /\ NoCpu \notin CPU
  /\ NPROC \in Nat \ {0}
  /\ Priorities \subseteq Int /\ DefaultPriority \in Priorities
  /\ VDelta \in [Priorities -> Nat]
  /\ MaxDelta \in Nat
  /\ \A i \in Priorities : VDelta[i] <= MaxDelta
  /\ Bonus \in Nat
  /\ MaxV \in Nat

ASSUME InitPriorityAssumption == InitPriority \in Priorities

VARIABLES
  state, vruntime, priority,  \* fields of struct proc, by slot
  plock,                      \* the CPU that holds each p->lock
  cfs_min_vruntime,
  cpc,                        \* what each CPU is doing
  pos, best,                  \* the scan: next slot, best slot so far (0: none)
  cur,                        \* the process whose kernel stack the CPU is on
  mvr, back                   \* wakeup: min_vruntime read, where to return to

scan == <<pos, best>>
wake == <<mvr, back>>
vars == <<state, vruntime, priority, plock, cfs_min_vruntime, cpc, scan, cur, wake>>

Slots  == 1 .. NPROC
States == {"UNUSED", "USED", "RUNNABLE", "RUNNING", "SLEEPING", "ZOMBIE"}
OnStack == {"run", "charged", "switch"}

(* After boot: init is RUNNABLE in the first slot, every CPU starts its    *)
(* first scan.                                                             *)
Init ==
  /\ state = [p \in Slots |-> IF p = 1 THEN "RUNNABLE" ELSE "UNUSED"]
  /\ vruntime = [p \in Slots |-> 0]
  /\ priority = [p \in Slots |-> IF p = 1 THEN InitPriority ELSE DefaultPriority]
  /\ plock = [p \in Slots |-> NoCpu]
  /\ cfs_min_vruntime = 0
  /\ cpc = [c \in CPU |-> "scan"]
  /\ pos = [c \in CPU |-> 1]
  /\ best = [c \in CPU |-> 0]
  /\ cur = [c \in CPU |-> 0]
  /\ mvr = [c \in CPU |-> 0]
  /\ back = [c \in CPU |-> "scan"]

Max2(a, b) == IF a >= b THEN a ELSE b

-----------------------------------------------------------------------------
(* scheduler(): acquire(&p->lock) for the next slot of the scan.           *)
ScanAcquire(c) ==
  /\ cpc[c] = "scan"
  /\ pos[c] \in Slots
  /\ plock[pos[c]] = NoCpu
  /\ plock' = [plock EXCEPT ![pos[c]] = c]
  /\ cpc' = [cpc EXCEPT ![c] = "test"]
  /\ UNCHANGED <<state, vruntime, priority, cfs_min_vruntime, scan, cur, wake>>

(* A smaller vruntime is better; a tie on vruntime goes by creation tick,  *)
(* which is left open here.                                                *)
Better(c, p) ==
  /\ state[p] = "RUNNABLE"
  /\ best[c] # 0 => vruntime[p] <= vruntime[best[c]]

(* The slot is better: release the lock of the old best, keep this one.    *)
ScanTake(c) ==
  /\ cpc[c] = "test"
  /\ Better(c, pos[c])
  /\ plock' = [p \in Slots |-> IF p = best[c] THEN NoCpu ELSE plock[p]]
  /\ best' = [best EXCEPT ![c] = pos[c]]
  /\ pos' = [pos EXCEPT ![c] = @ + 1]
  /\ cpc' = [cpc EXCEPT ![c] = "scan"]
  /\ UNCHANGED <<state, vruntime, priority, cfs_min_vruntime, cur, wake>>

(* It is not (or it ties): release its lock.                               *)
ScanSkip(c) ==
  /\ cpc[c] = "test"
  /\ ~ (/\ state[pos[c]] = "RUNNABLE"
        /\ best[c] # 0 => vruntime[pos[c]] < vruntime[best[c]])
  /\ plock' = [plock EXCEPT ![pos[c]] = NoCpu]
  /\ pos' = [pos EXCEPT ![c] = @ + 1]
  /\ cpc' = [cpc EXCEPT ![c] = "scan"]
  /\ UNCHANGED <<state, vruntime, priority, cfs_min_vruntime, best, cur, wake>>

(* Nothing to run: wfi, then scan again.                                   *)
ScanNothing(c) ==
  /\ cpc[c] = "scan"
  /\ pos[c] = NPROC + 1
  /\ best[c] = 0
  /\ pos' = [pos EXCEPT ![c] = 1]
  /\ UNCHANGED <<state, vruntime, priority, plock, cfs_min_vruntime, cpc, best,
                 cur, wake>>

(* Mutant: cfs_advance_min is not called.                                  *)
DispatchNoAdvance(c) ==
  /\ cpc[c] = "scan"
  /\ pos[c] = NPROC + 1
  /\ best[c] # 0
  /\ state' = [state EXCEPT ![best[c]] = "RUNNING"]
  /\ cur' = [cur EXCEPT ![c] = best[c]]
  /\ plock' = [plock EXCEPT ![best[c]] = NoCpu]
  /\ best' = [best EXCEPT ![c] = 0]
  /\ pos' = [pos EXCEPT ![c] = 1]
  /\ cpc' = [cpc EXCEPT ![c] = "run"]
  /\ UNCHANGED <<vruntime, priority, cfs_min_vruntime, wake>>

(* cfs_advance_min, state = RUNNING, swtch; the process, back from its own *)
(* sched(), releases its lock.                                             *)
Dispatch(c) ==
  /\ cpc[c] = "scan"
  /\ pos[c] = NPROC + 1
  /\ best[c] # 0
  /\ cfs_min_vruntime' = Max2(cfs_min_vruntime, vruntime[best[c]])
  /\ state' = [state EXCEPT ![best[c]] = "RUNNING"]
  /\ cur' = [cur EXCEPT ![c] = best[c]]
  /\ plock' = [plock EXCEPT ![best[c]] = NoCpu]
  /\ best' = [best EXCEPT ![c] = 0]
  /\ pos' = [pos EXCEPT ![c] = 1]
  /\ cpc' = [cpc EXCEPT ![c] = "run"]
  /\ UNCHANGED <<vruntime, priority, wake>>

-----------------------------------------------------------------------------
(* usertrap and kerneltrap on a timer tick: charge the running process ... *)
Charge(c) ==
  /\ cpc[c] = "run"
  /\ plock[cur[c]] = NoCpu
  /\ vruntime[cur[c]] < MaxV
  /\ vruntime' = [vruntime EXCEPT ![cur[c]] = @ + VDelta[priority[cur[c]]]]
  /\ cpc' = [cpc EXCEPT ![c] = "charged"]
  /\ UNCHANGED <<state, priority, plock, cfs_min_vruntime, scan, cur, wake>>

(* Give up the CPU: set the state under p->lock and swtch with it held.    *)
GiveUp(c, s) ==
  /\ plock[cur[c]] = NoCpu
  /\ plock' = [plock EXCEPT ![cur[c]] = c]
  /\ state' = [state EXCEPT ![cur[c]] = s]
  /\ cpc' = [cpc EXCEPT ![c] = "switch"]
  /\ UNCHANGED <<vruntime, priority, cfs_min_vruntime, scan, cur, wake>>

(* Mutant: the process lets go of its lock before it switches.             *)
YieldUnlocked(c) ==
  /\ cpc[c] = "charged"
  /\ plock[cur[c]] = NoCpu
  /\ state' = [state EXCEPT ![cur[c]] = "RUNNABLE"]
  /\ cpc' = [cpc EXCEPT ![c] = "switch"]
  /\ UNCHANGED <<vruntime, priority, plock, cfs_min_vruntime, scan, cur, wake>>

(* ... and yield().                                                        *)
Yield(c) == cpc[c] = "charged" /\ GiveUp(c, "RUNNABLE")

(* sleep() of the running process.                                         *)
Sleep(c) == cpc[c] = "run" /\ GiveUp(c, "SLEEPING")

(* The end of kexit(); init never exits.                                   *)
Exit(c) == cpc[c] = "run" /\ cur[c] # 1 /\ GiveUp(c, "ZOMBIE")

(* Back in scheduler(): release(&best->lock).                              *)
SwitchOut(c) ==
  /\ cpc[c] = "switch"
  /\ plock' = [plock EXCEPT ![cur[c]] = NoCpu]
  /\ cur' = [cur EXCEPT ![c] = 0]
  /\ cpc' = [cpc EXCEPT ![c] = "scan"]
  /\ UNCHANGED <<state, vruntime, priority, cfs_min_vruntime, scan, wake>>

-----------------------------------------------------------------------------
(* wakeup(): read min_vruntime, in the running process or in an interrupt  *)
(* that comes while the scheduler has interrupts on ...                    *)
WakeupRead(c) ==
  /\ \/ cpc[c] = "run"
     \/ cpc[c] = "scan" /\ pos[c] = 1
  /\ mvr' = [mvr EXCEPT ![c] = cfs_min_vruntime]
  /\ back' = [back EXCEPT ![c] = cpc[c]]
  /\ cpc' = [cpc EXCEPT ![c] = "wakeup"]
  /\ UNCHANGED <<state, vruntime, priority, plock, cfs_min_vruntime, scan, cur>>

(* max(vruntime, min_vruntime) minus the bonus, at least 0.                *)
Placed(v, m) == IF Max2(v, m) > Bonus THEN Max2(v, m) - Bonus ELSE 0

(* ... then, slot by slot and lock by lock, wake the sleepers.  Which of   *)
(* them sleep on this channel is left open.                                *)
WakeupOne(c, p) ==
  /\ cpc[c] = "wakeup"
  /\ p # cur[c]
  /\ plock[p] = NoCpu
  /\ state[p] = "SLEEPING"
  /\ state' = [state EXCEPT ![p] = "RUNNABLE"]
  /\ vruntime' = [vruntime EXCEPT ![p] = Placed(@, mvr[c])]
  /\ UNCHANGED <<priority, plock, cfs_min_vruntime, cpc, scan, cur, wake>>

WakeupReturn(c) ==
  /\ cpc[c] = "wakeup"
  /\ cpc' = [cpc EXCEPT ![c] = back[c]]
  /\ mvr' = [mvr EXCEPT ![c] = 0]
  /\ back' = [back EXCEPT ![c] = "scan"]
  /\ UNCHANGED <<state, vruntime, priority, plock, cfs_min_vruntime, scan, cur>>

-----------------------------------------------------------------------------
(* kfork: allocproc, then the child inherits the parent's vruntime and its *)
(* priority, reset to a user-class one if it is negative; np->lock is held *)
(* from allocproc to here.                                                 *)
Fork(c, q) ==
  /\ cpc[c] = "run"
  /\ plock[q] = NoCpu
  /\ state[q] = "UNUSED"
  /\ state' = [state EXCEPT ![q] = "USED"]
  /\ vruntime' = [vruntime EXCEPT ![q] = vruntime[cur[c]]]
  /\ priority' = [priority EXCEPT ![q] = IF priority[cur[c]] < 0 THEN DefaultPriority
                                          ELSE priority[cur[c]]]
  /\ UNCHANGED <<plock, cfs_min_vruntime, cpc, scan, cur, wake>>

(* kfork, later: the child becomes RUNNABLE.                               *)
ForkReady(c, q) ==
  /\ cpc[c] = "run"
  /\ plock[q] = NoCpu
  /\ state[q] = "USED"
  /\ state' = [state EXCEPT ![q] = "RUNNABLE"]
  /\ UNCHANGED <<vruntime, priority, plock, cfs_min_vruntime, cpc, scan, cur, wake>>

(* Mutant: kwait frees a zombie without its lock.                          *)
ReapUnlocked(c, q) ==
  /\ cpc[c] = "run"
  /\ state[q] = "ZOMBIE"
  /\ state' = [state EXCEPT ![q] = "UNUSED"]
  /\ vruntime' = [vruntime EXCEPT ![q] = 0]
  /\ UNCHANGED <<priority, plock, cfs_min_vruntime, cpc, scan, cur, wake>>

(* kwait: freeproc of a zombie child, under its lock; the priority of a    *)
(* free slot is never read.                                                *)
Reap(c, q) ==
  /\ cpc[c] = "run"
  /\ plock[q] = NoCpu
  /\ state[q] = "ZOMBIE"
  /\ state' = [state EXCEPT ![q] = "UNUSED"]
  /\ vruntime' = [vruntime EXCEPT ![q] = 0]
  /\ UNCHANGED <<priority, plock, cfs_min_vruntime, cpc, scan, cur, wake>>

(* kkill of a sleeper makes it RUNNABLE where it is: no floor, no bonus.   *)
Kill(c, q) ==
  /\ cpc[c] = "run"
  /\ plock[q] = NoCpu
  /\ state[q] = "SLEEPING"
  /\ state' = [state EXCEPT ![q] = "RUNNABLE"]
  /\ UNCHANGED <<vruntime, priority, plock, cfs_min_vruntime, cpc, scan, cur, wake>>

(* sys_setpriority finds the process under its lock.  Only a kernel-class  *)
(* caller may grant a negative value, or renice a process that has one;    *)
(* that an agent may renice only itself is left out, as is_agent is.       *)
SetPriority(c, q, i) ==
  /\ cpc[c] = "run"
  /\ plock[q] = NoCpu
  /\ state[q] # "UNUSED"
  /\ i < 0 \/ priority[q] < 0 => priority[cur[c]] < 0
  /\ priority[q] # i
  /\ priority' = [priority EXCEPT ![q] = i]
  /\ UNCHANGED <<state, vruntime, plock, cfs_min_vruntime, cpc, scan, cur, wake>>

-----------------------------------------------------------------------------
SchedStep(c) == \/ ScanAcquire(c) \/ ScanTake(c) \/ ScanSkip(c) \/ ScanNothing(c)
                \/ Dispatch(c) \/ Charge(c) \/ Yield(c) \/ Sleep(c) \/ Exit(c)
                \/ SwitchOut(c) \/ WakeupRead(c) \/ WakeupReturn(c)
SlotStep(c, q) == \/ WakeupOne(c, q) \/ ForkReady(c, q) \/ Reap(c, q) \/ Kill(c, q)
                  \/ Fork(c, q) \/ \E i \in Priorities : SetPriority(c, q, i)

Next == \E c \in CPU : SchedStep(c) \/ \E q \in Slots : SlotStep(c, q)

Spec == Init /\ [][Next]_vars

-----------------------------------------------------------------------------
(* Types; a scan position may stand one past the table.                    *)
TypeOK ==
  /\ state \in [Slots -> States]
  /\ vruntime \in [Slots -> Nat]
  /\ priority \in [Slots -> Priorities]
  /\ plock \in [Slots -> CPU \cup {NoCpu}]
  /\ cfs_min_vruntime \in Nat
  /\ cpc \in [CPU -> {"scan", "test", "wakeup"} \cup OnStack]
  /\ pos \in [CPU -> 1 .. NPROC + 1]
  /\ best \in [CPU -> 0 .. NPROC]
  /\ cur \in [CPU -> 0 .. NPROC]
  /\ mvr \in [CPU -> Nat]
  /\ back \in [CPU -> {"scan", "run"}]

(* A process is never on two CPUs: from the swtch into it to the swtch out *)
(* of it, its kernel stack belongs to one CPU, although its state is       *)
(* already RUNNABLE, SLEEPING or ZOMBIE while it switches out.             *)
OneCpuPerStack == \A c1, c2 \in CPU : cur[c1] = cur[c2] /\ cur[c1] # 0 => c1 = c2

(* What the scheduler has chosen is still RUNNABLE when it switches to it, *)
(* and a slot is freed only after its process is off its stack.            *)
ChosenIsRunnable ==
  \A c \in CPU : /\ best[c] # 0 => state[best[c]] = "RUNNABLE"
                 /\ cur[c] # 0 => state[cur[c]] \notin {"UNUSED", "USED"}

(* No process is pushed further into the virtual future than one tick of   *)
(* the weakest priority past min_vruntime: whatever sequence of ticks,     *)
(* forks, renices, sleeps and stale wakeups leads there, a process waits   *)
(* for a bounded advance of min_vruntime only.                             *)
BoundedLead == \A p \in Slots : vruntime[p] <= cfs_min_vruntime + MaxDelta
=============================================================================

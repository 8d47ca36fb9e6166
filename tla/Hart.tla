-------------------------------- MODULE Hart --------------------------------
(***************************************************************************)
(* Interrupts, spinlocks and context switches: push_off() and pop_off()    *)
(* count how many locks a CPU holds and remember whether interrupts were   *)
(* on before the first, a trap may arrive wherever they are on, a timer    *)
(* tick may move the kernel thread it interrupted to another CPU, and the  *)
(* trap vector changes on the way to user space.                           *)
(*                                                                         *)
(* A kernel thread (a process, or a CPU's scheduler) is a stack of frames: *)
(* a system call, and above it a trap taken in the kernel.  One device     *)
(* lock stands for every lock that both system calls and interrupt         *)
(* handlers take (tickslock, tx_lock, cons.lock, disk.vdisk_lock); the     *)
(* locks of the processes are themselves.  Acquiring is the step that ends *)
(* the spin.  Which process runs next is Sched's subject: any may.         *)
(***************************************************************************)
EXTENDS Naturals, Sequences, FiniteSets

CONSTANTS
  Cpu,         \* harts; each also names its scheduler thread
  Thread,      \* processes
  NoOne,       \* no process, no holder
  KSTACK_PAGES \* pages of a kernel stack

Dev == "dev"
Spinlock == Thread \cup {Dev}

ASSUME HartAssumption ==
  Cpu \cap Thread = {} /\ NoOne \notin Cpu \cup Thread /\ Dev \notin Thread

VARIABLES
  cpu,         \* per hart: sie, noff, intena, stvec, proc
  holder,      \* lk->locked and lk->cpu
  frames,      \* per thread: its frames, innermost last
  pstate,      \* p->state
  saved,       \* per process: intena as sched() keeps it on its stack
  kernel_sp,   \* p->trapframe->kernel_sp, as pages above p->kstack
  room         \* pages between the stack pointer at trap entry and the guard

hartVars == <<cpu, holder, frames, pstate, saved, kernel_sp, room>>

FrameOf(kind, pc) == [kind |-> kind, pc |-> pc]

HartInit ==
  /\ cpu = [h \in Cpu |-> [sie |-> FALSE, noff |-> 0, intena |-> FALSE,
                           stvec |-> "kernelvec", proc |-> NoOne]]
  /\ holder = [l \in Spinlock |-> NoOne]
  /\ frames = [t \in Thread \cup Cpu |->
                 IF t \in Thread THEN <<FrameOf("forkret", "woken")>>
                 ELSE <<FrameOf("scheduler", "loop")>>]
  /\ pstate = [p \in Thread |-> "RUNNABLE"]
  /\ saved = [p \in Thread |-> FALSE]
  /\ kernel_sp = [p \in Thread |-> 0]
  /\ room = [p \in Thread |-> KSTACK_PAGES]

\* The thread a hart runs, its innermost frame, and that frame's next place.
RunsOn(h) == IF cpu[h].proc = NoOne THEN h ELSE cpu[h].proc
Top(h) == frames[RunsOn(h)][Len(frames[RunsOn(h)])]
InKernel(h) == frames[RunsOn(h)] # <<>>
InFrame(h, kinds, pc) == InKernel(h) /\ Top(h).kind \in kinds /\ Top(h).pc = pc
Move(h, pc) == frames' = [frames EXCEPT ![RunsOn(h)][Len(frames[RunsOn(h)])].pc = pc]

Handlers == {"utimer", "udev", "ktimer", "kdev"}
Timers == {"utimer", "ktimer"}
Calls == {"syscall", "drain"}      \* may sleep

------------------------------------------------------------------------------
push_off(c) == [c EXCEPT !.intena = IF c.noff = 0 THEN c.sie ELSE @,
                         !.noff = @ + 1, !.sie = FALSE]
pop_off(c) == [c EXCEPT !.noff = @ - 1, !.sie = (c.noff = 1 /\ c.intena)]

acquire(h, l) ==
  /\ holder[l] = NoOne
  /\ holder' = [holder EXCEPT ![l] = h]
  /\ cpu' = [cpu EXCEPT ![h] = push_off(@)]
release(h, l) ==
  /\ holder' = [holder EXCEPT ![l] = NoOne]
  /\ cpu' = [cpu EXCEPT ![h] = pop_off(@)]

\* usertrap() and uservec: a system call, or an interrupt in user mode.
usertrap(h, kind) ==
  /\ ~InKernel(h)
  /\ cpu' = [cpu EXCEPT ![h].sie = FALSE, ![h].stvec = "kernelvec"]
  /\ frames' = [frames EXCEPT ![RunsOn(h)] = <<FrameOf(kind, "in")>>]
  /\ room' = [room EXCEPT ![RunsOn(h)] = kernel_sp[RunsOn(h)]]
  /\ UNCHANGED <<holder, pstate, saved, kernel_sp>>

IntrOn(h) ==
  /\ InFrame(h, {"syscall"}, "in")
  /\ cpu' = [cpu EXCEPT ![h].sie = TRUE]
  /\ Move(h, "body")
  /\ UNCHANGED <<holder, pstate, saved, kernel_sp, room>>

\* kerneltrap() through kernelvec: wherever interrupts are on in the kernel.
kerneltrap(h, kind) ==
  /\ InKernel(h) /\ cpu[h].sie
  /\ cpu' = [cpu EXCEPT ![h].sie = FALSE]
  /\ frames' = [frames EXCEPT ![RunsOn(h)] = Append(@, FrameOf(kind, "in"))]
  /\ UNCHANGED <<holder, pstate, saved, kernel_sp, room>>

\* devintr(): the handler's critical section, and the wakeup() it ends with;
\* a lock taken by a system call, or by agent_drain().
LockDevice(h) ==
  /\ \/ InFrame(h, Handlers \cup {"drain"}, "in") \/ InFrame(h, {"drain"}, "out")
     \/ InFrame(h, {"syscall"}, "body") \/ InFrame(h, {"syscall"}, "relock")
  /\ acquire(h, Dev)
  /\ Move(h, "crit")
  /\ UNCHANGED <<pstate, saved, kernel_sp, room>>

wakeup(h, p) ==
  /\ InFrame(h, Handlers \cup Calls, "crit") /\ RunsOn(h) # p
  /\ holder[p] = NoOne
  /\ pstate[p] = "SLEEPING"
  /\ pstate' = [pstate EXCEPT ![p] = "RUNNABLE"]
  /\ UNCHANGED <<cpu, holder, frames, saved, kernel_sp, room>>

\* A timer tick gives up the CPU, unless it interrupted the scheduler.
UnlockDevice(h) ==
  /\ InFrame(h, Handlers \cup Calls, "crit")
  /\ release(h, Dev)
  /\ Move(h, IF Top(h).kind = "syscall" THEN "body"
             ELSE IF Top(h).kind \in Timers /\ cpu[h].proc # NoOne THEN "yield" ELSE "out")
  /\ UNCHANGED <<pstate, saved, kernel_sp, room>>

yield(h) ==
  /\ InFrame(h, Timers, "yield")
  /\ acquire(h, RunsOn(h))
  /\ pstate' = [pstate EXCEPT ![RunsOn(h)] = "RUNNABLE"]
  /\ Move(h, "sched")
  /\ UNCHANGED <<saved, kernel_sp, room>>

\* sleep(chan, lk): p->lock first, then lk is let go.
SleepLock(h) ==
  /\ InFrame(h, Calls, "crit")
  /\ acquire(h, RunsOn(h))
  /\ Move(h, "drop")
  /\ UNCHANGED <<pstate, saved, kernel_sp, room>>
SleepDrop(h) ==
  /\ InFrame(h, Calls, "drop")
  /\ release(h, Dev)
  /\ pstate' = [pstate EXCEPT ![RunsOn(h)] = "SLEEPING"]
  /\ Move(h, "sched")
  /\ UNCHANGED <<saved, kernel_sp, room>>

\* sched(): intena belongs to the thread, so it is kept on its stack and put
\* back when the thread runs again, on whichever hart that is.
sched(h) ==
  /\ InFrame(h, Timers \cup Calls, "sched")
  /\ saved' = [saved EXCEPT ![RunsOn(h)] = cpu[h].intena]
  /\ Move(h, "woken")
  /\ cpu' = [cpu EXCEPT ![h].proc = NoOne]
  /\ UNCHANGED <<holder, pstate, kernel_sp, room>>

\* The new thread of a fork starts in forkret(), not in sched().
RestoredNot(h, p) == cpu[h].intena                                           \* mutant
Restored(h, p) == IF frames[p][1].kind = "forkret" THEN cpu[h].intena ELSE saved[p]

\* scheduler(): interrupts on for a moment, off again, then a runnable process.
SchedulerOn(h) ==
  /\ InFrame(h, {"scheduler"}, "loop")
  /\ cpu' = [cpu EXCEPT ![h].sie = TRUE]
  /\ Move(h, "open")
  /\ UNCHANGED <<holder, pstate, saved, kernel_sp, room>>
SchedulerOff(h) ==
  /\ InFrame(h, {"scheduler"}, "open")
  /\ cpu' = [cpu EXCEPT ![h].sie = FALSE]
  /\ Move(h, "scan")
  /\ UNCHANGED <<holder, pstate, saved, kernel_sp, room>>
SchedulerPick(h, p) ==
  /\ InFrame(h, {"scheduler"}, "scan")
  /\ pstate[p] = "RUNNABLE"
  /\ acquire(h, p)
  /\ pstate' = [pstate EXCEPT ![p] = "RUNNING"]
  /\ Move(h, "back")
  /\ UNCHANGED <<saved, kernel_sp, room>>
SchedulerIdle(h) ==
  /\ InFrame(h, {"scheduler"}, "scan") /\ \A p \in Thread : pstate[p] # "RUNNABLE"
  /\ Move(h, "loop")
  /\ UNCHANGED <<cpu, holder, pstate, saved, kernel_sp, room>>

\* swtch() to the picked process, which holds its lock on this hart; its
\* return to the scheduler releases it.
SwitchTo(h, p) ==
  /\ InFrame(h, {"scheduler"}, "back") /\ holder[p] = h /\ pstate[p] = "RUNNING"
  /\ cpu' = [cpu EXCEPT ![h].proc = p, ![h].intena = Restored(h, p)]
  /\ UNCHANGED <<holder, frames, pstate, saved, kernel_sp, room>>
SwitchBack(h, p) ==
  /\ InFrame(h, {"scheduler"}, "back") /\ holder[p] = h /\ pstate[p] # "RUNNING"
  /\ release(h, p)
  /\ Move(h, "loop")
  /\ UNCHANGED <<pstate, saved, kernel_sp, room>>

\* Behind sched(), and at the start of forkret(): the lock is let go.
Resume(h) ==
  /\ InFrame(h, Timers \cup Calls \cup {"forkret"}, "woken")
  /\ release(h, RunsOn(h))
  /\ Move(h, CASE Top(h).kind = "syscall" -> "relock"
                [] Top(h).kind = "drain"   -> "in"
                [] OTHER                   -> "out")
  /\ UNCHANGED <<pstate, saved, kernel_sp, room>>

\* The end of kerneltrap(): sstatus as it was.
KernelReturn(h) ==
  /\ InFrame(h, {"ktimer", "kdev"}, "out")
  /\ cpu' = [cpu EXCEPT ![h].sie = TRUE]
  /\ frames' = [frames EXCEPT ![RunsOn(h)] = SubSeq(@, 1, Len(@) - 1)]
  /\ UNCHANGED <<holder, pstate, saved, kernel_sp, room>>

\* The end of usertrap(): agent_drain() takes locks and may sleep.  Behind a
\* system call it is part of the body; behind an interrupt from user mode it
\* runs with interrupts off.
agent_drain(h) ==
  /\ InFrame(h, {"utimer", "udev"}, "out")
  /\ frames' = [frames EXCEPT ![RunsOn(h)] = <<FrameOf("drain", "out")>>]
  /\ UNCHANGED <<cpu, holder, pstate, saved, kernel_sp, room>>

\* prepare_return(): interrupts off before the vector changes.
StackTop == 1                                   \* p->kstack + PGSIZE
IntrOff(c) == [c EXCEPT !.sie = FALSE, !.stvec = "uservec"]
prepare_return(h) ==
  /\ \/ InFrame(h, {"drain", "forkret"}, "out") \/ InFrame(h, {"syscall"}, "body")
  /\ cpu' = [cpu EXCEPT ![h] = IntrOff(@)]
  /\ kernel_sp' = [kernel_sp EXCEPT ![RunsOn(h)] = StackTop]
  /\ Move(h, "sret")
  /\ UNCHANGED <<holder, pstate, saved, room>>
userret(h) ==
  /\ InFrame(h, {"syscall", "drain", "forkret"}, "sret")
  /\ cpu' = [cpu EXCEPT ![h].sie = TRUE]
  /\ frames' = [frames EXCEPT ![RunsOn(h)] = <<>>]
  /\ UNCHANGED <<holder, pstate, saved, kernel_sp, room>>

HartNext ==
  \E h \in Cpu :
    \/ \E kind \in {"syscall", "utimer", "udev"} : usertrap(h, kind)
    \/ \E kind \in {"ktimer", "kdev"} : kerneltrap(h, kind)
    \/ IntrOn(h) \/ LockDevice(h) \/ UnlockDevice(h)
    \/ yield(h) \/ SleepLock(h) \/ SleepDrop(h) \/ sched(h) \/ Resume(h)
    \/ SchedulerOn(h) \/ SchedulerOff(h) \/ SchedulerIdle(h)
    \/ \E p \in Thread : SchedulerPick(h, p) \/ SwitchTo(h, p) \/ SwitchBack(h, p) \/ wakeup(h, p)
    \/ KernelReturn(h) \/ agent_drain(h) \/ prepare_return(h) \/ userret(h)

HartSpec == HartInit /\ [][HartNext]_hartVars

------------------------------------------------------------------------------
(* Types; pop_off never goes below zero and a trap is never taken inside a *)
(* trap taken in the kernel (pop_off, kerneltrap).                         *)
HartTypeOK ==
  /\ cpu \in [Cpu -> [sie : BOOLEAN, noff : Nat, intena : BOOLEAN,
                      stvec : {"kernelvec", "uservec"}, proc : Thread \cup {NoOne}]]
  /\ holder \in [Spinlock -> Cpu \cup {NoOne}]
  /\ pstate \in [Thread -> {"RUNNABLE", "RUNNING", "SLEEPING"}]
  /\ \A t \in Thread \cup Cpu : Len(frames[t]) <= 2

(***************************************************************************)
(* noff is the number of locks a hart holds, across context switches and   *)
(* traps, and interrupts are off while it holds any (spinlock.c:89): a     *)
(* handler can never find its own hart holding the lock it spins for.      *)
(***************************************************************************)
LocksKeepInterruptsOff ==
  \A h \in Cpu : /\ cpu[h].noff = Cardinality({l \in Spinlock : holder[l] = h})
                 /\ cpu[h].noff > 0 => ~cpu[h].sie

(***************************************************************************)
(* Outside critical sections interrupts are as the thread had them before: *)
(* on in the body of a system call, also after it slept and woke on        *)
(* another hart, off in a trap handler, also after it yielded, and in the  *)
(* agent_drain() behind it, also after that slept (spinlock.c:111,         *)
(* proc.c:594, trap.c:98, 158).                                            *)
(***************************************************************************)
InterruptsAsBefore ==
  \A h \in Cpu :
    /\ InFrame(h, {"syscall"}, "body") \/ InFrame(h, {"syscall"}, "relock") => cpu[h].sie
    /\ \A pc \in {"in", "yield", "out"} :
         InFrame(h, Handlers \cup {"drain"}, pc) => ~cpu[h].sie

(***************************************************************************)
(* An interrupt that arrives in the kernel goes to kerneltrap(), never to  *)
(* uservec (trap.c:117): the vector is the user's only while interrupts    *)
(* are off or the hart is in user mode.                                    *)
(***************************************************************************)
KernelTrapsToKernel ==
  \A h \in Cpu : InKernel(h) /\ cpu[h].sie => cpu[h].stvec = "kernelvec"

(***************************************************************************)
(* kernel_sp is the "top of process's kernel stack" (proc.h:45): a trap    *)
(* from user space has all KSTACK_PAGES below it.                          *)
(***************************************************************************)
TrapHasWholeStack ==
  \A p \in Thread : frames[p] # <<>> => room[p] = KSTACK_PAGES

(* What spinlock.c, sched and the trap code keep across switches, nested   *)
(* traps and moves between harts: interrupts are off while a lock is held  *)
(* and afterwards as they were, and a trap in the kernel goes to           *)
(* kernelvec.                                                              *)
HartInv == HartTypeOK /\ LocksKeepInterruptsOff /\ InterruptsAsBefore /\ KernelTrapsToKernel
=============================================================================

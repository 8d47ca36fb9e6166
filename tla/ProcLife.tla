------------------------------ MODULE ProcLife ------------------------------
(***************************************************************************)
(* The life of processes in kernel/proc.c: fork, exit, wait, kill and      *)
(* pause over the process table, with wait_lock, and user/init.c, which    *)
(* restarts the shell and reaps orphans.  Which process a hart runs is     *)
(* module Sched's; here a process that is not asleep may take its next     *)
(* step at any time, so RUNNABLE and RUNNING are one state, "live".        *)
(*                                                                         *)
(* A step that holds wait_lock throughout is one action.  The test of      *)
(* killed() and the sleep after it are two: kkill does not take wait_lock. *)
(***************************************************************************)
EXTENDS Integers, FiniteSets, FiniteSetsExt

CONSTANTS
  NPROC,
  MaxPid       \* bound: pids handed out

ASSUME ProcAssumption == NPROC \in Nat \ {0} /\ MaxPid \in Nat \ {0}

VARIABLES
  state,       \* slot -> "unused", "used", "live", "sleeping" or "zombie"
  pid,         \* slot -> p->pid, 0 when unused
  parent,      \* slot -> slot of the parent, or 0
  killed,      \* slot -> p->killed
  nextpid,
  in,          \* slot -> where its process is, and so what it sleeps on
  child,       \* slot -> the slot it forks into
  stage,       \* how far init is: it forks denyctl and agentd once, then sh
  shell,       \* init's pid, the shell it waits for
  panicked,    \* "init exiting"
  late,        \* history: slots killed between a killed() test and the sleep
  wasParent    \* history: slot -> pid of the parent it was given

procVars == <<state, pid, parent, killed, nextpid, in, child, stage, shell,
              panicked, late, wasParent>>

Slot     == 1 .. NPROC
initproc == 1
Alive    == {"live", "sleeping"}

userinit ==
  /\ state = [s \in Slot |-> IF s = initproc THEN "live" ELSE "unused"]
  /\ pid = [s \in Slot |-> IF s = initproc THEN 1 ELSE 0]
  /\ parent = [s \in Slot |-> 0]
  /\ killed = [s \in Slot |-> FALSE]
  /\ nextpid = 2
  /\ in = [s \in Slot |-> "user"]
  /\ child = [s \in Slot |-> 0]
  /\ stage = "denyctl"
  /\ shell = 0
  /\ panicked = FALSE
  /\ late = {}
  /\ wasParent = [s \in Slot |-> 0]

Running(p, where) == ~panicked /\ state[p] = "live" /\ in[p] = where
Enter(p, where)   == in' = [in EXCEPT ![p] = where]
Children(p)       == {c \in Slot : parent[c] = p}

(* kwait holds wait_lock from its scan into sleep.                         *)
WaitLockNotKept == TRUE                                         \* mutant
WaitLockFree == \A s \in Slot : in[s] # "wait sleep"

(* At the user's level.  init forks denyctl and waits once, forks agentd,  *)
(* forks sh and then waits until sh is gone; any other program calls what  *)
(* it likes.                                                               *)
MayCall(p, call) ==
  /\ Running(p, "user")
  /\ ~killed[p]
  /\ p = initproc => call = IF stage \in {"denyctl wait", "sh wait"} THEN "wait" ELSE "fork"

AfterFork == CASE stage = "denyctl" -> "denyctl wait"
               [] stage = "agentd"  -> "sh"
               [] stage = "sh"      -> "sh wait"

-----------------------------------------------------------------------------
(* kfork: allocproc takes the first unused slot; the copies follow.        *)
Fork(p) ==
  LET c == Min({s \in Slot : state[s] = "unused"}) IN
  /\ MayCall(p, "fork")
  /\ \E s \in Slot : state[s] = "unused"
  /\ nextpid <= MaxPid
  /\ nextpid' = nextpid + 1
  /\ state' = [state EXCEPT ![c] = "used"]
  /\ pid' = [pid EXCEPT ![c] = nextpid]
  /\ child' = [child EXCEPT ![p] = c]
  /\ in' = [in EXCEPT ![p] = "fork parent", ![c] = "user"]
  /\ UNCHANGED <<parent, killed, stage, shell, panicked, late, wasParent>>

(* No slot, or no memory for the trapframe, the page table or the copy:    *)
(* the slot is freed again and fork returns -1; init goes on without       *)
(* denyctl or agentd, and exits without sh.                                *)
ForkFails(p) ==
  /\ MayCall(p, "fork")
  /\ IF \E s \in Slot : state[s] = "unused"
     THEN /\ nextpid <= MaxPid
          /\ nextpid' = nextpid + 1
          /\ killed' = [killed EXCEPT ![Min({s \in Slot : state[s] = "unused"})] = FALSE]
     ELSE UNCHANGED <<nextpid, killed>>
  /\ Enter(p, IF p = initproc /\ stage = "sh" THEN "exit" ELSE "user")
  /\ stage' = IF p = initproc THEN AfterFork ELSE stage
  /\ UNCHANGED <<state, pid, parent, child, shell, panicked, late, wasParent>>

ForkParent(p) ==
  /\ Running(p, "fork parent") /\ WaitLockFree
  /\ parent' = [parent EXCEPT ![child[p]] = p]
  /\ wasParent' = [wasParent EXCEPT ![child[p]] = pid[p]]
  /\ Enter(p, "fork ready")
  /\ UNCHANGED <<state, pid, killed, nextpid, child, stage, shell, panicked, late>>

ForkReady(p) ==
  /\ Running(p, "fork ready")
  /\ state' = [state EXCEPT ![child[p]] = "live"]
  /\ shell' = IF p = initproc /\ stage = "sh" THEN pid[child[p]] ELSE shell
  /\ stage' = IF p = initproc THEN AfterFork ELSE stage
  /\ Enter(p, "user")
  /\ child' = [child EXCEPT ![p] = 0]
  /\ UNCHANGED <<pid, parent, killed, nextpid, panicked, late, wasParent>>

(* exit(), or a killed process on its way to user space (usertrap).        *)
CallExit(p) ==
  /\ Running(p, "user")
  /\ killed[p] \/ p # initproc
  /\ Enter(p, "exit")
  /\ UNCHANGED <<state, pid, parent, killed, nextpid, child, stage, shell, panicked,
                 late, wasParent>>

(* wakeup(who): the processes asleep in wait as one of who.                *)
WakeWaiters(st, who) ==
  [s \in Slot |-> IF s \in who /\ st[s] = "sleeping" /\ in[s] = "wait"
                  THEN "live" ELSE st[s]]

(* reparent(p), and whom it and kexit wake.                                *)
reparent(p) == [s \in Slot |-> IF parent[s] = p THEN initproc ELSE parent[s]]
WokenBy(p) == {parent[p]} \cup (IF Children(p) = {} THEN {} ELSE {initproc})

(* kexit under wait_lock: reparent, wake init and the parent, ZOMBIE.      *)
Exit(p) ==
  /\ Running(p, "exit") /\ WaitLockFree
  /\ p # initproc
  /\ parent' = reparent(p)
  /\ state' = [WakeWaiters(state, WokenBy(p)) EXCEPT ![p] = "zombie"]
  /\ wasParent' = [s \in Slot |-> IF parent'[s] # parent[s] THEN 1 ELSE wasParent[s]]
  /\ UNCHANGED <<pid, killed, nextpid, in, child, stage, shell, panicked, late>>

InitExits ==
  /\ Running(initproc, "exit")
  /\ panicked' = TRUE
  /\ UNCHANGED <<state, pid, parent, killed, nextpid, in, child, stage, shell,
                 late, wasParent>>

-----------------------------------------------------------------------------
CallWait(p) ==
  /\ MayCall(p, "wait")
  /\ Enter(p, "wait")
  /\ UNCHANGED <<state, pid, parent, killed, nextpid, child, stage, shell,
                 panicked, late, wasParent>>

ZombiesNotKilled(p) ==                                          \* mutant
  {c \in Children(p) : state[c] = "zombie" /\ ~killed[c]}
Zombies(p) == {c \in Children(p) : state[c] = "zombie"}

(* kwait with an exited child: freeproc of the first one in the table; if  *)
(* its status cannot be copied out, -1 and the child stays.  init goes on  *)
(* after its first wait, whatever it returns, and restarts the shell.      *)
AfterWait(who) == CASE stage = "denyctl wait" -> "agentd"
                    [] who = shell -> "sh"
                    [] OTHER -> stage
WaitReaps(p) ==
  LET c == Min(Zombies(p)) IN
  /\ Running(p, "wait") /\ WaitLockFree
  /\ Zombies(p) # {}
  /\ state' = [state EXCEPT ![c] = "unused"]
  /\ pid' = [pid EXCEPT ![c] = 0]
  /\ parent' = [parent EXCEPT ![c] = 0]
  /\ killed' = [killed EXCEPT ![c] = FALSE]
  /\ stage' = IF p # initproc THEN stage ELSE AfterWait(pid[c])
  /\ in' = [in EXCEPT ![p] = "user", ![c] = "user"]
  /\ wasParent' = [wasParent EXCEPT ![c] = 0]
  /\ late' = late \ {c}
  /\ UNCHANGED <<nextpid, child, shell, panicked>>

WaitBadAddress(p) ==
  /\ Running(p, "wait") /\ WaitLockFree
  /\ p # initproc
  /\ Zombies(p) # {}
  /\ Enter(p, "user")
  /\ UNCHANGED <<state, pid, parent, killed, nextpid, child, stage, shell,
                 panicked, late, wasParent>>

(* No child, or killed: -1, on which init exits once it waits for sh.      *)
WaitFails(p) ==
  /\ Running(p, "wait") /\ WaitLockFree
  /\ Zombies(p) = {}
  /\ Children(p) = {} \/ killed[p]
  /\ Enter(p, IF p = initproc /\ stage = "sh wait" THEN "exit" ELSE "user")
  /\ stage' = IF p = initproc /\ stage = "denyctl wait" THEN "agentd" ELSE stage
  /\ UNCHANGED <<state, pid, parent, killed, nextpid, child, shell,
                 panicked, late, wasParent>>

(* Children and not killed: on to sleep, with wait_lock still held.        *)
WaitSleeps(p) ==
  /\ Running(p, "wait") /\ WaitLockFree
  /\ Zombies(p) = {} /\ Children(p) # {} /\ ~killed[p]
  /\ Enter(p, "wait sleep")
  /\ UNCHANGED <<state, pid, parent, killed, nextpid, child, stage, shell,
                 panicked, late, wasParent>>

(* sys_pause: the tick it waits for has not come and it is not killed.     *)
Pause(p) ==
  /\ MayCall(p, "pause") \/ (Running(p, "pause") /\ ~killed[p])
  /\ Enter(p, "pause sleep")
  /\ UNCHANGED <<state, pid, parent, killed, nextpid, child, stage, shell,
                 panicked, late, wasParent>>

PauseReturns(p) ==
  /\ Running(p, "pause")
  /\ Enter(p, "user")
  /\ UNCHANGED <<state, pid, parent, killed, nextpid, child, stage, shell,
                 panicked, late, wasParent>>

(* sleep(chan, lk); it looks again when it is woken.                       *)
Sleep(p) ==
  /\ Running(p, "wait sleep") \/ Running(p, "pause sleep")
  /\ state' = [state EXCEPT ![p] = "sleeping"]
  /\ Enter(p, IF in[p] = "wait sleep" THEN "wait" ELSE "pause")
  /\ UNCHANGED <<pid, parent, killed, nextpid, child, stage, shell, panicked,
                 late, wasParent>>

(* clockintr wakes those who pause.                                        *)
TickWakes ==
  /\ \E s \in Slot : state[s] = "sleeping" /\ in[s] = "pause"
  /\ ~panicked
  /\ state' = [s \in Slot |-> IF state[s] = "sleeping" /\ in[s] = "pause"
                              THEN "live" ELSE state[s]]
  /\ UNCHANGED <<pid, parent, killed, nextpid, in, child, stage, shell, panicked,
                 late, wasParent>>

Roused(st) == IF st = "sleeping" THEN "live" ELSE st

(* kkill(n) marks the first slot with that pid.  An unused slot has pid 0. *)
Kill(p, n) ==
  LET t == Min({s \in Slot : pid[s] = n}) IN
  /\ MayCall(p, "kill")
  /\ \E s \in Slot : pid[s] = n
  /\ killed' = [killed EXCEPT ![t] = TRUE]
  /\ state' = [state EXCEPT ![t] = Roused(@)]
  /\ late' = IF in[t] \in {"wait sleep", "pause sleep"} THEN late \cup {t} ELSE late
  /\ UNCHANGED <<pid, parent, nextpid, in, child, stage, shell, panicked, wasParent>>

InitStep ==
  \/ Fork(initproc) \/ ForkFails(initproc) \/ ForkParent(initproc) \/ ForkReady(initproc)
  \/ CallWait(initproc) \/ WaitReaps(initproc) \/ WaitSleeps(initproc)
  \/ WaitFails(initproc) \/ Sleep(initproc) \/ CallExit(initproc) \/ InitExits

ProcNext ==
  \/ \E p \in Slot :
       \/ Fork(p) \/ ForkFails(p) \/ ForkParent(p) \/ ForkReady(p)
       \/ CallExit(p) \/ Exit(p)
       \/ CallWait(p) \/ WaitReaps(p) \/ WaitBadAddress(p) \/ WaitFails(p)
       \/ WaitSleeps(p) \/ Pause(p) \/ PauseReturns(p) \/ Sleep(p)
  \/ \E p \in Slot, n \in 0 .. MaxPid : Kill(p, n)
  \/ TickWakes
  \/ InitExits

(* A runnable init runs: it has the heaviest weight of all.                *)
ProcSpec == userinit /\ [][ProcNext]_procVars /\ WF_procVars(InitStep)

-----------------------------------------------------------------------------
(* Types; a slot has a pid exactly while it is in use (allocproc,          *)
(* freeproc).                                                              *)
ProcTypeOK ==
  /\ state \in [Slot -> {"unused", "used", "live", "sleeping", "zombie"}]
  /\ pid \in [Slot -> 0 .. MaxPid] /\ \A s \in Slot : pid[s] = 0 <=> state[s] = "unused"
  /\ nextpid \in 1 .. MaxPid + 1
  /\ parent \in [Slot -> 0 .. NPROC] /\ child \in [Slot -> 0 .. NPROC]
  /\ killed \in [Slot -> BOOLEAN]
  /\ stage \in {"denyctl", "denyctl wait", "agentd", "sh", "sh wait"}
  /\ in \in [Slot -> {"user", "fork parent", "fork ready", "exit", "wait",
                      "wait sleep", "pause", "pause sleep"}]
  /\ shell \in 0 .. MaxPid /\ panicked \in BOOLEAN
  /\ late \subseteq Slot

(* Every process that can run or has exited has a parent that can still    *)
(* wait for it, and it is the process that forked it or init, not a later  *)
(* one in the same slot: fork, exit and reparent hand it on under          *)
(* wait_lock.                                                              *)
ParentCanWait ==
  \A s \in Slot : state[s] \in Alive \cup {"zombie"} /\ s # initproc =>
    /\ parent[s] # 0
    /\ state[parent[s]] \in Alive
    /\ pid[parent[s]] = wasParent[s]

(* wait sleeps only while it has children and none of them has exited: an  *)
(* exit between the scan and the sleep is not missed.                      *)
WaitMissesNoZombie ==
  \A p \in Slot : state[p] = "sleeping" /\ in[p] = "wait" =>
    Children(p) # {} /\ Zombies(p) = {}

(* A killed process is asleep only if the kill fell between its last test  *)
(* of killed() and its sleep: otherwise kkill wakes it.                    *)
KillWakesUnlessLate ==
  \A p \in Slot : state[p] = "sleeping" /\ killed[p] => p \in late

(* A zombie that is init's is reaped, unless init itself comes to its end  *)
(* (or the bound on pids keeps it from starting another shell).            *)
InitReaps ==
  \A s \in Slot \ {initproc} : state[s] = "zombie" /\ parent[s] = initproc ~>
    state[s] = "unused" \/ panicked \/ nextpid > MaxPid

(* What fork, exit, wait and kill keep in every interleaving: each process *)
(* has a parent that can still wait, wait sleeps on no zombie, and a kill  *)
(* that did not come too late woke its victim.                             *)
ProcInv == ProcTypeOK /\ ParentCanWait /\ WaitMissesNoZombie /\ KillWakesUnlessLate
=============================================================================

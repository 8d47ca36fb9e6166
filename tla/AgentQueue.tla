------------------------------ MODULE AgentQueue ------------------------------
(***************************************************************************)
(* The two rings of kernel/agentcmd.c that carry a wire line from the      *)
(* serial interrupt to the jailed agent runtime:                           *)
(*                                                                         *)
(*   agent_dispatch --> agent_q --> agent_drain --> agentq --> agentq_get  *)
(*                                                                         *)
(* agent_dispatch runs in the interrupt and drops silently when agent_q is *)
(* full.  agent_drain runs in every process that traps (and in             *)
(* consoleread), so several drainers may work at once, on several CPUs or  *)
(* by preemption: a drainer takes one line under agent_q_lock and routes   *)
(* it with the lock released.  agentd sleeps in agentq_get.                *)
(*                                                                         *)
(* A line is its arrival number.  What routing decides (a command the      *)
(* kernel handles or denies, or one it forwards) is the subject of module  *)
(* AgentRoute; here either may happen to any line.                         *)
(***************************************************************************)
EXTENDS Integers, Sequences

CONSTANTS
  Drainers,   \* process contexts that call agent_drain
  QLen,       \* AGENT_Q_LEN: slots of agent_q, one of which stays empty
  QCap,       \* AGENTQ_N: slots of agentq
  MaxLines    \* bound: lines the host sends

ASSUME AgentQueueAssumption ==
  /\ QLen \in Nat /\ QLen >= 2
  /\ QCap \in Nat /\ QCap >= 1
  /\ MaxLines \in Nat

VARIABLES
  sent,                                 \* lines the host has sent so far
  agent_q, agent_q_head, agent_q_tail,  \* stage 1
  dpc,                                  \* where each drainer is
  local,                                \* the line a drainer holds
  buf, r, w, count,                     \* stage 2: struct agentq
  lockKept,                             \* agentd keeps agentq.lock on its way to sleep
  agentd,                               \* where agentd is in agentq_get
  killed,                               \* agentd's p->killed
  gone,                                 \* history: lines dropped, or handled here
  forwarded,                            \* history: lines put in agentq, in order
  received,                             \* history: lines agentd got, in order
  beside                                \* history: <<a, b>>: b was taken while a was held

intake  == <<sent, agent_q, agent_q_head, agent_q_tail>>
ring    == <<buf, r, w, count>>
runtime == <<agentd, lockKept, killed>>
history == <<forwarded, received, beside>>
vars == <<intake, dpc, local, ring, runtime, gone, history>>

Lines  == 1 .. MaxLines
NoLine == 0

Init ==
  /\ sent = 0
  /\ agent_q = [i \in 0 .. QLen - 1 |-> NoLine]
  /\ agent_q_head = 0
  /\ agent_q_tail = 0
  /\ dpc = [d \in Drainers |-> "idle"]
  /\ local = [d \in Drainers |-> NoLine]
  /\ buf = [i \in 0 .. QCap - 1 |-> NoLine]
  /\ r = 0
  /\ w = 0
  /\ count = 0
  /\ lockKept = FALSE
  /\ agentd = "user"
  /\ killed = FALSE
  /\ gone = {}
  /\ forwarded = << >>
  /\ received = << >>
  /\ beside = {}

-----------------------------------------------------------------------------
(* Mutant: agent_dispatch does not test for a full ring.                   *)
AgentDispatchNoTest ==
  /\ sent < MaxLines
  /\ sent' = sent + 1
  /\ agent_q' = [agent_q EXCEPT ![agent_q_tail] = sent']
  /\ agent_q_tail' = (agent_q_tail + 1) % QLen
  /\ UNCHANGED <<agent_q_head, dpc, local, ring, runtime, gone, history>>

(* agent_dispatch: copy the line into agent_q, or drop it.                 *)
AgentDispatch ==
  LET next == (agent_q_tail + 1) % QLen IN
  /\ sent < MaxLines
  /\ sent' = sent + 1
  /\ IF next # agent_q_head
     THEN /\ agent_q' = [agent_q EXCEPT ![agent_q_tail] = sent']
          /\ agent_q_tail' = next
          /\ UNCHANGED gone
     ELSE /\ gone' = gone \cup {sent'}
          /\ UNCHANGED <<agent_q, agent_q_tail>>
  /\ UNCHANGED <<agent_q_head, dpc, local, ring, runtime, history>>

(* agent_drain: the unlocked test of head and tail.                        *)
AgentDrain(d) ==
  /\ dpc[d] = "idle"
  /\ agent_q_head # agent_q_tail
  /\ dpc' = [dpc EXCEPT ![d] = "loop"]
  /\ UNCHANGED <<intake, local, ring, runtime, gone, history>>

(* The lines that drainers hold.                                           *)
Held == {local[d] : d \in Drainers} \ {NoLine}

(* agent_drain_locked: take the line at the head ...                       *)
Dequeue(d) ==
  /\ dpc[d] = "loop"
  /\ agent_q_head # agent_q_tail
  /\ local' = [local EXCEPT ![d] = agent_q[agent_q_head]]
  /\ agent_q_head' = (agent_q_head + 1) % QLen
  /\ dpc' = [dpc EXCEPT ![d] = "route"]
  /\ beside' = beside \cup {<<l, agent_q[agent_q_head]>> : l \in Held}
  /\ UNCHANGED <<sent, agent_q, agent_q_tail, ring, runtime, gone, forwarded, received>>

(* ... or return when another drainer has emptied the queue.               *)
DrainReturn(d) ==
  /\ dpc[d] = "loop"
  /\ agent_q_head = agent_q_tail
  /\ dpc' = [dpc EXCEPT ![d] = "idle"]
  /\ UNCHANGED <<intake, local, ring, runtime, gone, history>>

(* Mutant: a drain is over after one line.                                 *)
HandleOne(d) ==
  /\ dpc[d] = "route"
  /\ gone' = gone \cup {local[d]}
  /\ local' = [local EXCEPT ![d] = NoLine]
  /\ dpc' = [dpc EXCEPT ![d] = "idle"]
  /\ UNCHANGED <<intake, ring, runtime, history>>

(* agent_dispatch_now ends in the kernel: a meta command, a denied or a    *)
(* malformed one.                                                          *)
HandleInKernel(d) ==
  /\ dpc[d] = "route"
  /\ gone' = gone \cup {local[d]}
  /\ local' = [local EXCEPT ![d] = NoLine]
  /\ dpc' = [dpc EXCEPT ![d] = "loop"]
  /\ UNCHANGED <<intake, ring, runtime, history>>

(* forward_to_agentd under agentq.lock: the ring is full, drop the line.   *)
ForwardDrop(d) ==
  /\ dpc[d] = "route"
  /\ ~lockKept
  /\ count = QCap
  /\ gone' = gone \cup {local[d]}
  /\ local' = [local EXCEPT ![d] = NoLine]
  /\ dpc' = [dpc EXCEPT ![d] = "loop"]
  /\ UNCHANGED <<intake, ring, runtime, history>>

(* Mutant: forward_to_agentd tests for full one slot too late.             *)
ForwardLate(d) ==
  /\ dpc[d] = "route"
  /\ ~lockKept
  /\ count <= QCap
  /\ buf' = [buf EXCEPT ![w] = local[d]]
  /\ w' = (w + 1) % QCap
  /\ count' = count + 1
  /\ forwarded' = Append(forwarded, local[d])
  /\ local' = [local EXCEPT ![d] = NoLine]
  /\ dpc' = [dpc EXCEPT ![d] = "wake"]
  /\ UNCHANGED <<intake, r, runtime, gone, received, beside>>

(* Mutant: forward_to_agentd does not call wakeup.                         *)
ForwardSilently(d) ==
  /\ dpc[d] = "route"
  /\ ~lockKept
  /\ count < QCap
  /\ buf' = [buf EXCEPT ![w] = local[d]]
  /\ w' = (w + 1) % QCap
  /\ count' = count + 1
  /\ forwarded' = Append(forwarded, local[d])
  /\ local' = [local EXCEPT ![d] = NoLine]
  /\ dpc' = [dpc EXCEPT ![d] = "loop"]
  /\ UNCHANGED <<intake, r, runtime, gone, received, beside>>

(* forward_to_agentd: copy the line to slot w ...                          *)
Forward(d) ==
  /\ dpc[d] = "route"
  /\ ~lockKept
  /\ count < QCap
  /\ buf' = [buf EXCEPT ![w] = local[d]]
  /\ w' = (w + 1) % QCap
  /\ count' = count + 1
  /\ forwarded' = Append(forwarded, local[d])
  /\ local' = [local EXCEPT ![d] = NoLine]
  /\ dpc' = [dpc EXCEPT ![d] = "wake"]
  /\ UNCHANGED <<intake, r, runtime, gone, received, beside>>

(* ... and wakeup(&agentq) after the lock is released.                     *)
ForwardWake(d) ==
  /\ dpc[d] = "wake"
  /\ dpc' = [dpc EXCEPT ![d] = "loop"]
  /\ agentd' = IF agentd = "asleep" THEN "get" ELSE agentd
  /\ UNCHANGED <<intake, local, ring, lockKept, killed, gone, history>>

-----------------------------------------------------------------------------
(* agentd, running a command in user space, calls agent_recv again; a      *)
(* killed one goes to kexit on this trap.                                  *)
CallRecv ==
  /\ agentd = "user"
  /\ agentd' = IF killed THEN "dead" ELSE "get"
  /\ UNCHANGED <<intake, dpc, local, ring, lockKept, killed, gone, history>>

(* agentq_get: a command is there; agentd goes and executes it.            *)
Get ==
  /\ agentd = "get"
  /\ count > 0
  /\ agentd' = "user"
  /\ received' = Append(received, buf[r])
  /\ r' = (r + 1) % QCap
  /\ count' = count - 1
  /\ UNCHANGED <<intake, dpc, local, buf, w, lockKept, killed, gone, forwarded, beside>>

(* agentq_get: nothing is there and agentd was killed: return -1.          *)
GetKilled ==
  /\ agentd = "get"
  /\ count = 0
  /\ killed
  /\ agentd' = "dead"
  /\ UNCHANGED <<intake, dpc, local, ring, lockKept, killed, gone, history>>

(* Mutant: agentq.lock is released before sleep().                         *)
GetWaitUnlocked ==
  /\ agentd = "get"
  /\ count = 0
  /\ ~killed
  /\ agentd' = "dosleep"
  /\ UNCHANGED <<intake, dpc, local, ring, lockKept, killed, gone, history>>

(* agentq_get: nothing is there; call sleep() with agentq.lock held ...    *)
GetWait ==
  /\ agentd = "get"
  /\ count = 0
  /\ ~killed
  /\ agentd' = "dosleep"
  /\ lockKept' = TRUE
  /\ UNCHANGED <<intake, dpc, local, ring, killed, gone, history>>

(* ... which gives it up once agentd's p->lock is held and it is SLEEPING. *)
GetSleep ==
  /\ agentd = "dosleep"
  /\ agentd' = "asleep"
  /\ lockKept' = FALSE
  /\ UNCHANGED <<intake, dpc, local, ring, killed, gone, history>>

(* kkill(agentd) wakes it only if it is already SLEEPING.                  *)
KillAgentd ==
  /\ ~killed
  /\ killed' = TRUE
  /\ agentd' = IF agentd = "asleep" THEN "get" ELSE agentd
  /\ UNCHANGED <<intake, dpc, local, ring, lockKept, gone, history>>

-----------------------------------------------------------------------------
(* A process that has found agent_q not empty goes on until it is.         *)
DrainGoesOn(d) == \/ Dequeue(d) \/ DrainReturn(d)
                  \/ HandleInKernel(d) \/ ForwardDrop(d) \/ Forward(d)
                  \/ ForwardWake(d)
DrainStep(d) == AgentDrain(d) \/ DrainGoesOn(d)

(* agentd inside agentq_get.                                               *)
AgentqGet  == Get \/ GetKilled \/ GetWait \/ GetSleep
AgentdStep == CallRecv \/ AgentqGet

Next == \/ AgentDispatch
        \/ \E d \in Drainers : DrainStep(d)
        \/ AgentdStep
        \/ KillAgentd

Spec == Init /\ [][Next]_vars

(* Only what has begun goes on: a process inside agent_drain or agentq_get *)
(* is runnable and runs.  Nobody owes a drain: agent_drain is called at    *)
(* the end of a trap from user space and in consoleread, and none of them  *)
(* comes while every process sleeps.  Nor does agentd owe a call of        *)
(* agent_recv: a SPAWN may keep it in wait().                              *)
Fairness == WF_vars(AgentqGet) /\ \A d \in Drainers : WF_vars(DrainGoesOn(d))
FairSpec == Spec /\ Fairness

-----------------------------------------------------------------------------
(* The lines in each ring, oldest first.                                   *)
InAgentQ == [i \in 1 .. (agent_q_tail - agent_q_head + QLen) % QLen |->
               agent_q[(agent_q_head + i - 1) % QLen]]
InRing   == [i \in 1 .. count |-> buf[(r + i - 1) % QCap]]

Elements(s) == {s[i] : i \in DOMAIN s}

(* Types of the rings, the drainers and agentd; every index is a slot.     *)
TypeOK ==
  /\ sent \in 0 .. MaxLines
  /\ agent_q \in [0 .. QLen - 1 -> Lines \cup {NoLine}]
  /\ agent_q_head \in 0 .. QLen - 1
  /\ agent_q_tail \in 0 .. QLen - 1
  /\ dpc \in [Drainers -> {"idle", "loop", "route", "wake"}]
  /\ local \in [Drainers -> Lines \cup {NoLine}]
  /\ buf \in [0 .. QCap - 1 -> Lines \cup {NoLine}]
  /\ r \in 0 .. QCap - 1
  /\ w \in 0 .. QCap - 1
  /\ count \in 0 .. QCap
  /\ lockKept \in BOOLEAN
  /\ agentd \in {"user", "get", "dosleep", "asleep", "dead"}
  /\ killed \in BOOLEAN
  /\ gone \subseteq Lines
  /\ forwarded \in Seq(Lines)
  /\ received \in Seq(Lines)
  /\ beside \subseteq Lines \X Lines

(* No line is lost or duplicated on its way: each one sent is in exactly   *)
(* one place, however the drainers and the interrupt interleave, across    *)
(* both wrap-arounds and both overflow rules.                              *)
EveryLineInOnePlace ==
  LET places == <<Elements(InAgentQ), Held, Elements(InRing), gone,
                  Elements(received)>>
  IN /\ UNION Elements(places) = 1 .. sent
     /\ \A i, j \in DOMAIN places : i # j => places[i] \cap places[j] = {}
     /\ \A d1, d2 \in Drainers :
          local[d1] = local[d2] /\ local[d1] # NoLine => d1 = d2
     /\ \A i, j \in DOMAIN received : received[i] = received[j] => i = j

(* Stage 2 is a FIFO: what agentd got, followed by what the ring holds, is *)
(* what was forwarded, in that order.                                      *)
StageTwoFifo == received \o InRing = forwarded

(* A command never sits in agentq with agentd asleep and no wakeup coming, *)
(* although wakeup is called after agentq.lock is released.                *)
NoLostWakeup ==
  agentd = "asleep" /\ count > 0 => \E d \in Drainers : dpc[d] = "wake"

(* agentd sees two commands in the order the host sent them, through both  *)
(* wrap-arounds and all drops, except when the younger one was taken from  *)
(* agent_q while a drainer still held the older: nothing else overtakes.   *)
(* The markers by which agent.py delimits a tool's output rely on it.      *)
OvertakenWhileHeld ==
  \A i, j \in DOMAIN received :
    i < j => received[i] < received[j] \/ <<received[j], received[i]>> \in beside

(* A drain leaves nothing behind: a line that is in agent_q while some     *)
(* process drains, also one that came after the drain began, is handled,   *)
(* forwarded or dropped, since the drainer tests again under the lock      *)
(* before it returns.                                                      *)
DrainEmpties ==
  \A l \in Lines :
    l \in Elements(InAgentQ) /\ (\E d \in Drainers : dpc[d] # "idle")
      ~> l \in Elements(forwarded) \cup gone

(* agentd does not stay in agentq_get with a command in the ring, asleep   *)
(* or not.                                                                 *)
GetReturns ==
  agentd \in {"get", "dosleep", "asleep"} /\ count > 0 ~> agentd \in {"user", "dead"}

(* Once a process has begun to drain, and once agentd waits, a line gets   *)
(* from agent_q to the runtime or to its end in the kernel.                *)
QueueDrains == DrainEmpties /\ GetReturns
=============================================================================

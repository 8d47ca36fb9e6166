------------------------------- MODULE Confirm -------------------------------
(***************************************************************************)
(* Confirm-escape (kernel/confirm.c and its caller in kernel/syscall.c):   *)
(* an agent process that calls exec, kill or mknod is suspended until the  *)
(* host user answers y or n, or until CONFIRM_TIMEOUT_TICKS clock ticks    *)
(* have passed.  There is one pending slot, guarded by confirm_lock; the   *)
(* waiter sleeps on a channel of its own and is woken by confirm_resolve   *)
(* and by every clock tick.                                                *)
(*                                                                         *)
(* The host (agent.py) starts one thread per CONFIRM_REQ line, whose       *)
(* input() has no timeout: an answer may arrive at any later moment.  A    *)
(* reply carries the pid and y/n, and nothing else; the request number in  *)
(* a reply record below is history that no kernel action reads.            *)
(***************************************************************************)
EXTENDS Integers

CONSTANTS
  Agents,     \* pids of the sandboxed processes that make gated calls
  Handlers,   \* contexts that run confirm_resolve (an interrupt, a drainer)
  Timeout,    \* CONFIRM_TIMEOUT_TICKS
  MaxReqs     \* bound: gated system calls per process

ASSUME ConfirmAssumption ==
  /\ Agents \subseteq Nat \ {0}
  /\ Timeout \in Nat \ {0}
  /\ MaxReqs \in Nat

VARIABLES
  confirm_pending_pid,  \* pid of the waiting call, 0 when idle
  confirm_result,       \* -1 pending, 1 allow, 0 deny
  lockOwner,            \* agent that keeps confirm_lock across a step, or 0
  pc,                   \* where each agent is in confirm_request
  elapsed,              \* ticks - t0 of each waiting agent, capped at Timeout
  clock,                \* clockintr: "idle", or "ticked" before confirm_tick
  handler,              \* confirm_resolve per context: "idle", or "wake"
  killed,               \* p->killed
  nreq,                 \* number of gated calls each agent has made
  prompts,              \* CONFIRM_REQ lines the host has not answered
  replies,              \* CONFIRM_RES lines on their way to the kernel
  yes,                  \* history: the prompts the host user answered y
  answer,               \* history: the reply that set confirm_result
  grants                \* history: the calls let through, and by which reply

vars == <<confirm_pending_pid, confirm_result, lockOwner, pc, elapsed, clock,
          handler, killed, nreq, prompts, replies, yes, answer, grants>>

slot  == <<confirm_pending_pid, confirm_result, answer>>
wire  == <<prompts, replies, yes>>

Idle    == 0
Pending == -1
NoReply == [pid |-> 0, req |-> 0, allow |-> FALSE]

(* The steps of confirm_request between taking the slot and giving it up.  *)
Inside   == {"print", "stamp", "check", "dosleep", "asleep"}
Timing   == {"check", "dosleep", "asleep"}
PcStates == Inside \cup {"user", "exited"}

Prompt == Agents \X (1 .. MaxReqs)
Reply  == [pid : Agents, req : 1 .. MaxReqs, allow : BOOLEAN]
Grant  == [pid : Agents, req : 1 .. MaxReqs, by : Reply]

Init ==
  /\ confirm_pending_pid = Idle
  /\ confirm_result = Pending
  /\ lockOwner = Idle
  /\ pc = [p \in Agents |-> "user"]
  /\ elapsed = [p \in Agents |-> 0]
  /\ clock = "idle"
  /\ handler = [h \in Handlers |-> "idle"]
  /\ killed = [p \in Agents |-> FALSE]
  /\ nreq = [p \in Agents |-> 0]
  /\ prompts = {}
  /\ replies = {}
  /\ yes = {}
  /\ answer = NoReply
  /\ grants = {}

(* wakeup(&confirm_wait_chan) *)
Woken(pcs) == [p \in Agents |-> IF pcs[p] = "asleep" THEN "check" ELSE pcs[p]]

-----------------------------------------------------------------------------
(* syscall(): usertrap has already sent a killed process to kexit.         *)
MayCall(p) == pc[p] = "user" /\ ~killed[p] /\ nreq[p] < MaxReqs

(* confirm_request when another call is pending: denied at once.           *)
Refuse(p) ==
  /\ MayCall(p)
  /\ lockOwner = Idle
  /\ confirm_pending_pid # Idle
  /\ nreq' = [nreq EXCEPT ![p] = @ + 1]
  /\ UNCHANGED <<slot, lockOwner, pc, elapsed, clock, handler, killed, wire, grants>>

(* Mutant: the busy check is dropped.                                      *)
RegisterNoBusyCheck(p) ==
  /\ MayCall(p)
  /\ lockOwner = Idle
  /\ confirm_pending_pid' = p
  /\ confirm_result' = Pending
  /\ answer' = NoReply
  /\ nreq' = [nreq EXCEPT ![p] = @ + 1]
  /\ pc' = [pc EXCEPT ![p] = "print"]
  /\ UNCHANGED <<lockOwner, elapsed, clock, handler, killed, wire, grants>>

(* confirm_request takes the slot.                                         *)
Register(p) ==
  /\ MayCall(p)
  /\ lockOwner = Idle
  /\ confirm_pending_pid = Idle
  /\ confirm_pending_pid' = p
  /\ confirm_result' = Pending
  /\ answer' = NoReply
  /\ nreq' = [nreq EXCEPT ![p] = @ + 1]
  /\ pc' = [pc EXCEPT ![p] = "print"]
  /\ UNCHANGED <<lockOwner, elapsed, clock, handler, killed, wire, grants>>

(* printf("CONFIRM_REQ|...") *)
PrintReq(p) ==
  /\ pc[p] = "print"
  /\ prompts' = prompts \cup {<<p, nreq[p]>>}
  /\ pc' = [pc EXCEPT ![p] = "stamp"]
  /\ UNCHANGED <<slot, lockOwner, elapsed, clock, handler, killed, nreq,
                 replies, yes, grants>>

(* t0 = ticks *)
Stamp(p) ==
  /\ pc[p] = "stamp"
  /\ elapsed' = [elapsed EXCEPT ![p] = 0]
  /\ pc' = [pc EXCEPT ![p] = "check"]
  /\ UNCHANGED <<slot, lockOwner, clock, handler, killed, nreq, wire, grants>>

(* Leave confirm_request: the slot is reset; a killed process runs the     *)
(* call, if it was allowed, and exits on its way back to user space.       *)
Leave(p) ==
  /\ confirm_pending_pid' = Idle
  /\ confirm_result' = Pending
  /\ answer' = NoReply
  /\ elapsed' = [elapsed EXCEPT ![p] = 0]
  /\ pc' = [pc EXCEPT ![p] = IF killed[p] THEN "exited" ELSE "user"]
  /\ UNCHANGED <<lockOwner, clock, handler, killed, nreq, wire>>

(* The loop finds an answer: 1 lets the system call through.               *)
Answered(p) ==
  /\ pc[p] = "check"
  /\ lockOwner = Idle
  /\ confirm_result # Pending
  /\ grants' = IF confirm_result = 1
               THEN grants \cup {[pid |-> p, req |-> nreq[p], by |-> answer]}
               ELSE grants
  /\ Leave(p)

(* The loop finds no answer and the time is up: deny.                      *)
Expire(p) ==
  /\ pc[p] = "check"
  /\ lockOwner = Idle
  /\ confirm_result = Pending
  /\ elapsed[p] >= Timeout
  /\ UNCHANGED grants
  /\ Leave(p)

(* Mutant: confirm_lock is released before sleep() makes the caller        *)
(* SLEEPING.                                                               *)
PrepareSleepUnlocked(p) ==
  /\ pc[p] = "check"
  /\ lockOwner = Idle
  /\ confirm_result = Pending
  /\ elapsed[p] < Timeout
  /\ pc' = [pc EXCEPT ![p] = "dosleep"]
  /\ UNCHANGED <<slot, lockOwner, elapsed, clock, handler, killed, nreq, wire, grants>>

(* The loop decides to wait, and calls sleep() with confirm_lock held: a   *)
(* tick may fall between this step and the next.                           *)
PrepareSleep(p) ==
  /\ pc[p] = "check"
  /\ lockOwner = Idle
  /\ confirm_result = Pending
  /\ elapsed[p] < Timeout
  /\ lockOwner' = p
  /\ pc' = [pc EXCEPT ![p] = "dosleep"]
  /\ UNCHANGED <<slot, elapsed, clock, handler, killed, nreq, wire, grants>>

(* sleep(): under p->lock, release confirm_lock and become SLEEPING.       *)
Sleep(p) ==
  /\ pc[p] = "dosleep"
  /\ lockOwner' = Idle
  /\ pc' = [pc EXCEPT ![p] = "asleep"]
  /\ UNCHANGED <<slot, elapsed, clock, handler, killed, nreq, wire, grants>>

-----------------------------------------------------------------------------
(* clockintr on CPU 0: ticks++ under tickslock ...                         *)
Tick ==
  /\ clock = "idle"
  /\ clock' = "ticked"
  /\ elapsed' = [p \in Agents |->
                   IF pc[p] \in Timing /\ elapsed[p] < Timeout
                   THEN elapsed[p] + 1 ELSE elapsed[p]]
  /\ UNCHANGED <<slot, lockOwner, pc, handler, killed, nreq, wire, grants>>

(* Mutant: clockintr does not call confirm_tick().                         *)
ConfirmTickMissing ==
  /\ clock = "ticked"
  /\ clock' = "idle"
  /\ UNCHANGED <<slot, lockOwner, pc, elapsed, handler, killed, nreq, wire, grants>>

(* ... then confirm_tick(), which reads the pending pid without the lock.  *)
ConfirmTick ==
  /\ clock = "ticked"
  /\ clock' = "idle"
  /\ pc' = IF confirm_pending_pid # Idle THEN Woken(pc) ELSE pc
  /\ UNCHANGED <<slot, lockOwner, elapsed, handler, killed, nreq, wire, grants>>

(* Mutant: the pid of the reply is not compared with the pending one.      *)
ResolveAnyPid(h, m) ==
  /\ handler[h] = "idle"
  /\ m \in replies
  /\ lockOwner = Idle
  /\ replies' = replies \ {m}
  /\ IF confirm_pending_pid # Idle /\ confirm_result = Pending
     THEN /\ confirm_result' = IF m.allow THEN 1 ELSE 0
          /\ answer' = m
     ELSE UNCHANGED <<confirm_result, answer>>
  /\ handler' = [handler EXCEPT ![h] = "wake"]
  /\ UNCHANGED <<confirm_pending_pid, lockOwner, pc, elapsed, clock, killed,
                 nreq, prompts, yes, grants>>

(* confirm_resolve(pid, allow), its locked part ...                        *)
Resolve(h, m) ==
  /\ handler[h] = "idle"
  /\ m \in replies
  /\ lockOwner = Idle
  /\ replies' = replies \ {m}
  /\ IF confirm_pending_pid = m.pid /\ confirm_result = Pending
     THEN /\ confirm_result' = IF m.allow THEN 1 ELSE 0
          /\ answer' = m
     ELSE UNCHANGED <<confirm_result, answer>>
  /\ handler' = [handler EXCEPT ![h] = "wake"]
  /\ UNCHANGED <<confirm_pending_pid, lockOwner, pc, elapsed, clock, killed,
                 nreq, prompts, yes, grants>>

(* ... and its wakeup, after the lock is released.                         *)
ResolveWake(h) ==
  /\ handler[h] = "wake"
  /\ handler' = [handler EXCEPT ![h] = "idle"]
  /\ pc' = Woken(pc)
  /\ UNCHANGED <<slot, lockOwner, elapsed, clock, killed, nreq, wire, grants>>

(* kkill(p): sets p->killed and wakes a sleeper on any channel.            *)
Kill(p) ==
  /\ ~killed[p]
  /\ pc[p] # "exited"
  /\ killed' = [killed EXCEPT ![p] = TRUE]
  /\ pc' = CASE pc[p] = "asleep" -> [pc EXCEPT ![p] = "check"]
             [] pc[p] = "user"   -> [pc EXCEPT ![p] = "exited"]
             [] OTHER            -> pc
  /\ UNCHANGED <<slot, lockOwner, elapsed, clock, handler, nreq, wire, grants>>

(* agent.py _handle_confirm_req: the user answers, late or never.          *)
HostAnswer(p, n, a) ==
  /\ <<p, n>> \in prompts
  /\ prompts' = prompts \ {<<p, n>>}
  /\ replies' = replies \cup {[pid |-> p, req |-> n, allow |-> a]}
  /\ yes' = IF a THEN yes \cup {<<p, n>>} ELSE yes
  /\ UNCHANGED <<slot, lockOwner, pc, elapsed, clock, handler, killed, nreq, grants>>

-----------------------------------------------------------------------------
Request(p) == Refuse(p) \/ Register(p)
Proceed(p) == \/ PrintReq(p) \/ Stamp(p) \/ Answered(p) \/ Expire(p)
              \/ PrepareSleep(p) \/ Sleep(p)
Timer == Tick \/ ConfirmTick

Next ==
  \/ \E p \in Agents : Request(p) \/ Proceed(p) \/ Kill(p)
  \/ Timer
  \/ \E h \in Handlers : ResolveWake(h) \/ \E m \in replies : Resolve(h, m)
  \/ \E p \in Agents, n \in 1 .. MaxReqs, a \in BOOLEAN : HostAnswer(p, n, a)

Spec == Init /\ [][Next]_vars

(* The scheduler runs every runnable process and the clock keeps ticking.  *)
(* Nothing is assumed of the host user, of kill, or of further requests.   *)
Fairness == WF_vars(Timer) /\ \A p \in Agents : WF_vars(Proceed(p))

FairSpec == Spec /\ Fairness
-----------------------------------------------------------------------------
(* Type correctness of the state of confirm.c and of the history.          *)
TypeOK ==
  /\ confirm_pending_pid \in Agents \cup {Idle}
  /\ confirm_result \in {Pending, 0, 1}
  /\ lockOwner \in Agents \cup {Idle}
  /\ pc \in [Agents -> PcStates]
  /\ elapsed \in [Agents -> 0 .. Timeout]
  /\ clock \in {"idle", "ticked"}
  /\ handler \in [Handlers -> {"idle", "wake"}]
  /\ killed \in [Agents -> BOOLEAN]
  /\ nreq \in [Agents -> 0 .. MaxReqs]
  /\ prompts \subseteq Prompt
  /\ replies \subseteq Reply
  /\ yes \subseteq Prompt
  /\ answer \in Reply \cup {NoReply}
  /\ grants \subseteq Grant

(* confirm_pending_pid names exactly the process that is inside the        *)
(* waiting part of confirm_request, through kills, timeouts and answers:   *)
(* the slot is never shared, and never left behind by a process that is    *)
(* gone (which would deny every later gated call).                         *)
SlotMatchesWaiter ==
  \A p \in Agents : pc[p] \in Inside <=> confirm_pending_pid = p

(* Every gated call let through was let through by a y of the host user to *)
(* a prompt of that same process, and no y lets two calls through, however *)
(* late replies, timeouts, kills and new requests interleave.              *)
OneShot ==
  /\ \A g \in grants : /\ g.by.allow
                        /\ g.by.pid = g.pid
                        /\ <<g.by.pid, g.by.req>> \in yes
  /\ \A g1, g2 \in grants : g1.by = g2.by => g1 = g2

(* The wakeup of confirm_resolve is never lost: a waiter that is asleep    *)
(* with an answer in the slot has a handler about to call wakeup.          *)
NoLostWakeup ==
  \A p \in Agents :
    pc[p] = "asleep" /\ confirm_result # Pending
      => \E h \in Handlers : handler[h] = "wake"

(* A gated call never hangs: it returns even if the host never answers.    *)
EveryCallReturns ==
  \A p \in Agents : pc[p] = "print" ~> pc[p] \in {"user", "exited"}

(* What syscall.c and confirm.c say of an approval: the user was asked     *)
(* about this very call and allowed it.                                    *)
ApprovalIsForThisCall == \A g \in grants : g.by.req = g.req

(* The y answers that have let a call through.                             *)
Spent == {<<g.by.pid, g.by.req>> : g \in grants}

(* Refinement: the kernel code implements the abstract gate.               *)
Gate == INSTANCE ConfirmGate WITH
          Pids <- Agents, NoPid <- Idle, Numbers <- 1 .. MaxReqs,
          gated <- confirm_pending_pid, given <- yes,
          spent <- Spent

(* Every behaviour of confirm.c is one of the abstract gate: each let-     *)
(* through call spends a y of its own process that nobody spent before.    *)
ImplementsGate == Gate!Spec
=============================================================================

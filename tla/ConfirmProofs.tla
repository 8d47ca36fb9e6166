---------------------------- MODULE ConfirmProofs ----------------------------
(***************************************************************************)
(* Proofs about Confirm for any set of agents, any number of requests, any *)
(* timeout and any number of contexts that deliver replies.                *)
(***************************************************************************)
EXTENDS Confirm, TLAPS

(* A process inside confirm_request has counted its request.               *)
CountInv == \A p \in Agents : pc[p] \in Inside => nreq[p] >= 1

(* The lock is kept across a step only by the agent about to sleep.        *)
LockInv ==
  /\ lockOwner # Idle => pc[lockOwner] = "dosleep"
  /\ \A p \in Agents : pc[p] = "dosleep" => lockOwner = p

(* The contents of the slot: a result has an answer to the pending process *)
(* behind it.                                                              *)
SlotInv ==
  /\ confirm_result = Pending <=> answer = NoReply
  /\ confirm_result = 1 <=> answer.allow
  /\ answer # NoReply => answer.pid = confirm_pending_pid
  /\ \A p \in Agents : pc[p] = "dosleep" => confirm_result = Pending

(* A prompt belongs to a request already made, and the current request has *)
(* no prompt before it is printed.                                         *)
Shown(p, n) == n <= nreq[p] /\ (pc[p] = "print" => n < nreq[p])

(* A request number is in one place: an open prompt, a reply on its way,   *)
(* the answer in the slot, or a grant.                                     *)
StageInv ==
  /\ \A p \in Agents, n \in 1 .. MaxReqs :
       /\ <<p, n>> \in prompts =>
            /\ Shown(p, n)
            /\ \A m \in replies : ~(m.pid = p /\ m.req = n)
            /\ ~(answer.pid = p /\ answer.req = n)
            /\ \A g \in grants : ~(g.by.pid = p /\ g.by.req = n)
       /\ <<p, n>> \in yes => Shown(p, n)
  /\ \A m \in replies :
       /\ Shown(m.pid, m.req)
       /\ m.allow => <<m.pid, m.req>> \in yes
       /\ ~(answer.pid = m.pid /\ answer.req = m.req)
       /\ \A g \in grants : ~(g.by.pid = m.pid /\ g.by.req = m.req)
  /\ \A m1, m2 \in replies : m1.pid = m2.pid /\ m1.req = m2.req => m1 = m2
  /\ answer # NoReply =>
       /\ Shown(answer.pid, answer.req)
       /\ answer.allow => <<answer.pid, answer.req>> \in yes
       /\ \A g \in grants : ~(g.by.pid = answer.pid /\ g.by.req = answer.req)
  /\ \A g \in grants : Shown(g.by.pid, g.by.req)

Agreement == CountInv /\ SlotMatchesWaiter /\ LockInv /\ SlotInv
CoreInv   == TypeOK /\ Agreement

IInv      == CoreInv /\ StageInv /\ OneShot /\ NoLostWakeup

-----------------------------------------------------------------------------
(* Every step keeps the types.                                             *)
LEMMA TypeStep == CoreInv /\ [Next]_vars => TypeOK'
<1> SUFFICES ASSUME CoreInv, [Next]_vars PROVE TypeOK'
  OBVIOUS
<1> USE DEF CoreInv, Agreement, CountInv, SlotInv, TypeOK, Idle, Pending,
        NoReply, Inside, PcStates, Prompt, Reply, Grant
<1>1. ASSUME NEW p \in Agents, Refuse(p) PROVE TypeOK'
  BY <1>1, ConfirmAssumption DEF Refuse, slot, wire, MayCall
<1>2. ASSUME NEW p \in Agents, Register(p) PROVE TypeOK'
  BY <1>2, ConfirmAssumption DEF Register, slot, wire, MayCall
<1>3. ASSUME NEW p \in Agents, PrintReq(p) PROVE TypeOK'
  BY <1>3, ConfirmAssumption DEF PrintReq, slot, wire
<1>4. ASSUME NEW p \in Agents, Stamp(p) PROVE TypeOK'
  BY <1>4, ConfirmAssumption DEF Stamp, slot, wire
<1>5. ASSUME NEW p \in Agents, Answered(p) PROVE TypeOK'
  BY <1>5, ConfirmAssumption DEF Answered, slot, wire, Leave
<1>6. ASSUME NEW p \in Agents, Expire(p) PROVE TypeOK'
  BY <1>6, ConfirmAssumption DEF Expire, slot, wire, Leave
<1>7. ASSUME NEW p \in Agents, PrepareSleep(p) PROVE TypeOK'
  BY <1>7, ConfirmAssumption DEF PrepareSleep, slot, wire
<1>8. ASSUME NEW p \in Agents, Sleep(p) PROVE TypeOK'
  BY <1>8, ConfirmAssumption DEF Sleep, slot, wire
<1>9. ASSUME NEW p \in Agents, Kill(p) PROVE TypeOK'
  BY <1>9, ConfirmAssumption DEF Kill, slot, wire
<1>10. CASE Tick
  BY <1>10, ConfirmAssumption DEF Tick, slot, wire
<1>11. CASE ConfirmTick
  BY <1>11, ConfirmAssumption DEF ConfirmTick, slot, wire, Woken
<1>12. ASSUME NEW h \in Handlers, NEW m \in replies, Resolve(h, m)
       PROVE  TypeOK'
  BY <1>12, ConfirmAssumption DEF Resolve, slot, wire
<1>13. ASSUME NEW h \in Handlers, ResolveWake(h) PROVE TypeOK'
  BY <1>13, ConfirmAssumption DEF ResolveWake, slot, wire, Woken
<1>14. ASSUME NEW p \in Agents, NEW n \in 1 .. MaxReqs, NEW a \in BOOLEAN,
              HostAnswer(p, n, a)
       PROVE  TypeOK'
  BY <1>14, ConfirmAssumption DEF HostAnswer, slot, wire
<1>15. CASE UNCHANGED vars
  BY <1>15, ConfirmAssumption DEF vars, slot, wire
<1> HIDE DEF CoreInv, TypeOK
<1> QED
  BY <1>1, <1>2, <1>3, <1>4, <1>5, <1>6, <1>7, <1>8, <1>9, <1>10, <1>11, <1>12,
     <1>13, <1>14, <1>15 DEF Next, Request, Proceed, Timer

(* Every step keeps the slot, the lock and the waiter in agreement.        *)
LEMMA SlotStep == CoreInv /\ [Next]_vars => Agreement'
<1> SUFFICES ASSUME CoreInv, [Next]_vars PROVE Agreement'
  OBVIOUS
<1> USE DEF CoreInv, Agreement, CountInv, TypeOK, SlotMatchesWaiter, LockInv,
        SlotInv, Idle, Pending, NoReply, Inside, PcStates, Reply
<1>1. ASSUME NEW p \in Agents, Refuse(p) PROVE Agreement'
  BY <1>1, ConfirmAssumption DEF Refuse, slot, wire, MayCall
<1>2. ASSUME NEW p \in Agents, Register(p) PROVE Agreement'
  BY <1>2, ConfirmAssumption DEF Register, slot, wire, MayCall
<1>3. ASSUME NEW p \in Agents, PrintReq(p) PROVE Agreement'
  BY <1>3, ConfirmAssumption DEF PrintReq, slot, wire
<1>4. ASSUME NEW p \in Agents, Stamp(p) PROVE Agreement'
  BY <1>4, ConfirmAssumption DEF Stamp, slot, wire
<1>5. ASSUME NEW p \in Agents, Answered(p) PROVE Agreement'
  BY <1>5, ConfirmAssumption DEF Answered, slot, wire, Leave
<1>6. ASSUME NEW p \in Agents, Expire(p) PROVE Agreement'
  BY <1>6, ConfirmAssumption DEF Expire, slot, wire, Leave
<1>7. ASSUME NEW p \in Agents, PrepareSleep(p) PROVE Agreement'
  BY <1>7, ConfirmAssumption DEF PrepareSleep, slot, wire
<1>8. ASSUME NEW p \in Agents, Sleep(p) PROVE Agreement'
  BY <1>8, ConfirmAssumption DEF Sleep, slot, wire
<1>9. ASSUME NEW p \in Agents, Kill(p) PROVE Agreement'
  BY <1>9, ConfirmAssumption DEF Kill, slot, wire
<1>10. CASE Tick
  BY <1>10, ConfirmAssumption DEF Tick, slot, wire
<1>11. CASE ConfirmTick
  BY <1>11, ConfirmAssumption DEF ConfirmTick, slot, wire, Woken
<1>12. ASSUME NEW h \in Handlers, NEW m \in replies, Resolve(h, m)
       PROVE  Agreement'
  BY <1>12, ConfirmAssumption DEF Resolve, slot, wire
<1>13. ASSUME NEW h \in Handlers, ResolveWake(h) PROVE Agreement'
  BY <1>13, ConfirmAssumption DEF ResolveWake, slot, wire, Woken
<1>14. ASSUME NEW p \in Agents, NEW n \in 1 .. MaxReqs, NEW a \in BOOLEAN,
              HostAnswer(p, n, a)
       PROVE  Agreement'
  BY <1>14, ConfirmAssumption DEF HostAnswer, slot, wire
<1>15. CASE UNCHANGED vars
  BY <1>15, ConfirmAssumption DEF vars, slot, wire
<1> HIDE DEF CoreInv, Agreement
<1> QED
  BY <1>1, <1>2, <1>3, <1>4, <1>5, <1>6, <1>7, <1>8, <1>9, <1>10, <1>11, <1>12,
     <1>13, <1>14, <1>15 DEF Next, Request, Proceed, Timer

(* Every step moves a request number only from one stage to the next.      *)
LEMMA StageStep == CoreInv /\ StageInv /\ [Next]_vars => StageInv'
<1> SUFFICES ASSUME CoreInv, StageInv, [Next]_vars PROVE StageInv'
  OBVIOUS
<1> USE DEF CoreInv, Agreement, CountInv, TypeOK, SlotMatchesWaiter, SlotInv,
        StageInv, Shown, Idle, Pending, NoReply, Inside, PcStates, Prompt,
        Reply, Grant
<1>1. ASSUME NEW p \in Agents, Refuse(p) PROVE StageInv'
  BY <1>1, ConfirmAssumption DEF Refuse, slot, wire, MayCall
<1>2. ASSUME NEW p \in Agents, Register(p) PROVE StageInv'
  BY <1>2, ConfirmAssumption DEF Register, slot, wire, MayCall
<1>3. ASSUME NEW p \in Agents, PrintReq(p) PROVE StageInv'
  BY <1>3, ConfirmAssumption DEF PrintReq, slot, wire
<1>4. ASSUME NEW p \in Agents, Stamp(p) PROVE StageInv'
  BY <1>4, ConfirmAssumption DEF Stamp, slot, wire
<1>5. ASSUME NEW p \in Agents, Answered(p) PROVE StageInv'
  BY <1>5, ConfirmAssumption DEF Answered, slot, wire, Leave
<1>6. ASSUME NEW p \in Agents, Expire(p) PROVE StageInv'
  BY <1>6, ConfirmAssumption DEF Expire, slot, wire, Leave
<1>7. ASSUME NEW p \in Agents, PrepareSleep(p) PROVE StageInv'
  BY <1>7, ConfirmAssumption DEF PrepareSleep, slot, wire
<1>8. ASSUME NEW p \in Agents, Sleep(p) PROVE StageInv'
  BY <1>8, ConfirmAssumption DEF Sleep, slot, wire
<1>9. ASSUME NEW p \in Agents, Kill(p) PROVE StageInv'
  BY <1>9, ConfirmAssumption DEF Kill, slot, wire
<1>10. CASE Tick
  BY <1>10, ConfirmAssumption DEF Tick, slot, wire
<1>11. CASE ConfirmTick
  BY <1>11, ConfirmAssumption DEF ConfirmTick, slot, wire, Woken
<1>12. ASSUME NEW h \in Handlers, NEW m \in replies, Resolve(h, m)
       PROVE  StageInv'
  BY <1>12, ConfirmAssumption DEF Resolve, slot, wire
<1>13. ASSUME NEW h \in Handlers, ResolveWake(h) PROVE StageInv'
  BY <1>13, ConfirmAssumption DEF ResolveWake, slot, wire, Woken
<1>14. ASSUME NEW p \in Agents, NEW n \in 1 .. MaxReqs, NEW a \in BOOLEAN,
              HostAnswer(p, n, a)
       PROVE  StageInv'
  BY <1>14, ConfirmAssumption DEF HostAnswer, slot, wire
<1>15. CASE UNCHANGED vars
  BY <1>15, ConfirmAssumption DEF vars, slot, wire
<1> HIDE DEF CoreInv, StageInv
<1> QED
  BY <1>1, <1>2, <1>3, <1>4, <1>5, <1>6, <1>7, <1>8, <1>9, <1>10, <1>11, <1>12,
     <1>13, <1>14, <1>15 DEF Next, Request, Proceed, Timer

(* No step lets a call through without a y of its own.                     *)
LEMMA OneShotStep == CoreInv /\ StageInv /\ OneShot /\ [Next]_vars => OneShot'
<1> SUFFICES ASSUME CoreInv, StageInv, OneShot, [Next]_vars PROVE OneShot'
  OBVIOUS
<1> USE DEF CoreInv, Agreement, TypeOK, SlotMatchesWaiter, SlotInv, StageInv,
        OneShot, Idle, Pending, NoReply, Inside, Prompt, Reply, Grant
<1>1. ASSUME NEW p \in Agents, Refuse(p) PROVE OneShot'
  BY <1>1, ConfirmAssumption DEF Refuse, slot, wire, MayCall
<1>2. ASSUME NEW p \in Agents, Register(p) PROVE OneShot'
  BY <1>2, ConfirmAssumption DEF Register, slot, wire, MayCall
<1>3. ASSUME NEW p \in Agents, PrintReq(p) PROVE OneShot'
  BY <1>3, ConfirmAssumption DEF PrintReq, slot, wire
<1>4. ASSUME NEW p \in Agents, Stamp(p) PROVE OneShot'
  BY <1>4, ConfirmAssumption DEF Stamp, slot, wire
<1>5. ASSUME NEW p \in Agents, Answered(p) PROVE OneShot'
  BY <1>5, ConfirmAssumption DEF Answered, slot, wire, Leave
<1>6. ASSUME NEW p \in Agents, Expire(p) PROVE OneShot'
  BY <1>6, ConfirmAssumption DEF Expire, slot, wire, Leave
<1>7. ASSUME NEW p \in Agents, PrepareSleep(p) PROVE OneShot'
  BY <1>7, ConfirmAssumption DEF PrepareSleep, slot, wire
<1>8. ASSUME NEW p \in Agents, Sleep(p) PROVE OneShot'
  BY <1>8, ConfirmAssumption DEF Sleep, slot, wire
<1>9. ASSUME NEW p \in Agents, Kill(p) PROVE OneShot'
  BY <1>9, ConfirmAssumption DEF Kill, slot, wire
<1>10. CASE Tick
  BY <1>10, ConfirmAssumption DEF Tick, slot, wire
<1>11. CASE ConfirmTick
  BY <1>11, ConfirmAssumption DEF ConfirmTick, slot, wire, Woken
<1>12. ASSUME NEW h \in Handlers, NEW m \in replies, Resolve(h, m)
       PROVE  OneShot'
  BY <1>12, ConfirmAssumption DEF Resolve, slot, wire
<1>13. ASSUME NEW h \in Handlers, ResolveWake(h) PROVE OneShot'
  BY <1>13, ConfirmAssumption DEF ResolveWake, slot, wire, Woken
<1>14. ASSUME NEW p \in Agents, NEW n \in 1 .. MaxReqs, NEW a \in BOOLEAN,
              HostAnswer(p, n, a)
       PROVE  OneShot'
  BY <1>14, ConfirmAssumption DEF HostAnswer, slot, wire
<1>15. CASE UNCHANGED vars
  BY <1>15, ConfirmAssumption DEF vars, slot, wire
<1> HIDE DEF CoreInv, OneShot
<1> QED
  BY <1>1, <1>2, <1>3, <1>4, <1>5, <1>6, <1>7, <1>8, <1>9, <1>10, <1>11, <1>12,
     <1>13, <1>14, <1>15 DEF Next, Request, Proceed, Timer

(* No step loses the wakeup of an answer.                                  *)
LEMMA WakeStep == CoreInv /\ NoLostWakeup /\ [Next]_vars => NoLostWakeup'
<1> SUFFICES ASSUME CoreInv, NoLostWakeup, [Next]_vars PROVE NoLostWakeup'
  OBVIOUS
<1> USE DEF CoreInv, Agreement, TypeOK, SlotMatchesWaiter, SlotInv,
        NoLostWakeup, Idle, Pending, NoReply, Inside, PcStates
<1>1. ASSUME NEW p \in Agents, Refuse(p) PROVE NoLostWakeup'
  BY <1>1, ConfirmAssumption DEF Refuse, slot, wire, MayCall
<1>2. ASSUME NEW p \in Agents, Register(p) PROVE NoLostWakeup'
  BY <1>2, ConfirmAssumption DEF Register, slot, wire, MayCall
<1>3. ASSUME NEW p \in Agents, PrintReq(p) PROVE NoLostWakeup'
  BY <1>3, ConfirmAssumption DEF PrintReq, slot, wire
<1>4. ASSUME NEW p \in Agents, Stamp(p) PROVE NoLostWakeup'
  BY <1>4, ConfirmAssumption DEF Stamp, slot, wire
<1>5. ASSUME NEW p \in Agents, Answered(p) PROVE NoLostWakeup'
  BY <1>5, ConfirmAssumption DEF Answered, slot, wire, Leave
<1>6. ASSUME NEW p \in Agents, Expire(p) PROVE NoLostWakeup'
  BY <1>6, ConfirmAssumption DEF Expire, slot, wire, Leave
<1>7. ASSUME NEW p \in Agents, PrepareSleep(p) PROVE NoLostWakeup'
  BY <1>7, ConfirmAssumption DEF PrepareSleep, slot, wire
<1>8. ASSUME NEW p \in Agents, Sleep(p) PROVE NoLostWakeup'
  BY <1>8, ConfirmAssumption DEF Sleep, slot, wire
<1>9. ASSUME NEW p \in Agents, Kill(p) PROVE NoLostWakeup'
  BY <1>9, ConfirmAssumption DEF Kill, slot, wire
<1>10. CASE Tick
  BY <1>10, ConfirmAssumption DEF Tick, slot, wire
<1>11. CASE ConfirmTick
  BY <1>11, ConfirmAssumption DEF ConfirmTick, slot, wire, Woken
<1>12. ASSUME NEW h \in Handlers, NEW m \in replies, Resolve(h, m)
       PROVE  NoLostWakeup'
  BY <1>12, ConfirmAssumption DEF Resolve, slot, wire
<1>13. ASSUME NEW h \in Handlers, ResolveWake(h) PROVE NoLostWakeup'
  BY <1>13, ConfirmAssumption DEF ResolveWake, slot, wire, Woken
<1>14. ASSUME NEW p \in Agents, NEW n \in 1 .. MaxReqs, NEW a \in BOOLEAN,
              HostAnswer(p, n, a)
       PROVE  NoLostWakeup'
  BY <1>14, ConfirmAssumption DEF HostAnswer, slot, wire
<1>15. CASE UNCHANGED vars
  BY <1>15, ConfirmAssumption DEF vars, slot, wire
<1> HIDE DEF CoreInv, NoLostWakeup
<1> QED
  BY <1>1, <1>2, <1>3, <1>4, <1>5, <1>6, <1>7, <1>8, <1>9, <1>10, <1>11, <1>12,
     <1>13, <1>14, <1>15 DEF Next, Request, Proceed, Timer

-----------------------------------------------------------------------------
(* The initial states satisfy the inductive invariant.                     *)
LEMMA InitIInv == Init => IInv
<1> SUFFICES ASSUME Init PROVE IInv
  OBVIOUS
<1> USE DEF Init, Idle, Pending, NoReply, Inside
<1>1. TypeOK
  BY ConfirmAssumption DEF TypeOK, PcStates, Prompt, Reply, Grant
<1>2. Agreement
  BY ConfirmAssumption DEF Agreement, CountInv, SlotMatchesWaiter, LockInv,
     SlotInv
<1>3. StageInv /\ OneShot /\ NoLostWakeup
  BY ConfirmAssumption DEF StageInv, OneShot, NoLostWakeup
<1> HIDE DEF Init
<1> QED
  BY <1>1, <1>2, <1>3 DEF IInv, CoreInv

(* The conjunction is inductive: this is the fact every theorem rests on.  *)
THEOREM Invariance == Spec => []IInv
<1>1. IInv /\ [Next]_vars => IInv'
  BY TypeStep, SlotStep, StageStep, OneShotStep, WakeStep DEF IInv, CoreInv
<1> QED
  BY InitIInv, <1>1, PTL DEF Spec

(* The variables of confirm.c keep their types: the result is -1, 0 or 1   *)
(* and the pending pid is 0 or an agent, whatever interleaving happens.    *)
THEOREM TypeCorrect == Spec => []TypeOK
  BY Invariance, PTL DEF IInv, CoreInv

(* The pending pid names exactly the process inside confirm_request.       *)
THEOREM SlotCorrect == Spec => []SlotMatchesWaiter
  BY Invariance, PTL DEF IInv, CoreInv, Agreement

(* A y of the host user lets at most one call through, of the process that *)
(* was asked.                                                              *)
THEOREM OneShotCorrect == Spec => []OneShot
  BY Invariance, PTL DEF IInv

(* An answer in the slot never leaves the waiter asleep without a wakeup.  *)
THEOREM WakeupCorrect == Spec => []NoLostWakeup
  BY Invariance, PTL DEF IInv

-----------------------------------------------------------------------------
(* A call that is let through spends a y nobody spent before.              *)
LEMMA AnsweredRefines ==
  ASSUME IInv, NEW p \in Agents, Answered(p)
  PROVE  Gate!TurnAway \/ \E n \in 1 .. MaxReqs : Gate!LetThrough(n)
<1> USE ConfirmAssumption DEF IInv, CoreInv, Agreement, TypeOK,
        SlotMatchesWaiter,
        SlotInv, StageInv, Idle, Pending, NoReply, Inside, Answered, Leave, wire
<1>1. confirm_pending_pid = p /\ p # 0 /\ confirm_pending_pid' = 0 /\ yes' = yes
  OBVIOUS
<1>2. CASE confirm_result = 1
  <2>1. answer \in Reply /\ answer.pid = p /\ <<p, answer.req>> \in yes
    BY <1>1, <1>2
  <2>2. answer.req \in 1 .. MaxReqs
    BY <2>1 DEF Reply
  <2>3. ASSUME NEW g \in grants, <<p, answer.req>> = <<g.by.pid, g.by.req>>
        PROVE  FALSE
    <3>1. g.by.pid = answer.pid /\ g.by.req = answer.req
      BY <2>1, <2>3
    <3> QED
      BY <3>1, <1>2
  <2>4. Spent' = Spent \cup {<<p, answer.req>>}
    <3> DEFINE r == [pid |-> p, req |-> nreq[p], by |-> answer]
    <3>1. grants' = grants \cup {r}
      BY <1>2
    <3>2. r.by.pid = p /\ r.by.req = answer.req
      BY <2>1
    <3> HIDE DEF r
    <3>3. ASSUME NEW x
          PROVE  x \in Spent' <=> x \in Spent \cup {<<p, answer.req>>}
      BY <3>1, <3>2 DEF Spent
    <3> QED
      BY <3>3
  <2>5. Gate!LetThrough(answer.req)
    BY <1>1, <2>1, <2>3, <2>4 DEF Gate!LetThrough, Spent
  <2> QED
    BY <2>2, <2>5
<1>3. CASE confirm_result # 1
  BY <1>1, <1>3 DEF Gate!TurnAway, Spent
<1> QED
  BY <1>2, <1>3

(* Every step of confirm.c is a step of the abstract gate or leaves its    *)
(* state alone.                                                            *)
LEMMA StepRefines == IInv /\ [Next]_vars => [Gate!Next]_(Gate!gateVars)
<1> SUFFICES ASSUME IInv, [Next]_vars PROVE [Gate!Next]_(Gate!gateVars)
  OBVIOUS
<1> DEFINE Quiet == UNCHANGED <<confirm_pending_pid, yes, grants>>
<1>1. Quiet => UNCHANGED Gate!gateVars
  BY DEF Gate!gateVars, Spent
<1>2. ASSUME NEW p \in Agents,
             \/ Refuse(p) \/ PrintReq(p) \/ Stamp(p) \/ PrepareSleep(p)
             \/ Sleep(p) \/ Kill(p)
      PROVE  Quiet
  BY <1>2 DEF Refuse, PrintReq, Stamp, PrepareSleep, Sleep, Kill, slot, wire
<1>3. Tick \/ ConfirmTick \/ UNCHANGED vars => Quiet
  BY DEF Tick, ConfirmTick, slot, wire, vars
<1>4. ASSUME NEW h \in Handlers, NEW m \in replies, Resolve(h, m) \/ ResolveWake(h)
      PROVE  Quiet
  BY <1>4 DEF Resolve, ResolveWake, slot, wire
<1>5. ASSUME NEW h \in Handlers, ResolveWake(h) PROVE Quiet
  BY <1>5 DEF ResolveWake, slot, wire
<1>6. ASSUME NEW p \in Agents, Register(p) PROVE Gate!Ask(p)
  BY <1>6 DEF Register, wire, Gate!Ask, Spent
<1>7. ASSUME NEW p \in Agents, Expire(p) PROVE Gate!TurnAway
  <2>1. confirm_pending_pid = p /\ p # Idle
    BY <1>7, ConfirmAssumption
       DEF Expire, IInv, CoreInv, Agreement, SlotMatchesWaiter, Inside, Idle
  <2> QED
    BY <1>7, <2>1 DEF Expire, Leave, wire, Gate!TurnAway, Spent
<1>8. ASSUME NEW p \in Agents, NEW n \in 1 .. MaxReqs, NEW a \in BOOLEAN,
             HostAnswer(p, n, a)
      PROVE  Gate!SayYes(p, n) \/ Quiet
  BY <1>8 DEF HostAnswer, slot, Gate!SayYes, Spent
<1> HIDE DEF Quiet
<1> QED
  BY <1>1, <1>2, <1>3, <1>4, <1>5, <1>6, <1>7, <1>8, AnsweredRefines
     DEF Next, Request, Proceed, Timer, Gate!Next

(* confirm.c implements the abstract gate: a call is let through only by   *)
(* spending a y given to a prompt of the same process, one call per y.     *)
THEOREM Refinement == Spec => ImplementsGate
<1>1. Init => Gate!Init
  BY DEF Init, Gate!Init, Spent
<1> QED
  BY <1>1, StepRefines, Invariance, PTL DEF Spec, ImplementsGate, Gate!Spec
=============================================================================

----------------------------- MODULE SchedProofs -----------------------------
(***************************************************************************)
(* Proofs about what harts do to processes.                                *)
(*                                                                         *)
(* Sched, for any number of harts, slots and priorities, any charge table  *)
(* and any wakeup bonus: which process runs, and how far ahead it gets.    *)
(*                                                                         *)
(* Hart, for any number of harts and processes: locks, interrupts and the  *)
(* trap vector, across traps and context switches.                         *)
(***************************************************************************)
EXTENDS Sched, Hart, FiniteSetTheorems, SequenceTheorems, TLAPS

(* The hart runs a process that is neither charged nor switching out.      *)
Running(c) == cpc[c] = "run" \/ (cpc[c] = "wakeup" /\ back[c] = "run")

(* What a hart holds while it scans.                                       *)
ScanOK(c) ==
  /\ cpc[c] = "test" => pos[c] \in Slots /\ plock[pos[c]] = c
  /\ best[c] # 0 => /\ cpc[c] \in {"scan", "test"}
                    /\ best[c] < pos[c]
                    /\ plock[best[c]] = c
                    /\ state[best[c]] = "RUNNABLE"
  /\ cpc[c] = "wakeup" => best[c] = 0

(* What a hart has while it is on a process's stack.                       *)
StackOK(c) ==
  /\ cur[c] # 0 <=> Running(c) \/ cpc[c] \in {"charged", "switch"}
  /\ Running(c) \/ cpc[c] = "charged" => state[cur[c]] = "RUNNING"
  /\ cpc[c] = "switch" => /\ plock[cur[c]] = c
                          /\ state[cur[c]] \in
                               {"RUNNABLE", "SLEEPING", "ZOMBIE"}

(* The running process is not ahead of min_vruntime until it is charged,   *)
(* and no remembered min_vruntime is ahead of the current one.             *)
PaceOK(c) == /\ Running(c) => vruntime[cur[c]] <= cfs_min_vruntime
             /\ mvr[c] <= cfs_min_vruntime

ScanInv  == \A c \in CPU : ScanOK(c)
StackInv == \A c \in CPU : StackOK(c)
PaceInv  == \A c \in CPU : PaceOK(c)

IInv == /\ TypeOK /\ ScanInv /\ StackInv /\ OneCpuPerStack
        /\ PaceInv /\ BoundedLead

(* A woken process is placed no later than it was, or than min_vruntime.   *)
LEMMA PlacedFact ==
  ASSUME NEW v \in Nat, NEW m \in Nat
  PROVE  Placed(v, m) \in Nat /\ (Placed(v, m) <= v \/ Placed(v, m) <= m)
  BY SchedAssumption DEF Placed, Max2

(* A charge is a natural number within the bound.                          *)
LEMMA ChargeFact ==
  ASSUME TypeOK, NEW p \in Slots
  PROVE  VDelta[priority[p]] \in Nat /\ VDelta[priority[p]] <= MaxDelta
  BY SchedAssumption DEF TypeOK

(* The parts of the invariant at one hart.                                 *)
LEMMA InvAt ==
  ASSUME IInv, NEW c \in CPU
  PROVE  TypeOK /\ ScanOK(c) /\ StackOK(c) /\ PaceOK(c)
  BY DEF IInv, ScanInv, StackInv, PaceInv

(* A hart that runs, charges or switches out is on a process's stack.      *)
LEMMA StackSlot ==
  ASSUME IInv, NEW c \in CPU,
         Running(c) \/ cpc[c] \in {"charged", "switch"}
  PROVE  cur[c] \in Slots
  <1>1. TypeOK /\ StackOK(c)
    BY InvAt
  <1> QED
    BY <1>1, SchedAssumption DEF TypeOK, StackOK, Slots

(* A lock that is free is neither the lock of a chosen slot nor that of a  *)
(* process that switches out.                                              *)
LEMMA FreeSlot ==
  ASSUME IInv, NEW c \in CPU, NEW q \in Slots, plock[q] = NoCpu
  PROVE  best[c] # q /\ (cur[c] = q => Running(c) \/ cpc[c] = "charged")
  <1>1. TypeOK /\ ScanOK(c) /\ StackOK(c)
    BY InvAt
  <1> QED
    BY <1>1, SchedAssumption DEF TypeOK, ScanOK, StackOK, Slots

-----------------------------------------------------------------------------
(* Every step keeps the types.                                             *)
LEMMA TypeStep == IInv /\ [Next]_vars => TypeOK'
<1> SUFFICES ASSUME IInv, [Next]_vars PROVE TypeOK'
  OBVIOUS
<1> TypeOK
  BY InvAt DEF IInv
<1> USE SchedAssumption DEF TypeOK, Slots, States, OnStack
<1>1. ASSUME NEW c \in CPU, ScanAcquire(c) PROVE TypeOK'
  BY <1>1 DEF ScanAcquire, scan, wake
<1>2. ASSUME NEW c \in CPU, ScanTake(c) PROVE TypeOK'
  <2>1. pos[c] \in Slots
    BY <1>2, InvAt DEF ScanTake, ScanOK
  <2>2. pos' \in [CPU -> 1 .. NPROC + 1] /\ best' \in [CPU -> 0 .. NPROC]
    <3>1. pos[c] + 1 \in 1 .. NPROC + 1 /\ pos[c] \in 0 .. NPROC
      BY <2>1
    <3> QED
      BY <1>2, <3>1 DEF ScanTake
  <2>3. plock' \in [Slots -> CPU \cup {NoCpu}]
    BY <1>2, <2>1 DEF ScanTake
  <2> QED
    BY <1>2, <2>2, <2>3 DEF ScanTake, scan, wake
<1>3. ASSUME NEW c \in CPU, ScanSkip(c) PROVE TypeOK'
  <2>1. pos[c] \in Slots
    BY <1>3, InvAt DEF ScanSkip, ScanOK
  <2>2. pos' \in [CPU -> 1 .. NPROC + 1] /\ best' \in [CPU -> 0 .. NPROC]
    <3>1. pos[c] + 1 \in 1 .. NPROC + 1 /\ pos[c] \in 0 .. NPROC
      BY <2>1
    <3> QED
      BY <1>3, <3>1 DEF ScanSkip
  <2>3. plock' \in [Slots -> CPU \cup {NoCpu}]
    BY <1>3, <2>1 DEF ScanSkip
  <2> QED
    BY <1>3, <2>2, <2>3 DEF ScanSkip, scan, wake
<1>4. ASSUME NEW c \in CPU, ScanNothing(c) PROVE TypeOK'
  <2>1. pos' \in [CPU -> 1 .. NPROC + 1]
    BY <1>4 DEF ScanNothing
  <2> QED
    BY <1>4, <2>1 DEF ScanNothing, wake
<1>5. ASSUME NEW c \in CPU, Dispatch(c) PROVE TypeOK'
  <2>1. cfs_min_vruntime' \in Nat /\ best[c] \in Slots
    BY <1>5 DEF Dispatch, Max2
  <2>2. pos' \in [CPU -> 1 .. NPROC + 1] /\ best' \in [CPU -> 0 .. NPROC]
    BY <1>5 DEF Dispatch
  <2>3. state' \in [Slots -> States] /\ cur' \in [CPU -> 0 .. NPROC]
    BY <1>5, <2>1 DEF Dispatch
  <2> QED
    BY <1>5, <2>1, <2>2, <2>3 DEF Dispatch, wake
<1>6. ASSUME NEW c \in CPU, Charge(c) PROVE TypeOK'
  <2>1. cur[c] \in Slots
    BY <1>6, StackSlot DEF Charge, Running
  <2>2. VDelta[priority[cur[c]]] \in Nat
    BY <2>1, ChargeFact
  <2>3. vruntime' \in [Slots -> Nat]
    BY <1>6, <2>1, <2>2 DEF Charge
  <2> QED
    BY <1>6, <2>3 DEF Charge, scan, wake
<1>7. ASSUME NEW c \in CPU, Yield(c) PROVE TypeOK'
  BY <1>7 DEF Yield, scan, wake, GiveUp
<1>8. ASSUME NEW c \in CPU, Sleep(c) PROVE TypeOK'
  BY <1>8 DEF Sleep, scan, wake, GiveUp
<1>9. ASSUME NEW c \in CPU, Exit(c) PROVE TypeOK'
  BY <1>9 DEF Exit, scan, wake, GiveUp
<1>10. ASSUME NEW c \in CPU, SwitchOut(c) PROVE TypeOK'
  <2>1. cur' \in [CPU -> 0 .. NPROC]
    BY <1>10 DEF SwitchOut
  <2>2. cpc' \in [CPU -> {"scan", "test", "wakeup"} \cup OnStack]
    BY <1>10 DEF SwitchOut
  <2>3. plock' \in [Slots -> CPU \cup {NoCpu}]
    BY <1>10, Zenon DEF SwitchOut
  <2> QED
    BY <1>10, <2>1, <2>2, <2>3 DEF SwitchOut, scan, wake
<1>11. ASSUME NEW c \in CPU, WakeupRead(c) PROVE TypeOK'
  BY <1>11 DEF WakeupRead, scan, wake
<1>12. ASSUME NEW c \in CPU, WakeupReturn(c) PROVE TypeOK'
  BY <1>12 DEF WakeupReturn, scan, wake
<1>13. ASSUME NEW c \in CPU, NEW q \in Slots, WakeupOne(c, q) PROVE TypeOK'
  <2>1. Placed(vruntime[q], mvr[c]) \in Nat
    BY PlacedFact
  <2> QED
    BY <1>13, <2>1 DEF WakeupOne, scan, wake
<1>14. ASSUME NEW c \in CPU, NEW q \in Slots, ForkReady(c, q) PROVE TypeOK'
  BY <1>14 DEF ForkReady, scan, wake
<1>15. ASSUME NEW c \in CPU, NEW q \in Slots, Reap(c, q) PROVE TypeOK'
  BY <1>15 DEF Reap, scan, wake
<1>16. ASSUME NEW c \in CPU, NEW q \in Slots, Kill(c, q) PROVE TypeOK'
  BY <1>16 DEF Kill, scan, wake
<1>17. ASSUME NEW c \in CPU, NEW q \in Slots, Fork(c, q) PROVE TypeOK'
  <2>1. cur[c] \in Slots
    BY <1>17, StackSlot DEF Fork, Running
  <2> QED
    BY <1>17, <2>1 DEF Fork, scan, wake
<1>18. ASSUME NEW c \in CPU, NEW q \in Slots, NEW i \in Priorities,
              SetPriority(c, q, i)
       PROVE  TypeOK'
  BY <1>18 DEF SetPriority, scan, wake
<1>19. CASE UNCHANGED vars
  BY <1>19 DEF vars, scan, wake
<1> HIDE SchedAssumption DEF TypeOK, Slots, States, OnStack
<1> QED
  BY <1>1, <1>2, <1>3, <1>4, <1>5, <1>6, <1>7, <1>8, <1>9, <1>10, <1>11, <1>12,
     <1>13, <1>14, <1>15, <1>16, <1>17, <1>18, <1>19 DEF Next, SchedStep,
     SlotStep

(* A hart whose scan a step leaves alone keeps its locks and its choice.   *)
LEMMA ScanFrame ==
  ASSUME NEW d \in CPU, ScanOK(d),
         cpc'[d] = cpc[d], pos'[d] = pos[d], best'[d] = best[d],
         cpc[d] = "test" => plock'[pos[d]] = plock[pos[d]],
         best[d] # 0 => /\ plock'[best[d]] = plock[best[d]]
                        /\ state'[best[d]] = state[best[d]]
  PROVE  ScanOK(d)'
  BY DEF ScanOK

(* Every step keeps the locks of every scan.                               *)
LEMMA ScanStep == IInv /\ [Next]_vars => ScanInv'
<1> SUFFICES ASSUME IInv, [Next]_vars, NEW d \in CPU PROVE ScanOK(d)'
  BY DEF ScanInv
<1> TypeOK /\ ScanOK(d)
  BY InvAt
<1>0. best[d] # 0 => best[d] \in Slots
  BY SchedAssumption DEF TypeOK, Slots
<1>1. ASSUME NEW c \in CPU, ScanAcquire(c) PROVE ScanOK(d)'
  <2>1. pos[c] \in Slots /\ plock[pos[c]] = NoCpu
    BY <1>1 DEF ScanAcquire
  <2>2. /\ best[d] # pos[c]
        /\ cpc[d] = "test" => pos[d] # pos[c] /\ d # c
    BY <1>1, <2>1, FreeSlot, SchedAssumption DEF ScanAcquire, ScanOK
  <2>3. /\ cpc[d] = "test" => plock'[pos[d]] = plock[pos[d]]
        /\ best[d] # 0 => plock'[best[d]] = plock[best[d]]
    BY <1>1, <1>0, <2>2 DEF ScanAcquire, ScanOK, TypeOK
  <2>4. CASE d = c
    BY <1>1, <2>1, <2>3, <2>4 DEF ScanAcquire, ScanOK, TypeOK, scan
  <2>5. CASE d # c
    BY <1>1, <2>3, <2>5, ScanFrame DEF ScanAcquire, TypeOK, scan
  <2> QED
    BY <2>4, <2>5
<1>2. ASSUME NEW c \in CPU, ScanTake(c) PROVE ScanOK(d)'
  <2>1. /\ pos[c] \in Slots /\ plock[pos[c]] = c
        /\ best[c] # 0 => best[c] < pos[c] /\ plock[best[c]] = c
    BY <1>2, InvAt DEF ScanTake, ScanOK
  <2>2. CASE d = c
    <3>1. /\ cpc'[c] = "scan" /\ best'[c] = pos[c] /\ pos'[c] = pos[c] + 1
          /\ state'[pos[c]] = "RUNNABLE"
      BY <1>2 DEF ScanTake, Better, TypeOK
    <3>2. plock'[pos[c]] = c
      BY <1>2, <2>1, SchedAssumption DEF ScanTake, Slots
    <3> QED
      BY <2>1, <2>2, <3>1, <3>2, SchedAssumption DEF ScanOK, Slots
  <2>3. CASE d # c
    <3>1. /\ best[d] # 0 => best[d] # best[c]
          /\ cpc[d] = "test" => pos[d] # best[c]
      BY <2>1, <2>3, SchedAssumption DEF ScanOK, Slots
    <3>2. /\ cpc[d] = "test" => plock'[pos[d]] = plock[pos[d]]
          /\ best[d] # 0 => plock'[best[d]] = plock[best[d]]
      BY <1>2, <1>0, <3>1 DEF ScanTake, ScanOK
    <3> QED
      BY <1>2, <2>3, <3>2, ScanFrame DEF ScanTake, TypeOK
  <2> QED
    BY <2>2, <2>3
<1>3. ASSUME NEW c \in CPU, ScanSkip(c) PROVE ScanOK(d)'
  <2>1. /\ pos[c] \in Slots /\ plock[pos[c]] = c
        /\ best[c] # 0 => best[c] < pos[c]
    BY <1>3, InvAt DEF ScanSkip, ScanOK
  <2>2. best[d] # 0 => best[d] # pos[c]
    BY <2>1, SchedAssumption DEF ScanOK, Slots
  <2>3. best[d] # 0 => plock'[best[d]] = plock[best[d]]
    BY <1>3, <1>0, <2>2 DEF ScanSkip, TypeOK
  <2>4. CASE d = c
    <3>1. /\ cpc'[c] = "scan" /\ pos'[c] = pos[c] + 1
          /\ best' = best /\ state' = state
      BY <1>3 DEF ScanSkip, TypeOK
    <3> QED
      BY <1>0, <2>1, <2>3, <2>4, <3>1, SchedAssumption DEF ScanOK, Slots
  <2>5. CASE d # c
    <3>1. cpc[d] = "test" => plock'[pos[d]] = plock[pos[d]]
      BY <1>3, <2>1, <2>5 DEF ScanSkip, ScanOK, TypeOK
    <3> QED
      BY <1>3, <2>3, <2>5, <3>1, ScanFrame DEF ScanSkip, TypeOK
  <2> QED
    BY <2>4, <2>5
<1>4. ASSUME NEW c \in CPU, ScanNothing(c) PROVE ScanOK(d)'
  BY <1>4 DEF ScanNothing, ScanOK, TypeOK
<1>5. ASSUME NEW c \in CPU, Dispatch(c) PROVE ScanOK(d)'
  <2>1. best[c] # 0 /\ plock[best[c]] = c
    BY <1>5, InvAt DEF Dispatch, ScanOK
  <2>2. CASE d = c
    BY <1>5, <2>2 DEF Dispatch, ScanOK, TypeOK
  <2>3. CASE d # c
    <3>1. /\ best[d] # 0 => best[d] # best[c]
          /\ cpc[d] = "test" => pos[d] # best[c]
      BY <2>1, <2>3 DEF ScanOK
    <3> QED
      BY <1>5, <1>0, <2>3, <3>1, ScanFrame DEF Dispatch, ScanOK, TypeOK
  <2> QED
    BY <2>2, <2>3
<1>6. ASSUME NEW c \in CPU, Charge(c) PROVE ScanOK(d)'
  BY <1>6 DEF Charge, ScanOK, TypeOK, scan
<1>7. ASSUME NEW c \in CPU, Yield(c) PROVE ScanOK(d)'
  <2>1. cur[c] \in Slots /\ plock[cur[c]] = NoCpu
    BY <1>7, StackSlot DEF Yield, GiveUp, Running
  <2>2. best[d] # cur[c] /\ (cpc[d] = "test" => pos[d] # cur[c])
    BY <2>1, FreeSlot, SchedAssumption DEF ScanOK
  <2>3. CASE d = c
    BY <1>7, <2>3 DEF Yield, GiveUp, ScanOK, TypeOK, scan
  <2>4. CASE d # c
    BY <1>7, <1>0, <2>2, <2>4, ScanFrame DEF Yield, GiveUp, ScanOK, TypeOK, scan
  <2> QED
    BY <2>3, <2>4
<1>8. ASSUME NEW c \in CPU, Sleep(c) PROVE ScanOK(d)'
  <2>1. cur[c] \in Slots /\ plock[cur[c]] = NoCpu
    BY <1>8, StackSlot DEF Sleep, GiveUp, Running
  <2>2. best[d] # cur[c] /\ (cpc[d] = "test" => pos[d] # cur[c])
    BY <2>1, FreeSlot, SchedAssumption DEF ScanOK
  <2>3. CASE d = c
    BY <1>8, <2>3 DEF Sleep, GiveUp, ScanOK, TypeOK, scan
  <2>4. CASE d # c
    BY <1>8, <1>0, <2>2, <2>4, ScanFrame DEF Sleep, GiveUp, ScanOK, TypeOK, scan
  <2> QED
    BY <2>3, <2>4
<1>9. ASSUME NEW c \in CPU, Exit(c) PROVE ScanOK(d)'
  <2>1. cur[c] \in Slots /\ plock[cur[c]] = NoCpu
    BY <1>9, StackSlot DEF Exit, GiveUp, Running
  <2>2. best[d] # cur[c] /\ (cpc[d] = "test" => pos[d] # cur[c])
    BY <2>1, FreeSlot, SchedAssumption DEF ScanOK
  <2>3. CASE d = c
    BY <1>9, <2>3 DEF Exit, GiveUp, ScanOK, TypeOK, scan
  <2>4. CASE d # c
    BY <1>9, <1>0, <2>2, <2>4, ScanFrame DEF Exit, GiveUp, ScanOK, TypeOK, scan
  <2> QED
    BY <2>3, <2>4
<1>10. ASSUME NEW c \in CPU, SwitchOut(c) PROVE ScanOK(d)'
  <2>1. cur[c] \in Slots /\ plock[cur[c]] = c
    BY <1>10, StackSlot, InvAt DEF SwitchOut, StackOK
  <2>2. CASE d = c
    BY <1>10, <2>2 DEF SwitchOut, ScanOK, TypeOK, scan
  <2>3. CASE d # c
    <3>1. /\ best[d] # 0 => best[d] # cur[c]
          /\ cpc[d] = "test" => pos[d] # cur[c]
      BY <2>1, <2>3 DEF ScanOK
    <3> QED
      BY <1>10, <1>0, <2>3, <3>1, ScanFrame DEF SwitchOut, ScanOK, TypeOK, scan
  <2> QED
    BY <2>2, <2>3
<1>11. ASSUME NEW c \in CPU, WakeupRead(c) PROVE ScanOK(d)'
  <2>1. CASE d = c
    BY <1>11, <1>0, <2>1, SchedAssumption
    DEF WakeupRead, ScanOK, TypeOK, scan, Slots
  <2>2. CASE d # c
    BY <1>11, <2>2, ScanFrame DEF WakeupRead, TypeOK, scan
  <2> QED
    BY <2>1, <2>2
<1>12. ASSUME NEW c \in CPU, WakeupReturn(c) PROVE ScanOK(d)'
  <2>1. CASE d = c
    BY <1>12, <2>1 DEF WakeupReturn, ScanOK, TypeOK, scan
  <2>2. CASE d # c
    BY <1>12, <2>2, ScanFrame DEF WakeupReturn, TypeOK, scan
  <2> QED
    BY <2>1, <2>2
<1>13. ASSUME NEW c \in CPU, NEW q \in Slots, WakeupOne(c, q) PROVE ScanOK(d)'
  <2>1. best[d] # q
    BY <1>13, FreeSlot DEF WakeupOne
  <2> QED
    BY <1>13, <1>0, <2>1, ScanFrame DEF WakeupOne, TypeOK, scan
<1>14. ASSUME NEW c \in CPU, NEW q \in Slots, ForkReady(c, q) PROVE ScanOK(d)'
  <2>1. best[d] # q
    BY <1>14, FreeSlot DEF ForkReady
  <2> QED
    BY <1>14, <1>0, <2>1, ScanFrame DEF ForkReady, TypeOK, scan
<1>15. ASSUME NEW c \in CPU, NEW q \in Slots, Reap(c, q) PROVE ScanOK(d)'
  <2>1. best[d] # q
    BY <1>15, FreeSlot DEF Reap
  <2> QED
    BY <1>15, <1>0, <2>1, ScanFrame DEF Reap, TypeOK, scan
<1>16. ASSUME NEW c \in CPU, NEW q \in Slots, Kill(c, q) PROVE ScanOK(d)'
  <2>1. best[d] # q
    BY <1>16, FreeSlot DEF Kill
  <2> QED
    BY <1>16, <1>0, <2>1, ScanFrame DEF Kill, TypeOK, scan
<1>17. ASSUME NEW c \in CPU, NEW q \in Slots, Fork(c, q) PROVE ScanOK(d)'
  <2>1. best[d] # q
    BY <1>17, FreeSlot DEF Fork
  <2> QED
    BY <1>17, <1>0, <2>1, ScanFrame DEF Fork, TypeOK, scan
<1>18. ASSUME NEW c \in CPU, NEW q \in Slots, NEW i \in Priorities,
              SetPriority(c, q, i)
       PROVE  ScanOK(d)'
  BY <1>18, ScanFrame DEF SetPriority, scan
<1>19. CASE UNCHANGED vars
  BY <1>19, ScanFrame DEF vars, scan
<1> QED
  BY <1>1, <1>2, <1>3, <1>4, <1>5, <1>6, <1>7, <1>8, <1>9, <1>10, <1>11, <1>12,
     <1>13, <1>14, <1>15, <1>16, <1>17, <1>18, <1>19 DEF Next, SchedStep,
     SlotStep

(* A hart whose own state a step leaves alone keeps what it has.           *)
LEMMA StackFrame ==
  ASSUME NEW d \in CPU, StackOK(d),
         cpc'[d] = cpc[d], back'[d] = back[d], cur'[d] = cur[d],
         cur[d] # 0 => state'[cur[d]] = state[cur[d]],
         cpc[d] = "switch" => plock'[cur[d]] = plock[cur[d]]
  PROVE  StackOK(d)'
  BY DEF StackOK, Running

(* Every step keeps the owner of every kernel stack.                       *)
LEMMA StackStep == IInv /\ [Next]_vars => StackInv'
<1> SUFFICES ASSUME IInv, [Next]_vars, NEW d \in CPU PROVE StackOK(d)'
  BY DEF StackInv
<1> TypeOK /\ StackOK(d) /\ OneCpuPerStack
  BY InvAt DEF IInv
<1>0. cur[d] # 0 => cur[d] \in Slots
  BY SchedAssumption DEF TypeOK, Slots
<1>1. ASSUME NEW c \in CPU, ScanAcquire(c) PROVE StackOK(d)'
  <2>1. CASE d = c
    BY <1>1, <2>1 DEF ScanAcquire, TypeOK, StackOK, Running, scan, wake
  <2>2. CASE d # c
    <3>1. cpc[d] = "switch" => cur[d] # pos[c]
      BY <1>1, SchedAssumption DEF ScanAcquire, StackOK
    <3>2. cpc[d] = "switch" => plock'[cur[d]] = plock[cur[d]]
      BY <1>1, <1>0, <3>1 DEF ScanAcquire, TypeOK, StackOK
    <3> QED
      BY <1>1, <2>2, <3>2, StackFrame DEF ScanAcquire, TypeOK, scan, wake
  <2> QED
    BY <2>1, <2>2
<1>2. ASSUME NEW c \in CPU, ScanTake(c) PROVE StackOK(d)'
  <2>1. CASE d = c
    BY <1>2, <2>1 DEF ScanTake, TypeOK, StackOK, Running, scan, wake
  <2>2. CASE d # c
    <3>1. cpc[d] = "switch" => cur[d] # best[c]
      BY <1>2, <1>0, <2>2, InvAt DEF ScanOK, StackOK
    <3>2. cpc[d] = "switch" => plock'[cur[d]] = plock[cur[d]]
      BY <1>2, <1>0, <3>1 DEF ScanTake, TypeOK, StackOK
    <3> QED
      BY <1>2, <2>2, <3>2, StackFrame DEF ScanTake, TypeOK, scan, wake
  <2> QED
    BY <2>1, <2>2
<1>3. ASSUME NEW c \in CPU, ScanSkip(c) PROVE StackOK(d)'
  <2>1. CASE d = c
    BY <1>3, <2>1 DEF ScanSkip, TypeOK, StackOK, Running, scan, wake
  <2>2. CASE d # c
    <3>1. cpc[d] = "switch" => cur[d] # pos[c]
      BY <1>3, <2>2, InvAt DEF ScanSkip, ScanOK, StackOK
    <3>2. cpc[d] = "switch" => plock'[cur[d]] = plock[cur[d]]
      BY <1>3, <1>0, <3>1 DEF ScanSkip, TypeOK, StackOK
    <3> QED
      BY <1>3, <2>2, <3>2, StackFrame DEF ScanSkip, TypeOK, scan, wake
  <2> QED
    BY <2>1, <2>2
<1>4. ASSUME NEW c \in CPU, ScanNothing(c) PROVE StackOK(d)'
  BY <1>4, StackFrame DEF ScanNothing, scan, wake
<1>5. ASSUME NEW c \in CPU, Dispatch(c) PROVE StackOK(d)'
  <2>1. best[c] \in Slots /\ state[best[c]] = "RUNNABLE" /\ plock[best[c]] = c
    <3>1. ScanOK(c) /\ best[c] # 0 /\ best[c] \in 0 .. NPROC
      BY <1>5, InvAt DEF Dispatch, TypeOK
    <3> QED
      BY <3>1, SchedAssumption DEF ScanOK, Slots
  <2>2. CASE d = c
    <3>1. cpc'[c] = "run" /\ cur'[c] = best[c] /\ state'[best[c]] = "RUNNING"
      BY <1>5, <2>1 DEF Dispatch, TypeOK
    <3>2. best[c] # 0
      BY <1>5 DEF Dispatch
    <3> QED
      BY <2>2, <3>1, <3>2 DEF StackOK, Running
  <2>3. CASE d # c
    <3>1. cur[d] # best[c]
      BY <1>5, <2>1, <2>3 DEF Dispatch, StackOK, Running
    <3> QED
      BY <1>5, <1>0, <2>3, <3>1, StackFrame DEF Dispatch, TypeOK, wake
  <2> QED
    BY <2>2, <2>3
<1>6. ASSUME NEW c \in CPU, Charge(c) PROVE StackOK(d)'
  BY <1>6 DEF Charge, TypeOK, StackOK, Running, scan, wake
<1>7. ASSUME NEW c \in CPU, Yield(c) PROVE StackOK(d)'
  <2>1. cur[c] \in Slots /\ cur[c] # 0
    BY <1>7, StackSlot, SchedAssumption DEF Yield, Running, Slots
  <2>2. CASE d = c
    <3>1. /\ cpc'[c] = "switch" /\ cur'[c] = cur[c]
          /\ plock'[cur[c]] = c /\ state'[cur[c]] = "RUNNABLE"
      BY <1>7, <2>1 DEF Yield, GiveUp, TypeOK
    <3> QED
      BY <2>1, <2>2, <3>1 DEF StackOK, Running
  <2>3. CASE d # c
    <3>1. cur[d] # cur[c]
      BY <2>1, <2>3 DEF OneCpuPerStack
    <3> QED
      BY <1>7, <1>0, <2>3, <3>1, StackFrame
      DEF Yield, GiveUp, TypeOK, scan, wake
  <2> QED
    BY <2>2, <2>3
<1>8. ASSUME NEW c \in CPU, Sleep(c) PROVE StackOK(d)'
  <2>1. cur[c] \in Slots /\ cur[c] # 0
    BY <1>8, StackSlot, SchedAssumption DEF Sleep, Running, Slots
  <2>2. CASE d = c
    <3>1. /\ cpc'[c] = "switch" /\ cur'[c] = cur[c]
          /\ plock'[cur[c]] = c /\ state'[cur[c]] = "SLEEPING"
      BY <1>8, <2>1 DEF Sleep, GiveUp, TypeOK
    <3> QED
      BY <2>1, <2>2, <3>1 DEF StackOK, Running
  <2>3. CASE d # c
    <3>1. cur[d] # cur[c]
      BY <2>1, <2>3 DEF OneCpuPerStack
    <3> QED
      BY <1>8, <1>0, <2>3, <3>1, StackFrame
      DEF Sleep, GiveUp, TypeOK, scan, wake
  <2> QED
    BY <2>2, <2>3
<1>9. ASSUME NEW c \in CPU, Exit(c) PROVE StackOK(d)'
  <2>1. cur[c] \in Slots /\ cur[c] # 0
    BY <1>9, StackSlot, SchedAssumption DEF Exit, Running, Slots
  <2>2. CASE d = c
    <3>1. /\ cpc'[c] = "switch" /\ cur'[c] = cur[c]
          /\ plock'[cur[c]] = c /\ state'[cur[c]] = "ZOMBIE"
      BY <1>9, <2>1 DEF Exit, GiveUp, TypeOK
    <3> QED
      BY <2>1, <2>2, <3>1 DEF StackOK, Running
  <2>3. CASE d # c
    <3>1. cur[d] # cur[c]
      BY <2>1, <2>3 DEF OneCpuPerStack
    <3> QED
      BY <1>9, <1>0, <2>3, <3>1, StackFrame DEF Exit, GiveUp, TypeOK, scan, wake
  <2> QED
    BY <2>2, <2>3
<1>10. ASSUME NEW c \in CPU, SwitchOut(c) PROVE StackOK(d)'
  <2>1. CASE d = c
    BY <1>10, <2>1 DEF SwitchOut, TypeOK, StackOK, Running, wake
  <2>2. CASE d # c
    <3>1. cur[d] # 0 => cur[d] # cur[c]
      BY <2>2 DEF OneCpuPerStack
    <3>2. cpc[d] = "switch" => cur[d] # 0
      BY DEF StackOK
    <3> QED
      BY <1>10, <1>0, <2>2, <3>1, <3>2, StackFrame DEF SwitchOut, TypeOK, wake
  <2> QED
    BY <2>1, <2>2
<1>11. ASSUME NEW c \in CPU, WakeupRead(c) PROVE StackOK(d)'
  BY <1>11 DEF WakeupRead, TypeOK, StackOK, Running, scan
<1>12. ASSUME NEW c \in CPU, WakeupReturn(c) PROVE StackOK(d)'
  BY <1>12 DEF WakeupReturn, TypeOK, StackOK, Running, scan
<1>13. ASSUME NEW c \in CPU, NEW q \in Slots, WakeupOne(c, q) PROVE StackOK(d)'
  <2>1. cur[d] # q
    BY <1>13, FreeSlot DEF WakeupOne, StackOK
  <2> QED
    BY <1>13, <1>0, <2>1, StackFrame DEF WakeupOne, TypeOK, scan, wake
<1>14. ASSUME NEW c \in CPU, NEW q \in Slots, ForkReady(c, q) PROVE StackOK(d)'
  <2>1. cur[d] # q
    BY <1>14, FreeSlot DEF ForkReady, StackOK
  <2> QED
    BY <1>14, <1>0, <2>1, StackFrame DEF ForkReady, TypeOK, scan, wake
<1>15. ASSUME NEW c \in CPU, NEW q \in Slots, Reap(c, q) PROVE StackOK(d)'
  <2>1. cur[d] # q
    BY <1>15, FreeSlot DEF Reap, StackOK
  <2> QED
    BY <1>15, <1>0, <2>1, StackFrame DEF Reap, TypeOK, scan, wake
<1>16. ASSUME NEW c \in CPU, NEW q \in Slots, Kill(c, q) PROVE StackOK(d)'
  <2>1. cur[d] # q
    BY <1>16, FreeSlot DEF Kill, StackOK
  <2> QED
    BY <1>16, <1>0, <2>1, StackFrame DEF Kill, TypeOK, scan, wake
<1>17. ASSUME NEW c \in CPU, NEW q \in Slots, Fork(c, q) PROVE StackOK(d)'
  <2>1. cur[d] # q
    BY <1>17, FreeSlot DEF Fork, StackOK
  <2> QED
    BY <1>17, <1>0, <2>1, StackFrame DEF Fork, TypeOK, scan, wake
<1>18. ASSUME NEW c \in CPU, NEW q \in Slots, NEW i \in Priorities,
              SetPriority(c, q, i)
       PROVE  StackOK(d)'
  BY <1>18, StackFrame DEF SetPriority, scan, wake
<1>19. CASE UNCHANGED vars
  BY <1>19, StackFrame DEF vars, scan, wake
<1> QED
  BY <1>1, <1>2, <1>3, <1>4, <1>5, <1>6, <1>7, <1>8, <1>9, <1>10, <1>11, <1>12,
     <1>13, <1>14, <1>15, <1>16, <1>17, <1>18, <1>19 DEF Next, SchedStep,
     SlotStep

(* No step puts a process on a second hart.                                *)
LEMMA OneCpuStep == IInv /\ [Next]_vars => OneCpuPerStack'
<1> SUFFICES ASSUME IInv, [Next]_vars PROVE OneCpuPerStack'
  OBVIOUS
<1> TypeOK /\ OneCpuPerStack
  BY InvAt DEF IInv
<1> USE SchedAssumption DEF TypeOK, OneCpuPerStack
<1>1. ASSUME NEW c \in CPU, ScanAcquire(c) PROVE OneCpuPerStack'
  BY <1>1 DEF ScanAcquire, scan, wake
<1>2. ASSUME NEW c \in CPU, ScanTake(c) PROVE OneCpuPerStack'
  BY <1>2 DEF ScanTake, scan, wake, Better
<1>3. ASSUME NEW c \in CPU, ScanSkip(c) PROVE OneCpuPerStack'
  BY <1>3 DEF ScanSkip, scan, wake
<1>4. ASSUME NEW c \in CPU, ScanNothing(c) PROVE OneCpuPerStack'
  BY <1>4 DEF ScanNothing, scan, wake
<1>5. ASSUME NEW c \in CPU, Dispatch(c) PROVE OneCpuPerStack'
  <2>1. ASSUME NEW d \in CPU PROVE cur[d] # best[c]
    <3>1. ScanOK(c) /\ StackOK(d)
      BY InvAt
    <3> QED
      BY <1>5, <3>1 DEF Dispatch, ScanOK, StackOK, Running
  <2> QED
    BY <1>5, <2>1 DEF Dispatch, scan, wake
<1>6. ASSUME NEW c \in CPU, Charge(c) PROVE OneCpuPerStack'
  BY <1>6 DEF Charge, scan, wake
<1>7. ASSUME NEW c \in CPU, Yield(c) PROVE OneCpuPerStack'
  BY <1>7 DEF Yield, scan, wake, GiveUp
<1>8. ASSUME NEW c \in CPU, Sleep(c) PROVE OneCpuPerStack'
  BY <1>8 DEF Sleep, scan, wake, GiveUp
<1>9. ASSUME NEW c \in CPU, Exit(c) PROVE OneCpuPerStack'
  BY <1>9 DEF Exit, scan, wake, GiveUp
<1>10. ASSUME NEW c \in CPU, SwitchOut(c) PROVE OneCpuPerStack'
  BY <1>10 DEF SwitchOut, scan, wake
<1>11. ASSUME NEW c \in CPU, WakeupRead(c) PROVE OneCpuPerStack'
  BY <1>11 DEF WakeupRead, scan, wake
<1>12. ASSUME NEW c \in CPU, WakeupReturn(c) PROVE OneCpuPerStack'
  BY <1>12 DEF WakeupReturn, scan, wake
<1>13. ASSUME NEW c \in CPU, NEW q \in Slots, WakeupOne(c, q)
       PROVE  OneCpuPerStack'
  BY <1>13 DEF WakeupOne, scan, wake
<1>14. ASSUME NEW c \in CPU, NEW q \in Slots, ForkReady(c, q)
       PROVE  OneCpuPerStack'
  BY <1>14 DEF ForkReady, scan, wake
<1>15. ASSUME NEW c \in CPU, NEW q \in Slots, Reap(c, q) PROVE OneCpuPerStack'
  BY <1>15 DEF Reap, scan, wake
<1>16. ASSUME NEW c \in CPU, NEW q \in Slots, Kill(c, q) PROVE OneCpuPerStack'
  BY <1>16 DEF Kill, scan, wake
<1>17. ASSUME NEW c \in CPU, NEW q \in Slots, Fork(c, q) PROVE OneCpuPerStack'
  BY <1>17 DEF Fork, scan, wake
<1>18. ASSUME NEW c \in CPU, NEW q \in Slots, NEW i \in Priorities,
              SetPriority(c, q, i)
       PROVE  OneCpuPerStack'
  BY <1>18 DEF SetPriority, scan, wake
<1>19. CASE UNCHANGED vars
  BY <1>19 DEF vars, scan, wake
<1> HIDE SchedAssumption DEF TypeOK, OneCpuPerStack
<1> QED
  BY <1>1, <1>2, <1>3, <1>4, <1>5, <1>6, <1>7, <1>8, <1>9, <1>10, <1>11, <1>12,
     <1>13, <1>14, <1>15, <1>16, <1>17, <1>18, <1>19 DEF Next, SchedStep,
     SlotStep

(* No step runs a process that is ahead of min_vruntime.                   *)
LEMMA PaceStep == IInv /\ [Next]_vars => PaceInv'
<1> SUFFICES ASSUME IInv, [Next]_vars, NEW d \in CPU PROVE PaceOK(d)'
  BY DEF PaceInv
<1> TypeOK /\ PaceOK(d)
  BY InvAt DEF IInv
<1> USE SchedAssumption DEF TypeOK, Slots, PaceOK, Running
<1>1. ASSUME NEW c \in CPU, ScanAcquire(c) PROVE PaceOK(d)'
  BY <1>1 DEF ScanAcquire, scan, wake
<1>2. ASSUME NEW c \in CPU, ScanTake(c) PROVE PaceOK(d)'
  BY <1>2 DEF ScanTake, scan, wake, Better
<1>3. ASSUME NEW c \in CPU, ScanSkip(c) PROVE PaceOK(d)'
  BY <1>3 DEF ScanSkip, scan, wake
<1>4. ASSUME NEW c \in CPU, ScanNothing(c) PROVE PaceOK(d)'
  BY <1>4 DEF ScanNothing, scan, wake
<1>5. ASSUME NEW c \in CPU, Dispatch(c) PROVE PaceOK(d)'
  <2>1. ScanOK(c) /\ StackOK(d)
    BY InvAt
  <2>2. /\ best[c] \in Slots /\ cfs_min_vruntime' \in Nat
        /\ cfs_min_vruntime <= cfs_min_vruntime'
        /\ vruntime[best[c]] <= cfs_min_vruntime'
    <3>1. best[c] # 0 /\ best[c] \in 0 .. NPROC
      BY <1>5 DEF Dispatch
    <3>2. best[c] \in Slots /\ cfs_min_vruntime \in Nat
      BY <3>1
    <3>3. vruntime[best[c]] \in Nat
      BY <3>2
    <3>4. cfs_min_vruntime' = Max2(cfs_min_vruntime, vruntime[best[c]])
      BY <1>5 DEF Dispatch
    <3> HIDE DEF TypeOK
    <3> QED
      BY <3>2, <3>3, <3>4 DEF Max2
  <2>3. CASE d = c
    BY <1>5, <2>2, <2>3 DEF Dispatch, wake
  <2>4. CASE d # c
    <3>1. Running(d) => cur[d] \in Slots
      BY StackSlot
    <3>2. Running(d)' = Running(d) /\ cur'[d] = cur[d] /\ mvr'[d] = mvr[d]
      BY <1>5, <2>4 DEF Dispatch, wake
    <3>3. vruntime' = vruntime
      BY <1>5 DEF Dispatch
    <3>4. /\ mvr[d] \in Nat /\ cfs_min_vruntime \in Nat
          /\ vruntime \in [Slots -> Nat]
      OBVIOUS
    <3> HIDE DEF Running, TypeOK
    <3> QED
      BY <2>2, <3>1, <3>2, <3>3, <3>4
  <2> QED
    BY <2>3, <2>4
<1>6. ASSUME NEW c \in CPU, Charge(c) PROVE PaceOK(d)'
  <2>1. cur[c] \in Slots
    BY <1>6, StackSlot DEF Charge, Running
  <2>2. d # c => cur[d] # cur[c]
    BY <2>1, <1>6 DEF IInv, OneCpuPerStack
  <2>3. mvr' = mvr /\ cfs_min_vruntime' = cfs_min_vruntime /\ cur' = cur
    BY <1>6 DEF Charge, wake
  <2>4. Running(d)' => d # c /\ Running(d) /\ cur[d] \in Slots
    BY <1>6, StackSlot DEF Charge, wake
  <2>5. d # c /\ cur[d] \in Slots => vruntime'[cur[d]] = vruntime[cur[d]]
    BY <1>6, <2>2 DEF Charge
  <2> HIDE DEF Running
  <2> QED
    BY <2>3, <2>4, <2>5
<1>7. ASSUME NEW c \in CPU, Yield(c) PROVE PaceOK(d)'
  BY <1>7 DEF Yield, scan, wake, GiveUp
<1>8. ASSUME NEW c \in CPU, Sleep(c) PROVE PaceOK(d)'
  BY <1>8 DEF Sleep, scan, wake, GiveUp
<1>9. ASSUME NEW c \in CPU, Exit(c) PROVE PaceOK(d)'
  BY <1>9 DEF Exit, scan, wake, GiveUp
<1>10. ASSUME NEW c \in CPU, SwitchOut(c) PROVE PaceOK(d)'
  BY <1>10 DEF SwitchOut, scan, wake
<1>11. ASSUME NEW c \in CPU, WakeupRead(c) PROVE PaceOK(d)'
  BY <1>11 DEF WakeupRead, scan, wake
<1>12. ASSUME NEW c \in CPU, WakeupReturn(c) PROVE PaceOK(d)'
  BY <1>12 DEF WakeupReturn, scan, wake
<1>13. ASSUME NEW c \in CPU, NEW q \in Slots, WakeupOne(c, q) PROVE PaceOK(d)'
  <2>1. Running(d) => cur[d] # q
    BY <1>13, InvAt DEF WakeupOne, StackOK
  <2> QED
    BY <1>13, <2>1 DEF WakeupOne, wake
<1>14. ASSUME NEW c \in CPU, NEW q \in Slots, ForkReady(c, q) PROVE PaceOK(d)'
  BY <1>14 DEF ForkReady, scan, wake
<1>15. ASSUME NEW c \in CPU, NEW q \in Slots, Reap(c, q) PROVE PaceOK(d)'
  <2>1. Running(d) => cur[d] # q
    BY <1>15, InvAt DEF Reap, StackOK
  <2> QED
    BY <1>15, <2>1 DEF Reap, wake
<1>16. ASSUME NEW c \in CPU, NEW q \in Slots, Kill(c, q) PROVE PaceOK(d)'
  BY <1>16 DEF Kill, scan, wake
<1>17. ASSUME NEW c \in CPU, NEW q \in Slots, Fork(c, q) PROVE PaceOK(d)'
  <2>1. Running(d) => cur[d] # q
    BY <1>17, InvAt DEF Fork, StackOK
  <2> QED
    BY <1>17, <2>1 DEF Fork, wake
<1>18. ASSUME NEW c \in CPU, NEW q \in Slots, NEW i \in Priorities,
              SetPriority(c, q, i)
       PROVE  PaceOK(d)'
  BY <1>18 DEF SetPriority, scan, wake
<1>19. CASE UNCHANGED vars
  BY <1>19 DEF vars, scan, wake
<1> HIDE SchedAssumption DEF TypeOK, Slots, PaceOK, Running
<1> QED
  BY <1>1, <1>2, <1>3, <1>4, <1>5, <1>6, <1>7, <1>8, <1>9, <1>10, <1>11, <1>12,
     <1>13, <1>14, <1>15, <1>16, <1>17, <1>18, <1>19 DEF Next, SchedStep,
     SlotStep

(* No step pushes a process beyond the bound.                              *)
LEMMA LeadStep == IInv /\ [Next]_vars => BoundedLead'
<1> SUFFICES ASSUME IInv, [Next]_vars, NEW p \in Slots
    PROVE  vruntime'[p] <= cfs_min_vruntime' + MaxDelta
  BY DEF BoundedLead
<1> TypeOK /\ BoundedLead
  BY InvAt DEF IInv
<1> USE SchedAssumption DEF TypeOK, BoundedLead
<1>1. ASSUME NEW c \in CPU, ScanAcquire(c)
      PROVE  vruntime'[p] <= cfs_min_vruntime' + MaxDelta
  BY <1>1 DEF ScanAcquire, scan, wake
<1>2. ASSUME NEW c \in CPU, ScanTake(c)
      PROVE  vruntime'[p] <= cfs_min_vruntime' + MaxDelta
  BY <1>2 DEF ScanTake, scan, wake, Better
<1>3. ASSUME NEW c \in CPU, ScanSkip(c)
      PROVE  vruntime'[p] <= cfs_min_vruntime' + MaxDelta
  BY <1>3 DEF ScanSkip, scan, wake
<1>4. ASSUME NEW c \in CPU, ScanNothing(c)
      PROVE  vruntime'[p] <= cfs_min_vruntime' + MaxDelta
  BY <1>4 DEF ScanNothing, scan, wake
<1>5. ASSUME NEW c \in CPU, Dispatch(c)
      PROVE  vruntime'[p] <= cfs_min_vruntime' + MaxDelta
  BY <1>5 DEF Dispatch, scan, wake, Max2
<1>6. ASSUME NEW c \in CPU, Charge(c)
      PROVE  vruntime'[p] <= cfs_min_vruntime' + MaxDelta
  <2>1. cur[c] \in Slots /\ PaceOK(c)
    BY <1>6, StackSlot, InvAt DEF Charge, Running
  <2>2. VDelta[priority[cur[c]]] \in Nat /\ VDelta[priority[cur[c]]] <= MaxDelta
    BY <2>1, ChargeFact
  <2>3. vruntime[cur[c]] <= cfs_min_vruntime
    BY <1>6, <2>1 DEF Charge, PaceOK, Running
  <2> QED
    BY <1>6, <2>1, <2>2, <2>3 DEF Charge
<1>7. ASSUME NEW c \in CPU, Yield(c)
      PROVE  vruntime'[p] <= cfs_min_vruntime' + MaxDelta
  BY <1>7 DEF Yield, scan, wake, GiveUp
<1>8. ASSUME NEW c \in CPU, Sleep(c)
      PROVE  vruntime'[p] <= cfs_min_vruntime' + MaxDelta
  BY <1>8 DEF Sleep, scan, wake, GiveUp
<1>9. ASSUME NEW c \in CPU, Exit(c)
      PROVE  vruntime'[p] <= cfs_min_vruntime' + MaxDelta
  BY <1>9 DEF Exit, scan, wake, GiveUp
<1>10. ASSUME NEW c \in CPU, SwitchOut(c)
       PROVE  vruntime'[p] <= cfs_min_vruntime' + MaxDelta
  BY <1>10 DEF SwitchOut, scan, wake
<1>11. ASSUME NEW c \in CPU, WakeupRead(c)
       PROVE  vruntime'[p] <= cfs_min_vruntime' + MaxDelta
  BY <1>11 DEF WakeupRead, scan, wake
<1>12. ASSUME NEW c \in CPU, WakeupReturn(c)
       PROVE  vruntime'[p] <= cfs_min_vruntime' + MaxDelta
  BY <1>12 DEF WakeupReturn, scan, wake
<1>13. ASSUME NEW c \in CPU, NEW q \in Slots, WakeupOne(c, q)
       PROVE  vruntime'[p] <= cfs_min_vruntime' + MaxDelta
  <2>1. mvr[c] <= cfs_min_vruntime
    BY InvAt DEF PaceOK
  <2>2. /\ Placed(vruntime[q], mvr[c]) \in Nat
        /\ \/ Placed(vruntime[q], mvr[c]) <= vruntime[q]
           \/ Placed(vruntime[q], mvr[c]) <= mvr[c]
    BY PlacedFact
  <2> QED
    BY <1>13, <2>1, <2>2 DEF WakeupOne
<1>14. ASSUME NEW c \in CPU, NEW q \in Slots, ForkReady(c, q)
       PROVE  vruntime'[p] <= cfs_min_vruntime' + MaxDelta
  BY <1>14 DEF ForkReady, scan, wake
<1>15. ASSUME NEW c \in CPU, NEW q \in Slots, Reap(c, q)
       PROVE  vruntime'[p] <= cfs_min_vruntime' + MaxDelta
  BY <1>15 DEF Reap, scan, wake
<1>16. ASSUME NEW c \in CPU, NEW q \in Slots, Kill(c, q)
       PROVE  vruntime'[p] <= cfs_min_vruntime' + MaxDelta
  BY <1>16 DEF Kill, scan, wake
<1>17. ASSUME NEW c \in CPU, NEW q \in Slots, Fork(c, q)
       PROVE  vruntime'[p] <= cfs_min_vruntime' + MaxDelta
  <2>1. cur[c] \in Slots
    BY <1>17, StackSlot DEF Fork, Running
  <2> QED
    BY <1>17, <2>1 DEF Fork
<1>18. ASSUME NEW c \in CPU, NEW q \in Slots, NEW i \in Priorities,
              SetPriority(c, q, i)
       PROVE  vruntime'[p] <= cfs_min_vruntime' + MaxDelta
  BY <1>18 DEF SetPriority, scan, wake
<1>19. CASE UNCHANGED vars
  BY <1>19 DEF vars, scan, wake
<1> HIDE SchedAssumption DEF TypeOK, BoundedLead
<1> QED
  BY <1>1, <1>2, <1>3, <1>4, <1>5, <1>6, <1>7, <1>8, <1>9, <1>10, <1>11, <1>12,
     <1>13, <1>14, <1>15, <1>16, <1>17, <1>18, <1>19 DEF Next, SchedStep,
     SlotStep

-----------------------------------------------------------------------------
(* The inductive invariant holds in every reachable state.                 *)
THEOREM Invariance == Spec => []IInv
<1>1. Init => IInv
  BY SchedAssumption, InitPriorityAssumption
     DEF Init, IInv, TypeOK, ScanInv, StackInv, OneCpuPerStack, PaceInv, ScanOK,
         StackOK, PaceOK, BoundedLead, Running, Slots, States, OnStack
<1>2. IInv /\ [Next]_vars => IInv'
  BY TypeStep, ScanStep, StackStep, OneCpuStep, PaceStep, LeadStep DEF IInv
<1> QED
  BY <1>1, <1>2, PTL DEF Spec

(* Every variable keeps its type.                                          *)
THEOREM TypeCorrect == Spec => []TypeOK
  BY Invariance, PTL DEF IInv

(* No process is ever on two harts' stacks.                                *)
THEOREM StackExclusion == Spec => []OneCpuPerStack
  BY Invariance, PTL DEF IInv

(* The process the scheduler has picked stays RUNNABLE until it runs, and  *)
(* no slot is freed under a process still on its stack.                    *)
THEOREM PickIsSafe == Spec => []ChosenIsRunnable
<1>1. IInv => ChosenIsRunnable
  BY DEF IInv, ScanInv, StackInv, ScanOK, StackOK, ChosenIsRunnable, Running,
     TypeOK, OnStack
<1> QED
  BY <1>1, Invariance, PTL

(* No vruntime ever exceeds min_vruntime by more than one weakest tick.    *)
THEOREM LeadIsBounded == Spec => []BoundedLead
  BY Invariance, PTL DEF IInv

-----------------------------------------------------------------------------
(* Interrupts, spinlocks and switches.                                     *)

(* The places of a kernel thread, and the frames made of them.             *)
Traps == {"ktimer", "kdev"}
Entries == {"syscall", "drain", "utimer", "udev", "forkret"}
TrapPc == {"in", "crit", "yield", "sched", "woken", "out"}
ThreadPc == TrapPc \cup {"body", "relock", "drop", "sret"}
LoopPc == {"loop", "open", "scan", "back"}
Frames == [kind : Traps \cup Entries \cup {"scheduler"}, pc : ThreadPc \cup LoopPc]

Pc(h) == Top(h).pc
Kind(h) == Top(h).kind
Held(h) == {l \in Spinlock : holder[l] = h}
Off(p) == \A h \in Cpu : cpu[h].proc # p

HartState == [sie : BOOLEAN, noff : Nat, intena : BOOLEAN,
              stvec : {"kernelvec", "uservec"}, proc : Thread \cup {NoOne}]

FrameInv ==
  /\ cpu \in [Cpu -> HartState]
  /\ holder \in [Spinlock -> Cpu \cup {NoOne}]
  /\ pstate \in [Thread -> {"RUNNABLE", "RUNNING", "SLEEPING"}]
  /\ saved \in [Thread -> BOOLEAN]
  /\ frames \in [Thread \cup Cpu -> Seq(Frames)]

(* A trap in the kernel interrupts only what runs with interrupts on.      *)
ProcessStack(s) ==
  /\ Len(s) \in 0 .. 2
  /\ Len(s) > 0 => /\ s[1].kind \in Entries /\ s[1].pc \in ThreadPc
                   /\ s[1].pc \in {"body", "relock"} => s[1].kind = "syscall"
  /\ Len(s) = 2 => /\ s[1].pc \in {"body", "relock"}
                   /\ s[2].kind \in Traps /\ s[2].pc \in TrapPc
SchedulerStack(s) ==
  /\ Len(s) \in 1 .. 2
  /\ s[1].kind = "scheduler" /\ s[1].pc \in LoopPc
  /\ Len(s) = 2 => /\ s[1].pc \in {"loop", "open"}
                   /\ s[2].kind \in Traps /\ s[2].pc \in {"in", "crit", "out"}
StacksInv == /\ \A p \in Thread : ProcessStack(frames[p])
            /\ \A h \in Cpu : SchedulerStack(frames[h])

(* Where a hart is determines how many locks it holds, whether interrupts  *)
(* are on, and whether they were before.                                   *)
Depth(pc) == IF pc = "drop" THEN 2
             ELSE IF pc \in {"crit", "sched", "woken", "back"} THEN 1 ELSE 0
Place(h) ==
  /\ ~InKernel(h) => cpu[h].noff = 0
  /\ InKernel(h) =>
       /\ cpu[h].noff = Depth(Pc(h))
       /\ Pc(h) \in {"body", "relock", "open"} => cpu[h].sie
       /\ Pc(h) \notin {"body", "relock", "open", "loop"} => ~cpu[h].sie
       /\ Pc(h) \in {"crit", "drop", "sched", "woken"} => (cpu[h].intena <=> Kind(h) = "syscall")
       /\ Pc(h) # "sret" => cpu[h].stvec = "kernelvec"
       /\ Pc(h) \in {"crit", "drop"} => holder[Dev] = h
       /\ Pc(h) \in {"drop", "sched", "woken"} => holder[RunsOn(h)] = h
       /\ Pc(h) = "sched" => pstate[RunsOn(h)] # "RUNNING"
  /\ cpu[h].proc # NoOne =>
       /\ frames[h][1].pc = "back"
       /\ pstate[RunsOn(h)] = "RUNNING" \/ (InKernel(h) /\ Pc(h) = "sched")
PlaceInv == \A h \in Cpu : Place(h)

(* A process runs on one hart; its lock is held by that hart or by one     *)
(* whose scheduler has picked it or is taking it back; off its hart it is  *)
(* in sched() or at the start of forkret().                                *)
Owner(p) ==
  /\ \A h, g \in Cpu : cpu[h].proc = p /\ cpu[g].proc = p => h = g
  /\ \A h \in Cpu : cpu[h].proc = p => pstate[p] = "RUNNING" \/ holder[p] = h
  /\ \A h \in Cpu : holder[p] = h /\ cpu[h].proc # p =>
       /\ cpu[h].proc = NoOne /\ frames[h][1].pc = "back" /\ Off(p)
       /\ pstate[p] = "RUNNING" => ~cpu[h].intena
       /\ \A q \in Thread : holder[q] = h => q = p
  /\ Off(p) => /\ frames[p] # << >> /\ frames[p][Len(frames[p])].pc = "woken"
               /\ frames[p][1].kind # "forkret" =>
                    (saved[p] <=> frames[p][Len(frames[p])].kind = "syscall")
OwnerInv == \A p \in Thread : Owner(p)

CountInv == \A h \in Cpu : IsFiniteSet(Held(h)) /\ cpu[h].noff = Cardinality(Held(h))

TrapInv == FrameInv /\ StacksInv /\ PlaceInv /\ OwnerInv /\ CountInv

(* A step of hart h: it leaves the other harts, their threads and their    *)
(* locks alone.                                                            *)
StepOf(h) ==
  /\ \A g \in Cpu : g # h => cpu'[g] = cpu[g]
  /\ \A t \in Thread \cup Cpu : t # RunsOn(h) => frames'[t] = frames[t]
  /\ \A l \in Spinlock : holder'[l] = holder[l] \/ {holder[l], holder'[l]} \subseteq {h, NoOne}
  /\ \A p \in Thread : p # RunsOn(h) =>
       /\ saved'[p] = saved[p]
       /\ pstate[p] = "RUNNING" => pstate'[p] = "RUNNING"
  /\ \A p \in Thread : pstate'[p] = "RUNNING" => pstate[p] = "RUNNING" \/ holder[p] = NoOne

(* What a hart runs: a process, or its own scheduler.                      *)
LEMMA RunsFact ==
  ASSUME TrapInv, NEW h \in Cpu
  PROVE  /\ RunsOn(h) \in Thread \cup Cpu
         /\ RunsOn(h) \in Thread => cpu[h].proc = RunsOn(h) /\ cpu[h].proc # NoOne
         /\ RunsOn(h) \in Cpu => RunsOn(h) = h /\ cpu[h].proc = NoOne
         /\ \A g \in Cpu : g # h => RunsOn(g) # RunsOn(h) /\ RunsOn(h) # g
  BY HartAssumption DEF TrapInv, FrameInv, HartState, RunsOn, OwnerInv, Owner

(* The innermost frame, by its kind.                                       *)
LEMMA TopFact ==
  ASSUME TrapInv, NEW h \in Cpu, InKernel(h)
  PROVE  LET s == frames[RunsOn(h)] IN
         /\ s \in Seq(Frames) /\ Len(s) \in 1 .. 2 /\ Top(h) = s[Len(s)] /\ Top(h) \in Frames
         /\ Kind(h) \in Entries => /\ RunsOn(h) \in Thread /\ Len(s) = 1 /\ Pc(h) \in ThreadPc
                                   /\ Pc(h) \in {"body", "relock"} => Kind(h) = "syscall"
         /\ Kind(h) \in Traps => /\ Len(s) = 2 /\ Pc(h) \in TrapPc
                                 /\ RunsOn(h) \in Cpu => Pc(h) \in {"in", "crit", "out"}
                                 /\ s[1].pc \in {"body", "relock", "loop", "open"}
         /\ Kind(h) = "scheduler" => RunsOn(h) = h /\ Len(s) = 1 /\ Pc(h) \in LoopPc
         /\ Kind(h) \in Entries \cup Traps \cup {"scheduler"}
<1> DEFINE s == frames[RunsOn(h)]
<1>1. RunsOn(h) \in Thread \cup Cpu /\ (RunsOn(h) \in Cpu => RunsOn(h) = h) /\ s \in Seq(Frames)
  BY RunsFact DEF TrapInv, FrameInv
<1>2. s # << >> /\ Top(h) = s[Len(s)]
  BY DEF InKernel, Top
<1>3. Len(s) \in Nat /\ Len(s) # 0
  BY <1>1, <1>2, EmptySeq, LenProperties
<1>4. CASE RunsOn(h) \in Thread
  <2>1. ProcessStack(s)
    BY <1>4 DEF TrapInv, StacksInv
  <2>2. Len(s) = 1 \/ Len(s) = 2
    BY <1>3, <2>1 DEF ProcessStack
  <2>3. Top(h) \in Frames
    BY <1>1, <1>2, <2>2, ElementOfSeq
  <2> QED BY <1>1, <1>2, <1>4, <2>1, <2>2, <2>3, HartAssumption
          DEF ProcessStack, Kind, Pc, Entries, Traps, ThreadPc, TrapPc, LoopPc
<1>5. CASE RunsOn(h) \in Cpu
  <2>1. SchedulerStack(s)
    BY <1>1, <1>5 DEF TrapInv, StacksInv
  <2>2. Len(s) = 1 \/ Len(s) = 2
    BY <1>3, <2>1 DEF SchedulerStack
  <2>3. Top(h) \in Frames
    BY <1>1, <1>2, <2>2, ElementOfSeq
  <2> QED BY <1>1, <1>2, <1>5, <2>1, <2>2, <2>3, HartAssumption
          DEF SchedulerStack, Kind, Pc, Entries, Traps, ThreadPc, TrapPc, LoopPc
<1> QED BY <1>1, <1>4, <1>5

(* A step of one hart keeps the place of the others.                       *)
LEMMA OtherHarts ==
  ASSUME TrapInv, NEW h \in Cpu, StepOf(h), NEW g \in Cpu, g # h
  PROVE  Place(g)'
<1>1. /\ cpu'[g] = cpu[g] /\ RunsOn(g) # RunsOn(h) /\ RunsOn(h) # g
      /\ RunsOn(g) \in Thread \cup Cpu
  BY RunsFact DEF StepOf
<1>2. RunsOn(g)' = RunsOn(g) /\ frames'[RunsOn(g)] = frames[RunsOn(g)] /\ frames'[g] = frames[g]
  BY <1>1 DEF RunsOn, StepOf
<1>3. (InKernel(g) <=> InKernel(g)') /\ Top(g)' = Top(g)
  BY <1>2 DEF InKernel, Top
<1>4. \A l \in Spinlock : holder[l] = g => holder'[l] = g
  BY HartAssumption DEF StepOf
<1>5. Dev \in Spinlock /\ (RunsOn(g) \in Thread => RunsOn(g) \in Spinlock)
  BY DEF Spinlock
<1>6. Place(g)
  BY DEF TrapInv, PlaceInv
<1>7. InKernel(g) /\ Pc(g) \in {"drop", "sched", "woken"} => RunsOn(g) \in Thread
  BY <1>1, TopFact DEF Pc, Traps, Entries, LoopPc
<1>8. InKernel(g) /\ Pc(g) = "sched" => pstate'[RunsOn(g)] # "RUNNING"
  BY <1>6, <1>7, HartAssumption DEF Place, StepOf
<1>9. cpu[g].proc # NoOne /\ pstate[RunsOn(g)] = "RUNNING" => pstate'[RunsOn(g)] = "RUNNING"
  BY <1>1, RunsFact DEF StepOf, RunsOn
<1> QED BY <1>1, <1>2, <1>3, <1>4, <1>5, <1>6, <1>7, <1>8, <1>9 DEF Place, Pc, Kind

(* Outside scheduler()'s own locked part a hart holds no process's lock    *)
(* but the lock of the process it runs.                                    *)
LEMMA OwnLock ==
  ASSUME TrapInv, NEW h \in Cpu, ~InFrame(h, {"scheduler"}, "back"),
         NEW p \in Thread, holder[p] = h
  PROVE  cpu[h].proc = p
<1> SUFFICES ASSUME cpu[h].proc # p PROVE FALSE
  OBVIOUS
<1>1. cpu[h].proc = NoOne /\ frames[h][1].pc = "back"
  BY DEF TrapInv, OwnerInv, Owner
<1>2. RunsOn(h) = h /\ SchedulerStack(frames[h])
  BY <1>1 DEF RunsOn, TrapInv, StacksInv
<1>3. Len(frames[h]) = 1
  BY <1>1, <1>2 DEF SchedulerStack
<1>4. InKernel(h)
  BY <1>2, <1>3 DEF InKernel
<1> QED BY <1>1, <1>2, <1>3, <1>4 DEF InFrame, Top, SchedulerStack

(* Steps that switch nothing keep who runs where, given what the hart does *)
(* to the locks of processes it does not run.                              *)
LEMMA OwnerStep ==
  ASSUME TrapInv, NEW h \in Cpu, StepOf(h), cpu'[h].proc = cpu[h].proc,
         \A p \in Thread : holder'[p] = h /\ cpu[h].proc # p =>
           /\ cpu[h].proc = NoOne /\ frames'[h][1].pc = "back" /\ Off(p)
           /\ pstate'[p] = "RUNNING" => ~cpu'[h].intena
           /\ \A q \in Thread : holder'[q] = h => q = p,
         cpu[h].proc # NoOne => pstate'[RunsOn(h)] = "RUNNING" \/ holder'[RunsOn(h)] = h
  PROVE  OwnerInv'
<1> SUFFICES ASSUME NEW p \in Thread PROVE Owner(p)'
  BY DEF OwnerInv
<1>1. Owner(p) /\ p \in Spinlock
  BY DEF TrapInv, OwnerInv, Spinlock
<1>2. \A g \in Cpu : cpu'[g].proc = cpu[g].proc
  BY DEF StepOf
<1>3. Off(p)' <=> Off(p)
  BY <1>2 DEF Off
<1>4. RunsOn(h) = p <=> cpu[h].proc = p
  BY RunsFact, HartAssumption DEF RunsOn
<1>5. \A g \in Cpu : cpu'[g].proc = p => pstate'[p] = "RUNNING" \/ holder'[p] = g
  BY <1>1, <1>2, <1>4, HartAssumption DEF Owner, StepOf
<1>6. ASSUME NEW g \in Cpu, holder'[p] = g, cpu'[g].proc # p
      PROVE  /\ cpu'[g].proc = NoOne /\ frames'[g][1].pc = "back" /\ Off(p)'
             /\ pstate'[p] = "RUNNING" => ~cpu'[g].intena
             /\ \A q \in Thread : holder'[q] = g => q = p
  <2>1. CASE g = h
    BY <1>2, <1>3, <1>6, <2>1
  <2>2. CASE g # h
    <3>1. holder[p] = g /\ cpu'[g] = cpu[g] /\ frames'[g] = frames[g]
      BY <1>1, <1>6, <2>2, RunsFact, HartAssumption DEF StepOf
    <3>2. pstate'[p] = "RUNNING" => pstate[p] = "RUNNING"
      BY <3>1, HartAssumption DEF StepOf
    <3>3. \A q \in Thread : holder'[q] = g => holder[q] = g
      BY <2>2, HartAssumption DEF StepOf, Spinlock
    <3> QED BY <1>1, <1>3, <1>6, <3>1, <3>2, <3>3 DEF Owner
  <2> QED BY <2>1, <2>2
<1>7. Off(p) => frames'[p] = frames[p] /\ saved'[p] = saved[p]
  BY <1>4 DEF StepOf, Off
<1> QED BY <1>1, <1>2, <1>3, <1>5, <1>6, <1>7 DEF Owner

(* The same outside scheduler()'s locked part, where there is none.        *)
LEMMA OwnerKept ==
  ASSUME TrapInv, NEW h \in Cpu, StepOf(h), cpu'[h].proc = cpu[h].proc,
         ~InFrame(h, {"scheduler"}, "back"),
         \A p \in Thread : holder'[p] = h => holder[p] = h \/ p = RunsOn(h),
         cpu[h].proc # NoOne => pstate'[RunsOn(h)] = "RUNNING" \/ holder'[RunsOn(h)] = h
  PROVE  OwnerInv'
<1>1. \A p \in Thread : holder'[p] = h => cpu[h].proc = p
  BY OwnLock, RunsFact
<1> QED BY <1>1, OwnerStep

(* Move() replaces the place of the innermost frame.                       *)
LEMMA MoveFact ==
  ASSUME TrapInv, NEW h \in Cpu, InKernel(h), NEW x \in ThreadPc \cup LoopPc, Move(h, x),
         Kind(h) \in Entries => x \in ThreadPc /\ (x \in {"body", "relock"} => Kind(h) = "syscall"),
         Kind(h) \in Traps => x \in TrapPc /\ (RunsOn(h) \in Cpu => x \in {"in", "crit", "out"}),
         Kind(h) = "scheduler" => x \in LoopPc
  PROVE  LET s == frames[RunsOn(h)]
             r == frames'[RunsOn(h)]
         IN  /\ frames' \in [Thread \cup Cpu -> Seq(Frames)] /\ StacksInv'
             /\ r # << >> /\ Len(r) = Len(s) /\ r[Len(r)] = FrameOf(Kind(h), x)
             /\ r[1].kind = s[1].kind
             /\ Kind(h) = "scheduler" => r[1].pc = x
             /\ \A t \in Thread \cup Cpu : t # RunsOn(h) => frames'[t] = frames[t]
<1> DEFINE t0 == RunsOn(h)
           s == frames[t0]
           f == FrameOf(Kind(h), x)
           r == [s EXCEPT ![Len(s)] = f]
<1>1. /\ t0 \in Thread \cup Cpu /\ s \in Seq(Frames) /\ Len(s) \in 1 .. 2
      /\ Top(h) = s[Len(s)] /\ Top(h) \in Frames
  BY RunsFact, TopFact
<1>2. f \in Frames /\ [s[Len(s)] EXCEPT !.pc = x] = f
  BY <1>1 DEF FrameOf, Kind, Frames
<1>3. frames' = [frames EXCEPT ![t0] = r]
  BY <1>1, <1>2 DEF Move
<1>4. /\ r \in Seq(Frames) /\ Len(r) = Len(s) /\ r[Len(s)] = f
      /\ \A j \in 1 .. Len(s) : j # Len(s) => r[j] = s[j]
  <2>1. Len(s) \in 1 .. Len(s)
    BY <1>1
  <2> HIDE DEF s, f
  <2> QED BY <1>1, <1>2, <2>1, ExceptSeq
<1>5. /\ frames' \in [Thread \cup Cpu -> Seq(Frames)] /\ frames'[t0] = r
      /\ \A t \in Thread \cup Cpu : t # t0 => frames'[t] = frames[t]
  BY <1>1, <1>3, <1>4 DEF TrapInv, FrameInv
<1>6. r # << >>
  BY <1>1, <1>4
<1>7. f.kind = Kind(h) /\ f.pc = x
  BY DEF FrameOf
<1>8. t0 \in Thread => ProcessStack(r)
  <2> SUFFICES ASSUME t0 \in Thread PROVE ProcessStack(r)
    OBVIOUS
  <2>1. ProcessStack(s) /\ Kind(h) = s[Len(s)].kind
    BY <1>1 DEF TrapInv, StacksInv, Kind
  <2>2. CASE Len(s) = 1
    BY <1>4, <1>7, <2>1, <2>2 DEF ProcessStack
  <2>3. CASE Len(s) = 2
    BY <1>4, <1>7, <2>1, <2>3 DEF ProcessStack
  <2> QED BY <1>1, <2>2, <2>3
<1>9. t0 \in Cpu => SchedulerStack(r)
  <2> SUFFICES ASSUME t0 \in Cpu PROVE SchedulerStack(r)
    OBVIOUS
  <2>1. SchedulerStack(s) /\ Kind(h) = s[Len(s)].kind
    BY <1>1 DEF TrapInv, StacksInv, Kind
  <2>2. CASE Len(s) = 1
    BY <1>4, <1>7, <2>1, <2>2 DEF SchedulerStack
  <2>3. CASE Len(s) = 2
    BY <1>4, <1>7, <2>1, <2>3 DEF SchedulerStack
  <2> QED BY <1>1, <2>2, <2>3
<1>10. StacksInv'
  BY <1>5, <1>8, <1>9 DEF TrapInv, StacksInv
<1>11. r[1].kind = s[1].kind /\ (Kind(h) = "scheduler" => r[1].pc = x)
  BY <1>1, <1>4, <1>7, TopFact DEF Kind
<1> QED BY <1>1, <1>4, <1>5, <1>6, <1>10, <1>11

(* Locks are counted where they are taken and where they are let go.       *)
LEMMA AcquireCount ==
  ASSUME CountInv, FrameInv, NEW h \in Cpu, NEW l \in Spinlock, acquire(h, l)
  PROVE  CountInv'
<1> SUFFICES ASSUME NEW g \in Cpu
             PROVE  IsFiniteSet(Held(g)') /\ cpu'[g].noff = Cardinality(Held(g)')
  BY DEF CountInv
<1>1. IsFiniteSet(Held(g)) /\ cpu[g].noff = Cardinality(Held(g))
  BY DEF CountInv
<1>2. \A m \in Spinlock : holder'[m] = IF m = l THEN h ELSE holder[m]
  BY DEF acquire, FrameInv
<1>3. holder[l] = NoOne /\ g # NoOne
  BY HartAssumption DEF acquire
<1>4. CASE g = h
  <2>1. Held(g)' = Held(g) \cup {l} /\ l \notin Held(g)
    BY <1>2, <1>3, <1>4 DEF Held
  <2>2. cpu'[g].noff = cpu[g].noff + 1
    BY <1>4 DEF acquire, push_off, FrameInv, HartState
  <2> QED BY <1>1, <2>1, <2>2, FS_AddElement
<1>5. CASE g # h
  <2>1. Held(g)' = Held(g) /\ cpu'[g] = cpu[g]
    BY <1>2, <1>3, <1>5 DEF Held, acquire, FrameInv
  <2> QED BY <1>1, <2>1
<1> QED BY <1>4, <1>5

(* The same where a lock is let go.                                        *)
LEMMA ReleaseCount ==
  ASSUME CountInv, FrameInv, NEW h \in Cpu, NEW l \in Spinlock, holder[l] = h, release(h, l)
  PROVE  CountInv'
<1> SUFFICES ASSUME NEW g \in Cpu
             PROVE  IsFiniteSet(Held(g)') /\ cpu'[g].noff = Cardinality(Held(g)')
  BY DEF CountInv
<1>1. IsFiniteSet(Held(g)) /\ cpu[g].noff = Cardinality(Held(g))
  BY DEF CountInv
<1>2. \A m \in Spinlock : holder'[m] = IF m = l THEN NoOne ELSE holder[m]
  BY DEF release, FrameInv
<1>3. g # NoOne
  BY HartAssumption
<1>4. CASE g = h
  <2>1. Held(g)' = Held(g) \ {l} /\ l \in Held(g)
    BY <1>2, <1>3, <1>4 DEF Held
  <2>2. cpu'[g].noff = cpu[g].noff - 1
    BY <1>4 DEF release, pop_off, FrameInv, HartState
  <2> QED BY <1>1, <2>1, <2>2, FS_RemoveElement
<1>5. CASE g # h
  <2>1. Held(g)' = Held(g) /\ cpu'[g] = cpu[g]
    BY <1>2, <1>3, <1>5 DEF Held, release, FrameInv
  <2> QED BY <1>1, <2>1
<1> QED BY <1>4, <1>5

(* Steps that touch neither.                                               *)
LEMMA SameCount ==
  ASSUME CountInv, UNCHANGED holder, \A h \in Cpu : cpu'[h].noff = cpu[h].noff
  PROVE  CountInv'
  BY DEF CountInv, Held

(* What acquire() and release() do to the hart and to the locks.           *)
LEMMA AcquireFact ==
  ASSUME FrameInv, NEW h \in Cpu, NEW l \in Spinlock, acquire(h, l)
  PROVE  /\ cpu' \in [Cpu -> HartState]
         /\ holder' \in [Spinlock -> Cpu \cup {NoOne}]
         /\ \A g \in Cpu : g # h => cpu'[g] = cpu[g]
         /\ \A m \in Spinlock : holder'[m] = IF m = l THEN h ELSE holder[m]
         /\ \A m \in Spinlock : holder'[m] = holder[m] \/ {holder[m], holder'[m]} \subseteq {h, NoOne}
         /\ holder[l] = NoOne
         /\ cpu'[h].noff = cpu[h].noff + 1 /\ ~cpu'[h].sie
         /\ cpu'[h].stvec = cpu[h].stvec /\ cpu'[h].proc = cpu[h].proc
         /\ cpu[h].noff = 0 => (cpu'[h].intena <=> cpu[h].sie)
         /\ cpu[h].noff # 0 => (cpu'[h].intena <=> cpu[h].intena)
<1> DEFINE c == cpu[h]
           d == push_off(c)
<1>1. /\ cpu' = [cpu EXCEPT ![h] = d] /\ holder[l] = NoOne
      /\ holder' = [holder EXCEPT ![l] = h]
  BY DEF acquire
<1>2. c \in HartState
  BY DEF FrameInv
<1> DEFINE e == IF c.noff = 0 THEN c.sie ELSE c.intena
<1>3. d = [sie |-> FALSE, noff |-> c.noff + 1, intena |-> e, stvec |-> c.stvec, proc |-> c.proc]
  <2>1. d = [c EXCEPT !.intena = e, !.noff = @ + 1, !.sie = FALSE]
    BY DEF push_off
  <2>2. e \in BOOLEAN
    BY <1>2, Zenon DEF HartState
  <2> HIDE DEF e, c, d
  <2> QED BY <1>2, <2>1, <2>2 DEF HartState
<1>4. (IF c.noff = 0 THEN c.sie ELSE c.intena) \in BOOLEAN
  BY <1>2, Zenon DEF HartState
<1>5. d \in HartState
  BY <1>2, <1>3, <1>4 DEF HartState
<1>6. /\ cpu' \in [Cpu -> HartState]
      /\ cpu'[h] = d /\ \A g \in Cpu : g # h => cpu'[g] = cpu[g]
  <2> HIDE DEF d
  <2> QED BY <1>1, <1>5 DEF FrameInv
<1>7. /\ holder' \in [Spinlock -> Cpu \cup {NoOne}]
      /\ \A m \in Spinlock : holder'[m] = IF m = l THEN h ELSE holder[m]
  BY <1>1 DEF FrameInv
<1>8. d.noff = c.noff + 1 /\ d.stvec = c.stvec /\ d.proc = c.proc
  BY <1>3
<1>9. ~d.sie /\ (c.noff = 0 => (d.intena <=> c.sie)) /\ (c.noff # 0 => (d.intena <=> c.intena))
  BY <1>3
<1> QED BY <1>1, <1>6, <1>7, <1>8, <1>9

(* The same for release().                                                 *)
LEMMA ReleaseFact ==
  ASSUME FrameInv, NEW h \in Cpu, NEW l \in Spinlock, cpu[h].noff # 0, holder[l] = h, release(h, l)
  PROVE  /\ cpu' \in [Cpu -> HartState]
         /\ holder' \in [Spinlock -> Cpu \cup {NoOne}]
         /\ \A g \in Cpu : g # h => cpu'[g] = cpu[g]
         /\ \A m \in Spinlock : holder'[m] = IF m = l THEN NoOne ELSE holder[m]
         /\ \A m \in Spinlock : holder'[m] = holder[m] \/ {holder[m], holder'[m]} \subseteq {h, NoOne}
         /\ cpu'[h].noff = cpu[h].noff - 1
         /\ cpu'[h].sie <=> cpu[h].noff = 1 /\ cpu[h].intena
         /\ cpu'[h].stvec = cpu[h].stvec /\ cpu'[h].proc = cpu[h].proc
         /\ cpu'[h].intena <=> cpu[h].intena
<1> DEFINE c == cpu[h]
           d == pop_off(c)
<1>1. cpu' = [cpu EXCEPT ![h] = d] /\ holder' = [holder EXCEPT ![l] = NoOne]
  BY DEF release
<1>2. c \in HartState
  BY DEF FrameInv
<1> DEFINE e == (c.noff = 1 /\ c.intena)
<1>3. d = [sie |-> e, noff |-> c.noff - 1, intena |-> c.intena, stvec |-> c.stvec, proc |-> c.proc]
  <2>1. d = [c EXCEPT !.noff = @ - 1, !.sie = e]
    BY DEF pop_off
  <2>2. e \in BOOLEAN
    OBVIOUS
  <2> HIDE DEF e, c, d
  <2> QED BY <1>2, <2>1, <2>2 DEF HartState
<1>4. (c.noff = 1 /\ c.intena) \in BOOLEAN /\ c.noff - 1 \in Nat
  BY <1>2 DEF HartState
<1>5. d \in HartState
  BY <1>2, <1>3, <1>4 DEF HartState
<1>6. /\ cpu' \in [Cpu -> HartState]
      /\ cpu'[h] = d /\ \A g \in Cpu : g # h => cpu'[g] = cpu[g]
  <2> HIDE DEF d
  <2> QED BY <1>1, <1>5 DEF FrameInv
<1>7. /\ holder' \in [Spinlock -> Cpu \cup {NoOne}]
      /\ \A m \in Spinlock : holder'[m] = IF m = l THEN NoOne ELSE holder[m]
  BY <1>1 DEF FrameInv
<1>8. d.noff = c.noff - 1 /\ d.stvec = c.stvec /\ d.proc = c.proc
  BY <1>3
<1>9. (d.sie <=> c.noff = 1 /\ c.intena) /\ (d.intena <=> c.intena)
  <2>1. d.sie = e /\ d.intena = c.intena
    <3> HIDE DEF c, d, e
    <3> QED BY <1>3
  <2> QED BY <2>1, Zenon
<1> QED BY <1>1, <1>6, <1>7, <1>8, <1>9

(* The initial state.                                                      *)
LEMMA TrapInit == HartInit => TrapInv
<1> SUFFICES ASSUME HartInit PROVE TrapInv
  OBVIOUS
<1>1. \A p \in Thread : frames[p] = <<FrameOf("forkret", "woken")>>
  BY DEF HartInit
<1>2. \A h \in Cpu : frames[h] = <<FrameOf("scheduler", "loop")>>
  BY HartAssumption DEF HartInit
<1>3. FrameOf("forkret", "woken") \in Frames /\ FrameOf("scheduler", "loop") \in Frames
  BY DEF FrameOf, Frames, Entries, Traps, ThreadPc, TrapPc, LoopPc
<1>4. FrameInv
  <2>1. frames \in [Thread \cup Cpu -> Seq(Frames)]
    BY <1>3 DEF HartInit
  <2> QED BY <2>1 DEF HartInit, FrameInv, HartState
<1>5. StacksInv
  <2>1. ProcessStack(<<FrameOf("forkret", "woken")>>)
    BY DEF ProcessStack, FrameOf, Entries, ThreadPc, TrapPc
  <2>2. SchedulerStack(<<FrameOf("scheduler", "loop")>>)
    BY DEF SchedulerStack, FrameOf, LoopPc
  <2> QED BY <1>1, <1>2, <2>1, <2>2 DEF StacksInv
<1>6. PlaceInv
  <2> SUFFICES ASSUME NEW h \in Cpu PROVE Place(h)
    BY DEF PlaceInv
  <2>1. cpu[h] = [sie |-> FALSE, noff |-> 0, intena |-> FALSE, stvec |-> "kernelvec", proc |-> NoOne]
    BY DEF HartInit
  <2>2. Top(h) = FrameOf("scheduler", "loop")
    BY <1>2, <2>1 DEF Top, RunsOn
  <2> QED BY <2>1, <2>2 DEF Place, Pc, Kind, FrameOf, Depth
<1>7. OwnerInv
  <2> SUFFICES ASSUME NEW p \in Thread PROVE Owner(p)
    BY DEF OwnerInv
  <2>1. \A h \in Cpu : cpu[h].proc = NoOne
    BY DEF HartInit
  <2>2. holder[p] = NoOne
    BY DEF HartInit, Spinlock
  <2> QED BY <1>1, <2>1, <2>2, HartAssumption DEF Owner, FrameOf
<1>8. CountInv
  <2>1. \A h \in Cpu : Held(h) = {} /\ cpu[h].noff = 0
    BY HartAssumption DEF HartInit, Held
  <2> QED BY <2>1, FS_EmptySet DEF CountInv
<1> QED BY <1>4, <1>5, <1>6, <1>7, <1>8 DEF TrapInv

-----------------------------------------------------------------------------
(* Steps that move the innermost frame on the hart it runs on.             *)
Moved(h, x) ==
  /\ FrameInv' /\ StacksInv' /\ StepOf(h)
  /\ RunsOn(h)' = RunsOn(h) /\ InKernel(h)' /\ Pc(h)' = x /\ Kind(h)' = Kind(h)
  /\ cpu'[h].proc = cpu[h].proc
  /\ cpu'[h].proc # NoOne => frames'[h][1].pc = "back"

(* Move() is such a step when locks and processes change as StepOf says.   *)
LEMMA MoveStep ==
  ASSUME TrapInv, NEW h \in Cpu, InKernel(h), NEW x \in ThreadPc \cup LoopPc, Move(h, x),
         Kind(h) \in Entries => x \in ThreadPc /\ (x \in {"body", "relock"} => Kind(h) = "syscall"),
         Kind(h) \in Traps => x \in TrapPc /\ (RunsOn(h) \in Cpu => x \in {"in", "crit", "out"}),
         Kind(h) = "scheduler" => x \in LoopPc,
         cpu' \in [Cpu -> HartState], \A g \in Cpu : g # h => cpu'[g] = cpu[g],
         cpu'[h].proc = cpu[h].proc,
         holder' \in [Spinlock -> Cpu \cup {NoOne}],
         \A l \in Spinlock : holder'[l] = holder[l] \/ {holder[l], holder'[l]} \subseteq {h, NoOne},
         pstate' \in [Thread -> {"RUNNABLE", "RUNNING", "SLEEPING"}],
         \A p \in Thread : /\ pstate[p] = "RUNNING" /\ p # RunsOn(h) => pstate'[p] = "RUNNING"
                           /\ pstate'[p] = "RUNNING" => pstate[p] = "RUNNING" \/ holder[p] = NoOne,
         UNCHANGED saved
  PROVE  Moved(h, x)
<1>1. /\ frames' \in [Thread \cup Cpu -> Seq(Frames)] /\ StacksInv'
      /\ frames'[RunsOn(h)] # << >>
      /\ frames'[RunsOn(h)][Len(frames'[RunsOn(h)])] = FrameOf(Kind(h), x)
      /\ \A t \in Thread \cup Cpu : t # RunsOn(h) => frames'[t] = frames[t]
  BY MoveFact
<1>2. FrameInv' /\ StepOf(h)
  BY <1>1 DEF TrapInv, FrameInv, StepOf
<1>3. RunsOn(h)' = RunsOn(h)
  BY DEF RunsOn
<1>4. InKernel(h)' /\ Top(h)' = FrameOf(Kind(h), x)
  BY <1>1, <1>3 DEF InKernel, Top
<1>5. Pc(h)' = x /\ Kind(h)' = Kind(h)
  BY <1>4 DEF Pc, Kind, FrameOf
<1>6. cpu[h].proc # NoOne => frames'[h][1].pc = "back"
  BY <1>1, RunsFact, HartAssumption DEF TrapInv, PlaceInv, Place
<1> QED BY <1>1, <1>2, <1>3, <1>4, <1>5, <1>6 DEF Moved

(* The place a hart has moved to.                                          *)
At(h, x) ==
  /\ cpu'[h].noff = Depth(x)
  /\ x \in {"body", "relock", "open"} => cpu'[h].sie
  /\ x \notin {"body", "relock", "open", "loop"} => ~cpu'[h].sie
  /\ x \in {"crit", "drop", "sched", "woken"} => (cpu'[h].intena <=> Kind(h) = "syscall")
  /\ x # "sret" => cpu'[h].stvec = "kernelvec"
  /\ x \in {"crit", "drop"} => holder'[Dev] = h
  /\ x \in {"drop", "sched", "woken"} => holder'[RunsOn(h)] = h
  /\ x = "sched" => pstate'[RunsOn(h)] # "RUNNING"
  /\ cpu[h].proc # NoOne => pstate'[RunsOn(h)] = "RUNNING" \/ x = "sched"

(* A hart that moved to x and meets At() has its place there.              *)
LEMMA MovedPlace ==
  ASSUME TrapInv, NEW h \in Cpu, NEW x, Moved(h, x), At(h, x)
  PROVE  PlaceInv'
<1>1. Place(h)'
  BY DEF Moved, At, Place
<1> QED BY <1>1, OtherHarts DEF PlaceInv, Moved

(* A move outside scheduler()'s locked part keeps the invariant.           *)
LEMMA MovedInv ==
  ASSUME TrapInv, NEW h \in Cpu, NEW x, Moved(h, x), At(h, x), CountInv',
         ~InFrame(h, {"scheduler"}, "back"),
         \A p \in Thread : holder'[p] = h => holder[p] = h \/ p = RunsOn(h),
         cpu[h].proc # NoOne => pstate'[RunsOn(h)] = "RUNNING" \/ holder'[RunsOn(h)] = h
  PROVE  TrapInv'
<1>1. OwnerInv'
  BY OwnerKept DEF Moved
<1> QED BY <1>1, MovedPlace DEF Moved, TrapInv

(* The facts of InFrame().                                                 *)
LEMMA InFrameFact ==
  ASSUME TrapInv, NEW h \in Cpu, NEW kinds, NEW x, InFrame(h, kinds, x)
  PROVE  /\ InKernel(h) /\ Kind(h) \in kinds /\ Pc(h) = x /\ Place(h)
         /\ x # "back" => ~InFrame(h, {"scheduler"}, "back")
         /\ cpu[h].proc # NoOne => RunsOn(h) = cpu[h].proc /\ RunsOn(h) \in Thread
         /\ x \notin LoopPc \cup {"in", "crit", "out"} => RunsOn(h) \in Thread
         /\ cpu[h].proc # NoOne => pstate[RunsOn(h)] = "RUNNING" \/ holder[RunsOn(h)] = h
<1>1. InKernel(h) /\ Kind(h) \in kinds /\ Pc(h) = x /\ Place(h)
  BY DEF InFrame, Kind, Pc, TrapInv, PlaceInv
<1>2. x # "back" => ~InFrame(h, {"scheduler"}, "back")
  BY <1>1 DEF InFrame, Pc
<1>3. cpu[h].proc # NoOne => RunsOn(h) = cpu[h].proc /\ RunsOn(h) \in Thread
  BY RunsFact DEF RunsOn
<1>4. x \notin LoopPc \cup {"in", "crit", "out"} => RunsOn(h) \in Thread
  BY <1>1, RunsFact, TopFact
<1>5. cpu[h].proc # NoOne => pstate[RunsOn(h)] = "RUNNING" \/ holder[RunsOn(h)] = h
  BY <1>3 DEF TrapInv, OwnerInv, Owner
<1> QED BY <1>1, <1>2, <1>3, <1>4, <1>5

(* Steps that touch no lock and no process.                                *)
LEMMA QuietStep ==
  ASSUME TrapInv, NEW h \in Cpu, NEW kinds, NEW y, InFrame(h, kinds, y), y # "back",
         NEW x \in ThreadPc \cup LoopPc, Move(h, x),
         Kind(h) \in Entries => x \in ThreadPc /\ (x \in {"body", "relock"} => Kind(h) = "syscall"),
         Kind(h) \in Traps => x \in TrapPc /\ (RunsOn(h) \in Cpu => x \in {"in", "crit", "out"}),
         Kind(h) = "scheduler" => x \in LoopPc,
         cpu' \in [Cpu -> HartState], \A g \in Cpu : g # h => cpu'[g] = cpu[g],
         cpu'[h].proc = cpu[h].proc, cpu'[h].noff = cpu[h].noff,
         UNCHANGED <<holder, pstate, saved>>, At(h, x)
  PROVE  TrapInv'
<1>1. Moved(h, x)
  BY MoveStep, InFrameFact DEF TrapInv, FrameInv
<1>2. CountInv'
  BY SameCount DEF TrapInv
<1> QED BY <1>1, <1>2, MovedInv, InFrameFact

(* intr_on() in a system call.                                             *)
LEMMA IntrOnStep ==
  ASSUME TrapInv, NEW h \in Cpu, IntrOn(h)
  PROVE  TrapInv'
<1>1. InFrame(h, {"syscall"}, "in") /\ Move(h, "body") /\ UNCHANGED <<holder, pstate, saved>>
  BY DEF IntrOn
<1>2. /\ cpu' \in [Cpu -> HartState] /\ \A g \in Cpu : g # h => cpu'[g] = cpu[g]
      /\ cpu'[h].proc = cpu[h].proc /\ cpu'[h].noff = cpu[h].noff
      /\ cpu'[h].stvec = cpu[h].stvec /\ cpu'[h].sie
  BY DEF IntrOn, TrapInv, FrameInv, HartState
<1>3. Kind(h) = "syscall" /\ At(h, "body")
  BY <1>1, <1>2, InFrameFact DEF At, Place, Depth
<1> QED BY <1>1, <1>2, <1>3, QuietStep DEF Entries, Traps, ThreadPc

(* prepare_return(): interrupts go off together with the vector change.    *)
LEMMA PrepareStep ==
  ASSUME TrapInv, NEW h \in Cpu, prepare_return(h)
  PROVE  TrapInv'
<1>1. /\ InFrame(h, {"drain", "forkret"}, "out") \/ InFrame(h, {"syscall"}, "body")
      /\ Move(h, "sret") /\ UNCHANGED <<holder, pstate, saved>>
  BY DEF prepare_return
<1>2. /\ cpu' \in [Cpu -> HartState] /\ \A g \in Cpu : g # h => cpu'[g] = cpu[g]
      /\ cpu'[h].proc = cpu[h].proc /\ cpu'[h].noff = cpu[h].noff /\ ~cpu'[h].sie
  BY DEF prepare_return, IntrOff, TrapInv, FrameInv, HartState
<1>3. Kind(h) \in Entries /\ Kind(h) \notin Traps \cup {"scheduler"} /\ At(h, "sret")
  BY <1>1, <1>2, InFrameFact DEF At, Place, Depth, Entries, Traps
<1> QED BY <1>1, <1>2, <1>3, QuietStep DEF ThreadPc

(* scheduler() opens interrupts, closes them, and finds nobody.            *)
LEMMA SchedulerOnStep ==
  ASSUME TrapInv, NEW h \in Cpu, SchedulerOn(h)
  PROVE  TrapInv'
<1>1. InFrame(h, {"scheduler"}, "loop") /\ Move(h, "open") /\ UNCHANGED <<holder, pstate, saved>>
  BY DEF SchedulerOn
<1>2. /\ cpu' \in [Cpu -> HartState] /\ \A g \in Cpu : g # h => cpu'[g] = cpu[g]
      /\ cpu'[h].proc = cpu[h].proc /\ cpu'[h].noff = cpu[h].noff
      /\ cpu'[h].stvec = cpu[h].stvec /\ cpu'[h].sie
  BY DEF SchedulerOn, TrapInv, FrameInv, HartState
<1>3. Kind(h) = "scheduler" /\ At(h, "open")
  BY <1>1, <1>2, InFrameFact DEF At, Place, Depth
<1> QED BY <1>1, <1>2, <1>3, QuietStep DEF Entries, Traps, LoopPc

(* Interrupts off again before the scan.                                   *)
LEMMA SchedulerOffStep ==
  ASSUME TrapInv, NEW h \in Cpu, SchedulerOff(h)
  PROVE  TrapInv'
<1>1. InFrame(h, {"scheduler"}, "open") /\ Move(h, "scan") /\ UNCHANGED <<holder, pstate, saved>>
  BY DEF SchedulerOff
<1>2. /\ cpu' \in [Cpu -> HartState] /\ \A g \in Cpu : g # h => cpu'[g] = cpu[g]
      /\ cpu'[h].proc = cpu[h].proc /\ cpu'[h].noff = cpu[h].noff
      /\ cpu'[h].stvec = cpu[h].stvec /\ ~cpu'[h].sie
  BY DEF SchedulerOff, TrapInv, FrameInv, HartState
<1>3. Kind(h) = "scheduler" /\ At(h, "scan")
  BY <1>1, <1>2, InFrameFact DEF At, Place, Depth
<1> QED BY <1>1, <1>2, <1>3, QuietStep DEF Entries, Traps, LoopPc

(* Nobody is runnable.                                                     *)
LEMMA SchedulerIdleStep ==
  ASSUME TrapInv, NEW h \in Cpu, SchedulerIdle(h)
  PROVE  TrapInv'
<1>1. InFrame(h, {"scheduler"}, "scan") /\ Move(h, "loop") /\ UNCHANGED <<cpu, holder, pstate, saved>>
  BY DEF SchedulerIdle
<1>2. /\ cpu' \in [Cpu -> HartState] /\ \A g \in Cpu : g # h => cpu'[g] = cpu[g]
      /\ cpu'[h] = cpu[h]
  BY <1>1 DEF TrapInv, FrameInv
<1>3. Kind(h) = "scheduler" /\ At(h, "loop")
  BY <1>1, <1>2, InFrameFact DEF At, Place, Depth
<1> QED BY <1>1, <1>2, <1>3, QuietStep DEF Entries, Traps, LoopPc

-----------------------------------------------------------------------------
(* Steps that take or let go of a lock.                                    *)
LEMMA LockDeviceStep ==
  ASSUME TrapInv, NEW h \in Cpu, LockDevice(h)
  PROVE  TrapInv'
<1>1. /\ \/ InFrame(h, Handlers \cup {"drain"}, "in") \/ InFrame(h, {"drain"}, "out")
         \/ InFrame(h, {"syscall"}, "body") \/ InFrame(h, {"syscall"}, "relock")
      /\ acquire(h, Dev) /\ Move(h, "crit") /\ UNCHANGED <<pstate, saved>>
      /\ Dev \in Spinlock
  BY DEF LockDevice, Spinlock
<1>2. PICK y \in {"in", "out", "body", "relock"} :
        InFrame(h, Handlers \cup Calls, y) /\ (y \in {"in", "out"} <=> Kind(h) # "syscall")
  BY <1>1, InFrameFact DEF InFrame, Handlers, Calls, Kind
<1>3. Kind(h) \in Entries \cup Traps /\ Kind(h) # "scheduler"
  BY <1>2, InFrameFact DEF Handlers, Calls, Entries, Traps
<1>4. CountInv'
  BY <1>1, AcquireCount DEF TrapInv
<1>5. cpu[h].proc # NoOne => pstate'[RunsOn(h)] = "RUNNING"
  BY <1>1, InFrameFact DEF Place
<1>6. pstate' \in [Thread -> {"RUNNABLE", "RUNNING", "SLEEPING"}] /\ pstate' = pstate /\ saved' = saved
  BY <1>1 DEF TrapInv, FrameInv
<1>7. cpu[h].noff = 0 /\ InKernel(h)
  BY <1>2, InFrameFact DEF Place, Depth
<1>8. Moved(h, "crit")
  BY <1>1, <1>3, <1>6, <1>7, AcquireFact, MoveStep DEF TrapInv, ThreadPc, TrapPc
<1>9. At(h, "crit")
  <2>1. cpu[h].noff = 0 /\ (cpu[h].sie <=> Kind(h) = "syscall") /\ cpu[h].stvec = "kernelvec"
    BY <1>2, InFrameFact DEF Place, Depth
  <2>2. cpu[h].sie \in BOOLEAN
    BY DEF TrapInv, FrameInv, HartState
  <2> QED BY <1>1, <1>5, <2>1, <2>2, AcquireFact DEF At, Depth, TrapInv
<1>10. \A p \in Thread : holder'[p] = holder[p]
  BY <1>1, AcquireFact, HartAssumption DEF TrapInv, Spinlock
<1> QED BY <1>1, <1>2, <1>4, <1>8, <1>9, <1>10, MovedInv, InFrameFact

(* And lets it go: a system call has interrupts on again, a handler not.   *)
LEMMA UnlockDeviceStep ==
  ASSUME TrapInv, NEW h \in Cpu, UnlockDevice(h)
  PROVE  TrapInv'
<1> DEFINE x == IF Kind(h) = "syscall" THEN "body"
                ELSE IF Kind(h) \in Timers /\ cpu[h].proc # NoOne THEN "yield" ELSE "out"
<1>1. /\ InFrame(h, Handlers \cup Calls, "crit")
      /\ release(h, Dev) /\ Move(h, x) /\ UNCHANGED <<pstate, saved>> /\ Dev \in Spinlock
  BY DEF UnlockDevice, Spinlock, Kind
<1>2. /\ Kind(h) \in Entries \cup Traps /\ Kind(h) # "scheduler"
      /\ cpu[h].noff = 1 /\ holder[Dev] = h /\ cpu[h].stvec = "kernelvec"
      /\ (cpu[h].intena <=> Kind(h) = "syscall")
  BY <1>1, InFrameFact DEF Handlers, Calls, Entries, Traps, Place, Depth
<1>3. /\ x \in ThreadPc /\ (x = "body" <=> Kind(h) = "syscall") /\ x \in {"body", "yield", "out"}
      /\ Kind(h) \in Traps => x \in TrapPc /\ (RunsOn(h) \in Cpu => x = "out")
  BY RunsFact DEF ThreadPc, TrapPc, Traps
<1>4. CountInv'
  BY <1>1, <1>2, ReleaseCount DEF TrapInv
<1> HIDE DEF x
<1>5. cpu[h].proc # NoOne => pstate'[RunsOn(h)] = "RUNNING"
  BY <1>1, InFrameFact DEF Place
<1>6. Moved(h, x)
  <2>1. pstate' \in [Thread -> {"RUNNABLE", "RUNNING", "SLEEPING"}] /\ pstate' = pstate /\ saved' = saved
    BY <1>1 DEF TrapInv, FrameInv
  <2>2. InKernel(h)
    BY <1>1, InFrameFact
  <2> QED BY <1>1, <1>2, <1>3, <2>1, <2>2, ReleaseFact, MoveStep DEF TrapInv, TrapPc
<1>7. At(h, x)
  BY <1>1, <1>2, <1>3, <1>5, ReleaseFact DEF At, Depth, TrapInv
<1>8. \A p \in Thread : holder'[p] = holder[p]
  BY <1>1, <1>2, ReleaseFact, HartAssumption DEF TrapInv, Spinlock
<1> QED BY <1>1, <1>4, <1>6, <1>7, <1>8, MovedInv, InFrameFact

(* yield() takes p->lock.                                                  *)
LEMMA YieldStep ==
  ASSUME TrapInv, NEW h \in Cpu, yield(h)
  PROVE  TrapInv'
<1>1. /\ InFrame(h, Timers, "yield") /\ acquire(h, RunsOn(h)) /\ Move(h, "sched")
      /\ pstate' = [pstate EXCEPT ![RunsOn(h)] = "RUNNABLE"] /\ UNCHANGED saved
  BY DEF yield
<1>2. RunsOn(h) \in Thread /\ RunsOn(h) \in Spinlock
  BY <1>1, InFrameFact DEF LoopPc, Spinlock
<1>3. /\ Kind(h) \in Entries \cup Traps /\ Kind(h) \notin {"scheduler", "syscall"}
      /\ cpu[h].noff = 0 /\ ~cpu[h].sie /\ cpu[h].stvec = "kernelvec"
  BY <1>1, InFrameFact DEF Timers, Entries, Traps, Place, Depth
<1>4. CountInv'
  BY <1>1, <1>2, AcquireCount DEF TrapInv
<1>5. /\ pstate' \in [Thread -> {"RUNNABLE", "RUNNING", "SLEEPING"}] /\ pstate'[RunsOn(h)] = "RUNNABLE"
      /\ \A p \in Thread : p # RunsOn(h) => pstate'[p] = pstate[p]
  BY <1>1, <1>2 DEF TrapInv, FrameInv
<1>6. Moved(h, "sched")
  BY <1>1, <1>2, <1>3, <1>5, AcquireFact, MoveStep, InFrameFact, HartAssumption
     DEF TrapInv, ThreadPc, TrapPc
<1>7. At(h, "sched")
  BY <1>1, <1>2, <1>3, <1>5, AcquireFact DEF At, Depth, TrapInv
<1>8. \A p \in Thread : holder'[p] = h => holder[p] = h \/ p = RunsOn(h)
  BY <1>1, <1>2, AcquireFact DEF TrapInv, Spinlock
<1>9. holder'[RunsOn(h)] = h
  BY <1>1, <1>2, AcquireFact DEF TrapInv
<1> QED BY <1>1, <1>4, <1>6, <1>7, <1>8, <1>9, MovedInv, InFrameFact

(* sleep() takes p->lock as its second lock.                               *)
LEMMA SleepLockStep ==
  ASSUME TrapInv, NEW h \in Cpu, SleepLock(h)
  PROVE  TrapInv'
<1>1. /\ InFrame(h, Calls, "crit") /\ acquire(h, RunsOn(h)) /\ Move(h, "drop")
      /\ UNCHANGED <<pstate, saved>>
  BY DEF SleepLock
<1>2. Kind(h) \in Calls /\ RunsOn(h) \in Thread /\ RunsOn(h) \in Spinlock
  BY <1>1, InFrameFact, TopFact DEF Calls, Entries, Spinlock
<1>3. /\ cpu[h].noff = 1 /\ ~cpu[h].sie /\ cpu[h].stvec = "kernelvec"
      /\ (cpu[h].intena <=> Kind(h) = "syscall")
      /\ holder[Dev] = h
  BY <1>1, <1>2, InFrameFact DEF Place, Depth
<1>4. CountInv'
  BY <1>1, <1>2, AcquireCount DEF TrapInv
<1>5. cpu[h].proc # NoOne => pstate'[RunsOn(h)] = "RUNNING"
  BY <1>1, InFrameFact DEF Place
<1>6. pstate' \in [Thread -> {"RUNNABLE", "RUNNING", "SLEEPING"}] /\ pstate' = pstate /\ saved' = saved
  BY <1>1 DEF TrapInv, FrameInv
<1>7. InKernel(h)
  BY <1>1, InFrameFact
<1>8. Moved(h, "drop")
  BY <1>1, <1>2, <1>6, <1>7, AcquireFact, MoveStep DEF TrapInv, ThreadPc, Calls, Entries, Traps
<1>9. Dev \in Spinlock /\ Dev # RunsOn(h)
  BY <1>2, HartAssumption DEF Spinlock
<1>10. At(h, "drop")
  BY <1>1, <1>2, <1>3, <1>5, <1>9, AcquireFact DEF At, Depth, TrapInv
<1>11. \A p \in Thread : holder'[p] = h => holder[p] = h \/ p = RunsOn(h)
  BY <1>1, <1>2, AcquireFact DEF TrapInv, Spinlock
<1>12. holder'[RunsOn(h)] = h
  BY <1>1, <1>2, AcquireFact DEF TrapInv
<1> QED BY <1>1, <1>4, <1>8, <1>10, <1>11, <1>12, MovedInv, InFrameFact

(* And lets go of the first.                                               *)
LEMMA SleepDropStep ==
  ASSUME TrapInv, NEW h \in Cpu, SleepDrop(h)
  PROVE  TrapInv'
<1>1. /\ InFrame(h, Calls, "drop") /\ release(h, Dev) /\ Move(h, "sched")
      /\ pstate' = [pstate EXCEPT ![RunsOn(h)] = "SLEEPING"] /\ UNCHANGED saved
      /\ Dev \in Spinlock
  BY DEF SleepDrop, Spinlock
<1>2. Kind(h) \in Calls /\ RunsOn(h) \in Thread /\ RunsOn(h) \in Spinlock /\ RunsOn(h) # Dev
  BY <1>1, InFrameFact, HartAssumption DEF LoopPc, Spinlock
<1>3. /\ cpu[h].noff = 2 /\ cpu[h].stvec = "kernelvec" /\ (cpu[h].intena <=> Kind(h) = "syscall")
      /\ holder[Dev] = h /\ holder[RunsOn(h)] = h
  BY <1>1, <1>2, InFrameFact DEF Place, Depth
<1>4. CountInv'
  BY <1>1, <1>3, ReleaseCount DEF TrapInv
<1>5. /\ pstate' \in [Thread -> {"RUNNABLE", "RUNNING", "SLEEPING"}] /\ pstate'[RunsOn(h)] = "SLEEPING"
      /\ \A p \in Thread : p # RunsOn(h) => pstate'[p] = pstate[p]
  BY <1>1, <1>2 DEF TrapInv, FrameInv
<1>6. Moved(h, "sched")
  BY <1>1, <1>2, <1>3, <1>5, ReleaseFact, MoveStep, InFrameFact
     DEF TrapInv, ThreadPc, TrapPc, Calls, Entries, Traps
<1>7. At(h, "sched")
  BY <1>1, <1>2, <1>3, <1>5, ReleaseFact DEF At, Depth, TrapInv
<1>8. \A p \in Thread : holder'[p] = holder[p]
  BY <1>1, <1>3, ReleaseFact, HartAssumption DEF TrapInv, Spinlock
<1> QED BY <1>1, <1>2, <1>3, <1>4, <1>6, <1>7, <1>8, MovedInv, InFrameFact

(* A thread back from sched(), or at the start of forkret(), lets go of    *)
(* its lock: interrupts are as sched() found them.                         *)
LEMMA ResumeStep ==
  ASSUME TrapInv, NEW h \in Cpu, Resume(h)
  PROVE  TrapInv'
<1> DEFINE x == CASE Kind(h) = "syscall" -> "relock" [] Kind(h) = "drain" -> "in" [] OTHER -> "out"
<1>1. /\ InFrame(h, Timers \cup Calls \cup {"forkret"}, "woken")
      /\ release(h, RunsOn(h)) /\ Move(h, x) /\ UNCHANGED <<pstate, saved>>
  BY DEF Resume, Kind
<1>2. /\ Kind(h) \in Entries \cup Traps /\ Kind(h) # "scheduler"
      /\ RunsOn(h) \in Thread /\ RunsOn(h) \in Spinlock
  BY <1>1, InFrameFact DEF LoopPc, Spinlock, Timers, Calls, Entries, Traps
<1>3. /\ cpu[h].noff = 1 /\ holder[RunsOn(h)] = h /\ cpu[h].stvec = "kernelvec"
      /\ (cpu[h].intena <=> Kind(h) = "syscall")
  BY <1>1, InFrameFact DEF Place, Depth
<1>4. /\ x \in ThreadPc /\ (x = "relock" <=> Kind(h) = "syscall") /\ x \in {"relock", "in", "out"}
      /\ Kind(h) \in Traps => x = "out"
  BY DEF ThreadPc, TrapPc, Traps
<1>5. CountInv'
  BY <1>1, <1>2, <1>3, ReleaseCount DEF TrapInv
<1> HIDE DEF x
<1>6. pstate' \in [Thread -> {"RUNNABLE", "RUNNING", "SLEEPING"}] /\ pstate' = pstate /\ saved' = saved
  BY <1>1 DEF TrapInv, FrameInv
<1>7. InKernel(h)
  BY <1>1, InFrameFact
<1>8. Moved(h, x)
  BY <1>1, <1>2, <1>3, <1>4, <1>6, <1>7, ReleaseFact, MoveStep DEF TrapInv, TrapPc
<1>9. pstate'[RunsOn(h)] = "RUNNING"
  BY <1>1, <1>2, InFrameFact, RunsFact DEF Place
<1>10. At(h, x)
  BY <1>1, <1>2, <1>3, <1>4, <1>9, ReleaseFact DEF At, Depth, TrapInv
<1>11. \A p \in Thread : holder'[p] = h => holder[p] = h
  BY <1>1, <1>2, <1>3, ReleaseFact, HartAssumption DEF TrapInv, Spinlock
<1> QED BY <1>1, <1>5, <1>8, <1>9, <1>10, <1>11, MovedInv, InFrameFact

-----------------------------------------------------------------------------
(* scheduler() and swtch().                                                *)

(* A hart whose innermost frame is its scheduler's runs no process.        *)
LEMMA InScheduler ==
  ASSUME TrapInv, NEW h \in Cpu, NEW x, InFrame(h, {"scheduler"}, x)
  PROVE  /\ InKernel(h) /\ Kind(h) = "scheduler" /\ Pc(h) = x /\ Place(h)
         /\ RunsOn(h) = h /\ cpu[h].proc = NoOne
         /\ Len(frames[h]) = 1 /\ frames[h][1].pc = x
<1>1. InKernel(h) /\ Kind(h) = "scheduler" /\ Pc(h) = x /\ Place(h)
  BY InFrameFact
<1>2. RunsOn(h) = h /\ cpu[h].proc = NoOne /\ Len(frames[h]) = 1
  BY <1>1, TopFact, RunsFact
<1> QED BY <1>1, <1>2 DEF Pc, Top

(* scheduler() picks a process: nobody else runs it or has its lock.       *)
LEMMA SchedulerPickStep ==
  ASSUME TrapInv, NEW h \in Cpu, NEW p \in Thread, SchedulerPick(h, p)
  PROVE  TrapInv'
<1>1. /\ InFrame(h, {"scheduler"}, "scan") /\ pstate[p] = "RUNNABLE" /\ acquire(h, p)
      /\ pstate' = [pstate EXCEPT ![p] = "RUNNING"] /\ Move(h, "back") /\ UNCHANGED saved
      /\ p \in Spinlock
  BY DEF SchedulerPick, Spinlock
<1>2. /\ InKernel(h) /\ Kind(h) = "scheduler" /\ RunsOn(h) = h /\ cpu[h].proc = NoOne
      /\ cpu[h].noff = 0 /\ ~cpu[h].sie /\ cpu[h].stvec = "kernelvec"
  BY <1>1, InScheduler DEF Place, Depth
<1>3. CountInv'
  BY <1>1, AcquireCount DEF TrapInv
<1>4. /\ pstate' \in [Thread -> {"RUNNABLE", "RUNNING", "SLEEPING"}] /\ pstate'[p] = "RUNNING"
      /\ \A q \in Thread : q # p => pstate'[q] = pstate[q]
  BY <1>1 DEF TrapInv, FrameInv
<1>5. /\ holder[p] = NoOne /\ \A m \in Spinlock : holder'[m] = IF m = p THEN h ELSE holder[m]
      /\ cpu'[h].noff = 1 /\ ~cpu'[h].sie /\ ~cpu'[h].intena /\ cpu'[h].stvec = "kernelvec"
      /\ cpu'[h].proc = NoOne
  BY <1>1, <1>2, AcquireFact DEF TrapInv
<1>6. Moved(h, "back")
  BY <1>1, <1>2, <1>4, <1>5, AcquireFact, MoveStep DEF TrapInv, LoopPc, Entries, Traps
<1>7. PlaceInv'
  <2>1. At(h, "back")
    BY <1>2, <1>5 DEF At, Depth
  <2> QED BY <1>6, <2>1, MovedPlace
<1>8. frames'[h][1].pc = "back"
  BY <1>1, <1>2, MoveFact DEF LoopPc, Entries, Traps
<1>9. Off(p)
  BY <1>1, <1>5, HartAssumption DEF Off, TrapInv, OwnerInv, Owner
<1>10. \A q \in Thread : holder'[q] = h => q = p
  <2> SUFFICES ASSUME NEW q \in Thread, q # p, holder'[q] = h PROVE FALSE
    OBVIOUS
  <2>1. holder[q] = h
    BY <1>5 DEF Spinlock
  <2> QED BY <1>1, <1>2, <2>1, OwnLock, InFrameFact, HartAssumption
<1>11. OwnerInv'
  BY <1>2, <1>5, <1>6, <1>8, <1>9, <1>10, OwnerStep DEF Moved
<1> QED BY <1>3, <1>6, <1>7, <1>11 DEF Moved, TrapInv

(* The process is back: its lock is the only one the hart holds.           *)
LEMMA SwitchBackStep ==
  ASSUME TrapInv, NEW h \in Cpu, NEW p \in Thread, SwitchBack(h, p)
  PROVE  TrapInv'
<1>1. /\ InFrame(h, {"scheduler"}, "back") /\ holder[p] = h /\ release(h, p)
      /\ Move(h, "loop") /\ UNCHANGED <<pstate, saved>> /\ p \in Spinlock
  BY DEF SwitchBack, Spinlock
<1>2. /\ InKernel(h) /\ Kind(h) = "scheduler" /\ RunsOn(h) = h /\ cpu[h].proc = NoOne
      /\ cpu[h].noff = 1 /\ cpu[h].stvec = "kernelvec"
  BY <1>1, InScheduler DEF Place, Depth
<1>3. CountInv'
  BY <1>1, ReleaseCount DEF TrapInv
<1>4. /\ pstate' \in [Thread -> {"RUNNABLE", "RUNNING", "SLEEPING"}] /\ pstate' = pstate
      /\ saved' = saved
  BY <1>1 DEF TrapInv, FrameInv
<1>5. /\ \A m \in Spinlock : holder'[m] = IF m = p THEN NoOne ELSE holder[m]
      /\ cpu'[h].noff = 0 /\ cpu'[h].stvec = "kernelvec" /\ cpu'[h].proc = NoOne
  BY <1>1, <1>2, ReleaseFact DEF TrapInv
<1>6. Moved(h, "loop")
  BY <1>1, <1>2, <1>4, ReleaseFact, MoveStep DEF TrapInv, LoopPc, Entries, Traps
<1>7. PlaceInv'
  <2>1. At(h, "loop")
    BY <1>2, <1>5 DEF At, Depth
  <2> QED BY <1>6, <2>1, MovedPlace
<1>8. \A q \in Thread : holder'[q] # h
  <2> SUFFICES ASSUME NEW q \in Thread, holder'[q] = h PROVE FALSE
    OBVIOUS
  <2>1. q # p /\ holder[q] = h
    BY <1>5, HartAssumption DEF Spinlock
  <2>2. cpu[h].proc # p
    BY <1>2, HartAssumption
  <2> QED BY <1>1, <2>1, <2>2 DEF TrapInv, OwnerInv, Owner
<1>9. OwnerInv'
  BY <1>2, <1>5, <1>6, <1>8, OwnerStep DEF Moved
<1> QED BY <1>3, <1>6, <1>7, <1>9 DEF Moved, TrapInv

(* swtch() to a picked process: intena becomes what that thread saved.     *)
LEMMA SwitchToStep ==
  ASSUME TrapInv, NEW h \in Cpu, NEW p \in Thread, SwitchTo(h, p)
  PROVE  TrapInv'
<1>1. /\ InFrame(h, {"scheduler"}, "back") /\ holder[p] = h /\ pstate[p] = "RUNNING"
      /\ cpu' = [cpu EXCEPT ![h].proc = p, ![h].intena = Restored(h, p)]
      /\ UNCHANGED <<holder, frames, pstate, saved>>
  BY DEF SwitchTo
<1>2. /\ RunsOn(h) = h /\ cpu[h].proc = NoOne /\ frames[h][1].pc = "back" /\ p # NoOne
      /\ cpu[h].noff = 1 /\ ~cpu[h].sie /\ cpu[h].stvec = "kernelvec"
  BY <1>1, InScheduler, HartAssumption DEF Place, Depth
<1>3. /\ Off(p) /\ ~cpu[h].intena /\ \A q \in Thread : holder[q] = h => q = p
  BY <1>1, <1>2 DEF TrapInv, OwnerInv, Owner
<1> DEFINE f == frames[p][Len(frames[p])]
<1>4. /\ frames[p] # << >> /\ f.pc = "woken"
      /\ frames[p][1].kind # "forkret" => (saved[p] <=> f.kind = "syscall")
  BY <1>3 DEF TrapInv, OwnerInv, Owner
<1>5. frames[p][1].kind = "forkret" => f.kind = "forkret"
  <2>1. ProcessStack(frames[p]) /\ frames[p] \in Seq(Frames)
    BY DEF TrapInv, StacksInv, FrameInv
  <2>2. Len(frames[p]) = 1 \/ Len(frames[p]) = 2
    BY <1>4, <2>1, EmptySeq DEF ProcessStack
  <2> QED BY <2>1, <2>2 DEF ProcessStack
<1>6. Restored(h, p) \in BOOLEAN /\ (Restored(h, p) <=> f.kind = "syscall")
  <2>1. cpu[h].intena \in BOOLEAN /\ saved[p] \in BOOLEAN
    BY DEF TrapInv, FrameInv, HartState
  <2>2. CASE frames[p][1].kind = "forkret"
    BY <1>3, <1>5, <2>1, <2>2 DEF Restored
  <2>3. CASE frames[p][1].kind # "forkret"
    BY <1>4, <2>1, <2>3 DEF Restored
  <2> QED BY <2>2, <2>3
<1> HIDE DEF f
<1>7. /\ cpu' \in [Cpu -> HartState] /\ \A g \in Cpu : g # h => cpu'[g] = cpu[g]
      /\ cpu'[h].proc = p /\ cpu'[h].noff = cpu[h].noff /\ cpu'[h].stvec = cpu[h].stvec
      /\ (cpu'[h].sie <=> cpu[h].sie) /\ (cpu'[h].intena <=> f.kind = "syscall")
  BY <1>1, <1>6 DEF TrapInv, FrameInv, HartState
<1>8. FrameInv' /\ StacksInv' /\ StepOf(h)
  BY <1>1, <1>7 DEF TrapInv, FrameInv, StacksInv, StepOf
<1>9. CountInv'
  BY <1>1, <1>7, SameCount DEF TrapInv
<1>10. Place(h)'
  <2>1. RunsOn(h)' = p /\ Top(h)' = f /\ InKernel(h)'
    BY <1>1, <1>2, <1>4, <1>7 DEF RunsOn, Top, InKernel, f
  <2>2. Pc(h)' = "woken" /\ Kind(h)' = f.kind
    BY <1>4, <2>1 DEF Pc, Kind
  <2> QED BY <1>1, <1>2, <1>7, <2>1, <2>2 DEF Place, Depth
<1>11. OwnerInv'
  <2> SUFFICES ASSUME NEW q \in Thread PROVE Owner(q)'
    BY DEF OwnerInv
  <2>1. Owner(q)
    BY DEF TrapInv, OwnerInv
  <2>2. CASE q = p
    BY <1>1, <1>3, <1>7, <2>1, <2>2 DEF Owner, Off
  <2>3. CASE q # p
    <3>1. \A g \in Cpu : cpu'[g].proc = q <=> cpu[g].proc = q
      BY <1>2, <1>7, <2>3, HartAssumption
    <3>2. (Off(q)' <=> Off(q)) /\ holder[q] # h
      BY <1>3, <2>3, <3>1 DEF Off
    <3> QED BY <1>1, <1>7, <2>1, <3>1, <3>2 DEF Owner
  <2> QED BY <2>2, <2>3
<1> QED BY <1>8, <1>9, <1>10, <1>11, OtherHarts DEF TrapInv, PlaceInv

(* sched(): the thread leaves with intena saved, the scheduler goes on.    *)
LEMMA SwitchOutStep ==
  ASSUME TrapInv, NEW h \in Cpu, sched(h)
  PROVE  TrapInv'
<1> DEFINE p == RunsOn(h)
<1>1. /\ InFrame(h, Timers \cup Calls, "sched")
      /\ saved' = [saved EXCEPT ![p] = cpu[h].intena] /\ Move(h, "woken")
      /\ cpu' = [cpu EXCEPT ![h].proc = NoOne] /\ UNCHANGED <<holder, pstate>>
  BY DEF sched
<1>2. p \in Thread /\ cpu[h].proc = p /\ p # h /\ p # NoOne
  BY <1>1, InFrameFact, RunsFact, HartAssumption DEF LoopPc
<1>3. /\ InKernel(h) /\ Kind(h) \in Entries \cup Traps /\ Kind(h) # "scheduler"
      /\ ~InFrame(h, {"scheduler"}, "back")
  BY <1>1, InFrameFact DEF Timers, Calls, Entries, Traps
<1>4. /\ cpu[h].noff = 1 /\ ~cpu[h].sie /\ cpu[h].stvec = "kernelvec" /\ holder[p] = h
      /\ (cpu[h].intena <=> Kind(h) = "syscall") /\ pstate[p] # "RUNNING"
      /\ frames[h][1].pc = "back"
  BY <1>1, <1>2, InFrameFact DEF Place, Depth
<1>5. /\ frames' \in [Thread \cup Cpu -> Seq(Frames)] /\ StacksInv'
      /\ frames'[p] # << >> /\ frames'[p][Len(frames'[p])] = FrameOf(Kind(h), "woken")
      /\ \A t \in Thread \cup Cpu : t # p => frames'[t] = frames[t]
  BY <1>1, <1>2, <1>3, MoveFact, HartAssumption DEF ThreadPc, TrapPc
<1>6. /\ cpu' \in [Cpu -> HartState] /\ \A g \in Cpu : g # h => cpu'[g] = cpu[g]
      /\ cpu'[h].proc = NoOne /\ cpu'[h].noff = cpu[h].noff /\ cpu'[h].stvec = cpu[h].stvec
      /\ (cpu'[h].sie <=> cpu[h].sie) /\ (cpu'[h].intena <=> cpu[h].intena)
  BY <1>1 DEF TrapInv, FrameInv, HartState
<1>7. /\ saved' \in [Thread -> BOOLEAN] /\ (saved'[p] <=> cpu[h].intena)
      /\ \A q \in Thread : q # p => saved'[q] = saved[q]
  <2>1. cpu[h].intena \in BOOLEAN
    BY DEF TrapInv, FrameInv, HartState
  <2> QED BY <1>1, <1>2, <2>1 DEF TrapInv, FrameInv
<1> HIDE DEF p
<1>8. FrameInv' /\ StepOf(h)
  BY <1>1, <1>5, <1>6, <1>7 DEF TrapInv, FrameInv, StepOf, p
<1>9. CountInv'
  BY <1>1, <1>6, SameCount DEF TrapInv
<1>10. Place(h)'
  <2>1. frames'[h] = frames[h] /\ RunsOn(h)' = h
    BY <1>2, <1>5, <1>6 DEF RunsOn
  <2>2. SchedulerStack(frames[h])
    BY DEF TrapInv, StacksInv
  <2>3. Len(frames[h]) = 1
    BY <1>4, <2>2 DEF SchedulerStack
  <2>4. InKernel(h)' /\ Pc(h)' = "back"
    BY <1>4, <2>1, <2>3 DEF InKernel, Pc, Top
  <2> QED BY <1>4, <1>6, <2>4 DEF Place, Depth
<1>11. OwnerInv'
  <2> SUFFICES ASSUME NEW q \in Thread PROVE Owner(q)'
    BY DEF OwnerInv
  <2>1. Owner(q)
    BY DEF TrapInv, OwnerInv
  <2>2. \A r \in Thread : holder[r] = h => r = p
    BY <1>2, <1>3, OwnLock
  <2>3. frames'[h][1].pc = "back"
    BY <1>2, <1>4, <1>5
  <2>4. CASE q = p
    <3>1. Off(q)'
      BY <1>2, <1>6, <2>1, <2>4 DEF Off, Owner
    <3>2. frames'[p][Len(frames'[p])].pc = "woken" /\ frames'[p][Len(frames'[p])].kind = Kind(h)
      BY <1>5 DEF FrameOf
    <3>3. \A g \in Cpu : cpu'[g].proc # q
      BY <3>1 DEF Off
    <3> QED BY <1>1, <1>4, <1>5, <1>6, <1>7, <2>2, <2>3, <2>4, <3>1, <3>2, <3>3 DEF Owner
  <2>5. CASE q # p
    <3>1. \A g \in Cpu : cpu'[g].proc = q <=> cpu[g].proc = q
      BY <1>2, <1>6, <2>5, HartAssumption
    <3>2. (Off(q)' <=> Off(q)) /\ holder[q] # h
      BY <2>2, <2>5, <3>1 DEF Off
    <3>3. frames'[q] = frames[q] /\ saved'[q] = saved[q]
      BY <1>5, <1>7, <2>5
    <3>4. \A g \in Cpu : frames'[g] = frames[g]
      BY <1>2, <1>5, HartAssumption
    <3> QED BY <1>1, <1>6, <2>1, <3>1, <3>2, <3>3, <3>4 DEF Owner
  <2> QED BY <2>4, <2>5
<1> QED BY <1>5, <1>8, <1>9, <1>10, <1>11, OtherHarts DEF TrapInv, PlaceInv

(* wakeup() finds p asleep and its lock free, so no hart runs it.          *)
LEMMA WakeupStep ==
  ASSUME TrapInv, NEW h \in Cpu, NEW p \in Thread, wakeup(h, p)
  PROVE  TrapInv'
<1>1. /\ InFrame(h, Handlers \cup Calls, "crit") /\ RunsOn(h) # p
      /\ pstate[p] = "SLEEPING" /\ pstate' = [pstate EXCEPT ![p] = "RUNNABLE"]
      /\ UNCHANGED <<cpu, holder, frames, saved>>
  BY DEF wakeup
<1>2. /\ pstate' \in [Thread -> {"RUNNABLE", "RUNNING", "SLEEPING"}] /\ pstate'[p] = "RUNNABLE"
      /\ \A q \in Thread : q # p => pstate'[q] = pstate[q]
  BY <1>1 DEF TrapInv, FrameInv
<1>3. FrameInv' /\ StacksInv' /\ StepOf(h) /\ CountInv'
  BY <1>1, <1>2, SameCount DEF TrapInv, FrameInv, StacksInv, StepOf
<1>4. RunsOn(h)' = RunsOn(h) /\ (InKernel(h)' <=> InKernel(h)) /\ Top(h)' = Top(h)
  BY <1>1 DEF RunsOn, InKernel, Top
<1>5. RunsOn(h) \in Thread => pstate'[RunsOn(h)] = pstate[RunsOn(h)]
  BY <1>1, <1>2
<1>6. Place(h)'
  BY <1>1, <1>4, <1>5, InFrameFact DEF Place, Pc, Kind
<1>7. OwnerInv'
  BY <1>1, <1>3, <1>5, InFrameFact, OwnerKept
<1> QED BY <1>3, <1>6, <1>7, OtherHarts DEF TrapInv, PlaceInv

-----------------------------------------------------------------------------
(* Traps and returns: the thread's stack becomes r.                        *)
LEMMA TrapReturnStep ==
  ASSUME TrapInv, NEW h \in Cpu, NEW r \in Seq(Frames),
         frames' = [frames EXCEPT ![RunsOn(h)] = r],
         RunsOn(h) \in Thread => ProcessStack(r), RunsOn(h) \in Cpu => SchedulerStack(r),
         ~InFrame(h, {"scheduler"}, "back"), 
         InKernel(h) => Pc(h) # "sched",
         cpu' \in [Cpu -> HartState], \A g \in Cpu : g # h => cpu'[g] = cpu[g],
         cpu'[h].proc = cpu[h].proc, cpu[h].noff = 0, cpu'[h].noff = 0,
         UNCHANGED <<holder, pstate, saved>>,
         r # << >> => LET f == r[Len(r)] IN
           /\ Depth(f.pc) = 0
           /\ f.pc \in {"body", "relock", "open"} => cpu'[h].sie
           /\ f.pc \notin {"body", "relock", "open", "loop"} => ~cpu'[h].sie
           /\ f.pc # "sret" => cpu'[h].stvec = "kernelvec"
  PROVE  TrapInv'
<1>1. RunsOn(h) \in Thread \cup Cpu
  BY RunsFact
<1>2. /\ frames' \in [Thread \cup Cpu -> Seq(Frames)] /\ frames'[RunsOn(h)] = r
      /\ \A t \in Thread \cup Cpu : t # RunsOn(h) => frames'[t] = frames[t]
  BY <1>1 DEF TrapInv, FrameInv
<1>3. FrameInv' /\ StacksInv' /\ StepOf(h)
  BY <1>2 DEF TrapInv, FrameInv, StacksInv, StepOf
<1>4. CountInv'
  BY SameCount DEF TrapInv
<1>5. cpu[h].proc # NoOne => pstate[RunsOn(h)] = "RUNNING" /\ frames'[h][1].pc = "back"
  BY <1>2, RunsFact, HartAssumption DEF TrapInv, PlaceInv, Place
<1>6. OwnerInv'
  BY <1>3, <1>5, OwnerKept
<1>7. Place(h)'
  <2>1. RunsOn(h)' = RunsOn(h) /\ (InKernel(h)' <=> r # << >>) /\ Top(h)' = r[Len(r)]
    BY <1>2 DEF RunsOn, InKernel, Top
  <2>2. r # << >> => Pc(h)' \notin {"crit", "drop", "sched", "woken"}
    BY <2>1 DEF Pc, Depth
  <2> QED BY <1>5, <2>1, <2>2 DEF Place, Pc
<1> QED BY <1>3, <1>4, <1>6, <1>7, OtherHarts DEF TrapInv, PlaceInv

(* A trap from user mode starts on an empty kernel stack.                  *)
LEMMA UserTrapStep ==
  ASSUME TrapInv, NEW h \in Cpu, NEW kind \in {"syscall", "utimer", "udev"}, usertrap(h, kind)
  PROVE  TrapInv'
<1> DEFINE r == <<FrameOf(kind, "in")>>
<1>1. /\ ~InKernel(h) /\ frames' = [frames EXCEPT ![RunsOn(h)] = r]
      /\ cpu' = [cpu EXCEPT ![h].sie = FALSE, ![h].stvec = "kernelvec"]
      /\ UNCHANGED <<holder, pstate, saved>>
  BY DEF usertrap
<1>2. RunsOn(h) \in Thread /\ RunsOn(h) \notin Cpu
  BY <1>1, RunsFact, HartAssumption DEF InKernel, TrapInv, StacksInv, SchedulerStack
<1>3. /\ cpu' \in [Cpu -> HartState] /\ \A g \in Cpu : g # h => cpu'[g] = cpu[g]
      /\ cpu'[h].proc = cpu[h].proc /\ cpu'[h].noff = cpu[h].noff
      /\ cpu'[h].stvec = "kernelvec" /\ ~cpu'[h].sie
  BY <1>1 DEF TrapInv, FrameInv, HartState
<1>4. cpu[h].noff = 0
  BY <1>1 DEF TrapInv, PlaceInv, Place
<1>5. FrameOf(kind, "in") \in Frames
  BY DEF FrameOf, Frames, Entries, ThreadPc, TrapPc
<1>6. /\ r \in Seq(Frames) /\ Len(r) = 1 /\ r[1].kind = kind /\ r[1].pc = "in"
  BY <1>5 DEF FrameOf
<1>7. ProcessStack(r)
  BY <1>6 DEF ProcessStack, Entries, ThreadPc, TrapPc
<1> HIDE DEF r
<1>8. Depth("in") = 0 /\ ~InFrame(h, {"scheduler"}, "back")
  BY <1>1 DEF Depth, InFrame
<1> QED BY <1>1, <1>2, <1>3, <1>4, <1>6, <1>7, <1>8, TrapReturnStep

(* agent_drain() behind an interrupt from user mode: interrupts stay off.  *)
LEMMA AgentDrainStep ==
  ASSUME TrapInv, NEW h \in Cpu, agent_drain(h)
  PROVE  TrapInv'
<1> DEFINE r == <<FrameOf("drain", "out")>>
<1>1. /\ InFrame(h, {"utimer", "udev"}, "out") /\ frames' = [frames EXCEPT ![RunsOn(h)] = r]
      /\ UNCHANGED <<cpu, holder, pstate, saved>>
  BY DEF agent_drain
<1>2. RunsOn(h) \in Thread /\ RunsOn(h) \notin Cpu
  BY <1>1, InFrameFact, TopFact, HartAssumption DEF Entries
<1>3. cpu' \in [Cpu -> HartState] /\ cpu' = cpu
  BY <1>1 DEF TrapInv, FrameInv
<1>4. /\ cpu[h].noff = 0 /\ ~cpu[h].sie /\ cpu[h].stvec = "kernelvec"
      /\ Pc(h) # "sched" /\ ~InFrame(h, {"scheduler"}, "back")
  BY <1>1, InFrameFact DEF Place, Depth
<1>5. FrameOf("drain", "out") \in Frames
  BY DEF FrameOf, Frames, Entries, ThreadPc, TrapPc
<1>6. /\ r \in Seq(Frames) /\ Len(r) = 1 /\ r[1].kind = "drain" /\ r[1].pc = "out"
  BY <1>5 DEF FrameOf
<1>7. ProcessStack(r)
  BY <1>6 DEF ProcessStack, Entries, ThreadPc, TrapPc
<1> HIDE DEF r
<1>8. Depth("out") = 0
  BY DEF Depth
<1> QED BY <1>1, <1>2, <1>3, <1>4, <1>6, <1>7, <1>8, TrapReturnStep

(* sret to user mode.                                                      *)
LEMMA UserRetStep ==
  ASSUME TrapInv, NEW h \in Cpu, userret(h)
  PROVE  TrapInv'
<1>1. /\ InFrame(h, {"syscall", "drain", "forkret"}, "sret")
      /\ frames' = [frames EXCEPT ![RunsOn(h)] = << >>]
      /\ cpu' = [cpu EXCEPT ![h].sie = TRUE] /\ UNCHANGED <<holder, pstate, saved>>
  BY DEF userret
<1>2. RunsOn(h) \in Thread /\ RunsOn(h) \notin Cpu
  BY <1>1, InFrameFact, HartAssumption DEF LoopPc
<1>3. /\ cpu' \in [Cpu -> HartState] /\ \A g \in Cpu : g # h => cpu'[g] = cpu[g]
      /\ cpu'[h].proc = cpu[h].proc /\ cpu'[h].noff = cpu[h].noff
  BY <1>1 DEF TrapInv, FrameInv, HartState
<1>4. cpu[h].noff = 0 /\ Pc(h) # "sched" /\ ~InFrame(h, {"scheduler"}, "back")
  BY <1>1, InFrameFact DEF Place, Depth
<1>5. << >> \in Seq(Frames) /\ ProcessStack(<< >>)
  BY DEF ProcessStack
<1> QED BY <1>1, <1>2, <1>3, <1>4, <1>5, TrapReturnStep

(* A stack with one more frame.                                            *)
LEMMA Pushed ==
  ASSUME NEW s \in Seq(Frames), NEW f \in Frames
  PROVE  /\ Append(s, f) \in Seq(Frames) /\ Len(Append(s, f)) = Len(s) + 1
         /\ Append(s, f)[Len(s) + 1] = f
         /\ \A i \in 1 .. Len(s) : Append(s, f)[i] = s[i]
  BY AppendProperties

(* A trap in the kernel interrupts what runs with interrupts on.           *)
LEMMA KernelTrapStep ==
  ASSUME TrapInv, NEW h \in Cpu, NEW kind \in {"ktimer", "kdev"}, kerneltrap(h, kind)
  PROVE  TrapInv'
<1> DEFINE s == frames[RunsOn(h)]
           f == FrameOf(kind, "in")
           r == Append(s, f)
<1>1. /\ InKernel(h) /\ cpu[h].sie /\ frames' = [frames EXCEPT ![RunsOn(h)] = r]
      /\ cpu' = [cpu EXCEPT ![h].sie = FALSE] /\ UNCHANGED <<holder, pstate, saved>>
  BY RunsFact DEF kerneltrap, TrapInv, FrameInv
<1>2. Pc(h) \in {"body", "relock", "open", "loop"} /\ cpu[h].noff = 0 /\ cpu[h].stvec = "kernelvec"
  BY <1>1 DEF TrapInv, PlaceInv, Place, Depth
<1>3. /\ s \in Seq(Frames) /\ Len(s) = 1 /\ Pc(h) = s[1].pc
  BY <1>1, <1>2, TopFact DEF TrapPc, Pc
<1>4. f \in Frames /\ f.kind = kind /\ f.pc = "in"
  BY DEF FrameOf, Frames, Traps, ThreadPc, TrapPc
<1>5. /\ cpu' \in [Cpu -> HartState] /\ \A g \in Cpu : g # h => cpu'[g] = cpu[g]
      /\ cpu'[h].proc = cpu[h].proc /\ cpu'[h].noff = cpu[h].noff
      /\ cpu'[h].stvec = cpu[h].stvec /\ ~cpu'[h].sie
  BY <1>1 DEF TrapInv, FrameInv, HartState
<1>6. r \in Seq(Frames) /\ Len(r) = 2 /\ r[1] = s[1] /\ r[2] = f
  <2> HIDE DEF s, f
  <2>1. /\ r \in Seq(Frames) /\ Len(r) = Len(s) + 1 /\ r[Len(s) + 1] = f
        /\ \A i \in 1 .. Len(s) : r[i] = s[i]
    <3>1. s \in Seq(Frames) /\ f \in Frames
      BY <1>3, <1>4
    <3> QED BY <3>1, Pushed
  <2> HIDE DEF r
  <2> QED BY <1>3, <2>1
<1>7. RunsOn(h) \in Thread => ProcessStack(r)
  <2> SUFFICES ASSUME RunsOn(h) \in Thread PROVE ProcessStack(r)
    OBVIOUS
  <2>1. ProcessStack(s)
    BY DEF TrapInv, StacksInv
  <2> HIDE DEF r, f
  <2> QED BY <1>2, <1>3, <1>4, <1>6, <2>1 DEF ProcessStack, Traps, TrapPc, Entries, ThreadPc
<1>8. RunsOn(h) \in Cpu => SchedulerStack(r)
  <2> SUFFICES ASSUME RunsOn(h) \in Cpu PROVE SchedulerStack(r)
    OBVIOUS
  <2>1. SchedulerStack(s)
    BY RunsFact DEF TrapInv, StacksInv
  <2> HIDE DEF r, f
  <2> QED BY <1>2, <1>3, <1>4, <1>6, <2>1 DEF SchedulerStack, Traps, LoopPc
<1>9. Depth("in") = 0 /\ Pc(h) # "sched" /\ ~InFrame(h, {"scheduler"}, "back")
  BY <1>2 DEF Depth, InFrame, Pc
<1> HIDE DEF r, f
<1>10. r[Len(r)].pc = "in"
  BY <1>4, <1>6
<1> QED BY <1>1, <1>2, <1>5, <1>6, <1>7, <1>8, <1>9, <1>10, TrapReturnStep

(* A stack of two without its innermost frame.                             *)
LEMMA Popped ==
  ASSUME NEW s \in Seq(Frames), Len(s) = 2
  PROVE  /\ SubSeq(s, 1, 1) \in Seq(Frames) /\ Len(SubSeq(s, 1, 1)) = 1
         /\ SubSeq(s, 1, 1)[1] = s[1]
<1>1. \A i \in 1 .. 1 : s[i] \in Frames
  BY ElementOfSeq
<1> DEFINE r == SubSeq(s, 1, 1)
<1>2. /\ r \in Seq(Frames) /\ Len(r) = (IF 1 <= 1 THEN 1 - 1 + 1 ELSE 0)
      /\ \A i \in 1 .. 1 - 1 + 1 : r[i] = s[1 + i - 1]
  BY <1>1, SubSeqProperties
<1> HIDE DEF r
<1>3. Len(r) = 1 /\ r[1] = s[1]
  BY <1>2
<1> QED BY <1>2, <1>3 DEF r

(* Its return finds what it interrupted.                                   *)
LEMMA KernelReturnStep ==
  ASSUME TrapInv, NEW h \in Cpu, KernelReturn(h)
  PROVE  TrapInv'
<1> DEFINE s == frames[RunsOn(h)]
           r == SubSeq(s, 1, Len(s) - 1)
<1>1. /\ InFrame(h, {"ktimer", "kdev"}, "out") /\ frames' = [frames EXCEPT ![RunsOn(h)] = r]
      /\ cpu' = [cpu EXCEPT ![h].sie = TRUE] /\ UNCHANGED <<holder, pstate, saved>>
  BY RunsFact DEF KernelReturn, TrapInv, FrameInv
<1>2. /\ InKernel(h) /\ Pc(h) = "out" /\ cpu[h].noff = 0 /\ cpu[h].stvec = "kernelvec"
      /\ Kind(h) \in Traps
  BY <1>1, InFrameFact DEF Place, Depth, Traps
<1>3. /\ s \in Seq(Frames) /\ Len(s) = 2 /\ s[1].pc \in {"body", "relock", "loop", "open"}
  BY <1>2, TopFact
<1>4. /\ cpu' \in [Cpu -> HartState] /\ \A g \in Cpu : g # h => cpu'[g] = cpu[g]
      /\ cpu'[h].proc = cpu[h].proc /\ cpu'[h].noff = cpu[h].noff
      /\ cpu'[h].stvec = cpu[h].stvec /\ cpu'[h].sie
  BY <1>1 DEF TrapInv, FrameInv, HartState
<1>5. r \in Seq(Frames) /\ Len(r) = 1 /\ r[1] = s[1]
  <2> HIDE DEF s
  <2>1. r = SubSeq(s, 1, 1)
    BY <1>3
  <2>2. /\ SubSeq(s, 1, 1) \in Seq(Frames) /\ Len(SubSeq(s, 1, 1)) = 1
        /\ SubSeq(s, 1, 1)[1] = s[1]
    BY <1>3, Popped
  <2> HIDE DEF r
  <2> QED BY <2>1, <2>2
<1>6. RunsOn(h) \in Thread => ProcessStack(r)
  <2> SUFFICES ASSUME RunsOn(h) \in Thread PROVE ProcessStack(r)
    OBVIOUS
  <2>1. ProcessStack(s)
    BY DEF TrapInv, StacksInv
  <2> HIDE DEF r
  <2> QED BY <1>3, <1>5, <2>1 DEF ProcessStack
<1>7. RunsOn(h) \in Cpu => SchedulerStack(r)
  <2> SUFFICES ASSUME RunsOn(h) \in Cpu PROVE SchedulerStack(r)
    OBVIOUS
  <2>1. SchedulerStack(s)
    BY RunsFact DEF TrapInv, StacksInv
  <2> HIDE DEF r
  <2> QED BY <1>3, <1>5, <2>1 DEF SchedulerStack
<1>8. Depth(s[1].pc) = 0 /\ Pc(h) # "sched" /\ ~InFrame(h, {"scheduler"}, "back")
  BY <1>2, <1>3 DEF Depth, InFrame, Pc
<1> HIDE DEF r
<1>9. r[Len(r)].pc \in {"body", "relock", "loop", "open"} /\ Depth(r[Len(r)].pc) = 0
  BY <1>3, <1>5, <1>8
<1> QED BY <1>1, <1>2, <1>4, <1>5, <1>6, <1>7, <1>8, <1>9, TrapReturnStep

-----------------------------------------------------------------------------
(* Every step.                                                             *)
LEMMA TrapStep == TrapInv /\ [HartNext]_hartVars => TrapInv'
<1> SUFFICES ASSUME TrapInv, [HartNext]_hartVars PROVE TrapInv'
  OBVIOUS
<1>1. CASE UNCHANGED hartVars
  <2> USE <1>1 DEF hartVars, TrapInv
  <2>1. FrameInv' /\ StacksInv' /\ CountInv'
    BY DEF FrameInv, StacksInv, CountInv, Held
  <2>2. OwnerInv'
    BY DEF OwnerInv, Owner, Off
  <2>3. PlaceInv'
    <3> SUFFICES ASSUME NEW h \in Cpu PROVE Place(h)'
      BY DEF PlaceInv
    <3>1. RunsOn(h)' = RunsOn(h) /\ (InKernel(h)' <=> InKernel(h)) /\ Top(h)' = Top(h)
      BY DEF RunsOn, InKernel, Top
    <3> QED BY <3>1 DEF PlaceInv, Place, Pc, Kind
  <2> QED BY <2>1, <2>2, <2>3
<1>2. CASE HartNext
  <2>1. PICK h \in Cpu :
    \/ \E kind \in {"syscall", "utimer", "udev"} : usertrap(h, kind)
    \/ \E kind \in {"ktimer", "kdev"} : kerneltrap(h, kind)
    \/ IntrOn(h) \/ LockDevice(h) \/ UnlockDevice(h)
    \/ yield(h) \/ SleepLock(h) \/ SleepDrop(h) \/ sched(h) \/ Resume(h)
    \/ SchedulerOn(h) \/ SchedulerOff(h) \/ SchedulerIdle(h)
    \/ \E p \in Thread : SchedulerPick(h, p) \/ SwitchTo(h, p) \/ SwitchBack(h, p) \/ wakeup(h, p)
    \/ KernelReturn(h) \/ agent_drain(h) \/ prepare_return(h) \/ userret(h)
    BY <1>2 DEF HartNext
  <2> QED BY <2>1, UserTrapStep, KernelTrapStep, IntrOnStep, LockDeviceStep, UnlockDeviceStep,
             YieldStep, SleepLockStep, SleepDropStep, SwitchOutStep, ResumeStep, SchedulerOnStep,
             SchedulerOffStep, SchedulerIdleStep, SchedulerPickStep, SwitchToStep,
             SwitchBackStep, WakeupStep, KernelReturnStep, AgentDrainStep, PrepareStep, UserRetStep
<1> QED BY <1>1, <1>2

(* What spinlock.c, sched() and trap.c keep, for any number of harts and   *)
(* processes, across nested traps, context switches and moves between      *)
(* harts: noff counts the locks held, interrupts are off while it is not   *)
(* zero and afterwards as they were, and a trap in the kernel goes to      *)
(* kernelvec.                                                              *)
THEOREM HartCorrect == HartSpec => []HartInv
<1>1. HartSpec => []TrapInv
  BY TrapInit, TrapStep, PTL DEF HartSpec
<1>2. TrapInv => HartInv
  <2> SUFFICES ASSUME TrapInv PROVE HartInv
    OBVIOUS
  <2>1. \A h \in Cpu : cpu[h].noff \in 0 .. 2 /\ (cpu[h].noff > 0 => ~cpu[h].sie)
    BY DEF TrapInv, PlaceInv, Place, Depth
  <2>2. HartTypeOK
    <3>1. cpu \in [Cpu -> [sie : BOOLEAN, noff : Nat, intena : BOOLEAN,
                           stvec : {"kernelvec", "uservec"}, proc : Thread \cup {NoOne}]]
      BY DEF TrapInv, FrameInv, HartState
    <3>2. ASSUME NEW t \in Thread \cup Cpu PROVE Len(frames[t]) <= 2
      <4>1. \A p \in Thread : Len(frames[p]) \in 0 .. 2
        BY Zenon DEF TrapInv, StacksInv, ProcessStack
      <4>2. \A h \in Cpu : Len(frames[h]) \in 1 .. 2
        BY Zenon DEF TrapInv, StacksInv, SchedulerStack
      <4>3. Len(frames[t]) \in 0 .. 2 \/ Len(frames[t]) \in 1 .. 2
        BY <4>1, <4>2, Zenon
      <4>4. \A n : n \in 0 .. 2 \/ n \in 1 .. 2 => n <= 2
        OBVIOUS
      <4> QED BY <4>3, <4>4, Zenon
    <3> QED BY <3>1, <3>2 DEF HartTypeOK, TrapInv, FrameInv
  <2>3. LocksKeepInterruptsOff
    BY <2>1 DEF LocksKeepInterruptsOff, TrapInv, CountInv, Held
  <2>4. InterruptsAsBefore
    BY InFrameFact DEF InterruptsAsBefore, Place
  <2>5. KernelTrapsToKernel
    BY DEF KernelTrapsToKernel, TrapInv, PlaceInv, Place
  <2> QED BY <2>2, <2>3, <2>4, <2>5 DEF HartInv
<1> QED BY <1>1, <1>2, PTL
=============================================================================

--------------------------- MODULE BlockingProofs ---------------------------
(***************************************************************************)
(* Proofs about three parts whose processes wait for each other.           *)
(*                                                                         *)
(* The process life cycle of proc.c, for any size of the process table:    *)
(* every process has a parent that can still wait for it, wait() sleeps on *)
(* no zombie, and a kill that did not come too late wakes its victim.      *)
(*                                                                         *)
(* The host bridge of agent.py, for any questions, queue and number of     *)
(* steps: until a wait times out, answers and observations are the right   *)
(* ones.                                                                   *)
(*                                                                         *)
(* pipe.c and file.c, for any number of processes, descriptors, files and  *)
(* pages and any size of the ring: f->ref counts descriptors, a page lives *)
(* as long as an end of its pipe is held, bytes come out as they went in,  *)
(* and a sleeper has a reason to sleep.                                    *)
(***************************************************************************)
EXTENDS ProcLife, Pipe, Bridge, FiniteSetTheorems, SequenceTheorems,
        WellFoundedInduction, TLAPS

Places  == {"user", "fork parent", "fork ready", "exit", "wait", "wait sleep",
            "pause", "pause sleep"}
Forking == {"fork parent", "fork ready"}
Dozing  == {"wait sleep", "pause sleep"}   \* past the tests, before the sleep

-----------------------------------------------------------------------------
(* The inductive invariant, in parts.                                      *)

(* init lives, and forks only at its three forks.                          *)
InitLives ==
  /\ state[initproc] \in Alive /\ pid[initproc] = 1 /\ parent[initproc] = 0
  /\ in[initproc] \in Forking => stage \in {"denyctl", "agentd", "sh"}

(* Where a process can be in each state.                                   *)
WhereInv ==
  \A s \in Slot : /\ state[s] \in {"unused", "used"} => in[s] = "user"
                  /\ state[s] = "zombie" => in[s] = "exit"
                  /\ state[s] = "sleeping" => in[s] \in {"wait", "pause"}

(* A fork under way has a slot of its own.                                 *)
ForkInv ==
  /\ \A p \in Slot : in[p] \in Forking =>
       /\ child[p] \in Slot /\ state[child[p]] = "used"
       /\ parent[child[p]] = IF in[p] = "fork ready" THEN p ELSE 0
  /\ \A p, q \in Slot : in[p] \in Forking /\ in[q] \in Forking /\ child[p] = child[q] => p = q

(* A parent is a process that can still wait, and the one it was.          *)
ParentInv ==
  \A s \in Slot :
    /\ parent[s] # 0 => state[parent[s]] \in Alive /\ pid[parent[s]] = wasParent[s]
    /\ state[s] = "unused" => parent[s] = 0
    /\ state[s] \in Alive \cup {"zombie"} /\ s # initproc => parent[s] # 0

(* From the scan in kwait until it is woken, a waiter has a child, and no  *)
(* child of it has exited.                                                 *)
WaitInv ==
  \A p \in Slot : in[p] = "wait sleep" \/ (state[p] = "sleeping" /\ in[p] = "wait") =>
    /\ \E c \in Slot : parent[c] = p
    /\ \A c \in Slot : parent[c] = p => state[c] # "zombie"

KillInv ==
  \A p \in Slot : killed[p] /\ (state[p] = "sleeping" \/ in[p] \in Dozing) => p \in late

LifeInv == /\ ProcTypeOK /\ wasParent \in [Slot -> 0 .. MaxPid]
           /\ InitLives /\ WhereInv /\ ForkInv /\ ParentInv /\ WaitInv /\ KillInv

-----------------------------------------------------------------------------
(* Any set of naturals that has members has a smallest one.                *)
LEMMA Smallest ==
  ASSUME NEW S \in SUBSET Nat, S # {}
  PROVE  \E x \in S : \A y \in S : x <= y
<1> DEFINE R == OpToRel(<, Nat)
<1>1. IsWellFoundedOn(R, Nat)
  BY NatLessThanWellFounded
<1>2. \A a, b \in Nat : <<a, b>> \in R <=> a < b
  BY DEF OpToRel
<1> HIDE DEF R
<1>3. PICK x \in S : \A y \in S : ~ (<<y, x>> \in R)
  BY <1>1, WFMin
<1>4. \A y \in S : ~ (y < x)
  BY <1>2, <1>3
<1> QED BY <1>4

(* So has it one by Min.                                                   *)
LEMMA HasMin ==
  ASSUME NEW S \in SUBSET Nat, S # {}
  PROVE  Min(S) \in S
  BY Smallest DEF Min

(* The slots are numbered from 1, and init has the first.                  *)
LEMMA Slots ==
  /\ NPROC \in Nat /\ MaxPid \in Nat /\ MaxPid >= 1 /\ 0 \notin Slot
  /\ initproc \in Slot /\ Slot \subseteq Nat /\ Slot \subseteq 0 .. NPROC
  BY ProcAssumption DEF Slot, initproc

(* Pids are positive, and a parent that is not 0 is a slot.                *)
LEMMA Numbers ==
  ASSUME LifeInv
  PROVE  /\ nextpid \in Nat /\ nextpid >= 1
         /\ nextpid <= MaxPid => nextpid \in 0 .. MaxPid /\ nextpid # 0 /\ nextpid + 1 \in 1 .. MaxPid + 1
         /\ \A s \in Slot : parent[s] # 0 => parent[s] \in Slot
<1>1. nextpid \in Nat /\ nextpid >= 1
  <2>1. nextpid \in 1 .. MaxPid + 1
    BY DEF LifeInv, ProcTypeOK
  <2> QED BY <2>1, Slots
<1>2. nextpid <= MaxPid => nextpid \in 0 .. MaxPid /\ nextpid # 0 /\ nextpid + 1 \in 1 .. MaxPid + 1
  BY <1>1, Slots
<1>3. ASSUME NEW s \in Slot, parent[s] # 0 PROVE parent[s] \in Slot
  <2>1. parent[s] \in 0 .. NPROC
    BY DEF LifeInv, ProcTypeOK
  <2> QED BY <2>1, <1>3, Slots DEF Slot
<1> QED BY <1>1, <1>2, <1>3

(* The invariant holds at boot.                                            *)
LEMMA InitInv == userinit => LifeInv
<1> SUFFICES ASSUME userinit PROVE LifeInv
  OBVIOUS
<1>1. ProcTypeOK /\ wasParent \in [Slot -> 0 .. MaxPid]
  <2>1. 0 \in 0 .. MaxPid /\ 1 \in 0 .. MaxPid /\ 2 \in 1 .. MaxPid + 1 /\ 0 \in 0 .. NPROC
    BY Slots
  <2>2. \A s \in Slot : pid[s] = 0 <=> state[s] = "unused"
    BY DEF userinit
  <2> QED BY <2>1, <2>2 DEF userinit, ProcTypeOK
<1>2. InitLives /\ WhereInv /\ ForkInv
  BY Slots DEF userinit, InitLives, WhereInv, ForkInv, Alive, Forking
<1>3. ParentInv /\ WaitInv /\ KillInv
  BY Slots DEF userinit, ParentInv, WaitInv, KillInv, Alive, Dozing
<1> QED BY <1>1, <1>2, <1>3 DEF LifeInv

(* A running process goes on to another place, and init to its next stage. *)
LEMMA MoveStep ==
  ASSUME LifeInv, NEW p \in Slot, state[p] = "live", in[p] \notin Forking,
         in' = [in EXCEPT ![p] = in'[p]], in'[p] \in Places \ Forking,
         UNCHANGED <<state, pid, parent, child, shell, late, wasParent>>,
         panicked' \in BOOLEAN, nextpid' \in 1 .. MaxPid + 1,
         stage' \in {"denyctl", "denyctl wait", "agentd", "sh", "sh wait"},
         p # initproc => stage' = stage,
         killed' \in [Slot -> BOOLEAN], \A s \in Slot : killed'[s] => killed[s],
         in'[p] \in Dozing => ~ killed[p],
         in'[p] = "wait sleep" => /\ \E c \in Slot : parent[c] = p
                                  /\ \A c \in Slot : parent[c] = p => state[c] # "zombie"
  PROVE  LifeInv'
<1> USE DEF LifeInv
<1>1. \A s \in Slot : s # p => in'[s] = in[s]
  BY DEF ProcTypeOK
<1>2. ProcTypeOK' /\ wasParent' \in [Slot -> 0 .. MaxPid]
  BY DEF ProcTypeOK, Places
<1>3. InitLives'
  BY <1>1, Slots DEF InitLives
<1>4. WhereInv'
  BY <1>1 DEF WhereInv
<1>5. ForkInv'
  BY <1>1 DEF ForkInv
<1>6. ParentInv'
  BY DEF ParentInv
<1>7. WaitInv'
  BY <1>1 DEF WaitInv
<1>8. KillInv'
  BY <1>1 DEF KillInv
<1> QED BY <1>2, <1>3, <1>4, <1>5, <1>6, <1>7, <1>8

(* The steps that only move on: exit, wait and pause called, wait          *)
(* returning nothing, and the way into sleep.                              *)
LEMMA CallStep ==
  ASSUME LifeInv, NEW p \in Slot,
         CallExit(p) \/ CallWait(p) \/ WaitBadAddress(p) \/ WaitSleeps(p) \/ Pause(p) \/ PauseReturns(p)
  PROVE  LifeInv'
<1>1. /\ state[p] = "live" /\ in[p] \in {"user", "wait", "pause"}
      /\ in' = [in EXCEPT ![p] = in'[p]] /\ in'[p] \in {"exit", "wait", "user", "wait sleep", "pause sleep"}
      /\ UNCHANGED <<state, pid, parent, child, shell, late, wasParent, panicked, nextpid, stage, killed>>
  BY DEF LifeInv, ProcTypeOK, CallExit, CallWait, WaitBadAddress, WaitSleeps, Pause, PauseReturns,
         MayCall, Running, Enter
<1>2. in'[p] \in Dozing => ~ killed[p]
  BY DEF LifeInv, ProcTypeOK, CallExit, CallWait, WaitBadAddress, WaitSleeps, Pause, PauseReturns,
         MayCall, Enter, Dozing
<1>3. in'[p] = "wait sleep" => WaitSleeps(p)
  BY DEF LifeInv, ProcTypeOK, CallExit, CallWait, WaitBadAddress, Pause, PauseReturns, Enter
<1>4. in'[p] = "wait sleep" => /\ \E c \in Slot : parent[c] = p
                               /\ \A c \in Slot : parent[c] = p => state[c] # "zombie"
  BY <1>3 DEF WaitSleeps, Zombies, Children
<1>5. in[p] \notin Forking /\ in'[p] \in Places \ Forking
  BY <1>1 DEF Forking, Places
<1>6. /\ panicked' \in BOOLEAN /\ nextpid' \in 1 .. MaxPid + 1
      /\ stage' \in {"denyctl", "denyctl wait", "agentd", "sh", "sh wait"}
      /\ killed' \in [Slot -> BOOLEAN]
  BY <1>1 DEF LifeInv, ProcTypeOK
<1> QED BY <1>1, <1>2, <1>4, <1>5, <1>6, MoveStep

(* fork or wait that fails, which init may take for its cue.               *)
LEMMA FailStep ==
  ASSUME LifeInv, NEW p \in Slot, ForkFails(p) \/ WaitFails(p)
  PROVE  LifeInv'
<1>1. /\ state[p] = "live" /\ in[p] \in {"user", "wait"}
      /\ in' = [in EXCEPT ![p] = in'[p]] /\ in'[p] \in {"exit", "user"}
      /\ UNCHANGED <<state, pid, parent, child, shell, late, wasParent, panicked>>
      /\ p # initproc => stage' = stage
  BY DEF LifeInv, ProcTypeOK, ForkFails, WaitFails, MayCall, Running, Enter
<1>2. stage' \in {"denyctl", "denyctl wait", "agentd", "sh", "sh wait"}
  BY DEF LifeInv, ProcTypeOK, ForkFails, WaitFails, MayCall, AfterFork
<1>3. killed' \in [Slot -> BOOLEAN] /\ nextpid' \in 1 .. MaxPid + 1 /\ \A s \in Slot : killed'[s] => killed[s]
  <2>1. CASE UNCHANGED <<nextpid, killed>>
    BY <2>1 DEF LifeInv, ProcTypeOK
  <2>2. CASE ~ UNCHANGED <<nextpid, killed>>
    <3>1. /\ nextpid <= MaxPid /\ nextpid' = nextpid + 1
          /\ killed' = [killed EXCEPT ![Min({s \in Slot : state[s] = "unused"})] = FALSE]
      BY <2>2 DEF ForkFails, WaitFails
    <3>2. nextpid' \in 1 .. MaxPid + 1
      BY <3>1, Numbers
    <3> QED BY <3>1, <3>2 DEF LifeInv, ProcTypeOK
  <2> QED BY <2>1, <2>2
<1>4. in[p] \notin Forking /\ in'[p] \in Places \ Forking /\ in'[p] \notin Dozing
      /\ in'[p] # "wait sleep" /\ panicked' \in BOOLEAN
  BY <1>1 DEF Forking, Places, Dozing, LifeInv, ProcTypeOK
<1> QED BY <1>1, <1>2, <1>3, <1>4, MoveStep

(* kfork takes an unused slot.                                             *)
LEMMA ForkStep ==
  ASSUME LifeInv, NEW p \in Slot, Fork(p)
  PROVE  LifeInv'
<1> USE DEF LifeInv
<1>1. PICK c \in Slot : state[c] = "unused" /\ c = Min({s \in Slot : state[s] = "unused"})
  <2>1. {s \in Slot : state[s] = "unused"} # {} /\ {s \in Slot : state[s] = "unused"} \in SUBSET Nat
    BY Slots DEF Fork
  <2> QED BY <2>1, HasMin
<1>2. /\ state[p] = "live" /\ in[p] = "user" /\ nextpid <= MaxPid /\ nextpid' = nextpid + 1
      /\ UNCHANGED <<parent, killed, stage, shell, panicked, late, wasParent>>
      /\ p = initproc => stage \in {"denyctl", "agentd", "sh"}
  BY DEF Fork, MayCall, Running, ProcTypeOK
<1>0. /\ state' = [state EXCEPT ![c] = "used"] /\ pid' = [pid EXCEPT ![c] = nextpid]
      /\ child' = [child EXCEPT ![p] = c]
      /\ in' = [in EXCEPT ![p] = "fork parent", ![c] = "user"]
  BY <1>1 DEF Fork
<1>3. p # c /\ c # initproc /\ parent[c] = 0 /\ in[c] = "user"
  BY <1>1, <1>2 DEF InitLives, Alive, ParentInv, WhereInv
<1>4. /\ \A s \in Slot : state'[s] = IF s = c THEN "used" ELSE state[s]
      /\ \A s \in Slot : pid'[s] = IF s = c THEN nextpid ELSE pid[s]
      /\ \A s \in Slot : child'[s] = IF s = p THEN c ELSE child[s]
      /\ \A s \in Slot : in'[s] = IF s = p THEN "fork parent" ELSE in[s]
  BY <1>0, <1>3 DEF ProcTypeOK
<1>5. ProcTypeOK' /\ wasParent' \in [Slot -> 0 .. MaxPid]
  <2>1. nextpid \in 1 .. MaxPid /\ nextpid' \in 1 .. MaxPid + 1 /\ nextpid # 0
    BY <1>2, Numbers
  <2>2. /\ pid' \in [Slot -> 0 .. MaxPid] /\ child' \in [Slot -> 0 .. NPROC]
        /\ state' \in [Slot -> {"unused", "used", "live", "sleeping", "zombie"}]
    <3>1. c \in 0 .. NPROC /\ nextpid \in 0 .. MaxPid
      BY <1>2, Numbers, Slots
    <3> QED BY <1>0, <3>1 DEF ProcTypeOK
  <2>3. in' \in [Slot -> {"user", "fork parent", "fork ready", "exit", "wait",
                          "wait sleep", "pause", "pause sleep"}]
    BY <1>0 DEF ProcTypeOK
  <2>4. \A s \in Slot : pid'[s] = 0 <=> state'[s] = "unused"
    BY <1>4, <2>1 DEF ProcTypeOK
  <2> QED BY <1>2, <2>1, <2>2, <2>3, <2>4 DEF ProcTypeOK
<1>6. InitLives'
  BY <1>2, <1>3, <1>4, Slots DEF InitLives, Forking
<1>7. WhereInv'
  BY <1>2, <1>3, <1>4 DEF WhereInv
<1>8. ForkInv'
  <2>1. \A q \in Slot : in[q] \in Forking => child[q] # c /\ q # p
    BY <1>1, <1>2 DEF ForkInv, Forking
  <2>2. \A q \in Slot : in'[q] \in Forking =>
          /\ child'[q] \in Slot /\ state'[child'[q]] = "used"
          /\ parent'[child'[q]] = IF in'[q] = "fork ready" THEN q ELSE 0
    <3> SUFFICES ASSUME NEW q \in Slot, in'[q] \in Forking
                 PROVE  /\ child'[q] \in Slot /\ state'[child'[q]] = "used"
                        /\ parent'[child'[q]] = IF in'[q] = "fork ready" THEN q ELSE 0
      OBVIOUS
    <3>1. CASE q = p
      BY <3>1, <1>2, <1>3, <1>4
    <3>2. CASE q # p
      <4>1. in'[q] = in[q] /\ child'[q] = child[q] /\ child[q] \in Slot /\ child[q] # c
        BY <3>2, <1>4, <2>1 DEF ForkInv
      <4>2. state[child[q]] = "used" /\ parent[child[q]] = IF in[q] = "fork ready" THEN q ELSE 0
        BY <4>1 DEF ForkInv
      <4>3. state'[child[q]] = state[child[q]] /\ parent'[child[q]] = parent[child[q]]
        BY <4>1, <1>2, <1>4
      <4> QED BY <4>1, <4>2, <4>3
    <3> QED BY <3>1, <3>2
  <2>3. \A q, r \in Slot : in'[q] \in Forking /\ in'[r] \in Forking /\ child'[q] = child'[r] => q = r
    BY <1>4, <2>1 DEF ForkInv
  <2> QED BY <2>2, <2>3 DEF ForkInv
<1>9. ParentInv'
  <2>1. \A s \in Slot : parent[s] # 0 => parent[s] \in Slot /\ parent[s] # c
    BY <1>1, Numbers DEF ParentInv, Alive
  <2>2. \A s \in Slot : parent[s] # 0 => state'[parent[s]] \in Alive /\ pid'[parent[s]] = wasParent[s]
    BY <2>1, <1>4 DEF ParentInv
  <2>3. \A s \in Slot : /\ state'[s] = "unused" => parent[s] = 0
                        /\ state'[s] \in Alive \cup {"zombie"} /\ s # initproc => parent[s] # 0
    BY <1>3, <1>4 DEF ParentInv, Alive
  <2> QED BY <1>2, <2>2, <2>3 DEF ParentInv
<1>10. WaitInv'
  <2> SUFFICES ASSUME NEW w \in Slot, (in'[w] = "wait sleep" \/ (state'[w] = "sleeping" /\ in'[w] = "wait"))
               PROVE  /\ \E k \in Slot : parent'[k] = w
                      /\ \A k \in Slot : parent'[k] = w => state'[k] # "zombie"
    BY DEF WaitInv
  <2>1. in[w] = "wait sleep" \/ (state[w] = "sleeping" /\ in[w] = "wait")
    BY <1>3, <1>4
  <2>2. /\ \E k \in Slot : parent[k] = w
        /\ \A k \in Slot : parent[k] = w => state[k] # "zombie"
    BY <2>1 DEF WaitInv
  <2> QED BY <2>2, <1>2, <1>4
<1>11. KillInv'
  BY <1>1, <1>2, <1>3, <1>4 DEF KillInv, Dozing
<1> QED BY <1>5, <1>6, <1>7, <1>8, <1>9, <1>10, <1>11

(* The child gets its parent, under wait_lock.                             *)
LEMMA ForkParentStep ==
  ASSUME LifeInv, NEW p \in Slot, ForkParent(p)
  PROVE  LifeInv'
<1> USE DEF LifeInv
<1>1. PICK c \in Slot : c = child[p] /\ state[c] = "used" /\ parent[c] = 0
  BY DEF ForkParent, Running, ForkInv, Forking
<1>2. /\ state[p] = "live" /\ in[p] = "fork parent" /\ \A s \in Slot : in[s] # "wait sleep"
      /\ UNCHANGED <<state, pid, killed, nextpid, child, stage, shell, panicked, late>>
  BY DEF ForkParent, Running, WaitLockFree
<1>0. /\ parent' = [parent EXCEPT ![c] = p] /\ wasParent' = [wasParent EXCEPT ![c] = pid[p]]
      /\ in' = [in EXCEPT ![p] = "fork ready"]
  BY <1>1 DEF ForkParent, Enter
<1>3. /\ \A s \in Slot : parent'[s] = IF s = c THEN p ELSE parent[s]
      /\ \A s \in Slot : wasParent'[s] = IF s = c THEN pid[p] ELSE wasParent[s]
      /\ \A s \in Slot : in'[s] = IF s = p THEN "fork ready" ELSE in[s]
  BY <1>0 DEF ProcTypeOK
<1>4. p # c /\ c # initproc /\ p # 0
  BY <1>1, <1>2, Slots DEF InitLives, Alive
<1>5. ProcTypeOK' /\ wasParent' \in [Slot -> 0 .. MaxPid]
  <2>1. parent' \in [Slot -> 0 .. NPROC] /\ wasParent' \in [Slot -> 0 .. MaxPid]
    BY <1>0, Slots DEF ProcTypeOK
  <2>2. in' \in [Slot -> {"user", "fork parent", "fork ready", "exit", "wait",
                          "wait sleep", "pause", "pause sleep"}]
    BY <1>0 DEF ProcTypeOK
  <2> QED BY <1>2, <2>1, <2>2 DEF ProcTypeOK
<1>6. InitLives'
  BY <1>2, <1>3, <1>4, Slots DEF InitLives, Forking
<1>7. WhereInv'
  BY <1>2, <1>3 DEF WhereInv
<1>8. ForkInv'
  <2>1. \A q \in Slot : in[q] \in Forking /\ q # p => child[q] # c
    BY <1>1, <1>2 DEF ForkInv, Forking
  <2>2. \A q \in Slot : in'[q] \in Forking =>
          /\ child'[q] \in Slot /\ state'[child'[q]] = "used"
          /\ parent'[child'[q]] = IF in'[q] = "fork ready" THEN q ELSE 0
    <3> SUFFICES ASSUME NEW q \in Slot, in'[q] \in Forking
                 PROVE  /\ child'[q] \in Slot /\ state'[child'[q]] = "used"
                        /\ parent'[child'[q]] = IF in'[q] = "fork ready" THEN q ELSE 0
      OBVIOUS
    <3>1. CASE q = p
      BY <3>1, <1>1, <1>2, <1>3
    <3>2. CASE q # p
      <4>1. in'[q] = in[q] /\ child'[q] = child[q] /\ child[q] \in Slot /\ child[q] # c
        BY <3>2, <1>2, <1>3, <2>1 DEF ForkInv
      <4> QED BY <4>1, <1>2, <1>3 DEF ForkInv
    <3> QED BY <3>1, <3>2
  <2>3. \A q, r \in Slot : in'[q] \in Forking /\ in'[r] \in Forking /\ child'[q] = child'[r] => q = r
    <3>1. \A q \in Slot : in'[q] \in Forking => in[q] \in Forking /\ child'[q] = child[q]
      BY <1>2, <1>3 DEF Forking
    <3> QED BY <3>1 DEF ForkInv
  <2> QED BY <2>2, <2>3 DEF ForkInv
<1>9. ParentInv'
  <2>1. state[p] \in Alive
    BY <1>2 DEF Alive
  <2>2. ASSUME NEW s \in Slot, parent'[s] # 0
        PROVE  state'[parent'[s]] \in Alive /\ pid'[parent'[s]] = wasParent'[s]
    <3>1. CASE s = c
      BY <3>1, <2>1, <1>2, <1>3
    <3>2. CASE s # c
      BY <3>2, <2>2, <1>2, <1>3 DEF ParentInv
    <3> QED BY <3>1, <3>2
  <2>3. ASSUME NEW s \in Slot
        PROVE  /\ state'[s] = "unused" => parent'[s] = 0
               /\ state'[s] \in Alive \cup {"zombie"} /\ s # initproc => parent'[s] # 0
    <3>1. CASE s = c
      BY <3>1, <1>1, <1>2, <1>3, <1>4
    <3>2. CASE s # c
      BY <3>2, <1>2, <1>3 DEF ParentInv
    <3> QED BY <3>1, <3>2
  <2> QED BY <2>2, <2>3 DEF ParentInv
<1>10. WaitInv'
  <2> SUFFICES ASSUME NEW w \in Slot, (in'[w] = "wait sleep" \/ (state'[w] = "sleeping" /\ in'[w] = "wait"))
               PROVE  /\ \E k \in Slot : parent'[k] = w
                      /\ \A k \in Slot : parent'[k] = w => state'[k] # "zombie"
    BY DEF WaitInv
  <2>1. in[w] = "wait sleep" \/ (state[w] = "sleeping" /\ in[w] = "wait")
    BY <1>2, <1>3
  <2>2. /\ \E k \in Slot : parent[k] = w
        /\ \A k \in Slot : parent[k] = w => state[k] # "zombie"
    BY <2>1 DEF WaitInv
  <2>3. PICK k \in Slot : parent[k] = w
    BY <2>2
  <2>4. k # c /\ parent'[k] = w
    BY <2>3, <1>1, <1>3, Slots
  <2>5. \A m \in Slot : parent'[m] = w => state'[m] # "zombie"
    BY <2>2, <1>1, <1>2, <1>3
  <2> QED BY <2>4, <2>5
<1>11. KillInv'
  BY <1>1, <1>2, <1>3 DEF KillInv, Dozing
<1> QED BY <1>5, <1>6, <1>7, <1>8, <1>9, <1>10, <1>11

(* ... and may run.                                                        *)
LEMMA ForkReadyStep ==
  ASSUME LifeInv, NEW p \in Slot, ForkReady(p)
  PROVE  LifeInv'
<1> USE DEF LifeInv
<1>1. PICK c \in Slot : c = child[p] /\ state[c] = "used" /\ parent[c] = p
  BY DEF ForkReady, Running, ForkInv, Forking
<1>2. /\ state[p] = "live" /\ in[p] = "fork ready"
      /\ UNCHANGED <<pid, parent, killed, nextpid, panicked, late, wasParent>>
  BY DEF ForkReady, Running
<1>0. /\ state' = [state EXCEPT ![c] = "live"] /\ child' = [child EXCEPT ![p] = 0]
      /\ in' = [in EXCEPT ![p] = "user"]
  BY <1>1 DEF ForkReady, Enter
<1>3. /\ \A s \in Slot : state'[s] = IF s = c THEN "live" ELSE state[s]
      /\ \A s \in Slot : child'[s] = IF s = p THEN 0 ELSE child[s]
      /\ \A s \in Slot : in'[s] = IF s = p THEN "user" ELSE in[s]
  BY <1>0 DEF ProcTypeOK
<1>4. p # c /\ c # initproc /\ p # 0 /\ in[c] = "user"
  BY <1>1, <1>2, Slots DEF InitLives, Alive, WhereInv
<1>5. ProcTypeOK' /\ wasParent' \in [Slot -> 0 .. MaxPid]
  <2>1. shell' \in 0 .. MaxPid
    BY <1>1 DEF ForkReady, ProcTypeOK
  <2>2. stage' \in {"denyctl", "denyctl wait", "agentd", "sh", "sh wait"}
    BY <1>2 DEF ForkReady, ProcTypeOK, AfterFork, InitLives, Forking
  <2>3. /\ state' \in [Slot -> {"unused", "used", "live", "sleeping", "zombie"}]
        /\ child' \in [Slot -> 0 .. NPROC]
    <3>1. 0 \in 0 .. NPROC
      BY Slots
    <3> QED BY <1>0, <3>1 DEF ProcTypeOK
  <2>4. in' \in [Slot -> {"user", "fork parent", "fork ready", "exit", "wait",
                          "wait sleep", "pause", "pause sleep"}]
    BY <1>0 DEF ProcTypeOK
  <2>5. \A s \in Slot : pid'[s] = 0 <=> state'[s] = "unused"
    <3>1. \A s \in Slot : pid[s] = 0 <=> state[s] = "unused"
      BY DEF ProcTypeOK
    <3> QED BY <3>1, <1>1, <1>2, <1>3
  <2> QED BY <1>2, <2>1, <2>2, <2>3, <2>4, <2>5 DEF ProcTypeOK
<1>6. InitLives'
  <2>1. p # initproc => stage' = stage
    BY DEF ForkReady
  <2> QED BY <1>2, <1>3, <1>4, <2>1, Slots DEF InitLives, Forking
<1>7. WhereInv'
  BY <1>2, <1>3 DEF WhereInv
<1>8. ForkInv'
  <2>1. \A q \in Slot : in'[q] \in Forking => in[q] \in Forking /\ q # p /\ child[q] # c
    BY <1>1, <1>2, <1>3 DEF ForkInv, Forking
  <2>2. \A q \in Slot : in'[q] \in Forking =>
          /\ child'[q] \in Slot /\ state'[child'[q]] = "used"
          /\ parent'[child'[q]] = IF in'[q] = "fork ready" THEN q ELSE 0
    <3> SUFFICES ASSUME NEW q \in Slot, in'[q] \in Forking
                 PROVE  /\ child'[q] \in Slot /\ state'[child'[q]] = "used"
                        /\ parent'[child'[q]] = IF in'[q] = "fork ready" THEN q ELSE 0
      OBVIOUS
    <3>1. in'[q] = in[q] /\ child'[q] = child[q] /\ child[q] \in Slot /\ child[q] # c
      BY <1>3, <2>1 DEF ForkInv
    <3>2. state[child[q]] = "used" /\ parent[child[q]] = IF in[q] = "fork ready" THEN q ELSE 0
      BY <3>1 DEF ForkInv
    <3>3. state'[child[q]] = state[child[q]] /\ parent'[child[q]] = parent[child[q]]
      BY <3>1, <1>2, <1>3
    <3> QED BY <3>1, <3>2, <3>3
  <2>3. \A q, r \in Slot : in'[q] \in Forking /\ in'[r] \in Forking /\ child'[q] = child'[r] => q = r
    BY <1>3, <2>1 DEF ForkInv
  <2> QED BY <2>2, <2>3 DEF ForkInv
<1>9. ParentInv'
  <2>1. \A s \in Slot : parent[s] # 0 => parent[s] \in Slot
    BY Numbers
  <2>2. \A s \in Slot : state[s] \in Alive => state'[s] \in Alive
    BY <1>3 DEF Alive
  <2>3. \A s \in Slot : parent[s] # 0 => state'[parent[s]] \in Alive /\ pid[parent[s]] = wasParent[s]
    BY <2>1, <2>2 DEF ParentInv
  <2>4. \A s \in Slot : /\ state'[s] = "unused" => parent[s] = 0
                        /\ state'[s] \in Alive \cup {"zombie"} /\ s # initproc => parent[s] # 0
    BY <1>1, <1>3, <1>4 DEF ParentInv
  <2> QED BY <1>2, <2>3, <2>4 DEF ParentInv
<1>10. WaitInv'
  <2> SUFFICES ASSUME NEW w \in Slot, (in'[w] = "wait sleep" \/ (state'[w] = "sleeping" /\ in'[w] = "wait"))
               PROVE  /\ \E k \in Slot : parent'[k] = w
                      /\ \A k \in Slot : parent'[k] = w => state'[k] # "zombie"
    BY DEF WaitInv
  <2>1. in[w] = "wait sleep" \/ (state[w] = "sleeping" /\ in[w] = "wait")
    BY <1>3
  <2>2. /\ \E k \in Slot : parent[k] = w
        /\ \A k \in Slot : parent[k] = w => state[k] # "zombie"
    BY <2>1 DEF WaitInv
  <2> QED BY <2>2, <1>2, <1>3
<1>11. KillInv'
  BY <1>1, <1>2, <1>3, <1>4 DEF KillInv, Dozing
<1> QED BY <1>5, <1>6, <1>7, <1>8, <1>9, <1>10, <1>11

(* A step that wakes sleepers and leaves the rest alone: clockintr, and    *)
(* kkill, which marks its victim too.                                      *)
LEMMA RouseStep ==
  ASSUME LifeInv, NEW S \in SUBSET Slot,
         state' = [s \in Slot |-> IF s \in S /\ state[s] = "sleeping" THEN "live" ELSE state[s]],
         killed' \in [Slot -> BOOLEAN], late \subseteq late', late' \subseteq Slot,
         \A s \in Slot : killed'[s] /\ ~ killed[s] => s \in S /\ (in[s] \in Dozing => s \in late'),
         UNCHANGED <<pid, parent, nextpid, in, child, stage, shell, panicked, wasParent>>
  PROVE  LifeInv'
<1> USE DEF LifeInv
<1>1. \A s \in Slot : state'[s] = IF s \in S /\ state[s] = "sleeping" THEN "live" ELSE state[s]
  OBVIOUS
<1>2. \A s \in Slot : state[s] \in {"unused", "used", "live", "sleeping", "zombie"}
  BY DEF ProcTypeOK
<1>3. ProcTypeOK' /\ wasParent' \in [Slot -> 0 .. MaxPid]
  <2>1. state' \in [Slot -> {"unused", "used", "live", "sleeping", "zombie"}]
    BY <1>2
  <2>2. \A s \in Slot : pid'[s] = 0 <=> state'[s] = "unused"
    <3>1. \A s \in Slot : pid[s] = 0 <=> state[s] = "unused"
      BY DEF ProcTypeOK
    <3> QED BY <1>1, <3>1
  <2> QED BY <2>1, <2>2 DEF ProcTypeOK
<1>4. InitLives'
  BY <1>1, Slots DEF InitLives, Alive
<1>5. WhereInv'
  BY <1>1 DEF WhereInv
<1>6. ForkInv'
  BY <1>1 DEF ForkInv
<1>7. ParentInv'
  <2>1. \A s \in Slot : state[s] \in Alive <=> state'[s] \in Alive
    BY <1>1 DEF Alive
  <2>2. \A s \in Slot : parent[s] # 0 => state'[parent[s]] \in Alive /\ pid[parent[s]] = wasParent[s]
    BY <2>1, Numbers DEF ParentInv
  <2>3. \A s \in Slot : /\ state'[s] = "unused" => parent[s] = 0
                        /\ state'[s] \in Alive \cup {"zombie"} /\ s # initproc => parent[s] # 0
    BY <1>1, <2>1 DEF ParentInv
  <2> QED BY <2>2, <2>3 DEF ParentInv
<1>8. WaitInv'
  BY <1>1 DEF WaitInv
<1>9. KillInv'
  BY <1>1 DEF KillInv
<1> QED BY <1>3, <1>4, <1>5, <1>6, <1>7, <1>8, <1>9

(* A tick wakes the processes in pause.                                    *)
LEMMA TickStep ==
  ASSUME LifeInv, TickWakes
  PROVE  LifeInv'
<1> DEFINE S == {s \in Slot : in[s] = "pause"}
<1>1. state' = [s \in Slot |-> IF s \in S /\ state[s] = "sleeping" THEN "live" ELSE state[s]]
  BY DEF TickWakes
<1>2. UNCHANGED <<pid, parent, killed, nextpid, in, child, stage, shell, panicked, late, wasParent>>
  BY DEF TickWakes
<1>3. killed \in [Slot -> BOOLEAN] /\ late \subseteq Slot /\ S \in SUBSET Slot
  BY DEF LifeInv, ProcTypeOK
<1> HIDE DEF S
<1> QED BY <1>1, <1>2, <1>3, RouseStep

(* kill marks its victim, and wakes it if it sleeps.                       *)
LEMMA KillStep ==
  ASSUME LifeInv, NEW p \in Slot, NEW n \in 0 .. MaxPid, Kill(p, n)
  PROVE  LifeInv'
<1>1. PICK t \in Slot : t = Min({s \in Slot : pid[s] = n})
  <2>1. {s \in Slot : pid[s] = n} # {} /\ {s \in Slot : pid[s] = n} \in SUBSET Nat
    BY Slots DEF Kill
  <2> QED BY <2>1, HasMin
<1>2. /\ killed' = [killed EXCEPT ![t] = TRUE]
      /\ late' = IF in[t] \in Dozing THEN late \cup {t} ELSE late
      /\ UNCHANGED <<pid, parent, nextpid, in, child, stage, shell, panicked, wasParent>>
  BY <1>1 DEF Kill, Dozing
<1>3. state' = [state EXCEPT ![t] = IF state[t] = "sleeping" THEN "live" ELSE state[t]]
  BY <1>1 DEF Kill, Roused
<1>4. state' = [s \in Slot |-> IF s \in {t} /\ state[s] = "sleeping" THEN "live" ELSE state[s]]
  BY <1>3 DEF LifeInv, ProcTypeOK
<1>5. /\ killed' \in [Slot -> BOOLEAN] /\ late \subseteq late' /\ late' \subseteq Slot
      /\ \A s \in Slot : killed'[s] /\ ~ killed[s] => s \in {t} /\ (in[s] \in Dozing => s \in late')
  BY <1>2 DEF LifeInv, ProcTypeOK
<1>6. {t} \in SUBSET Slot
  OBVIOUS
<1> QED BY <1>2, <1>4, <1>5, <1>6, RouseStep

(* sleep: the process gives up the processor where it decided to.          *)
LEMMA SleepStep ==
  ASSUME LifeInv, NEW p \in Slot, Sleep(p)
  PROVE  LifeInv'
<1> USE DEF LifeInv
<1>1. /\ state[p] = "live" /\ in[p] \in Dozing
      /\ UNCHANGED <<pid, parent, killed, nextpid, child, stage, shell, panicked, late, wasParent>>
  BY DEF Sleep, Running, Dozing
<1>2. /\ state' = [state EXCEPT ![p] = "sleeping"]
      /\ in' = [in EXCEPT ![p] = IF in[p] = "wait sleep" THEN "wait" ELSE "pause"]
  BY DEF Sleep, Enter
<1>3. /\ \A s \in Slot : state'[s] = IF s = p THEN "sleeping" ELSE state[s]
      /\ \A s \in Slot : in'[s] = IF s # p THEN in[s] ELSE IF in[p] = "wait sleep" THEN "wait" ELSE "pause"
  BY <1>2 DEF ProcTypeOK
<1>4. ProcTypeOK' /\ wasParent' \in [Slot -> 0 .. MaxPid]
  <2>1. state' \in [Slot -> {"unused", "used", "live", "sleeping", "zombie"}]
    BY <1>2 DEF ProcTypeOK
  <2>2. in' \in [Slot -> {"user", "fork parent", "fork ready", "exit", "wait",
                          "wait sleep", "pause", "pause sleep"}]
    BY <1>2 DEF ProcTypeOK
  <2>3. \A s \in Slot : pid'[s] = 0 <=> state'[s] = "unused"
    <3>1. \A s \in Slot : pid[s] = 0 <=> state[s] = "unused"
      BY DEF ProcTypeOK
    <3> QED BY <1>1, <1>3, <3>1
  <2> QED BY <1>1, <2>1, <2>2, <2>3 DEF ProcTypeOK
<1>5. InitLives'
  BY <1>1, <1>3, Slots DEF InitLives, Alive, Forking
<1>6. WhereInv'
  BY <1>1, <1>3 DEF WhereInv
<1>7. ForkInv'
  <2>1. \A q \in Slot : in'[q] \in Forking => in[q] \in Forking /\ in'[q] = in[q]
    BY <1>3 DEF Forking
  <2>2. \A q \in Slot : in'[q] \in Forking => child[q] \in Slot /\ state'[child[q]] = "used"
    BY <1>1, <1>3, <2>1 DEF ForkInv
  <2> QED BY <1>1, <2>1, <2>2 DEF ForkInv
<1>8. ParentInv'
  <2>1. \A s \in Slot : state[s] \in Alive <=> state'[s] \in Alive
    BY <1>1, <1>3 DEF Alive
  <2>2. \A s \in Slot : parent[s] # 0 => state'[parent[s]] \in Alive /\ pid[parent[s]] = wasParent[s]
    BY <2>1, Numbers DEF ParentInv
  <2>3. \A s \in Slot : /\ state'[s] = "unused" => parent[s] = 0
                        /\ state'[s] \in Alive \cup {"zombie"} /\ s # initproc => parent[s] # 0
    BY <1>3, <2>1 DEF ParentInv
  <2> QED BY <1>1, <2>2, <2>3 DEF ParentInv
<1>9. WaitInv'
  <2>1. \A q \in Slot : in'[q] = "wait sleep" \/ (state'[q] = "sleeping" /\ in'[q] = "wait") =>
                         in[q] = "wait sleep" \/ (state[q] = "sleeping" /\ in[q] = "wait")
    BY <1>1, <1>3 DEF Dozing
  <2>2. \A c \in Slot : state'[c] = "zombie" => state[c] = "zombie"
    BY <1>3
  <2>3. parent' = parent
    BY <1>1
  <2>4. WaitInv
    OBVIOUS
  <2> HIDE DEF LifeInv
  <2>5. ASSUME NEW q \in Slot, in[q] = "wait sleep" \/ (state[q] = "sleeping" /\ in[q] = "wait")
        PROVE  /\ \E c \in Slot : parent[c] = q
               /\ \A c \in Slot : parent[c] = q => state'[c] # "zombie"
    BY <2>2, <2>4, <2>5 DEF WaitInv
  <2> QED BY <2>1, <2>3, <2>5 DEF WaitInv
<1>10. KillInv'
  BY <1>1, <1>3 DEF KillInv, Dozing
<1> QED BY <1>4, <1>5, <1>6, <1>7, <1>8, <1>9, <1>10

(* kexit: the children go to init, init and the parent are woken, ZOMBIE.  *)
LEMMA ExitStep ==
  ASSUME LifeInv, NEW p \in Slot, Exit(p)
  PROVE  LifeInv'
<1> USE DEF LifeInv
<1>1. /\ state[p] = "live" /\ in[p] = "exit" /\ p # initproc /\ p # 0
      /\ \A s \in Slot : in[s] # "wait sleep"
      /\ UNCHANGED <<pid, killed, nextpid, in, child, stage, shell, panicked, late>>
  BY Slots DEF Exit, Running, WaitLockFree
<1>2. \A s \in Slot : state'[s] = IF s = p THEN "zombie"
                                  ELSE IF s \in WokenBy(p) /\ state[s] = "sleeping" /\ in[s] = "wait"
                                       THEN "live" ELSE state[s]
  BY DEF Exit, WakeWaiters
<1>3. /\ \A s \in Slot : parent'[s] = IF parent[s] = p THEN initproc ELSE parent[s]
      /\ \A s \in Slot : wasParent'[s] = IF parent[s] = p THEN 1 ELSE wasParent[s]
  BY <1>1 DEF Exit, reparent
<1>4. \A s \in Slot : s # p /\ state[s] \in Alive => state'[s] \in Alive
  BY <1>2 DEF Alive
<1>5. ProcTypeOK' /\ wasParent' \in [Slot -> 0 .. MaxPid]
  <2>1. state' \in [Slot -> {"unused", "used", "live", "sleeping", "zombie"}]
    BY DEF Exit, WakeWaiters, ProcTypeOK
  <2>2. parent' \in [Slot -> 0 .. NPROC]
    <3>1. initproc \in 0 .. NPROC
      BY Slots
    <3> QED BY <3>1 DEF Exit, reparent, ProcTypeOK
  <2>3. wasParent' \in [Slot -> 0 .. MaxPid]
    <3>1. 1 \in 0 .. MaxPid
      BY Slots
    <3> QED BY <3>1 DEF Exit
  <2>4. \A s \in Slot : pid'[s] = 0 <=> state'[s] = "unused"
    <3>1. \A s \in Slot : pid[s] = 0 <=> state[s] = "unused"
      BY DEF ProcTypeOK
    <3> QED BY <1>1, <1>2, <3>1
  <2> QED BY <1>1, <2>1, <2>2, <2>3, <2>4 DEF ProcTypeOK
<1>6. InitLives'
  BY <1>1, <1>3, <1>4, Slots DEF InitLives
<1>7. WhereInv'
  BY <1>1, <1>2 DEF WhereInv
<1>8. ForkInv'
  <2> SUFFICES ASSUME NEW q \in Slot, in[q] \in Forking
               PROVE  /\ child[q] \in Slot /\ state'[child[q]] = "used"
                      /\ parent'[child[q]] = IF in[q] = "fork ready" THEN q ELSE 0
    BY <1>1 DEF ForkInv
  <2>1. /\ child[q] \in Slot /\ state[child[q]] = "used" /\ q # p /\ child[q] # p
        /\ parent[child[q]] = IF in[q] = "fork ready" THEN q ELSE 0
    BY <1>1 DEF ForkInv, Forking
  <2>2. state'[child[q]] = "used"
    BY <1>2, <2>1
  <2>3. parent'[child[q]] = parent[child[q]]
    BY <1>1, <1>3, <2>1
  <2> QED BY <2>1, <2>2, <2>3
<1>9. ParentInv'
  <2>1. ASSUME NEW s \in Slot, parent'[s] # 0
        PROVE  state'[parent'[s]] \in Alive /\ pid[parent'[s]] = wasParent'[s]
    <3>1. CASE parent[s] = p
      <4>1. state'[initproc] \in Alive /\ pid[initproc] = 1
        BY <1>1, <1>4, Slots DEF InitLives
      <4> QED BY <3>1, <4>1, <1>3
    <3>2. CASE parent[s] # p
      <4>1. parent[s] \in Slot /\ state[parent[s]] \in Alive /\ pid[parent[s]] = wasParent[s]
        BY <2>1, <3>2, <1>3, Numbers DEF ParentInv
      <4> QED BY <3>2, <4>1, <1>3, <1>4
    <3> QED BY <3>1, <3>2
  <2>2. ASSUME NEW s \in Slot, state'[s] = "unused" PROVE parent'[s] = 0
    BY <2>2, <1>1, <1>2, <1>3 DEF ParentInv
  <2>3. ASSUME NEW s \in Slot, state'[s] \in Alive \cup {"zombie"}, s # initproc PROVE parent'[s] # 0
    <3>1. state[s] \in Alive \cup {"zombie"}
      BY <2>3, <1>1, <1>2 DEF Alive
    <3> QED BY <3>1, <2>3, <1>3, Slots DEF ParentInv
  <2> QED BY <1>1, <2>1, <2>2, <2>3 DEF ParentInv
<1>10. WaitInv'
  <2> SUFFICES ASSUME NEW w \in Slot, (in'[w] = "wait sleep" \/ (state'[w] = "sleeping" /\ in'[w] = "wait"))
               PROVE  /\ \E k \in Slot : parent'[k] = w
                      /\ \A k \in Slot : parent'[k] = w => state'[k] # "zombie"
    BY DEF WaitInv
  <2>1. state[w] = "sleeping" /\ in[w] = "wait" /\ w # p /\ w \notin WokenBy(p)
    BY <1>1, <1>2
  <2>2. /\ \E k \in Slot : parent[k] = w
        /\ \A k \in Slot : parent[k] = w => state[k] # "zombie"
    BY <2>1 DEF WaitInv
  <2>3. \E k \in Slot : parent'[k] = w
    BY <2>1, <2>2, <1>3
  <2>4. w # parent[p]
    BY <2>1 DEF WokenBy
  <2>5. ASSUME NEW k \in Slot, parent'[k] = w PROVE parent[k] = w
    <3>1. CASE parent[k] = p
      <4>1. k \in Children(p) /\ w = initproc
        BY <3>1, <2>5, <1>3 DEF Children
      <4>2. initproc \in WokenBy(p)
        BY <4>1 DEF WokenBy
      <4> QED BY <4>1, <4>2, <2>1
    <3>2. CASE parent[k] # p
      BY <3>2, <2>5, <1>3
    <3> QED BY <3>1, <3>2
  <2>6. \A k \in Slot : parent'[k] = w => state'[k] # "zombie"
    BY <2>2, <2>4, <2>5, <1>2
  <2> QED BY <2>3, <2>6
<1>11. KillInv'
  BY <1>1, <1>2 DEF KillInv, Dozing
<1> QED BY <1>5, <1>6, <1>7, <1>8, <1>9, <1>10, <1>11

(* kwait frees the first exited child.                                     *)
LEMMA ReapStep ==
  ASSUME LifeInv, NEW p \in Slot, WaitReaps(p)
  PROVE  LifeInv'
<1> USE DEF LifeInv
<1>1. PICK c \in Slot : parent[c] = p /\ state[c] = "zombie" /\ c = Min(Zombies(p))
  <2>1. Zombies(p) # {} /\ Zombies(p) \in SUBSET Nat
    BY Slots DEF WaitReaps, Zombies, Children
  <2>2. Min(Zombies(p)) \in Zombies(p)
    BY <2>1, HasMin
  <2> QED BY <2>2 DEF Zombies, Children
<1>2. /\ state[p] = "live" /\ in[p] = "wait" /\ p # c /\ c # initproc
      /\ \A s \in Slot : in[s] # "wait sleep"
      /\ late' = late \ {c}
      /\ p # initproc => stage' = stage
      /\ UNCHANGED <<nextpid, child, shell, panicked>>
  BY <1>1 DEF WaitReaps, Running, WaitLockFree, InitLives, Alive
<1>3. /\ state' = [state EXCEPT ![c] = "unused"] /\ pid' = [pid EXCEPT ![c] = 0]
      /\ parent' = [parent EXCEPT ![c] = 0] /\ killed' = [killed EXCEPT ![c] = FALSE]
      /\ in' = [in EXCEPT ![p] = "user", ![c] = "user"]
      /\ wasParent' = [wasParent EXCEPT ![c] = 0]
  BY <1>1 DEF WaitReaps
<1>4. /\ \A s \in Slot : state'[s] = IF s = c THEN "unused" ELSE state[s]
      /\ \A s \in Slot : pid'[s] = IF s = c THEN 0 ELSE pid[s]
      /\ \A s \in Slot : parent'[s] = IF s = c THEN 0 ELSE parent[s]
      /\ \A s \in Slot : in'[s] = IF s = p \/ s = c THEN "user" ELSE in[s]
      /\ \A s \in Slot : wasParent'[s] = IF s = c THEN 0 ELSE wasParent[s]
  BY <1>3 DEF ProcTypeOK
<1>5. \A s \in Slot : killed'[s] => killed[s] /\ s # c
  BY <1>3 DEF ProcTypeOK
<1>6. ProcTypeOK' /\ wasParent' \in [Slot -> 0 .. MaxPid]
  <2>1. 0 \in 0 .. MaxPid /\ 0 \in 0 .. NPROC
    BY Slots
  <2>2. /\ state' \in [Slot -> {"unused", "used", "live", "sleeping", "zombie"}]
        /\ pid' \in [Slot -> 0 .. MaxPid] /\ parent' \in [Slot -> 0 .. NPROC]
        /\ wasParent' \in [Slot -> 0 .. MaxPid]
    BY <1>3, <2>1 DEF ProcTypeOK
  <2>3. in' \in [Slot -> {"user", "fork parent", "fork ready", "exit", "wait",
                          "wait sleep", "pause", "pause sleep"}]
    BY <1>3 DEF ProcTypeOK
  <2>4. killed' \in [Slot -> BOOLEAN]
    BY <1>3 DEF ProcTypeOK
  <2>5. stage' \in {"denyctl", "denyctl wait", "agentd", "sh", "sh wait"}
    BY DEF WaitReaps, AfterWait, ProcTypeOK
  <2>6. \A s \in Slot : pid'[s] = 0 <=> state'[s] = "unused"
    <3>1. \A s \in Slot : pid[s] = 0 <=> state[s] = "unused"
      BY DEF ProcTypeOK
    <3> QED BY <1>4, <3>1
  <2>7. late' \subseteq Slot
    BY <1>2 DEF ProcTypeOK
  <2> QED BY <1>2, <2>2, <2>3, <2>4, <2>5, <2>6, <2>7 DEF ProcTypeOK
<1>7. InitLives'
  BY <1>2, <1>4, Slots DEF InitLives, Forking
<1>8. WhereInv'
  BY <1>2, <1>4 DEF WhereInv
<1>9. ForkInv'
  <2>1. \A q \in Slot : in'[q] \in Forking => in[q] \in Forking /\ in'[q] = in[q]
    BY <1>4 DEF Forking
  <2>2. ASSUME NEW q \in Slot, in[q] \in Forking
        PROVE  /\ child[q] \in Slot /\ state'[child[q]] = "used"
               /\ parent'[child[q]] = parent[child[q]]
    <3>1. child[q] \in Slot /\ state[child[q]] = "used" /\ child[q] # c
      BY <2>2, <1>1 DEF ForkInv
    <3> QED BY <3>1, <1>4
  <2>3. \A q \in Slot : in'[q] \in Forking =>
          /\ child'[q] \in Slot /\ state'[child'[q]] = "used"
          /\ parent'[child'[q]] = IF in'[q] = "fork ready" THEN q ELSE 0
    <3> SUFFICES ASSUME NEW q \in Slot, in'[q] \in Forking
                 PROVE  /\ child'[q] \in Slot /\ state'[child'[q]] = "used"
                        /\ parent'[child'[q]] = IF in'[q] = "fork ready" THEN q ELSE 0
      OBVIOUS
    <3>1. in[q] \in Forking /\ in'[q] = in[q] /\ child'[q] = child[q]
      BY <1>2, <2>1
    <3>2. parent[child[q]] = IF in[q] = "fork ready" THEN q ELSE 0
      BY <3>1 DEF ForkInv
    <3> QED BY <3>1, <3>2, <2>2
  <2>4. \A q, r \in Slot : in'[q] \in Forking /\ in'[r] \in Forking /\ child'[q] = child'[r] => q = r
    BY <1>2, <2>1 DEF ForkInv
  <2> QED BY <2>3, <2>4 DEF ForkInv
<1>10. ParentInv'
  <2>1. ASSUME NEW s \in Slot, parent'[s] # 0
        PROVE  state'[parent'[s]] \in Alive /\ pid'[parent'[s]] = wasParent'[s]
    <3>1. s # c /\ parent'[s] = parent[s]
      BY <2>1, <1>4
    <3>2. parent[s] \in Slot /\ state[parent[s]] \in Alive /\ pid[parent[s]] = wasParent[s]
      BY <2>1, <3>1, Numbers DEF ParentInv
    <3>3. parent[s] # c
      BY <3>2, <1>1 DEF Alive
    <3> QED BY <3>1, <3>2, <3>3, <1>4
  <2>2. ASSUME NEW s \in Slot
        PROVE  /\ state'[s] = "unused" => parent'[s] = 0
               /\ state'[s] \in Alive \cup {"zombie"} /\ s # initproc => parent'[s] # 0
    BY <1>4 DEF ParentInv, Alive
  <2> QED BY <2>1, <2>2 DEF ParentInv
<1>11. WaitInv'
  <2> SUFFICES ASSUME NEW w \in Slot, (in'[w] = "wait sleep" \/ (state'[w] = "sleeping" /\ in'[w] = "wait"))
               PROVE  /\ \E k \in Slot : parent'[k] = w
                      /\ \A k \in Slot : parent'[k] = w => state'[k] # "zombie"
    BY DEF WaitInv
  <2>1. state[w] = "sleeping" /\ in[w] = "wait" /\ w # p
    BY <1>2, <1>4
  <2>2. /\ \E k \in Slot : parent[k] = w
        /\ \A k \in Slot : parent[k] = w => state[k] # "zombie"
    BY <2>1 DEF WaitInv
  <2>3. w # 0
    BY Slots
  <2> QED BY <2>1, <2>2, <2>3, <1>1, <1>4
<1>12. KillInv'
  BY <1>2, <1>4, <1>5 DEF KillInv, Dozing
<1> QED BY <1>6, <1>7, <1>8, <1>9, <1>10, <1>11, <1>12

(* Every step of the process table keeps the invariant.                    *)
LEMMA StepInv == LifeInv /\ [ProcNext]_procVars => LifeInv'
<1> SUFFICES ASSUME LifeInv, [ProcNext]_procVars PROVE LifeInv'
  OBVIOUS
<1>1. ASSUME NEW p \in Slot, Fork(p) PROVE LifeInv'
  BY <1>1, ForkStep
<1>2. ASSUME NEW p \in Slot, ForkFails(p) \/ WaitFails(p) PROVE LifeInv'
  BY <1>2, FailStep
<1>3. ASSUME NEW p \in Slot, ForkParent(p) PROVE LifeInv'
  BY <1>3, ForkParentStep
<1>4. ASSUME NEW p \in Slot, ForkReady(p) PROVE LifeInv'
  BY <1>4, ForkReadyStep
<1>5. ASSUME NEW p \in Slot,
             CallExit(p) \/ CallWait(p) \/ WaitBadAddress(p) \/ WaitSleeps(p) \/ Pause(p) \/ PauseReturns(p)
      PROVE  LifeInv'
  BY <1>5, CallStep
<1>6. ASSUME NEW p \in Slot, Exit(p) PROVE LifeInv'
  BY <1>6, ExitStep
<1>7. ASSUME NEW p \in Slot, WaitReaps(p) PROVE LifeInv'
  BY <1>7, ReapStep
<1>8. ASSUME NEW p \in Slot, Sleep(p) PROVE LifeInv'
  BY <1>8, SleepStep
<1>9. ASSUME NEW p \in Slot, NEW n \in 0 .. MaxPid, Kill(p, n) PROVE LifeInv'
  BY <1>9, KillStep
<1>10. CASE TickWakes
  BY <1>10, TickStep
<1>11. CASE InitExits
  <2>1. /\ panicked' = TRUE
        /\ UNCHANGED <<state, pid, parent, killed, nextpid, in, child, stage, shell, late, wasParent>>
    BY <1>11 DEF InitExits
  <2>2. ProcTypeOK' /\ wasParent' \in [Slot -> 0 .. MaxPid]
    BY <2>1 DEF LifeInv, ProcTypeOK
  <2>3. InitLives' /\ WhereInv' /\ ForkInv'
    BY <2>1 DEF LifeInv, InitLives, WhereInv, ForkInv
  <2>4. ParentInv' /\ KillInv'
    BY <2>1 DEF LifeInv, ParentInv, KillInv
  <2>5. WaitInv'
    BY <2>1 DEF LifeInv, WaitInv
  <2> QED BY <2>2, <2>3, <2>4, <2>5 DEF LifeInv
<1>12. CASE UNCHANGED procVars
  <2>1. ProcTypeOK' /\ wasParent' \in [Slot -> 0 .. MaxPid]
    BY <1>12 DEF procVars, LifeInv, ProcTypeOK
  <2>2. InitLives' /\ WhereInv' /\ ForkInv'
    BY <1>12 DEF procVars, LifeInv, InitLives, WhereInv, ForkInv
  <2>3. ParentInv' /\ KillInv'
    BY <1>12 DEF procVars, LifeInv, ParentInv, KillInv
  <2>4. WaitInv'
    BY <1>12 DEF procVars, LifeInv, WaitInv
  <2> QED BY <2>1, <2>2, <2>3, <2>4 DEF LifeInv
<1> QED
  BY <1>1, <1>2, <1>3, <1>4, <1>5, <1>6, <1>7, <1>8, <1>9, <1>10, <1>11, <1>12 DEF ProcNext

-----------------------------------------------------------------------------
(* However fork, exit, wait, pause and kill interleave, and for any number *)
(* of slots: a process that runs or has exited has a living parent, the    *)
(* one that forked it or init; wait sleeps on no zombie; a killed process  *)
(* sleeps only if the kill fell between its test of killed() and its sleep.*)
THEOREM ProcCorrect == ProcSpec => []ProcInv
<1>1. LifeInv => ProcInv
  <2> SUFFICES ASSUME LifeInv PROVE ProcInv
    OBVIOUS
  <2>1. ProcTypeOK
    BY DEF LifeInv
  <2>2. ParentCanWait
    BY DEF LifeInv, ParentInv, ParentCanWait
  <2>3. WaitMissesNoZombie
    BY DEF LifeInv, WaitInv, WaitMissesNoZombie, Zombies, Children
  <2>4. KillWakesUnlessLate
    BY DEF LifeInv, KillInv, KillWakesUnlessLate
  <2> QED BY <2>1, <2>2, <2>3, <2>4 DEF ProcInv
<1>2. userinit => LifeInv
  BY InitInv
<1>3. LifeInv /\ [ProcNext]_procVars => LifeInv'
  BY StepInv
<1>4. ProcSpec => userinit /\ [][ProcNext]_procVars
  BY PTL DEF ProcSpec
<1> QED BY <1>1, <1>2, <1>3, <1>4, PTL

-----------------------------------------------------------------------------
(* The host bridge.                                                        *)
(***************************************************************************)
(* Lines: a cache call, its reply, a command for agentd.                   *)
(***************************************************************************)
Call    == [kind : {"CACHE_GET", "CACHE_SET"}, q : Question, id : {-1}]
Reply   == [kind : {"HIT", "MISS", "OK", "ERR"}, q : Question \cup {NoReply}, id : {-1}]
Command == [kind : {"TOOL", "MARKER"}, q : {NoReply}, id : Nat]

InTool == host.pc \in {"marker", "retried"}

BridgeTypes ==
  /\ down \in Seq(Call \cup Command) /\ queue \in Seq(Command)
  /\ up \in Seq(Reply \cup Command)
  /\ kcache \in [Question -> Question \cup {NoReply}]
  /\ slot \in [line : Reply \cup {NoReply}, event : BOOLEAN]
  /\ capture \in [on : BOOLEAN, buf : Seq(Reply \cup Command)]
  /\ seq \in Nat
  /\ host \in [pc : {"idle", "rpc", "send", "wait", "model", "marker", "retried"},
               q : Question \cup {NoReply}, n : 0 .. MAX_STEPS, impure : BOOLEAN,
               call : {"none", "GET", "SET"}]
  /\ Len(queue) <= AGENTQ

(* Between its calls the host has a question, captures exactly during a    *)
(* tool call, and has sent a marker when it waits for one.                 *)
HostInv ==
  /\ host.pc # "idle" => host.q \in Question /\ host.call \in {"GET", "SET"}
  /\ capture.on <=> InTool
  /\ ~capture.on => capture.buf = <<>>
  /\ InTool => seq > 0
  /\ slot.event => slot.line \in Reply

(* The kernel's cache is exact.                                            *)
ExactInv == \A q \in Question : kcache[q] \in {q, NoReply}

(* A leftover at marker number n: the marker of a call that is over.       *)
Spent(n, line) == line.kind = "MARKER" /\ line.id < n
AllSpent(n, s) == \A i \in 1 .. Len(s) : Spent(n, s[i])
Nowhere == AllSpent(seq, down) /\ AllSpent(seq, up) /\ AllSpent(seq, queue)

(* x is in s, and nothing else but leftovers.                              *)
Single(n, s, x) ==
  \E p \in 1 .. Len(s) : s[p] = x /\ \A i \in 1 .. Len(s) : i # p => Spent(n, s[i])

(* The call the host waits in, and whether a reply answers it.             *)
Due == IF host.call = "GET" THEN Get(host.q) ELSE Set(host.q)
Right(call, q, line) == line.id = -1 /\ (call = "GET" /\ line.kind = "HIT" => line.q = q)

(* The call the host waits in, unless stale, is the only one anywhere: on  *)
(* its way down, its reply on its way up, or its reply in the slot.        *)
CallSent    == AllSpent(seq, up) /\ AllSpent(seq, queue) /\ Single(seq, down, Due)
CallHandled == /\ AllSpent(seq, down) /\ AllSpent(seq, queue)
               /\ \E x \in Reply : Right(host.call, host.q, x) /\ Single(seq, up, x)
OneCallInv ==
  ~stale /\ host.pc = "wait" =>
    IF slot.event THEN Nowhere /\ Right(host.call, host.q, slot.line)
                  ELSE CallSent \/ CallHandled

(* Unless stale, nothing but leftovers is anywhere between two calls.      *)
QuietInv ==
  ~stale /\ host.pc \in {"idle", "rpc", "send", "model"} =>
    Nowhere /\ (host.pc = "send" => ~slot.event)

(* Everything captured or still to come, in the order it is printed.       *)
Flow == capture.buf \o (up \o (queue \o down))

(* The tool's command is the only output in s, and only markers of earlier *)
(* calls stand before it.                                                  *)
Ours(n, s) ==
  \E p \in 1 .. Len(s) :
    /\ s[p] = Tool(n - 1)
    /\ \A i \in 1 .. Len(s) : i # p => Spent(n, s[i])
    /\ \A i \in 1 .. p - 1 : s[i].id < n - 1

(* That is what a tool call, unless stale, has captured or will.           *)
ToolInv == ~stale /\ InTool => Ours(seq, Flow)

Line == Call \cup Reply \cup Command
-----------------------------------------------------------------------------
(* The head of one queue handed on to the next leaves the order.           *)
LEMMA HandOn ==
  ASSUME NEW S, NEW a \in Seq(S), NEW b \in Seq(S), b # <<>>
  PROVE  Append(a, Head(b)) \o Tail(b) = a \o b
<1> DEFINE l == Append(a, Head(b)) \o Tail(b)
<1>1. Head(b) \in S /\ Tail(b) \in Seq(S) /\ Len(Tail(b)) = Len(b) - 1 /\ Len(b) \in Nat \ {0}
  BY HeadTailProperties, EmptySeq
<1>2. Append(a, Head(b)) \in Seq(S) /\ Len(Append(a, Head(b))) = Len(a) + 1
  BY <1>1, AppendProperties
<1>3. l \in Seq(S) /\ a \o b \in Seq(S) /\ Len(l) = Len(a \o b)
  BY <1>1, <1>2, ConcatProperties, LenProperties
<1>4. \A i \in 1 .. Len(l) : l[i] = (a \o b)[i]
  BY <1>1, <1>2, <1>3
<1> QED
  BY <1>3, <1>4, SeqEqual

(* Leftovers stay leftovers, and so do their queues.                       *)
LEMMA SpentTail ==
  ASSUME NEW n, NEW S, NEW s \in Seq(S), s # <<>>, AllSpent(n, s)
  PROVE  AllSpent(n, Tail(s)) /\ Spent(n, Head(s))
<1>1. Len(s) \in Nat \ {0} /\ Len(Tail(s)) = Len(s) - 1 /\ Head(s) = s[1]
      /\ \A i \in 1 .. Len(Tail(s)) : Tail(s)[i] = s[i + 1]
  BY HeadTailProperties, EmptySeq
<1> QED
  BY <1>1 DEF AllSpent

(* Leftovers behind leftovers.                                             *)
LEMMA SpentAppend ==
  ASSUME NEW n, NEW S, NEW s \in Seq(S), NEW x \in S, AllSpent(n, s), Spent(n, x)
  PROVE  AllSpent(n, Append(s, x))
<1>1. Len(s) \in Nat /\ Len(Append(s, x)) = Len(s) + 1
      /\ \A i \in 1 .. Len(s) + 1 : Append(s, x)[i] = IF i = Len(s) + 1 THEN x ELSE s[i]
  BY AppendProperties, LenProperties
<1> QED
  BY <1>1 DEF AllSpent

(* Two queues of leftovers.                                                *)
LEMMA SpentConcat ==
  ASSUME NEW n, NEW S, NEW s \in Seq(S), NEW u \in Seq(S), AllSpent(n, s), AllSpent(n, u)
  PROVE  AllSpent(n, s \o u)
<1>1. Len(s) \in Nat /\ Len(u) \in Nat /\ Len(s \o u) = Len(s) + Len(u)
      /\ \A i \in 1 .. Len(s) + Len(u) : (s \o u)[i] = IF i <= Len(s) THEN s[i] ELSE u[i - Len(s)]
  BY ConcatProperties, LenProperties
<1> QED
  BY <1>1 DEF AllSpent

(* What is alone in a queue: it leaves by the head, or a leftover does.    *)
LEMMA SingleTail ==
  ASSUME NEW n, NEW S, NEW s \in Seq(S), s # <<>>, NEW x, Single(n, s, x)
  PROVE  /\ Head(s).kind # "MARKER" => Head(s) = x /\ AllSpent(n, Tail(s))
         /\ Head(s) # x => Single(n, Tail(s), x) /\ Spent(n, Head(s))
<1>1. Len(s) \in Nat \ {0} /\ Len(Tail(s)) = Len(s) - 1 /\ Head(s) = s[1]
      /\ \A i \in 1 .. Len(Tail(s)) : Tail(s)[i] = s[i + 1]
  BY HeadTailProperties, EmptySeq
<1>2. PICK p \in 1 .. Len(s) : s[p] = x /\ \A i \in 1 .. Len(s) : i # p => Spent(n, s[i])
  BY DEF Single
<1>3. ASSUME Head(s).kind # "MARKER" PROVE Head(s) = x /\ AllSpent(n, Tail(s))
  <2>1. p = 1
    BY <1>1, <1>2, <1>3 DEF Spent
  <2> QED
    BY <1>1, <1>2, <2>1 DEF AllSpent
<1>4. ASSUME Head(s) # x PROVE Single(n, Tail(s), x) /\ Spent(n, Head(s))
  <2>1. p # 1 /\ p - 1 \in 1 .. Len(Tail(s))
    BY <1>1, <1>2, <1>4
  <2>2. Tail(s)[p - 1] = x
    BY <1>1, <1>2, <2>1
  <2>3. \A i \in 1 .. Len(Tail(s)) : i # p - 1 => Spent(n, Tail(s)[i])
    BY <1>1, <1>2, <2>1
  <2> QED
    BY <1>1, <1>2, <2>1, <2>2, <2>3 DEF Single
<1> QED
  BY <1>3, <1>4

(* What is alone in a queue stays so before a leftover and behind some.    *)
LEMMA SingleAppend ==
  ASSUME NEW n, NEW S, NEW s \in Seq(S), NEW x \in S, NEW y \in S
  PROVE  /\ Single(n, s, x) /\ Spent(n, y) => Single(n, Append(s, y), x)
         /\ AllSpent(n, s) => Single(n, Append(s, x), x)
<1>1. ASSUME NEW z \in S
      PROVE  Len(s) \in Nat /\ Len(Append(s, z)) = Len(s) + 1
             /\ \A i \in 1 .. Len(s) + 1 : Append(s, z)[i] = IF i = Len(s) + 1 THEN z ELSE s[i]
  BY AppendProperties, LenProperties
<1>2. ASSUME Single(n, s, x), Spent(n, y) PROVE Single(n, Append(s, y), x)
  BY <1>1, <1>2 DEF Single
<1>3. ASSUME AllSpent(n, s) PROVE Single(n, Append(s, x), x)
  <2>1. Len(s) + 1 \in 1 .. Len(Append(s, x)) /\ Append(s, x)[Len(s) + 1] = x
    BY <1>1
  <2> QED
    BY <1>1, <1>3, <2>1 DEF Single, AllSpent
<1> QED
  BY <1>2, <1>3

(* The tool's command goes in after leftovers, and its marker after it.    *)
LEMMA OursStart ==
  ASSUME NEW n \in Nat, NEW s \in Seq(Line), AllSpent(n, s)
  PROVE  Ours(n + 1, s \o <<Tool(n), Marker(n)>>)
<1> DEFINE f == s \o <<Tool(n), Marker(n)>>
<1>1. Tool(n) \in Line /\ Marker(n) \in Line
  BY DEF Line, Command, Tool, Marker
<1>2. Len(s) \in Nat /\ Len(f) = Len(s) + 2
      /\ \A i \in 1 .. Len(s) + 2 : f[i] = IF i <= Len(s) THEN s[i]
                                          ELSE IF i = Len(s) + 1 THEN Tool(n) ELSE Marker(n)
  BY <1>1, LenProperties
<1>3. \A i \in 1 .. Len(s) : Spent(n, s[i]) /\ s[i] \in Line
  BY ElementOfSeq DEF AllSpent
<1>4. \A i \in 1 .. Len(s) : s[i].kind = "MARKER" /\ s[i].id \in Int /\ s[i].id < n
  BY <1>3 DEF Spent, Line, Call, Reply, Command
<1>5. Spent(n + 1, Marker(n))
  BY DEF Spent, Marker
<1>6. \A i \in 1 .. Len(s) : Spent(n + 1, s[i])
  BY <1>4 DEF Spent
<1>7. Len(s) + 1 \in 1 .. Len(f) /\ f[Len(s) + 1] = Tool((n + 1) - 1)
  BY <1>2
<1>8. \A i \in 1 .. Len(f) : i # Len(s) + 1 => Spent(n + 1, f[i])
  BY <1>2, <1>5, <1>6
<1>9. \A i \in 1 .. (Len(s) + 1) - 1 : f[i].id < (n + 1) - 1
  BY <1>2, <1>4
<1> QED
  BY <1>7, <1>8, <1>9 DEF Ours

(* The marker a second time, behind everything.                            *)
LEMMA OursAgain ==
  ASSUME NEW n \in Nat \ {0}, NEW s \in Seq(Line), Ours(n, s)
  PROVE  Ours(n, Append(s, Marker(n - 1)))
<1>1. Marker(n - 1) \in Line /\ Spent(n, Marker(n - 1))
  BY DEF Line, Command, Marker, Spent
<1>2. Len(s) \in Nat /\ Len(Append(s, Marker(n - 1))) = Len(s) + 1
      /\ \A i \in 1 .. Len(s) + 1 :
           Append(s, Marker(n - 1))[i] = IF i = Len(s) + 1 THEN Marker(n - 1) ELSE s[i]
  BY <1>1, AppendProperties, LenProperties
<1>3. PICK p \in 1 .. Len(s) :
        /\ s[p] = Tool(n - 1)
        /\ \A i \in 1 .. Len(s) : i # p => Spent(n, s[i])
        /\ \A i \in 1 .. p - 1 : s[i].id < n - 1
  BY DEF Ours
<1>4. p \in 1 .. Len(Append(s, Marker(n - 1))) /\ Append(s, Marker(n - 1))[p] = Tool(n - 1)
  BY <1>2, <1>3
<1>5. \A i \in 1 .. Len(Append(s, Marker(n - 1))) : i # p => Spent(n, Append(s, Marker(n - 1))[i])
  BY <1>1, <1>2, <1>3
<1>6. \A i \in 1 .. p - 1 : Append(s, Marker(n - 1))[i].id < n - 1
  BY <1>2, <1>3
<1> QED
  BY <1>4, <1>5, <1>6 DEF Ours

(* Every line of a tool call is a command.                                 *)
LEMMA OursCommands ==
  ASSUME NEW n, NEW s, Ours(n, s), NEW i \in 1 .. Len(s)
  PROVE  s[i].kind \in {"TOOL", "MARKER"}
  BY DEF Ours, Spent, Tool

(* What was captured up to the first marker of this call is the tool's     *)
(* output, and what follows is leftovers.                                  *)
LEMMA OursObserved ==
  ASSUME NEW n \in Nat \ {0}, NEW s \in Seq(Line), NEW u \in Seq(Line), Ours(n, s \o u),
         NEW stop \in 1 .. Len(s), s[stop] = Marker(n - 1)
  PROVE  /\ \E p \in 1 .. stop - 1 :
              s[p] = Tool(n - 1) /\ \A i \in 1 .. stop - 1 : IsOutput(s[i]) => i = p
         /\ AllSpent(n, u)
<1>1. Len(s) \in Nat /\ Len(u) \in Nat /\ Len(s \o u) = Len(s) + Len(u)
      /\ \A i \in 1 .. Len(s) + Len(u) : (s \o u)[i] = IF i <= Len(s) THEN s[i] ELSE u[i - Len(s)]
  BY ConcatProperties, LenProperties
<1>2. PICK p \in 1 .. Len(s \o u) :
        /\ (s \o u)[p] = Tool(n - 1)
        /\ \A i \in 1 .. Len(s \o u) : i # p => Spent(n, (s \o u)[i])
        /\ \A i \in 1 .. p - 1 : (s \o u)[i].id < n - 1
  BY DEF Ours
<1>3. (s \o u)[stop] = Marker(n - 1) /\ stop \in 1 .. Len(s \o u)
  BY <1>1
<1>4. ~(stop < p)
  <2> SUFFICES ASSUME stop < p PROVE FALSE
    OBVIOUS
  <2>0. stop \in 1 .. p - 1
    BY <1>1
  <2>1. (s \o u)[stop].id < n - 1
    BY <1>2, <2>0
  <2> QED
    BY <1>3, <2>1 DEF Marker
<1>5. stop # p
  BY <1>2, <1>3 DEF Marker, Tool
<1>6. p \in 1 .. stop - 1 /\ s[p] = Tool(n - 1)
  BY <1>1, <1>2, <1>4, <1>5
<1>7. ASSUME NEW i \in 1 .. stop - 1, IsOutput(s[i]) PROVE i = p
  <2>1. i \in 1 .. Len(s \o u) /\ (s \o u)[i] = s[i]
    BY <1>1
  <2>2. i # p => Spent(n, s[i])
    BY <1>2, <2>1
  <2> QED
    BY <1>7, <2>2 DEF Spent, IsOutput
<1>8. AllSpent(n, u)
  <2> SUFFICES ASSUME NEW i \in 1 .. Len(u) PROVE Spent(n, u[i])
    BY DEF AllSpent
  <2>1. Len(s) + i \in 1 .. Len(s \o u) /\ Len(s) + i # p /\ (s \o u)[Len(s) + i] = u[i]
    BY <1>1, <1>6
  <2> QED
    BY <1>2, <2>1
<1> QED
  BY <1>6, <1>7, <1>8

-----------------------------------------------------------------------------
(* Every step keeps the types, what the host has between its calls, and an *)
(* exact cache.                                                            *)
BridgeCore == BridgeTypes /\ HostInv /\ ExactInv

(* What goes over the wire is a call, a reply or a command.                *)
LEMMA WireIsTyped ==
  ASSUME NEW q \in Question, NEW id \in Nat
  PROVE  /\ Get(q) \in Call /\ Set(q) \in Call
         /\ Tool(id) \in Command /\ Marker(id) \in Command
         /\ \A kind \in {"HIT", "MISS", "OK", "ERR"}, a \in Question \cup {NoReply} : Resp(kind, a) \in Reply
  BY DEF Get, Set, Tool, Marker, Resp, Call, Command, Reply

(* The next line for xv6 is a call with its question or a command.         *)
LEMMA DownHead ==
  ASSUME BridgeTypes, down # <<>>
  PROVE  /\ Head(down) \in Call \cup Command /\ Tail(down) \in Seq(Call \cup Command)
         /\ Head(down).kind \in {"CACHE_GET", "CACHE_SET"} => Head(down).q \in Question
         /\ Head(down).kind \in {"TOOL", "MARKER"} => Head(down) \in Command
<1>1. Head(down) \in Call \cup Command /\ Tail(down) \in Seq(Call \cup Command)
  BY HeadTailProperties DEF BridgeTypes
<1> QED
  BY <1>1 DEF Call, Command

(* The next line for the host is a reply if it has no number.              *)
LEMMA UpHead ==
  ASSUME BridgeTypes, up # <<>>
  PROVE  /\ Head(up) \in Reply \cup Command /\ Tail(up) \in Seq(Reply \cup Command)
         /\ Head(up).id = -1 => Head(up) \in Reply
         /\ Head(up).id # -1 => Head(up) \in Command
<1>1. Head(up) \in Reply \cup Command /\ Tail(up) \in Seq(Reply \cup Command)
  BY HeadTailProperties DEF BridgeTypes
<1> QED
  BY <1>1 DEF Reply, Command

(* Types and the host's own state hold at the start ...                    *)
LEMMA CoreInit == BridgeInit => BridgeCore
<1> SUFFICES ASSUME BridgeInit PROVE BridgeCore
  OBVIOUS
<1>1. BridgeTypes
  BY BridgeAssumption, EmptySeq DEF BridgeInit, BridgeTypes, Idle
<1>2. HostInv
  BY DEF BridgeInit, HostInv, InTool, Idle
<1> QED
  BY <1>1, <1>2 DEF BridgeCore, BridgeInit, ExactInv

(* The steps of xv6 and of the reader thread.                              *)
LEMMA CoreKernel ==
  ASSUME BridgeCore,
         HandleCacheGet \/ (\E ok \in BOOLEAN : HandleCacheSet(ok)) \/ ForwardCommand \/ Execute \/ Reader
  PROVE  BridgeCore'
<1> USE DEF BridgeCore
<1>1. CASE HandleCacheGet
  <2>1. Head(down).q \in Question /\ Tail(down) \in Seq(Call \cup Command)
    BY <1>1, DownHead DEF HandleCacheGet
  <2>2. up' \in Seq(Reply \cup Command)
    BY <1>1, <2>1, WireIsTyped, AppendProperties DEF HandleCacheGet, BridgeTypes
  <2> QED
    BY <1>1, <2>1, <2>2 DEF HandleCacheGet, BridgeTypes, HostInv, ExactInv, InTool
<1>2. ASSUME NEW ok \in BOOLEAN, HandleCacheSet(ok) PROVE BridgeCore'
  <2>1. Head(down).q \in Question /\ Tail(down) \in Seq(Call \cup Command)
    BY <1>2, DownHead DEF HandleCacheSet
  <2>2. up' \in Seq(Reply \cup Command)
    <3>1. Resp(IF ok THEN "OK" ELSE "ERR", NoReply) \in Reply \cup Command
      BY <2>1, WireIsTyped
    <3> QED
      BY <1>2, <3>1, AppendProperties DEF HandleCacheSet, BridgeTypes
  <2>3. kcache' \in [Question -> Question \cup {NoReply}] /\ ExactInv'
    BY <1>2, <2>1 DEF HandleCacheSet, BridgeTypes, ExactInv
  <2> QED
    BY <1>2, <2>1, <2>2, <2>3 DEF HandleCacheSet, BridgeTypes, HostInv, InTool
<1>3. CASE ForwardCommand
  <2>1. Head(down) \in Command /\ Tail(down) \in Seq(Call \cup Command)
    BY <1>3, DownHead DEF ForwardCommand
  <2>2. queue' \in Seq(Command) /\ Len(queue') <= AGENTQ
    <3>1. Append(queue, Head(down)) \in Seq(Command) /\ Len(Append(queue, Head(down))) = Len(queue) + 1
          /\ Len(queue) \in Nat
      BY <2>1, AppendProperties, LenProperties DEF BridgeTypes
    <3> QED
      BY <1>3, <3>1, BridgeAssumption DEF ForwardCommand, BridgeTypes
  <2> QED
    BY <1>3, <2>1, <2>2 DEF ForwardCommand, BridgeTypes, HostInv, ExactInv, InTool
<1>4. CASE Execute
  <2>1. Head(queue) \in Command /\ Tail(queue) \in Seq(Command) /\ Len(Tail(queue)) = Len(queue) - 1
        /\ Len(queue) \in Nat
    BY <1>4, HeadTailProperties, LenProperties DEF Execute, BridgeTypes
  <2>2. up' \in Seq(Reply \cup Command) /\ queue' \in Seq(Command) /\ Len(queue') <= AGENTQ
    BY <1>4, <2>1, AppendProperties, BridgeAssumption DEF Execute, BridgeTypes
  <2> QED
    BY <1>4, <2>1, <2>2 DEF Execute, BridgeTypes, HostInv, ExactInv, InTool
<1>5. CASE Reader
  <2>1. /\ Head(up) \in Reply \cup Command /\ Tail(up) \in Seq(Reply \cup Command)
        /\ Head(up).id = -1 => Head(up) \in Reply
    BY <1>5, UpHead DEF Reader
  <2>2. capture' \in [on : BOOLEAN, buf : Seq(Reply \cup Command)]
        /\ capture'.on = capture.on /\ (~capture.on => capture'.buf = capture.buf)
    BY <1>5, <2>1, AppendProperties DEF Reader, BridgeTypes
  <2>3. slot' \in [line : Reply \cup {NoReply}, event : BOOLEAN] /\ (slot'.event => slot'.line \in Reply)
    BY <1>5, <2>1 DEF Reader, BridgeTypes, HostInv
  <2> QED
    BY <1>5, <2>1, <2>2, <2>3 DEF Reader, BridgeTypes, HostInv, ExactInv, InTool
<1> QED
  BY <1>1, <1>2, <1>3, <1>4, <1>5

(* The steps of the host.                                                  *)
LEMMA CoreHost ==
  ASSUME BridgeCore, HostStep \/ \E q \in Question, fits \in BOOLEAN : AskQuestion(q, fits)
  PROVE  BridgeCore'
<1> USE DEF BridgeCore
<1> DEFINE Host == [pc : {"idle", "rpc", "send", "wait", "model", "marker", "retried"},
                    q : Question \cup {NoReply}, n : 0 .. MAX_STEPS, impure : BOOLEAN,
                    call : {"none", "GET", "SET"}]
<1>0. ASSUME host' \in Host, host.pc \notin {"marker", "retried"}, host'.pc \notin {"marker", "retried"},
             host'.pc # "idle" => host'.q \in Question /\ host'.call \in {"GET", "SET"},
             UNCHANGED <<down, up, queue, kcache, slot, capture, seq>>
      PROVE  BridgeCore'
  BY <1>0 DEF BridgeTypes, HostInv, ExactInv, InTool
<1>a. Idle \in Host /\ Idle.pc = "idle"
  BY BridgeAssumption DEF Idle
<1>b. host \in Host
  BY DEF BridgeTypes
<1>1. ASSUME NEW q \in Question, NEW fits \in BOOLEAN, AskQuestion(q, fits) PROVE BridgeCore'
  <2>1. host' \in Host /\ host'.pc \in {"rpc", "model"} /\ host'.q \in Question /\ host'.call = "GET"
    BY <1>1, <1>a DEF AskQuestion
  <2> QED
    BY <1>0, <1>1, <2>1 DEF AskQuestion, At
<1>2. CASE RpcClear
  BY <1>2 DEF RpcClear, At, Goto, Cleared, BridgeTypes, HostInv, ExactInv, InTool
<1>3. CASE RpcSend
  <2>1. (IF host.call = "GET" THEN Get(host.q) ELSE Set(host.q)) \in Call \cup Command
    BY <1>3, WireIsTyped DEF RpcSend, At, HostInv
  <2>2. down' \in Seq(Call \cup Command)
    BY <1>3, <2>1, AppendProperties DEF RpcSend, BridgeTypes
  <2> QED
    BY <1>3, <2>2 DEF RpcSend, At, Goto, BridgeTypes, HostInv, ExactInv, InTool
<1>4. ASSUME NEW line, At("wait"), AfterRpc(line),
             UNCHANGED <<down, up, queue, kcache, slot, capture, seq>>
      PROVE  BridgeCore'
  <2>1. host' = Idle \/ host' = [host EXCEPT !.pc = "model"]
    BY <1>4 DEF AfterRpc, Goto
  <2>2. host' \in Host /\ host'.pc \in {"idle", "model"}
        /\ (host'.pc = "model" => host'.q \in Question /\ host'.call \in {"GET", "SET"})
    BY <1>4, <1>a, <1>b, <2>1 DEF At, HostInv
  <2> QED
    BY <1>0, <1>4, <2>2 DEF At
<1>5. CASE RpcReply
  BY <1>4, <1>5 DEF RpcReply
<1>6. CASE RpcTimeout
  BY <1>4, <1>6 DEF RpcTimeout
<1>7. ASSUME NEW fits \in BOOLEAN, ModelAnswers(fits) PROVE BridgeCore'
  <2>1. host' = Idle \/ host' = [host EXCEPT !.pc = "rpc", !.call = "SET"]
    BY <1>7 DEF ModelAnswers
  <2>2. host' \in Host /\ host'.pc \in {"idle", "rpc"}
        /\ (host'.pc = "rpc" => host'.q \in Question /\ host'.call \in {"GET", "SET"})
    BY <1>7, <1>a, <1>b, <2>1 DEF ModelAnswers, At, HostInv
  <2> QED
    BY <1>0, <1>7, <2>2 DEF ModelAnswers, At
<1>8. CASE ModelGivesUp
  BY <1>8, BridgeAssumption DEF ModelGivesUp, At, Idle, BridgeTypes, HostInv, ExactInv, InTool
<1>9. ASSUME NEW impure \in BOOLEAN, ModelUnusable(impure) PROVE BridgeCore'
  <2>1. host' = [host EXCEPT !.n = @ + 1, !.impure = @ \/ impure] /\ host.pc = "model" /\ host.n < MAX_STEPS
        /\ host.n + 1 \in 0 .. MAX_STEPS
    BY <1>9, <1>b, BridgeAssumption DEF ModelUnusable, At
  <2>2. host' \in Host /\ host'.pc = "model" /\ host'.q = host.q /\ host'.call = host.call
    <3>1. (host.impure \/ impure) \in BOOLEAN
      OBVIOUS
    <3> QED
      BY <1>b, <2>1, <3>1
  <2> QED
    BY <1>0, <1>9, <2>1, <2>2 DEF ModelUnusable, At, HostInv
<1>10. ASSUME NEW impure \in BOOLEAN, RunTool(impure) PROVE BridgeCore'
  <2>1. Tool(seq) \in Call \cup Command /\ Marker(seq) \in Call \cup Command
    BY DEF BridgeTypes, Tool, Marker, Command
  <2>2. <<Tool(seq), Marker(seq)>> \in Seq(Call \cup Command)
    BY <2>1
  <2>3. down' \in Seq(Call \cup Command)
    BY <1>10, <2>2, ConcatProperties DEF RunTool, BridgeTypes
  <2>4. host' = [host EXCEPT !.pc = "marker", !.n = @ + 1, !.impure = @ \/ impure]
        /\ capture' = [on |-> TRUE, buf |-> <<>>] /\ seq' = seq + 1
        /\ host.n < MAX_STEPS /\ host.pc = "model"
        /\ UNCHANGED <<up, queue, kcache, slot>>
    BY <1>10 DEF RunTool, At
  <2>5. capture' \in [on : BOOLEAN, buf : Seq(Reply \cup Command)]
    BY <2>4, EmptySeq
  <2>6. host.n + 1 \in 0 .. MAX_STEPS /\ (host.impure \/ impure) \in BOOLEAN
    BY <1>b, <2>4, BridgeAssumption
  <2>7. host' \in Host /\ host'.pc = "marker" /\ host'.q = host.q /\ host'.call = host.call
    BY <1>b, <2>4, <2>6
  <2>8. seq' \in Nat /\ seq' > 0
    BY <2>4 DEF BridgeTypes
  <2>9. BridgeTypes'
    BY <2>3, <2>4, <2>5, <2>7, <2>8 DEF BridgeTypes
  <2>10. HostInv'
    BY <2>4, <2>7, <2>8 DEF HostInv, InTool
  <2> QED
    BY <2>4, <2>9, <2>10 DEF ExactInv
<1>11. ASSUME host.pc \in {"marker", "retried"}, capture' = [on |-> FALSE, buf |-> <<>>], Goto("model"),
              UNCHANGED <<down, up, queue, kcache, slot, seq>>
       PROVE  BridgeCore'
  <2>1. capture' \in [on : BOOLEAN, buf : Seq(Reply \cup Command)]
    BY <1>11, EmptySeq
  <2> QED
    BY <1>11, <2>1 DEF Goto, BridgeTypes, HostInv, ExactInv, InTool
<1>12. CASE ToolObserved
  BY <1>11, <1>12 DEF ToolObserved
<1>13. CASE MarkerRetry
  <2>1. MarkerOf \in Call \cup Command
    BY <1>13 DEF MarkerRetry, At, MarkerOf, Marker, Command, BridgeTypes, HostInv, InTool
  <2>2. down' \in Seq(Call \cup Command)
    BY <1>13, <2>1, AppendProperties DEF MarkerRetry, BridgeTypes
  <2> QED
    BY <1>13, <2>2 DEF MarkerRetry, At, Goto, BridgeTypes, HostInv, ExactInv, InTool
<1>14. CASE ToolTimeout
  BY <1>11, <1>14 DEF ToolTimeout, At
<1> QED
  BY <1>1, <1>2, <1>3, <1>5, <1>6, <1>7, <1>8, <1>9, <1>10, <1>12, <1>13, <1>14 DEF HostStep

(* ... and after every step.                                               *)
LEMMA CoreStep == BridgeCore /\ [BridgeNext]_bridgeVars => BridgeCore'
<1> SUFFICES ASSUME BridgeCore, [BridgeNext]_bridgeVars PROVE BridgeCore'
  OBVIOUS
<1>1. CASE UNCHANGED bridgeVars
  BY <1>1 DEF bridgeVars, BridgeCore, BridgeTypes, HostInv, ExactInv, InTool
<1> QED
  BY <1>1, CoreKernel, CoreHost DEF BridgeNext

-----------------------------------------------------------------------------
(* What the host relies on, and every step of xv6 and of the reader keeps. *)
BridgeHist ==
  OneCallInv /\ QuietInv /\ ToolInv /\ AnswersMatchUnlessLate /\ ObservationIsOwn

(* Everything captured or still to come is lines.                          *)
LEMMA FlowTyped ==
  ASSUME BridgeTypes
  PROVE  /\ down \in Seq(Line) /\ queue \in Seq(Line) /\ up \in Seq(Line) /\ capture.buf \in Seq(Line)
         /\ queue \o down \in Seq(Line) /\ up \o (queue \o down) \in Seq(Line) /\ Flow \in Seq(Line)
<1>1. down \in Seq(Line) /\ queue \in Seq(Line) /\ up \in Seq(Line) /\ capture.buf \in Seq(Line)
  BY SeqMonotonic DEF BridgeTypes, Line
<1> QED
  BY <1>1, ConcatProperties DEF Flow

(* A line of the second of two queues is one of both.                      *)
LEMMA FoundLater ==
  ASSUME NEW S, NEW a \in Seq(S), NEW b \in Seq(S), NEW i \in 1 .. Len(b)
  PROVE  Len(a) + i \in 1 .. Len(a \o b) /\ (a \o b)[Len(a) + i] = b[i]
<1>1. Len(a) \in Nat /\ Len(b) \in Nat /\ Len(a \o b) = Len(a) + Len(b)
      /\ \A j \in 1 .. Len(a) + Len(b) : (a \o b)[j] = IF j <= Len(a) THEN a[j] ELSE b[j - Len(a)]
  BY ConcatProperties, LenProperties
<1>2. Len(a) + i \in 1 .. Len(a) + Len(b) /\ ~(Len(a) + i <= Len(a)) /\ (Len(a) + i) - Len(a) = i
  BY <1>1
<1> QED
  BY <1>1, <1>2

(* The same with a third queue behind the two.                             *)
LEMMA HandOnInside ==
  ASSUME NEW S, NEW a \in Seq(S), NEW b \in Seq(S), NEW c \in Seq(S), b # <<>>
  PROVE  Append(a, Head(b)) \o (Tail(b) \o c) = a \o (b \o c)
<1>1. Head(b) \in S /\ Tail(b) \in Seq(S)
  BY HeadTailProperties
<1>2. Append(a, Head(b)) \in Seq(S)
  BY <1>1, AppendProperties
<1>3. Append(a, Head(b)) \o (Tail(b) \o c) = (Append(a, Head(b)) \o Tail(b)) \o c
  <2> DEFINE x == Append(a, Head(b))
             t == Tail(b)
  <2>1. x \in Seq(S) /\ t \in Seq(S)
    BY <1>1, <1>2
  <2> HIDE DEF x, t
  <2>2. (x \o t) \o c = x \o (t \o c)
    BY <2>1, ConcatAssociative, SMTT(30)
  <2> QED
    BY <2>2, Zenon DEF x, t
<1>4. Append(a, Head(b)) \o Tail(b) = a \o b
  BY HandOn
<1>5. (a \o b) \o c = a \o (b \o c)
  BY ConcatAssociative, SMTT(30)
<1> QED
  BY <1>3, <1>4, <1>5, Zenon

(* Unless the command is dropped there is room for it in agentq.           *)
LEMMA RoomInQueue ==
  ASSUME BridgeTypes, stale' = FALSE, ForwardCommand
  PROVE  queue' = Append(queue, Head(down))
<1>1. ~(Len(queue) = AGENTQ) /\ queue' = IF Len(queue) < AGENTQ THEN Append(queue, Head(down)) ELSE queue
  BY DEF ForwardCommand
<1>2. Len(queue) \in Nat /\ Len(queue) <= AGENTQ
  BY LenProperties DEF BridgeTypes
<1> QED
  BY <1>1, <1>2, BridgeAssumption

(* What comes down during a tool call is commands.                         *)
LEMMA ToolDown ==
  ASSUME BridgeTypes, Ours(seq, Flow), down # <<>>
  PROVE  Head(down).kind \in {"TOOL", "MARKER"}
<1>1. down \in Seq(Line) /\ queue \in Seq(Line) /\ up \in Seq(Line) /\ capture.buf \in Seq(Line)
  BY FlowTyped
<1>2. PICK i \in 1 .. Len(down) : down[i] = Head(down)
  <2>1. 1 \in 1 .. Len(down) /\ Head(down) = down[1]
    BY <1>1, EmptySeq
  <2> QED
    BY <2>1
<1>3. \E k \in 1 .. Len(Flow) : Flow[k] = down[i]
  <2> DEFINE b == capture.buf
             qd == queue \o down
             uqd == up \o qd
             f == b \o uqd
  <2>1. b \in Seq(Line) /\ qd \in Seq(Line) /\ uqd \in Seq(Line)
    BY <1>1, ConcatProperties
  <2>2. Len(queue) + i \in 1 .. Len(qd) /\ qd[Len(queue) + i] = down[i]
    BY <1>1, FoundLater
  <2> HIDE DEF b, qd
  <2>3. Len(up) + (Len(queue) + i) \in 1 .. Len(uqd) /\ uqd[Len(up) + (Len(queue) + i)] = down[i]
    BY <1>1, <2>1, <2>2, FoundLater
  <2> HIDE DEF uqd
  <2>4. Len(b) + (Len(up) + (Len(queue) + i)) \in 1 .. Len(f)
        /\ f[Len(b) + (Len(up) + (Len(queue) + i))] = down[i]
    BY <2>1, <2>3, FoundLater
  <2> QED
    BY <2>4 DEF Flow, b, qd, uqd
<1> QED
  BY <1>2, <1>3, OursCommands

(* Nothing captured or still to come is lost or overtaken on its way.      *)
LEMMA FlowMoves ==
  ASSUME BridgeCore, InTool, stale' = FALSE, ForwardCommand \/ Execute \/ Reader
  PROVE  Flow' = Flow
<1> USE DEF BridgeCore
<1>0. down \in Seq(Line) /\ queue \in Seq(Line) /\ up \in Seq(Line) /\ capture.buf \in Seq(Line)
      /\ queue \o down \in Seq(Line)
  BY FlowTyped
<1>1. CASE ForwardCommand
  <2>1. queue' = Append(queue, Head(down)) /\ down' = Tail(down) /\ down # <<>>
        /\ up' = up /\ capture' = capture
    BY <1>1, RoomInQueue DEF ForwardCommand
  <2>2. queue' \o down' = queue \o down
    BY <2>1, FlowTyped, HandOn
  <2> QED
    BY <2>1, <2>2 DEF Flow
<1>2. CASE Execute
  <2>1. up' = Append(up, Head(queue)) /\ queue' = Tail(queue) /\ queue # <<>>
        /\ down' = down /\ capture' = capture
    BY <1>2 DEF Execute
  <2>2. Append(up, Head(queue)) \o (Tail(queue) \o down) = up \o (queue \o down)
    <3>1. up \in Seq(Line) /\ queue \in Seq(Line) /\ down \in Seq(Line) /\ queue # <<>>
      BY <1>0, <2>1
    <3>2. ASSUME NEW a \in Seq(Line), NEW b \in Seq(Line), NEW c \in Seq(Line), b # <<>>
          PROVE  Append(a, Head(b)) \o (Tail(b) \o c) = a \o (b \o c)
      BY <3>2, HandOnInside, SMTT(30)
    <3> QED
      BY <3>1, <3>2, Zenon
  <2> QED
    BY <2>1, <2>2 DEF Flow
<1>3. CASE Reader
  <2>1. capture'.buf = Append(capture.buf, Head(up)) /\ up' = Tail(up) /\ up # <<>>
        /\ down' = down /\ queue' = queue
    BY <1>3 DEF Reader, BridgeTypes, HostInv
  <2> DEFINE c == queue \o down
             b == capture.buf
  <2> HIDE DEF b, c
  <2>2. b \in Seq(Line) /\ c \in Seq(Line)
    BY <1>0 DEF b, c
  <2>3. Append(b, Head(up)) \o (Tail(up) \o c) = b \o (up \o c)
    <3>1. up # <<>> /\ up \in Seq(Line)
      BY <1>0, <2>1
    <3> QED
      BY <2>2, <3>1, HandOnInside
  <2> QED
    BY <2>1, <2>3 DEF Flow, b, c
<1> QED
  BY <1>1, <1>2, <1>3

(* Leftovers move on without anybody taking notice.                        *)
LEMMA LeftoversMove ==
  ASSUME BridgeCore, stale' = FALSE, AllSpent(seq, down), AllSpent(seq, queue), AllSpent(seq, up),
         HandleCacheGet \/ (\E ok \in BOOLEAN : HandleCacheSet(ok)) \/ ForwardCommand \/ Execute \/ Reader
  PROVE  Nowhere' /\ slot' = slot
<1> USE DEF BridgeCore
<1>0. down # <<>> => Head(down).kind = "MARKER"
  BY FlowTyped, SpentTail DEF Spent
<1>1. CASE HandleCacheGet
  BY <1>0, <1>1 DEF HandleCacheGet
<1>2. CASE \E ok \in BOOLEAN : HandleCacheSet(ok)
  BY <1>0, <1>2 DEF HandleCacheSet
<1>3. CASE ForwardCommand
  <2>1. queue' = Append(queue, Head(down)) /\ down' = Tail(down) /\ down # <<>>
        /\ up' = up /\ seq' = seq /\ slot' = slot
    BY <1>3, RoomInQueue DEF ForwardCommand
  <2>2. AllSpent(seq, down') /\ Spent(seq, Head(down)) /\ Head(down) \in Line
    BY <2>1, FlowTyped, SpentTail, HeadTailProperties
  <2>3. AllSpent(seq, queue')
    BY <2>1, <2>2, FlowTyped, SpentAppend
  <2> QED
    BY <2>1, <2>2, <2>3 DEF Nowhere
<1>4. CASE Execute
  <2>1. up' = Append(up, Head(queue)) /\ queue' = Tail(queue) /\ queue # <<>>
        /\ down' = down /\ seq' = seq /\ slot' = slot
    BY <1>4 DEF Execute
  <2>2. AllSpent(seq, queue') /\ Spent(seq, Head(queue)) /\ Head(queue) \in Line
    BY <2>1, FlowTyped, SpentTail, HeadTailProperties
  <2>3. AllSpent(seq, up')
    BY <2>1, <2>2, FlowTyped, SpentAppend
  <2> QED
    BY <2>1, <2>2, <2>3 DEF Nowhere
<1>5. CASE Reader
  <2>1. up' = Tail(up) /\ up # <<>> /\ down' = down /\ queue' = queue /\ seq' = seq
    BY <1>5 DEF Reader
  <2>2. AllSpent(seq, up') /\ Head(up).kind = "MARKER"
    BY <2>1, FlowTyped, SpentTail DEF Spent
  <2>3. Head(up).id # -1
    BY <2>1, <2>2, UpHead DEF Reply
  <2> QED
    BY <1>5, <2>1, <2>2, <2>3 DEF Nowhere, Reader
<1> QED
  BY <1>1, <1>2, <1>3, <1>4, <1>5

(* The call on its way down, and its reply.                                *)
LEMMA CallMoves ==
  ASSUME BridgeCore, stale' = FALSE, host.pc = "wait", ~slot.event, CallSent,
         HandleCacheGet \/ (\E ok \in BOOLEAN : HandleCacheSet(ok)) \/ ForwardCommand \/ Execute \/ Reader
  PROVE  slot' = slot /\ (CallSent' \/ CallHandled')
<1> USE DEF BridgeCore
<1>0. /\ host.q \in Question /\ Due \in Call /\ Due \in Line /\ Due.kind \in {"CACHE_GET", "CACHE_SET"}
      /\ Due.kind = "CACHE_GET" => Due = Get(host.q)
  BY WireIsTyped DEF HostInv, Due, Line, Get, Set, Call
<1>a. host' = host /\ seq' = seq
  BY DEF HandleCacheGet, HandleCacheSet, ForwardCommand, Execute, Reader
<1>b. Due' = Due
  BY <1>a DEF Due
<1>1. ASSUME down # <<>>, Head(down).kind \in {"CACHE_GET", "CACHE_SET"}
      PROVE  Head(down) = Due /\ AllSpent(seq, Tail(down)) /\ Due.q = host.q
  BY <1>1, FlowTyped, SingleTail DEF CallSent, Due, Get, Set
<1>2. ASSUME NEW x \in Reply, Right(host.call, host.q, x),
             up' = Append(up, x), down' = Tail(down), queue' = queue,
             AllSpent(seq, Tail(down))
      PROVE  CallHandled'
  <2>1. Single(seq, up', x)
    BY <1>2, FlowTyped, SingleAppend DEF CallSent, Line
  <2> QED
    BY <1>2, <1>a, <2>1 DEF CallHandled, CallSent
<1>3. CASE HandleCacheGet
  <2>1. Head(down) = Due /\ AllSpent(seq, Tail(down)) /\ Head(down).q = host.q
    BY <1>1, <1>3 DEF HandleCacheGet
  <2> DEFINE x == IF kcache[host.q] = NoReply THEN Resp("MISS", NoReply) ELSE Resp("HIT", kcache[host.q])
  <2>2. x \in Reply
    BY <1>0, WireIsTyped DEF BridgeTypes
  <2>3. Right(host.call, host.q, x)
    BY <1>0 DEF ExactInv, Right, Resp
  <2>4. up' = Append(up, x) /\ down' = Tail(down) /\ queue' = queue /\ slot' = slot
    BY <1>3, <2>1 DEF HandleCacheGet
  <2> HIDE DEF x
  <2> QED
    BY <1>2, <2>1, <2>2, <2>3, <2>4
<1>4. ASSUME NEW ok \in BOOLEAN, HandleCacheSet(ok) PROVE slot' = slot /\ CallHandled'
  <2>1. Head(down) = Due /\ AllSpent(seq, Tail(down))
    BY <1>1, <1>4 DEF HandleCacheSet
  <2> DEFINE x == Resp(IF ok THEN "OK" ELSE "ERR", NoReply)
  <2>2. x \in Reply
    BY <1>0, WireIsTyped
  <2>3. Right(host.call, host.q, x)
    BY DEF Right, Resp
  <2>4. up' = Append(up, x) /\ down' = Tail(down) /\ queue' = queue /\ slot' = slot
    BY <1>4 DEF HandleCacheSet
  <2> HIDE DEF x
  <2> QED
    BY <1>2, <2>1, <2>2, <2>3, <2>4
<1>5. CASE ForwardCommand
  <2>1. queue' = Append(queue, Head(down)) /\ down' = Tail(down) /\ down # <<>>
        /\ up' = up /\ slot' = slot /\ Head(down) # Due
    BY <1>0, <1>5, RoomInQueue DEF ForwardCommand
  <2>2. Single(seq, down', Due) /\ Spent(seq, Head(down)) /\ Head(down) \in Line
    BY <2>1, FlowTyped, SingleTail, HeadTailProperties DEF CallSent
  <2>3. AllSpent(seq, queue')
    BY <2>1, <2>2, FlowTyped, SpentAppend DEF CallSent
  <2> QED
    BY <1>a, <1>b, <2>1, <2>2, <2>3 DEF CallSent
<1>6. CASE Execute
  <2>1. up' = Append(up, Head(queue)) /\ queue' = Tail(queue) /\ queue # <<>>
        /\ down' = down /\ slot' = slot
    BY <1>6 DEF Execute
  <2>2. AllSpent(seq, queue') /\ Spent(seq, Head(queue)) /\ Head(queue) \in Line
    BY <2>1, FlowTyped, SpentTail, HeadTailProperties DEF CallSent
  <2>3. AllSpent(seq, up')
    BY <2>1, <2>2, FlowTyped, SpentAppend DEF CallSent
  <2> QED
    BY <1>a, <1>b, <2>1, <2>2, <2>3 DEF CallSent
<1>7. CASE Reader
  <2>1. up' = Tail(up) /\ up # <<>> /\ down' = down /\ queue' = queue
    BY <1>7 DEF Reader
  <2>2. AllSpent(seq, up') /\ Head(up).kind = "MARKER"
    BY <2>1, FlowTyped, SpentTail DEF Spent, CallSent
  <2>3. Head(up).id # -1
    BY <2>1, <2>2, UpHead DEF Reply
  <2> QED
    BY <1>7, <1>a, <1>b, <2>1, <2>2, <2>3 DEF CallSent, Reader
<1> QED
  BY <1>3, <1>4, <1>5, <1>6, <1>7

(* The reply on its way up, and in the slot.                               *)
LEMMA ReplyMoves ==
  ASSUME BridgeCore, stale' = FALSE, host.pc = "wait", ~slot.event, CallHandled,
         HandleCacheGet \/ (\E ok \in BOOLEAN : HandleCacheSet(ok)) \/ ForwardCommand \/ Execute \/ Reader
  PROVE  \/ slot' = slot /\ CallHandled'
         \/ slot'.event /\ Nowhere' /\ Right(host.call, host.q, slot'.line)
<1> USE DEF BridgeCore
<1>a. host' = host /\ seq' = seq
  BY DEF HandleCacheGet, HandleCacheSet, ForwardCommand, Execute, Reader
<1>0. down # <<>> => Head(down).kind = "MARKER"
  BY FlowTyped, SpentTail DEF Spent, CallHandled
<1>b. PICK x \in Reply : Right(host.call, host.q, x) /\ Single(seq, up, x)
  BY DEF CallHandled
<1>c. x \in Line /\ x.id = -1
  BY DEF Line, Reply
<1>1. CASE HandleCacheGet
  BY <1>0, <1>1 DEF HandleCacheGet
<1>2. CASE \E ok \in BOOLEAN : HandleCacheSet(ok)
  BY <1>0, <1>2 DEF HandleCacheSet
<1>3. CASE ForwardCommand
  <2>1. queue' = Append(queue, Head(down)) /\ down' = Tail(down) /\ down # <<>>
        /\ up' = up /\ slot' = slot
    BY <1>3, RoomInQueue DEF ForwardCommand
  <2>2. AllSpent(seq, down') /\ Spent(seq, Head(down)) /\ Head(down) \in Line
    BY <2>1, FlowTyped, SpentTail, HeadTailProperties DEF CallHandled
  <2>3. AllSpent(seq, queue')
    BY <2>1, <2>2, FlowTyped, SpentAppend DEF CallHandled
  <2> QED
    BY <1>a, <1>b, <2>1, <2>2, <2>3 DEF CallHandled
<1>4. CASE Execute
  <2>1. up' = Append(up, Head(queue)) /\ queue' = Tail(queue) /\ queue # <<>>
        /\ down' = down /\ slot' = slot
    BY <1>4 DEF Execute
  <2>2. AllSpent(seq, queue') /\ Spent(seq, Head(queue)) /\ Head(queue) \in Line
    BY <2>1, FlowTyped, SpentTail, HeadTailProperties DEF CallHandled
  <2>3. Single(seq, up', x)
    BY <1>b, <1>c, <2>1, <2>2, FlowTyped, SingleAppend
  <2> QED
    BY <1>a, <1>b, <2>1, <2>2, <2>3 DEF CallHandled
<1>5. CASE Reader
  <2>1. up' = Tail(up) /\ up # <<>> /\ down' = down /\ queue' = queue
    BY <1>5 DEF Reader
  <2>2. CASE Head(up) = x
    <3>1. Head(up).kind # "MARKER" /\ slot' = [line |-> x, event |-> TRUE]
      BY <1>5, <1>c, <2>2 DEF Reader, Reply
    <3>2. AllSpent(seq, up')
      BY <1>b, <2>1, <3>1, FlowTyped, SingleTail
    <3>3. Nowhere'
      BY <1>a, <2>1, <3>2 DEF Nowhere, CallHandled
    <3> QED
      BY <1>b, <3>1, <3>3
  <2>3. CASE Head(up) # x
    <3>1. Single(seq, up', x) /\ Head(up).kind = "MARKER"
      BY <1>b, <2>1, <2>3, FlowTyped, SingleTail DEF Spent
    <3>2. Head(up).id # -1
      BY <2>1, <3>1, UpHead DEF Reply
    <3> QED
      BY <1>5, <1>a, <1>b, <2>1, <3>1, <3>2 DEF CallHandled, Reader
  <2> QED
    BY <2>2, <2>3
<1> QED
  BY <1>1, <1>2, <1>3, <1>4, <1>5

(* What the host relies on survives every step of xv6 and the reader ...   *)
LEMMA HistKernel ==
  ASSUME BridgeCore, BridgeHist,
         HandleCacheGet \/ (\E ok \in BOOLEAN : HandleCacheSet(ok)) \/ ForwardCommand \/ Execute \/ Reader
  PROVE  BridgeHist'
<1>a. host' = host /\ seq' = seq /\ wrong' = wrong /\ mixed' = mixed /\ (stale => stale')
  <2>1. CASE ForwardCommand
    BY <2>1 DEF ForwardCommand
  <2>2. CASE ~ForwardCommand
    BY <2>2 DEF HandleCacheGet, HandleCacheSet, Execute, Reader
  <2> QED
    BY <2>1, <2>2
<1>b. AnswersMatchUnlessLate' /\ ObservationIsOwn'
  BY <1>a DEF BridgeHist, AnswersMatchUnlessLate, ObservationIsOwn
<1>1. CASE stale'
  BY <1>1, <1>b DEF BridgeHist, OneCallInv, QuietInv, ToolInv
<1>2. CASE ~stale'
  <2>0. stale' = FALSE /\ ~stale
    BY <1>2, <1>a DEF HandleCacheGet, HandleCacheSet, ForwardCommand, Execute, Reader
  <2>1. CASE host.pc = "wait"
    <3>1. ToolInv' /\ QuietInv'
      BY <2>1, <1>a DEF ToolInv, QuietInv, InTool
    <3>2. OneCallInv'
      <4>1. CASE slot.event
        <5>1. Nowhere /\ Right(host.call, host.q, slot.line)
          BY <2>0, <2>1, <4>1 DEF BridgeHist, OneCallInv
        <5>2. Nowhere' /\ slot' = slot
          BY <2>0, <5>1, LeftoversMove DEF Nowhere
        <5> QED
          BY <1>a, <4>1, <5>1, <5>2 DEF OneCallInv
      <4>2. CASE ~slot.event
        <5>1. CallSent \/ CallHandled
          BY <2>0, <2>1, <4>2 DEF BridgeHist, OneCallInv
        <5>2. CASE CallSent
          <6>1. slot' = slot /\ (CallSent' \/ CallHandled')
            BY <2>0, <2>1, <4>2, <5>2, CallMoves
          <6> QED
            BY <4>2, <6>1 DEF OneCallInv
        <5>3. CASE CallHandled
          <6>1. \/ slot' = slot /\ CallHandled'
                \/ slot'.event /\ Nowhere' /\ Right(host.call, host.q, slot'.line)
            BY <2>0, <2>1, <4>2, <5>3, ReplyMoves
          <6> QED
            BY <1>a, <4>2, <6>1 DEF OneCallInv
        <5> QED
          BY <5>1, <5>2, <5>3
      <4> QED
        BY <4>1, <4>2
    <3> QED
      BY <1>b, <3>1, <3>2 DEF BridgeHist
  <2>2. CASE host.pc \in {"idle", "rpc", "send", "model"}
    <3>1. Nowhere /\ (host.pc = "send" => ~slot.event)
      BY <2>0, <2>2 DEF BridgeHist, QuietInv
    <3>2. Nowhere' /\ slot' = slot
      BY <2>0, <3>1, LeftoversMove DEF Nowhere
    <3> QED
      BY <1>a, <1>b, <2>2, <3>1, <3>2 DEF BridgeHist, OneCallInv, ToolInv, QuietInv, InTool
  <2>3. CASE InTool
    <3>1. Ours(seq, Flow)
      BY <2>0, <2>3 DEF BridgeHist, ToolInv
    <3>2. ForwardCommand \/ Execute \/ Reader
      BY <3>1, ToolDown DEF HandleCacheGet, HandleCacheSet, BridgeCore
    <3>3. Flow' = Flow
      BY <2>0, <2>3, <3>2, FlowMoves
    <3> QED
      BY <1>a, <1>b, <2>3, <3>1, <3>3 DEF BridgeHist, OneCallInv, ToolInv, QuietInv, InTool
  <2> QED
    BY <2>1, <2>2, <2>3 DEF InTool, BridgeCore, BridgeTypes
<1> QED
  BY <1>1, <1>2

-----------------------------------------------------------------------------
(* The parts of a queue of leftovers.                                      *)
LEMMA SpentParts ==
  ASSUME NEW n, NEW S, NEW s \in Seq(S), NEW u \in Seq(S), AllSpent(n, s \o u)
  PROVE  AllSpent(n, s) /\ AllSpent(n, u)
<1>1. Len(s) \in Nat /\ Len(u) \in Nat /\ Len(s \o u) = Len(s) + Len(u)
      /\ \A i \in 1 .. Len(s) + Len(u) : (s \o u)[i] = IF i <= Len(s) THEN s[i] ELSE u[i - Len(s)]
  BY ConcatProperties, LenProperties
<1>2. ASSUME NEW i \in 1 .. Len(s) PROVE Spent(n, s[i])
  <2>1. i \in 1 .. Len(s \o u) /\ (s \o u)[i] = s[i]
    BY <1>1
  <2> QED BY <2>1 DEF AllSpent
<1>3. ASSUME NEW i \in 1 .. Len(u) PROVE Spent(n, u[i])
  <2>1. Len(s) + i \in 1 .. Len(s \o u) /\ (s \o u)[Len(s) + i] = u[i]
    BY <1>1
  <2> QED BY <2>1 DEF AllSpent
<1> QED BY <1>2, <1>3 DEF AllSpent

(* A question asked, or a step of the model, moves nothing on the wire.    *)
LEMMA QuietSteps ==
  ASSUME BridgeCore, BridgeHist, ~stale,
         host.pc \in {"idle", "rpc", "model"}, host'.pc \in {"idle", "rpc", "send", "model"},
         UNCHANGED <<down, up, queue, seq, wrong, stale, mixed>>,
         host'.pc = "send" => ~slot'.event
  PROVE  BridgeHist'
<1>1. Nowhere
  BY DEF BridgeHist, QuietInv
<1>2. Nowhere'
  BY <1>1 DEF Nowhere
<1> QED
  BY <1>2 DEF BridgeHist, OneCallInv, QuietInv, ToolInv, InTool, AnswersMatchUnlessLate, ObservationIsOwn

(* The call goes out when nothing else is under way.                       *)
LEMMA SendStep ==
  ASSUME BridgeCore, BridgeHist, ~stale, RpcSend
  PROVE  BridgeHist'
<1>1. Nowhere /\ ~slot.event
  BY DEF BridgeHist, QuietInv, RpcSend, At
<1>2. /\ down' = Append(down, Due) /\ host' = [host EXCEPT !.pc = "wait"] /\ host.pc = "send"
      /\ UNCHANGED <<up, queue, slot, seq, stale, wrong, mixed>>
  BY DEF RpcSend, Goto, Due, At
<1>3. host'.call = host.call /\ host'.q = host.q /\ host'.pc = "wait"
  BY <1>2 DEF BridgeCore, BridgeTypes
<1>4. Due' = Due
  BY <1>3 DEF Due
<1>5. Due \in Line /\ down \in Seq(Line)
  BY <1>2, FlowTyped, WireIsTyped DEF Due, Line, BridgeCore, HostInv
<1>6. Single(seq, down', Due)
  BY <1>1, <1>2, <1>5, SingleAppend DEF Nowhere
<1>7. CallSent' /\ ~slot'.event
  BY <1>1, <1>2, <1>4, <1>6 DEF CallSent, Nowhere
<1> QED
  BY <1>2, <1>3, <1>7
     DEF BridgeHist, OneCallInv, QuietInv, ToolInv, InTool, AnswersMatchUnlessLate, ObservationIsOwn

(* The reply in the slot is to the call the host waits in.                 *)
LEMMA ReplyStep ==
  ASSUME BridgeCore, BridgeHist, ~stale, RpcReply
  PROVE  BridgeHist'
<1>1. Nowhere /\ Right(host.call, host.q, slot.line)
  BY DEF BridgeHist, OneCallInv, RpcReply, At
<1>2. host.call \in {"GET", "SET"}
  BY DEF RpcReply, At, BridgeCore, HostInv
<1>3. UNCHANGED <<down, up, queue, seq, stale, mixed>> /\ AfterRpc(slot.line)
  BY DEF RpcReply
<1>4. host' = Idle \/ host' = [host EXCEPT !.pc = "model"]
  BY <1>3 DEF AfterRpc, Goto
<1>5. host'.pc \in {"idle", "model"}
  BY <1>4 DEF Idle, BridgeCore, BridgeTypes
<1>6. ~wrong /\ ~mixed
  BY DEF BridgeHist, AnswersMatchUnlessLate, ObservationIsOwn
<1>7. ~wrong'
  BY <1>1, <1>2, <1>3, <1>6 DEF AfterRpc, Right
<1>8. Nowhere'
  BY <1>1, <1>3 DEF Nowhere
<1> QED
  BY <1>3, <1>5, <1>6, <1>7, <1>8
     DEF BridgeHist, OneCallInv, QuietInv, ToolInv, InTool, AnswersMatchUnlessLate, ObservationIsOwn

(* A call that begins with nothing but leftovers under way is not stale.   *)
LEMMA LingersNot == ASSUME ~Lingers PROVE Nowhere
BY DEF Lingers, Leftover, Nowhere, AllSpent, Spent

(* However stale the call before was, the slot is cleared for this one.    *)
LEMMA ClearStep ==
  ASSUME BridgeCore, BridgeHist, ~stale', RpcClear
  PROVE  BridgeHist'
<1>1. Nowhere
  BY LingersNot DEF RpcClear
<1>2. host'.pc = "send" /\ ~slot'.event
  BY DEF RpcClear, Goto, Cleared, BridgeCore, BridgeTypes
<1>3. UNCHANGED <<down, up, queue, seq, wrong, mixed>>
  BY DEF RpcClear
<1>4. Nowhere'
  BY <1>1, <1>3 DEF Nowhere
<1> QED
  BY <1>2, <1>3, <1>4
     DEF BridgeHist, OneCallInv, QuietInv, ToolInv, InTool, AnswersMatchUnlessLate, ObservationIsOwn

(* A command and its marker go out after leftovers only.                   *)
LEMMA RunStep ==
  ASSUME BridgeCore, BridgeHist, NEW impure \in BOOLEAN, RunTool(impure), ~stale'
  PROVE  BridgeHist'
<1> DEFINE two == <<Tool(seq), Marker(seq)>>
           s == up \o (queue \o down)
<1>1. Nowhere /\ seq \in Nat
  BY LingersNot DEF RunTool, BridgeCore, BridgeTypes
<1>2. /\ down' = down \o two /\ capture'.buf = <<>> /\ seq' = seq + 1
      /\ host' = [host EXCEPT !.pc = "marker", !.n = @ + 1, !.impure = @ \/ impure]
      /\ UNCHANGED <<up, queue, slot, wrong, mixed>>
  BY DEF RunTool
<1>3. host'.pc = "marker"
  BY <1>2 DEF BridgeCore, BridgeTypes
<1>4. down \in Seq(Line) /\ queue \in Seq(Line) /\ up \in Seq(Line)
      /\ queue \o down \in Seq(Line) /\ s \in Seq(Line)
  BY FlowTyped DEF BridgeCore
<1>5. Tool(seq) \in Line /\ Marker(seq) \in Line
  BY <1>1 DEF Line, Command, Tool, Marker
<1>6. two \in Seq(Line)
  BY <1>5
<1>7. AllSpent(seq, queue \o down)
  BY <1>1, <1>4, SpentConcat DEF Nowhere
<1>8. AllSpent(seq, s)
  <2> DEFINE qd == queue \o down
  <2> HIDE DEF qd
  <2>1. qd \in Seq(Line) /\ AllSpent(seq, qd) /\ AllSpent(seq, up)
    BY <1>1, <1>4, <1>7 DEF qd, Nowhere
  <2>2. AllSpent(seq, up \o qd)
    BY <1>4, <2>1, SpentConcat
  <2> QED BY <2>2 DEF qd
<1>9. Ours(seq + 1, s \o two)
  <2> HIDE DEF s
  <2> QED BY <1>1, <1>4, <1>8, OursStart
<1>10. Flow' = s \o two
  <2> HIDE DEF two
  <2>1. Flow' = <<>> \o (up \o (queue \o (down \o two)))
    BY <1>2 DEF Flow
  <2>2. up \o (queue \o (down \o two)) \in Seq(Line)
    BY <1>4, <1>6, ConcatProperties
  <2>3. <<>> \o (up \o (queue \o (down \o two))) = up \o (queue \o (down \o two))
    BY <2>2, ConcatEmptySeq
  <2>4. queue \o (down \o two) = (queue \o down) \o two
    BY <1>4, <1>6, ConcatAssociative
  <2>5. up \o ((queue \o down) \o two) = s \o two
    <3> DEFINE qd == queue \o down
    <3>1. qd \in Seq(Line) /\ up \in Seq(Line) /\ two \in Seq(Line)
      BY <1>4, <1>6
    <3> HIDE DEF qd
    <3>2. up \o (qd \o two) = (up \o qd) \o two
      BY <3>1, ConcatAssociative
    <3> QED BY <3>2 DEF qd
  <2> QED BY <2>1, <2>3, <2>4, <2>5
<1>11. Ours(seq', Flow')
  BY <1>2, <1>9, <1>10
<1> QED
  BY <1>2, <1>3, <1>11
     DEF BridgeHist, OneCallInv, QuietInv, ToolInv, InTool, AnswersMatchUnlessLate, ObservationIsOwn

(* The marker a second time, after everything else.                        *)
LEMMA RetryStep ==
  ASSUME BridgeCore, BridgeHist, ~stale, MarkerRetry
  PROVE  BridgeHist'
<1> DEFINE m == Marker(seq - 1)
<1>1. Ours(seq, Flow) /\ seq \in Nat \ {0}
  BY DEF BridgeHist, ToolInv, InTool, MarkerRetry, At, BridgeCore, BridgeTypes, HostInv
<1>2. /\ down' = Append(down, m) /\ host' = [host EXCEPT !.pc = "retried"]
      /\ UNCHANGED <<up, queue, capture, seq, slot, stale, wrong, mixed>>
  BY DEF MarkerRetry, MarkerOf, Goto
<1>3. host'.pc = "retried"
  BY <1>2 DEF BridgeCore, BridgeTypes
<1>4. m \in Line
  BY <1>1 DEF Line, Command, Marker
<1>5. Ours(seq, Append(Flow, m))
  BY <1>1, FlowTyped, OursAgain DEF BridgeCore
<1> HIDE DEF m
<1>6. \A a, b \in Seq(Line) : Append(a \o b, m) = a \o Append(b, m)
  <2> TAKE a, b \in Seq(Line)
  <2>1. a \o b \in Seq(Line) /\ Append(a \o b, m) = (a \o b) \o <<m>>
    BY <1>4, ConcatProperties, AppendIsConcat
  <2>2. Append(b, m) = b \o <<m>> /\ <<m>> \in Seq(Line)
    BY <1>4, AppendIsConcat
  <2>3. (a \o b) \o <<m>> = a \o (b \o <<m>>)
    BY <2>2, ConcatAssociative
  <2> QED BY <2>1, <2>2, <2>3
<1>7. Flow' = Append(Flow, m)
  <2> DEFINE b == capture.buf
             qd == queue \o down
             uqd == up \o qd
  <2>1. b \in Seq(Line) /\ qd \in Seq(Line) /\ uqd \in Seq(Line) /\ up \in Seq(Line)
        /\ queue \in Seq(Line) /\ down \in Seq(Line)
    BY FlowTyped DEF BridgeCore
  <2>2. Append(qd, m) = queue \o Append(down, m)
    BY <1>6, <2>1
  <2> HIDE DEF b, qd
  <2>3. Append(uqd, m) = up \o Append(qd, m)
    BY <1>6, <2>1
  <2> HIDE DEF uqd
  <2>4. Append(b \o uqd, m) = b \o Append(uqd, m)
    BY <1>6, <2>1
  <2>5. Flow = b \o uqd
    BY DEF Flow, b, qd, uqd
  <2>6. Flow' = b \o (up \o (queue \o Append(down, m)))
    BY <1>2 DEF Flow, b
  <2> QED BY <2>2, <2>3, <2>4, <2>5, <2>6
<1>8. Ours(seq', Flow')
  BY <1>2, <1>5, <1>7
<1> QED
  BY <1>2, <1>3, <1>8
     DEF BridgeHist, OneCallInv, QuietInv, ToolInv, InTool, AnswersMatchUnlessLate, ObservationIsOwn

(* What is captured before the first marker is the tool's output.          *)
LEMMA ObserveStep ==
  ASSUME BridgeCore, BridgeHist, ~stale, ToolObserved
  PROVE  BridgeHist'
<1> DEFINE s == capture.buf
           u == up \o (queue \o down)
           First(i) == s[i] = MarkerOf /\ \A j \in 1 .. i - 1 : s[j] # MarkerOf
           stop == CHOOSE i \in 1 .. Len(s) : First(i)
<1>1. Ours(seq, Flow) /\ seq \in Nat \ {0}
  BY DEF BridgeHist, ToolInv, InTool, ToolObserved, BridgeCore, BridgeTypes, HostInv
<1>2. s \in Seq(Line) /\ u \in Seq(Line) /\ up \in Seq(Line) /\ queue \in Seq(Line) /\ down \in Seq(Line)
      /\ queue \o down \in Seq(Line)
  BY FlowTyped DEF BridgeCore
<1>3. \E i \in 1 .. Len(s) : First(i)
  <2> DEFINE S == {i \in 1 .. Len(s) : s[i] = MarkerOf}
  <2>1. Len(s) \in Nat /\ DOMAIN s = 1 .. Len(s)
    BY <1>2, LenProperties
  <2>2. MarkerOf \in ToSet(s)
    BY DEF ToolObserved, Marked
  <2>3. \E i \in DOMAIN s : s[i] = MarkerOf
    BY <2>2 DEF ToSet
  <2>4. S \in SUBSET Nat /\ S # {}
    BY <2>1, <2>3
  <2>5. PICK i \in S : \A j \in S : i <= j
    <3> HIDE DEF S
    <3> QED BY <2>4, Smallest
  <2>6. \A j \in 1 .. i - 1 : j \in 1 .. Len(s) /\ ~(i <= j)
    BY <2>1
  <2> QED BY <2>5, <2>6
<1>4. stop \in 1 .. Len(s) /\ First(stop)
  BY <1>3
<1>5. mixed' = (mixed \/ (~stale /\ ~OwnOutput(stop))) /\ host' = [host EXCEPT !.pc = "model"]
      /\ UNCHANGED <<down, up, queue, seq, stale, wrong>>
  BY DEF ToolObserved, Goto
<1>6. s[stop] = Marker(seq - 1)
  BY <1>4 DEF MarkerOf
<1> HIDE DEF stop
<1>7. Ours(seq, s \o u)
  BY <1>1 DEF Flow
<1>8. OwnOutput(stop) /\ AllSpent(seq, u)
  <2> HIDE DEF s, u
  <2>1. /\ \E p \in 1 .. stop - 1 :
             s[p] = Tool(seq - 1) /\ \A i \in 1 .. stop - 1 : IsOutput(s[i]) => i = p
        /\ AllSpent(seq, u)
    BY <1>1, <1>2, <1>4, <1>6, <1>7, OursObserved
  <2> QED BY <2>1 DEF OwnOutput, s
<1>9. AllSpent(seq, up) /\ AllSpent(seq, queue) /\ AllSpent(seq, down)
  <2> DEFINE qd == queue \o down
  <2> HIDE DEF qd
  <2>1. qd \in Seq(Line) /\ AllSpent(seq, up \o qd)
    BY <1>2, <1>8 DEF qd
  <2>2. AllSpent(seq, up) /\ AllSpent(seq, qd)
    BY <1>2, <2>1, SpentParts
  <2> QED BY <1>2, <2>2, SpentParts DEF qd
<1>10. Nowhere' /\ host'.pc = "model" /\ ~mixed' /\ ~wrong'
  BY <1>5, <1>8, <1>9
     DEF Nowhere, BridgeCore, BridgeTypes, BridgeHist, AnswersMatchUnlessLate, ObservationIsOwn
<1> QED
  BY <1>10 DEF BridgeHist, OneCallInv, QuietInv, ToolInv, InTool, AnswersMatchUnlessLate, ObservationIsOwn

(* ... and every step of the host.                                         *)
LEMMA HistHost ==
  ASSUME BridgeCore, BridgeHist,
         HostStep \/ \E q \in Question, fits \in BOOLEAN : AskQuestion(q, fits)
  PROVE  BridgeHist'
<1>0. stale => ~wrong' /\ ~mixed'
  <2>1. ~wrong /\ ~mixed
    BY DEF BridgeHist, AnswersMatchUnlessLate, ObservationIsOwn
  <2>2. ASSUME NEW line, stale, AfterRpc(line) PROVE ~wrong'
    BY <2>1, <2>2 DEF AfterRpc
  <2>3. ASSUME stale PROVE ~wrong' /\ ~mixed'
    <3>1. CASE RpcReply \/ RpcTimeout
      <4>1. mixed' = mixed /\ \E line : AfterRpc(line)
        BY <3>1 DEF RpcReply, RpcTimeout
      <4> QED BY <2>1, <2>2, <2>3, <4>1
    <3>2. CASE ToolObserved
      BY <2>1, <2>3, <3>2 DEF ToolObserved
    <3>3. CASE ~RpcReply /\ ~RpcTimeout /\ ~ToolObserved
      <4>1. wrong' = wrong /\ mixed' = mixed
        BY <3>3 DEF HostStep, AskQuestion, RpcClear, RpcSend, ModelAnswers, ModelGivesUp,
                    ModelUnusable, RunTool, MarkerRetry, ToolTimeout
      <4> QED BY <2>1, <4>1
    <3> QED BY <3>1, <3>2, <3>3
  <2> QED BY <2>3
<1>1. ASSUME stale', ~wrong', ~mixed' PROVE BridgeHist'
  BY <1>1 DEF BridgeHist, OneCallInv, QuietInv, ToolInv, AnswersMatchUnlessLate, ObservationIsOwn
<1>2. CASE RpcTimeout
  <2>1. ~wrong /\ ~mixed
    BY DEF BridgeHist, AnswersMatchUnlessLate, ObservationIsOwn
  <2>2. AfterRpc(NoReply) /\ stale' /\ mixed' = mixed
    BY <1>2 DEF RpcTimeout
  <2>3. wrong' = wrong
    BY <2>2 DEF AfterRpc
  <2> QED BY <1>1, <2>1, <2>2, <2>3
<1>3. CASE ToolTimeout
  BY <1>1, <1>3 DEF ToolTimeout, BridgeHist, AnswersMatchUnlessLate, ObservationIsOwn
<1>5. ASSUME RpcClear \/ \E impure \in BOOLEAN : RunTool(impure) PROVE BridgeHist'
  <2>0. wrong' = wrong /\ mixed' = mixed
    BY <1>5 DEF RpcClear, RunTool
  <2>1. ~wrong' /\ ~mixed'
    BY <2>0 DEF BridgeHist, AnswersMatchUnlessLate, ObservationIsOwn
  <2>2. CASE stale'
    BY <1>1, <2>1, <2>2
  <2>3. CASE ~stale'
    BY <1>5, <2>3, ClearStep, RunStep
  <2> QED BY <2>2, <2>3
<1>4. CASE ~RpcTimeout /\ ~ToolTimeout /\ ~RpcClear /\ ~\E impure \in BOOLEAN : RunTool(impure)
  <2>1. stale' = stale
    BY <1>4 DEF HostStep, AskQuestion, RpcSend, RpcReply, ModelAnswers, ModelGivesUp,
                ModelUnusable, ToolObserved, MarkerRetry
  <2>2. CASE stale
    BY <1>0, <1>1, <2>1, <2>2
  <2>3. CASE ~stale
    <3>1. ASSUME NEW q \in Question, NEW fits \in BOOLEAN, AskQuestion(q, fits) PROVE BridgeHist'
      <4>1. host'.pc \in {"rpc", "model"}
        BY <3>1 DEF AskQuestion, Idle
      <4> QED BY <2>3, <3>1, <4>1, QuietSteps DEF AskQuestion, At
    <3>3. ASSUME NEW fits \in BOOLEAN, ModelAnswers(fits) PROVE BridgeHist'
      <4>1. host'.pc \in {"idle", "rpc"}
        BY <3>3 DEF ModelAnswers, Idle, BridgeCore, BridgeTypes
      <4> QED BY <2>3, <3>3, <4>1, QuietSteps DEF ModelAnswers, At
    <3>4. CASE ModelGivesUp
      <4>1. host'.pc = "idle"
        BY <3>4 DEF ModelGivesUp, Idle
      <4> QED BY <2>3, <3>4, <4>1, QuietSteps DEF ModelGivesUp, At
    <3>5. ASSUME NEW impure \in BOOLEAN, ModelUnusable(impure) PROVE BridgeHist'
      <4>1. host'.pc = "model"
        BY <3>5 DEF ModelUnusable, At, BridgeCore, BridgeTypes
      <4> QED BY <2>3, <3>5, <4>1, QuietSteps DEF ModelUnusable, At
    <3> QED
      BY <1>4, <2>3, <3>1, <3>3, <3>4, <3>5,
         SendStep, ReplyStep, RetryStep, ObserveStep DEF HostStep
  <2> QED BY <2>2, <2>3
<1> QED BY <1>2, <1>3, <1>4, <1>5

-----------------------------------------------------------------------------
(* The inductive invariant holds at the start ...                          *)
LEMMA BridgeStart == BridgeInit => BridgeCore /\ BridgeHist
<1> SUFFICES ASSUME BridgeInit PROVE BridgeHist
  BY CoreInit
<1>1. Nowhere
  BY EmptySeq DEF BridgeInit, Nowhere, AllSpent
<1> QED
  BY <1>1 DEF BridgeInit, BridgeHist, OneCallInv, QuietInv, ToolInv, InTool, Idle,
              AnswersMatchUnlessLate, ObservationIsOwn

(* ... and after every step.                                               *)
LEMMA BridgeStep == BridgeCore /\ BridgeHist /\ [BridgeNext]_bridgeVars => (BridgeCore /\ BridgeHist)'
<1> SUFFICES ASSUME BridgeCore, BridgeHist, [BridgeNext]_bridgeVars PROVE BridgeHist'
  BY CoreStep
<1>1. CASE UNCHANGED bridgeVars
  BY <1>1 DEF bridgeVars, BridgeHist, OneCallInv, QuietInv, ToolInv, InTool, Nowhere, CallSent, CallHandled,
              Due, Flow, AnswersMatchUnlessLate, ObservationIsOwn
<1> QED
  BY <1>1, HistKernel, HistHost DEF BridgeNext

(* However the reader thread, the kernel and agentd interleave with the    *)
(* host, and after any timeouts: for a call that began with nothing of an  *)
(* earlier one under way, the user is shown the answer to the question     *)
(* asked, and an observation is the output of its own tool, as long as     *)
(* agentq drops none of its commands.                                      *)
THEOREM BridgeCorrect == BridgeSpec => []BridgeInv
<1>1. BridgeCore /\ BridgeHist => BridgeInv
  <2> SUFFICES ASSUME BridgeCore, BridgeHist PROVE BridgeInv
    OBVIOUS
  <2>1. slot.event => slot.line # NoReply
    BY BridgeAssumption DEF BridgeCore, HostInv, Reply
  <2>2. BridgeTypeOK
    BY <2>1 DEF BridgeCore, BridgeTypes, BridgeTypeOK
  <2> QED BY <2>2 DEF BridgeInv, BridgeHist
<1>2. BridgeSpec => BridgeInit /\ [][BridgeNext]_bridgeVars
  BY PTL DEF BridgeSpec
<1> QED BY <1>1, <1>2, BridgeStart, BridgeStep, PTL
-----------------------------------------------------------------------------
(* An end of a pipe, or none.                                              *)
End == [page : Frame \cup {NoFrame}, writable : BOOLEAN]

PipeContents == [nread : 0 .. UINT - 1, nwrite : 0 .. UINT - 1,
             readopen : BOOLEAN, writeopen : BOOLEAN, data : [0 .. PIPESIZE - 1 -> Task]]

Locking == {"writing", "full", "empty"}
Reading == {"read", "empty", "asleep to read"}
Writing == {"write", "writing", "full", "asleep to write"}
Closing == {"close", "exit close"}
Place == Reading \cup Writing \cup Closing \cup {"user", "install", "exit", "dead"}

PipeTypes ==
  /\ ref \in [File -> Nat]
  /\ end \in [File -> End]
  /\ ofile \in [Task -> [Fd -> File \cup {NoFile}]]
  /\ live \in SUBSET Frame
  /\ pipe \in [Frame -> PipeContents]
  /\ at \in [Task -> Place]
  /\ on \in [Task -> Frame \cup {NoFrame}]
  /\ left \in [Task -> 0 .. MaxWrite]
  /\ shut \in [Task -> Seq(File)]
  /\ ff \in [Task -> End]
  /\ doomed \in SUBSET Task /\ missed \in SUBSET doomed /\ cut \in SUBSET live
  /\ flow \in [Frame -> Seq(Task)]

(* The k-th file t is to close is known to no one else: nobody has a       *)
(* descriptor of it, and nobody else is to close it.                       *)
Private(t, k) ==
  /\ \A u \in Task, d \in Fd : ofile[u][d] # shut[t][k]
  /\ \A u \in Task, j \in {1, 2} :
       j <= Len(shut[u]) /\ shut[u][j] = shut[t][k] => u = t /\ j = k

(* What a task has at each place.                                          *)
PlaceInv ==
  \A t \in Task :
    /\ Len(shut[t]) <= 2
    /\ at[t] \notin Closing => ff[t] = NoEnd
    /\ at[t] \notin Closing \cup {"install"} => shut[t] = << >>
    /\ at[t] = "install" => Len(shut[t]) = 2
    /\ at[t] = "dead" => \A d \in Fd : ofile[t][d] = NoFile
    /\ at[t] \in Reading \cup Writing <=> on[t] # NoFrame
    /\ at[t] = "writing" => left[t] < MaxWrite

(* A file about to be closed came out of a descriptor that is still free,  *)
(* or never was in one.                                                    *)
ShutInv ==
  \A t \in Task :
    \/ \A k \in {1, 2} : k <= Len(shut[t]) => Private(t, k)
    \/ Len(shut[t]) = 1 /\ \E d \in Fd : ofile[t][d] = NoFile

(* An end that is held is held by one entry of the table or one close.     *)
EndInv ==
  /\ \A f \in File : /\ ref[f] = 0 => end[f] = NoEnd
                     /\ ref[f] > 0 => end[f].page # NoFrame
  /\ \A t \in Task : ff[t].page = NoFrame => ff[t] = NoEnd
  /\ \A e, f \in File : end[e] = end[f] /\ end[e] # NoEnd => e = f
  /\ \A t, u \in Task : ff[t] = ff[u] /\ ff[t] # NoEnd => t = u
  /\ \A t \in Task, f \in File : ff[t] = end[f] => ff[t] = NoEnd

(* Whoever is inside piperead or pipewrite has a descriptor of that end.   *)
UseInv ==
  \A t \in Task : on[t] # NoFrame =>
    \E d \in Fd : /\ ofile[t][d] # NoFile /\ ref[ofile[t][d]] > 0
                  /\ end[ofile[t][d]] = [page |-> on[t], writable |-> at[t] \in Writing]

(* pi->lock has one holder, and one that is about to sleep has reason to.  *)
PipeLockInv ==
  /\ \A t, u \in Task : at[t] \in Locking /\ at[u] \in Locking /\ on[t] = on[u] => t = u
  /\ \A t \in Task :
       /\ at[t] = "full" => Full(pipe[on[t]]) /\ pipe[on[t]].readopen
       /\ at[t] = "empty" => Empty(pipe[on[t]]) /\ pipe[on[t]].writeopen
       /\ at[t] \in {"full", "empty"} /\ t \in doomed => t \in missed
  /\ \A t, u \in Task : at[t] = "full" /\ at[u] = "asleep to read" => on[t] # on[u]

(* The ring, by the number of bytes it holds.                              *)
RingInv ==
  /\ \A g \in live :
       /\ Len(flow[g]) <= PIPESIZE
       /\ pipe[g].nwrite = Plus(pipe[g].nread, Len(flow[g]))
       /\ \A k \in 1 .. Len(flow[g]) :
            flow[g][k] = pipe[g].data[(pipe[g].nread + k - 1) % PIPESIZE]
  /\ \A g \in Frame \ live : flow[g] = << >>

PipeIInv ==
  /\ PipeTypes /\ PlaceInv /\ RefCountsDescriptors /\ ShutInv /\ EndInv
  /\ PageLivesWithItsEnds /\ UseInv /\ PipeLockInv /\ RingInv /\ SleepIsJustified

-----------------------------------------------------------------------------
(* Adding a new element adds one.                                          *)
LEMMA CountAdd ==
  ASSUME NEW S, IsFiniteSet(S), NEW x, x \notin S, NEW U, U = S \cup {x}
  PROVE  IsFiniteSet(U) /\ Cardinality(U) = Cardinality(S) + 1
BY FS_AddElement

(* Removing an element takes one away.                                     *)
LEMMA CountRemove ==
  ASSUME NEW S, IsFiniteSet(S), NEW x \in S, NEW U, U = S \ {x}
  PROVE  IsFiniteSet(U) /\ Cardinality(U) = Cardinality(S) - 1
BY FS_RemoveElement

(* What a division leaves.                                                 *)
LEMMA Remainder ==
  ASSUME NEW N \in Nat \ {0}, NEW i \in Nat
  PROVE  i % N \in 0 .. N - 1 /\ i \div N \in Int /\ i = N * (i \div N) + (i % N)
<1>1. i % N \in 0 .. N - 1
  BY Z3
<1>2. i \div N \in Int /\ i = N * (i \div N) + (i % N)
  BY Z3
<1> QED BY <1>1, <1>2

(* A fresh pipe is one.                                                    *)
LEMMA FreshTypes == Fresh \in PipeContents
BY PipeAssumption DEF Fresh, PipeContents

(* A process has finitely many descriptors.                                *)
LEMMA FdsFinite == IsFiniteSet(Fd)
<1>1. 0 \in Int /\ NOFILE - 1 \in Int
  BY PipeAssumption
<1> QED BY <1>1, FS_Interval DEF Fd

(* Both sets of holders of a file are finite.                              *)
LEMMA HoldersFinite ==
  ASSUME NEW f
  PROVE  /\ IsFiniteSet(Descriptors(f)) /\ Cardinality(Descriptors(f)) \in Nat
         /\ IsFiniteSet(Closes(f)) /\ Cardinality(Closes(f)) \in Nat
         /\ Descriptors(f) = {} <=> Cardinality(Descriptors(f)) = 0
         /\ Closes(f) = {} <=> Cardinality(Closes(f)) = 0
<1>1. IsFiniteSet(Fd)
  <2>1. 0 \in Int /\ NOFILE - 1 \in Int
    BY PipeAssumption
  <2> QED BY <2>1, FS_Interval DEF Fd
<1>2. IsFiniteSet({1, 2})
  <2>1. IsFiniteSet({1})
    BY FS_Singleton
  <2>2. {1, 2} = {1} \cup {2}
    OBVIOUS
  <2> QED BY <2>1, <2>2, FS_AddElement
<1>3. IsFiniteSet(Task \X Fd) /\ IsFiniteSet(Task \X {1, 2})
  BY <1>1, <1>2, PipeAssumption, FS_Product
<1>4. Descriptors(f) \subseteq Task \X Fd /\ Closes(f) \subseteq Task \X {1, 2}
  BY DEF Descriptors, Closes
<1>5. IsFiniteSet(Descriptors(f)) /\ IsFiniteSet(Closes(f))
  BY <1>3, <1>4, FS_Subset
<1> QED BY <1>5, FS_CardinalityType, FS_EmptySet

(* A descriptor and a close of a file each count in its f->ref.            *)
LEMMA HeldHasRef ==
  ASSUME PipeTypes, RefCountsDescriptors, NEW f \in File
  PROVE  /\ \A t \in Task, d \in Fd : ofile[t][d] = f => ref[f] > 0
         /\ \A u \in Task, k \in {1, 2} : k <= Len(shut[u]) /\ shut[u][k] = f => ref[f] > 0
         /\ \A t \in Task, d \in Fd, u \in Task, k \in {1, 2} :
              ofile[t][d] = f /\ k <= Len(shut[u]) /\ shut[u][k] = f => ref[f] > 1
<1>1. \A t \in Task, d \in Fd : ofile[t][d] = f => Descriptors(f) # {}
  <2> SUFFICES ASSUME NEW t \in Task, NEW d \in Fd, ofile[t][d] = f
               PROVE  <<t, d>> \in Descriptors(f)
    OBVIOUS
  <2> QED BY DEF Descriptors
<1>2. \A u \in Task, k \in {1, 2} : k <= Len(shut[u]) /\ shut[u][k] = f => Closes(f) # {}
  <2> SUFFICES ASSUME NEW u \in Task, NEW k \in {1, 2}, k <= Len(shut[u]), shut[u][k] = f
               PROVE  <<u, k>> \in Closes(f)
    OBVIOUS
  <2> QED BY DEF Closes
<1>3. ref[f] = Cardinality(Descriptors(f)) + Cardinality(Closes(f))
  BY DEF RefCountsDescriptors
<1> QED BY <1>1, <1>2, <1>3, HoldersFinite

(* A file with no reference has no holder.                                 *)
LEMMA FreeHasNoHolder ==
  ASSUME PipeTypes, RefCountsDescriptors, NEW f \in File, ref[f] = 0
  PROVE  /\ \A t \in Task, d \in Fd : ofile[t][d] # f
         /\ \A u \in Task, k \in {1, 2} : k <= Len(shut[u]) => shut[u][k] # f
BY HeldHasRef

(* The free entries pipealloc takes.                                       *)
LEMMA TwoFree ==
  ASSUME PipeTypes, Cardinality(FilesFree) >= 2
  PROVE  /\ Min(FilesFree) \in FilesFree
         /\ Min(FilesFree \ {Min(FilesFree)}) \in FilesFree \ {Min(FilesFree)}
<1>1. IsFiniteSet(FilesFree) /\ FilesFree \subseteq Nat
  <2>1. IsFiniteSet(File)
    BY PipeAssumption, FS_Interval DEF File
  <2>2. FilesFree \subseteq File /\ File \subseteq Nat
    BY PipeAssumption DEF FilesFree, File
  <2> QED BY <2>1, <2>2, FS_Subset
<1>2. FilesFree # {}
  BY <1>1, FS_EmptySet
<1>3. Min(FilesFree) \in FilesFree
  BY <1>1, <1>2, HasMin
<1>4. FilesFree \ {Min(FilesFree)} # {}
  <2>1. SUFFICES ASSUME FilesFree \ {Min(FilesFree)} = {} PROVE FALSE
    OBVIOUS
  <2>2. Cardinality(FilesFree \ {Min(FilesFree)}) = Cardinality(FilesFree) - 1
    BY <1>1, <1>3, FS_RemoveElement
  <2>3. Cardinality(FilesFree) \in Nat /\ Cardinality({}) = 0
    BY <1>1, FS_CardinalityType, FS_EmptySet
  <2> QED BY <2>1, <2>2, <2>3
<1>5. FilesFree \ {Min(FilesFree)} \in SUBSET Nat
  BY <1>1
<1>6. Min(FilesFree \ {Min(FilesFree)}) \in FilesFree \ {Min(FilesFree)}
  <2> DEFINE S == FilesFree \ {Min(FilesFree)}
  <2>1. S # {} /\ S \in SUBSET Nat
    BY <1>4, <1>5
  <2> HIDE DEF S
  <2>2. Min(S) \in S
    BY <2>1, HasMin
  <2> QED BY <2>2 DEF S
<1> QED BY <1>3, <1>6

(* The free descriptors fdalloc takes.                                     *)
LEMMA FreeFd ==
  ASSUME PipeTypes, NEW t \in Task, FdsFree(t) # {}
  PROVE  Min(FdsFree(t)) \in Fd /\ ofile[t][Min(FdsFree(t))] = NoFile
<1>1. FdsFree(t) \in SUBSET Nat
  BY PipeAssumption DEF FdsFree, Fd
<1>2. Min(FdsFree(t)) \in FdsFree(t)
  BY <1>1, HasMin
<1> QED BY <1>2 DEF FdsFree

(* The two free descriptors sys_pipe installs its files in.                *)
LEMMA TwoFds ==
  ASSUME PipeTypes, NEW t \in Task, Cardinality(FdsFree(t)) >= 2
  PROVE  LET d0 == Min(FdsFree(t))
             d1 == Min(FdsFree(t) \ {d0})
         IN  d0 \in Fd /\ d1 \in Fd /\ d0 # d1 /\ ofile[t][d0] = NoFile /\ ofile[t][d1] = NoFile
<1> DEFINE Q == FdsFree(t)
<1>1. IsFiniteSet(Q) /\ Q \in SUBSET Nat
  <2>1. IsFiniteSet(Fd)
    <3>1. 0 \in Int /\ NOFILE - 1 \in Int
      BY PipeAssumption
    <3> QED BY <3>1, FS_Interval DEF Fd
  <2>2. Q \subseteq Fd /\ Fd \subseteq Nat
    BY PipeAssumption DEF FdsFree, Fd
  <2> QED BY <2>1, <2>2, FS_Subset
<1>2. \A d \in Q : d \in Fd /\ ofile[t][d] = NoFile
  BY DEF FdsFree
<1>3. Cardinality(Q) >= 2
  OBVIOUS
<1> HIDE DEF Q
<1>4. Q # {}
  BY <1>1, <1>3, FS_EmptySet
<1>5. Min(Q) \in Q
  BY <1>1, <1>4, HasMin
<1> DEFINE S == Q \ {Min(Q)}
<1>6. S # {}
  <2>1. SUFFICES ASSUME S = {} PROVE FALSE
    OBVIOUS
  <2>2. Cardinality(S) = Cardinality(Q) - 1
    BY <1>1, <1>5, FS_RemoveElement
  <2>3. Cardinality(Q) \in Nat /\ Cardinality({}) = 0
    BY <1>1, FS_CardinalityType, FS_EmptySet
  <2> QED BY <1>3, <2>1, <2>2, <2>3
<1>7. S \in SUBSET Nat
  BY <1>1
<1>8. \A x \in S : x \in Q /\ x # Min(Q)
  OBVIOUS
<1> HIDE DEF S
<1>9. Min(S) \in S
  BY <1>6, <1>7, HasMin
<1>10. Min(S) \in Q /\ Min(S) # Min(Q)
  BY <1>8, <1>9
<1> QED BY <1>2, <1>5, <1>10 DEF Q, S

-----------------------------------------------------------------------------
(* The states at boot.                                                     *)
LEMMA PipeInit ==
  ASSUME fileinit
  PROVE  PipeIInv
<1> USE PipeAssumption DEF fileinit, NoEnd
<1>1. Fresh \in PipeContents
  BY DEF Fresh, PipeContents
<1>2. PipeTypes
  BY <1>1 DEF PipeTypes, End, Place, Reading, Writing, Closing
<1>3. PlaceInv
  BY DEF PlaceInv, Reading, Writing, Closing
<1>4. RefCountsDescriptors
  <2> SUFFICES ASSUME NEW f \in File
               PROVE  ref[f] = Cardinality(Descriptors(f)) + Cardinality(Closes(f))
    BY DEF RefCountsDescriptors
  <2>1. Descriptors(f) = {}
    <3>1. \A t \in Task, d \in Fd : ofile[t][d] # f
      BY DEF File
    <3> QED BY <3>1 DEF Descriptors
  <2>2. Closes(f) = {}
    BY DEF Closes
  <2> QED BY <2>1, <2>2, FS_EmptySet
<1>5. ShutInv
  BY DEF ShutInv
<1>6. EndInv
  BY DEF EndInv
<1>7. PageLivesWithItsEnds
  BY DEF PageLivesWithItsEnds, EndsHeld
<1>8. UseInv /\ RingInv
  BY DEF UseInv, RingInv
<1>9. PipeLockInv /\ SleepIsJustified
  BY DEF PipeLockInv, SleepIsJustified, Locking
<1> QED BY <1>2, <1>3, <1>4, <1>5, <1>6, <1>7, <1>8, <1>9 DEF PipeIInv


-----------------------------------------------------------------------------
(* The calls with their choices named: the same steps, told apart by what  *)
(* they do and without the CHOOSE in Min, Head and Tail.                   *)
Installs(t, i, j) ==
  /\ at[t] = "install" /\ shut[t][1] \in File /\ shut[t][2] \in File
  /\ Len(shut[t]) = 2 /\ ff[t] = NoEnd
  /\ i # j /\ ofile[t][i] = NoFile /\ ofile[t][j] = NoFile
  /\ ofile' = [ofile EXCEPT ![t] = [d \in Fd |-> IF d = i THEN shut[t][1]
                                                ELSE IF d = j THEN shut[t][2] ELSE ofile[t][d]]]
  /\ shut' = [shut EXCEPT ![t] = << >>]
  /\ at' = [at EXCEPT ![t] = "user"]
  /\ UNCHANGED <<ref, end, live, pipe, on, left, ff, doomed, flow, missed, cut>>

InstallFails(t) ==
  /\ at[t] = "install" /\ Len(shut[t]) = 2 /\ ff[t] = NoEnd
  /\ at' = [at EXCEPT ![t] = "close"]
  /\ UNCHANGED <<ref, end, ofile, live, pipe, on, left, shut, ff, doomed, flow, missed, cut>>

Shuts(t, i) ==
  /\ at[t] \in {"user", "exit"} /\ shut[t] = << >> /\ ff[t] = NoEnd
  /\ ofile[t][i] \in File
  /\ ofile' = [ofile EXCEPT ![t] = [@ EXCEPT ![i] = NoFile]]
  /\ shut' = [shut EXCEPT ![t] = <<ofile[t][i]>>]
  /\ at' = [at EXCEPT ![t] = "exit close"] \/ at' = [at EXCEPT ![t] = "close"]
  /\ UNCHANGED <<ref, end, live, pipe, on, left, ff, doomed, flow, missed, cut>>

Exits(t) ==
  /\ at[t] \in {"user", "exit"} /\ shut[t] = << >> /\ ff[t] = NoEnd
  /\ \A i \in Fd : ofile[t][i] = NoFile
  /\ at' = [at EXCEPT ![t] = "dead"]
  /\ doomed' = doomed \ {t} /\ missed' = missed \ {t}
  /\ UNCHANGED <<ref, end, ofile, live, pipe, on, left, shut, ff, flow, cut>>

Drops(t, f) ==
  /\ at[t] \in Closing /\ Len(shut[t]) \in {1, 2} /\ shut[t][1] = f
  /\ ff[t] = NoEnd /\ ref[f] > 0
  /\ ref' = [ref EXCEPT ![f] = @ - 1]
  /\ \/ ref[f] > 1 /\ ff' = ff /\ end' = end
     \/ ref[f] = 1 /\ ff' = [ff EXCEPT ![t] = end[f]] /\ end' = [end EXCEPT ![f] = NoEnd]
  /\ \/ Len(shut[t]) = 1 /\ shut' = [shut EXCEPT ![t] = << >>]
     \/ Len(shut[t]) = 2 /\ shut[t][2] \in File /\ shut' = [shut EXCEPT ![t] = <<shut[t][2]>>]
  /\ at' = Closed(t, at)
  /\ UNCHANGED <<ofile, live, pipe, on, left, doomed, flow, missed, cut>>

Allocs(t, g, rf, wf) ==
  /\ rf # wf /\ ref[rf] = 0 /\ ref[wf] = 0
  /\ at[t] = "user" /\ shut[t] = << >> /\ ff[t] = NoEnd
  /\ g \notin live
  /\ ref' = [ref EXCEPT ![rf] = 1, ![wf] = 1]
  /\ end' = [end EXCEPT ![rf] = [page |-> g, writable |-> FALSE],
                        ![wf] = [page |-> g, writable |-> TRUE]]
  /\ live' = live \cup {g}
  /\ pipe' = [pipe EXCEPT ![g] = Fresh]
  /\ shut' = [shut EXCEPT ![t] = <<rf, wf>>]
  /\ at' = [at EXCEPT ![t] = "install"]
  /\ UNCHANGED <<ofile, on, left, ff, doomed, flow, missed, cut>>

Dups(t, f, i) ==
  /\ at[t] = "user" /\ ofile[t][i] = NoFile
  /\ \E d \in Fd : ofile[t][d] = f
  /\ ofile' = [ofile EXCEPT ![t] = [@ EXCEPT ![i] = f]]
  /\ ref' = [ref EXCEPT ![f] = @ + 1]
  /\ UNCHANGED <<end, live, pipe, at, on, left, shut, ff, doomed, flow, missed, cut>>

CloseEnd(e, pi) == IF e.writable THEN [pi EXCEPT !.writeopen = FALSE]
                                 ELSE [pi EXCEPT !.readopen = FALSE]

EndCloses(t, g, pi) ==
  /\ at[t] \in Closing /\ ff[t].page = g /\ ff[t] # NoEnd /\ ff[t].writable \in BOOLEAN
  /\ Unlocked(g) /\ g \in live
  /\ pi = CloseEnd(ff[t], pipe[g])
  /\ pipe' = [pipe EXCEPT ![g] = IF BothClosed(pi) THEN Fresh ELSE pi]
  /\ live' = IF BothClosed(pi) THEN live \ {g} ELSE live
  /\ flow' = IF BothClosed(pi) THEN [flow EXCEPT ![g] = << >>] ELSE flow
  /\ cut' = IF BothClosed(pi) \/ ff[t].writable THEN cut \ {g} ELSE cut
  /\ ff' = [ff EXCEPT ![t] = NoEnd]
  /\ at' = Closed(t, IF ff[t].writable THEN WakeReaders(g, at) ELSE WakeWriters(g, at))
  /\ UNCHANGED <<ref, end, ofile, on, left, shut, doomed, missed>>

(* A call on the pipe in page g that t has entered.                        *)
Within(t, g) == g = on[t] /\ g \in live /\ g \in Frame /\ pipe[g] \in PipeContents

WriteFails(t, g) ==
  /\ WriteLock(t) /\ Within(t, g) /\ (~pipe[g].readopen \/ t \in doomed)
  /\ at' = [at EXCEPT ![t] = "user"]
  /\ on' = [on EXCEPT ![t] = NoFrame] /\ left' = [left EXCEPT ![t] = 0]
  /\ cut' = IF pipe[g].readopen /\ left[t] < MaxWrite THEN cut \cup {g} ELSE cut
  /\ UNCHANGED <<ref, end, ofile, live, pipe, shut, ff, doomed, flow, missed>>

WriteWaits(t, g) ==
  /\ WriteLock(t) /\ Within(t, g) /\ pipe[g].readopen /\ t \notin doomed /\ Full(pipe[g])
  /\ at' = WakeReaders(g, [at EXCEPT ![t] = "full"])
  /\ cut' = cut \ {g}
  /\ UNCHANGED <<ref, end, ofile, live, pipe, on, left, shut, ff, doomed, flow, missed>>

WritesByte(t, g) ==
  /\ WriteLock(t) /\ Within(t, g) /\ left[t] > 0 /\ ~Full(pipe[g])
  /\ pipe[g].nwrite % PIPESIZE \in 0 .. PIPESIZE - 1
  /\ pipe' = [pipe EXCEPT ![g] =
                [pipe[g] EXCEPT !.data = [pipe[g].data EXCEPT ![pipe[g].nwrite % PIPESIZE] = t],
                                !.nwrite = Plus(pipe[g].nwrite, 1)]]
  /\ flow' = [flow EXCEPT ![g] = Append(flow[g], t)]
  /\ left' = [left EXCEPT ![t] = @ - 1]
  /\ at' = [at EXCEPT ![t] = "writing"]
  /\ UNCHANGED <<ref, end, ofile, live, on, shut, ff, doomed, missed, cut>>

WriteDone(t, g) ==
  /\ WriteLock(t) /\ Within(t, g)
  /\ at' = WakeReaders(g, [at EXCEPT ![t] = "user"])
  /\ cut' = cut \ {g}
  /\ on' = [on EXCEPT ![t] = NoFrame] /\ left' = [left EXCEPT ![t] = 0]
  /\ UNCHANGED <<ref, end, ofile, live, pipe, shut, ff, doomed, flow, missed>>

ReadFails(t, g) ==
  /\ at[t] = "read" /\ Within(t, g) /\ Unlocked(g)
  /\ at' = [at EXCEPT ![t] = "user"]
  /\ on' = [on EXCEPT ![t] = NoFrame]
  /\ UNCHANGED <<ref, end, ofile, live, pipe, left, shut, ff, doomed, flow, missed, cut>>

ReadWaits(t, g) ==
  /\ at[t] = "read" /\ Within(t, g) /\ Unlocked(g)
  /\ Empty(pipe[g]) /\ pipe[g].writeopen /\ t \notin doomed
  /\ at' = [at EXCEPT ![t] = "empty"]
  /\ UNCHANGED <<ref, end, ofile, live, pipe, on, left, shut, ff, doomed, flow, missed, cut>>

ReadsBytes(t, g, n) ==
  /\ at[t] = "read" /\ Within(t, g) /\ Unlocked(g)
  /\ ~Empty(pipe[g]) \/ ~pipe[g].writeopen
  /\ n \in Nat /\ n <= Len(flow[g])
  /\ pipe' = [pipe EXCEPT ![g] = [@ EXCEPT !.nread = Plus(pipe[g].nread, n)]]
  /\ flow' = [flow EXCEPT ![g] = SubSeq(flow[g], n + 1, Len(flow[g]))]
  /\ at' = WakeWriters(g, [at EXCEPT ![t] = "user"])
  /\ on' = [on EXCEPT ![t] = NoFrame]
  /\ UNCHANGED <<ref, end, ofile, live, left, shut, ff, doomed, missed, cut>>

Enters(t, f) ==
  /\ at[t] = "user" /\ \E d \in Fd : ofile[t][d] = f
  /\ on' = [on EXCEPT ![t] = end[f].page]
  /\ \/ ~end[f].writable /\ at' = [at EXCEPT ![t] = "read"] /\ left' = left
     \/ /\ end[f].writable /\ at' = [at EXCEPT ![t] = "write"]
        /\ left' = [left EXCEPT ![t] = MaxWrite]
  /\ UNCHANGED <<ref, end, ofile, live, pipe, shut, ff, doomed, flow, missed, cut>>

(* The calls are these steps.                                              *)
LEMMA InstallEffect ==
  ASSUME PipeIInv, NEW t \in Task, InstallFds(t)
  PROVE  (\E i, j \in Fd : Installs(t, i, j)) \/ InstallFails(t)
<1>1. at[t] = "install" /\ Len(shut[t]) = 2 /\ ff[t] = NoEnd
  BY DEF PipeIInv, PlaceInv, InstallFds, Closing
<1>2. shut[t] \in Seq(File)
  BY DEF PipeIInv, PipeTypes
<1>3. shut[t][1] \in File /\ shut[t][2] \in File
  BY <1>1, <1>2
<1>4. UNCHANGED <<ref, end, live, pipe, on, left, ff, doomed, flow, missed, cut>>
  BY DEF InstallFds
<1>5. ofile \in [Task -> [Fd -> File \cup {NoFile}]] /\ shut \in [Task -> Seq(File)]
  BY DEF PipeIInv, PipeTypes
<1>6. CASE /\ Cardinality(FdsFree(t)) >= 2
           /\ ofile' = [ofile EXCEPT ![t][Min(FdsFree(t))] = shut[t][1],
                                     ![t][Min(FdsFree(t) \ {Min(FdsFree(t))})] = shut[t][2]]
           /\ shut' = [shut EXCEPT ![t] = << >>]
           /\ at' = [at EXCEPT ![t] = "user"]
  <2> DEFINE i == Min(FdsFree(t))
             j == Min(FdsFree(t) \ {i})
  <2>1. i \in Fd /\ j \in Fd /\ i # j /\ ofile[t][i] = NoFile /\ ofile[t][j] = NoFile
    BY <1>6, TwoFds DEF PipeIInv
  <2>2. ofile' = [ofile EXCEPT ![t][i] = shut[t][1], ![t][j] = shut[t][2]]
    BY <1>6
  <2> HIDE DEF i, j
  <2>3. ofile' = [ofile EXCEPT ![t] = [d \in Fd |-> IF d = i THEN shut[t][1]
                                                   ELSE IF d = j THEN shut[t][2] ELSE ofile[t][d]]]
    BY <1>5, <2>1, <2>2
  <2>4. Installs(t, i, j)
    BY <1>1, <1>3, <1>4, <1>6, <2>1, <2>3 DEF Installs
  <2> QED BY <2>1, <2>4
<1>7. CASE /\ shut' = [shut EXCEPT ![t] = BothEnds(@)]
           /\ at' = [at EXCEPT ![t] = "close"] /\ ofile' = ofile
  <2>1. shut' = shut
    BY <1>5, <1>7 DEF BothEnds
  <2> QED BY <1>1, <1>3, <1>4, <1>7, <2>1 DEF InstallFails
<1> QED BY <1>6, <1>7 DEF InstallFds, Goes

(* kexit takes one descriptor out of ofile, or has none left and ends.     *)
LEMMA ExitEffect ==
  ASSUME PipeIInv, NEW t \in Task, ExitTask(t)
  PROVE  (\E i \in Fd : Shuts(t, i)) \/ Exits(t)
<1>1. at[t] \in {"user", "exit"} /\ shut[t] = << >> /\ ff[t] = NoEnd
  BY DEF ExitTask, PipeIInv, PlaceInv, Closing
<1>2. UNCHANGED <<ref, end, live, pipe, on, left, ff, flow, cut>>
  BY DEF ExitTask
<1>3. ofile \in [Task -> [Fd -> File \cup {NoFile}]]
  BY DEF PipeIInv, PipeTypes
<1>4. CASE \E d \in Fd : ofile[t][d] # NoFile
  <2> DEFINE S == {e \in Fd : ofile[t][e] # NoFile}
             i == Min(S)
  <2>1. S \in SUBSET Nat /\ S # {}
    BY <1>4, PipeAssumption DEF Fd
  <2>2. i \in S
    <3> HIDE DEF S
    <3> QED BY <2>1, HasMin
  <2>3. i \in Fd /\ ofile[t][i] \in File
    BY <1>3, <2>2
  <2>4. /\ ofile' = [ofile EXCEPT ![t][i] = NoFile]
        /\ shut' = [shut EXCEPT ![t] = <<ofile[t][i]>>]
        /\ at' = [at EXCEPT ![t] = "exit close"]
        /\ UNCHANGED <<doomed, missed>>
    BY <1>4 DEF ExitTask, Goes
  <2> HIDE DEF S, i
  <2>5. ofile' = [ofile EXCEPT ![t] = [@ EXCEPT ![i] = NoFile]]
    BY <2>4
  <2>6. Shuts(t, i)
    BY <1>1, <1>2, <2>3, <2>4, <2>5 DEF Shuts
  <2> QED BY <2>3, <2>6
<1>5. CASE \A d \in Fd : ofile[t][d] = NoFile
  <2>1. /\ at' = [at EXCEPT ![t] = "dead"]
        /\ doomed' = doomed \ {t} /\ missed' = missed \ {t}
        /\ UNCHANGED <<ofile, shut>>
    BY <1>5 DEF ExitTask, Goes
  <2> QED BY <1>1, <1>2, <1>5, <2>1 DEF Exits
<1> QED BY <1>4, <1>5

(* sys_close takes its descriptor out of ofile.                            *)
LEMMA ShutEffect ==
  ASSUME PipeIInv, NEW t \in Task, NEW d \in Fd, sys_close(t, d)
  PROVE  Shuts(t, d)
<1>1. ofile[t][d] # NoFile /\ ofile \in [Task -> [Fd -> File \cup {NoFile}]]
  BY DEF sys_close, PipeIInv, PipeTypes
<1>2. at[t] = "user" /\ shut[t] = << >> /\ ff[t] = NoEnd
  BY DEF sys_close, PipeIInv, PlaceInv, Closing
<1>3. ofile' = [ofile EXCEPT ![t] = [@ EXCEPT ![d] = NoFile]]
  BY DEF sys_close
<1> QED BY <1>1, <1>2, <1>3 DEF sys_close, Goes, Shuts

(* fileclose drops the reference of the next file to close.                *)
LEMMA CloseEffect ==
  ASSUME PipeIInv, NEW t \in Task, fileclose(t)
  PROVE  \E f \in File : Drops(t, f)
<1>1. shut[t] \in Seq(File) /\ shut[t] # << >> /\ Len(shut[t]) <= 2
  BY DEF PipeIInv, PipeTypes, PlaceInv, fileclose
<1>2. /\ Head(shut[t]) = shut[t][1] /\ Head(shut[t]) \in File /\ Len(shut[t]) \in {1, 2}
  <2>1. Len(shut[t]) \in Nat /\ Len(shut[t]) # 0
    BY <1>1, EmptySeq, LenProperties
  <2>2. Len(shut[t]) \in {1, 2}
    <3> DEFINE n == Len(shut[t])
    <3>1. n \in Nat /\ n # 0 /\ n <= 2
      BY <1>1, <2>1
    <3> HIDE DEF n
    <3>2. n = 1 \/ n = 2
      BY <3>1
    <3> QED BY <3>2 DEF n
  <2> QED BY <1>1, <2>2, HeadTailProperties
<1>3. /\ Tail(shut[t]) \in Seq(File) /\ Len(Tail(shut[t])) = Len(shut[t]) - 1
      /\ \A i \in 1 .. Len(Tail(shut[t])) : Tail(shut[t])[i] = shut[t][i + 1]
  BY <1>1, HeadTailProperties
<1>4. ASSUME Len(shut[t]) = 1 PROVE Tail(shut[t]) = << >>
  <2>1. Len(Tail(shut[t])) = 0
    BY <1>3, <1>4
  <2> QED BY <1>3, <2>1, EmptySeq
<1>5. ASSUME Len(shut[t]) = 2
      PROVE  shut[t][2] \in File /\ Tail(shut[t]) = <<shut[t][2]>>
  <2>1. shut[t][2] \in File
    BY <1>1, <1>5, ElementOfSeq
  <2>2. Len(Tail(shut[t])) = 1 /\ Tail(shut[t])[1] = shut[t][2]
    BY <1>3, <1>5
  <2> DEFINE r == Tail(shut[t])
  <2>3. r \in Seq(File) /\ Len(r) = 1 /\ r[1] = shut[t][2]
    BY <1>3, <2>2
  <2>4. <<shut[t][2]>> \in Seq(File) /\ Len(<<shut[t][2]>>) = 1 /\ <<shut[t][2]>>[1] = shut[t][2]
    BY <2>1
  <2>5. \A i \in 1 .. Len(r) : r[i] = <<shut[t][2]>>[i]
    BY <2>3, <2>4
  <2> HIDE DEF r
  <2>6. r = <<shut[t][2]>>
    BY <2>3, <2>4, <2>5, SeqEqual
  <2> QED BY <2>1, <2>6 DEF r
<1>6. ref[Head(shut[t])] > 0
  <2>1. 1 \in {1, 2} /\ 1 <= Len(shut[t]) /\ shut[t][1] = Head(shut[t])
    BY <1>2
  <2> QED BY <1>2, <2>1, HeldHasRef DEF PipeIInv
<1> DEFINE f == Head(shut[t])
<1>7. /\ at[t] \in Closing /\ ff[t] = NoEnd
      /\ ref' = [ref EXCEPT ![f] = @ - 1]
      /\ IF ref[f] > 1 THEN UNCHANGED <<end, ff>>
         ELSE /\ ff' = [ff EXCEPT ![t] = end[f]]
              /\ end' = [end EXCEPT ![f] = NoEnd]
      /\ shut' = [shut EXCEPT ![t] = Tail(shut[t])]
      /\ at' = Closed(t, at)
      /\ UNCHANGED <<ofile, live, pipe, on, left, doomed, flow, missed, cut>>
  BY DEF fileclose, Closing
<1>8. f \in File /\ shut[t][1] = f /\ ref[f] > 0 /\ ref[f] \in Nat
  BY <1>2, <1>6 DEF PipeIInv, PipeTypes
<1> HIDE DEF f
<1>9. \/ ref[f] > 1 /\ ff' = ff /\ end' = end
      \/ ref[f] = 1 /\ ff' = [ff EXCEPT ![t] = end[f]] /\ end' = [end EXCEPT ![f] = NoEnd]
  BY <1>7, <1>8
<1>10. \/ Len(shut[t]) = 1 /\ shut' = [shut EXCEPT ![t] = << >>]
       \/ Len(shut[t]) = 2 /\ shut[t][2] \in File /\ shut' = [shut EXCEPT ![t] = <<shut[t][2]>>]
  BY <1>2, <1>4, <1>5, <1>7
<1>11. Drops(t, f)
  BY <1>2, <1>7, <1>8, <1>9, <1>10 DEF Drops
<1> QED BY <1>8, <1>11

(* pipealloc takes two free files and a page.                              *)
LEMMA AllocEffect ==
  ASSUME PipeIInv, NEW t \in Task, NEW g \in Frame, pipealloc(t, g)
  PROVE  \E rf, wf \in File : Allocs(t, g, rf, wf)
<1> DEFINE rf == Min(FilesFree)
           wf == Min(FilesFree \ {rf})
<1>1. rf \in FilesFree /\ wf \in FilesFree \ {rf}
  BY TwoFree DEF pipealloc, PipeIInv
<1>2. /\ rf \in File /\ wf \in File /\ rf # wf /\ ref[rf] = 0 /\ ref[wf] = 0
  BY <1>1 DEF FilesFree
<1>3. at[t] = "user" /\ shut[t] = << >> /\ ff[t] = NoEnd
  BY DEF pipealloc, PipeIInv, PlaceInv, Closing
<1>4. /\ g \notin live
      /\ ref' = [ref EXCEPT ![rf] = 1, ![wf] = 1]
      /\ end' = [end EXCEPT ![rf] = [page |-> g, writable |-> FALSE],
                            ![wf] = [page |-> g, writable |-> TRUE]]
      /\ live' = live \cup {g}
      /\ pipe' = [pipe EXCEPT ![g] = Fresh]
      /\ shut' = [shut EXCEPT ![t] = <<rf, wf>>]
      /\ at' = [at EXCEPT ![t] = "install"]
      /\ UNCHANGED <<ofile, on, left, ff, doomed, flow, missed, cut>>
  BY DEF pipealloc, Goes
<1> HIDE DEF rf, wf
<1> QED BY <1>2, <1>3, <1>4 DEF Allocs

(* sys_dup gives its file one more descriptor.                             *)
LEMMA DupEffect ==
  ASSUME PipeIInv, NEW t \in Task, NEW d \in Fd, sys_dup(t, d)
  PROVE  \E f \in File, i \in Fd : Dups(t, f, i)
<1>1. FdsFree(t) # {} /\ ofile[t][d] # NoFile /\ ofile \in [Task -> [Fd -> File \cup {NoFile}]]
  BY DEF sys_dup, PipeIInv, PipeTypes
<1> DEFINE i == Min(FdsFree(t))
<1>2. i \in Fd /\ ofile[t][i] = NoFile
  BY <1>1, FreeFd DEF PipeIInv
<1>3. /\ at[t] = "user"
      /\ ofile' = [ofile EXCEPT ![t][i] = ofile[t][d]]
      /\ ref' = [ref EXCEPT ![ofile[t][d]] = @ + 1]
      /\ UNCHANGED <<end, live, pipe, at, on, left, shut, ff, doomed, flow, missed, cut>>
  BY DEF sys_dup
<1> HIDE DEF i
<1>4. ofile' = [ofile EXCEPT ![t] = [@ EXCEPT ![i] = ofile[t][d]]]
  BY <1>3
<1>5. ofile[t][d] \in File
  BY <1>1
<1>6. Dups(t, ofile[t][d], i)
  BY <1>2, <1>3, <1>4 DEF Dups
<1> QED BY <1>2, <1>5, <1>6

(* pipeclose closes the end its task carries, of a live pipe.              *)
LEMMA EndEffect ==
  ASSUME PipeIInv, NEW t \in Task, pipeclose(t)
  PROVE  \E g \in Frame, pi \in PipeContents : EndCloses(t, g, pi)
<1> DEFINE g == ff[t].page
           pi == CloseEnd(ff[t], pipe[g])
<1>1. at[t] \in Closing /\ ff[t] # NoEnd
  BY DEF pipeclose, PipeIInv, PlaceInv
<1>2. ff[t] \in End
  BY DEF PipeIInv, PipeTypes
<1>3. g \in Frame /\ ff[t].writable \in BOOLEAN
  <2>1. g # NoFrame
    BY <1>1 DEF PipeIInv, EndInv
  <2> QED BY <1>2, <2>1 DEF End
<1>4. pi \in PipeContents
  <2>1. pipe[g] \in PipeContents
    BY <1>3 DEF PipeIInv, PipeTypes
  <2> QED BY <2>1 DEF PipeContents, CloseEnd
<1>5. g \in live
  <2>1. t \in {u \in Task : ff[u].page = g}
    OBVIOUS
  <2>2. EndsHeld(g) # {}
    BY <2>1 DEF EndsHeld
  <2> QED BY <1>3, <2>2 DEF PipeIInv, PageLivesWithItsEnds
<1>6. /\ Unlocked(g)
      /\ pipe' = [pipe EXCEPT ![g] = IF BothClosed(pi) THEN Fresh ELSE pi]
      /\ live' = IF BothClosed(pi) THEN live \ {g} ELSE live
      /\ flow' = IF BothClosed(pi) THEN [flow EXCEPT ![g] = << >>] ELSE flow
      /\ cut' = IF BothClosed(pi) \/ ff[t].writable THEN cut \ {g} ELSE cut
      /\ ff' = [ff EXCEPT ![t] = NoEnd]
      /\ at' = Closed(t, IF ff[t].writable THEN WakeReaders(g, at) ELSE WakeWriters(g, at))
      /\ UNCHANGED <<ref, end, ofile, on, left, shut, doomed, missed>>
  BY DEF pipeclose, CloseEnd
<1>7. pi = CloseEnd(ff[t], pipe[g]) /\ ff[t].page = g
  OBVIOUS
<1> HIDE DEF g, pi
<1>8. EndCloses(t, g, pi)
  BY <1>1, <1>3, <1>5, <1>6, <1>7 DEF EndCloses
<1> QED BY <1>3, <1>4, <1>8

(* The pipe a task uses is a live one.                                     *)
LEMMA OnLive ==
  ASSUME PipeIInv, NEW t \in Task, at[t] \in Reading \cup Writing
  PROVE  on[t] \in Frame /\ Within(t, on[t])
BY DEF PipeIInv, PlaceInv, PageLivesWithItsEnds, PipeTypes, Within

(* A turn of pipewrite fails, waits, or writes a byte.                     *)
LEMMA WriteEffect ==
  ASSUME PipeIInv, NEW t \in Task, pipewrite(t)
  PROVE  \E g \in Frame : WriteFails(t, g) \/ WriteWaits(t, g) \/ WritesByte(t, g)
<1> DEFINE g == on[t]
<1>1. at[t] \in Writing /\ left[t] > 0 /\ WriteLock(t)
  BY DEF pipewrite, WriteLock, Writing
<1>2. g \in Frame /\ Within(t, g)
  BY <1>1, OnLive
<1>3. UNCHANGED <<ref, end, ofile, live, shut, ff, doomed, missed>>
  BY DEF pipewrite
<1>4. CASE /\ ~pipe[g].readopen \/ t \in doomed
           /\ at' = Return(t)
           /\ on' = [on EXCEPT ![t] = NoFrame] /\ left' = [left EXCEPT ![t] = 0]
           /\ cut' = IF pipe[g].readopen /\ left[t] < MaxWrite THEN cut \cup {g} ELSE cut
           /\ UNCHANGED <<pipe, flow>>
  <2>1. WriteFails(t, g)
    BY <1>1, <1>2, <1>3, <1>4 DEF WriteFails, Return
  <2> QED BY <1>2, <2>1
<1>5. CASE /\ pipe[g].readopen /\ t \notin doomed /\ Full(pipe[g])
           /\ at' = WakeReaders(g, [at EXCEPT ![t] = "full"])
           /\ cut' = cut \ {g}
           /\ UNCHANGED <<pipe, flow, on, left>>
  <2>1. WriteWaits(t, g)
    BY <1>1, <1>2, <1>3, <1>5 DEF WriteWaits
  <2> QED BY <1>2, <2>1
<1>6. CASE /\ ~Full(pipe[g])
           /\ pipe' = [pipe EXCEPT ![g].data[pipe[g].nwrite % PIPESIZE] = t,
                                   ![g].nwrite = Plus(@, 1)]
           /\ flow' = [flow EXCEPT ![g] = Append(@, t)]
           /\ left' = [left EXCEPT ![t] = @ - 1]
           /\ at' = [at EXCEPT ![t] = "writing"]
           /\ UNCHANGED <<on, cut>>
  <2> DEFINE k == pipe[g].nwrite % PIPESIZE
  <2>1. pipe[g].nwrite \in Nat /\ pipe[g] \in PipeContents
    BY <1>2 DEF Within, PipeContents
  <2>2. k \in 0 .. PIPESIZE - 1
    BY <2>1, Remainder, PipeAssumption
  <2>3. pipe' = [pipe EXCEPT ![g] = [pipe[g] EXCEPT !.data = [pipe[g].data EXCEPT ![k] = t],
                                                   !.nwrite = Plus(pipe[g].nwrite, 1)]]
    <3>1. pipe' = [pipe EXCEPT ![g].data[k] = t, ![g].nwrite = Plus(@, 1)]
      BY <1>6
    <3>2. pipe \in [Frame -> PipeContents]
      BY DEF PipeIInv, PipeTypes
    <3> HIDE DEF k, g
    <3>3. pipe' = [[pipe EXCEPT ![g].data[k] = t] EXCEPT ![g].nwrite = Plus(@, 1)]
      BY <3>1
    <3> DEFINE q == [pipe[g] EXCEPT !.data[k] = t]
               p1 == [pipe EXCEPT ![g].data[k] = t]
    <3>4. p1 = [pipe EXCEPT ![g] = q] /\ q.nwrite = pipe[g].nwrite
      BY <1>2, <2>1, <3>2 DEF PipeContents
    <3>5. pipe' = [p1 EXCEPT ![g].nwrite = Plus(@, 1)]
      BY <3>3
    <3>6. q = [pipe[g] EXCEPT !.data = [pipe[g].data EXCEPT ![k] = t]]
      OBVIOUS
    <3> HIDE DEF p1, q
    <3>7. pipe' = [pipe EXCEPT ![g] = [q EXCEPT !.nwrite = Plus(q.nwrite, 1)]]
      BY <1>2, <3>2, <3>4, <3>5
    <3>8. [pipe[g] EXCEPT !.data = [pipe[g].data EXCEPT ![k] = t], !.nwrite = Plus(pipe[g].nwrite, 1)]
            = [q EXCEPT !.nwrite = Plus(q.nwrite, 1)]
      BY <3>4, <3>6
    <3> QED BY <3>7, <3>8
  <2>4. WritesByte(t, g)
    <3>1. flow' = [flow EXCEPT ![g] = Append(flow[g], t)]
      BY <1>6
    <3> QED BY <1>1, <1>2, <1>3, <1>6, <2>2, <2>3, <3>1 DEF WritesByte
  <2> QED BY <1>2, <2>4
<1> QED BY <1>4, <1>5, <1>6 DEF pipewrite, Goes

(* pipewrite returns to its caller.                                        *)
LEMMA DoneEffect ==
  ASSUME PipeIInv, NEW t \in Task, WriteReturns(t)
  PROVE  \E g \in Frame : WriteDone(t, g)
<1>1. on[t] \in Frame /\ Within(t, on[t])
  BY OnLive DEF WriteReturns, WriteLock, Writing
<1>2. WriteDone(t, on[t])
  BY <1>1 DEF WriteReturns, WriteDone, Return
<1> QED BY <1>1, <1>2

(* piperead fails, waits, or takes bytes.                                  *)
LEMMA ReadEffect ==
  ASSUME PipeIInv, NEW t \in Task, piperead(t)
  PROVE  \E g \in Frame : \/ ReadFails(t, g) \/ ReadWaits(t, g)
                          \/ \E n \in Nat : ReadsBytes(t, g, n)
<1> DEFINE g == on[t]
<1>1. g \in Frame /\ Within(t, g)
  BY OnLive DEF piperead, Reading
<1>2. /\ at[t] = "read" /\ Unlocked(g)
      /\ UNCHANGED <<ref, end, ofile, live, left, shut, ff, doomed, missed, cut>>
  BY DEF piperead
<1>3. CASE Empty(pipe[g]) /\ pipe[g].writeopen /\ t \in doomed
  <2>1. ReadFails(t, g)
    BY <1>1, <1>2, <1>3 DEF ReadFails, piperead, Return
  <2> QED BY <1>1, <2>1
<1>4. CASE Empty(pipe[g]) /\ pipe[g].writeopen /\ t \notin doomed
  <2>1. ReadWaits(t, g)
    BY <1>1, <1>2, <1>4 DEF ReadWaits, piperead, Goes
  <2> QED BY <1>1, <2>1
<1>5. CASE ~(Empty(pipe[g]) /\ pipe[g].writeopen)
  <2>1. PICK n \in 0 .. Len(flow[g]) :
               /\ pipe' = [pipe EXCEPT ![g].nread = Plus(@, n)]
               /\ flow' = [flow EXCEPT ![g] = SubSeq(@, n + 1, Len(@))]
    BY <1>5 DEF piperead
  <2>2. flow[g] \in Seq(Task) /\ Len(flow[g]) \in Nat
    BY <1>1 DEF PipeIInv, PipeTypes
  <2>3. n \in Nat /\ n <= Len(flow[g])
    BY <2>2
  <2>4. /\ pipe' = [pipe EXCEPT ![g] = [@ EXCEPT !.nread = Plus(pipe[g].nread, n)]]
        /\ flow' = [flow EXCEPT ![g] = SubSeq(flow[g], n + 1, Len(flow[g]))]
    BY <2>1
  <2>5. /\ at' = WakeWriters(g, [at EXCEPT ![t] = "user"])
        /\ on' = [on EXCEPT ![t] = NoFrame]
    BY <1>5 DEF piperead, Return
  <2>6. ~Empty(pipe[g]) \/ ~pipe[g].writeopen
    BY <1>5
  <2>7. ReadsBytes(t, g, n)
    BY <1>1, <1>2, <2>3, <2>4, <2>5, <2>6 DEF ReadsBytes
  <2> QED BY <1>1, <2>3, <2>7
<1> QED BY <1>3, <1>4, <1>5

(* sys_read and sys_write enter the pipe of a descriptor.                  *)
LEMMA EnterEffect ==
  ASSUME PipeIInv, NEW t \in Task, NEW d \in Fd, sys_read(t, d) \/ sys_write(t, d)
  PROVE  \E f \in File : Enters(t, f)
<1>1. ofile[t][d] \in File
  BY DEF sys_read, sys_write, PipeIInv, PipeTypes
<1>2. Enters(t, ofile[t][d])
  BY DEF sys_read, sys_write, Enters, Goes
<1> QED BY <1>1, <1>2

(* Every step is one of these.                                             *)
LEMMA PipeCases ==
  ASSUME PipeIInv, PipeNext
  PROVE  \E t \in Task :
           \/ \E i, j \in Fd : Installs(t, i, j)
           \/ InstallFails(t)
           \/ \E i \in Fd : Shuts(t, i)
           \/ Exits(t)
           \/ \E f \in File : Drops(t, f)
           \/ \E g \in Frame, rf, wf \in File : Allocs(t, g, rf, wf)
           \/ \E f \in File, i \in Fd : Dups(t, f, i)
           \/ \E u \in Task \ {t} : ForkTask(t, u)
           \/ \E g \in Frame, pi \in PipeContents : EndCloses(t, g, pi)
           \/ \E g \in Frame : WriteFails(t, g)
           \/ \E g \in Frame : WriteWaits(t, g)
           \/ \E g \in Frame : WritesByte(t, g)
           \/ \E g \in Frame : WriteDone(t, g)
           \/ PipeSleep(t)
           \/ \E g \in Frame : ReadFails(t, g)
           \/ \E g \in Frame : ReadWaits(t, g)
           \/ \E g \in Frame, n \in Nat : ReadsBytes(t, g, n)
           \/ \E f \in File : Enters(t, f)
           \/ KillTask(t)
<1>1. PICK t \in Task :
        \/ InstallFds(t) \/ ExitTask(t) \/ fileclose(t) \/ pipeclose(t)
        \/ pipewrite(t) \/ WriteReturns(t) \/ PipeSleep(t) \/ piperead(t) \/ KillTask(t)
        \/ \E d \in Fd : sys_dup(t, d) \/ sys_close(t, d) \/ sys_read(t, d) \/ sys_write(t, d)
        \/ \E u \in Task \ {t} : ForkTask(t, u)
        \/ \E g \in Frame : pipealloc(t, g)
  BY DEF PipeNext
<1>2. CASE InstallFds(t)
  BY <1>2, InstallEffect
<1>3. CASE ExitTask(t)
  BY <1>3, ExitEffect
<1>4. CASE fileclose(t)
  BY <1>4, CloseEffect
<1>5. CASE pipeclose(t)
  BY <1>5, EndEffect
<1>6. CASE pipewrite(t)
  BY <1>6, WriteEffect
<1>7. CASE WriteReturns(t)
  BY <1>7, DoneEffect
<1>8. CASE piperead(t)
  BY <1>8, ReadEffect
<1>9. ASSUME NEW d \in Fd, sys_dup(t, d) PROVE \E f \in File, i \in Fd : Dups(t, f, i)
  BY <1>9, DupEffect
<1>10. ASSUME NEW d \in Fd, sys_close(t, d) PROVE \E i \in Fd : Shuts(t, i)
  BY <1>10, ShutEffect
<1>11. ASSUME NEW d \in Fd, sys_read(t, d) \/ sys_write(t, d)
       PROVE  \E f \in File : Enters(t, f)
  BY <1>11, EnterEffect
<1>12. ASSUME NEW g \in Frame, pipealloc(t, g)
       PROVE  \E rf, wf \in File : Allocs(t, g, rf, wf)
  BY <1>12, AllocEffect
<1> QED BY <1>1, <1>2, <1>3, <1>4, <1>5, <1>6, <1>7, <1>8, <1>9, <1>10, <1>11, <1>12

(* wakeup moves tasks between places of the same kind.                     *)
LEMMA WakeTypes ==
  ASSUME NEW g, NEW where \in [Task -> Place]
  PROVE  WakeReaders(g, where) \in [Task -> Place] /\ WakeWriters(g, where) \in [Task -> Place]
BY DEF WakeReaders, WakeWriters, Place, Reading, Writing

(* The places Closed can leave a task at.                                  *)
LEMMA ClosedPlace ==
  ASSUME NEW t \in Task, NEW where \in [Task -> Place], where[t] \in Closing
  PROVE  /\ Closed(t, where) \in [Task -> Place]
         /\ \A u \in Task : u # t => Closed(t, where)[u] = where[u]
         /\ \/ (shut'[t] # << >> \/ ff'[t] # NoEnd) /\ Closed(t, where)[t] = where[t]
            \/ shut'[t] = << >> /\ ff'[t] = NoEnd /\ Closed(t, where)[t] \in {"user", "exit"}
<1>1. \A u \in Task : u # t => Closed(t, where)[u] = where[u]
  BY DEF Closed
<1>2. \/ (shut'[t] # << >> \/ ff'[t] # NoEnd) /\ Closed(t, where)[t] = where[t]
      \/ shut'[t] = << >> /\ ff'[t] = NoEnd /\ Closed(t, where)[t] \in {"user", "exit"}
  <2>1. CASE shut'[t] # << >> \/ ff'[t] # NoEnd
    BY <2>1 DEF Closed
  <2>2. CASE shut'[t] = << >> /\ ff'[t] = NoEnd
    BY <2>2 DEF Closed, Closing
  <2> QED BY <2>1, <2>2
<1>3. Closed(t, where)[t] \in Place
  BY <1>2 DEF Place, Closing
<1>4. Closed(t, where) \in [Task -> Place]
  BY <1>3 DEF Closed
<1> QED BY <1>1, <1>2, <1>4

(* Sums of uints are uints.                                                *)
LEMMA PlusTypes ==
  ASSUME NEW n \in Nat, NEW k \in Nat
  PROVE  Plus(n, k) \in 0 .. UINT - 1
<1>1. n + k \in Nat /\ UINT \in Nat \ {0}
  BY PipeAssumption
<1> QED BY <1>1, Remainder DEF Plus

(* Types are kept by the calls on the file table.                          *)
LEMMA TableTypes ==
  ASSUME PipeIInv, NEW t \in Task,
         \/ \E i, j \in Fd : Installs(t, i, j)
         \/ InstallFails(t)
         \/ \E i \in Fd : Shuts(t, i)
         \/ Exits(t)
         \/ \E f \in File : Drops(t, f)
         \/ \E g \in Frame, rf, wf \in File : Allocs(t, g, rf, wf)
         \/ \E f \in File, i \in Fd : Dups(t, f, i)
         \/ \E u \in Task \ {t} : ForkTask(t, u)
  PROVE  PipeTypes'
<1> USE DEF PipeIInv
<1>1. ASSUME NEW i \in Fd, NEW j \in Fd, Installs(t, i, j) PROVE PipeTypes'
  <2> USE <1>1
  <2>1. ofile' \in [Task -> [Fd -> File \cup {NoFile}]]
    BY DEF PipeTypes, Installs
  <2>2. shut' \in [Task -> Seq(File)]
    BY DEF PipeTypes, Installs
  <2>3. at' \in [Task -> Place]
    BY DEF PipeTypes, Installs, Place
  <2> QED BY <2>1, <2>2, <2>3 DEF PipeTypes, Installs
<1>2. CASE InstallFails(t)
  <2>3. at' \in [Task -> Place]
    BY <1>2 DEF PipeTypes, InstallFails, Place, Closing
  <2> QED BY <1>2, <2>3 DEF PipeTypes, InstallFails
<1>3. ASSUME NEW i \in Fd, Shuts(t, i) PROVE PipeTypes'
  <2> USE <1>3
  <2>1. ofile' \in [Task -> [Fd -> File \cup {NoFile}]]
    BY DEF PipeTypes, Shuts
  <2>2. shut' \in [Task -> Seq(File)]
    <3>1. /\ shut \in [Task -> Seq(File)] /\ ofile[t][i] \in File
          /\ shut' = [shut EXCEPT ![t] = <<ofile[t][i]>>]
      BY DEF PipeTypes, Shuts
    <3> HIDE <1>3 DEF PipeIInv
    <3> QED BY <3>1
  <2>3. at' \in [Task -> Place]
    BY DEF PipeTypes, Shuts, Place, Closing
  <2> QED BY <2>1, <2>2, <2>3 DEF PipeTypes, Shuts
<1>4. CASE Exits(t)
  <2>1. at' \in [Task -> Place]
    BY <1>4 DEF PipeTypes, Exits, Place
  <2>2. doomed' \in SUBSET Task /\ missed' \in SUBSET doomed'
    BY <1>4 DEF PipeTypes, Exits
  <2> QED BY <1>4, <2>1, <2>2 DEF PipeTypes, Exits
<1>5. ASSUME NEW f \in File, Drops(t, f) PROVE PipeTypes'
  <2> USE <1>5
  <2>1. ref' \in [File -> Nat]
    <3>1. ref[f] \in Nat /\ ref[f] > 0 /\ ref' = [ref EXCEPT ![f] = @ - 1] /\ ref \in [File -> Nat]
      BY DEF Drops, PipeTypes
    <3> QED BY <3>1
  <2>2. end' \in [File -> End] /\ ff' \in [Task -> End]
    <3>1. NoEnd \in End
      BY DEF NoEnd, End
    <3>2. end \in [File -> End] /\ ff \in [Task -> End]
      BY DEF PipeTypes
    <3>3. \/ ff' = ff /\ end' = end
          \/ ff' = [ff EXCEPT ![t] = end[f]] /\ end' = [end EXCEPT ![f] = NoEnd]
      BY DEF Drops
    <3> HIDE <1>5 DEF PipeIInv
    <3> QED BY <3>1, <3>2, <3>3
  <2>3. shut' \in [Task -> Seq(File)]
    <3>1. shut \in [Task -> Seq(File)]
      BY DEF PipeTypes
    <3>2. \/ shut' = [shut EXCEPT ![t] = << >>]
          \/ shut[t][2] \in File /\ shut' = [shut EXCEPT ![t] = <<shut[t][2]>>]
      BY DEF Drops
    <3> HIDE <1>5 DEF PipeIInv
    <3>3. << >> \in Seq(File) /\ (shut[t][2] \in File => <<shut[t][2]>> \in Seq(File))
      OBVIOUS
    <3> QED BY <3>1, <3>2, <3>3
  <2>4. at' \in [Task -> Place]
    <3>1. at \in [Task -> Place] /\ at[t] \in Closing /\ at' = Closed(t, at)
      BY DEF PipeTypes, Drops
    <3> QED BY <3>1, ClosedPlace
  <2> QED BY <2>1, <2>2, <2>3, <2>4 DEF PipeTypes, Drops
<1>6. ASSUME NEW g \in Frame, NEW rf \in File, NEW wf \in File, Allocs(t, g, rf, wf)
      PROVE  PipeTypes'
  <2> USE <1>6
  <2>1. ref' \in [File -> Nat]
    BY DEF PipeTypes, Allocs
  <2>2. end' \in [File -> End]
    BY DEF PipeTypes, End, Allocs
  <2>3. shut' \in [Task -> Seq(File)]
    BY DEF PipeTypes, Allocs
  <2>4. pipe' \in [Frame -> PipeContents] /\ live' \in SUBSET Frame /\ cut' \in SUBSET live'
    BY FreshTypes DEF PipeTypes, Allocs
  <2>5. at' \in [Task -> Place]
    BY DEF PipeTypes, Place, Allocs
  <2> QED BY <2>1, <2>2, <2>3, <2>4, <2>5 DEF PipeTypes, Allocs
<1>7. ASSUME NEW f \in File, NEW i \in Fd, Dups(t, f, i) PROVE PipeTypes'
  <2> USE <1>7
  <2>1. ofile' \in [Task -> [Fd -> File \cup {NoFile}]]
    BY DEF PipeTypes, Dups
  <2>2. ref' \in [File -> Nat]
    BY DEF PipeTypes, Dups
  <2> QED BY <2>1, <2>2 DEF PipeTypes, Dups
<1>8. ASSUME NEW u \in Task \ {t}, ForkTask(t, u) PROVE PipeTypes'
  <2>1. ref' \in [File -> Nat]
    <3> DEFINE c(f) == Cardinality({d \in Fd : ofile[t][d] = f})
    <3>1. \A f \in File : c(f) \in Nat
      BY FdsFinite, FS_Subset, FS_CardinalityType
    <3>2. ref' = [f \in File |-> ref[f] + c(f)]
      BY <1>8 DEF ForkTask
    <3> HIDE DEF c
    <3>3. ref \in [File -> Nat]
      BY DEF PipeTypes
    <3> QED BY <3>1, <3>2, <3>3
  <2>2. at' \in [Task -> Place]
    BY <1>8 DEF PipeTypes, ForkTask, Goes, Place
  <2>3. ofile' \in [Task -> [Fd -> File \cup {NoFile}]]
    BY <1>8 DEF PipeTypes, ForkTask
  <2> QED BY <1>8, <2>1, <2>2, <2>3 DEF PipeTypes, ForkTask
<1> QED BY <1>1, <1>2, <1>3, <1>4, <1>5, <1>6, <1>7, <1>8

(* Types are kept by the calls on a pipe and by a kill.                    *)
LEMMA UseTypes ==
  ASSUME PipeIInv, NEW t \in Task,
         \/ \E g \in Frame, pi \in PipeContents : EndCloses(t, g, pi)
         \/ \E g \in Frame : WriteFails(t, g)
         \/ \E g \in Frame : WriteWaits(t, g)
         \/ \E g \in Frame : WritesByte(t, g)
         \/ \E g \in Frame : WriteDone(t, g)
         \/ PipeSleep(t)
         \/ \E g \in Frame : ReadFails(t, g)
         \/ \E g \in Frame : ReadWaits(t, g)
         \/ \E g \in Frame, n \in Nat : ReadsBytes(t, g, n)
         \/ \E f \in File : Enters(t, f)
         \/ KillTask(t)
  PROVE  PipeTypes'
<1> USE DEF PipeIInv
<1>0. /\ at \in [Task -> Place] /\ on \in [Task -> Frame \cup {NoFrame}]
      /\ left \in [Task -> 0 .. MaxWrite] /\ 0 \in 0 .. MaxWrite /\ MaxWrite \in 0 .. MaxWrite
      /\ \A w \in {"user", "read", "write", "empty", "full", "writing"} :
           [at EXCEPT ![t] = w] \in [Task -> Place]
  <2>1. \A w \in {"user", "read", "write", "empty", "full", "writing"} : w \in Place
    BY DEF Place, Reading, Writing
  <2>2. 0 \in 0 .. MaxWrite /\ MaxWrite \in 0 .. MaxWrite
    BY PipeAssumption
  <2> QED BY <2>1, <2>2 DEF PipeTypes
<1>1. ASSUME NEW g \in Frame, NEW pi \in PipeContents, EndCloses(t, g, pi) PROVE PipeTypes'
  <2> USE <1>1
  <2>2. at' \in [Task -> Place]
    <3> DEFINE where == IF ff[t].writable THEN WakeReaders(g, at) ELSE WakeWriters(g, at)
    <3>1. where \in [Task -> Place]
      BY <1>0, WakeTypes
    <3>2. where[t] \in Closing
      BY DEF WakeReaders, WakeWriters, Closing, EndCloses
    <3>3. at' = Closed(t, where)
      BY DEF EndCloses
    <3> HIDE DEF where
    <3> QED BY <3>1, <3>2, <3>3, ClosedPlace
  <2>3. pipe' \in [Frame -> PipeContents]
    BY FreshTypes DEF PipeTypes, EndCloses
  <2>4. live' \in SUBSET Frame /\ cut' \in SUBSET live'
    BY DEF PipeTypes, EndCloses
  <2>5. flow' \in [Frame -> Seq(Task)]
    BY DEF PipeTypes, EndCloses
  <2>6. ff' \in [Task -> End]
    <3>1. NoEnd \in End
      BY DEF NoEnd, End
    <3> QED BY <3>1 DEF PipeTypes, EndCloses
  <2> QED BY <2>2, <2>3, <2>4, <2>5, <2>6 DEF PipeTypes, EndCloses
<1>2. ASSUME NEW g \in Frame, WriteFails(t, g) PROVE PipeTypes'
  <2>1. left' \in [Task -> 0 .. MaxWrite] /\ on' \in [Task -> Frame \cup {NoFrame}]
    BY <1>0, <1>2 DEF WriteFails
  <2>2. cut' \in SUBSET live'
    BY <1>2 DEF WriteFails, Within, PipeTypes
  <2>3. at' \in [Task -> Place]
    BY <1>0, <1>2 DEF WriteFails
  <2> QED BY <1>2, <2>1, <2>2, <2>3 DEF PipeTypes, WriteFails
<1>3. ASSUME NEW g \in Frame, WriteWaits(t, g) PROVE PipeTypes'
  <2>1. at' \in [Task -> Place]
    BY <1>0, <1>3, WakeTypes DEF WriteWaits
  <2>2. cut' \in SUBSET live'
    BY <1>3 DEF WriteWaits, PipeTypes
  <2> QED BY <1>3, <2>1, <2>2 DEF PipeTypes, WriteWaits
<1>4. ASSUME NEW g \in Frame, WritesByte(t, g) PROVE PipeTypes'
  <2>1. left' \in [Task -> 0 .. MaxWrite]
    <3>1. left[t] > 0 /\ left[t] \in 0 .. MaxWrite /\ left' = [left EXCEPT ![t] = @ - 1]
      BY <1>0, <1>4 DEF WritesByte
    <3>2. left[t] - 1 \in 0 .. MaxWrite
      BY <3>1, PipeAssumption
    <3> QED BY <1>0, <3>1, <3>2
  <2>2. at' \in [Task -> Place]
    BY <1>0, <1>4 DEF WritesByte
  <2>3. flow' \in [Frame -> Seq(Task)]
    <3>1. Append(flow[g], t) \in Seq(Task)
      BY AppendProperties DEF PipeTypes
    <3> QED BY <1>4, <3>1 DEF PipeTypes, WritesByte
  <2>4. pipe' \in [Frame -> PipeContents]
    <3> DEFINE k == pipe[g].nwrite % PIPESIZE
               q == Plus(pipe[g].nwrite, 1)
    <3>1. pipe[g] \in PipeContents /\ k \in 0 .. PIPESIZE - 1
      BY <1>4 DEF WritesByte, Within
    <3>2. q \in 0 .. UINT - 1
      <4>1. pipe[g].nwrite \in Nat
        BY <3>1 DEF PipeContents
      <4> QED BY <4>1, PlusTypes
    <3>3. pipe' = [pipe EXCEPT ![g] =
                     [pipe[g] EXCEPT !.data = [pipe[g].data EXCEPT ![k] = t], !.nwrite = q]]
      BY <1>4 DEF WritesByte
    <3> HIDE DEF k, q
    <3>4. [pipe[g] EXCEPT !.data = [pipe[g].data EXCEPT ![k] = t], !.nwrite = q] \in PipeContents
      BY <3>1, <3>2 DEF PipeContents
    <3> QED BY <3>3, <3>4 DEF PipeTypes
  <2> QED BY <1>4, <2>1, <2>2, <2>3, <2>4 DEF PipeTypes, WritesByte
<1>5. ASSUME NEW g \in Frame, WriteDone(t, g) PROVE PipeTypes'
  <2>2. at' \in [Task -> Place]
    BY <1>0, <1>5, WakeTypes DEF WriteDone
  <2>3. left' \in [Task -> 0 .. MaxWrite] /\ on' \in [Task -> Frame \cup {NoFrame}]
    BY <1>0, <1>5 DEF WriteDone
  <2>4. cut' \in SUBSET live'
    BY <1>5 DEF PipeTypes, WriteDone
  <2> QED BY <1>5, <2>2, <2>3, <2>4 DEF PipeTypes, WriteDone
<1>6. CASE PipeSleep(t)
  <2>1. at' \in [Task -> Place]
    BY <1>0, <1>6 DEF PipeSleep, Goes, Place, Reading, Writing
  <2> QED BY <1>6, <2>1 DEF PipeSleep, PipeTypes
<1>7. ASSUME NEW g \in Frame, ReadFails(t, g) PROVE PipeTypes'
  <2>1. at' \in [Task -> Place] /\ on' \in [Task -> Frame \cup {NoFrame}]
    BY <1>0, <1>7 DEF ReadFails
  <2> QED BY <1>7, <2>1 DEF ReadFails, PipeTypes
<1>8. ASSUME NEW g \in Frame, ReadWaits(t, g) PROVE PipeTypes'
  <2>1. at' \in [Task -> Place]
    BY <1>0, <1>8 DEF ReadWaits
  <2> QED BY <1>8, <2>1 DEF ReadWaits, PipeTypes
<1>9. ASSUME NEW g \in Frame, NEW n \in Nat, ReadsBytes(t, g, n) PROVE PipeTypes'
  <2>1. flow' \in [Frame -> Seq(Task)]
    <3>1. flow[g] \in Seq(Task)
      BY DEF PipeTypes
    <3>2. SubSeq(flow[g], n + 1, Len(flow[g])) \in Seq(Task)
      BY <3>1
    <3> QED BY <1>9, <3>2 DEF ReadsBytes, PipeTypes
  <2>2. pipe' \in [Frame -> PipeContents]
    <3> DEFINE q == Plus(pipe[g].nread, n)
    <3>1. pipe[g] \in PipeContents
      BY DEF PipeTypes
    <3>2. q \in 0 .. UINT - 1
      <4>1. pipe[g].nread \in Nat
        BY <3>1 DEF PipeContents
      <4> QED BY <4>1, PlusTypes
    <3>3. pipe' = [pipe EXCEPT ![g] = [@ EXCEPT !.nread = q]]
      BY <1>9 DEF ReadsBytes
    <3> HIDE DEF q
    <3>4. [pipe[g] EXCEPT !.nread = q] \in PipeContents
      BY <3>1, <3>2 DEF PipeContents
    <3> QED BY <3>3, <3>4 DEF PipeTypes
  <2>3. at' \in [Task -> Place] /\ on' \in [Task -> Frame \cup {NoFrame}]
    BY <1>0, <1>9, WakeTypes DEF ReadsBytes
  <2> QED BY <1>9, <2>1, <2>2, <2>3 DEF PipeTypes, ReadsBytes
<1>10. ASSUME NEW f \in File, Enters(t, f) PROVE PipeTypes'
  <2>1. end[f].page \in Frame \cup {NoFrame}
    BY DEF PipeTypes, End
  <2>2. on' \in [Task -> Frame \cup {NoFrame}]
    BY <1>0, <1>10, <2>1 DEF Enters
  <2>3. at' \in [Task -> Place] /\ left' \in [Task -> 0 .. MaxWrite]
    BY <1>0, <1>10 DEF Enters
  <2> QED BY <1>10, <2>2, <2>3 DEF Enters, PipeTypes
<1>11. CASE KillTask(t)
  <2>1. at' \in [Task -> Place]
    BY <1>0, <1>11 DEF KillTask, Goes, Place, Reading, Writing
  <2>2. missed' \in SUBSET doomed' /\ doomed' \in SUBSET Task
    BY <1>11 DEF KillTask, PipeTypes
  <2> QED BY <1>11, <2>1, <2>2 DEF KillTask, PipeTypes
<1> QED BY <1>1, <1>2, <1>3, <1>4, <1>5, <1>6, <1>7, <1>8, <1>9, <1>10, <1>11

(* Types are kept by every step.                                           *)
LEMMA TypesStep ==
  ASSUME PipeIInv, PipeNext
  PROVE  PipeTypes'
BY PipeCases, TableTypes, UseTypes

(* A step of t by itself: every one but a fork.                            *)
OwnStep(t) ==
  \/ \E i, j \in Fd : Installs(t, i, j)
  \/ InstallFails(t)
  \/ \E i \in Fd : Shuts(t, i)
  \/ Exits(t)
  \/ \E f \in File : Drops(t, f)
  \/ \E g \in Frame, rf, wf \in File : Allocs(t, g, rf, wf)
  \/ \E f \in File, i \in Fd : Dups(t, f, i)
  \/ \E g \in Frame, pi \in PipeContents : EndCloses(t, g, pi)
  \/ \E g \in Frame : WriteFails(t, g)
  \/ \E g \in Frame : WriteWaits(t, g)
  \/ \E g \in Frame : WritesByte(t, g)
  \/ \E g \in Frame : WriteDone(t, g)
  \/ PipeSleep(t)
  \/ \E g \in Frame : ReadFails(t, g)
  \/ \E g \in Frame : ReadWaits(t, g)
  \/ \E g \in Frame, n \in Nat : ReadsBytes(t, g, n)
  \/ \E f \in File : Enters(t, f)
  \/ KillTask(t)

(* Every step is one of a single task, or a fork.                          *)
LEMMA StepOrFork ==
  ASSUME PipeIInv, PipeNext
  PROVE  \E t \in Task : OwnStep(t) \/ \E u \in Task \ {t} : ForkTask(t, u)
BY PipeCases DEF OwnStep

(* What u keeps while t takes a step: all of its own, but it may be woken. *)
Kept(u) ==
  /\ on'[u] = on[u] /\ left'[u] = left[u] /\ shut'[u] = shut[u]
  /\ ff'[u] = ff[u] /\ ofile'[u] = ofile[u]
  /\ u \in doomed' <=> u \in doomed
  /\ u \in missed' <=> u \in missed
  /\ \/ at'[u] = at[u]
     \/ at[u] = "asleep to read" /\ at'[u] = "read"
     \/ at[u] = "asleep to write" /\ at'[u] = "write"

(* A step of t leaves the others what they have.                           *)
LEMMA OthersKeep ==
  ASSUME PipeIInv, NEW t \in Task, OwnStep(t), NEW u \in Task \ {t}
  PROVE  Kept(u)
<1>0. /\ ofile \in [Task -> [Fd -> File \cup {NoFile}]] /\ shut \in [Task -> Seq(File)]
      /\ at \in [Task -> Place] /\ on \in [Task -> Frame \cup {NoFrame}]
      /\ left \in [Task -> 0 .. MaxWrite] /\ ff \in [Task -> End]
  BY DEF PipeIInv, PipeTypes
<1>1. ASSUME NEW i \in Fd, NEW j \in Fd, Installs(t, i, j)
      PROVE  Kept(u)
  BY <1>0, <1>1 DEF Installs, Kept
<1>2. CASE InstallFails(t)
  BY <1>0, <1>2 DEF InstallFails, Kept
<1>3. ASSUME NEW i \in Fd, Shuts(t, i)
      PROVE  Kept(u)
  BY <1>0, <1>3 DEF Shuts, Kept
<1>4. CASE Exits(t)
  BY <1>0, <1>4 DEF Exits, Kept
<1>5. ASSUME NEW f \in File, Drops(t, f)
      PROVE  Kept(u)
  <2>0. at' = Closed(t, at) /\ at[t] \in Closing
    BY <1>5 DEF Drops
  <2>1. at'[u] = at[u]
    BY <1>0, <2>0, ClosedPlace
  <2> QED BY <1>0, <1>5, <2>1 DEF Drops, Kept
<1>6. ASSUME NEW g \in Frame, NEW rf \in File, NEW wf \in File, Allocs(t, g, rf, wf)
      PROVE  Kept(u)
  BY <1>0, <1>6 DEF Allocs, Kept
<1>7. ASSUME NEW f \in File, NEW i \in Fd, Dups(t, f, i)
      PROVE  Kept(u)
  BY <1>0, <1>7 DEF Dups, Kept
<1>8. ASSUME NEW g \in Frame, NEW pi \in PipeContents, EndCloses(t, g, pi)
      PROVE  Kept(u)
  <2> DEFINE where == IF ff[t].writable THEN WakeReaders(g, at) ELSE WakeWriters(g, at)
  <2>0. /\ where \in [Task -> Place]
    BY <1>0, WakeTypes
  <2>1. \/ where[u] = at[u]
        \/ at[u] = "asleep to read" /\ where[u] = "read"
        \/ at[u] = "asleep to write" /\ where[u] = "write"
    BY <1>0 DEF WakeReaders, WakeWriters
  <2>2. where[t] \in Closing
    BY <1>8 DEF WakeReaders, WakeWriters, Closing, EndCloses
  <2>3. at' = Closed(t, where)
    BY <1>8 DEF EndCloses
  <2> HIDE DEF where
  <2>4. at'[u] = where[u]
    BY <2>0, <2>2, <2>3, ClosedPlace
  <2>5. ff'[u] = ff[u]
    BY <1>0, <1>8 DEF EndCloses
  <2> QED BY <1>8, <2>1, <2>4, <2>5 DEF EndCloses, Kept
<1>9. ASSUME NEW g \in Frame, WriteFails(t, g)
      PROVE  Kept(u)
  BY <1>0, <1>9 DEF WriteFails, Kept
<1>10. ASSUME NEW g \in Frame, WriteWaits(t, g)
      PROVE  Kept(u)
  BY <1>0, <1>10 DEF WriteWaits, Kept, WakeReaders
<1>11. ASSUME NEW g \in Frame, WritesByte(t, g)
      PROVE  Kept(u)
  BY <1>0, <1>11 DEF WritesByte, Kept
<1>12. ASSUME NEW g \in Frame, WriteDone(t, g)
      PROVE  Kept(u)
  BY <1>0, <1>12 DEF WriteDone, Kept, WakeReaders
<1>13. CASE PipeSleep(t)
  BY <1>0, <1>13 DEF PipeSleep, Kept, Goes
<1>14. ASSUME NEW g \in Frame, ReadFails(t, g)
      PROVE  Kept(u)
  BY <1>0, <1>14 DEF ReadFails, Kept
<1>15. ASSUME NEW g \in Frame, ReadWaits(t, g)
      PROVE  Kept(u)
  BY <1>0, <1>15 DEF ReadWaits, Kept
<1>16. ASSUME NEW g \in Frame, NEW n \in Nat, ReadsBytes(t, g, n)
      PROVE  Kept(u)
  BY <1>0, <1>16 DEF ReadsBytes, Kept, WakeWriters
<1>17. ASSUME NEW f \in File, Enters(t, f)
      PROVE  Kept(u)
  BY <1>0, <1>17 DEF Enters, Kept
<1>18. CASE KillTask(t)
  BY <1>0, <1>18 DEF KillTask, Kept, Goes
<1> QED BY <1>1, <1>2, <1>3, <1>4, <1>5, <1>6, <1>7, <1>8, <1>9, <1>10, <1>11, <1>12, <1>13, <1>14, <1>15, <1>16, <1>17, <1>18 DEF OwnStep

(* PlaceInv for one task.                                                  *)
Placed(t) ==
  /\ Len(shut[t]) <= 2
  /\ at[t] \notin Closing => ff[t] = NoEnd
  /\ at[t] \notin Closing \cup {"install"} => shut[t] = << >>
  /\ at[t] = "install" => Len(shut[t]) = 2
  /\ at[t] = "dead" => \A d \in Fd : ofile[t][d] = NoFile
  /\ at[t] \in Reading \cup Writing <=> on[t] # NoFrame
  /\ at[t] = "writing" => left[t] < MaxWrite

(* Every place keeps what belongs to it.                                   *)
LEMMA PlaceStep ==
  ASSUME PipeIInv, PipeNext
  PROVE  PlaceInv'
<1>1. PICK t \in Task : OwnStep(t) \/ \E u \in Task \ {t} : ForkTask(t, u)
  BY StepOrFork
<1>2. \A w \in Task : Placed(w)
  BY DEF PipeIInv, PlaceInv, Placed
<1>3. /\ ofile \in [Task -> [Fd -> File \cup {NoFile}]] /\ shut \in [Task -> Seq(File)]
      /\ at \in [Task -> Place] /\ on \in [Task -> Frame \cup {NoFrame}]
      /\ left \in [Task -> 0 .. MaxWrite] /\ ff \in [Task -> End]
  BY DEF PipeIInv, PipeTypes
<1>4. ASSUME OwnStep(t), NEW u \in Task \ {t} PROVE Placed(u)'
  <2>1. Kept(u)
    BY <1>4, OthersKeep
  <2> QED BY <1>2, <2>1 DEF Kept, Placed, Reading, Writing, Closing
<1>5. ASSUME OwnStep(t) PROVE Placed(t)'
  <2>1. ASSUME NEW i \in Fd, NEW j \in Fd, Installs(t, i, j)
      PROVE  Placed(t)'
    <3>1. /\ at'[t] = "user" /\ shut'[t] = << >> /\ ff'[t] = NoEnd /\ on'[t] = on[t]
          /\ at[t] = "install"
      BY <1>3, <2>1 DEF Installs
    <3>2. Len(shut'[t]) <= 2
      BY <3>1
    <3> QED BY <1>2, <3>1, <3>2 DEF Placed, Reading, Writing, Closing
  <2>2. CASE InstallFails(t)
    BY <1>2, <1>3, <2>2 DEF InstallFails, Placed, Reading, Writing, Closing
  <2>3. ASSUME NEW i \in Fd, Shuts(t, i)
      PROVE  Placed(t)'
    <3>1. at'[t] \in Closing /\ at[t] \in {"user", "exit"} /\ on'[t] = on[t]
      BY <1>3, <2>3 DEF Shuts, Closing
    <3>2. Len(shut'[t]) = 1
      <4>1. shut'[t] = <<ofile[t][i]>>
        BY <1>3, <2>3 DEF Shuts
      <4> QED BY <4>1
    <3>3. Len(shut'[t]) <= 2
      BY <3>2
    <3> QED BY <1>2, <3>1, <3>2, <3>3 DEF Placed, Reading, Writing, Closing
  <2>4. CASE Exits(t)
    BY <1>2, <1>3, <2>4 DEF Exits, Placed, Reading, Writing, Closing
  <2>5. ASSUME NEW f \in File, Drops(t, f)
      PROVE  Placed(t)'
    <3>1. at' = Closed(t, at) /\ at[t] \in Closing /\ on'[t] = on[t]
      BY <2>5 DEF Drops
    <3>2. \/ (shut'[t] # << >> \/ ff'[t] # NoEnd) /\ at'[t] = at[t]
          \/ shut'[t] = << >> /\ ff'[t] = NoEnd /\ at'[t] \in {"user", "exit"}
      BY <1>3, <3>1, ClosedPlace
    <3>3. shut'[t] = << >> \/ shut'[t] = <<shut[t][2]>>
      BY <1>3, <2>5 DEF Drops
    <3>4. Len(shut'[t]) <= 2
      <4>1. CASE shut'[t] = << >>
        BY <4>1
      <4>2. CASE shut'[t] = <<shut[t][2]>>
        <5>1. Len(shut'[t]) = 1
          BY <4>2
        <5> QED BY <5>1
      <4> QED BY <3>3, <4>1, <4>2
    <3> QED BY <1>2, <3>1, <3>2, <3>4 DEF Placed, Reading, Writing, Closing
  <2>6. ASSUME NEW g \in Frame, NEW rf \in File, NEW wf \in File, Allocs(t, g, rf, wf)
      PROVE  Placed(t)'
    <3>1. at'[t] = "install" /\ at[t] = "user" /\ ff'[t] = NoEnd /\ on'[t] = on[t]
      BY <1>3, <2>6 DEF Allocs
    <3>2. Len(shut'[t]) = 2
      <4>1. shut'[t] = <<rf, wf>>
        BY <1>3, <2>6 DEF Allocs
      <4> QED BY <4>1
    <3>3. Len(shut'[t]) <= 2
      BY <3>2
    <3> QED BY <1>2, <3>1, <3>2, <3>3 DEF Placed, Reading, Writing, Closing
  <2>7. ASSUME NEW f \in File, NEW i \in Fd, Dups(t, f, i)
      PROVE  Placed(t)'
    BY <1>2, <1>3, <2>7 DEF Dups, Placed, Reading, Writing, Closing
  <2>8. ASSUME NEW g \in Frame, NEW pi \in PipeContents, EndCloses(t, g, pi)
      PROVE  Placed(t)'
    <3> DEFINE where == IF ff[t].writable THEN WakeReaders(g, at) ELSE WakeWriters(g, at)
    <3>1. where \in [Task -> Place]
      BY <1>3, WakeTypes
    <3>2. where[t] \in Closing /\ where[t] = at[t]
      BY <2>8 DEF WakeReaders, WakeWriters, Closing, EndCloses
    <3>3. at' = Closed(t, where) /\ on'[t] = on[t] /\ shut'[t] = shut[t]
      BY <2>8 DEF EndCloses
    <3> HIDE DEF where
    <3>4. \/ (shut'[t] # << >> \/ ff'[t] # NoEnd) /\ at'[t] = where[t]
          \/ shut'[t] = << >> /\ ff'[t] = NoEnd /\ at'[t] \in {"user", "exit"}
      BY <3>1, <3>2, <3>3, ClosedPlace
    <3> QED BY <1>2, <3>2, <3>3, <3>4 DEF Placed, Reading, Writing, Closing
  <2>9. ASSUME NEW g \in Frame, WriteFails(t, g)
      PROVE  Placed(t)'
    BY <1>2, <1>3, <2>9 DEF WriteFails, Placed, Reading, Writing, Closing, WriteLock
  <2>10. ASSUME NEW g \in Frame, WriteWaits(t, g)
      PROVE  Placed(t)'
    BY <1>2, <1>3, <2>10 DEF WriteWaits, Placed, Reading, Writing, Closing, WakeReaders, WriteLock
  <2>11. ASSUME NEW g \in Frame, WritesByte(t, g)
      PROVE  Placed(t)'
    <3>1. /\ at'[t] = "writing" /\ at[t] \in {"write", "writing"} /\ on'[t] = on[t]
          /\ shut'[t] = shut[t] /\ ff'[t] = ff[t] /\ left'[t] = left[t] - 1
      BY <1>3, <2>11 DEF WritesByte, WriteLock
    <3>2. left'[t] < MaxWrite
      <4>1. left[t] \in 0 .. MaxWrite /\ MaxWrite \in Nat
        BY <1>3, PipeAssumption
      <4> QED BY <3>1, <4>1
    <3> QED BY <1>2, <3>1, <3>2 DEF Placed, Reading, Writing, Closing
  <2>12. ASSUME NEW g \in Frame, WriteDone(t, g)
      PROVE  Placed(t)'
    BY <1>2, <1>3, <2>12 DEF WriteDone, Placed, Reading, Writing, Closing, WakeReaders, WriteLock
  <2>13. CASE PipeSleep(t)
    BY <1>2, <1>3, <2>13 DEF PipeSleep, Placed, Reading, Writing, Closing, Goes
  <2>14. ASSUME NEW g \in Frame, ReadFails(t, g)
      PROVE  Placed(t)'
    BY <1>2, <1>3, <2>14 DEF ReadFails, Placed, Reading, Writing, Closing
  <2>15. ASSUME NEW g \in Frame, ReadWaits(t, g)
      PROVE  Placed(t)'
    BY <1>2, <1>3, <2>15 DEF ReadWaits, Placed, Reading, Writing, Closing
  <2>16. ASSUME NEW g \in Frame, NEW n \in Nat, ReadsBytes(t, g, n)
      PROVE  Placed(t)'
    BY <1>2, <1>3, <2>16 DEF ReadsBytes, Placed, Reading, Writing, Closing, WakeWriters
  <2>17. ASSUME NEW f \in File, Enters(t, f)
      PROVE  Placed(t)'
    <3>1. /\ at'[t] \in {"read", "write"} /\ at[t] = "user" /\ on'[t] = end[f].page
          /\ shut'[t] = shut[t] /\ ff'[t] = ff[t]
      BY <1>3, <2>17 DEF Enters
    <3>2. end[f].page # NoFrame
      <4>1. ref[f] > 0
        BY <2>17, HeldHasRef DEF Enters, PipeIInv
      <4> QED BY <4>1 DEF PipeIInv, EndInv
    <3> QED BY <1>2, <3>1, <3>2 DEF Placed, Reading, Writing, Closing
  <2>18. CASE KillTask(t)
    BY <1>2, <1>3, <2>18 DEF KillTask, Placed, Reading, Writing, Closing, Goes
  <2> QED BY <1>5, <2>1, <2>2, <2>3, <2>4, <2>5, <2>6, <2>7, <2>8, <2>9, <2>10, <2>11, <2>12, <2>13, <2>14, <2>15, <2>16, <2>17, <2>18 DEF OwnStep
<1>6. ASSUME NEW u \in Task \ {t}, ForkTask(t, u), NEW w \in Task PROVE Placed(w)'
  BY <1>2, <1>3, <1>6 DEF ForkTask, Goes, Placed, Reading, Writing, Closing
<1>7. ASSUME \A w \in Task : Placed(w)' PROVE PlaceInv'
  BY <1>7 DEF Placed, PlaceInv
<1> QED BY <1>1, <1>4, <1>5, <1>6, <1>7

(* The places of a list of files to close.                                 *)
Twice == {1, 2}

(* There are two of them.                                                  *)
LEMMA TwiceFacts == 1 \in Twice /\ 2 \in Twice /\ \A k \in Twice : k = 1 \/ k = 2
BY DEF Twice

(* Sets of pairs are equal when they have the same pairs.                  *)
LEMMA PairsEqual ==
  ASSUME NEW S, NEW T, NEW A \in SUBSET (S \X T), NEW B \in SUBSET (S \X T),
         \A x \in S, y \in T : <<x, y>> \in A <=> <<x, y>> \in B
  PROVE  A = B
OBVIOUS

(* The holders of a file, pair by pair, before and after a step.           *)
LEMMA Holders ==
  ASSUME NEW f
  PROVE  /\ Descriptors(f) \in SUBSET (Task \X Fd) /\ Descriptors(f)' \in SUBSET (Task \X Fd)
         /\ Closes(f) \in SUBSET (Task \X Twice) /\ Closes(f)' \in SUBSET (Task \X Twice)
         /\ \A u \in Task, d \in Fd : /\ <<u, d>> \in Descriptors(f) <=> ofile[u][d] = f
                                      /\ <<u, d>> \in Descriptors(f)' <=> ofile'[u][d] = f
         /\ \A u \in Task, k \in Twice :
              /\ <<u, k>> \in Closes(f) <=> k <= Len(shut[u]) /\ shut[u][k] = f
              /\ <<u, k>> \in Closes(f)' <=> k <= Len(shut'[u]) /\ shut'[u][k] = f
<1>1. /\ Descriptors(f) \in SUBSET (Task \X Fd) /\ Descriptors(f)' \in SUBSET (Task \X Fd)
      /\ Closes(f) \in SUBSET (Task \X Twice) /\ Closes(f)' \in SUBSET (Task \X Twice)
  BY DEF Descriptors, Closes, Twice
<1>2. \A u \in Task, d \in Fd : /\ <<u, d>> \in Descriptors(f) <=> ofile[u][d] = f
                                /\ <<u, d>> \in Descriptors(f)' <=> ofile'[u][d] = f
  BY DEF Descriptors
<1>3. \A u \in Task, k \in Twice :
              /\ <<u, k>> \in Closes(f) <=> k <= Len(shut[u]) /\ shut[u][k] = f
              /\ <<u, k>> \in Closes(f)' <=> k <= Len(shut'[u]) /\ shut'[u][k] = f
  BY DEF Closes, Twice
<1> QED BY <1>1, <1>2, <1>3

(* A step that writes v into descriptor i of t.                            *)
LEMMA DescriptorSet ==
  ASSUME PipeTypes, NEW t \in Task, NEW i \in Fd, NEW v, NEW f \in File,
         ofile' = [ofile EXCEPT ![t] = [@ EXCEPT ![i] = v]]
  PROVE  Descriptors(f)' = (Descriptors(f) \ {<<t, i>>}) \cup (IF v = f THEN {<<t, i>>} ELSE {})
<1> DEFINE B == (Descriptors(f) \ {<<t, i>>}) \cup (IF v = f THEN {<<t, i>>} ELSE {})
<1>1. B \in SUBSET (Task \X Fd) /\ Descriptors(f)' \in SUBSET (Task \X Fd)
  BY Holders
<1>2. ASSUME NEW u \in Task, NEW d \in Fd
      PROVE  <<u, d>> \in Descriptors(f)' <=> <<u, d>> \in B
  <2>1. /\ <<u, d>> \in Descriptors(f)' <=> ofile'[u][d] = f
        /\ <<u, d>> \in Descriptors(f) <=> ofile[u][d] = f
    BY Holders
  <2>2. ofile'[u][d] = IF u = t /\ d = i THEN v ELSE ofile[u][d]
    BY DEF PipeTypes
  <2> QED BY <2>1, <2>2
<1> HIDE DEF B
<1>3. Descriptors(f)' = B
  BY <1>1, <1>2, PairsEqual
<1> QED BY <1>3 DEF B

(* A step that gives t the list s of files to close.                       *)
LEMMA CloseSet ==
  ASSUME PipeTypes, NEW t \in Task, NEW s, NEW f \in File, shut' = [shut EXCEPT ![t] = s]
  PROVE  Closes(f)' = (Closes(f) \ {<<t, 1>>, <<t, 2>>})
                        \cup (IF 1 <= Len(s) /\ s[1] = f THEN {<<t, 1>>} ELSE {})
                        \cup (IF 2 <= Len(s) /\ s[2] = f THEN {<<t, 2>>} ELSE {})
<1> DEFINE B == (Closes(f) \ {<<t, 1>>, <<t, 2>>})
                  \cup (IF 1 <= Len(s) /\ s[1] = f THEN {<<t, 1>>} ELSE {})
                  \cup (IF 2 <= Len(s) /\ s[2] = f THEN {<<t, 2>>} ELSE {})
<1>1. ASSUME NEW u \in Task, NEW k \in Twice
      PROVE  <<u, k>> \in Closes(f)' <=> <<u, k>> \in B
  <2>1. shut'[u] = IF u = t THEN s ELSE shut[u]
    BY DEF PipeTypes
  <2>2. /\ <<u, k>> \in Closes(f) <=> k <= Len(shut[u]) /\ shut[u][k] = f
        /\ <<u, k>> \in Closes(f)' <=> k <= Len(shut'[u]) /\ shut'[u][k] = f
    BY Holders
  <2>3. CASE u = t
    <3>1. <<u, k>> \in Closes(f)' <=> k <= Len(s) /\ s[k] = f
      BY <2>1, <2>2, <2>3
    <3>2. <<u, k>> \in B <=> k <= Len(s) /\ s[k] = f
      BY <2>3, TwiceFacts
    <3> QED BY <3>1, <3>2
  <2>4. CASE u # t
    BY <2>1, <2>2, <2>4
  <2> QED BY <2>3, <2>4
<1>2. Closes(f)' \in SUBSET (Task \X Twice) /\ B \in SUBSET (Task \X Twice)
  BY Holders, TwiceFacts
<1> HIDE DEF B
<1>3. Closes(f)' = B
  BY <1>1, <1>2, PairsEqual
<1> QED BY <1>3 DEF B

(* f->ref after a step, from the holders after it.                         *)
Counted(f) == ref[f] = Cardinality(Descriptors(f)) + Cardinality(Closes(f))

(* Taking a file out of a descriptor makes it a file to close.             *)
LEMMA ShutCount ==
  ASSUME PipeIInv, NEW t \in Task, NEW i \in Fd, Shuts(t, i), NEW f \in File
  PROVE  Counted(f)'
<1>1. ref[f] = Cardinality(Descriptors(f)) + Cardinality(Closes(f)) /\ ref'[f] = ref[f] /\ ref[f] \in Nat
  BY DEF PipeIInv, RefCountsDescriptors, Shuts, PipeTypes
<1>2. PipeTypes /\ ofile[t][i] \in File /\ shut[t] = << >>
  BY DEF PipeIInv, Shuts
<1>3. Descriptors(f)' = (Descriptors(f) \ {<<t, i>>}) \cup (IF NoFile = f THEN {<<t, i>>} ELSE {})
  <2>1. ofile' = [ofile EXCEPT ![t] = [@ EXCEPT ![i] = NoFile]]
    BY DEF Shuts
  <2> QED BY <1>2, <2>1, DescriptorSet
<1>4. Descriptors(f)' = Descriptors(f) \ {<<t, i>>}
  BY <1>3, PipeAssumption DEF File
<1>5. \A k \in Twice : <<t, k>> \notin Closes(f)
  <2>1. \A k \in Twice : ~(k <= Len(shut[t]))
    BY <1>2, TwiceFacts
  <2> QED BY <2>1, Holders, Zenon
<1>6. <<t, i>> \in Descriptors(f) <=> ofile[t][i] = f
  BY Holders
<1> DEFINE B == Closes(f) \cup (IF ofile[t][i] = f THEN {<<t, 1>>} ELSE {})
<1>7. Closes(f)' = B
  <2> DEFINE s == <<ofile[t][i]>>
  <2>1. Len(s) = 1 /\ s[1] = ofile[t][i] /\ ~(2 <= Len(s))
    OBVIOUS
  <2>2. shut' = [shut EXCEPT ![t] = s]
    BY DEF Shuts
  <2> HIDE DEF s
  <2>3. Closes(f)' = (Closes(f) \ {<<t, 1>>, <<t, 2>>})
                        \cup (IF 1 <= Len(s) /\ s[1] = f THEN {<<t, 1>>} ELSE {})
                        \cup (IF 2 <= Len(s) /\ s[2] = f THEN {<<t, 2>>} ELSE {})
    BY <1>2, <2>2, CloseSet
  <2> QED BY <1>5, <2>1, <2>3, TwiceFacts
<1>8. /\ IsFiniteSet(Descriptors(f)) /\ Cardinality(Descriptors(f)) \in Nat
      /\ IsFiniteSet(Closes(f)) /\ Cardinality(Closes(f)) \in Nat
  BY HoldersFinite
<1>9. CASE ofile[t][i] = f
  <2>1. Closes(f)' = Closes(f) \cup {<<t, 1>>} /\ <<t, 1>> \notin Closes(f)
    BY <1>5, <1>7, <1>9, TwiceFacts
  <2>2. Cardinality(Closes(f)') = Cardinality(Closes(f)) + 1
    BY <1>8, <2>1, CountAdd
  <2>3. Cardinality(Descriptors(f)') = Cardinality(Descriptors(f)) - 1
    BY <1>4, <1>6, <1>8, <1>9, CountRemove
  <2> QED BY <1>1, <1>8, <2>2, <2>3 DEF Counted
<1>10. CASE ofile[t][i] # f
  <2>1. Closes(f)' = Closes(f) /\ Descriptors(f)' = Descriptors(f)
    BY <1>4, <1>6, <1>7, <1>10
  <2> QED BY <1>1, <2>1 DEF Counted
<1> QED BY <1>9, <1>10

(* The two ends go from the list to the descriptors.                       *)
LEMMA InstallCount ==
  ASSUME PipeIInv, NEW t \in Task, NEW i \in Fd, NEW j \in Fd, Installs(t, i, j), NEW f \in File
  PROVE  Counted(f)'
<1>1. ref[f] = Cardinality(Descriptors(f)) + Cardinality(Closes(f)) /\ ref'[f] = ref[f] /\ ref[f] \in Nat
  BY DEF PipeIInv, RefCountsDescriptors, Installs, PipeTypes
<1> DEFINE a == shut[t][1]
           b == shut[t][2]
<1>2. /\ PipeTypes /\ Len(shut[t]) = 2 /\ a \in File /\ b \in File
      /\ i # j /\ ofile[t][i] = NoFile /\ ofile[t][j] = NoFile /\ NoFile \notin File
  BY PipeAssumption DEF PipeIInv, Installs, File
<1>3. a # b
  <2>1. Private(t, 1)
    BY <1>2 DEF PipeIInv, ShutInv
  <2> QED BY <1>2, <2>1 DEF Private
<1>4. /\ <<t, i>> \notin Descriptors(f) /\ <<t, j>> \notin Descriptors(f)
  BY <1>2, Holders
<1>5. (<<t, 1>> \in Closes(f) <=> a = f) /\ (<<t, 2>> \in Closes(f) <=> b = f)
  BY <1>2, Holders, TwiceFacts
<1> DEFINE A == Descriptors(f) \cup (IF a = f THEN {<<t, i>>} ELSE IF b = f THEN {<<t, j>>} ELSE {})
           B == Closes(f) \ (IF a = f THEN {<<t, 1>>} ELSE IF b = f THEN {<<t, 2>>} ELSE {})
<1>6. Descriptors(f)' = A
  <2>1. A \in SUBSET (Task \X Fd) /\ Descriptors(f)' \in SUBSET (Task \X Fd)
    BY Holders
  <2>2. ASSUME NEW u \in Task, NEW d \in Fd
        PROVE  <<u, d>> \in Descriptors(f)' <=> <<u, d>> \in A
    <3>1. /\ <<u, d>> \in Descriptors(f)' <=> ofile'[u][d] = f
          /\ <<u, d>> \in Descriptors(f) <=> ofile[u][d] = f
      BY Holders
    <3>2. ofile'[u][d] = IF u = t /\ d = i THEN a ELSE IF u = t /\ d = j THEN b ELSE ofile[u][d]
      BY DEF PipeIInv, PipeTypes, Installs
    <3> QED BY <1>2, <1>3, <1>4, <3>1, <3>2
  <2> HIDE DEF A
  <2> QED BY <2>1, <2>2, PairsEqual
<1>7. Closes(f)' = B
  <2>1. shut' = [shut EXCEPT ![t] = << >>]
    BY DEF Installs
  <2>2. Closes(f)' = (Closes(f) \ {<<t, 1>>, <<t, 2>>})
                        \cup (IF 1 <= Len(<< >>) /\ << >>[1] = f THEN {<<t, 1>>} ELSE {})
                        \cup (IF 2 <= Len(<< >>) /\ << >>[2] = f THEN {<<t, 2>>} ELSE {})
    BY <1>2, <2>1, CloseSet
  <2>3. ~(1 <= Len(<< >>)) /\ ~(2 <= Len(<< >>))
    OBVIOUS
  <2> QED BY <1>3, <1>5, <2>2, <2>3
<1>8. /\ IsFiniteSet(Descriptors(f)) /\ Cardinality(Descriptors(f)) \in Nat
      /\ IsFiniteSet(Closes(f)) /\ Cardinality(Closes(f)) \in Nat
  BY HoldersFinite
<1>9. ASSUME NEW d \in {i, j}, NEW k \in Twice, <<t, d>> \notin Descriptors(f), <<t, k>> \in Closes(f),
             Descriptors(f)' = Descriptors(f) \cup {<<t, d>>}, Closes(f)' = Closes(f) \ {<<t, k>>}
      PROVE  Counted(f)'
  <2>1. Cardinality(Descriptors(f)') = Cardinality(Descriptors(f)) + 1
    BY <1>8, <1>9, CountAdd
  <2>2. Cardinality(Closes(f)') = Cardinality(Closes(f)) - 1
    BY <1>8, <1>9, CountRemove
  <2> QED BY <1>1, <1>8, <2>1, <2>2 DEF Counted
<1>10. CASE a = f
  BY <1>4, <1>5, <1>6, <1>7, <1>9, <1>10, TwiceFacts
<1>11. CASE a # f /\ b = f
  BY <1>4, <1>5, <1>6, <1>7, <1>9, <1>11, TwiceFacts
<1>12. CASE a # f /\ b # f
  <2>1. Descriptors(f)' = Descriptors(f) /\ Closes(f)' = Closes(f)
    BY <1>6, <1>7, <1>12
  <2> QED BY <1>1, <2>1 DEF Counted
<1> QED BY <1>10, <1>11, <1>12

(* dup adds a descriptor.                                                  *)
LEMMA DupCount ==
  ASSUME PipeIInv, NEW t \in Task, NEW e \in File, NEW i \in Fd, Dups(t, e, i), NEW f \in File
  PROVE  Counted(f)'
<1>1. ref[f] = Cardinality(Descriptors(f)) + Cardinality(Closes(f)) /\ ref[f] \in Nat
  BY DEF PipeIInv, RefCountsDescriptors, PipeTypes
<1>2. ref'[f] = IF f = e THEN ref[f] + 1 ELSE ref[f]
  BY DEF PipeIInv, PipeTypes, Dups
<1>3. PipeTypes /\ ofile[t][i] = NoFile /\ NoFile \notin File
  BY PipeAssumption DEF PipeIInv, Dups, File
<1>4. <<t, i>> \notin Descriptors(f)
  BY <1>3, Holders, TwiceFacts
<1>5. Descriptors(f)' = (Descriptors(f) \ {<<t, i>>}) \cup (IF e = f THEN {<<t, i>>} ELSE {})
  BY <1>3, DescriptorSet DEF Dups
<1>6. Closes(f)' = Closes(f)
  BY DEF Closes, Dups
<1>7. /\ IsFiniteSet(Descriptors(f)) /\ Cardinality(Descriptors(f)) \in Nat
      /\ Cardinality(Closes(f)) \in Nat
  BY HoldersFinite
<1>8. CASE e = f
  <2>1. Descriptors(f)' = Descriptors(f) \cup {<<t, i>>}
    BY <1>4, <1>5, <1>8
  <2>2. Cardinality(Descriptors(f)') = Cardinality(Descriptors(f)) + 1
    BY <1>4, <1>7, <2>1, CountAdd
  <2>3. ref'[f] = ref[f] + 1
    BY <1>2, <1>8
  <2> QED BY <1>1, <1>6, <1>7, <2>2, <2>3 DEF Counted
<1>9. CASE e # f
  <2>1. Descriptors(f)' = Descriptors(f)
    BY <1>4, <1>5, <1>9
  <2> QED BY <1>1, <1>2, <1>6, <1>9, <2>1 DEF Counted
<1> QED BY <1>8, <1>9

(* fork adds the child's descriptors, as many as the parent's.             *)
LEMMA ForkCount ==
  ASSUME PipeIInv, NEW t \in Task, NEW u \in Task \ {t}, ForkTask(t, u), NEW f \in File
  PROVE  Counted(f)'
<1> DEFINE D == {d \in Fd : ofile[t][d] = f}
           C == {u} \X D
<1>1. ref[f] = Cardinality(Descriptors(f)) + Cardinality(Closes(f)) /\ ref[f] \in Nat
  BY DEF PipeIInv, RefCountsDescriptors, PipeTypes
<1>2. ref'[f] = ref[f] + Cardinality(D)
  BY DEF ForkTask
<1>3. \A d \in Fd : ofile[u][d] = NoFile /\ NoFile # f
  BY PipeAssumption DEF PipeIInv, PlaceInv, ForkTask, File
<1>4. Descriptors(f)' = Descriptors(f) \cup C
  <2>1. Descriptors(f) \cup C \in SUBSET (Task \X Fd) /\ Descriptors(f)' \in SUBSET (Task \X Fd)
    BY Holders
  <2>2. ASSUME NEW w \in Task, NEW d \in Fd
        PROVE  <<w, d>> \in Descriptors(f)' <=> <<w, d>> \in Descriptors(f) \cup C
    <3>1. /\ <<w, d>> \in Descriptors(f)' <=> ofile'[w][d] = f
          /\ <<w, d>> \in Descriptors(f) <=> ofile[w][d] = f
      BY Holders
    <3>2. ofile'[w] = IF w = u THEN ofile[t] ELSE ofile[w]
      BY DEF PipeIInv, PipeTypes, ForkTask
    <3>3. <<w, d>> \in C <=> w = u /\ ofile[t][d] = f
      OBVIOUS
    <3> QED BY <1>3, <3>1, <3>2, <3>3
  <2> HIDE DEF C
  <2> QED BY <2>1, <2>2, PairsEqual
<1>5. Descriptors(f) \cap C = {}
  <2> SUFFICES ASSUME NEW x \in Descriptors(f) \cap C PROVE FALSE
    OBVIOUS
  <2>1. x = <<u, x[2]>> /\ x[2] \in Fd
    OBVIOUS
  <2>2. ofile[u][x[2]] = f
    <3>1. <<u, x[2]>> \in Descriptors(f)
      BY <2>1
    <3> QED BY <2>1, <3>1, Holders
  <2> QED BY <1>3, <2>1, <2>2
<1>6. IsFiniteSet(D)
  BY FdsFinite, FS_Subset
<1>7. IsFiniteSet(C) /\ Cardinality(C) = Cardinality(D) /\ Cardinality(D) \in Nat
  <2>1. IsFiniteSet({u}) /\ Cardinality({u}) = 1
    BY FS_Singleton
  <2> HIDE DEF D
  <2>2. IsFiniteSet(C) /\ Cardinality(C) = Cardinality({u}) * Cardinality(D)
    BY <1>6, <2>1, FS_Product
  <2>3. Cardinality(D) \in Nat
    BY <1>6, FS_CardinalityType
  <2> QED BY <2>1, <2>2, <2>3
<1>8. /\ IsFiniteSet(Descriptors(f)) /\ Cardinality(Descriptors(f)) \in Nat
      /\ Cardinality(Closes(f)) \in Nat
  BY HoldersFinite
<1>9. Closes(f)' = Closes(f)
  BY DEF Closes, ForkTask
<1> HIDE DEF C, D
<1>10. Cardinality(Descriptors(f)') = Cardinality(Descriptors(f)) + Cardinality(C)
  <2>1. Cardinality(Descriptors(f) \cup C)
          = Cardinality(Descriptors(f)) + Cardinality(C) - Cardinality(Descriptors(f) \cap C)
    BY <1>7, <1>8, FS_Union
  <2>2. Cardinality(Descriptors(f) \cap C) = 0
    BY <1>5, FS_EmptySet
  <2> QED BY <1>4, <1>7, <1>8, <2>1, <2>2
<1> QED BY <1>1, <1>2, <1>7, <1>8, <1>9, <1>10 DEF Counted

(* pipealloc's two files each have one holder, the caller's list.          *)
LEMMA AllocCount ==
  ASSUME PipeIInv, NEW t \in Task, NEW g \in Frame, NEW rf \in File, NEW wf \in File,
         Allocs(t, g, rf, wf), NEW f \in File
  PROVE  Counted(f)'
<1>1. ref[f] = Cardinality(Descriptors(f)) + Cardinality(Closes(f)) /\ ref[f] \in Nat
  BY DEF PipeIInv, RefCountsDescriptors, PipeTypes
<1>2. /\ PipeTypes /\ rf # wf /\ ref[rf] = 0 /\ ref[wf] = 0 /\ shut[t] = << >>
  BY DEF PipeIInv, Allocs
<1>3. ref'[f] = IF f \in {rf, wf} THEN 1 ELSE ref[f]
  BY <1>2 DEF PipeTypes, Allocs
<1>4. Descriptors(f)' = Descriptors(f)
  BY DEF Descriptors, Allocs
<1>5. \A k \in Twice : <<t, k>> \notin Closes(f)
  <2>1. \A k \in Twice : ~(k <= Len(shut[t]))
    BY <1>2, TwiceFacts
  <2> QED BY <2>1, Holders, Zenon
<1> DEFINE B == Closes(f) \cup (IF f = rf THEN {<<t, 1>>} ELSE IF f = wf THEN {<<t, 2>>} ELSE {})
<1>6. Closes(f)' = B
  <2> DEFINE s == <<rf, wf>>
  <2>1. Len(s) = 2 /\ s[1] = rf /\ s[2] = wf
    OBVIOUS
  <2>2. shut' = [shut EXCEPT ![t] = s]
    BY DEF Allocs
  <2> HIDE DEF s
  <2>3. Closes(f)' = (Closes(f) \ {<<t, 1>>, <<t, 2>>})
                        \cup (IF 1 <= Len(s) /\ s[1] = f THEN {<<t, 1>>} ELSE {})
                        \cup (IF 2 <= Len(s) /\ s[2] = f THEN {<<t, 2>>} ELSE {})
    BY <1>2, <2>2, CloseSet
  <2>4. 1 <= Len(s) /\ 2 <= Len(s)
    BY <2>1
  <2> QED BY <1>2, <1>5, <2>1, <2>3, <2>4, TwiceFacts
<1>7. /\ IsFiniteSet(Descriptors(f)) /\ Cardinality(Descriptors(f)) \in Nat
      /\ IsFiniteSet(Closes(f)) /\ Cardinality(Closes(f)) \in Nat
  BY HoldersFinite
<1>8. ASSUME NEW k \in Twice, f \in {rf, wf}, Closes(f)' = Closes(f) \cup {<<t, k>>}
      PROVE  Counted(f)'
  <2>1. Cardinality(Closes(f)') = Cardinality(Closes(f)) + 1
    BY <1>5, <1>7, <1>8, CountAdd
  <2>2. ref[f] = 0 /\ ref'[f] = 1
    BY <1>2, <1>3, <1>8
  <2> QED BY <1>1, <1>4, <1>7, <2>1, <2>2 DEF Counted
<1>9. CASE f = rf
  BY <1>6, <1>8, <1>9, TwiceFacts
<1>10. CASE f # rf /\ f = wf
  BY <1>6, <1>8, <1>10, TwiceFacts
<1>11. CASE f # rf /\ f # wf
  <2>1. Closes(f)' = Closes(f) /\ ref'[f] = ref[f]
    BY <1>3, <1>6, <1>11
  <2> QED BY <1>1, <1>4, <2>1 DEF Counted
<1> QED BY <1>9, <1>10, <1>11

(* fileclose takes the first file off the list and moves the second up.    *)
LEMMA DropCount ==
  ASSUME PipeIInv, NEW t \in Task, NEW e \in File, Drops(t, e), NEW f \in File
  PROVE  Counted(f)'
<1>1. ref[f] = Cardinality(Descriptors(f)) + Cardinality(Closes(f)) /\ ref[f] \in Nat
  BY DEF PipeIInv, RefCountsDescriptors, PipeTypes
<1>2. ref'[f] = IF f = e THEN ref[f] - 1 ELSE ref[f]
  BY DEF PipeIInv, PipeTypes, Drops
<1>3. PipeTypes /\ shut[t][1] = e /\ Len(shut[t]) \in {1, 2}
  BY DEF PipeIInv, Drops
<1>4. Descriptors(f)' = Descriptors(f)
  BY DEF Descriptors, Drops
<1>5. /\ IsFiniteSet(Descriptors(f)) /\ Cardinality(Descriptors(f)) \in Nat
      /\ IsFiniteSet(Closes(f)) /\ Cardinality(Closes(f)) \in Nat
  BY HoldersFinite
<1>6. /\ <<t, 1>> \in Closes(f) <=> e = f
      /\ <<t, 2>> \in Closes(f) <=> Len(shut[t]) = 2 /\ shut[t][2] = f
  BY <1>3, Holders, TwiceFacts
<1>7. Len(shut[t]) = 2 => shut[t][2] # e
  <2>1. SUFFICES ASSUME Len(shut[t]) = 2 PROVE shut[t][2] # e
    OBVIOUS
  <2>2. Private(t, 1)
    BY <2>1 DEF PipeIInv, ShutInv
  <2> QED BY <1>3, <2>1, <2>2 DEF Private
<1> DEFINE B == (Closes(f) \ {<<t, 1>>, <<t, 2>>})
                   \cup (IF Len(shut[t]) = 2 /\ shut[t][2] = f THEN {<<t, 1>>} ELSE {})
<1>8. Closes(f)' = B
  <2>1. PICK s : /\ shut' = [shut EXCEPT ![t] = s]
                 /\ \/ Len(shut[t]) = 1 /\ Len(s) = 0
                    \/ Len(shut[t]) = 2 /\ Len(s) = 1 /\ s[1] = shut[t][2]
    <3>1. CASE Len(shut[t]) = 1 /\ shut' = [shut EXCEPT ![t] = << >>]
      <4>1. Len(<< >>) = 0
        OBVIOUS
      <4> QED BY <3>1, <4>1, Zenon
    <3>2. CASE Len(shut[t]) = 2 /\ shut' = [shut EXCEPT ![t] = <<shut[t][2]>>]
      <4> DEFINE s == <<shut[t][2]>>
      <4>1. Len(s) = 1 /\ s[1] = shut[t][2]
        OBVIOUS
      <4>2. shut' = [shut EXCEPT ![t] = s]
        BY <3>2
      <4> HIDE DEF s
      <4> QED BY <3>2, <4>1, <4>2
    <3> QED BY <3>1, <3>2 DEF Drops
  <2>2. Closes(f)' = (Closes(f) \ {<<t, 1>>, <<t, 2>>})
                        \cup (IF 1 <= Len(s) /\ s[1] = f THEN {<<t, 1>>} ELSE {})
                        \cup (IF 2 <= Len(s) /\ s[2] = f THEN {<<t, 2>>} ELSE {})
    BY <1>3, <2>1, CloseSet
  <2>3. ~(2 <= Len(s)) /\ (1 <= Len(s) /\ s[1] = f <=> Len(shut[t]) = 2 /\ shut[t][2] = f)
    BY <2>1
  <2> QED BY <2>2, <2>3
<1>9. CASE f = e
  <2>1. Closes(f)' = Closes(f) \ {<<t, 1>>}
    BY <1>6, <1>7, <1>8, <1>9
  <2>2. Cardinality(Closes(f)') = Cardinality(Closes(f)) - 1
    BY <1>5, <1>6, <1>9, <2>1, CountRemove
  <2>3. ref'[f] = ref[f] - 1
    BY <1>2, <1>9
  <2> QED BY <1>1, <1>4, <1>5, <2>2, <2>3 DEF Counted
<1>10. CASE f # e /\ Len(shut[t]) = 2 /\ shut[t][2] = f
  <2> DEFINE C == Closes(f) \ {<<t, 2>>}
  <2>1. IsFiniteSet(C) /\ Cardinality(C) = Cardinality(Closes(f)) - 1
    BY <1>5, <1>6, <1>10, CountRemove
  <2>2. Closes(f)' = C \cup {<<t, 1>>} /\ <<t, 1>> \notin C
    BY <1>6, <1>8, <1>10, TwiceFacts
  <2> HIDE DEF C
  <2>3. Cardinality(Closes(f)') = Cardinality(C) + 1
    BY <2>1, <2>2, CountAdd
  <2>4. ref'[f] = ref[f]
    BY <1>2, <1>10
  <2> QED BY <1>1, <1>4, <1>5, <2>1, <2>3, <2>4 DEF Counted
<1>11. CASE f # e /\ ~(Len(shut[t]) = 2 /\ shut[t][2] = f)
  <2>1. Closes(f)' = Closes(f)
    BY <1>6, <1>8, <1>11
  <2> QED BY <1>1, <1>2, <1>4, <1>11, <2>1 DEF Counted
<1> QED BY <1>9, <1>10, <1>11

(* A step of t works on the file table, or leaves f->ref, the descriptors  *)
(* and the lists alone.                                                    *)
LEMMA TableOrNot ==
  ASSUME NEW t \in Task, OwnStep(t)
  PROVE  \/ \E i, j \in Fd : Installs(t, i, j)
         \/ \E i \in Fd : Shuts(t, i)
         \/ \E e \in File : Drops(t, e)
         \/ \E g \in Frame, rf, wf \in File : Allocs(t, g, rf, wf)
         \/ \E e \in File, i \in Fd : Dups(t, e, i)
         \/ UNCHANGED <<ref, ofile, shut>>
<1>1. InstallFails(t) \/ Exits(t) \/ PipeSleep(t) \/ KillTask(t) => UNCHANGED <<ref, ofile, shut>>
  BY DEF InstallFails, Exits, PipeSleep, KillTask
<1>2. \A g \in Frame, pi \in PipeContents : EndCloses(t, g, pi) => UNCHANGED <<ref, ofile, shut>>
  BY DEF EndCloses
<1>3. \A g \in Frame : WriteFails(t, g) \/ WriteWaits(t, g) \/ WritesByte(t, g) \/ WriteDone(t, g)
        => UNCHANGED <<ref, ofile, shut>>
  BY DEF WriteFails, WriteWaits, WritesByte, WriteDone
<1>4. \A g \in Frame, n \in Nat : ReadFails(t, g) \/ ReadWaits(t, g) \/ ReadsBytes(t, g, n)
        => UNCHANGED <<ref, ofile, shut>>
  BY DEF ReadFails, ReadWaits, ReadsBytes
<1>5. \A e \in File : Enters(t, e) => UNCHANGED <<ref, ofile, shut>>
  BY DEF Enters
<1>6. 0 \in Nat
  OBVIOUS
<1> QED BY <1>1, <1>2, <1>3, <1>4, <1>5, <1>6, Zenon DEF OwnStep

(* f->ref counts its holders after every step.                             *)
LEMMA RefStep ==
  ASSUME PipeIInv, PipeNext
  PROVE  RefCountsDescriptors'
<1> SUFFICES ASSUME NEW f \in File PROVE Counted(f)'
  BY DEF RefCountsDescriptors, Counted
<1>1. ASSUME UNCHANGED <<ref, ofile, shut>> PROVE Counted(f)'
  BY <1>1 DEF PipeIInv, RefCountsDescriptors, Counted, Descriptors, Closes
<1>2. PICK t \in Task : OwnStep(t) \/ \E u \in Task \ {t} : ForkTask(t, u)
  BY StepOrFork
<1>3. CASE OwnStep(t)
  <2> QED BY <1>1, <1>3, TableOrNot, InstallCount, ShutCount, DropCount, AllocCount, DupCount
<1> QED BY <1>2, <1>3, ForkCount

(* ShutInv for one task.                                                   *)
ShutOK(t) ==
  \/ \A k \in Twice : k <= Len(shut[t]) => Private(t, k)
  \/ Len(shut[t]) = 1 /\ \E d \in Fd : ofile[t][d] = NoFile

(* What it says, by places of the list.                                    *)
LEMMA ShutParts ==
  /\ ShutInv <=> \A t \in Task : ShutOK(t)
  /\ ShutInv' <=> \A t \in Task : ShutOK(t)'
BY DEF ShutInv, ShutOK, Twice

(* A file nobody else knows stays so while the descriptors and the lists   *)
(* of the others do not come to name it.                                   *)
LEMMA PrivateKept ==
  ASSUME NEW w \in Task, NEW k \in Twice, shut'[w][k] = shut[w][k],
         \A u \in Task, d \in Fd : ofile'[u][d] # shut[w][k],
         \A u \in Task, j \in Twice :
           j <= Len(shut'[u]) /\ shut'[u][j] = shut[w][k] => u = w /\ j = k
  PROVE  Private(w, k)'
BY DEF Private, Twice

(* Nobody has a private file in a descriptor, and it is on one list.       *)
LEMMA PrivateFacts ==
  ASSUME NEW w \in Task, NEW k \in Twice, Private(w, k)
  PROVE  /\ \A u \in Task, d \in Fd : ofile[u][d] # shut[w][k]
         /\ \A u \in Task, j \in Twice :
              j <= Len(shut[u]) /\ shut[u][j] = shut[w][k] => u = w /\ j = k
BY DEF Private, Twice

(* The list of a task after a step of another.                             *)
LEMMA ShutOther ==
  ASSUME PipeIInv, NEW t \in Task, OwnStep(t), NEW w \in Task \ {t}
  PROVE  ShutOK(w)'
<1>1. shut'[w] = shut[w] /\ ofile'[w] = ofile[w]
  BY OthersKeep DEF Kept
<1>2. \A u \in Task \ {t} : shut'[u] = shut[u] /\ ofile'[u] = ofile[u]
  BY OthersKeep DEF Kept
<1>3. ShutOK(w)
  BY ShutParts DEF PipeIInv
<1>4. CASE Len(shut[w]) = 1 /\ \E d \in Fd : ofile[w][d] = NoFile
  BY <1>1, <1>4 DEF ShutOK
<1>5. ASSUME NEW k \in Twice, k <= Len(shut[w]), Private(w, k)
      PROVE  Private(w, k)'
  <2> DEFINE f == shut[w][k]
  <2>1. /\ \A u \in Task, d \in Fd : ofile[u][d] # f
        /\ \A u \in Task, j \in Twice : j <= Len(shut[u]) /\ shut[u][j] = f => u = w /\ j = k
    BY <1>5, PrivateFacts
  <2>2. f \in File /\ ref[f] > 0
    <3>1. f \in File
      <4>1. shut[w] \in Seq(File) /\ k \in Nat /\ 1 <= k
        BY TwiceFacts DEF PipeIInv, PipeTypes
      <4> QED BY <1>5, <4>1
    <3>2. ref[f] > 0
      <4>1. k \in {1, 2}
        BY DEF Twice
      <4> QED BY <1>5, <3>1, <4>1, HeldHasRef DEF PipeIInv
    <3> QED BY <3>1, <3>2
  <2>3. f # NoFile
    BY <2>2, PipeAssumption DEF File
  <2> HIDE DEF f
  <2>4. /\ ofile \in [Task -> [Fd -> File \cup {NoFile}]] /\ shut \in [Task -> Seq(File)]
        /\ ref \in [File -> Nat]
    BY DEF PipeIInv, PipeTypes
  <2>5. \A j \in Twice : j <= Len(shut[t]) => shut[t][j] # f
    BY <2>1
  <2>6. (\A d \in Fd : ofile'[t][d] # f) /\ (\A j \in Twice : j <= Len(shut'[t]) => shut'[t][j] # f)
    <3>1. ASSUME NEW i \in Fd, NEW j \in Fd, Installs(t, i, j)
          PROVE  (\A d \in Fd : ofile'[t][d] # f) /\ (\A q \in Twice : q <= Len(shut'[t]) => shut'[t][q] # f)
      <4>1. shut[t][1] # f /\ shut[t][2] # f
        BY <2>5, <3>1, TwiceFacts DEF Installs
      <4>2. \A d \in Fd : ofile'[t][d] \in {shut[t][1], shut[t][2], ofile[t][d]}
        BY <2>4, <3>1 DEF Installs
      <4>3. shut'[t] = << >>
        BY <2>4, <3>1 DEF Installs
      <4>4. \A q \in Twice : ~(q <= Len(shut'[t]))
        BY <4>3, TwiceFacts
      <4> QED BY <2>1, <4>1, <4>2, <4>4
    <3>2. ASSUME NEW i \in Fd, Shuts(t, i)
          PROVE  (\A d \in Fd : ofile'[t][d] # f) /\ (\A q \in Twice : q <= Len(shut'[t]) => shut'[t][q] # f)
      <4>1. \A d \in Fd : ofile'[t][d] \in {NoFile, ofile[t][d]}
        BY <2>4, <3>2 DEF Shuts
      <4> DEFINE v == ofile[t][i]
      <4>2. shut'[t] = <<v>>
        BY <2>4, <3>2 DEF Shuts
      <4>3. v # f
        BY <2>1
      <4> HIDE DEF v
      <4>4. Len(shut'[t]) = 1 /\ shut'[t][1] = v
        BY <4>2
      <4>5. \A q \in Twice : q <= Len(shut'[t]) => q = 1
        BY <4>4, TwiceFacts
      <4>6. \A q \in Twice : q <= Len(shut'[t]) => shut'[t][q] # f
        BY <4>3, <4>4, <4>5
      <4> QED BY <2>1, <2>3, <4>1, <4>6
    <3>3. ASSUME NEW e \in File, Drops(t, e)
          PROVE  (\A d \in Fd : ofile'[t][d] # f) /\ (\A q \in Twice : q <= Len(shut'[t]) => shut'[t][q] # f)
      <4>1. ofile' = ofile
        BY <3>3 DEF Drops
      <4>2. shut'[t] = << >> \/ (Len(shut[t]) = 2 /\ shut'[t] = <<shut[t][2]>>)
        BY <2>4, <3>3 DEF Drops
      <4>3. CASE shut'[t] = << >>
        <5>1. \A q \in Twice : ~(q <= Len(shut'[t]))
          BY <4>3, TwiceFacts
        <5> QED BY <2>1, <4>1, <5>1
      <4>4. CASE Len(shut[t]) = 2 /\ shut'[t] = <<shut[t][2]>>
        <5> DEFINE v == shut[t][2]
        <5>1. v # f
          BY <2>5, <4>4, TwiceFacts
        <5>2. shut'[t] = <<v>>
          BY <4>4
        <5> HIDE DEF v
        <5>3. Len(shut'[t]) = 1 /\ shut'[t][1] = v
          BY <5>2
        <5>4. \A q \in Twice : q <= Len(shut'[t]) => q = 1
          BY <5>3, TwiceFacts
        <5>5. \A q \in Twice : q <= Len(shut'[t]) => shut'[t][q] # f
          BY <5>1, <5>3, <5>4
        <5> QED BY <2>1, <4>1, <5>5
      <4> QED BY <4>2, <4>3, <4>4
    <3>4. ASSUME NEW g \in Frame, NEW rf \in File, NEW wf \in File, Allocs(t, g, rf, wf)
          PROVE  (\A d \in Fd : ofile'[t][d] # f) /\ (\A q \in Twice : q <= Len(shut'[t]) => shut'[t][q] # f)
      <4>1. ofile' = ofile /\ ref[rf] = 0 /\ ref[wf] = 0 /\ shut'[t] = <<rf, wf>>
        BY <2>4, <3>4 DEF Allocs
      <4>2. rf # f /\ wf # f
        BY <2>2, <4>1
      <4>3. shut'[t][1] = rf /\ shut'[t][2] = wf
        BY <4>1
      <4>4. \A q \in Twice : shut'[t][q] # f
        BY <4>2, <4>3, TwiceFacts
      <4> QED BY <2>1, <4>1, <4>4
    <3>5. ASSUME NEW e \in File, NEW i \in Fd, Dups(t, e, i)
          PROVE  (\A d \in Fd : ofile'[t][d] # f) /\ (\A q \in Twice : q <= Len(shut'[t]) => shut'[t][q] # f)
      <4>1. \A d \in Fd : ofile'[t][d] \in {e, ofile[t][d]}
        BY <2>4, <3>5 DEF Dups
      <4>2. e # f
        BY <2>1, <3>5 DEF Dups
      <4>3. shut' = shut
        BY <3>5 DEF Dups
      <4> QED BY <2>1, <2>5, <4>1, <4>2, <4>3
    <3>6. ASSUME UNCHANGED <<ofile, shut>>
          PROVE  (\A d \in Fd : ofile'[t][d] # f) /\ (\A q \in Twice : q <= Len(shut'[t]) => shut'[t][q] # f)
      BY <2>1, <2>5, <3>6
    <3> QED BY <3>1, <3>2, <3>3, <3>4, <3>5, <3>6, TableOrNot
  <2>7. \A u \in Task, d \in Fd : ofile'[u][d] # f
    BY <1>2, <2>1, <2>6
  <2>8. \A u \in Task, j \in Twice : j <= Len(shut'[u]) /\ shut'[u][j] = f => u = w /\ j = k
    BY <1>2, <2>1, <2>6
  <2> QED BY <1>1, <2>7, <2>8, PrivateKept DEF f
<1>6. CASE \A k \in Twice : k <= Len(shut[w]) => Private(w, k)
  BY <1>1, <1>5, <1>6 DEF ShutOK
<1> QED BY <1>3, <1>4, <1>6 DEF ShutOK

(* The list of a task after a step of its own.                             *)
LEMMA ShutSelf ==
  ASSUME PipeIInv, NEW t \in Task, OwnStep(t)
  PROVE  ShutOK(t)'
<1>0. /\ ofile \in [Task -> [Fd -> File \cup {NoFile}]] /\ shut \in [Task -> Seq(File)]
      /\ ref \in [File -> Nat] /\ ShutOK(t) /\ NoFile \notin File
  BY ShutParts, PipeAssumption DEF PipeIInv, PipeTypes, File
<1>1. ASSUME shut'[t] = << >> PROVE ShutOK(t)'
  <2>1. \A k \in Twice : ~(k <= Len(shut'[t]))
    BY <1>1, TwiceFacts
  <2> QED BY <2>1 DEF ShutOK
<1>2. ASSUME NEW i \in Fd, NEW j \in Fd, Installs(t, i, j) PROVE shut'[t] = << >>
  BY <1>0, <1>2 DEF Installs
<1>3. ASSUME NEW i \in Fd, Shuts(t, i) PROVE ShutOK(t)'
  <2>1. ofile'[t][i] = NoFile /\ shut'[t] = <<ofile[t][i]>>
    BY <1>0, <1>3 DEF Shuts
  <2>2. Len(shut'[t]) = 1
    BY <2>1
  <2> QED BY <2>1, <2>2 DEF ShutOK
<1>4. ASSUME NEW e \in File, Drops(t, e) PROVE ShutOK(t)'
  <2>1. CASE Len(shut[t]) = 1
    BY <1>0, <1>1, <1>4, <2>1 DEF Drops
  <2>2. CASE Len(shut[t]) = 2
    <3>1. Private(t, 2)
      BY <1>0, <2>2, TwiceFacts DEF ShutOK
    <3> DEFINE v == shut[t][2]
    <3>2. /\ \A u \in Task, d \in Fd : ofile[u][d] # v
          /\ \A u \in Task, j \in Twice : j <= Len(shut[u]) /\ shut[u][j] = v => u = t /\ j = 2
      BY <3>1, PrivateFacts, TwiceFacts
    <3>3. shut'[t] = <<v>> /\ ofile' = ofile
      BY <1>0, <1>4, <2>2 DEF Drops
    <3>4. \A u \in Task \ {t} : shut'[u] = shut[u]
      BY OthersKeep DEF Kept
    <3> HIDE DEF v
    <3>5. Len(shut'[t]) = 1 /\ shut'[t][1] = v
      BY <3>3
    <3>6. \A j \in Twice : j <= Len(shut'[t]) => j = 1
      BY <3>5, TwiceFacts
    <3>7. \A u \in Task, d \in Fd : ofile'[u][d] # v
      BY <3>2, <3>3
    <3>8. \A u \in Task, j \in Twice : j <= Len(shut'[u]) /\ shut'[u][j] = v => u = t /\ j = 1
      BY <3>2, <3>4, <3>6
    <3>9. Private(t, 1)'
      BY <3>5, <3>7, <3>8 DEF Private, Twice
    <3> QED BY <3>6, <3>9 DEF ShutOK
  <2> QED BY <1>4, <2>1, <2>2 DEF Drops
<1>5. ASSUME NEW g \in Frame, NEW rf \in File, NEW wf \in File, Allocs(t, g, rf, wf)
      PROVE  ShutOK(t)'
  <2>1. ofile' = ofile /\ ref[rf] = 0 /\ ref[wf] = 0 /\ shut'[t] = <<rf, wf>> /\ rf # wf
    BY <1>0, <1>5 DEF Allocs
  <2>2. shut'[t][1] = rf /\ shut'[t][2] = wf
    BY <2>1
  <2>3. ofile' = ofile /\ ref[rf] = 0 /\ ref[wf] = 0 /\ rf # wf
    BY <2>1
  <2>4. \A u \in Task \ {t} : shut'[u] = shut[u]
    BY OthersKeep DEF Kept
  <2>5. /\ \A u \in Task, d \in Fd : ofile[u][d] # rf /\ ofile[u][d] # wf
        /\ \A u \in Task, k \in Twice : k <= Len(shut[u]) => shut[u][k] # rf /\ shut[u][k] # wf
    BY <2>3, FreeHasNoHolder DEF PipeIInv, Twice
  <2>6. Private(t, 1)' /\ Private(t, 2)'
    <3>1. \A u \in Task, d \in Fd : ofile'[u][d] # rf /\ ofile'[u][d] # wf
      BY <2>3, <2>5
    <3>2. \A u \in Task, j \in Twice : j <= Len(shut'[u]) /\ shut'[u][j] = rf => u = t /\ j = 1
      BY <2>2, <2>3, <2>4, <2>5, TwiceFacts
    <3>3. \A u \in Task, j \in Twice : j <= Len(shut'[u]) /\ shut'[u][j] = wf => u = t /\ j = 2
      BY <2>2, <2>3, <2>4, <2>5, TwiceFacts
    <3> QED BY <2>2, <3>1, <3>2, <3>3 DEF Private, Twice
  <2> QED BY <2>6, TwiceFacts DEF ShutOK
<1>6. ASSUME NEW e \in File, NEW i \in Fd, Dups(t, e, i) PROVE shut'[t] = << >>
  BY <1>6 DEF Dups, PipeIInv, PlaceInv, Closing
<1>7. ASSUME UNCHANGED <<ofile, shut>> PROVE ShutOK(t)'
  BY <1>0, <1>7 DEF ShutOK, Private
<1> QED BY <1>1, <1>2, <1>3, <1>4, <1>5, <1>6, <1>7, TableOrNot

(* Files to close come from a free descriptor or were never in one.        *)
LEMMA ShutStep ==
  ASSUME PipeIInv, PipeNext
  PROVE  ShutInv'
<1>1. PICK t \in Task : OwnStep(t) \/ \E u \in Task \ {t} : ForkTask(t, u)
  BY StepOrFork
<1>2. CASE OwnStep(t)
  BY <1>2, ShutOther, ShutSelf, ShutParts
<1>3. ASSUME NEW u \in Task \ {t}, ForkTask(t, u) PROVE ShutInv'
  <2>1. ofile' = [ofile EXCEPT ![u] = ofile[t]] /\ shut' = shut /\ shut[u] = << >>
    BY <1>3 DEF ForkTask, PipeIInv, PlaceInv, Closing
  <2>2. \A x \in Task, d \in Fd : ofile'[x][d] = IF x = u THEN ofile[t][d] ELSE ofile[x][d]
    BY <2>1 DEF PipeIInv, PipeTypes
  <2>3. ASSUME NEW w \in Task PROVE ShutOK(w)'
    <3>1. ShutOK(w)
      BY ShutParts DEF PipeIInv
    <3>2. ASSUME NEW k \in Twice, Private(w, k) PROVE Private(w, k)'
      <4>1. /\ \A x \in Task, d \in Fd : ofile[x][d] # shut[w][k]
            /\ \A x \in Task, j \in Twice :
                 j <= Len(shut[x]) /\ shut[x][j] = shut[w][k] => x = w /\ j = k
        BY <3>2, PrivateFacts
      <4>2. \A x \in Task, d \in Fd : ofile'[x][d] # shut[w][k]
        BY <2>2, <4>1
      <4>3. \A x \in Task, j \in Twice :
              j <= Len(shut'[x]) /\ shut'[x][j] = shut[w][k] => x = w /\ j = k
        BY <2>1, <4>1
      <4> QED BY <2>1, <4>2, <4>3, PrivateKept
    <3>3. CASE \A k \in Twice : k <= Len(shut[w]) => Private(w, k)
      BY <2>1, <3>2, <3>3 DEF ShutOK
    <3>4. CASE Len(shut[w]) = 1 /\ \E d \in Fd : ofile[w][d] = NoFile
      <4>1. w # u
        <5>1. Len(<< >>) # 1
          OBVIOUS
        <5> QED BY <2>1, <3>4, <5>1
      <4> QED BY <2>1, <2>2, <3>4, <4>1 DEF ShutOK
    <3> QED BY <3>1, <3>3, <3>4 DEF ShutOK
  <2> QED BY <2>3, ShutParts
<1> QED BY <1>1, <1>2, <1>3

(* End b of the pipe in page g is held.                                    *)
Holds(g, b) ==
  \/ \E f \in File : ref[f] > 0 /\ end[f] = [page |-> g, writable |-> b]
  \/ \E t \in Task : ff[t] = [page |-> g, writable |-> b]

(* EndsHeld, end by end.                                                   *)
LEMMA EndsMem ==
  ASSUME PipeTypes, NEW g
  PROVE  EndsHeld(g) \in SUBSET BOOLEAN /\ \A b \in BOOLEAN : b \in EndsHeld(g) <=> Holds(g, b)
<1>1. ASSUME NEW e \in End, NEW b PROVE e = [page |-> g, writable |-> b] <=> e.page = g /\ e.writable = b
  BY DEF End
<1>2. /\ \A f \in File : end[f] \in End /\ end[f].writable \in BOOLEAN
      /\ \A t \in Task : ff[t] \in End /\ ff[t].writable \in BOOLEAN
  BY DEF PipeTypes, End
<1>3. EndsHeld(g) \in SUBSET BOOLEAN
  BY <1>2 DEF EndsHeld
<1>4. ASSUME NEW b \in BOOLEAN PROVE b \in EndsHeld(g) <=> Holds(g, b)
  <2>1. b \in EndsHeld(g) <=> \/ \E f \in File : ref[f] > 0 /\ end[f].page = g /\ end[f].writable = b
                             \/ \E t \in Task : ff[t].page = g /\ ff[t].writable = b
    BY DEF EndsHeld
  <2> QED BY <1>1, <1>2, <2>1 DEF Holds
<1> QED BY <1>3, <1>4

(* The part of PageLivesWithItsEnds about page g.                          *)
PageOK(g) ==
  /\ g \in live <=> Holds(g, FALSE) \/ Holds(g, TRUE)
  /\ g \in live => (pipe[g].readopen <=> Holds(g, FALSE)) /\ (pipe[g].writeopen <=> Holds(g, TRUE))

(* It says the same.                                                       *)
LEMMA PageParts ==
  ASSUME PipeTypes
  PROVE  PageLivesWithItsEnds <=> /\ \A g \in Frame : PageOK(g)
                                  /\ \A t \in Task : on[t] # NoFrame => on[t] \in live
<1>1. ASSUME NEW g \in Frame
      PROVE  PageOK(g) <=> /\ g \in live <=> EndsHeld(g) # {}
                           /\ g \in live => /\ pipe[g].readopen <=> FALSE \in EndsHeld(g)
                                            /\ pipe[g].writeopen <=> TRUE \in EndsHeld(g)
  <2>1. /\ FALSE \in EndsHeld(g) <=> Holds(g, FALSE)
        /\ TRUE \in EndsHeld(g) <=> Holds(g, TRUE)
        /\ EndsHeld(g) # {} <=> Holds(g, FALSE) \/ Holds(g, TRUE)
    BY EndsMem
  <2> QED BY <2>1 DEF PageOK
<1> QED BY <1>1 DEF PageLivesWithItsEnds

(* A step that moves no end.                                               *)
EndsKept ==
  /\ UNCHANGED <<end, ff, live>>
  /\ \A f \in File : ref'[f] > 0 <=> ref[f] > 0
  /\ \A f \in File : ref'[f] \in Nat /\ ref[f] \in Nat
  /\ \A g \in Frame : /\ pipe'[g].readopen = pipe[g].readopen
                      /\ pipe'[g].writeopen = pipe[g].writeopen

(* All steps but pipealloc, fileclose and pipeclose.                       *)
LEMMA EndsOrNot ==
  ASSUME PipeIInv, NEW t \in Task, OwnStep(t) \/ \E u \in Task \ {t} : ForkTask(t, u), PipeTypes'
  PROVE  \/ \E f \in File : Drops(t, f)
         \/ \E g \in Frame, rf, wf \in File : Allocs(t, g, rf, wf)
         \/ \E g \in Frame, pi \in PipeContents : EndCloses(t, g, pi)
         \/ EndsKept
<1>0. /\ \A f \in File : ref'[f] \in Nat /\ ref[f] \in Nat
      /\ ref \in [File -> Nat] /\ pipe \in [Frame -> PipeContents]
  BY DEF PipeIInv, PipeTypes
<1>1. ASSUME UNCHANGED <<ref, end, ff, live, pipe>> PROVE EndsKept
  BY <1>0, <1>1 DEF EndsKept
<1>2. ASSUME NEW f \in File, NEW i \in Fd, Dups(t, f, i) PROVE EndsKept
  <2>1. ref[f] > 0
    BY <1>2, HeldHasRef DEF PipeIInv, Dups
  <2>2. \A e \in File : ref'[e] > 0 <=> ref[e] > 0
    BY <1>0, <1>2, <2>1 DEF Dups
  <2> QED BY <1>0, <1>2, <2>2 DEF EndsKept, Dups
<1>3. ASSUME NEW u \in Task \ {t}, ForkTask(t, u) PROVE EndsKept
  <2>1. ASSUME NEW f \in File PROVE ref'[f] > 0 <=> ref[f] > 0
    <3> DEFINE D == {d \in Fd : ofile[t][d] = f}
    <3>1. IsFiniteSet(D)
      BY FdsFinite, FS_Subset
    <3>2. ref'[f] = ref[f] + Cardinality(D)
      BY <1>3 DEF ForkTask
    <3>3. D # {} => ref[f] > 0
      BY HeldHasRef DEF PipeIInv
    <3> HIDE DEF D
    <3>4. Cardinality(D) \in Nat /\ (D = {} => Cardinality(D) = 0)
      BY <3>1, FS_CardinalityType, FS_EmptySet
    <3> QED BY <1>0, <3>2, <3>3, <3>4
  <2> QED BY <1>0, <1>3, <2>1 DEF EndsKept, ForkTask
<1>4. ASSUME NEW g \in Frame, WritesByte(t, g) PROVE EndsKept
  <2>1. pipe[g] \in PipeContents
    BY <1>0
  <2>2. \A h \in Frame : pipe'[h].readopen = pipe[h].readopen /\ pipe'[h].writeopen = pipe[h].writeopen
    BY <1>0, <1>4, <2>1 DEF WritesByte, PipeContents
  <2> QED BY <1>0, <1>4, <2>2 DEF EndsKept, WritesByte
<1>5. ASSUME NEW g \in Frame, NEW n \in Nat, ReadsBytes(t, g, n) PROVE EndsKept
  <2>1. pipe[g] \in PipeContents
    BY <1>0
  <2>2. \A h \in Frame : pipe'[h].readopen = pipe[h].readopen /\ pipe'[h].writeopen = pipe[h].writeopen
    BY <1>0, <1>5, <2>1 DEF ReadsBytes, PipeContents
  <2> QED BY <1>0, <1>5, <2>2 DEF EndsKept, ReadsBytes
<1>6. \A i, j \in Fd : Installs(t, i, j) => UNCHANGED <<ref, end, ff, live, pipe>>
  BY DEF Installs
<1>7. \A i \in Fd : Shuts(t, i) => UNCHANGED <<ref, end, ff, live, pipe>>
  BY DEF Shuts
<1>8. InstallFails(t) \/ Exits(t) \/ PipeSleep(t) \/ KillTask(t) => UNCHANGED <<ref, end, ff, live, pipe>>
  BY DEF InstallFails, Exits, PipeSleep, KillTask
<1>9. \A g \in Frame : WriteFails(t, g) \/ WriteWaits(t, g) \/ WriteDone(t, g) \/ ReadFails(t, g) \/ ReadWaits(t, g)
         => UNCHANGED <<ref, end, ff, live, pipe>>
  BY DEF WriteFails, WriteWaits, WriteDone, ReadFails, ReadWaits
<1>10. \A e \in File : Enters(t, e) => UNCHANGED <<ref, end, ff, live, pipe>>
  BY DEF Enters
<1>11. CASE OwnStep(t)
  BY <1>1, <1>2, <1>4, <1>5, <1>6, <1>7, <1>8, <1>9, <1>10, <1>11, Zenon DEF OwnStep
<1> QED BY <1>3, <1>11

(* A page that is not live has no end.                                     *)
LEMMA DeadPage ==
  ASSUME PipeIInv, NEW g \in Frame, g \notin live
  PROVE  /\ \A f \in File, b \in BOOLEAN : end[f] # [page |-> g, writable |-> b]
         /\ \A t \in Task, b \in BOOLEAN : ff[t] # [page |-> g, writable |-> b]
<1>1. PageOK(g)
  BY PageParts DEF PipeIInv
<1>2. ~Holds(g, TRUE) /\ ~Holds(g, FALSE)
  BY <1>1 DEF PageOK
<1>3. \A t \in Task, b \in BOOLEAN : ff[t] # [page |-> g, writable |-> b]
  BY <1>2 DEF Holds
<1>4. ASSUME NEW f \in File, NEW b \in BOOLEAN, end[f] = [page |-> g, writable |-> b] PROVE FALSE
  <2>1. end[f].page = g /\ NoFrame # g
    BY <1>4, PipeAssumption
  <2>2. ref[f] # 0
    BY <2>1 DEF PipeIInv, EndInv, NoEnd
  <2>3. ref[f] > 0
    BY <2>2 DEF PipeIInv, PipeTypes
  <2> QED BY <1>2, <1>4, <2>3 DEF Holds
<1> QED BY <1>3, <1>4

(* An end is held once, after every step.                                  *)
LEMMA EndStep ==
  ASSUME PipeIInv, PipeNext
  PROVE  EndInv'
<1>0. PipeTypes' /\ PipeTypes /\ EndInv
  BY TypesStep DEF PipeIInv
<1>1. PICK t \in Task : OwnStep(t) \/ \E u \in Task \ {t} : ForkTask(t, u)
  BY StepOrFork
<1>2. ref \in [File -> Nat] /\ end \in [File -> End] /\ ff \in [Task -> End]
  BY <1>0 DEF PipeTypes
<1>3. CASE EndsKept
  <2>1. UNCHANGED <<end, ff>> /\ \A f \in File : /\ ref'[f] > 0 <=> ref[f] > 0
                                                 /\ ref'[f] = 0 <=> ref[f] = 0
    BY <1>3 DEF EndsKept
  <2> QED BY <1>0, <2>1 DEF EndInv
<1>4. ASSUME NEW f \in File, Drops(t, f) PROVE EndInv'
  <2>1. ref'[f] = ref[f] - 1 /\ ref[f] \in Nat /\ ref[f] > 0 /\ \A e \in File \ {f} : ref'[e] = ref[e]
    BY <1>2, <1>4 DEF Drops
  <2>2. CASE ref[f] > 1 /\ ff' = ff /\ end' = end
    <3>1. \A e \in File : (ref'[e] > 0 <=> ref[e] > 0) /\ (ref'[e] = 0 <=> ref[e] = 0)
      BY <2>1, <2>2
    <3> QED BY <1>0, <2>2, <3>1 DEF EndInv
  <2>3. CASE ref[f] = 1 /\ ff' = [ff EXCEPT ![t] = end[f]] /\ end' = [end EXCEPT ![f] = NoEnd]
    <3>1. /\ ref'[f] = 0 /\ end'[f] = NoEnd /\ ff'[t] = end[f] /\ end[f] # NoEnd /\ end[f].page # NoFrame
          /\ \A e \in File \ {f} : end'[e] = end[e] /\ ref'[e] = ref[e]
          /\ \A u \in Task \ {t} : ff'[u] = ff[u]
      <4>1. end[f].page # NoFrame
        BY <1>0, <2>1 DEF EndInv
      <4>2. end[f] # NoEnd
        BY <4>1 DEF NoEnd
      <4> QED BY <1>2, <2>1, <2>3, <4>1, <4>2
    <3>2. \A e \in File : /\ ref'[e] = 0 => end'[e] = NoEnd
                          /\ ref'[e] > 0 => end'[e].page # NoFrame
      BY <1>0, <3>1 DEF EndInv
    <3>3. \A u \in Task : ff'[u].page = NoFrame => ff'[u] = NoEnd
      BY <1>0, <3>1 DEF EndInv
    <3>4. \A e, h \in File : end'[e] = end'[h] /\ end'[e] # NoEnd => e = h
      BY <1>0, <3>1 DEF EndInv
    <3>5. \A u, w \in Task : ff'[u] = ff'[w] /\ ff'[u] # NoEnd => u = w
      BY <1>0, <3>1 DEF EndInv
    <3>6. \A u \in Task, e \in File : ff'[u] = end'[e] => ff'[u] = NoEnd
      BY <1>0, <3>1 DEF EndInv
    <3> QED BY <3>2, <3>3, <3>4, <3>5, <3>6 DEF EndInv
  <2> QED BY <1>4, <2>2, <2>3 DEF Drops
<1>5. ASSUME NEW g \in Frame, NEW rf \in File, NEW wf \in File, Allocs(t, g, rf, wf) PROVE EndInv'
  <2> DEFINE r == [page |-> g, writable |-> FALSE]
             w == [page |-> g, writable |-> TRUE]
  <2>1. /\ ref'[rf] = 1 /\ ref'[wf] = 1 /\ end'[rf] = r /\ end'[wf] = w /\ rf # wf
        /\ \A e \in File \ {rf, wf} : ref'[e] = ref[e] /\ end'[e] = end[e]
        /\ ff' = ff
    BY <1>2, <1>5 DEF Allocs
  <2>2. /\ \A e \in File : end[e] # r /\ end[e] # w
        /\ \A u \in Task : ff[u] # r /\ ff[u] # w
    BY <1>5, DeadPage DEF Allocs
  <2>3. r # w /\ r.page # NoFrame /\ w.page # NoFrame
    BY PipeAssumption
  <2> HIDE DEF r, w
  <2>4. \A e \in File : /\ ref'[e] = 0 => end'[e] = NoEnd
                        /\ ref'[e] > 0 => end'[e].page # NoFrame
    BY <1>0, <2>1, <2>3 DEF EndInv
  <2>5. \A u \in Task : ff'[u].page = NoFrame => ff'[u] = NoEnd
    BY <1>0, <2>1 DEF EndInv
  <2>6. \A e, h \in File : end'[e] = end'[h] /\ end'[e] # NoEnd => e = h
    BY <1>0, <2>1, <2>2, <2>3 DEF EndInv
  <2>7. \A u, x \in Task : ff'[u] = ff'[x] /\ ff'[u] # NoEnd => u = x
    BY <1>0, <2>1 DEF EndInv
  <2>8. \A u \in Task, e \in File : ff'[u] = end'[e] => ff'[u] = NoEnd
    BY <1>0, <2>1, <2>2 DEF EndInv
  <2> QED BY <2>4, <2>5, <2>6, <2>7, <2>8 DEF EndInv
<1>6. ASSUME NEW g \in Frame, NEW pi \in PipeContents, EndCloses(t, g, pi) PROVE EndInv'
  <2>1. /\ ref' = ref /\ end' = end /\ ff'[t] = NoEnd /\ \A u \in Task \ {t} : ff'[u] = ff[u]
    BY <1>2, <1>6 DEF EndCloses
  <2> QED BY <1>0, <2>1 DEF EndInv
<1> QED BY <1>0, <1>1, <1>3, <1>4, <1>5, <1>6, EndsOrNot

(* A page lives with its ends, after every step.                           *)
LEMMA PageStep ==
  ASSUME PipeIInv, PipeNext, NEW h \in Frame
  PROVE  PageOK(h)'
<1>0. PipeTypes' /\ PipeTypes /\ EndInv /\ PageOK(h)
  BY TypesStep, PageParts DEF PipeIInv
<1>1. PICK t \in Task : OwnStep(t) \/ \E u \in Task \ {t} : ForkTask(t, u)
  BY StepOrFork
<1>2. /\ ref \in [File -> Nat] /\ end \in [File -> End] /\ ff \in [Task -> End]
      /\ pipe \in [Frame -> PipeContents]
  BY <1>0 DEF PipeTypes
<1>3. CASE EndsKept
  <2>1. \A b \in BOOLEAN : Holds(h, b)' <=> Holds(h, b)
    BY <1>3 DEF EndsKept, Holds
  <2> QED BY <1>0, <1>3, <2>1 DEF PageOK, EndsKept
<1>4. ASSUME NEW f \in File, Drops(t, f) PROVE PageOK(h)'
  <2>1. ref'[f] = ref[f] - 1 /\ ref[f] \in Nat /\ ref[f] > 0 /\ \A e \in File \ {f} : ref'[e] = ref[e]
    BY <1>2, <1>4 DEF Drops
  <2>2. ff[t] = NoEnd /\ UNCHANGED <<live, pipe>>
    BY <1>4 DEF Drops
  <2>3. ASSUME NEW b \in BOOLEAN PROVE Holds(h, b)' <=> Holds(h, b)
    <3> DEFINE x == [page |-> h, writable |-> b]
    <3>1. x # NoEnd
      BY PipeAssumption DEF NoEnd
    <3>2. Holds(h, b) <=> (\E e \in File : ref[e] > 0 /\ end[e] = x) \/ (\E u \in Task : ff[u] = x)
      BY DEF Holds
    <3>3. Holds(h, b)' <=> (\E e \in File : ref'[e] > 0 /\ end'[e] = x) \/ (\E u \in Task : ff'[u] = x)
      BY DEF Holds
    <3> HIDE DEF x
    <3>4. CASE ref[f] > 1 /\ ff' = ff /\ end' = end
      <4>1. \A e \in File : ref'[e] > 0 <=> ref[e] > 0
        BY <2>1, <3>4
      <4> QED BY <3>2, <3>3, <3>4, <4>1
    <3>5. CASE ref[f] = 1 /\ ff' = [ff EXCEPT ![t] = end[f]] /\ end' = [end EXCEPT ![f] = NoEnd]
      <4>1. /\ end'[f] = NoEnd /\ ff'[t] = end[f]
            /\ \A e \in File \ {f} : end'[e] = end[e]
            /\ \A u \in Task \ {t} : ff'[u] = ff[u]
        BY <1>2, <3>5
      <4>2. (\E e \in File : ref'[e] > 0 /\ end'[e] = x) <=> \E e \in File \ {f} : ref[e] > 0 /\ end[e] = x
        BY <2>1, <3>1, <4>1
      <4>3. (\E u \in Task : ff'[u] = x) <=> end[f] = x \/ \E u \in Task : ff[u] = x
        BY <2>2, <3>1, <4>1
      <4>4. (\E e \in File : ref[e] > 0 /\ end[e] = x)
              <=> end[f] = x \/ \E e \in File \ {f} : ref[e] > 0 /\ end[e] = x
        BY <2>1
      <4> QED BY <3>2, <3>3, <4>2, <4>3, <4>4
    <3> QED BY <1>4, <3>4, <3>5 DEF Drops
  <2> QED BY <1>0, <2>2, <2>3 DEF PageOK
<1>5. ASSUME NEW g \in Frame, NEW rf \in File, NEW wf \in File, Allocs(t, g, rf, wf) PROVE PageOK(h)'
  <2> DEFINE r == [page |-> g, writable |-> FALSE]
             w == [page |-> g, writable |-> TRUE]
  <2>1. /\ ref'[rf] = 1 /\ ref'[wf] = 1 /\ end'[rf] = r /\ end'[wf] = w /\ rf # wf
        /\ ref[rf] = 0 /\ ref[wf] = 0
        /\ \A e \in File \ {rf, wf} : ref'[e] = ref[e] /\ end'[e] = end[e]
        /\ ff' = ff /\ live' = live \cup {g} /\ pipe'[g] = Fresh
        /\ \A k \in Frame \ {g} : pipe'[k] = pipe[k]
    BY <1>2, <1>5 DEF Allocs
  <2>2. CASE h = g
    <3>1. Holds(h, FALSE)' /\ Holds(h, TRUE)'
      BY <2>1, <2>2 DEF Holds
    <3>2. Fresh.readopen = TRUE /\ Fresh.writeopen = TRUE
      BY DEF Fresh
    <3> QED BY <2>1, <2>2, <3>1, <3>2 DEF PageOK
  <2>3. CASE h # g
    <3>1. ASSUME NEW b \in BOOLEAN PROVE Holds(h, b)' <=> Holds(h, b)
      <4> DEFINE x == [page |-> h, writable |-> b]
      <4>1. x # r /\ x # w
        BY <2>3
      <4>2. Holds(h, b) <=> (\E e \in File : ref[e] > 0 /\ end[e] = x) \/ (\E u \in Task : ff[u] = x)
        BY DEF Holds
      <4>3. Holds(h, b)' <=> (\E e \in File : ref'[e] > 0 /\ end'[e] = x) \/ (\E u \in Task : ff'[u] = x)
        BY DEF Holds
      <4> HIDE DEF x, r, w
      <4> QED BY <2>1, <4>1, <4>2, <4>3
    <3> QED BY <1>0, <2>1, <2>3, <3>1 DEF PageOK
  <2> QED BY <2>2, <2>3
<1>6. ASSUME NEW g \in Frame, NEW pi \in PipeContents, EndCloses(t, g, pi) PROVE PageOK(h)'
  <2>1. /\ ref' = ref /\ end' = end /\ ff'[t] = NoEnd /\ \A u \in Task \ {t} : ff'[u] = ff[u]
        /\ ff[t] # NoEnd /\ ff[t].page = g /\ ff[t].writable \in BOOLEAN /\ g \in live
    BY <1>2, <1>6 DEF EndCloses
  <2>2. ff[t] = [page |-> g, writable |-> ff[t].writable]
    BY <1>2, <2>1 DEF End
  <2>3. ASSUME NEW b \in BOOLEAN
        PROVE  Holds(h, b)' <=> Holds(h, b) /\ ~(h = g /\ b = ff[t].writable)
    <3> DEFINE x == [page |-> h, writable |-> b]
    <3>1. x # NoEnd /\ (x = ff[t] <=> h = g /\ b = ff[t].writable)
      BY <2>1, <2>2, PipeAssumption DEF NoEnd
    <3>2. Holds(h, b) <=> (\E e \in File : ref[e] > 0 /\ end[e] = x) \/ (\E u \in Task : ff[u] = x)
      BY DEF Holds
    <3>3. Holds(h, b)' <=> (\E e \in File : ref'[e] > 0 /\ end'[e] = x) \/ (\E u \in Task : ff'[u] = x)
      BY DEF Holds
    <3> HIDE DEF x
    <3>4. CASE x = ff[t]
      <4>1. \A e \in File : end'[e] # x
        BY <1>0, <2>1, <3>4 DEF EndInv
      <4>2. \A u \in Task : ff'[u] # x
        BY <1>0, <2>1, <3>1, <3>4 DEF EndInv
      <4> QED BY <3>1, <3>3, <3>4, <4>1, <4>2
    <3>5. CASE x # ff[t]
      BY <2>1, <3>1, <3>2, <3>3, <3>5
    <3> QED BY <3>4, <3>5
  <2>4. CASE h # g
    <3>1. (h \in live' <=> h \in live) /\ pipe'[h] = pipe[h]
      BY <1>2, <1>6, <2>4 DEF EndCloses
    <3> QED BY <1>0, <2>3, <2>4, <3>1 DEF PageOK
  <2>5. CASE h = g
    <3>1. pi = CloseEnd(ff[t], pipe[g]) /\ pipe[g] \in PipeContents
      BY <1>2, <1>6 DEF EndCloses
    <3>2. /\ ff[t].writable => pi.writeopen = FALSE /\ pi.readopen = pipe[g].readopen
          /\ ~ff[t].writable => pi.readopen = FALSE /\ pi.writeopen = pipe[g].writeopen
      BY <3>1 DEF CloseEnd, PipeContents
    <3>3. /\ live' = IF BothClosed(pi) THEN live \ {g} ELSE live
          /\ ~BothClosed(pi) => pipe'[g] = pi
      BY <1>2, <1>6 DEF EndCloses
    <3>4. /\ pipe[g].readopen <=> Holds(g, FALSE)
          /\ pipe[g].writeopen <=> Holds(g, TRUE)
      BY <1>0, <2>1, <2>5 DEF PageOK
    <3>5. CASE ff[t].writable = TRUE
      <4>1. ~Holds(g, TRUE)' /\ (Holds(g, FALSE)' <=> Holds(g, FALSE))
        BY <2>3, <2>5, <3>5
      <4> QED BY <2>1, <2>5, <3>2, <3>3, <3>4, <3>5, <4>1 DEF PageOK, BothClosed
    <3>6. CASE ff[t].writable = FALSE
      <4>1. ~Holds(g, FALSE)' /\ (Holds(g, TRUE)' <=> Holds(g, TRUE))
        BY <2>3, <2>5, <3>6
      <4> QED BY <2>1, <2>5, <3>2, <3>3, <3>4, <3>6, <4>1 DEF PageOK, BothClosed
    <3> QED BY <2>1, <3>5, <3>6
  <2> QED BY <2>4, <2>5
<1> QED BY <1>0, <1>1, <1>3, <1>4, <1>5, <1>6, EndsOrNot

(* A file in a descriptor keeps its end through a step.                    *)
LEMMA FileKept ==
  ASSUME PipeIInv, PipeNext, NEW w \in Task, NEW d \in Fd, NEW f \in File, ofile[w][d] = f
  PROVE  ref'[f] > 0 /\ end'[f] = end[f] /\ ref[f] > 0
<1>0. PipeTypes' /\ PipeTypes /\ ref \in [File -> Nat] /\ end \in [File -> End]
  BY TypesStep DEF PipeIInv, PipeTypes
<1>1. PICK t \in Task : OwnStep(t) \/ \E u \in Task \ {t} : ForkTask(t, u)
  BY StepOrFork
<1>2. ref[f] > 0
  BY HeldHasRef DEF PipeIInv
<1>3. CASE EndsKept
  BY <1>2, <1>3 DEF EndsKept
<1>4. ASSUME NEW e \in File, Drops(t, e) PROVE ref'[f] > 0 /\ end'[f] = end[f]
  <2>1. CASE e = f
    <3>1. 1 \in {1, 2} /\ 1 <= Len(shut[t]) /\ shut[t][1] = f
      BY <1>4, <2>1 DEF Drops
    <3>2. ref[f] > 1
      BY <3>1, HeldHasRef DEF PipeIInv
    <3>3. ref' = [ref EXCEPT ![f] = @ - 1] /\ end' = end
      BY <1>4, <2>1, <3>2 DEF Drops
    <3>4. ref[f] \in Nat /\ ref'[f] = ref[f] - 1
      BY <1>0, <3>3
    <3> QED BY <3>2, <3>3, <3>4
  <2>2. CASE e # f
    BY <1>0, <1>2, <1>4, <2>2 DEF Drops
  <2> QED BY <2>1, <2>2
<1>5. ASSUME NEW g \in Frame, NEW rf \in File, NEW wf \in File, Allocs(t, g, rf, wf)
      PROVE  ref'[f] > 0 /\ end'[f] = end[f]
  <2>1. f # rf /\ f # wf
    BY <1>2, <1>5 DEF Allocs
  <2> QED BY <1>0, <1>2, <1>5, <2>1 DEF Allocs
<1>6. ASSUME NEW g \in Frame, NEW pi \in PipeContents, EndCloses(t, g, pi)
      PROVE  ref'[f] > 0 /\ end'[f] = end[f]
  BY <1>2, <1>6 DEF EndCloses
<1> QED BY <1>0, <1>1, <1>2, <1>3, <1>4, <1>5, <1>6, EndsOrNot

(* What t does to its own call on a pipe: enter one, leave it, or go on    *)
(* with it at a place of the same kind and with the same descriptors.      *)
LEMMA OwnUse ==
  ASSUME PipeIInv, NEW t \in Task, OwnStep(t)
  PROVE  \/ \E f \in File : Enters(t, f)
         \/ on'[t] = NoFrame
         \/ on'[t] = on[t] /\ on[t] # NoFrame /\ ofile'[t] = ofile[t]
              /\ (at'[t] \in Writing <=> at[t] \in Writing)
<1>0. /\ at \in [Task -> Place] /\ on \in [Task -> Frame \cup {NoFrame}]
  BY DEF PipeIInv, PipeTypes
<1>1. at[t] \in Reading \cup Writing <=> on[t] # NoFrame
  BY DEF PipeIInv, PlaceInv
<1>2. ASSUME on'[t] = on[t], at[t] \notin Reading \cup Writing PROVE on'[t] = NoFrame
  BY <1>1, <1>2
<1>3. ASSUME NEW i \in Fd, NEW j \in Fd, Installs(t, i, j) PROVE on'[t] = NoFrame
  BY <1>2, <1>3 DEF Installs, Reading, Writing
<1>4. CASE InstallFails(t) \/ Exits(t)
  BY <1>2, <1>4 DEF InstallFails, Exits, Reading, Writing
<1>5. ASSUME NEW i \in Fd, Shuts(t, i) PROVE on'[t] = NoFrame
  BY <1>2, <1>5 DEF Shuts, Reading, Writing
<1>6. ASSUME NEW f \in File, Drops(t, f) PROVE on'[t] = NoFrame
  BY <1>2, <1>6 DEF Drops, Reading, Writing, Closing
<1>7. ASSUME NEW g \in Frame, NEW rf \in File, NEW wf \in File, Allocs(t, g, rf, wf)
      PROVE  on'[t] = NoFrame
  BY <1>2, <1>7 DEF Allocs, Reading, Writing
<1>8. ASSUME NEW f \in File, NEW i \in Fd, Dups(t, f, i) PROVE on'[t] = NoFrame
  BY <1>2, <1>8 DEF Dups, Reading, Writing
<1>9. ASSUME NEW g \in Frame, NEW pi \in PipeContents, EndCloses(t, g, pi) PROVE on'[t] = NoFrame
  BY <1>2, <1>9 DEF EndCloses, Reading, Writing, Closing
<1>10. ASSUME NEW g \in Frame, WriteFails(t, g) \/ WriteDone(t, g) \/ ReadFails(t, g)
       PROVE  on'[t] = NoFrame
  BY <1>0, <1>10 DEF WriteFails, WriteDone, ReadFails
<1>11. ASSUME NEW g \in Frame, NEW n \in Nat, ReadsBytes(t, g, n) PROVE on'[t] = NoFrame
  BY <1>0, <1>11 DEF ReadsBytes
<1>12. ASSUME NEW g \in Frame, WriteWaits(t, g)
       PROVE  on'[t] = on[t] /\ on[t] # NoFrame /\ ofile'[t] = ofile[t] /\ at'[t] \in Writing /\ at[t] \in Writing
  BY <1>0, <1>1, <1>12 DEF WriteWaits, WriteLock, Writing, WakeReaders
<1>13. ASSUME NEW g \in Frame, WritesByte(t, g)
       PROVE  on'[t] = on[t] /\ on[t] # NoFrame /\ ofile'[t] = ofile[t] /\ at'[t] \in Writing /\ at[t] \in Writing
  BY <1>0, <1>1, <1>13 DEF WritesByte, WriteLock, Writing
<1>14. ASSUME NEW g \in Frame, ReadWaits(t, g)
       PROVE  on'[t] = on[t] /\ on[t] # NoFrame /\ ofile'[t] = ofile[t] /\ at'[t] \notin Writing /\ at[t] \notin Writing
  BY <1>0, <1>1, <1>14 DEF ReadWaits, Writing, Reading
<1>15. ASSUME PipeSleep(t)
       PROVE  on'[t] = on[t] /\ on[t] # NoFrame /\ ofile'[t] = ofile[t]
              /\ (at'[t] \in Writing <=> at[t] \in Writing)
  BY <1>0, <1>1, <1>15 DEF PipeSleep, Goes, Writing, Reading
<1>16. ASSUME KillTask(t)
       PROVE  on'[t] = on[t] /\ ofile'[t] = ofile[t]
              /\ (at'[t] \in Writing <=> at[t] \in Writing)
  BY <1>0, <1>1, <1>16 DEF KillTask, Goes, Writing, Reading
<1> QED BY <1>3, <1>4, <1>5, <1>6, <1>7, <1>8, <1>9, <1>10, <1>11, <1>12, <1>13, <1>14, <1>15, <1>16 DEF OwnStep

(* UseInv for one task.                                                    *)
Uses(t, d) ==
  /\ ofile[t][d] # NoFile /\ ref[ofile[t][d]] > 0
  /\ end[ofile[t][d]] = [page |-> on[t], writable |-> at[t] \in Writing]

(* Whoever uses a pipe has its end open, after every step.                 *)
LEMMA UseStep ==
  ASSUME PipeIInv, PipeNext
  PROVE  UseInv'
<1>0. /\ ofile \in [Task -> [Fd -> File \cup {NoFile}]] /\ at \in [Task -> Place]
      /\ on \in [Task -> Frame \cup {NoFrame}] /\ end \in [File -> End]
  BY DEF PipeIInv, PipeTypes
<1>1. SUFFICES ASSUME NEW w \in Task, on'[w] # NoFrame
               PROVE  \E d \in Fd : Uses(w, d)'
  BY DEF UseInv, Uses
<1>2. ASSUME on'[w] = on[w], ofile'[w] = ofile[w], at'[w] \in Writing <=> at[w] \in Writing
      PROVE  \E d \in Fd : Uses(w, d)'
  <2>1. PICK d \in Fd : Uses(w, d)
    BY <1>1, <1>2 DEF PipeIInv, UseInv, Uses
  <2>2. ofile[w][d] \in File
    BY <1>0, <2>1 DEF Uses
  <2>3. ref'[ofile[w][d]] > 0 /\ end'[ofile[w][d]] = end[ofile[w][d]]
    BY <2>2, FileKept
  <2>4. (at'[w] \in Writing) = (at[w] \in Writing)
    BY <1>2
  <2> QED BY <1>2, <2>1, <2>3, <2>4 DEF Uses
<1>3. PICK t \in Task : OwnStep(t) \/ \E u \in Task \ {t} : ForkTask(t, u)
  BY StepOrFork
<1>4. CASE OwnStep(t) /\ w # t
  <2>1. Kept(w)
    BY <1>4, OthersKeep
  <2> QED BY <1>2, <2>1 DEF Kept, Writing
<1>5. CASE OwnStep(t) /\ w = t
  <2>1. ASSUME NEW f \in File, Enters(t, f) PROVE \E d \in Fd : Uses(w, d)'
    <3>1. PICK d \in Fd : ofile[t][d] = f
      BY <2>1 DEF Enters
    <3>2. ref'[f] > 0 /\ end'[f] = end[f] /\ ofile' = ofile /\ f # NoFile
      BY <2>1, <3>1, FileKept, PipeAssumption DEF Enters, File
    <3>3. on'[t] = end[f].page /\ (at'[t] \in Writing <=> end[f].writable)
      BY <1>0, <2>1 DEF Enters, Writing
    <3>4. end[f] \in End
      BY <1>0
    <3>5. end[f] = [page |-> on'[t], writable |-> at'[t] \in Writing]
      <4>1. end[f].writable \in BOOLEAN
        BY <3>4 DEF End
      <4>2. end[f].writable = (at'[t] \in Writing)
        BY <3>3, <4>1
      <4> QED BY <3>3, <3>4, <4>2 DEF End
    <3> QED BY <1>5, <3>1, <3>2, <3>5 DEF Uses
  <2> QED BY <1>1, <1>2, <1>5, <2>1, OwnUse
<1>6. ASSUME NEW u \in Task \ {t}, ForkTask(t, u) PROVE \E d \in Fd : Uses(w, d)'
  <2>1. on' = on /\ at[u] = "dead"
    BY <1>6 DEF ForkTask
  <2>2. w # u
    BY <1>1, <2>1 DEF PipeIInv, PlaceInv, Reading, Writing
  <2>3. ofile'[w] = ofile[w] /\ at'[w] = at[w]
    BY <1>0, <1>6, <2>2 DEF ForkTask, Goes
  <2> QED BY <1>2, <2>1, <2>3
<1> QED BY <1>3, <1>4, <1>5, <1>6

(* PageLivesWithItsEnds in two parts, now and after a step.                *)
PagesOK == /\ \A g \in Frame : PageOK(g)
           /\ \A t \in Task : on[t] # NoFrame => on[t] \in live

(* The two say the same now.                                               *)
LEMMA PagesNow == PipeTypes => (PageLivesWithItsEnds <=> PagesOK)
BY PageParts DEF PagesOK

(* And after a step.                                                       *)
LEMMA PagesNext == PipeTypes' => (PageLivesWithItsEnds' <=> PagesOK')
BY PagesNow, PTL

(* PageLivesWithItsEnds after every step.                                  *)
LEMMA LivesStep ==
  ASSUME PipeIInv, PipeNext
  PROVE  PageLivesWithItsEnds'
<1>1. PipeTypes' /\ UseInv'
  BY TypesStep, UseStep
<1>2. \A g \in Frame : PageOK(g)'
  BY PageStep
<1>3. ASSUME NEW t \in Task, on'[t] # NoFrame PROVE on'[t] \in live'
  <2>1. PICK d \in Fd : Uses(t, d)'
    BY <1>1, <1>3 DEF UseInv, Uses
  <2>2. on'[t] \in Frame /\ ofile'[t][d] \in File
    BY <1>1, <1>3, <2>1 DEF PipeTypes, Uses
  <2>3. CASE at'[t] \in Writing
    <3>1. end'[ofile'[t][d]] = [page |-> on'[t], writable |-> TRUE] /\ ref'[ofile'[t][d]] > 0
      BY <2>1, <2>3 DEF Uses
    <3>2. Holds(on[t], TRUE)'
      BY <2>2, <3>1 DEF Holds
    <3>3. PageOK(on[t])'
      BY <1>2, <2>2 DEF PageOK, Holds
    <3> QED BY <3>2, <3>3 DEF PageOK
  <2>4. CASE at'[t] \notin Writing
    <3>1. end'[ofile'[t][d]] = [page |-> on'[t], writable |-> FALSE] /\ ref'[ofile'[t][d]] > 0
      <4>1. (at'[t] \in Writing) = FALSE
        BY <2>4
      <4>2. /\ end'[ofile'[t][d]] = [page |-> on'[t], writable |-> at'[t] \in Writing]
            /\ ref'[ofile'[t][d]] > 0
        BY <2>1 DEF Uses
      <4> QED BY <4>1, <4>2
    <3>2. Holds(on[t], FALSE)'
      BY <2>2, <3>1 DEF Holds
    <3>3. PageOK(on[t])'
      BY <1>2, <2>2 DEF PageOK, Holds
    <3> QED BY <3>2, <3>3 DEF PageOK
  <2> QED BY <2>3, <2>4
<1>4. PagesOK'
  BY <1>2, <1>3 DEF PagesOK
<1> QED BY <1>1, <1>4, PagesNext
(* Remainders are unique.                                                  *)
LEMMA Unique ==
  ASSUME NEW N \in Nat \ {0}, NEW x \in Int, NEW y \in Int,
         NEW r \in 0 .. N - 1, NEW s \in 0 .. N - 1, N * x + r = N * y + s
  PROVE  r = s
<1>1. N * (x - y) = s - r
  BY Z3
<1>2. CASE x - y >= 1
  <2>1. N * (x - y) >= N
    BY <1>2, Z3
  <2> QED BY <1>1, <2>1
<1>3. CASE x - y <= -1
  <2>1. N * (x - y) <= -N
    BY <1>3, Z3
  <2> QED BY <1>1, <2>1
<1>4. CASE x = y
  BY <1>4
<1> QED BY <1>2, <1>3, <1>4

(* a is r more than x times N.                                             *)
Over(a, N, x, r) == a = N * x + r

(* A multiple of N does not count in a remainder.                          *)
LEMMA Shift ==
  ASSUME NEW N \in Nat \ {0}, NEW x \in Nat, NEW r \in Nat, NEW a \in Nat, Over(a, N, x, r)
  PROVE  a % N = r % N
<1>0. a = N * x + r
  BY DEF Over
<1> DEFINE p == a \div N
           q == r \div N
           u == a % N
           v == r % N
<1>1. p \in Int /\ u \in 0 .. N - 1 /\ a = N * p + u
  BY Remainder
<1>2. q \in Int /\ v \in 0 .. N - 1 /\ r = N * q + v
  BY Remainder
<1> HIDE DEF p, q, u, v
<1>3. x + q \in Int
  BY <1>2
<1>4. N * (x + q) = N * x + N * q
  BY <1>2, Z3
<1>5. N * p + u = N * (x + q) + v
  BY <1>0, <1>1, <1>2, <1>4, Z3
<1>6. u = v
  BY <1>1, <1>2, <1>3, <1>5, Unique
<1> QED BY <1>6 DEF u, v

(* Numbers less than N apart have different remainders.                    *)
LEMMA SameMod ==
  ASSUME NEW N \in Nat \ {0}, NEW a \in Nat, NEW b \in Nat, a <= b, b - a < N, a % N = b % N
  PROVE  a = b
<1> DEFINE p == a \div N
           q == b \div N
           u == a % N
<1>1. p \in Int /\ u \in 0 .. N - 1 /\ a = N * p + u
  BY Remainder
<1>2. q \in Int /\ b = N * q + u
  BY Remainder
<1> HIDE DEF p, q, u
<1>3. b - a = N * (q - p)
  BY <1>1, <1>2, Z3
<1>4. CASE q - p >= 1
  <2>1. N * (q - p) >= N
    BY <1>1, <1>2, <1>4, Z3
  <2> QED BY <1>3, <2>1
<1>5. CASE q - p <= -1
  <2>1. N * (q - p) <= -N
    BY <1>1, <1>2, <1>5, Z3
  <2> QED BY <1>3, <2>1
<1>6. CASE p = q
  BY <1>1, <1>2, <1>6
<1> QED BY <1>1, <1>2, <1>4, <1>5, <1>6

(* A sum of uints can be reduced as it goes, and so can the index it gives *)
(* into the ring, since the uints wrap at a multiple of PIPESIZE.          *)
LEMMA Wraps ==
  ASSUME NEW a \in Nat, NEW b \in Nat
  PROVE  /\ ((a % UINT) + b) % UINT = (a + b) % UINT
         /\ ((a % UINT) + b) % PIPESIZE = (a + b) % PIPESIZE
<1>0. UINT \in Nat \ {0} /\ PIPESIZE \in Nat \ {0} /\ UINT % PIPESIZE = 0
  BY PipeAssumption
<1> DEFINE q == a \div UINT
           r == a % UINT
           c == UINT \div PIPESIZE
<1>1. q \in Int /\ r \in Nat /\ r < UINT /\ a = UINT * q + r
  BY <1>0, Remainder
<1>2. c \in Int /\ UINT = PIPESIZE * c
  <2>1. c \in Int /\ UINT = PIPESIZE * c + (UINT % PIPESIZE)
    BY <1>0, Remainder
  <2> QED BY <1>0, <2>1
<1> HIDE DEF q, r, c
<1>3. q \in Nat
  <2>1. CASE q <= -1
    <3>1. UINT * q <= -UINT
      BY <1>0, <1>1, <2>1, Z3
    <3> QED BY <1>0, <1>1, <3>1
  <2> QED BY <1>1, <2>1
<1>4. c \in Nat
  <2>1. CASE c <= -1
    <3>1. PIPESIZE * c <= -PIPESIZE
      BY <1>0, <1>2, <2>1, Z3
    <3> QED BY <1>0, <1>2, <3>1
  <2> QED BY <1>2, <2>1
<1>5. a + b = UINT * q + (r + b) /\ r + b \in Nat /\ a + b \in Nat
  BY <1>0, <1>1, <1>3
<1>6. UINT * q = PIPESIZE * (c * q) /\ c * q \in Nat
  <2>1. c * q \in Nat
    BY <1>3, <1>4, Z3
  <2>2. (PIPESIZE * c) * q = PIPESIZE * (c * q)
    BY <1>0, <1>3, <1>4, Z3
  <2> QED BY <1>2, <2>1, <2>2
<1>7. a + b = PIPESIZE * (c * q) + (r + b)
  BY <1>5, <1>6
<1> DEFINE s == a + b
           v == r + b
           z == c * q
<1>8. /\ s \in Nat /\ v \in Nat /\ z \in Nat
      /\ Over(s, UINT, q, v) /\ Over(s, PIPESIZE, z, v)
  BY <1>5, <1>6, <1>7 DEF Over
<1>9. ((a % UINT) + b) % UINT = v % UINT /\ ((a % UINT) + b) % PIPESIZE = v % PIPESIZE
  BY DEF r
<1>10. (a + b) % UINT = s % UINT /\ (a + b) % PIPESIZE = s % PIPESIZE
  OBVIOUS
<1> HIDE DEF s, v, z
<1>11. s % UINT = v % UINT
  BY <1>0, <1>3, <1>8, Shift
<1>12. s % PIPESIZE = v % PIPESIZE
  BY <1>0, <1>8, Shift
<1> QED BY <1>9, <1>10, <1>11, <1>12

(* The ring of page h.                                                     *)
RingOK(h) ==
  /\ h \in live =>
       /\ Len(flow[h]) <= PIPESIZE
       /\ pipe[h].nwrite = Plus(pipe[h].nread, Len(flow[h]))
       /\ \A k \in 1 .. Len(flow[h]) :
            flow[h][k] = pipe[h].data[(pipe[h].nread + k - 1) % PIPESIZE]
  /\ h \notin live => flow[h] = << >>

(* RingInv, page by page.                                                  *)
LEMMA RingParts ==
  /\ live \in SUBSET Frame => (RingInv <=> \A h \in Frame : RingOK(h))
  /\ live' \in SUBSET Frame' => (RingInv' <=> \A h \in Frame : RingOK(h)')
BY DEF RingInv, RingOK

(* Full and Empty tell how many bytes the ring holds.                      *)
LEMMA RingCounts ==
  ASSUME NEW a \in 0 .. UINT - 1, NEW n \in Nat, n <= PIPESIZE
  PROVE  /\ Plus(a, n) = Plus(a, PIPESIZE) <=> n = PIPESIZE
         /\ a = Plus(a, n) <=> n = 0
<1>0. UINT \in Nat \ {0} /\ PIPESIZE \in Nat \ {0} /\ PIPESIZE < UINT /\ a \in Nat
  BY PipeAssumption
<1>1. ASSUME (a + n) % UINT = (a + PIPESIZE) % UINT PROVE n = PIPESIZE
  <2> DEFINE x == a + n
             y == a + PIPESIZE
  <2>1. x \in Nat /\ y \in Nat /\ x <= y /\ y - x < UINT /\ x % UINT = y % UINT
    BY <1>0, <1>1
  <2> HIDE DEF x, y
  <2>2. x = y
    BY <1>0, <2>1, SameMod
  <2> QED BY <1>0, <2>2 DEF x, y
<1>2. a % UINT = a
  BY <1>0, Remainder, Z3
<1>3. ASSUME a = (a + n) % UINT PROVE n = 0
  <2> DEFINE y == a + n
  <2>1. y \in Nat /\ a <= y /\ y - a < UINT /\ a % UINT = y % UINT
    BY <1>0, <1>2, <1>3
  <2> HIDE DEF y
  <2>2. a = y
    BY <1>0, <2>1, SameMod
  <2> QED BY <1>0, <2>2 DEF y
<1>4. n = 0 => a = Plus(a, n)
  BY <1>0, <1>2 DEF Plus
<1> QED BY <1>1, <1>3, <1>4 DEF Plus

(* A step that touches a ring.                                             *)
LEMMA RingOrNot ==
  ASSUME NEW t \in Task, OwnStep(t) \/ \E u \in Task \ {t} : ForkTask(t, u)
  PROVE  \/ \E g \in Frame, rf, wf \in File : Allocs(t, g, rf, wf)
         \/ \E g \in Frame, pi \in PipeContents : EndCloses(t, g, pi)
         \/ \E g \in Frame : WritesByte(t, g)
         \/ \E g \in Frame, n \in Nat : ReadsBytes(t, g, n)
         \/ UNCHANGED <<live, pipe, flow>>
<1>1. \A i, j \in Fd : Installs(t, i, j) => UNCHANGED <<live, pipe, flow>>
  BY DEF Installs
<1>2. \A i \in Fd : Shuts(t, i) => UNCHANGED <<live, pipe, flow>>
  BY DEF Shuts
<1>3. InstallFails(t) \/ Exits(t) \/ PipeSleep(t) \/ KillTask(t) => UNCHANGED <<live, pipe, flow>>
  BY DEF InstallFails, Exits, PipeSleep, KillTask
<1>4. \A g \in Frame : WriteFails(t, g) \/ WriteWaits(t, g) \/ WriteDone(t, g) \/ ReadFails(t, g) \/ ReadWaits(t, g)
         => UNCHANGED <<live, pipe, flow>>
  BY DEF WriteFails, WriteWaits, WriteDone, ReadFails, ReadWaits
<1>5. \A e \in File : Enters(t, e) \/ Drops(t, e) => UNCHANGED <<live, pipe, flow>>
  BY DEF Enters, Drops
<1>6. \A e \in File, i \in Fd : Dups(t, e, i) => UNCHANGED <<live, pipe, flow>>
  BY DEF Dups
<1>7. \A u \in Task : ForkTask(t, u) => UNCHANGED <<live, pipe, flow>>
  BY DEF ForkTask
<1>8. CASE OwnStep(t)
  BY <1>1, <1>2, <1>3, <1>4, <1>5, <1>6, <1>8, Zenon DEF OwnStep
<1> QED BY <1>7, <1>8

(* pipewrite puts a byte after the others.                                 *)
LEMMA RingWrites ==
  ASSUME PipeIInv, NEW t \in Task, NEW g \in Frame, WritesByte(t, g)
  PROVE  RingOK(g)'
<1>0. UINT \in Nat \ {0} /\ PIPESIZE \in Nat \ {0} /\ PIPESIZE < UINT
  BY PipeAssumption
<1>1. pipe[g] \in PipeContents /\ pipe \in [Frame -> PipeContents] /\ flow \in [Frame -> Seq(Task)] /\ g \in live
  BY DEF WritesByte, Within, PipeIInv, PipeTypes
<1> DEFINE a == pipe[g].nread
           n == Len(flow[g])
           i == pipe[g].nwrite % PIPESIZE
<1>2. /\ a \in 0 .. UINT - 1 /\ a \in Nat /\ n \in Nat /\ flow[g] \in Seq(Task)
      /\ pipe[g].data \in [0 .. PIPESIZE - 1 -> Task]
  BY <1>1 DEF PipeContents
<1>3. /\ n <= PIPESIZE /\ pipe[g].nwrite = Plus(a, n)
      /\ \A k \in 1 .. n : flow[g][k] = pipe[g].data[(a + k - 1) % PIPESIZE]
  BY <1>1 DEF PipeIInv, RingInv
<1>4. n < PIPESIZE
  <2>1. n # PIPESIZE
    BY <1>2, <1>3, RingCounts DEF WritesByte, Full
  <2> QED BY <1>0, <1>2, <1>3, <2>1
<1>5. i = (a + n) % PIPESIZE
  <2>1. a + n \in Nat /\ 0 \in Nat
    BY <1>2
  <2> DEFINE s == a + n
  <2>2. ((s % UINT) + 0) % PIPESIZE = (s + 0) % PIPESIZE
    BY <2>1, Wraps
  <2>3. s % UINT \in Nat
    BY <1>0, <2>1, Remainder
  <2>4. (s % UINT) + 0 = s % UINT /\ s + 0 = s
    BY <2>1, <2>3
  <2> QED BY <1>3, <2>2, <2>4 DEF Plus
<1>6. Plus(Plus(a, n), 1) = Plus(a, n + 1)
  <2> DEFINE s == a + n
  <2>1. s \in Nat /\ 1 \in Nat
    BY <1>2
  <2>2. ((s % UINT) + 1) % UINT = (s + 1) % UINT
    BY <2>1, Wraps
  <2>3. s + 1 = a + (n + 1)
    BY <1>2
  <2> QED BY <2>2, <2>3 DEF Plus
<1>7. /\ pipe'[g].nread = a /\ pipe'[g].nwrite = Plus(a, n + 1)
      /\ pipe'[g].data = [pipe[g].data EXCEPT ![i] = t]
      /\ flow'[g] = Append(flow[g], t) /\ live' = live
  <2>1. pipe'[g] = [pipe[g] EXCEPT !.data = [pipe[g].data EXCEPT ![i] = t],
                                   !.nwrite = Plus(pipe[g].nwrite, 1)]
    BY <1>1 DEF WritesByte
  <2>2. pipe'[g].nread = a /\ pipe'[g].nwrite = Plus(pipe[g].nwrite, 1)
        /\ pipe'[g].data = [pipe[g].data EXCEPT ![i] = t]
    <3> HIDE DEF i
    <3> QED BY <1>1, <2>1 DEF PipeContents
  <2> QED BY <1>1, <1>3, <1>6, <2>2 DEF WritesByte
<1>8. i \in 0 .. PIPESIZE - 1
  BY DEF WritesByte
<1>9. /\ Len(flow'[g]) = n + 1 /\ flow'[g][n + 1] = t
      /\ \A k \in 1 .. n : flow'[g][k] = flow[g][k]
  BY <1>2, <1>7, AppendProperties
<1>10. ASSUME NEW k \in 1 .. n PROVE (a + k - 1) % PIPESIZE # i
  <2> DEFINE x == a + k - 1
             y == a + n
  <2>1. x \in Nat /\ y \in Nat /\ x <= y /\ y - x < PIPESIZE /\ x # y
    <3>1. k >= 1 /\ k <= n /\ k \in Nat
      BY <1>2
    <3> HIDE DEF a, n
    <3> QED BY <1>0, <1>2, <1>4, <3>1
  <2>2. i = y % PIPESIZE
    BY <1>5
  <2> HIDE DEF x, y, i
  <2>3. x % PIPESIZE # i
    BY <1>0, <2>1, <2>2, SameMod
  <2> QED BY <2>3 DEF x
<1>11. ASSUME NEW k \in 1 .. n + 1
       PROVE  flow'[g][k] = pipe'[g].data[(pipe'[g].nread + k - 1) % PIPESIZE]
  <2>1. CASE k \in 1 .. n
    <3> DEFINE x == (a + k - 1) % PIPESIZE
    <3>1. x # i /\ flow'[g][k] = pipe[g].data[x]
      BY <1>3, <1>9, <1>10, <2>1
    <3>2. (pipe'[g].nread + k - 1) % PIPESIZE = x
      BY <1>7
    <3> HIDE DEF x, i
    <3>3. pipe'[g].data[x] = pipe[g].data[x]
      BY <1>2, <1>7, <3>1
    <3> QED BY <3>1, <3>2, <3>3
  <2>2. CASE k = n + 1
    <3>1. pipe'[g].nread + k - 1 = a + n
      BY <1>2, <1>7, <2>2
    <3>2. (pipe'[g].nread + k - 1) % PIPESIZE = i
      BY <1>5, <3>1
    <3> HIDE DEF i
    <3> QED BY <1>2, <1>7, <1>8, <1>9, <2>2, <3>2
  <2> QED BY <1>2, <2>1, <2>2
<1>12. n + 1 <= PIPESIZE
  BY <1>0, <1>2, <1>4
<1> HIDE DEF i
<1> QED BY <1>1, <1>7, <1>9, <1>11, <1>12 DEF RingOK

(* piperead takes bytes from the front.                                    *)
LEMMA RingReads ==
  ASSUME PipeIInv, NEW t \in Task, NEW g \in Frame, NEW m \in Nat, ReadsBytes(t, g, m)
  PROVE  RingOK(g)'
<1>0. UINT \in Nat \ {0} /\ PIPESIZE \in Nat \ {0} /\ PIPESIZE < UINT
  BY PipeAssumption
<1>1. pipe[g] \in PipeContents /\ pipe \in [Frame -> PipeContents] /\ flow \in [Frame -> Seq(Task)] /\ g \in live
  BY DEF ReadsBytes, Within, PipeIInv, PipeTypes
<1> DEFINE a == pipe[g].nread
           n == Len(flow[g])
<1>2. a \in 0 .. UINT - 1 /\ a \in Nat /\ n \in Nat /\ flow[g] \in Seq(Task) /\ m <= n
  BY <1>1 DEF PipeContents, ReadsBytes
<1>3. /\ n <= PIPESIZE /\ pipe[g].nwrite = Plus(a, n)
      /\ \A k \in 1 .. n : flow[g][k] = pipe[g].data[(a + k - 1) % PIPESIZE]
  BY <1>1 DEF PipeIInv, RingInv
<1>4. /\ pipe'[g].nread = Plus(a, m) /\ pipe'[g].nwrite = pipe[g].nwrite
      /\ pipe'[g].data = pipe[g].data
      /\ flow'[g] = SubSeq(flow[g], m + 1, n) /\ live' = live
  <2>1. pipe'[g] = [pipe[g] EXCEPT !.nread = Plus(a, m)] /\ flow'[g] = SubSeq(flow[g], m + 1, n)
        /\ live' = live
    BY <1>1 DEF ReadsBytes
  <2> QED BY <1>1, <2>1 DEF PipeContents
<1>5. Plus(Plus(a, m), n - m) = Plus(a, n)
  <2> DEFINE s == a + m
             z == n - m
  <2>1. s \in Nat /\ z \in Nat /\ s + z = a + n
    BY <1>2
  <2>2. ((s % UINT) + z) % UINT = (s + z) % UINT
    BY <2>1, Wraps
  <2> QED BY <2>1, <2>2 DEF Plus
<1>6. /\ Len(flow'[g]) = n - m
      /\ \A k \in 1 .. n - m : flow'[g][k] = flow[g][m + k]
  <2>1. m + 1 \in 1 .. n + 1 /\ n \in m .. n
    BY <1>2
  <2>2. /\ Len(SubSeq(flow[g], m + 1, n)) = (IF m + 1 <= n THEN n - (m + 1) + 1 ELSE 0)
        /\ \A k \in 1 .. n - m : SubSeq(flow[g], m + 1, n)[k] = flow[g][m + k]
    BY <1>2, <2>1
  <2> QED BY <1>2, <1>4, <2>2
<1>7. ASSUME NEW k \in 1 .. n - m
      PROVE  flow'[g][k] = pipe'[g].data[(pipe'[g].nread + k - 1) % PIPESIZE]
  <2> DEFINE s == a + m
             z == k - 1
  <2>1. s \in Nat /\ z \in Nat /\ m + k \in 1 .. n /\ s + z = a + (m + k) - 1
    BY <1>2
  <2>2. ((s % UINT) + z) % PIPESIZE = (s + z) % PIPESIZE
    BY <2>1, Wraps
  <2>3. pipe'[g].nread + k - 1 = (s % UINT) + z
    <3>1. pipe'[g].nread = s % UINT
      BY <1>4 DEF Plus
    <3> HIDE DEF s
    <3>2. s \in Nat /\ UINT \in Nat \ {0}
      BY <1>0, <2>1
    <3>3. s % UINT \in 0 .. UINT - 1
      BY <3>2, Remainder
    <3>4. s % UINT \in Nat
      BY <3>2, <3>3
    <3> QED BY <3>1, <3>4
  <2>4. (pipe'[g].nread + k - 1) % PIPESIZE = (a + (m + k) - 1) % PIPESIZE
    BY <2>1, <2>2, <2>3
  <2>5. flow[g][m + k] = pipe[g].data[(a + (m + k) - 1) % PIPESIZE]
    BY <1>3, <2>1
  <2> QED BY <1>4, <1>6, <2>4, <2>5
<1>8. n - m <= PIPESIZE
  BY <1>0, <1>2, <1>3
<1>9. pipe'[g].nwrite = Plus(pipe'[g].nread, n - m)
  BY <1>3, <1>4, <1>5
<1> QED BY <1>1, <1>4, <1>6, <1>7, <1>8, <1>9 DEF RingOK

(* The rings after every step.                                             *)
LEMMA RingStep ==
  ASSUME PipeIInv, PipeNext
  PROVE  RingInv'
<1>0. PipeTypes' /\ PipeTypes /\ RingInv /\ \A h \in Frame : RingOK(h)
  BY TypesStep, RingParts DEF PipeIInv, PipeTypes
<1>1. /\ pipe \in [Frame -> PipeContents] /\ flow \in [Frame -> Seq(Task)] /\ live' \in SUBSET Frame
  BY <1>0 DEF PipeTypes
<1>2. SUFFICES ASSUME NEW h \in Frame PROVE RingOK(h)'
  BY <1>1, RingParts
<1>3. PICK t \in Task : OwnStep(t) \/ \E u \in Task \ {t} : ForkTask(t, u)
  BY StepOrFork
<1>4. ASSUME pipe'[h] = pipe[h], flow'[h] = flow[h], h \in live' <=> h \in live PROVE RingOK(h)'
  BY <1>0, <1>4 DEF RingOK
<1>5. ASSUME flow'[h] = << >>, pipe'[h] = Fresh PROVE RingOK(h)'
  <2>1. Len(flow'[h]) = 0
    BY <1>5
  <2>2. pipe'[h].nread = 0 /\ pipe'[h].nwrite = 0
    BY <1>5 DEF Fresh
  <2>3. 0 \in 0 .. UINT - 1 /\ 0 \in Nat /\ 0 <= PIPESIZE
    BY PipeAssumption
  <2>4. 0 = Plus(0, 0)
    BY <2>3, RingCounts
  <2>5. Len(flow'[h]) <= PIPESIZE
    BY <2>1, <2>3
  <2>6. \A k \in 1 .. Len(flow'[h]) : FALSE
    BY <2>1
  <2> QED BY <1>5, <2>1, <2>2, <2>4, <2>5, <2>6 DEF RingOK
<1>6. ASSUME NEW g \in Frame, NEW rf \in File, NEW wf \in File, Allocs(t, g, rf, wf) PROVE RingOK(h)'
  <2>1. CASE h # g
    BY <1>1, <1>4, <1>6, <2>1 DEF Allocs
  <2>2. CASE h = g
    <3>1. flow'[h] = << >> /\ pipe'[h] = Fresh
      BY <1>0, <1>1, <1>6, <2>2 DEF Allocs, RingOK
    <3> QED BY <1>5, <3>1
  <2> QED BY <2>1, <2>2
<1>7. ASSUME NEW g \in Frame, NEW pi \in PipeContents, EndCloses(t, g, pi) PROVE RingOK(h)'
  <2>1. CASE h # g
    <3>1. pipe'[h] = pipe[h] /\ flow'[h] = flow[h] /\ (h \in live' <=> h \in live)
      BY <1>1, <1>7, <2>1 DEF EndCloses
    <3> QED BY <1>4, <3>1
  <2>2. CASE h = g /\ BothClosed(pi)
    <3>1. flow'[h] = << >> /\ pipe'[h] = Fresh
      BY <1>1, <1>7, <2>2 DEF EndCloses
    <3> QED BY <1>5, <3>1
  <2>3. CASE h = g /\ ~BothClosed(pi)
    <3>1. flow'[h] = flow[h] /\ pipe'[h] = CloseEnd(ff[t], pipe[h]) /\ live' = live
      BY <1>1, <1>7, <2>3 DEF EndCloses
    <3>2. /\ pipe'[h].nread = pipe[h].nread /\ pipe'[h].nwrite = pipe[h].nwrite
          /\ pipe'[h].data = pipe[h].data
      <4>1. pipe[h] \in PipeContents
        BY <1>1
      <4> QED BY <3>1, <4>1 DEF CloseEnd, PipeContents
    <3> QED BY <1>0, <3>1, <3>2 DEF RingOK
  <2> QED BY <2>1, <2>2, <2>3
<1>8. ASSUME NEW g \in Frame, WritesByte(t, g) PROVE RingOK(h)'
  <2>1. CASE h # g
    BY <1>1, <1>4, <1>8, <2>1 DEF WritesByte
  <2> QED BY <1>8, <2>1, RingWrites
<1>9. ASSUME NEW g \in Frame, NEW n \in Nat, ReadsBytes(t, g, n) PROVE RingOK(h)'
  <2>1. CASE h # g
    BY <1>1, <1>4, <1>9, <2>1 DEF ReadsBytes
  <2> QED BY <1>9, <2>1, RingReads
<1>10. CASE UNCHANGED <<live, pipe, flow>>
  BY <1>4, <1>10
<1> QED BY <1>3, <1>6, <1>7, <1>8, <1>9, <1>10, RingOrNot

(* PipeLockInv and SleepIsJustified for one task, and for two.                 *)
Resting == {"full", "empty", "asleep to write", "asleep to read"}

Waiting(t) ==
  /\ at[t] \in {"full", "asleep to write"} => Full(pipe[on[t]]) /\ pipe[on[t]].readopen
  /\ at[t] \in {"empty", "asleep to read"} => pipe[on[t]].writeopen
  /\ at[t] = "empty" => Empty(pipe[on[t]])
  /\ at[t] = "asleep to read" /\ Unlocked(on[t]) => Empty(pipe[on[t]]) \/ on[t] \in cut
  /\ at[t] \in Resting /\ t \in doomed => t \in missed

Alone(t, u) ==
  /\ at[t] \in Locking /\ at[u] \in Locking /\ on[t] = on[u] => t = u
  /\ at[t] = "full" /\ at[u] = "asleep to read" => on[t] # on[u]

(* The parts say the same as the two invariants.                           *)
LEMMA LockParts ==
  PipeLockInv /\ SleepIsJustified <=> (\A t \in Task : Waiting(t)) /\ (\A t, u \in Task : Alone(t, u))
BY DEF PipeLockInv, SleepIsJustified, Waiting, Alone, Resting

(* And after a step.                                                       *)
LEMMA LockPartsNext ==
  PipeLockInv' /\ SleepIsJustified' <=> (\A t \in Task : Waiting(t)') /\ (\A t, u \in Task : Alone(t, u)')
BY DEF PipeLockInv, SleepIsJustified, Waiting, Alone, Resting

(* A task that was not moved, on a pipe that was not touched.              *)
LEMMA Bystander ==
  ASSUME NEW u \in Task, Kept(u), Waiting(u), pipe'[on[u]] = pipe[on[u]],
         on[u] \in cut => on[u] \in cut',
         \A h : h = on[u] /\ at[u] = "asleep to read" /\ Unlocked(h)' => Unlocked(h)
  PROVE  Waiting(u)'
<1>1. on'[u] = on[u] /\ (u \in doomed' <=> u \in doomed) /\ (u \in missed' <=> u \in missed)
  BY DEF Kept
<1>2. pipe'[on'[u]] = pipe[on[u]] /\ (Unlocked(on[u])' => Unlocked(on[u]) \/ at[u] # "asleep to read")
  BY <1>1 DEF Unlocked
<1>3. CASE at'[u] = at[u]
  BY <1>1, <1>2, <1>3 DEF Waiting
<1>4. CASE at'[u] \in {"read", "write"}
  BY <1>4 DEF Waiting, Resting
<1> QED BY <1>3, <1>4 DEF Kept

(* Where t is neither before nor after its step, nobody else takes or      *)
(* releases the lock.                                                      *)
LEMMA LockElse ==
  ASSUME NEW t \in Task, \A u \in Task \ {t} : Kept(u), NEW h,
         at[t] \in Locking => on[t] # h \/ (at'[t] \in Locking /\ on'[t] = h)
  PROVE  Unlocked(h)' => Unlocked(h)
<1> SUFFICES ASSUME Unlocked(h)', NEW u \in Task, at[u] \in Locking, on[u] = h PROVE FALSE
  BY DEF Unlocked, Locking
<1>1. CASE u = t
  BY <1>1 DEF Unlocked, Locking
<1>2. CASE u # t
  <2>1. at'[u] = at[u] /\ on'[u] = on[u]
    BY <1>2 DEF Kept, Locking
  <2> QED BY <2>1 DEF Unlocked, Locking
<1> QED BY <1>1, <1>2

(* Two others stay alone.                                                  *)
LEMMA OthersAlone ==
  ASSUME NEW u \in Task, NEW w \in Task, Kept(u), Kept(w), Alone(u, w)
  PROVE  Alone(u, w)'
BY DEF Kept, Alone, Locking

(* A task that is out of the calls, or only about to take the lock.        *)
LEMMA OutAlone ==
  ASSUME NEW t \in Task, NEW u \in Task,
         at'[t] \notin Locking \cup {"asleep to read"} \/ at'[u] \notin Locking \cup {"asleep to read"}
  PROVE  Alone(t, u)' /\ Alone(u, t)'
BY DEF Alone, Locking

(* A task that neither sleeps nor is about to waits for nothing.           *)
LEMMA OutWaiting ==
  ASSUME NEW t \in Task, at'[t] \notin Resting
  PROVE  Waiting(t)'
BY DEF Waiting, Resting

(* Who waits on a pipe has its end: it cannot be the end being closed.     *)
LEMMA WaiterHolds ==
  ASSUME PipeIInv, NEW u \in Task, on[u] # NoFrame
  PROVE  /\ \A t \in Task : ff[t] # [page |-> on[u], writable |-> at[u] \in Writing]
         /\ on[u] \in live /\ on[u] \in Frame
         /\ at[u] \notin Writing => pipe[on[u]].readopen
<1>1. PICK d \in Fd : Uses(u, d)
  BY DEF PipeIInv, UseInv, Uses
<1> DEFINE f == ofile[u][d]
           e == [page |-> on[u], writable |-> at[u] \in Writing]
<1>2. f \in File /\ ref[f] > 0 /\ end[f] = e
  BY <1>1 DEF Uses, PipeIInv, PipeTypes
<1>3. e # NoEnd
  BY DEF NoEnd
<1>4. \A t \in Task : ff[t] # e
  BY <1>2, <1>3 DEF PipeIInv, EndInv
<1>5. on[u] \in live /\ on[u] \in Frame
  BY DEF PipeIInv, PageLivesWithItsEnds, PipeTypes
<1>6. ASSUME at[u] \notin Writing PROVE pipe[on[u]].readopen
  <2>1. (at[u] \in Writing) = FALSE
    BY <1>6
  <2>2. end[f] = [page |-> on[u], writable |-> FALSE]
    BY <1>2, <2>1
  <2>3. Holds(on[u], FALSE)
    BY <1>2, <2>2 DEF Holds
  <2>4. PageOK(on[u])
    BY <1>5, PageParts DEF PipeIInv
  <2> QED BY <1>5, <2>3, <2>4 DEF PageOK
<1> QED BY <1>4, <1>5, <1>6

(* What is left to show of a step of t.                                    *)
PipeSettled(t) ==
  /\ Waiting(t)'
  /\ \A u \in Task \ {t} : Waiting(u)' /\ Alone(t, u)' /\ Alone(u, t)'

(* It is enough: two others stay alone as they were.                       *)
LEMMA Settles ==
  ASSUME PipeIInv, NEW t \in Task, OwnStep(t), PipeSettled(t)
  PROVE  PipeLockInv' /\ SleepIsJustified'
<1>1. \A u, w \in Task : Alone(u, w)
  BY LockParts DEF PipeIInv
<1>2. ASSUME NEW u \in Task, NEW w \in Task PROVE Alone(u, w)'
  <2>1. CASE u # t /\ w # t
    BY <1>1, <2>1, OthersKeep, OthersAlone
  <2>2. CASE u = t /\ w = t
    BY <2>2 DEF Alone
  <2>3. CASE u = t /\ w # t
    BY <2>3 DEF PipeSettled
  <2>4. CASE u # t /\ w = t
    BY <2>4 DEF PipeSettled
  <2> QED BY <2>1, <2>2, <2>3, <2>4
<1>3. \A u \in Task : Waiting(u)'
  BY DEF PipeSettled
<1> QED BY <1>2, <1>3, LockPartsNext

(* t is outside piperead and pipewrite before and after.                   *)
LEMMA OutsideSettles ==
  ASSUME PipeIInv, NEW t \in Task, OwnStep(t),
         at[t] \notin Reading \cup Writing, at'[t] \notin Locking \cup Resting,
         \A h \in live : pipe'[h] = pipe[h], cut' = cut
  PROVE  PipeSettled(t)
<1>1. \A u \in Task : Waiting(u)
  BY LockParts DEF PipeIInv
<1>2. \A u \in Task \ {t} : Kept(u)
  BY OthersKeep
<1>3. \A h : Unlocked(h)' => Unlocked(h)
  BY <1>2, LockElse DEF Reading, Writing, Locking
<1>4. Waiting(t)' /\ \A u \in Task \ {t} : Alone(t, u)' /\ Alone(u, t)'
  BY OutAlone, OutWaiting DEF Resting
<1>5. ASSUME NEW u \in Task \ {t} PROVE Waiting(u)'
  <2>1. CASE on[u] # NoFrame
    <3>1. on[u] \in live
      BY <2>1, WaiterHolds
    <3>2. pipe'[on[u]] = pipe[on[u]] /\ (on[u] \in cut => on[u] \in cut')
      BY <3>1
    <3>3. Kept(u) /\ Waiting(u) /\ \A h : h = on[u] /\ Unlocked(h)' => Unlocked(h)
      BY <1>1, <1>2, <1>3
    <3> QED BY <3>2, <3>3, Bystander
  <2>2. CASE on[u] = NoFrame
    <3>1. at[u] \notin Reading \cup Writing
      BY <2>2 DEF PipeIInv, PlaceInv
    <3>2. at'[u] = at[u]
      BY <1>2, <3>1 DEF Kept, Reading, Writing
    <3> QED BY <3>1, <3>2, OutWaiting DEF Resting, Reading, Writing
  <2> QED BY <2>1, <2>2
<1> QED BY <1>4, <1>5 DEF PipeSettled

(* Closing an end wakes whoever waits for the other.                       *)
LEMMA EndSettles ==
  ASSUME PipeIInv, NEW t \in Task, NEW g \in Frame, NEW pi \in PipeContents, EndCloses(t, g, pi),
         OwnStep(t)
  PROVE  PipeSettled(t)
<1>1. \A u \in Task : Waiting(u)
  BY LockParts DEF PipeIInv
<1>2. \A u \in Task \ {t} : Kept(u)
  BY OthersKeep
<1>3. /\ at[t] \in Closing /\ Unlocked(g) /\ ff[t].page = g /\ ff[t].writable \in BOOLEAN
      /\ at' = Closed(t, IF ff[t].writable THEN WakeReaders(g, at) ELSE WakeWriters(g, at))
      /\ \A h \in Frame \ {g} : pipe'[h] = pipe[h] /\ (h \in cut => h \in cut')
  BY DEF EndCloses, PipeIInv, PipeTypes
<1>4. at \in [Task -> Place] /\ ff[t] \in End
  BY DEF PipeIInv, PipeTypes
<1> DEFINE where == IF ff[t].writable THEN WakeReaders(g, at) ELSE WakeWriters(g, at)
<1>5. where \in [Task -> Place] /\ where[t] \in Closing
  <2>1. where \in [Task -> Place]
    BY <1>4, WakeTypes
  <2>2. where[t] \in Closing
    BY <1>3 DEF WakeReaders, WakeWriters, Closing
  <2> QED BY <2>1, <2>2
<1>6. at'[t] \in Closing \cup {"user", "exit"} /\ \A u \in Task \ {t} : at'[u] = where[u]
  <2>1. at' = Closed(t, where)
    BY <1>3
  <2> HIDE DEF where
  <2> QED BY <1>5, <2>1, ClosedPlace
<1>7. \A h : Unlocked(h)' => Unlocked(h)
  BY <1>2, <1>3, LockElse DEF Closing, Locking
<1>8. Waiting(t)' /\ \A u \in Task \ {t} : Alone(t, u)' /\ Alone(u, t)'
  BY <1>6, OutAlone, OutWaiting DEF Resting, Closing, Locking
<1>9. ASSUME NEW u \in Task \ {t} PROVE Waiting(u)'
  <2>1. CASE on[u] # NoFrame /\ on[u] # g
    <3>1. on[u] \in Frame \ {g}
      BY <2>1, WaiterHolds
    <3>2. pipe'[on[u]] = pipe[on[u]] /\ (on[u] \in cut => on[u] \in cut')
      BY <1>3, <3>1
    <3>3. Kept(u) /\ Waiting(u) /\ \A h : h = on[u] /\ Unlocked(h)' => Unlocked(h)
      BY <1>1, <1>2, <1>7
    <3> QED BY <3>2, <3>3, Bystander
  <2>2. CASE on[u] = NoFrame
    <3>1. at[u] \notin Reading \cup Writing
      BY <2>2 DEF PipeIInv, PlaceInv
    <3>2. at'[u] = at[u]
      BY <1>2, <3>1 DEF Kept, Reading, Writing
    <3> QED BY <3>1, <3>2, OutWaiting DEF Resting, Reading, Writing
  <2>3. CASE on[u] = g
    <3>1. on[u] # NoFrame
      BY <2>3, PipeAssumption
    <3>2. at[u] \in Reading \cup Writing /\ at[u] \notin Locking
      BY <1>3, <2>3, <3>1 DEF PipeIInv, PlaceInv, Unlocked, Locking
    <3>3. ff[t] # [page |-> on[u], writable |-> at[u] \in Writing]
      BY <3>1, WaiterHolds
    <3>4. ff[t] = [page |-> g, writable |-> ff[t].writable]
      BY <1>3, <1>4 DEF End
    <3>5. ff[t].writable # (at[u] \in Writing)
      BY <2>3, <3>3, <3>4
    <3>6. CASE ff[t].writable = TRUE
      <4>1. at[u] \in {"read", "asleep to read"}
        BY <3>2, <3>5, <3>6 DEF Reading, Writing, Locking
      <4>2. at'[u] = "read"
        BY <1>4, <1>6, <2>3, <3>6, <4>1 DEF WakeReaders
      <4> QED BY <4>2, OutWaiting DEF Resting
    <3>7. CASE ff[t].writable = FALSE
      <4>1. at[u] \in Writing
        <5>1. ASSUME at[u] \notin Writing PROVE FALSE
          <6>1. (at[u] \in Writing) = FALSE
            BY <5>1
          <6> QED BY <3>5, <3>7, <6>1
        <5> QED BY <5>1
      <4>2. at[u] \in {"write", "asleep to write"}
        BY <3>2, <4>1 DEF Reading, Writing, Locking
      <4>3. at'[u] = "write"
        BY <1>4, <1>6, <2>3, <3>7, <4>2 DEF WakeWriters
      <4> QED BY <4>3, OutWaiting DEF Resting
    <3> QED BY <1>3, <3>6, <3>7
  <2> QED BY <2>1, <2>2, <2>3
<1> QED BY <1>8, <1>9 DEF PipeSettled

(* A call on page g leaves everyone on another page waiting as before.     *)
LEMMA Elsewhere ==
  ASSUME PipeIInv, NEW t \in Task, OwnStep(t), NEW g \in Frame,
         on[t] \in {g, NoFrame}, on'[t] \in {g, NoFrame},
         \A h \in Frame \ {g} : pipe'[h] = pipe[h] /\ (h \in cut => h \in cut'),
         NEW u \in Task \ {t}, on[u] # g
  PROVE  Waiting(u)'
<1>1. Waiting(u) /\ Kept(u)
  BY LockParts, OthersKeep DEF PipeIInv
<1>2. CASE on[u] # NoFrame
  <2>1. on[u] \in Frame \ {g}
    BY <1>2, WaiterHolds
  <2>2. pipe'[on[u]] = pipe[on[u]] /\ (on[u] \in cut => on[u] \in cut')
    BY <2>1
  <2>3. on[t] # on[u]
    BY <1>2
  <2>4. \A h : h = on[u] /\ Unlocked(h)' => Unlocked(h)
    BY <2>3, LockElse, OthersKeep
  <2> QED BY <1>1, <2>2, <2>4, Bystander
<1>3. CASE on[u] = NoFrame
  <2>1. at[u] \notin Reading \cup Writing
    BY <1>3 DEF PipeIInv, PlaceInv
  <2>2. at'[u] = at[u]
    BY <1>1, <2>1 DEF Kept, Reading, Writing
  <2> QED BY <2>1, <2>2, OutWaiting DEF Resting, Reading, Writing
<1> QED BY <1>2, <1>3

(* What is known of those on the page g that t works on.                   *)
LEMMA OnPage ==
  ASSUME PipeIInv, NEW t \in Task, OwnStep(t), NEW u \in Task \ {t}
  PROVE  /\ Waiting(u) /\ Waiting(t) /\ Kept(u) /\ Alone(t, u) /\ Alone(u, t)
         /\ at \in [Task -> Place] /\ on \in [Task -> Frame \cup {NoFrame}]
         /\ pipe \in [Frame -> PipeContents]
BY LockParts, OthersKeep DEF PipeIInv, PipeTypes

(* The lock t holds, or takes, is nobody else's.                           *)
LEMMA LockIsMine ==
  ASSUME PipeIInv, NEW t \in Task, WriteLock(t) \/ Unlocked(on[t]), NEW u \in Task \ {t}, on[u] = on[t]
  PROVE  at[u] \notin Locking
<1>1. Alone(t, u)
  BY LockParts DEF PipeIInv
<1>2. CASE Unlocked(on[t])
  BY <1>2 DEF Unlocked, Locking
<1>3. CASE at[t] = "writing"
  BY <1>1, <1>3 DEF Alone, Locking
<1> QED BY <1>2, <1>3 DEF WriteLock

(* A pipe in which t changed nothing keeps whoever waits on it, unless t   *)
(* let go of the lock.                                                     *)
LEMMA Untouched ==
  ASSUME PipeIInv, NEW t \in Task, OwnStep(t), NEW u \in Task \ {t},
         pipe' = pipe, on[u] \in cut => on[u] \in cut',
         \/ at[t] \notin Locking \/ on[t] # on[u]
         \/ at'[t] \in Locking /\ on'[t] = on[t]
         \/ at'[u] # "asleep to read"
  PROVE  Waiting(u)'
<1>1. Waiting(u) /\ Kept(u)
  BY OnPage
<1>2. CASE at'[u] = "asleep to read"
  <2>1. \A h : h = on[u] /\ Unlocked(h)' => Unlocked(h)
    BY <1>2, LockElse, OthersKeep
  <2> QED BY <1>1, <2>1, Bystander
<1>3. CASE at'[u] # "asleep to read" /\ at[u] # "asleep to read"
  BY <1>1, <1>3, Bystander
<1>4. CASE at'[u] # "asleep to read" /\ at[u] = "asleep to read"
  <2>1. at'[u] = "read"
    BY <1>1, <1>4 DEF Kept
  <2> QED BY <2>1, OutWaiting DEF Resting
<1> QED BY <1>2, <1>3, <1>4

(* A writer that gives up leaves its bytes to no one asleep, or to cut.    *)
LEMMA WriteFailsSettles ==
  ASSUME PipeIInv, NEW t \in Task, NEW g \in Frame, WriteFails(t, g), OwnStep(t)
  PROVE  PipeSettled(t)
<1>1. at'[t] = "user" /\ pipe' = pipe /\ g = on[t] /\ WriteLock(t) /\ on'[t] = NoFrame
  BY DEF WriteFails, PipeIInv, PipeTypes, Within
<1>2. Waiting(t)' /\ \A u \in Task \ {t} : Alone(t, u)' /\ Alone(u, t)'
  BY <1>1, OutAlone, OutWaiting DEF Resting, Locking
<1>3. ASSUME NEW u \in Task \ {t} PROVE Waiting(u)'
  <2>0. on[u] \in cut => on[u] \in cut'
    BY DEF WriteFails
  <2>1. CASE on[u] # g \/ at[t] \notin Locking
    BY <1>1, <2>0, <2>1, Untouched
  <2>2. CASE at'[u] # "asleep to read"
    BY <1>1, <2>0, <2>2, Untouched
  <2>3. CASE on[u] = g /\ at[t] \in Locking /\ at'[u] = "asleep to read"
    <3>1. at[t] = "writing" /\ left[t] < MaxWrite
      BY <1>1, <2>3 DEF WriteLock, Locking, PipeIInv, PlaceInv
    <3>2. Waiting(u) /\ Kept(u)
      BY OnPage
    <3>3. at[u] = "asleep to read" /\ on'[u] = g
      BY <2>3, <3>2 DEF Kept
    <3>4. on[u] # NoFrame /\ at[u] \notin Writing
      BY <2>3, <3>3, PipeAssumption DEF Writing
    <3>5. pipe[g].readopen
      BY <2>3, <3>4, WaiterHolds
    <3>6. g \in cut'
      BY <3>1, <3>5 DEF WriteFails
    <3>7. pipe'[on'[u]].writeopen /\ (u \in doomed' => u \in missed')
      BY <1>1, <2>3, <3>2, <3>3 DEF Waiting, Kept, Resting
    <3> QED BY <2>3, <3>3, <3>6, <3>7 DEF Waiting, Resting
  <2> QED BY <2>1, <2>2, <2>3
<1> QED BY <1>2, <1>3 DEF PipeSettled

(* A writer that finds the pipe full wakes the readers.                    *)
LEMMA WriteWaitsSettles ==
  ASSUME PipeIInv, NEW t \in Task, NEW g \in Frame, WriteWaits(t, g), OwnStep(t)
  PROVE  PipeSettled(t)
<1>1. /\ at'[t] = "full" /\ pipe' = pipe /\ g = on[t] /\ WriteLock(t) /\ on'[t] = g
      /\ pipe[g].readopen /\ Full(pipe[g]) /\ t \notin doomed'
      /\ \A h \in cut \ {g} : h \in cut'
  BY DEF WriteWaits, PipeIInv, PipeTypes, Within, WakeReaders
<1>2. Waiting(t)'
  BY <1>1 DEF Waiting, Resting
<1>3. ASSUME NEW u \in Task \ {t}, on[u] = g
      PROVE  at'[u] # "asleep to read" /\ at'[u] \notin Locking
  <2>1. at[u] \notin Locking
    BY <1>1, <1>3, LockIsMine
  <2>2. at \in [Task -> Place] /\ at' = WakeReaders(g, [at EXCEPT ![t] = "full"])
    BY DEF WriteWaits, PipeIInv, PipeTypes
  <2> QED BY <1>3, <2>1, <2>2 DEF WakeReaders, Locking
<1>4. ASSUME NEW u \in Task \ {t} PROVE Alone(t, u)' /\ Alone(u, t)'
  <2>1. on'[u] = on[u]
    BY OnPage DEF Kept
  <2>2. CASE on[u] = g
    BY <1>3, <2>2, OutAlone
  <2>3. CASE on[u] # g
    BY <1>1, <2>1, <2>3 DEF Alone
  <2> QED BY <2>2, <2>3
<1>5. ASSUME NEW u \in Task \ {t} PROVE Waiting(u)'
  <2>1. CASE on[u] = g
    <3>1. Kept(u) /\ Waiting(u)
      BY OnPage
    <3>2. at'[u] # "asleep to read" /\ at'[u] \notin Locking /\ on'[u] = g /\ at[u] \notin Locking
      BY <1>1, <1>3, <2>1, <3>1, LockIsMine DEF Kept
    <3> QED BY <1>1, <2>1, <3>1, <3>2 DEF Kept, Waiting, Resting, Locking
  <2>2. CASE on[u] # g
    BY <1>1, <2>2, Untouched
  <2> QED BY <2>1, <2>2
<1> QED BY <1>2, <1>4, <1>5 DEF PipeSettled

(* A writer holds the lock from byte to byte.                              *)
LEMMA WritesByteSettles ==
  ASSUME PipeIInv, NEW t \in Task, NEW g \in Frame, WritesByte(t, g), OwnStep(t)
  PROVE  PipeSettled(t)
<1>1. /\ at'[t] = "writing" /\ g = on[t] /\ WriteLock(t) /\ on'[t] = g /\ ~Full(pipe[g])
      /\ cut' = cut /\ pipe'[g].writeopen = pipe[g].writeopen
      /\ \A h \in Frame \ {g} : pipe'[h] = pipe[h]
  <2>1. pipe \in [Frame -> PipeContents] /\ at \in [Task -> Place]
    BY DEF PipeIInv, PipeTypes
  <2>2. pipe'[g].writeopen = pipe[g].writeopen
    BY <2>1 DEF WritesByte, PipeContents
  <2> QED BY <2>1, <2>2 DEF WritesByte, Within
<1>2. Waiting(t)'
  BY <1>1, OutWaiting DEF Resting
<1>3. ASSUME NEW u \in Task \ {t} PROVE Alone(t, u)' /\ Alone(u, t)'
  <2>1. Kept(u)
    BY OnPage
  <2>2. CASE on[u] = g
    <3>1. at[u] \notin Locking
      BY <1>1, <2>2, LockIsMine
    <3> QED BY <1>1, <2>1, <3>1 DEF Alone, Kept, Locking
  <2>3. CASE on[u] # g
    BY <1>1, <2>1, <2>3 DEF Alone, Kept
  <2> QED BY <2>2, <2>3
<1>4. ASSUME NEW u \in Task \ {t} PROVE Waiting(u)'
  <2>1. CASE on[u] = g
    <3>1. Kept(u) /\ Waiting(u) /\ at[u] \notin Locking
      BY <1>1, <2>1, OnPage, LockIsMine
    <3>2. at[u] # "asleep to write"
      BY <1>1, <2>1, <3>1 DEF Waiting
    <3>3. CASE at'[u] = "asleep to read"
      <4>1. at[u] = "asleep to read" /\ on'[u] = g
        BY <2>1, <3>1, <3>3 DEF Kept
      <4>2. ~Unlocked(on[u])'
        BY <1>1, <4>1 DEF Unlocked
      <4>3. pipe'[on'[u]].writeopen
        BY <1>1, <2>1, <3>1, <4>1 DEF Waiting
      <4>4. u \in doomed' => u \in missed'
        BY <3>1, <4>1 DEF Waiting, Kept, Resting
      <4> QED BY <3>3, <4>2, <4>3, <4>4 DEF Waiting
    <3>4. CASE at'[u] # "asleep to read"
      BY <3>1, <3>2, <3>4, OutWaiting DEF Kept, Resting, Locking
    <3> QED BY <3>3, <3>4
  <2>2. CASE on[u] # g
    BY <1>1, <2>2, Elsewhere
  <2> QED BY <2>1, <2>2
<1> QED BY <1>2, <1>3, <1>4 DEF PipeSettled

(* A writer that returns wakes the readers.                                *)
LEMMA WriteDoneSettles ==
  ASSUME PipeIInv, NEW t \in Task, NEW g \in Frame, WriteDone(t, g), OwnStep(t)
  PROVE  PipeSettled(t)
<1>1. /\ at'[t] = "user" /\ pipe' = pipe /\ g = on[t] /\ on'[t] = NoFrame
      /\ \A h \in cut \ {g} : h \in cut'
      /\ \A u \in Task : on[u] = g => at'[u] # "asleep to read"
  BY DEF WriteDone, PipeIInv, PipeTypes, Within, WakeReaders
<1>2. Waiting(t)' /\ \A u \in Task \ {t} : Alone(t, u)' /\ Alone(u, t)'
  BY <1>1, OutAlone, OutWaiting DEF Resting, Locking
<1>3. ASSUME NEW u \in Task \ {t} PROVE Waiting(u)'
  <2>1. CASE on[u] # g
    BY <1>1, <2>1, Untouched
  <2>2. CASE on[u] = g
    <3>1. Waiting(u) /\ Kept(u) /\ at'[u] # "asleep to read"
      BY <1>1, <2>2, OnPage
    <3> QED BY <1>1, <3>1 DEF Waiting, Kept, Resting
  <2> QED BY <2>1, <2>2
<1> QED BY <1>2, <1>3 DEF PipeSettled

(* A task falls asleep for the reason it had when it took the lock.        *)
LEMMA SleepSettles ==
  ASSUME PipeIInv, NEW t \in Task, PipeSleep(t), OwnStep(t)
  PROVE  PipeSettled(t)
<1>1. /\ pipe' = pipe /\ on' = on /\ cut' = cut /\ doomed' = doomed /\ missed' = missed
      /\ \/ at[t] = "full" /\ at'[t] = "asleep to write"
         \/ at[t] = "empty" /\ at'[t] = "asleep to read"
      /\ \A u \in Task \ {t} : at'[u] = at[u]
  BY DEF PipeSleep, Goes, PipeIInv, PipeTypes
<1>2. Waiting(t) /\ \A u \in Task : Alone(t, u) /\ Alone(u, t) /\ Waiting(u)
  BY LockParts DEF PipeIInv
<1>3. Waiting(t)'
  BY <1>1, <1>2 DEF Waiting, Resting
<1>4. ASSUME NEW u \in Task \ {t} PROVE Alone(t, u)' /\ Alone(u, t)'
  BY <1>1, <1>2 DEF Alone, Locking
<1>5. ASSUME NEW u \in Task \ {t} PROVE Waiting(u)'
  <2>1. CASE on[u] # on[t] \/ at'[u] # "asleep to read"
    BY <1>1, <2>1, Untouched
  <2>2. CASE on[u] = on[t] /\ at'[u] = "asleep to read"
    <3>1. at[u] = "asleep to read" /\ Alone(t, u)
      BY <1>1, <1>2, <2>2
    <3>2. at[t] = "empty"
      BY <1>1, <2>2, <3>1 DEF Alone
    <3>3. Empty(pipe[on[t]])
      BY <1>2, <3>2 DEF Waiting
    <3> QED BY <1>1, <1>2, <2>2, <3>1, <3>3 DEF Waiting, Resting
  <2> QED BY <2>1, <2>2
<1> QED BY <1>3, <1>4, <1>5 DEF PipeSettled

(* A killed reader leaves the pipe as it is.                               *)
LEMMA ReadFailsSettles ==
  ASSUME PipeIInv, NEW t \in Task, NEW g \in Frame, ReadFails(t, g), OwnStep(t)
  PROVE  PipeSettled(t)
<1>1. at'[t] = "user" /\ pipe' = pipe /\ cut' = cut /\ at[t] = "read"
  BY DEF ReadFails, PipeIInv, PipeTypes
<1>2. Waiting(t)' /\ \A u \in Task \ {t} : Alone(t, u)' /\ Alone(u, t)'
  BY <1>1, OutAlone, OutWaiting DEF Resting, Locking
<1>3. \A u \in Task \ {t} : Waiting(u)'
  BY <1>1, Untouched DEF Locking
<1> QED BY <1>2, <1>3 DEF PipeSettled

(* A reader that finds the pipe empty takes the lock.                      *)
LEMMA ReadWaitsSettles ==
  ASSUME PipeIInv, NEW t \in Task, NEW g \in Frame, ReadWaits(t, g), OwnStep(t)
  PROVE  PipeSettled(t)
<1>1. /\ at'[t] = "empty" /\ pipe' = pipe /\ cut' = cut /\ at[t] = "read" /\ g = on[t] /\ on' = on
      /\ Unlocked(g) /\ Empty(pipe[g]) /\ pipe[g].writeopen /\ t \notin doomed'
  BY DEF ReadWaits, PipeIInv, PipeTypes, Within
<1>2. Waiting(t)'
  BY <1>1 DEF Waiting, Resting
<1>3. ASSUME NEW u \in Task \ {t} PROVE Alone(t, u)' /\ Alone(u, t)'
  <2>1. Kept(u)
    BY OnPage
  <2>2. CASE on[u] = g
    <3>1. at[u] \notin Locking
      BY <1>1, <2>2, LockIsMine
    <3> QED BY <1>1, <2>1, <3>1 DEF Alone, Kept, Locking
  <2>3. CASE on[u] # g
    BY <1>1, <2>1, <2>3 DEF Alone, Kept
  <2> QED BY <2>2, <2>3
<1>4. \A u \in Task \ {t} : Waiting(u)'
  BY <1>1, Untouched DEF Locking
<1> QED BY <1>2, <1>3, <1>4 DEF PipeSettled

(* A reader that takes bytes wakes the writers.                            *)
LEMMA ReadsBytesSettles ==
  ASSUME PipeIInv, NEW t \in Task, NEW g \in Frame, NEW n \in Nat, ReadsBytes(t, g, n), OwnStep(t)
  PROVE  PipeSettled(t)
<1>1. /\ at'[t] = "user" /\ cut' = cut /\ at[t] = "read" /\ g = on[t] /\ on'[t] = NoFrame
      /\ Unlocked(g) /\ (~Empty(pipe[g]) \/ ~pipe[g].writeopen)
      /\ \A h \in Frame \ {g} : pipe'[h] = pipe[h]
      /\ pipe'[g].writeopen = pipe[g].writeopen
      /\ \A u \in Task \ {t} : on[u] = g => at'[u] # "asleep to write"
  <2>1. /\ at \in [Task -> Place] /\ on \in [Task -> Frame \cup {NoFrame}]
        /\ pipe \in [Frame -> PipeContents]
    BY DEF PipeIInv, PipeTypes
  <2>2. pipe'[g].writeopen = pipe[g].writeopen
    BY <2>1 DEF ReadsBytes, PipeContents
  <2>3. \A u \in Task \ {t} : on[u] = g => at'[u] # "asleep to write"
    BY <2>1 DEF ReadsBytes, WakeWriters
  <2>4. at'[t] = "user" /\ on'[t] = NoFrame
    BY <2>1 DEF ReadsBytes, WakeWriters
  <2> QED BY <2>1, <2>2, <2>3, <2>4 DEF ReadsBytes, Within
<1>2. Waiting(t)' /\ \A u \in Task \ {t} : Alone(t, u)' /\ Alone(u, t)'
  BY <1>1, OutAlone, OutWaiting DEF Resting, Locking
<1>3. ASSUME NEW u \in Task \ {t} PROVE Waiting(u)'
  <2>1. CASE on[u] # g
    BY <1>1, <2>1, Elsewhere
  <2>2. CASE on[u] = g
    <3>1. Waiting(u) /\ Kept(u) /\ at'[u] # "asleep to write" /\ at[u] \notin Locking
      BY <1>1, <2>2, OnPage, LockIsMine
    <3>2. CASE at'[u] = "asleep to read"
      <4>1. at[u] = "asleep to read" /\ on'[u] = g
        BY <2>2, <3>1, <3>2 DEF Kept
      <4>2. pipe[g].writeopen /\ (Empty(pipe[g]) \/ g \in cut)
        BY <1>1, <2>2, <3>1, <4>1 DEF Waiting
      <4>3. u \in doomed' => u \in missed'
        BY <3>1, <4>1 DEF Waiting, Kept, Resting
      <4> QED BY <1>1, <3>2, <4>1, <4>2, <4>3 DEF Waiting
    <3>3. CASE at'[u] # "asleep to read"
      BY <3>1, <3>3, OutWaiting DEF Kept, Resting, Locking
    <3> QED BY <3>2, <3>3
  <2> QED BY <2>1, <2>2
<1> QED BY <1>2, <1>3 DEF PipeSettled

(* A task that enters a call does not have the lock yet.                   *)
LEMMA EntersSettles ==
  ASSUME PipeIInv, NEW t \in Task, NEW f \in File, Enters(t, f), OwnStep(t)
  PROVE  PipeSettled(t)
<1>1. at'[t] \in {"read", "write"} /\ pipe' = pipe /\ cut' = cut /\ at[t] = "user"
  BY DEF Enters, PipeIInv, PipeTypes
<1>2. Waiting(t)' /\ \A u \in Task \ {t} : Alone(t, u)' /\ Alone(u, t)'
  BY <1>1, OutAlone, OutWaiting DEF Resting, Locking
<1>3. \A u \in Task \ {t} : Waiting(u)'
  BY <1>1, Untouched DEF Locking
<1> QED BY <1>2, <1>3 DEF PipeSettled

(* A kill wakes a sleeper, and is missed for one about to sleep.             *)
LEMMA KillSettles ==
  ASSUME PipeIInv, NEW t \in Task, KillTask(t), OwnStep(t)
  PROVE  PipeSettled(t)
<1>1. /\ pipe' = pipe /\ cut' = cut /\ on' = on
      /\ at'[t] \in {at[t], "read", "write"} /\ at'[t] \notin {"asleep to read", "asleep to write"}
      /\ at[t] \in Locking => at'[t] = at[t]
      /\ at[t] \in {"full", "empty"} => t \in missed'
      /\ \A u \in Task \ {t} : at'[u] = at[u]
  BY DEF KillTask, Goes, PipeIInv, PipeTypes, Locking
<1>2. Waiting(t) /\ \A u \in Task : Alone(t, u) /\ Alone(u, t) /\ Waiting(u)
  BY LockParts DEF PipeIInv
<1>3. Waiting(t)'
  BY <1>1, <1>2 DEF Waiting, Resting, Locking
<1>4. ASSUME NEW u \in Task \ {t} PROVE Alone(t, u)' /\ Alone(u, t)'
  BY <1>1, <1>2 DEF Alone, Locking
<1>5. \A u \in Task \ {t} : Waiting(u)'
  BY <1>1, Untouched
<1> QED BY <1>3, <1>4, <1>5 DEF PipeSettled

(* Locks and sleepers after every step.                                    *)
LEMMA WaitStep ==
  ASSUME PipeIInv, PipeNext
  PROVE  PipeLockInv' /\ SleepIsJustified'
<1>1. PICK t \in Task : OwnStep(t) \/ \E u \in Task \ {t} : ForkTask(t, u)
  BY StepOrFork
<1>0. /\ at \in [Task -> Place] /\ on \in [Task -> Frame \cup {NoFrame}] /\ pipe \in [Frame -> PipeContents]
      /\ live \in SUBSET Frame
  BY DEF PipeIInv, PipeTypes
<1>2. CASE OwnStep(t)
  <2> USE <1>2
  <2>1. ASSUME NEW i \in Fd, NEW j \in Fd, Installs(t, i, j) PROVE PipeSettled(t)
    BY <1>0, <2>1, OutsideSettles DEF Installs, Reading, Writing, Locking, Resting
  <2>2. ASSUME InstallFails(t) PROVE PipeSettled(t)
    <3>1. /\ at[t] \notin Reading \cup Writing /\ at'[t] \notin Locking \cup Resting
          /\ pipe' = pipe /\ cut' = cut
      BY <1>0, <2>2 DEF InstallFails, Reading, Writing, Locking, Resting
    <3> QED BY <3>1, OutsideSettles
  <2>3. ASSUME NEW i \in Fd, Shuts(t, i) PROVE PipeSettled(t)
    BY <1>0, <2>3, OutsideSettles DEF Shuts, Reading, Writing, Locking, Resting
  <2>4. ASSUME Exits(t) PROVE PipeSettled(t)
    <3>1. /\ at[t] \notin Reading \cup Writing /\ at'[t] \notin Locking \cup Resting
          /\ pipe' = pipe /\ cut' = cut
      BY <1>0, <2>4 DEF Exits, Reading, Writing, Locking, Resting
    <3> QED BY <3>1, OutsideSettles
  <2>5. ASSUME NEW f \in File, Drops(t, f) PROVE PipeSettled(t)
    <3>1. at' = Closed(t, at) /\ at[t] \in Closing /\ pipe' = pipe /\ cut' = cut
      BY <2>5 DEF Drops
    <3>2. at'[t] \in Closing \cup {"user", "exit"}
      BY <1>0, <3>1, ClosedPlace
    <3> QED BY <3>1, <3>2, OutsideSettles DEF Closing, Reading, Writing, Locking, Resting
  <2>6. ASSUME NEW g \in Frame, NEW rf \in File, NEW wf \in File, Allocs(t, g, rf, wf)
        PROVE  PipeSettled(t)
    <3>1. (\A h \in live : pipe'[h] = pipe[h]) /\ cut' = cut /\ at[t] = "user" /\ at'[t] = "install"
      BY <1>0, <2>6 DEF Allocs
    <3> QED BY <3>1, OutsideSettles DEF Reading, Writing, Locking, Resting
  <2>7. ASSUME NEW f \in File, NEW i \in Fd, Dups(t, f, i) PROVE PipeSettled(t)
    BY <1>0, <2>7, OutsideSettles DEF Dups, Reading, Writing, Locking, Resting
  <2>8. \A g \in Frame : WriteFails(t, g) \/ WriteWaits(t, g) \/ WritesByte(t, g) \/ WriteDone(t, g)
                           => PipeSettled(t)
    BY WriteFailsSettles, WriteWaitsSettles, WritesByteSettles, WriteDoneSettles
  <2>9. \A g \in Frame, n \in Nat : ReadFails(t, g) \/ ReadWaits(t, g) \/ ReadsBytes(t, g, n)
                           => PipeSettled(t)
    BY ReadFailsSettles, ReadWaitsSettles, ReadsBytesSettles
  <2>10. /\ \A g \in Frame, pi \in PipeContents : EndCloses(t, g, pi) => PipeSettled(t)
         /\ \A f \in File : Enters(t, f) => PipeSettled(t)
         /\ PipeSleep(t) \/ KillTask(t) => PipeSettled(t)
    BY EndSettles, EntersSettles, SleepSettles, KillSettles
  <2>11. 0 \in Nat
    OBVIOUS
  <2>12. PipeSettled(t)
    BY <2>1, <2>2, <2>3, <2>4, <2>5, <2>6, <2>7, <2>8, <2>9, <2>10, <2>11, Zenon DEF OwnStep
  <2> QED BY <2>12, Settles
<1>3. ASSUME NEW u \in Task \ {t}, ForkTask(t, u) PROVE PipeLockInv' /\ SleepIsJustified'
  <2>1. /\ at[u] = "dead" /\ at'[u] = "user" /\ \A w \in Task \ {u} : at'[w] = at[w]
        /\ UNCHANGED <<pipe, on, doomed, missed, cut>>
    BY <1>0, <1>3 DEF ForkTask, Goes
  <2>2. ASSUME NEW w \in Task PROVE Unlocked(on[w])' => Unlocked(on[w])
    BY <2>1 DEF Unlocked
  <2>3. (\A w \in Task : Waiting(w)) /\ \A w, v \in Task : Alone(w, v)
    BY LockParts DEF PipeIInv
  <2>4. ASSUME NEW w \in Task PROVE Waiting(w)'
    <3>1. CASE w = u
      BY <2>1, <3>1, OutWaiting DEF Resting
    <3>2. CASE w # u
      BY <2>1, <2>2, <2>3, <3>2 DEF Waiting
    <3> QED BY <3>1, <3>2
  <2>5. ASSUME NEW w \in Task, NEW v \in Task PROVE Alone(w, v)'
    BY <2>1, <2>3 DEF Alone, Locking
  <2> QED BY <2>4, <2>5, LockPartsNext
<1> QED BY <1>1, <1>2, <1>3

(* The inductive invariant is kept by every step, and by none.             *)
LEMMA PipeStep ==
  ASSUME PipeIInv, [PipeNext]_pipeVars
  PROVE  PipeIInv'
<1>1. CASE PipeNext
  BY <1>1, TypesStep, PlaceStep, RefStep, ShutStep, EndStep, LivesStep, UseStep, RingStep, WaitStep
     DEF PipeIInv
<1>2. CASE UNCHANGED pipeVars
  <2> USE <1>2 DEF pipeVars, PipeIInv
  <2>1. PipeTypes' /\ PlaceInv' /\ EndInv'
    BY DEF PipeTypes, PlaceInv, EndInv
  <2>2. RefCountsDescriptors' /\ ShutInv'
    BY DEF RefCountsDescriptors, Descriptors, Closes, ShutInv, Private
  <2>3. PageLivesWithItsEnds' /\ UseInv'
    <3>1. \A g : EndsHeld(g)' = EndsHeld(g)
      BY DEF EndsHeld
    <3>2. PageLivesWithItsEnds'
      BY <3>1 DEF PageLivesWithItsEnds
    <3> QED BY <3>2 DEF UseInv
  <2>4. RingInv' /\ PipeLockInv' /\ SleepIsJustified'
    BY DEF RingInv, PipeLockInv, SleepIsJustified, Unlocked
  <2> QED BY <2>1, <2>2, <2>3, <2>4
<1> QED BY <1>1, <1>2

(* A file has at most one reference per descriptor there is, or one.       *)
LEMMA RefBound ==
  ASSUME PipeTypes, RefCountsDescriptors, ShutInv, PlaceInv, NEW f \in File
  PROVE  ref[f] <= Cardinality(Task) * NOFILE + 1
<1>1. ref[f] = Cardinality(Descriptors(f)) + Cardinality(Closes(f))
  BY DEF RefCountsDescriptors
<1>2. /\ IsFiniteSet(Descriptors(f)) /\ Cardinality(Descriptors(f)) \in Nat
      /\ IsFiniteSet(Closes(f)) /\ Cardinality(Closes(f)) \in Nat
  BY HoldersFinite
<1> DEFINE All == Task \X Fd
<1>3. IsFiniteSet(All) /\ Cardinality(All) = Cardinality(Task) * NOFILE
  <2>1. 0 \in Int /\ NOFILE - 1 \in Int
    BY PipeAssumption
  <2>2. IsFiniteSet(Fd) /\ Cardinality(Fd) = IF 0 > NOFILE - 1 THEN 0 ELSE NOFILE - 1 - 0 + 1
    BY <2>1, FS_Interval DEF Fd
  <2>3. Cardinality(Fd) = NOFILE
    BY <2>2, PipeAssumption
  <2> QED BY <2>2, <2>3, PipeAssumption, FS_Product
<1>4. Cardinality(Task) * NOFILE \in Nat
  BY <1>3, FS_CardinalityType
<1>5. CASE \E t \in Task, k \in Twice : k <= Len(shut[t]) /\ shut[t][k] = f /\ Private(t, k)
  <2>1. PICK t \in Task, k \in Twice : k <= Len(shut[t]) /\ shut[t][k] = f /\ Private(t, k)
    BY <1>5
  <2>2. /\ \A u \in Task, d \in Fd : ofile[u][d] # f
        /\ \A u \in Task, j \in Twice : j <= Len(shut[u]) /\ shut[u][j] = f => u = t /\ j = k
    BY <2>1, PrivateFacts
  <2>3. Descriptors(f) = {}
    BY <2>2 DEF Descriptors
  <2>4. Closes(f) \subseteq {<<t, k>>}
    BY <2>2 DEF Closes, Twice
  <2>5. IsFiniteSet({<<t, k>>}) /\ Cardinality({<<t, k>>}) = 1
    BY FS_Singleton
  <2>6. Cardinality(Closes(f)) <= 1 /\ Cardinality(Descriptors(f)) = 0
    BY <2>3, <2>4, <2>5, FS_Subset, FS_EmptySet
  <2> QED BY <1>1, <1>2, <1>4, <2>6
<1>6. CASE \A t \in Task, k \in Twice : ~(k <= Len(shut[t]) /\ shut[t][k] = f /\ Private(t, k))
  <2> DEFINE Hole(t) == CHOOSE d \in Fd : ofile[t][d] = NoFile
             Free == All \ Descriptors(f)
             into == [x \in Closes(f) |-> <<x[1], Hole(x[1])>>]
  <2>1. ASSUME NEW x \in Closes(f)
        PROVE  /\ x[1] \in Task /\ x[2] = 1 /\ x = <<x[1], x[2]>>
               /\ Hole(x[1]) \in Fd /\ ofile[x[1]][Hole(x[1])] = NoFile
    <3>1. x \in Task \X Twice /\ x[2] <= Len(shut[x[1]]) /\ shut[x[1]][x[2]] = f
      BY DEF Closes, Twice
    <3>2. x[1] \in Task /\ x[2] \in Twice /\ x = <<x[1], x[2]>>
      BY <3>1
    <3>3. ShutOK(x[1])
      BY <3>2, ShutParts
    <3>4. Len(shut[x[1]]) = 1 /\ \E d \in Fd : ofile[x[1]][d] = NoFile
      BY <1>6, <3>1, <3>2, <3>3 DEF ShutOK
    <3>5. x[2] = 1
      BY <3>1, <3>2, <3>4, TwiceFacts
    <3> QED BY <3>2, <3>4, <3>5
  <2>2. ASSUME NEW x \in Closes(f) PROVE into[x] \in Free /\ into[x][1] = x[1]
    <3>1. <<x[1], Hole(x[1])>> \in All
      <4>1. x[1] \in Task /\ Hole(x[1]) \in Fd
        BY <2>1
      <4> HIDE DEF Hole
      <4> QED BY <4>1
    <3>2. <<x[1], Hole(x[1])>> \notin Descriptors(f)
      <4>1. f # NoFile
        BY PipeAssumption DEF File
      <4>2. ofile[x[1]][Hole(x[1])] # f
        BY <2>1, <4>1
      <4> HIDE DEF Hole
      <4> QED BY <4>2 DEF Descriptors
    <3> QED BY <3>1, <3>2
  <2>3. into \in Injection(Closes(f), Free)
    <3>1. into \in [Closes(f) -> Free]
      BY <2>2
    <3>2. ASSUME NEW x \in Closes(f), NEW y \in Closes(f), into[x] = into[y] PROVE x = y
      <4>1. x[1] = y[1]
        BY <2>2, <3>2
      <4>2. x = <<x[1], 1>> /\ y = <<y[1], 1>>
        BY <2>1
      <4> QED BY <4>1, <4>2
    <3>3. DOMAIN into = Closes(f)
      OBVIOUS
    <3> HIDE DEF into, Free
    <3> QED BY <3>1, <3>2, <3>3 DEF Injection, IsInjective
  <2>4. Descriptors(f) \subseteq All
    BY DEF Descriptors
  <2>5. IsFiniteSet(Free) /\ Cardinality(Free) = Cardinality(All) - Cardinality(Descriptors(f))
    <3>1. All \cap Descriptors(f) = Descriptors(f)
      BY <2>4
    <3> HIDE DEF All
    <3> QED BY <1>3, <3>1, FS_Difference
  <2> HIDE DEF into, Free, All
  <2>6. Cardinality(Closes(f)) <= Cardinality(Free)
    BY <2>3, <2>5, FS_Injection
  <2>7. Cardinality(Closes(f)) <= Cardinality(Task) * NOFILE - Cardinality(Descriptors(f))
    BY <1>3, <2>5, <2>6
  <2> DEFINE c == Cardinality(Closes(f))
             e == Cardinality(Descriptors(f))
             m == Cardinality(Task) * NOFILE
  <2>8. c \in Nat /\ e \in Nat /\ m \in Nat /\ c <= m - e /\ ref[f] = e + c
    BY <1>1, <1>2, <1>4, <2>7
  <2> HIDE DEF c, e, m
  <2>9. ref[f] <= m + 1
    BY <2>8
  <2> QED BY <2>9 DEF m
<1> QED BY <1>5, <1>6

(* The bytes the counters span.                                            *)
LEMMA Spanned ==
  ASSUME NEW a \in 0 .. UINT - 1, NEW n \in Nat, n <= PIPESIZE
  PROVE  (Plus(a, n) + UINT - a) % UINT = n
<1>0. UINT \in Nat \ {0} /\ PIPESIZE \in Nat /\ PIPESIZE < UINT /\ a \in Nat
  BY PipeAssumption
<1> DEFINE s == a + n
           z == UINT - a
           w == UINT + n
<1>1. s \in Nat /\ z \in Nat /\ s + z = w /\ w \in Nat /\ 1 \in Nat
  BY <1>0
<1>2. ((s % UINT) + z) % UINT = (s + z) % UINT
  BY <1>1, Wraps
<1>3. Over(w, UINT, 1, n)
  BY <1>0 DEF Over
<1>4. Plus(a, n) = s % UINT
  BY DEF Plus
<1>5. Plus(a, n) + UINT - a = Plus(a, n) + z
  <2>1. Plus(a, n) \in Nat
    BY <1>0, PlusTypes
  <2> QED BY <1>0, <2>1
<1> HIDE DEF s, z, w
<1>6. w % UINT = n % UINT
  BY <1>0, <1>1, <1>3, Shift
<1>7. n % UINT = n
  BY <1>0, Remainder, Z3
<1>8. (Plus(a, n) + z) % UINT = n
  BY <1>1, <1>2, <1>4, <1>6, <1>7
<1> QED BY <1>5, <1>8

(* The inductive invariant implies what is wanted of pipes.                *)
LEMMA PipeImplies == PipeIInv => PipeInv
<1> SUFFICES ASSUME PipeIInv PROVE PipeInv
  OBVIOUS
<1>1. PipeTypeOK
  <2>1. PipeTypes /\ RefCountsDescriptors /\ ShutInv /\ PlaceInv
    BY DEF PipeIInv
  <2>2. \A f \in File : ref[f] <= Cardinality(Task) * NOFILE + 1
    BY <2>1, RefBound
  <2>3. Cardinality(Task) \in Nat /\ NOFILE \in Nat
    BY PipeAssumption, FS_CardinalityType
  <2> DEFINE m == Cardinality(Task) * NOFILE + 1
  <2>4. m \in Int
    BY <2>3
  <2>5. \A f \in File : ref[f] <= m
    BY <2>2
  <2> HIDE DEF m
  <2>6. ref \in [File -> Nat]
    BY <2>1 DEF PipeTypes
  <2>7. ref \in [File -> 0 .. m]
    BY <2>4, <2>5, <2>6
  <2>8. \A g \in Frame : pipe[g].nread \in 0 .. UINT - 1 /\ pipe[g].nwrite \in 0 .. UINT - 1
    BY <2>1 DEF PipeTypes, PipeContents
  <2> QED BY <2>1, <2>7, <2>8 DEF PipeTypeOK, PipeTypes, m
<1>2. RingIsFifo
  <2> SUFFICES ASSUME NEW g \in live
               PROVE  flow[g] = [k \in 1 .. (pipe[g].nwrite + UINT - pipe[g].nread) % UINT |->
                                   pipe[g].data[(pipe[g].nread + k - 1) % PIPESIZE]]
    BY DEF RingIsFifo
  <2>1. g \in Frame /\ pipe[g] \in PipeContents /\ flow[g] \in Seq(Task)
    BY DEF PipeIInv, PipeTypes
  <2> DEFINE a == pipe[g].nread
             n == Len(flow[g])
  <2>2. a \in 0 .. UINT - 1 /\ n \in Nat
    BY <2>1 DEF PipeContents
  <2>3. /\ n <= PIPESIZE /\ pipe[g].nwrite = Plus(a, n)
        /\ \A k \in 1 .. n : flow[g][k] = pipe[g].data[(a + k - 1) % PIPESIZE]
    BY DEF PipeIInv, RingInv
  <2>4. (pipe[g].nwrite + UINT - a) % UINT = n
    BY <2>2, <2>3, Spanned
  <2>5. flow[g] = [k \in 1 .. n |-> flow[g][k]]
    <3>1. flow[g] \in [1 .. n -> Task]
      BY <2>1, LenProperties
    <3> QED BY <3>1
  <2>6. [k \in 1 .. n |-> flow[g][k]] = [k \in 1 .. n |-> pipe[g].data[(a + k - 1) % PIPESIZE]]
    BY <2>3
  <2> QED BY <2>4, <2>5, <2>6
<1> QED BY <1>1, <1>2 DEF PipeIInv, PipeInv

(* Pipes keep what PipeInv says of them: f->ref counts the descriptors and *)
(* the closes on the way, the page lives exactly as long as an end is held *)
(* and nobody is inside piperead or pipewrite on a freed one, the bytes    *)
(* come out as they went in across the wrap of the uint counters, and a    *)
(* sleeper has a reason to sleep, whatever the number of processes,        *)
(* descriptors, files and pages.                                           *)
THEOREM PipeCorrect == PipeSpec => []PipeInv
<1>1. fileinit => PipeIInv
  BY PipeInit
<1>2. PipeIInv /\ [PipeNext]_pipeVars => PipeIInv'
  BY PipeStep
<1>3. PipeSpec => []PipeIInv
  BY <1>1, <1>2, PTL DEF PipeSpec
<1> QED BY <1>3, PipeImplies, PTL

=============================================================================

--------------------------- MODULE AgentQueueProofs ---------------------------
(***************************************************************************)
(* Proofs about the two rings of agentcmd.c, for any number of drainers,   *)
(* any ring sizes and any number of lines.  Positions in a ring are taken  *)
(* out of modular arithmetic first (Pos); the invariant then speaks of the *)
(* line at distance k from the head.                                       *)
(***************************************************************************)
EXTENDS AgentQueue, SequenceTheorems, TLAPS

(* The slot at distance k from slot h, in a ring of n slots.               *)
Pos(h, k, n) == IF h + k < n THEN h + k ELSE h + k - n

(* How many lines wait in agent_q, and the line at distance k of a ring.   *)
Waiting == IF agent_q_tail >= agent_q_head THEN agent_q_tail - agent_q_head
           ELSE agent_q_tail - agent_q_head + QLen
Line1(k) == agent_q[Pos(agent_q_head, k, QLen)]
Line2(k) == buf[Pos(r, k, QCap)]

-----------------------------------------------------------------------------
(* The inductive invariant, in parts.                                      *)

(* A drainer holds a line exactly while it routes one, and agentd keeps    *)
(* agentq.lock only between finding the ring empty and being SLEEPING.     *)
ControlInv ==
  /\ \A d \in Drainers : local[d] # NoLine <=> dpc[d] = "route"
  /\ lockKept <=> agentd = "dosleep"
  /\ agentd = "dosleep" => count = 0

(* Stage 2, slot by slot.                                                  *)
RingInv ==
  /\ w = Pos(r, count, QCap)
  /\ Len(forwarded) = Len(received) + count
  /\ \A i \in 1 .. Len(received) : forwarded[i] = received[i]
  /\ \A k \in 0 .. count - 1 : forwarded[Len(received) + k + 1] = Line2(k)

(* Stage 1 holds lines in the order they came, younger than every line     *)
(* that has left it for a drainer or for agentd.                           *)
AgeInv ==
  /\ \A k \in 0 .. Waiting - 1 : Line1(k) \in 1 .. sent
  /\ \A j, k \in 0 .. Waiting - 1 : j < k => Line1(j) < Line1(k)
  /\ \A k \in 0 .. Waiting - 1, d \in Drainers : local[d] < Line1(k)
  /\ \A k \in 0 .. Waiting - 1, i \in 1 .. Len(forwarded) : forwarded[i] < Line1(k)

(* Each line sent is waiting, held, gone or forwarded, and only one of it. *)
PlaceInv ==
  /\ \A l \in 1 .. sent : \/ l \in gone
                          \/ \E k \in 0 .. Waiting - 1 : Line1(k) = l
                          \/ \E d \in Drainers : local[d] = l
                          \/ \E i \in 1 .. Len(forwarded) : forwarded[i] = l
  /\ gone \subseteq 1 .. sent
  /\ \A d \in Drainers : local[d] <= sent /\ local[d] \notin gone
  /\ \A i \in 1 .. Len(forwarded) : forwarded[i] <= sent /\ forwarded[i] \notin gone
  /\ \A k \in 0 .. Waiting - 1 : Line1(k) \notin gone
  /\ \A d \in Drainers, i \in 1 .. Len(forwarded) : local[d] # forwarded[i]
  /\ \A d, o \in Drainers : local[d] = local[o] /\ local[d] # NoLine => d = o
  /\ \A i, j \in 1 .. Len(forwarded) : forwarded[i] = forwarded[j] => i = j

(* A line that is older than one forwarded before it, or held together     *)
(* with it, was held when that one was taken.                              *)
OrderInv ==
  /\ \A i, j \in 1 .. Len(forwarded) :
       i < j => forwarded[i] < forwarded[j] \/ <<forwarded[j], forwarded[i]>> \in beside
  /\ \A d \in Drainers, i \in 1 .. Len(forwarded) :
       local[d] # NoLine => forwarded[i] < local[d] \/ <<local[d], forwarded[i]>> \in beside
  /\ \A d, o \in Drainers :
       local[d] # NoLine /\ local[d] < local[o] => <<local[d], local[o]>> \in beside

QueueInv == TypeOK /\ ControlInv /\ RingInv /\ AgeInv /\ PlaceInv /\ OrderInv
                   /\ NoLostWakeup

-----------------------------------------------------------------------------
(* Modular arithmetic on ring indices is Pos.                              *)
LEMMA ModPos ==
  ASSUME NEW n \in Nat, n > 0, NEW x \in Int, 0 <= x, x < n + n
  PROVE  x % n = IF x < n THEN x ELSE x - n
<1>1. CASE x < n
  BY <1>1, Z3
<1>2. CASE ~ (x < n)
  <2>1. n <= x
    BY <1>2
  <2>2. x % n = x - n
    BY <2>1, SMT
  <2> QED BY <1>2, <2>2
<1> QED BY <1>1, <1>2

(* Both rings advance an index to the next slot.                           *)
LEMMA NextSlot ==
  /\ \A x \in 0 .. QLen - 1 : (x + 1) % QLen = Pos(x, 1, QLen)
  /\ \A x \in 0 .. QCap - 1 : (x + 1) % QCap = Pos(x, 1, QCap)
<1>1. \A x \in 0 .. QLen - 1 : (x + 1) % QLen = Pos(x, 1, QLen)
  <2> SUFFICES ASSUME NEW x \in 0 .. QLen - 1 PROVE (x + 1) % QLen = Pos(x, 1, QLen)
    OBVIOUS
  <2>1. QLen \in Nat /\ QLen > 0 /\ x + 1 \in Int /\ 0 <= x + 1 /\ x + 1 < QLen + QLen
    BY AgentQueueAssumption
  <2> QED BY <2>1, ModPos DEF Pos
<1>2. \A x \in 0 .. QCap - 1 : (x + 1) % QCap = Pos(x, 1, QCap)
  <2> SUFFICES ASSUME NEW x \in 0 .. QCap - 1 PROVE (x + 1) % QCap = Pos(x, 1, QCap)
    OBVIOUS
  <2>1. QCap \in Nat /\ QCap > 0 /\ x + 1 \in Int /\ 0 <= x + 1 /\ x + 1 < QCap + QCap
    BY AgentQueueAssumption
  <2> QED BY <2>1, ModPos DEF Pos
<1> QED BY <1>1, <1>2

(* A new line makes agent_q one longer at its young end, taking one makes  *)
(* it one shorter at its old end.                                          *)
LEMMA Stage1Grows ==
  ASSUME TypeOK, agent_q_head' = agent_q_head,
         agent_q_tail' = (agent_q_tail + 1) % QLen, agent_q_tail' # agent_q_head,
         NEW l, agent_q' = [agent_q EXCEPT ![agent_q_tail] = l]
  PROVE  /\ Waiting \in Nat /\ Waiting' = Waiting + 1
         /\ \A k \in 0 .. Waiting : Line1(k)' = IF k = Waiting THEN l ELSE Line1(k)
<1>1. /\ QLen \in Nat /\ QLen >= 2 /\ DOMAIN agent_q = 0 .. QLen - 1
      /\ agent_q_head \in 0 .. QLen - 1 /\ agent_q_tail \in 0 .. QLen - 1
  BY AgentQueueAssumption DEF TypeOK
<1>2. agent_q_tail' = Pos(agent_q_tail, 1, QLen)
  BY <1>1, NextSlot
<1>3. Waiting \in Nat /\ Waiting < QLen - 1 /\ Waiting' = Waiting + 1
  BY <1>1, <1>2 DEF Waiting, Pos
<1>4. ASSUME NEW k \in 0 .. Waiting
      PROVE  Line1(k)' = IF k = Waiting THEN l ELSE Line1(k)
  <2>1. Pos(agent_q_head, k, QLen) \in 0 .. QLen - 1
    BY <1>1, <1>3, <1>4 DEF Pos
  <2>2. Pos(agent_q_head, k, QLen) = agent_q_tail <=> k = Waiting
    BY <1>1, <1>3, <1>4 DEF Waiting, Pos
  <2>3. Line1(k)' = agent_q'[Pos(agent_q_head, k, QLen)]
    BY DEF Line1, Pos
  <2> QED BY <1>1, <2>1, <2>2, <2>3 DEF Line1
<1> QED BY <1>3, <1>4

(* Taking the first line of agent_q moves the others one nearer.           *)
LEMMA Stage1Shrinks ==
  ASSUME TypeOK, agent_q' = agent_q, agent_q_tail' = agent_q_tail,
         agent_q_head' = (agent_q_head + 1) % QLen, agent_q_head # agent_q_tail
  PROVE  /\ Waiting \in Nat /\ Waiting > 0 /\ Waiting' = Waiting - 1
         /\ Line1(0) = agent_q[agent_q_head]
         /\ \A k \in 0 .. Waiting - 2 : Line1(k)' = Line1(k + 1)
<1>1. /\ QLen \in Nat /\ QLen >= 2
      /\ agent_q_head \in 0 .. QLen - 1 /\ agent_q_tail \in 0 .. QLen - 1
  BY AgentQueueAssumption DEF TypeOK
<1>2. agent_q_head' = Pos(agent_q_head, 1, QLen)
  BY <1>1, NextSlot
<1>3. Waiting \in Nat /\ 0 < Waiting /\ Waiting < QLen /\ Waiting' = Waiting - 1
  BY <1>1, <1>2 DEF Waiting, Pos
<1>4. Line1(0) = agent_q[agent_q_head]
  BY <1>1 DEF Line1, Pos
<1>5. ASSUME NEW k \in 0 .. Waiting - 2
      PROVE  Line1(k)' = Line1(k + 1)
  <2>1. Pos(Pos(agent_q_head, 1, QLen), k, QLen) = Pos(agent_q_head, k + 1, QLen)
    BY <1>1, <1>3, <1>5 DEF Pos
  <2> QED BY <1>2, <2>1 DEF Line1
<1> QED BY <1>3, <1>4, <1>5

(* The same for agentq.                                                    *)
LEMMA Stage2Grows ==
  ASSUME TypeOK, RingInv, count < QCap, r' = r, count' = count + 1,
         w' = (w + 1) % QCap, NEW l, buf' = [buf EXCEPT ![w] = l]
  PROVE  /\ w' = Pos(r, count + 1, QCap)
         /\ \A k \in 0 .. count : Line2(k)' = IF k = count THEN l ELSE Line2(k)
<1>1. /\ QCap \in Nat /\ QCap >= 1 /\ DOMAIN buf = 0 .. QCap - 1
      /\ r \in 0 .. QCap - 1 /\ w \in 0 .. QCap - 1 /\ count \in 0 .. QCap
      /\ w = Pos(r, count, QCap)
  BY AgentQueueAssumption DEF TypeOK, RingInv
<1>2. w' = Pos(w, 1, QCap)
  BY <1>1, NextSlot
<1>3. w' = Pos(r, count + 1, QCap)
  BY <1>1, <1>2 DEF Pos
<1>4. ASSUME NEW k \in 0 .. count
      PROVE  Line2(k)' = IF k = count THEN l ELSE Line2(k)
  <2>1. Pos(r, k, QCap) \in 0 .. QCap - 1
    BY <1>1, <1>4 DEF Pos
  <2>2. Pos(r, k, QCap) = w <=> k = count
    BY <1>1, <1>4 DEF Pos
  <2>3. Line2(k)' = buf'[Pos(r, k, QCap)]
    BY DEF Line2, Pos
  <2> QED BY <1>1, <2>1, <2>2, <2>3 DEF Line2
<1> QED BY <1>3, <1>4

(* Taking the first line of agentq moves the others one nearer.            *)
LEMMA Stage2Shrinks ==
  ASSUME TypeOK, RingInv, count > 0, r' = (r + 1) % QCap, count' = count - 1,
         w' = w, buf' = buf
  PROVE  /\ r' \in 0 .. QCap - 1 /\ w' = Pos(r', count - 1, QCap)
         /\ Line2(0) = buf[r]
         /\ \A k \in 0 .. count - 2 : Line2(k)' = Line2(k + 1)
<1>1. /\ QCap \in Nat /\ QCap >= 1
      /\ r \in 0 .. QCap - 1 /\ count \in 0 .. QCap /\ w = Pos(r, count, QCap)
  BY AgentQueueAssumption DEF TypeOK, RingInv
<1>2. r' = Pos(r, 1, QCap)
  BY <1>1, NextSlot
<1>3. r' \in 0 .. QCap - 1 /\ w' = Pos(r', count - 1, QCap)
  BY <1>1, <1>2 DEF Pos
<1>4. Line2(0) = buf[r]
  BY <1>1 DEF Line2, Pos
<1>5. ASSUME NEW k \in 0 .. count - 2
      PROVE  Line2(k)' = Line2(k + 1)
  <2>1. Pos(Pos(r, 1, QCap), k, QCap) = Pos(r, k + 1, QCap)
    BY <1>1, <1>5 DEF Pos
  <2> QED BY <1>2, <2>1 DEF Line2
<1> QED BY <1>3, <1>4, <1>5

(* The slot agentq_get reads holds the first line not yet received.        *)
LEMMA Stage2First ==
  ASSUME TypeOK, RingInv, count > 0
  PROVE  0 < Len(forwarded) - Len(received) /\ buf[r] = forwarded[Len(received) + 1]
<1>1. /\ QCap \in Nat /\ QCap >= 1 /\ r \in 0 .. QCap - 1 /\ count \in 0 .. QCap
      /\ Len(received) \in Nat
  BY AgentQueueAssumption DEF TypeOK
<1>2. Line2(0) = buf[r]
  BY <1>1 DEF Line2, Pos
<1> QED BY <1>1, <1>2 DEF RingInv

(* The line at the head of agent_q is one that was sent.                   *)
LEMMA Stage1First ==
  ASSUME TypeOK, AgeInv, agent_q_head # agent_q_tail
  PROVE  /\ Waiting \in Nat /\ Waiting > 0 /\ Line1(0) = agent_q[agent_q_head]
         /\ agent_q[agent_q_head] \in 1 .. sent
<1>1. /\ QLen \in Nat /\ QLen >= 2
      /\ agent_q_head \in 0 .. QLen - 1 /\ agent_q_tail \in 0 .. QLen - 1
  BY AgentQueueAssumption DEF TypeOK
<1>2. Waiting \in Nat /\ Waiting > 0
  BY <1>1 DEF Waiting
<1>3. Line1(0) = agent_q[agent_q_head]
  BY <1>1 DEF Line1, Pos
<1> QED BY <1>2, <1>3 DEF AgeInv

(* What Append does, index by index.                                       *)
LEMMA AppendedTo ==
  ASSUME NEW S, NEW s \in Seq(S), NEW e
  PROVE  /\ Len(s) \in Nat /\ Len(Append(s, e)) = Len(s) + 1
         /\ \A i \in 1 .. Len(s) + 1 :
              Append(s, e)[i] = IF i = Len(s) + 1 THEN e ELSE s[i]
  OBVIOUS

(* What was forwarded is a line, which has a positive number.              *)
LEMMA ForwardedLines ==
  ASSUME TypeOK
  PROVE  \A i \in 1 .. Len(forwarded) : forwarded[i] \in Nat /\ forwarded[i] # 0
<1>1. \A i \in 1 .. Len(forwarded) : forwarded[i] \in Lines
  BY DEF TypeOK
<1>2. \A l \in Lines : l \in Nat /\ l # 0
  BY AgentQueueAssumption DEF Lines
<1> QED BY <1>1, <1>2

-----------------------------------------------------------------------------
(* The invariant holds at boot.                                            *)
LEMMA InitInv == Init => QueueInv
<1> SUFFICES ASSUME Init PROVE QueueInv
  OBVIOUS
<1>1. Waiting = 0 /\ Len(forwarded) = 0 /\ Len(received) = 0
  BY AgentQueueAssumption DEF Init, Waiting
<1>2. TypeOK
  <2>1. << >> \in Seq(Lines)
    OBVIOUS
  <2>2. /\ sent \in 0 .. MaxLines /\ agent_q_head \in 0 .. QLen - 1
        /\ agent_q_tail \in 0 .. QLen - 1 /\ r \in 0 .. QCap - 1 /\ w \in 0 .. QCap - 1
        /\ count \in 0 .. QCap
    BY AgentQueueAssumption DEF Init
  <2>3. /\ agent_q \in [0 .. QLen - 1 -> Lines \cup {NoLine}]
        /\ buf \in [0 .. QCap - 1 -> Lines \cup {NoLine}]
        /\ local \in [Drainers -> Lines \cup {NoLine}]
        /\ dpc \in [Drainers -> {"idle", "loop", "route", "wake"}]
    BY DEF Init
  <2> QED BY <2>1, <2>2, <2>3 DEF Init, TypeOK
<1>3. ControlInv /\ RingInv
  BY <1>1, AgentQueueAssumption DEF Init, ControlInv, RingInv, Pos, NoLine
<1>4. AgeInv /\ PlaceInv
  BY <1>1 DEF Init, AgeInv, PlaceInv, NoLine
<1>5. OrderInv /\ NoLostWakeup
  BY <1>1 DEF Init, OrderInv, NoLostWakeup
<1> QED BY <1>2, <1>3, <1>4, <1>5 DEF QueueInv

(* Types are kept: a line taken from agent_q is a line, not an empty slot. *)
LEMMA TypeStep ==
  ASSUME QueueInv, [Next]_vars
  PROVE  TypeOK'
<1>1. CASE AgentDispatch
  <2>1. sent' \in 0 .. MaxLines /\ sent' \in Lines
    BY <1>1, AgentQueueAssumption DEF QueueInv, TypeOK, AgentDispatch, Lines
  <2>2. agent_q_tail' \in 0 .. QLen - 1
    BY <1>1, AgentQueueAssumption, NextSlot DEF QueueInv, TypeOK, AgentDispatch, Pos
  <2>3. agent_q' \in [0 .. QLen - 1 -> Lines \cup {NoLine}] /\ gone' \subseteq Lines
    BY <1>1, <2>1 DEF QueueInv, TypeOK, AgentDispatch
  <2> QED BY <1>1, <2>1, <2>2, <2>3 DEF QueueInv, TypeOK, AgentDispatch, ring, runtime,
        history
<1>2. ASSUME NEW d \in Drainers, AgentDrain(d) \/ DrainReturn(d) PROVE TypeOK'
  BY <1>2 DEF QueueInv, TypeOK, AgentDrain, DrainReturn, intake, ring, runtime, history
<1>3. ASSUME NEW d \in Drainers, Dequeue(d) PROVE TypeOK'
  <2>1. agent_q[agent_q_head] \in Lines
    <3>1. agent_q[agent_q_head] \in 1 .. sent
      BY <1>3, Stage1First DEF QueueInv, Dequeue
    <3> QED BY <3>1, AgentQueueAssumption DEF QueueInv, TypeOK, Lines
  <2>2. Held \subseteq Lines
    BY DEF QueueInv, TypeOK, Held
  <2>3. beside' \subseteq Lines \X Lines
    BY <1>3, <2>1, <2>2 DEF QueueInv, TypeOK, Dequeue
  <2>4. agent_q_head' \in 0 .. QLen - 1
    BY <1>3, AgentQueueAssumption, NextSlot DEF QueueInv, TypeOK, Dequeue, Pos
  <2>5. /\ local' \in [Drainers -> Lines \cup {NoLine}]
        /\ dpc' \in [Drainers -> {"idle", "loop", "route", "wake"}]
    BY <1>3, <2>1 DEF QueueInv, TypeOK, Dequeue
  <2> QED BY <1>3, <2>3, <2>4, <2>5 DEF QueueInv, TypeOK, Dequeue, ring, runtime
<1>4. ASSUME NEW d \in Drainers, HandleInKernel(d) \/ ForwardDrop(d) PROVE TypeOK'
  <2>1. local[d] \in Lines
    BY <1>4 DEF QueueInv, TypeOK, ControlInv, HandleInKernel, ForwardDrop
  <2> QED BY <1>4, <2>1 DEF QueueInv, TypeOK, HandleInKernel, ForwardDrop, intake, ring,
        runtime, history
<1>5. ASSUME NEW d \in Drainers, Forward(d) PROVE TypeOK'
  <2>1. local[d] \in Lines
    BY <1>5 DEF QueueInv, TypeOK, ControlInv, Forward
  <2>2. forwarded' \in Seq(Lines)
    BY <1>5, <2>1 DEF QueueInv, TypeOK, Forward
  <2>3. w' \in 0 .. QCap - 1 /\ count' \in 0 .. QCap
    BY <1>5, AgentQueueAssumption, NextSlot DEF QueueInv, TypeOK, Forward, Pos
  <2> QED BY <1>5, <2>1, <2>2, <2>3 DEF QueueInv, TypeOK, Forward, intake, runtime
<1>6. ASSUME NEW d \in Drainers, ForwardWake(d) PROVE TypeOK'
  BY <1>6 DEF QueueInv, TypeOK, ForwardWake, intake, ring, history
<1>7. CASE CallRecv \/ GetKilled \/ GetWait \/ GetSleep \/ KillAgentd
  BY <1>7 DEF QueueInv, TypeOK, CallRecv, GetKilled, GetWait, GetSleep, KillAgentd,
            intake, ring, history
<1>8. CASE Get
  <2>1. 0 < Len(forwarded) - Len(received) /\ buf[r] = forwarded[Len(received) + 1]
    BY <1>8, Stage2First DEF QueueInv, Get
  <2>2. buf[r] \in Lines
    BY <2>1 DEF QueueInv, TypeOK
  <2>3. received' \in Seq(Lines)
    BY <1>8, <2>2 DEF QueueInv, TypeOK, Get
  <2>4. r' \in 0 .. QCap - 1 /\ count' \in 0 .. QCap
    BY <1>8, AgentQueueAssumption, NextSlot DEF QueueInv, TypeOK, Get, Pos
  <2> QED BY <1>8, <2>3, <2>4 DEF QueueInv, TypeOK, Get, intake
<1>9. CASE UNCHANGED vars
  BY <1>9 DEF QueueInv, TypeOK, intake, ring, runtime, history, vars
<1> QED
  BY <1>1, <1>2, <1>3, <1>4, <1>5, <1>6, <1>7, <1>8, <1>9 DEF Next, DrainStep, DrainGoesOn, AgentdStep, AgentqGet

(* Who holds a line, and who keeps agentq.lock.                            *)
LEMMA ControlStep ==
  ASSUME QueueInv, [Next]_vars
  PROVE  ControlInv'
<1>1. CASE AgentDispatch
  BY <1>1 DEF QueueInv, ControlInv, AgentDispatch, ring, runtime
<1>2. ASSUME NEW d \in Drainers, AgentDrain(d) \/ DrainReturn(d) PROVE ControlInv'
  BY <1>2 DEF QueueInv, TypeOK, ControlInv, AgentDrain, DrainReturn, ring, runtime
<1>3. ASSUME NEW d \in Drainers, Dequeue(d) PROVE ControlInv'
  <2>1. agent_q[agent_q_head] # NoLine
    BY <1>3, Stage1First DEF QueueInv, Dequeue, NoLine
  <2> QED BY <1>3, <2>1 DEF QueueInv, TypeOK, ControlInv, Dequeue, ring, runtime
<1>4. ASSUME NEW d \in Drainers, HandleInKernel(d) \/ ForwardDrop(d) PROVE ControlInv'
  BY <1>4 DEF QueueInv, TypeOK, ControlInv, HandleInKernel, ForwardDrop, ring, runtime
<1>5. ASSUME NEW d \in Drainers, Forward(d) PROVE ControlInv'
  BY <1>5 DEF QueueInv, TypeOK, ControlInv, Forward, runtime
<1>6. ASSUME NEW d \in Drainers, ForwardWake(d) PROVE ControlInv'
  BY <1>6 DEF QueueInv, TypeOK, ControlInv, ForwardWake, ring
<1>7. CASE CallRecv \/ GetKilled \/ GetWait \/ GetSleep \/ KillAgentd
  BY <1>7 DEF QueueInv, TypeOK, ControlInv, CallRecv, GetKilled, GetWait, GetSleep,
        KillAgentd, ring
<1>8. CASE Get
  BY <1>8 DEF QueueInv, TypeOK, ControlInv, Get
<1>9. CASE UNCHANGED vars
  BY <1>9 DEF QueueInv, ControlInv, ring, runtime, vars
<1> QED
  BY <1>1, <1>2, <1>3, <1>4, <1>5, <1>6, <1>7, <1>8, <1>9 DEF Next, DrainStep, DrainGoesOn, AgentdStep, AgentqGet

(* agentq hands on exactly what was forwarded, in order, round and round.  *)
LEMMA RingStep ==
  ASSUME QueueInv, [Next]_vars
  PROVE  RingInv'
<1>1. CASE AgentDispatch \/ UNCHANGED vars
  BY <1>1 DEF QueueInv, RingInv, Line2, AgentDispatch, ring, history, vars
<1>2. ASSUME NEW d \in Drainers, AgentDrain(d) \/ Dequeue(d) \/ DrainReturn(d)
      PROVE RingInv'
  BY <1>2 DEF QueueInv, RingInv, Line2, AgentDrain, Dequeue, DrainReturn, ring, history
<1>3. ASSUME NEW d \in Drainers, HandleInKernel(d) \/ ForwardDrop(d) \/ ForwardWake(d)
      PROVE RingInv'
  BY <1>3 DEF QueueInv, RingInv, Line2, HandleInKernel, ForwardDrop, ForwardWake, ring,
        history
<1>4. CASE CallRecv \/ GetKilled \/ GetWait \/ GetSleep \/ KillAgentd
  BY <1>4 DEF QueueInv, RingInv, Line2, CallRecv, GetKilled, GetWait, GetSleep, KillAgentd,
            ring, history
<1>5. ASSUME NEW d \in Drainers, Forward(d) PROVE RingInv'
  <2>1. /\ TypeOK /\ RingInv /\ count < QCap /\ r' = r /\ count' = count + 1
        /\ w' = (w + 1) % QCap /\ buf' = [buf EXCEPT ![w] = local[d]]
        /\ forwarded' = Append(forwarded, local[d]) /\ received' = received
    BY <1>5 DEF QueueInv, Forward
  <2>2. /\ w' = Pos(r', count', QCap)
        /\ \A k \in 0 .. count : Line2(k)' = IF k = count THEN local[d] ELSE Line2(k)
    BY <2>1, Stage2Grows
  <2>3. /\ count \in Nat /\ Len(received) \in Nat /\ Len(forwarded) \in Nat
        /\ Len(forwarded') = Len(forwarded) + 1
        /\ \A i \in 1 .. Len(forwarded) + 1 :
             forwarded'[i] = IF i = Len(forwarded) + 1 THEN local[d] ELSE forwarded[i]
    BY <2>1, AgentQueueAssumption, AppendedTo DEF TypeOK
  <2>4. Len(forwarded') = Len(received') + count'
    BY <2>1, <2>3 DEF RingInv
  <2>5. \A i \in 1 .. Len(received') : forwarded'[i] = received'[i]
    BY <2>1, <2>3 DEF RingInv
  <2>6. \A k \in 0 .. count' - 1 : forwarded'[Len(received') + k + 1] = Line2(k)'
    <3>1. /\ count \in Nat /\ Len(received) \in Nat /\ Len(forwarded) = Len(received) + count
          /\ \A k \in 0 .. count - 1 : forwarded[Len(received) + k + 1] = Line2(k)
      BY <2>1, <2>3 DEF RingInv
    <3>2. ASSUME NEW k \in 0 .. count
          PROVE  forwarded'[Len(received) + k + 1] = Line2(k)'
      <4>1. CASE k = count
        <5>1. Len(received) + k + 1 = Len(forwarded) + 1
          BY <3>1, <4>1
        <5> QED BY <2>2, <2>3, <4>1, <5>1
      <4>2. CASE k # count
        <5>1. k \in 0 .. count - 1 /\ Len(received) + k + 1 \in 1 .. Len(forwarded)
          BY <3>1, <4>2
        <5>2. Line2(k)' = forwarded[Len(received) + k + 1]
          BY <2>2, <3>1, <5>1, <4>2
        <5> QED BY <2>3, <5>1, <5>2
      <4> QED BY <4>1, <4>2
    <3>3. count' - 1 = count /\ received' = received
      BY <2>1, <3>1
    <3> QED BY <3>2, <3>3
  <2> QED BY <2>2, <2>4, <2>5, <2>6 DEF RingInv
<1>6. CASE Get
  <2>1. /\ TypeOK /\ RingInv /\ count > 0 /\ w' = w /\ buf' = buf /\ count' = count - 1
        /\ r' = (r + 1) % QCap
        /\ received' = Append(received, buf[r]) /\ forwarded' = forwarded
    BY <1>6 DEF QueueInv, Get
  <2>2. /\ w' = Pos(r', count', QCap)
        /\ \A k \in 0 .. count - 2 : Line2(k)' = Line2(k + 1)
    BY <2>1, Stage2Shrinks
  <2>3. /\ count \in Nat /\ Len(received) \in Nat /\ Len(forwarded) \in Nat
        /\ Len(received') = Len(received) + 1
        /\ \A i \in 1 .. Len(received) + 1 :
             received'[i] = IF i = Len(received) + 1 THEN buf[r] ELSE received[i]
    BY <2>1, AgentQueueAssumption, AppendedTo DEF TypeOK
  <2>4. Len(forwarded) = Len(received) + count /\ Len(forwarded') = Len(received') + count'
    <3>1. Len(forwarded) = Len(received) + count
      BY <2>1 DEF RingInv
    <3> QED BY <2>1, <2>3, <3>1
  <2>5. \A i \in 1 .. Len(received') : forwarded'[i] = received'[i]
    BY <2>1, <2>3, Stage2First DEF RingInv
  <2>6. \A k \in 0 .. count' - 1 : forwarded'[Len(received') + k + 1] = Line2(k)'
    <3> SUFFICES ASSUME NEW k \in 0 .. count' - 1
                 PROVE  forwarded'[Len(received') + k + 1] = Line2(k)'
      OBVIOUS
    <3>1. k + 1 \in 0 .. count - 1 /\ k \in 0 .. count - 2
      BY <2>1, <2>3
    <3>2. forwarded[Len(received) + (k + 1) + 1] = Line2(k + 1)
      BY <2>1, <3>1 DEF RingInv
    <3>3. Len(received') + k + 1 = Len(received) + (k + 1) + 1
      BY <2>3
    <3> QED BY <2>1, <2>2, <3>1, <3>2, <3>3
  <2> QED BY <2>2, <2>4, <2>5, <2>6 DEF RingInv
<1> QED
  BY <1>1, <1>2, <1>3, <1>4, <1>5, <1>6 DEF Next, DrainStep, DrainGoesOn, AgentdStep, AgentqGet

(* agent_q holds what came last, in order.                                 *)
LEMMA AgeStep ==
  ASSUME QueueInv, [Next]_vars
  PROVE  AgeInv'
<1>1. CASE AgentDispatch
  <2>1. TypeOK /\ AgeInv /\ PlaceInv /\ sent \in Nat /\ sent' = sent + 1
        /\ agent_q_head' = agent_q_head /\ local' = local /\ forwarded' = forwarded
    BY <1>1, AgentQueueAssumption DEF QueueInv, TypeOK, AgentDispatch, history
  <2>2. CASE (agent_q_tail + 1) % QLen # agent_q_head
    <3>1. /\ agent_q' = [agent_q EXCEPT ![agent_q_tail] = sent']
          /\ agent_q_tail' = (agent_q_tail + 1) % QLen
      BY <1>1, <2>2 DEF AgentDispatch
    <3>2. /\ Waiting \in Nat /\ Waiting' = Waiting + 1
          /\ \A k \in 0 .. Waiting : Line1(k)' = IF k = Waiting THEN sent + 1 ELSE Line1(k)
      BY <2>1, <2>2, <3>1, Stage1Grows
    <3>3. \A k \in 0 .. Waiting - 1 : Line1(k) \in 1 .. sent
      BY <2>1 DEF AgeInv
    <3>4. (\A k \in 0 .. Waiting - 1 : Line1(k) \in 1 .. sent)'
      BY <2>1, <3>2, <3>3
    <3>5. (\A j, k \in 0 .. Waiting - 1 : j < k => Line1(j) < Line1(k))'
      <4> SUFFICES ASSUME NEW j \in 0 .. Waiting, NEW k \in 0 .. Waiting, j < k
                   PROVE  Line1(j)' < Line1(k)'
        BY <3>2
      <4>1. j \in 0 .. Waiting - 1 /\ Line1(j)' = Line1(j) /\ Line1(j) \in 1 .. sent
        BY <3>2, <3>3
      <4> QED BY <2>1, <3>2, <4>1 DEF AgeInv
    <3>6. (\A k \in 0 .. Waiting - 1, d \in Drainers : local[d] < Line1(k))'
      <4> SUFFICES ASSUME NEW k \in 0 .. Waiting, NEW d \in Drainers
                   PROVE  local[d] < Line1(k)'
        BY <2>1, <3>2
      <4>1. local[d] \in Nat /\ local[d] <= sent
        BY <2>1 DEF PlaceInv, TypeOK, Lines, NoLine
      <4> QED BY <2>1, <3>2, <4>1 DEF AgeInv
    <3>7. (\A k \in 0 .. Waiting - 1, i \in 1 .. Len(forwarded) : forwarded[i] < Line1(k))'
      <4> SUFFICES ASSUME NEW k \in 0 .. Waiting, NEW i \in 1 .. Len(forwarded)
                   PROVE  forwarded[i] < Line1(k)'
        BY <2>1, <3>2
      <4>1. forwarded[i] \in Nat
        BY <2>1, ForwardedLines
      <4>2. forwarded[i] <= sent
        BY <2>1 DEF PlaceInv
      <4> QED BY <2>1, <3>2, <4>1, <4>2 DEF AgeInv
    <3> QED BY <3>4, <3>5, <3>6, <3>7 DEF AgeInv
  <2>3. CASE (agent_q_tail + 1) % QLen = agent_q_head
    <3>1. agent_q' = agent_q /\ agent_q_tail' = agent_q_tail
      BY <1>1, <2>3 DEF AgentDispatch
    <3> QED BY <2>1, <3>1 DEF AgeInv, Waiting, Line1
  <2> QED BY <2>2, <2>3
<1>2. CASE UNCHANGED vars
  BY <1>2 DEF QueueInv, AgeInv, Waiting, Line1, vars, intake, history
<1>3. ASSUME NEW d \in Drainers, AgentDrain(d) \/ DrainReturn(d) \/ ForwardWake(d)
      PROVE AgeInv'
  BY <1>3 DEF QueueInv, AgeInv, Waiting, Line1, AgentDrain, DrainReturn, ForwardWake,
        intake, history
<1>4. ASSUME NEW d \in Drainers, Dequeue(d) PROVE AgeInv'
  <2>1. /\ TypeOK /\ AgeInv /\ agent_q' = agent_q /\ agent_q_tail' = agent_q_tail
        /\ agent_q_head' = (agent_q_head + 1) % QLen /\ agent_q_head # agent_q_tail
        /\ local' = [local EXCEPT ![d] = agent_q[agent_q_head]]
        /\ sent' = sent /\ forwarded' = forwarded
    BY <1>4 DEF QueueInv, Dequeue
  <2>2. /\ Waiting \in Nat /\ Waiting > 0 /\ Waiting' = Waiting - 1
        /\ Line1(0) = agent_q[agent_q_head]
        /\ \A k \in 0 .. Waiting - 2 : Line1(k)' = Line1(k + 1)
    BY <2>1, Stage1Shrinks
  <2>3. ASSUME NEW k \in 0 .. Waiting' - 1
        PROVE  k + 1 \in 0 .. Waiting - 1 /\ Line1(k)' = Line1(k + 1)
    BY <2>2
  <2>4. (\A k \in 0 .. Waiting - 1 : Line1(k) \in 1 .. sent)'
    BY <2>1, <2>3 DEF AgeInv
  <2>5. (\A j, k \in 0 .. Waiting - 1 : j < k => Line1(j) < Line1(k))'
    <3> SUFFICES ASSUME NEW j \in 0 .. Waiting' - 1, NEW k \in 0 .. Waiting' - 1, j < k
                 PROVE  Line1(j)' < Line1(k)'
      OBVIOUS
    <3>1. j + 1 < k + 1
      OBVIOUS
    <3> QED BY <2>1, <2>3, <3>1 DEF AgeInv
  <2>6. (\A k \in 0 .. Waiting - 1, o \in Drainers : local[o] < Line1(k))'
    <3> SUFFICES ASSUME NEW k \in 0 .. Waiting' - 1, NEW o \in Drainers
                 PROVE  local'[o] < Line1(k)'
      OBVIOUS
    <3>1. 0 \in 0 .. Waiting - 1 /\ 0 < k + 1
      BY <2>2
    <3>2. Line1(0) < Line1(k + 1) /\ local[o] < Line1(k + 1)
      BY <2>1, <2>3, <3>1 DEF AgeInv
    <3> QED BY <2>1, <2>2, <2>3, <3>2 DEF TypeOK
  <2>7. (\A k \in 0 .. Waiting - 1, i \in 1 .. Len(forwarded) : forwarded[i] < Line1(k))'
    BY <2>1, <2>3 DEF AgeInv
  <2> QED BY <2>4, <2>5, <2>6, <2>7 DEF AgeInv
<1>5. ASSUME NEW d \in Drainers, HandleInKernel(d) \/ ForwardDrop(d) PROVE AgeInv'
  <2>1. /\ AgeInv /\ UNCHANGED <<agent_q, agent_q_head, agent_q_tail, sent, forwarded>>
        /\ local' = [local EXCEPT ![d] = NoLine] /\ DOMAIN local = Drainers /\ sent \in Nat
    BY <1>5, AgentQueueAssumption DEF QueueInv, TypeOK, HandleInKernel, ForwardDrop,
          intake, history
  <2> QED BY <2>1 DEF AgeInv, Waiting, Line1, NoLine
<1>6. ASSUME NEW d \in Drainers, Forward(d) PROVE AgeInv'
  <2>1. /\ TypeOK /\ AgeInv /\ UNCHANGED <<agent_q, agent_q_head, agent_q_tail, sent>>
        /\ local' = [local EXCEPT ![d] = NoLine] /\ DOMAIN local = Drainers /\ sent \in Nat
        /\ forwarded' = Append(forwarded, local[d])
    BY <1>6, AgentQueueAssumption DEF QueueInv, TypeOK, Forward, intake
  <2>2. Waiting' = Waiting /\ \A k \in 0 .. Waiting - 1 : Line1(k)' = Line1(k)
    BY <2>1 DEF Waiting, Line1
  <2>3. /\ Len(forwarded) \in Nat /\ Len(forwarded') = Len(forwarded) + 1
        /\ \A i \in 1 .. Len(forwarded) + 1 :
             forwarded'[i] = IF i = Len(forwarded) + 1 THEN local[d] ELSE forwarded[i]
    BY <2>1, AppendedTo DEF TypeOK
  <2>4. (\A k \in 0 .. Waiting - 1 : Line1(k) \in 1 .. sent)'
    BY <2>1, <2>2 DEF AgeInv
  <2>5. (\A j, k \in 0 .. Waiting - 1 : j < k => Line1(j) < Line1(k))'
    BY <2>1, <2>2 DEF AgeInv
  <2>6. (\A k \in 0 .. Waiting - 1, o \in Drainers : local[o] < Line1(k))'
    BY <2>1, <2>2 DEF AgeInv, NoLine
  <2>7. (\A k \in 0 .. Waiting - 1, i \in 1 .. Len(forwarded) : forwarded[i] < Line1(k))'
    BY <2>1, <2>2, <2>3 DEF AgeInv
  <2> QED BY <2>4, <2>5, <2>6, <2>7 DEF AgeInv
<1>7. CASE CallRecv \/ GetKilled \/ GetWait \/ GetSleep \/ KillAgentd
  BY <1>7 DEF QueueInv, AgeInv, Waiting, Line1, CallRecv, GetKilled, GetWait, GetSleep,
        KillAgentd,
            intake, history
<1>8. CASE Get
  BY <1>8 DEF QueueInv, AgeInv, Waiting, Line1, Get, intake
<1> QED
  BY <1>1, <1>2, <1>3, <1>4, <1>5, <1>6, <1>7, <1>8 DEF Next, DrainStep, DrainGoesOn, AgentdStep, AgentqGet

(* Each line that was sent stays in one place, and only one.               *)
LEMMA PlaceStep ==
  ASSUME QueueInv, [Next]_vars
  PROVE  PlaceInv'
<1>1. CASE AgentDispatch
  <2>1. TypeOK /\ AgeInv /\ PlaceInv /\ sent \in Nat /\ sent' = sent + 1
        /\ agent_q_head' = agent_q_head /\ local' = local /\ forwarded' = forwarded
    BY <1>1, AgentQueueAssumption DEF QueueInv, TypeOK, AgentDispatch, history
  <2>2. /\ \A o \in Drainers : local[o] \in Nat
        /\ \A i \in 1 .. Len(forwarded) : forwarded[i] \in Nat
    <3>1. \A o \in Drainers : local[o] \in Nat
      BY <2>1 DEF TypeOK, Lines, NoLine
    <3> QED BY <2>1, <3>1, ForwardedLines
  <2>3. CASE (agent_q_tail + 1) % QLen # agent_q_head
    <3>1. /\ agent_q' = [agent_q EXCEPT ![agent_q_tail] = sent']
          /\ agent_q_tail' = (agent_q_tail + 1) % QLen /\ gone' = gone
      BY <1>1, <2>3 DEF AgentDispatch
    <3>2. /\ Waiting \in Nat /\ Waiting' = Waiting + 1
          /\ \A k \in 0 .. Waiting : Line1(k)' = IF k = Waiting THEN sent + 1 ELSE Line1(k)
      BY <2>1, <2>3, <3>1, Stage1Grows
    <3>3. \A l \in 1 .. sent + 1 : \/ l \in gone
                                   \/ \E k \in 0 .. Waiting : Line1(k)' = l
                                   \/ \E d \in Drainers : local[d] = l
                                   \/ \E i \in 1 .. Len(forwarded) : forwarded[i] = l
      <4> SUFFICES ASSUME NEW l \in 1 .. sent + 1
                   PROVE  \/ l \in gone
                          \/ \E k \in 0 .. Waiting : Line1(k)' = l
                          \/ \E d \in Drainers : local[d] = l
                          \/ \E i \in 1 .. Len(forwarded) : forwarded[i] = l
        OBVIOUS
      <4>1. CASE l = sent + 1
        BY <3>2, <4>1
      <4>2. CASE l # sent + 1
        <5>1. l \in 1 .. sent
          BY <2>1, <4>2
        <5>2. ASSUME NEW k \in 0 .. Waiting - 1 PROVE k \in 0 .. Waiting /\ Line1(k)' = Line1(k)
          BY <3>2
        <5> QED BY <2>1, <5>1, <5>2 DEF PlaceInv
      <4> QED BY <4>1, <4>2
    <3>4. \A k \in 0 .. Waiting : Line1(k)' \notin gone
      BY <2>1, <3>2 DEF PlaceInv
    <3>5. gone \subseteq 1 .. sent + 1
      BY <2>1 DEF PlaceInv
    <3>6. \A d \in Drainers : local[d] <= sent + 1 /\ local[d] \notin gone
      BY <2>1, <2>2 DEF PlaceInv
    <3>7. \A i \in 1 .. Len(forwarded) : forwarded[i] <= sent + 1 /\ forwarded[i] \notin gone
      BY <2>1, <2>2 DEF PlaceInv
    <3>8. Waiting' - 1 = Waiting
      BY <3>2
    <3> QED BY <2>1, <3>1, <3>3, <3>4, <3>5, <3>6, <3>7, <3>8 DEF PlaceInv
  <2>4. CASE (agent_q_tail + 1) % QLen = agent_q_head
    <3>1. /\ UNCHANGED <<agent_q, agent_q_tail>> /\ gone' = gone \cup {sent + 1}
      BY <1>1, <2>1, <2>4 DEF AgentDispatch
    <3>2. Waiting' = Waiting /\ \A k : Line1(k)' = Line1(k)
      BY <2>1, <3>1 DEF Waiting, Line1
    <3>3. \A k \in 0 .. Waiting - 1 : Line1(k) \in 1 .. sent
      BY <2>1 DEF AgeInv
    <3> QED BY <2>1, <2>2, <3>1, <3>2, <3>3 DEF PlaceInv
  <2> QED BY <2>3, <2>4
<1>2. CASE UNCHANGED vars
  BY <1>2 DEF QueueInv, PlaceInv, Waiting, Line1, vars, intake, history
<1>3. ASSUME NEW d \in Drainers, AgentDrain(d) \/ DrainReturn(d) \/ ForwardWake(d)
      PROVE PlaceInv'
  <2>1. UNCHANGED <<sent, agent_q, agent_q_head, agent_q_tail, local, gone, forwarded>>
    BY <1>3 DEF AgentDrain, DrainReturn, ForwardWake, intake, history
  <2>2. Waiting' = Waiting /\ \A k : Line1(k)' = Line1(k)
    BY <2>1 DEF Waiting, Line1
  <2>3. PlaceInv
    BY DEF QueueInv
  <2> QED BY <2>1, <2>2, <2>3 DEF PlaceInv
<1>4. ASSUME NEW d \in Drainers, Dequeue(d) PROVE PlaceInv'
  <2>1. /\ TypeOK /\ ControlInv /\ AgeInv /\ PlaceInv
        /\ UNCHANGED <<agent_q, agent_q_tail, sent, forwarded, gone>>
        /\ agent_q_head' = (agent_q_head + 1) % QLen /\ agent_q_head # agent_q_tail
        /\ local' = [local EXCEPT ![d] = agent_q[agent_q_head]] /\ local[d] = NoLine
    BY <1>4 DEF QueueInv, Dequeue, ControlInv
  <2>2. /\ Waiting \in Nat /\ Waiting > 0 /\ Waiting' = Waiting - 1
        /\ Line1(0) = agent_q[agent_q_head]
        /\ \A k \in 0 .. Waiting - 2 : Line1(k)' = Line1(k + 1)
    BY <2>1, Stage1Shrinks
  <2>3. 0 \in 0 .. Waiting - 1 /\ Line1(0) \in 1 .. sent
    BY <2>1, <2>2 DEF AgeInv
  <2>4. /\ \A o \in Drainers : local'[o] = IF o = d THEN Line1(0) ELSE local[o]
        /\ \A o \in Drainers : local[o] \in Nat /\ local[o] < Line1(0)
        /\ sent \in Nat
    BY <2>1, <2>2, <2>3, AgentQueueAssumption DEF TypeOK, AgeInv, Lines, NoLine
  <2>5. \A l \in 1 .. sent : \/ l \in gone
                             \/ \E k \in 0 .. Waiting' - 1 : Line1(k)' = l
                             \/ \E o \in Drainers : local'[o] = l
                             \/ \E i \in 1 .. Len(forwarded) : forwarded[i] = l
    <3> SUFFICES ASSUME NEW l \in 1 .. sent, l \notin gone,
                        ~ \E i \in 1 .. Len(forwarded) : forwarded[i] = l
                 PROVE  \/ \E k \in 0 .. Waiting' - 1 : Line1(k)' = l
                        \/ \E o \in Drainers : local'[o] = l
      OBVIOUS
    <3>1. ASSUME NEW o \in Drainers, local[o] = l PROVE local'[o] = l
      BY <2>1, <2>4, <3>1 DEF NoLine
    <3>2. ASSUME NEW k \in 0 .. Waiting - 1, Line1(k) = l
          PROVE  \/ \E j \in 0 .. Waiting' - 1 : Line1(j)' = l
                 \/ \E o \in Drainers : local'[o] = l
      <4>1. CASE k = 0
        BY <2>4, <3>2, <4>1
      <4>2. CASE k # 0
        <5>1. k - 1 \in 0 .. Waiting' - 1 /\ k - 1 \in 0 .. Waiting - 2 /\ (k - 1) + 1 = k
          BY <2>2, <4>2
        <5> QED BY <2>2, <3>2, <5>1
      <4> QED BY <4>1, <4>2
    <3> QED BY <2>1, <3>1, <3>2 DEF PlaceInv
  <2>6. \A o \in Drainers : local'[o] <= sent /\ local'[o] \notin gone
    BY <2>1, <2>3, <2>4 DEF PlaceInv
  <2>7. \A k \in 0 .. Waiting' - 1 : Line1(k)' \notin gone
    <3> SUFFICES ASSUME NEW k \in 0 .. Waiting' - 1 PROVE Line1(k)' \notin gone
      OBVIOUS
    <3>1. k + 1 \in 0 .. Waiting - 1 /\ k \in 0 .. Waiting - 2
      BY <2>2
    <3> QED BY <2>1, <2>2, <3>1 DEF PlaceInv
  <2>8. \A o \in Drainers, i \in 1 .. Len(forwarded) : local'[o] # forwarded[i]
    <3>1. \A i \in 1 .. Len(forwarded) : forwarded[i] < Line1(0) /\ forwarded[i] \in Lines
      BY <2>1, <2>3 DEF AgeInv, TypeOK
    <3>2. \A i \in 1 .. Len(forwarded) : forwarded[i] # Line1(0)
      BY <2>3, <2>4, <3>1 DEF Lines
    <3> QED BY <2>1, <2>4, <3>2 DEF PlaceInv
  <2>9. \A o1, o2 \in Drainers : local'[o1] = local'[o2] /\ local'[o1] # NoLine => o1 = o2
    BY <2>1, <2>3, <2>4 DEF PlaceInv
  <2> QED BY <2>1, <2>5, <2>6, <2>7, <2>8, <2>9 DEF PlaceInv
<1>5. ASSUME NEW d \in Drainers, HandleInKernel(d) \/ ForwardDrop(d) PROVE PlaceInv'
  <2>1. /\ TypeOK /\ ControlInv /\ AgeInv /\ PlaceInv
        /\ UNCHANGED <<agent_q, agent_q_head, agent_q_tail, sent, forwarded>>
        /\ local' = [local EXCEPT ![d] = NoLine] /\ gone' = gone \cup {local[d]}
        /\ local[d] # NoLine
    BY <1>5 DEF QueueInv, ControlInv, HandleInKernel, ForwardDrop, intake, history
  <2>2. Waiting' = Waiting /\ \A k : Line1(k)' = Line1(k)
    BY <2>1 DEF Waiting, Line1
  <2>3. /\ sent \in Nat /\ \A o \in Drainers : local[o] \in Nat
        /\ \A o \in Drainers : local'[o] = IF o = d THEN 0 ELSE local[o]
    BY <2>1, AgentQueueAssumption DEF TypeOK, Lines, NoLine
  <2>4. local[d] \in 1 .. sent
    BY <2>1, <2>3 DEF PlaceInv, NoLine
  <2>5. \A l \in 1 .. sent : \/ l \in gone'
                             \/ \E k \in 0 .. Waiting - 1 : Line1(k) = l
                             \/ \E o \in Drainers : local'[o] = l
                             \/ \E i \in 1 .. Len(forwarded) : forwarded[i] = l
    BY <2>1, <2>3 DEF PlaceInv
  <2>6. gone' \subseteq 1 .. sent
    BY <2>1, <2>4 DEF PlaceInv
  <2>7. \A o \in Drainers : local'[o] <= sent /\ local'[o] \notin gone'
    BY <2>1, <2>3, <2>4, <2>6 DEF PlaceInv, NoLine
  <2>8. \A i \in 1 .. Len(forwarded) : forwarded[i] <= sent /\ forwarded[i] \notin gone'
    BY <2>1 DEF PlaceInv
  <2>9. \A k \in 0 .. Waiting - 1 : Line1(k) \notin gone'
    <3>1. \A k \in 0 .. Waiting - 1 : local[d] < Line1(k) /\ Line1(k) \in Nat
      BY <2>1, <2>3 DEF AgeInv
    <3> QED BY <2>1, <2>3, <3>1 DEF PlaceInv
  <2>10. \A o \in Drainers, i \in 1 .. Len(forwarded) : local'[o] # forwarded[i]
    <3>1. \A i \in 1 .. Len(forwarded) : forwarded[i] # 0
      BY <2>1, ForwardedLines
    <3> QED BY <2>1, <2>3, <3>1 DEF PlaceInv
  <2>11. \A o1, o2 \in Drainers : local'[o1] = local'[o2] /\ local'[o1] # NoLine => o1 = o2
    BY <2>1, <2>3 DEF PlaceInv, NoLine
  <2> QED BY <2>1, <2>2, <2>5, <2>6, <2>7, <2>8, <2>9, <2>10, <2>11 DEF PlaceInv
<1>6. ASSUME NEW d \in Drainers, Forward(d) PROVE PlaceInv'
  <2>1. /\ TypeOK /\ AgeInv /\ PlaceInv
        /\ UNCHANGED <<agent_q, agent_q_head, agent_q_tail, sent, gone>>
        /\ local' = [local EXCEPT ![d] = NoLine] /\ local[d] # NoLine
        /\ forwarded' = Append(forwarded, local[d])
    BY <1>6 DEF QueueInv, ControlInv, Forward, intake
  <2>2. Waiting' = Waiting /\ \A k : Line1(k)' = Line1(k)
    BY <2>1 DEF Waiting, Line1
  <2>3. /\ sent \in Nat /\ \A o \in Drainers : local[o] \in Nat
        /\ \A o \in Drainers : local'[o] = IF o = d THEN 0 ELSE local[o]
    BY <2>1, AgentQueueAssumption DEF TypeOK, Lines, NoLine
  <2>4. /\ Len(forwarded) \in Nat /\ Len(forwarded') = Len(forwarded) + 1
        /\ \A i \in 1 .. Len(forwarded) + 1 :
             forwarded'[i] = IF i = Len(forwarded) + 1 THEN local[d] ELSE forwarded[i]
    BY <2>1, AppendedTo DEF TypeOK
  <2>5. \A l \in 1 .. sent : \/ l \in gone
                             \/ \E k \in 0 .. Waiting - 1 : Line1(k) = l
                             \/ \E o \in Drainers : local'[o] = l
                             \/ \E i \in 1 .. Len(forwarded') : forwarded'[i] = l
    <3> SUFFICES ASSUME NEW l \in 1 .. sent, l \notin gone,
                        ~ \E k \in 0 .. Waiting - 1 : Line1(k) = l
                 PROVE  \/ \E o \in Drainers : local'[o] = l
                        \/ \E i \in 1 .. Len(forwarded') : forwarded'[i] = l
      OBVIOUS
    <3>1. ASSUME NEW o \in Drainers, local[o] = l
          PROVE  local'[o] = l \/ forwarded'[Len(forwarded) + 1] = l
      BY <2>3, <2>4, <3>1
    <3>2. Len(forwarded) + 1 \in 1 .. Len(forwarded')
      BY <2>4
    <3>3. ASSUME NEW i \in 1 .. Len(forwarded), forwarded[i] = l
          PROVE  i \in 1 .. Len(forwarded') /\ forwarded'[i] = l
      BY <2>4, <3>3
    <3> QED BY <2>1, <3>1, <3>2, <3>3 DEF PlaceInv
  <2>6. \A o \in Drainers : local'[o] <= sent /\ local'[o] \notin gone
    BY <2>1, <2>3 DEF PlaceInv, NoLine
  <2>7. \A i \in 1 .. Len(forwarded') : forwarded'[i] <= sent /\ forwarded'[i] \notin gone
    BY <2>1, <2>4 DEF PlaceInv
  <2>8. \A o \in Drainers, i \in 1 .. Len(forwarded') : local'[o] # forwarded'[i]
    <3>1. \A i \in 1 .. Len(forwarded) : forwarded[i] # 0
      BY <2>1, ForwardedLines
    <3>2. \A o \in Drainers : local'[o] # local[d]
      BY <2>1, <2>3 DEF PlaceInv, NoLine
    <3>3. \A o \in Drainers, i \in 1 .. Len(forwarded) : local'[o] # forwarded[i]
      BY <2>1, <2>3, <3>1 DEF PlaceInv
    <3> QED BY <2>4, <3>2, <3>3
  <2>9. \A o1, o2 \in Drainers : local'[o1] = local'[o2] /\ local'[o1] # NoLine => o1 = o2
    BY <2>1, <2>3 DEF PlaceInv, NoLine
  <2>10. \A i, j \in 1 .. Len(forwarded') : forwarded'[i] = forwarded'[j] => i = j
    BY <2>1, <2>4 DEF PlaceInv
  <2> QED BY <2>1, <2>2, <2>5, <2>6, <2>7, <2>8, <2>9, <2>10 DEF PlaceInv
<1>7. CASE CallRecv \/ GetKilled \/ GetWait \/ GetSleep \/ KillAgentd
  BY <1>7 DEF QueueInv, PlaceInv, Waiting, Line1, CallRecv, GetKilled, GetWait, GetSleep,
        KillAgentd,
            intake, history
<1>8. CASE Get
  BY <1>8 DEF QueueInv, PlaceInv, Waiting, Line1, Get, intake
<1> QED
  BY <1>1, <1>2, <1>3, <1>4, <1>5, <1>6, <1>7, <1>8 DEF Next, DrainStep, DrainGoesOn, AgentdStep, AgentqGet

(* A line is overtaken only while it is held.                              *)
LEMMA OrderStep ==
  ASSUME QueueInv, [Next]_vars
  PROVE  OrderInv'
<1>1. CASE AgentDispatch \/ UNCHANGED vars
  BY <1>1 DEF QueueInv, OrderInv, AgentDispatch, vars, history
<1>2. ASSUME NEW d \in Drainers, AgentDrain(d) \/ DrainReturn(d) \/ ForwardWake(d)
      PROVE OrderInv'
  BY <1>2 DEF QueueInv, OrderInv, TypeOK, AgentDrain, DrainReturn, ForwardWake, history
<1>3. ASSUME NEW d \in Drainers, Dequeue(d) PROVE OrderInv'
  <2>1. /\ local'[d] = Line1(0) /\ 0 \in 0 .. Waiting - 1 /\ agent_q[agent_q_head] = Line1(0)
        /\ \A o \in Drainers : o # d => local'[o] = local[o]
        /\ local[d] = NoLine /\ forwarded' = forwarded
    BY <1>3, Stage1First DEF QueueInv, ControlInv, TypeOK, Dequeue
  <2>2. PICK n : n = Line1(0)
    OBVIOUS
  <2>3. beside' = beside \cup {<<l, n>> : l \in Held}
    BY <1>3, <2>1, <2>2 DEF Dequeue
  <2>4. \A i \in 1 .. Len(forwarded) : forwarded[i] < n
    BY <2>1, <2>2 DEF QueueInv, AgeInv
  <2>5. \A o \in Drainers : local[o] < n /\ (local[o] # NoLine => <<local[o], n>> \in beside')
    BY <2>1, <2>2, <2>3 DEF QueueInv, AgeInv, Held
  <2>6. n \in Nat /\ \A o \in Drainers : local[o] \in Nat
    BY <2>1, <2>2, AgentQueueAssumption DEF QueueInv, AgeInv, TypeOK, Lines, NoLine
  <2>7. \A i, j \in 1 .. Len(forwarded) :
          i < j => forwarded[i] < forwarded[j] \/ <<forwarded[j], forwarded[i]>> \in beside'
    BY <2>3 DEF QueueInv, OrderInv
  <2>8. ASSUME NEW o \in Drainers, NEW i \in 1 .. Len(forwarded), local'[o] # NoLine
        PROVE  forwarded[i] < local'[o] \/ <<local'[o], forwarded[i]>> \in beside'
    BY <2>1, <2>2, <2>3, <2>4, <2>8 DEF QueueInv, OrderInv
  <2>9. ASSUME NEW o1 \in Drainers, NEW o2 \in Drainers, local'[o1] # NoLine, local'[o1] < local'[o2]
        PROVE  <<local'[o1], local'[o2]>> \in beside'
    <3>1. CASE o1 = d
      <4>1. local'[d] = n /\ (o2 = d \/ local'[o2] = local[o2])
        BY <2>1, <2>2
      <4>2. local[o2] < n /\ local[o2] \in Nat /\ n \in Nat
        BY <2>5, <2>6
      <4>3. ~ (n < local'[o2])
        <5>1. CASE o2 = d
          BY <4>1, <4>2, <5>1
        <5>2. CASE local'[o2] = local[o2]
          BY <4>2, <5>2
        <5> QED BY <4>1, <5>1, <5>2
      <4> QED BY <2>9, <3>1, <4>1, <4>3
    <3>2. CASE o1 # d /\ o2 = d
      BY <2>1, <2>2, <2>5, <2>9, <3>2
    <3>3. CASE o1 # d /\ o2 # d
      BY <2>1, <2>3, <2>9, <3>3 DEF QueueInv, OrderInv
    <3> QED BY <3>1, <3>2, <3>3
  <2> QED BY <2>1, <2>7, <2>8, <2>9 DEF OrderInv
<1>4. ASSUME NEW d \in Drainers, HandleInKernel(d) \/ ForwardDrop(d) PROVE OrderInv'
  <2>1. /\ UNCHANGED <<forwarded, beside>> /\ local'[d] = NoLine
        /\ \A o \in Drainers : o # d => local'[o] = local[o]
    BY <1>4 DEF QueueInv, TypeOK, HandleInKernel, ForwardDrop, history
  <2>2. \A o \in Drainers : local[o] \in Nat /\ local'[o] \in Nat
    <3>1. \A o \in Drainers : local[o] \in Nat
      BY AgentQueueAssumption DEF QueueInv, TypeOK, Lines, NoLine
    <3>2. NoLine \in Nat
      BY DEF NoLine
    <3> QED BY <2>1, <3>1, <3>2
  <2>3. \A o1, o2 \in Drainers :
          local'[o1] # NoLine /\ local'[o1] < local'[o2] => <<local'[o1], local'[o2]>> \in beside
    BY <2>1, <2>2 DEF QueueInv, OrderInv, NoLine
  <2> QED BY <2>1, <2>3 DEF QueueInv, OrderInv
<1>5. ASSUME NEW d \in Drainers, Forward(d) PROVE OrderInv'
  <2>1. /\ Len(forwarded) \in Nat /\ Len(forwarded') = Len(forwarded) + 1
        /\ \A i \in 1 .. Len(forwarded) + 1 :
             forwarded'[i] = IF i = Len(forwarded) + 1 THEN local[d] ELSE forwarded[i]
    BY <1>5, AppendedTo DEF QueueInv, TypeOK, Forward
  <2>2. /\ beside' = beside /\ local[d] # NoLine /\ local'[d] = NoLine
        /\ \A o \in Drainers : o # d => local'[o] = local[o] /\ (local[o] = local[d] => FALSE)
        /\ \A o \in Drainers : local[o] \in Nat
    BY <1>5, AgentQueueAssumption DEF QueueInv, ControlInv, PlaceInv, TypeOK, Forward, Lines, NoLine
  <2>3. \A i, j \in 1 .. Len(forwarded') :
          i < j => forwarded'[i] < forwarded'[j] \/ <<forwarded'[j], forwarded'[i]>> \in beside
    BY <2>1, <2>2 DEF QueueInv, OrderInv
  <2>4. ASSUME NEW o \in Drainers, NEW i \in 1 .. Len(forwarded'), local'[o] # NoLine
        PROVE  forwarded'[i] < local'[o] \/ <<local'[o], forwarded'[i]>> \in beside
    <3>1. o # d /\ local'[o] = local[o]
      BY <2>2, <2>4
    <3>2. CASE i = Len(forwarded) + 1
      <4>1. forwarded'[i] = local[d]
        BY <2>1, <3>2
      <4>2. local[d] < local[o] \/ local[o] < local[d]
        BY <2>2, <3>1
      <4>3. local[o] < local[d] => <<local[o], local[d]>> \in beside
        BY <2>4, <3>1 DEF QueueInv, OrderInv
      <4> QED BY <3>1, <4>1, <4>2, <4>3
    <3>3. CASE i # Len(forwarded) + 1
      BY <2>1, <2>4, <3>1, <3>3 DEF QueueInv, OrderInv
    <3> QED BY <3>2, <3>3
  <2>5. ASSUME NEW o1 \in Drainers, NEW o2 \in Drainers, local'[o1] # NoLine, local'[o1] < local'[o2]
        PROVE  <<local'[o1], local'[o2]>> \in beside
    <3>1. o1 # d /\ o2 # d
      BY <2>2, <2>5 DEF NoLine
    <3> QED BY <2>2, <2>5, <3>1 DEF QueueInv, OrderInv
  <2> QED BY <2>2, <2>3, <2>4, <2>5 DEF OrderInv
<1>6. CASE CallRecv \/ GetKilled \/ GetWait \/ GetSleep \/ KillAgentd
  BY <1>6 DEF QueueInv, OrderInv, CallRecv, GetKilled, GetWait, GetSleep, KillAgentd,
        history
<1>7. CASE Get
  BY <1>7 DEF QueueInv, OrderInv, Get
<1> QED
  BY <1>1, <1>2, <1>3, <1>4, <1>5, <1>6, <1>7 DEF Next, DrainStep, DrainGoesOn, AgentdStep, AgentqGet

(* A drainer that has put a line in agentq still has its wakeup to do.     *)
LEMMA WakeStep ==
  ASSUME QueueInv, [Next]_vars
  PROVE  NoLostWakeup'
<1>1. CASE AgentDispatch \/ UNCHANGED vars
  BY <1>1 DEF QueueInv, NoLostWakeup, AgentDispatch, vars, ring, runtime
<1>2. ASSUME NEW d \in Drainers, AgentDrain(d) \/ DrainReturn(d) \/ HandleInKernel(d) \/ ForwardDrop(d)
      PROVE NoLostWakeup'
  BY <1>2 DEF QueueInv, NoLostWakeup, TypeOK, AgentDrain, DrainReturn, HandleInKernel,
        ForwardDrop,
            ring, runtime
<1>3. ASSUME NEW d \in Drainers, Dequeue(d) PROVE NoLostWakeup'
  BY <1>3 DEF QueueInv, NoLostWakeup, TypeOK, Dequeue, ring, runtime
<1>4. ASSUME NEW d \in Drainers, Forward(d) PROVE NoLostWakeup'
  BY <1>4 DEF QueueInv, NoLostWakeup, TypeOK, Forward
<1>5. ASSUME NEW d \in Drainers, ForwardWake(d) PROVE NoLostWakeup'
  BY <1>5 DEF QueueInv, NoLostWakeup, TypeOK, ForwardWake, ring
<1>6. CASE CallRecv \/ GetKilled \/ GetWait \/ KillAgentd
  BY <1>6 DEF QueueInv, NoLostWakeup, TypeOK, CallRecv, GetKilled, GetWait, KillAgentd, ring
<1>7. CASE Get
  BY <1>7 DEF NoLostWakeup, Get
<1>8. CASE GetSleep
  BY <1>8 DEF QueueInv, NoLostWakeup, ControlInv, GetSleep, ring
<1> QED
  BY <1>1, <1>2, <1>3, <1>4, <1>5, <1>6, <1>7, <1>8 DEF Next, DrainStep, DrainGoesOn, AgentdStep, AgentqGet

-----------------------------------------------------------------------------
(* Every reachable state satisfies the invariant.                          *)
LEMMA Invariance == Spec => []QueueInv
<1>1. Init => QueueInv
  BY InitInv
<1>2. QueueInv /\ [Next]_vars => QueueInv'
  BY TypeStep, ControlStep, RingStep, AgeStep, PlaceStep, OrderStep, WakeStep DEF QueueInv
<1> QED BY <1>1, <1>2, PTL DEF Spec

(* Every ring index is a slot, and every slot in use holds a line.         *)
THEOREM TypeCorrect == Spec => []TypeOK
<1>1. QueueInv => TypeOK
  BY DEF QueueInv
<1> QED BY <1>1, Invariance, PTL

(* agentd never sleeps over a command without a wakeup on its way.         *)
THEOREM WakeupCorrect == Spec => []NoLostWakeup
<1>1. QueueInv => NoLostWakeup
  BY DEF QueueInv
<1> QED BY <1>1, Invariance, PTL

(* InAgentQ and InRing, which index their ring by %, list the lines at     *)
(* distance 0, 1, 2 ... from its head.                                     *)
LEMMA InAgentQLines ==
  ASSUME TypeOK
  PROVE  /\ Waiting \in Nat /\ DOMAIN InAgentQ = 1 .. Waiting
         /\ \A i \in 1 .. Waiting : InAgentQ[i] = Line1(i - 1)
<1>1. /\ QLen \in Nat /\ QLen > 0
      /\ agent_q_head \in 0 .. QLen - 1 /\ agent_q_tail \in 0 .. QLen - 1
  BY AgentQueueAssumption DEF TypeOK
<1>2. Waiting \in 0 .. QLen - 1
  BY <1>1 DEF Waiting
<1>3. (agent_q_tail - agent_q_head + QLen) % QLen = Waiting
  <2>1. /\ agent_q_tail - agent_q_head + QLen \in Int
        /\ 0 <= agent_q_tail - agent_q_head + QLen
        /\ agent_q_tail - agent_q_head + QLen < QLen + QLen
    BY <1>1
  <2> QED BY <1>1, <2>1, ModPos DEF Waiting
<1>4. ASSUME NEW i \in 1 .. Waiting
      PROVE  (agent_q_head + i - 1) % QLen = Pos(agent_q_head, i - 1, QLen)
  <2>1. /\ agent_q_head + i - 1 \in Int /\ 0 <= agent_q_head + i - 1
        /\ agent_q_head + i - 1 < QLen + QLen
    BY <1>1, <1>2
  <2> QED BY <1>1, <2>1, ModPos DEF Pos
<1> QED BY <1>2, <1>3, <1>4 DEF InAgentQ, Line1

(* InRing lists the lines of stage 2 by their distance from r.             *)
LEMMA InRingLines ==
  ASSUME TypeOK
  PROVE  /\ count \in Nat /\ DOMAIN InRing = 1 .. count
         /\ \A i \in 1 .. count : InRing[i] = Line2(i - 1)
<1>1. QCap \in Nat /\ QCap > 0 /\ r \in 0 .. QCap - 1 /\ count \in 0 .. QCap
  BY AgentQueueAssumption DEF TypeOK
<1>2. ASSUME NEW i \in 1 .. count
      PROVE  (r + i - 1) % QCap = Pos(r, i - 1, QCap)
  <2>1. r + i - 1 \in Int /\ 0 <= r + i - 1 /\ r + i - 1 < QCap + QCap
    BY <1>1
  <2> QED BY <1>1, <2>1, ModPos DEF Pos
<1> QED BY <1>1, <1>2 DEF InRing, Line2

(* What was received, followed by the ring, is what was forwarded.         *)
LEMMA ForwardedParts ==
  ASSUME QueueInv
  PROVE  /\ Len(received) \in Nat /\ count \in Nat /\ Len(forwarded) = Len(received) + count
         /\ \A i \in 1 .. Len(received) : received[i] = forwarded[i]
         /\ \A i \in 1 .. count : InRing[i] = forwarded[Len(received) + i]
<1>1. /\ Len(received) \in Nat /\ count \in Nat
      /\ \A i \in 1 .. count : InRing[i] = Line2(i - 1)
  BY InRingLines DEF QueueInv, TypeOK
<1>2. ASSUME NEW i \in 1 .. count PROVE InRing[i] = forwarded[Len(received) + i]
  <2>1. i - 1 \in 0 .. count - 1 /\ Len(received) + (i - 1) + 1 = Len(received) + i
    BY <1>1
  <2>2. forwarded[Len(received) + (i - 1) + 1] = Line2(i - 1)
    BY <2>1 DEF QueueInv, RingInv
  <2> QED BY <1>1, <2>1, <2>2
<1> QED BY <1>1, <1>2 DEF QueueInv, RingInv

-----------------------------------------------------------------------------
(* agentq is a FIFO (StageTwoFifo), for rings of any size.                 *)
THEOREM FifoCorrect == Spec => []StageTwoFifo
<1>1. ASSUME QueueInv PROVE StageTwoFifo
  <2>1. received \in Seq(Lines) /\ forwarded \in Seq(Lines)
    BY <1>1 DEF QueueInv, TypeOK
  <2>2. /\ DOMAIN InRing = 1 .. count /\ count \in Nat
        /\ \A i \in 1 .. count : InRing[i] \in Lines
    BY <1>1, <2>1, ForwardedParts, InRingLines DEF QueueInv
  <2>3. InRing \in Seq(Lines) /\ Len(InRing) = count
    <3>1. InRing = [i \in 1 .. count |-> InRing[i]]
      BY <2>2 DEF InRing
    <3> QED BY <2>2, <3>1
  <2>4. /\ received \o InRing \in Seq(Lines)
        /\ Len(received \o InRing) = Len(received) + count
        /\ \A i \in 1 .. Len(received) + count : (received \o InRing)[i] =
             IF i <= Len(received) THEN received[i] ELSE InRing[i - Len(received)]
    BY <2>1, <2>3, ConcatProperties
  <2>5. ASSUME NEW i \in 1 .. Len(forwarded) PROVE (received \o InRing)[i] = forwarded[i]
    <3>1. CASE i <= Len(received)
      BY <1>1, <2>4, <3>1, ForwardedParts
    <3>2. CASE ~ (i <= Len(received))
      <4>1. i - Len(received) \in 1 .. count /\ Len(received) + (i - Len(received)) = i
        BY <1>1, <3>2, ForwardedParts
      <4> QED BY <1>1, <2>4, <3>2, <4>1, ForwardedParts
    <3> QED BY <3>1, <3>2
  <2> QED BY <1>1, <2>1, <2>4, <2>5, ForwardedParts, SeqEqual DEF StageTwoFifo
<1> QED BY <1>1, Invariance, PTL

(* A line is overtaken on its way to agentd only by lines taken while a    *)
(* drainer held it (OvertakenWhileHeld), for any number of drainers.       *)
THEOREM OrderCorrect == Spec => []OvertakenWhileHeld
<1>1. ASSUME QueueInv PROVE OvertakenWhileHeld
  <2>1. DOMAIN received = 1 .. Len(received)
    BY <1>1 DEF QueueInv, TypeOK
  <2>2. \A i \in 1 .. Len(received) : i \in 1 .. Len(forwarded) /\ received[i] = forwarded[i]
    BY <1>1, ForwardedParts
  <2> QED BY <1>1, <2>1, <2>2 DEF OvertakenWhileHeld, QueueInv, OrderInv
<1> QED BY <1>1, Invariance, PTL

(* No line is lost or duplicated (EveryLineInOnePlace), whatever the       *)
(* drainers and the interrupt do.                                          *)
THEOREM LinesConserved == Spec => []EveryLineInOnePlace
<1>1. ASSUME QueueInv PROVE EveryLineInOnePlace
  <2> DEFINE A == Elements(InAgentQ)
             C == Elements(InRing)
             E == Elements(received)
  <2>1. TypeOK /\ AgeInv /\ PlaceInv
    BY <1>1 DEF QueueInv
  <2>2. \A l : l \in A <=> \E k \in 0 .. Waiting - 1 : Line1(k) = l
    <3>1. \A k \in 0 .. Waiting - 1 : k + 1 \in 1 .. Waiting /\ InAgentQ[k + 1] = Line1(k)
      BY <2>1, InAgentQLines
    <3>2. \A i \in 1 .. Waiting : i - 1 \in 0 .. Waiting - 1 /\ InAgentQ[i] = Line1(i - 1)
      BY <2>1, InAgentQLines
    <3> QED BY <2>1, <3>1, <3>2, InAgentQLines DEF Elements
  <2>3. \A l : l \in C \cup E <=> \E i \in 1 .. Len(forwarded) : forwarded[i] = l
    <3>1. /\ DOMAIN received = 1 .. Len(received) /\ DOMAIN InRing = 1 .. count
      BY <2>1, InRingLines DEF TypeOK
    <3>2. ASSUME NEW i \in 1 .. Len(forwarded) PROVE forwarded[i] \in C \cup E
      <4>1. CASE i <= Len(received)
        BY <1>1, <3>1, <4>1, ForwardedParts DEF Elements
      <4>2. CASE ~ (i <= Len(received))
        <5>1. i - Len(received) \in 1 .. count /\ Len(received) + (i - Len(received)) = i
          BY <1>1, <4>2, ForwardedParts
        <5> QED BY <1>1, <3>1, <5>1, ForwardedParts DEF Elements
      <4> QED BY <4>1, <4>2
    <3>3. ASSUME NEW i \in 1 .. Len(received)
          PROVE  i \in 1 .. Len(forwarded) /\ forwarded[i] = received[i]
      BY <1>1, ForwardedParts
    <3>4. ASSUME NEW i \in 1 .. count
          PROVE  Len(received) + i \in 1 .. Len(forwarded) /\ forwarded[Len(received) + i] = InRing[i]
      BY <1>1, ForwardedParts
    <3> QED BY <3>1, <3>2, <3>3, <3>4 DEF Elements
  <2>4. \A l : l \in Held <=> l # NoLine /\ \E d \in Drainers : local[d] = l
    BY DEF Held
  <2>5. /\ sent \in Nat /\ \A d \in Drainers : local[d] \in Nat
        /\ \A k \in 0 .. Waiting - 1 : Line1(k) \in Nat
        /\ \A i \in 1 .. Len(forwarded) : forwarded[i] \in Nat /\ forwarded[i] # 0
    <3>1. \A d \in Drainers : local[d] \in Nat
      BY <2>1 DEF TypeOK, Lines, NoLine
    <3> QED BY <2>1, <3>1, ForwardedLines, AgentQueueAssumption DEF TypeOK, AgeInv
  <2>6. A \cup Held \cup C \cup gone \cup E = 1 .. sent
    <3>1. A \subseteq 1 .. sent
      BY <2>1, <2>2 DEF AgeInv
    <3>2. Held \subseteq 1 .. sent /\ C \cup E \subseteq 1 .. sent /\ gone \subseteq 1 .. sent
      BY <2>1, <2>3, <2>4, <2>5 DEF PlaceInv, NoLine
    <3>3. ASSUME NEW l \in 1 .. sent PROVE l \in A \cup Held \cup C \cup gone \cup E
      BY <2>1, <2>2, <2>3, <2>4 DEF PlaceInv, NoLine
    <3> QED BY <3>1, <3>2, <3>3
  <2>7. A \cap Held = {} /\ A \cap (C \cup E) = {}
    BY <2>1, <2>2, <2>3, <2>4, <2>5 DEF AgeInv
  <2>8. A \cap gone = {} /\ Held \cap (C \cup E) = {} /\ Held \cap gone = {} /\ (C \cup E) \cap gone = {}
    BY <2>1, <2>2, <2>3, <2>4 DEF PlaceInv
  <2>9. C \cap E = {}
    <3> SUFFICES ASSUME NEW i \in 1 .. Len(received), NEW j \in 1 .. count,
                        received[i] = InRing[j]
                 PROVE  FALSE
      <4>1. DOMAIN received = 1 .. Len(received) /\ DOMAIN InRing = 1 .. count
        BY <2>1, InRingLines DEF TypeOK
      <4> QED BY <4>1 DEF Elements
    <3>1. i \in 1 .. Len(forwarded) /\ Len(received) + j \in 1 .. Len(forwarded)
          /\ forwarded[i] = forwarded[Len(received) + j] /\ i # Len(received) + j
      BY <1>1, ForwardedParts
    <3> QED BY <2>1, <3>1 DEF PlaceInv
  <2>10. \A i, j \in DOMAIN received : received[i] = received[j] => i = j
    <3>1. DOMAIN received = 1 .. Len(received)
      BY <2>1 DEF TypeOK
    <3>2. \A i \in 1 .. Len(received) : i \in 1 .. Len(forwarded) /\ received[i] = forwarded[i]
      BY <1>1, ForwardedParts
    <3> QED BY <2>1, <3>1, <3>2 DEF PlaceInv
  <2>11. \A d1, d2 \in Drainers : local[d1] = local[d2] /\ local[d1] # NoLine => d1 = d2
    BY <2>1 DEF PlaceInv
  <2>12. LET places == <<A, Held, C, gone, E>>
         IN  /\ UNION Elements(places) = 1 .. sent
             /\ \A i, j \in DOMAIN places : i # j => places[i] \cap places[j] = {}
    <3>1. /\ A \cap C = {} /\ A \cap E = {} /\ Held \cap C = {} /\ Held \cap E = {}
          /\ C \cap gone = {} /\ gone \cap E = {}
      BY <2>7, <2>8
    <3>2. /\ A \cap Held = {} /\ A \cap gone = {} /\ Held \cap gone = {} /\ C \cap E = {}
          /\ A \cup Held \cup C \cup gone \cup E = 1 .. sent
      BY <2>6, <2>7, <2>8, <2>9
    <3> HIDE DEF A, C, E
    <3> DEFINE places == <<A, Held, C, gone, E>>
    <3>3. DOMAIN places = {1, 2, 3, 4, 5}
      OBVIOUS
    <3>4. Elements(places) = {A, Held, C, gone, E}
      BY <3>3 DEF Elements
    <3>5. UNION {A, Held, C, gone, E} = A \cup Held \cup C \cup gone \cup E
      OBVIOUS
    <3>6. \A i, j \in DOMAIN places : i # j => places[i] \cap places[j] = {}
      BY <3>1, <3>2, <3>3
    <3> QED BY <3>2, <3>4, <3>5, <3>6
  <2> QED BY <2>10, <2>11, <2>12 DEF EveryLineInOnePlace
<1> QED BY <1>1, Invariance, PTL

=============================================================================

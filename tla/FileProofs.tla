----------------------------- MODULE FileProofs -----------------------------
(***************************************************************************)
(* Proofs about files: the blocks under them and the names that lead to    *)
(* them.                                                                   *)
(*                                                                         *)
(* log.c, for any set of processes, blocks and values and any log size:    *)
(* the log implements AtomicDisk, so an operation is durable with its      *)
(* whole group or not at all, wherever the machine stops, and a process    *)
(* asleep in begin_op is owed a wakeup.                                    *)
(*                                                                         *)
(* bio.c and sleeplock.c, for any number of users, blocks and buffers: a   *)
(* block has one buffer, whoever bread returns to has it alone and with    *)
(* the block's last contents, and a user asleep on a sleeplock has a       *)
(* holder to wake it.                                                      *)
(*                                                                         *)
(* bmap, writei and itrunc of fs.c and filewrite of file.c, for any disk,  *)
(* any number of writers and inodes and any size of a transaction: a block *)
(* has one owner, a file reads back what was reported written, and a chunk *)
(* of a write fits its transaction.                                        *)
(*                                                                         *)
(* Inodes and names of fs.c and sysfile.c, for any number of processes,    *)
(* inodes and names: references and links are counted, a name leads to an  *)
(* inode, and an inode without links goes with its last reference.         *)
(***************************************************************************)
EXTENDS Log, BufCache, FileData, Names, FiniteSetTheorems, SequenceTheorems,
        WellFoundedInduction, TLAPS

(* The blocks that log_write pinned and install_trans has not yet unpinned. *)
From         == IF step = "install" THEN tail ELSE 1
PinnedBlocks == IF Recovering THEN {} ELSE {lh[i] : i \in From .. Len(lh)}

-----------------------------------------------------------------------------
(* The inductive invariant, in parts.                                      *)

(* Both headers fit the log area and name each block once.                 *)
HeaderInv ==
  /\ Len(lh) <= LOGBLOCKS /\ Len(head) <= LOGBLOCKS
  /\ \A i, j \in 1 .. Len(lh) : lh[i] = lh[j] => i = j
  /\ \A i, j \in 1 .. Len(head) : head[i] = head[j] => i = j

(* When operations may run, and what each stage of commit and recovery     *)
(* knows of the two headers.                                               *)
StageInv ==
  /\ IsFiniteSet(Inside) /\ outstanding = Cardinality(Inside)
  /\ committing \/ step # "none" => outstanding = 0
  /\ step \in {"write_log", "write_head", "install", "clear"} => committing
  /\ Recovering => ~ committing
  /\ step = "none" /\ outstanding = 0 => lh = << >>
  /\ step \in {"none", "write_log", "write_head"} => head = << >>
  /\ step \in {"install", "reinstall"} => head = lh
  /\ step \in {"clear", "reclear", "read_head"} => lh = << >>
  /\ step \in {"write_head", "read_head"} => tail = 1

(* A pinned block is in the cache; any other buffer is a copy of its home. *)
BufferInv ==
  \A b \in Block : IF b \in PinnedBlocks THEN cache[b] # NoBuf /\ pin[b] > 0
                   ELSE cache[b] \in {NoBuf, home[b]}

(* How far the copying has come.                                           *)
CopyInv ==
  /\ step = "write_log" =>
       \A i \in 1 .. Len(lh) : i < tail => logged[i] = cache[lh[i]]
  /\ step = "write_head" => \A i \in 1 .. Len(lh) : logged[i] = cache[lh[i]]
  /\ step = "install" =>
       \A i \in 1 .. Len(lh) : logged[i] = IF i < tail THEN home[lh[i]] ELSE cache[lh[i]]
  /\ step = "reinstall" =>
       \A i \in 1 .. Len(lh) : i < tail => logged[i] = home[lh[i]]
  /\ step \in {"clear", "reclear"} =>
       \A i \in 1 .. Len(head) : logged[i] = home[head[i]]

(* An operation logs fewer than its share of blocks, each named in the     *)
(* header; a process that is not in one has logged nothing.                *)
OpInv ==
  \A p \in Proc :
    /\ IsFiniteSet(wrote[p]) /\ Cardinality(wrote[p]) <= OpBlocks
    /\ op[p] # "in" => wrote[p] = {}
    /\ \A b \in wrote[p] : \E i \in 1 .. Len(lh) : lh[i] = b

ProofInv == LogTypeOK /\ HeaderInv /\ StageInv /\ BufferInv /\ CopyInv
                      /\ OpInv /\ LogNeverFull /\ SleeperIsOwedWakeup

-----------------------------------------------------------------------------
(* While an operation is inside, nothing is being committed or recovered.  *)
LEMMA NoCommit ==
  ASSUME StageInv, NEW p \in Proc, op[p] = "in"
  PROVE  outstanding \in Nat /\ outstanding > 0 /\ step = "none" /\ ~ committing /\ ~ Recovering
<1>1. Inside # {} /\ IsFiniteSet(Inside) /\ outstanding = Cardinality(Inside)
  BY DEF Inside, StageInv
<1>2. outstanding \in Nat /\ outstanding # 0
  BY <1>1, FS_EmptySet, FS_CardinalityType
<1> QED BY <1>2 DEF StageInv, Recovering

(* Between commits, when operations may start, the header on disk is empty. *)
LEMMA Settled ==
  ASSUME StageInv, LogTypeOK, ~ Recovering, ~ committing
  PROVE  step = "none" /\ head = << >>
  BY DEF StageInv, LogTypeOK, Recovering, Steps

(* The empty header is a sequence of length 0.                             *)
LEMMA EmptyHeader ==
  ASSUME NEW S PROVE << >> \in Seq(S) /\ Len(<< >>) = 0
  OBVIOUS

(* What appending a block to a header gives.                               *)
LEMMA AppendedTo ==
  ASSUME NEW S, NEW s \in Seq(S), NEW e \in S
  PROVE  /\ Append(s, e) \in Seq(S) /\ Len(s) \in Nat /\ Len(Append(s, e)) = Len(s) + 1
         /\ \A i \in 1 .. Len(s) + 1 :
              Append(s, e)[i] = IF i = Len(s) + 1 THEN e ELSE s[i]
  OBVIOUS

(* The invariant holds on a fresh image.                                   *)
LEMMA InitInv == LogInit => ProofInv
<1> SUFFICES ASSUME LogInit PROVE ProofInv
  OBVIOUS
<1>1. PICK v \in Val : home = [b \in Block |-> v]
  BY DEF LogInit
<1>2. (CHOOSE x \in Val : TRUE) \in Val
  BY <1>1
<1>3. head \in Seq(Block) /\ lh \in Seq(Block) /\ Len(lh) = 0 /\ Len(head) = 0
  BY EmptyHeader DEF LogInit
<1>4. LogTypeOK
  <2>1. tail \in 1 .. LOGBLOCKS + 1 /\ outstanding \in Nat
    BY LogAssumption DEF LogInit
  <2>2. home \in [Block -> Val] /\ logged \in [1 .. LOGBLOCKS -> Val]
    BY <1>1, <1>2 DEF LogInit
  <2>3. pin \in [Block -> Nat] /\ cache \in [Block -> Val \cup {NoBuf}]
    BY DEF LogInit
  <2>4. /\ op \in [Proc -> {"out", "asleep", "ready", "in"}] /\ wrote \in [Proc -> SUBSET Block]
        /\ committing \in BOOLEAN /\ step \in Steps
    BY DEF LogInit, Steps
  <2> QED BY <1>3, <2>1, <2>2, <2>3, <2>4 DEF LogTypeOK
<1>5. HeaderInv
  BY <1>3, LogAssumption DEF HeaderInv
<1>6. Inside = {}
  BY DEF LogInit, Inside
<1>7. StageInv
  BY <1>6, FS_EmptySet DEF LogInit, StageInv, Recovering
<1>8. BufferInv /\ CopyInv
  BY DEF LogInit, BufferInv, CopyInv, PinnedBlocks, Recovering
<1>9. SleeperIsOwedWakeup
  BY DEF LogInit, SleeperIsOwedWakeup
<1>10. OpInv
  BY FS_EmptySet, LogAssumption DEF LogInit, OpInv
<1>11. LogNeverFull
  <2>1. Reserved = {}
    BY <1>6 DEF Reserved
  <2> QED BY <1>3, <2>1, FS_EmptySet, LogAssumption DEF LogNeverFull
<1> QED BY <1>4, <1>5, <1>7, <1>8, <1>9, <1>10, <1>11 DEF ProofInv

(* Types, and headers that fit and name a block once.                      *)
LEMMA TypeStep ==
  ASSUME ProofInv, [LogNext]_logVars
  PROVE  LogTypeOK' /\ HeaderInv'
<1>1. ASSUME NEW p \in Proc, begin_op(p) PROVE LogTypeOK' /\ HeaderInv'
  <2>1. outstanding' \in Nat
    BY <1>1 DEF ProofInv, LogTypeOK, begin_op
  <2>2. op' \in [Proc -> {"out", "asleep", "ready", "in"}]
    BY <1>1 DEF ProofInv, LogTypeOK, begin_op
  <2> QED BY <1>1, <2>1, <2>2 DEF ProofInv, LogTypeOK, HeaderInv, begin_op, logdisk, logmem
<1>2. ASSUME NEW p \in Proc, end_op(p) PROVE LogTypeOK' /\ HeaderInv'
  <2>1. outstanding' \in Nat
    BY <1>2, NoCommit DEF ProofInv, end_op
  <2>2. op' \in [Proc -> {"out", "asleep", "ready", "in"}]
    BY <1>2 DEF ProofInv, LogTypeOK, end_op, WakeOps
  <2>3. tail' \in 1 .. LOGBLOCKS + 1 /\ step' \in Steps /\ committing' \in BOOLEAN
    <3>1. tail' = 1 /\ tail' \in 1 .. LOGBLOCKS + 1
      BY <1>2, LogAssumption DEF end_op
    <3>2. step' \in Steps /\ committing' \in BOOLEAN
      BY <1>2 DEF ProofInv, LogTypeOK, end_op, Steps
    <3> QED BY <3>1, <3>2
  <2> QED BY <1>2, <2>1, <2>2, <2>3 DEF ProofInv, LogTypeOK, HeaderInv, end_op, logdisk
<1>3. ASSUME NEW p \in Proc, \E b \in Block, v \in Val : log_write(p, b, v) PROVE LogTypeOK' /\ HeaderInv'
  <2> PICK b \in Block, v \in Val : log_write(p, b, v)
    BY <1>3
  <2>1. lh \in Seq(Block) /\ Len(lh) \in Nat
    BY DEF ProofInv, LogTypeOK
  <2>2. CASE Absorbed(b)
    <3>1. UNCHANGED <<lh, pin, logdisk, outstanding, committing, op, step, tail>>
      BY <2>2 DEF log_write
    <3> QED BY <3>1 DEF ProofInv, LogTypeOK, HeaderInv, log_write, logdisk
  <2>3. CASE ~ Absorbed(b)
    <3>1. lh' = Append(lh, b) /\ pin' = [pin EXCEPT ![b] = pin[b] + 1]
      BY <2>3 DEF log_write
    <3>2. /\ lh' \in Seq(Block) /\ Len(lh') = Len(lh) + 1
          /\ \A i \in 1 .. Len(lh) + 1 : lh'[i] = IF i = Len(lh) + 1 THEN b ELSE lh[i]
      BY <2>1, <3>1, AppendedTo
    <3>3. \A i \in 1 .. Len(lh) : lh[i] # b
      BY <2>1, <2>3 DEF Absorbed
    <3>4. LogTypeOK'
      <4>1. pin' \in [Block -> Nat]
        BY <3>1 DEF ProofInv, LogTypeOK
      <4>2. cache' \in [Block -> Val \cup {NoBuf}] /\ wrote' \in [Proc -> SUBSET Block]
        BY DEF ProofInv, LogTypeOK, log_write
      <4> QED BY <3>2, <4>1, <4>2 DEF ProofInv, LogTypeOK, log_write, logdisk
    <3>5. Len(lh') <= LOGBLOCKS
      BY <2>1, <3>2, LogAssumption DEF log_write
    <3>6. \A i, j \in 1 .. Len(lh') : lh'[i] = lh'[j] => i = j
      BY <2>1, <3>2, <3>3 DEF ProofInv, HeaderInv
    <3>7. head' = head
      BY DEF log_write, logdisk
    <3> QED BY <3>4, <3>5, <3>6, <3>7 DEF ProofInv, HeaderInv
  <2> QED BY <2>2, <2>3
<1>4. CASE \E b \in Block : Load(b) \/ Recycle(b)
  BY <1>4 DEF ProofInv, LogTypeOK, HeaderInv, Load, Recycle, logdisk
<1>5. CASE write_log
  <2>1. CASE tail <= Len(lh)
    <3>1. tail \in 1 .. LOGBLOCKS /\ tail + 1 \in 1 .. LOGBLOCKS + 1 /\ lh[tail] \in Block
      BY <1>5, <2>1, LogAssumption DEF ProofInv, LogTypeOK, HeaderInv
    <3>2. Contents(lh[tail]) \in Val
      BY <3>1 DEF ProofInv, LogTypeOK, Contents
    <3> QED BY <1>5, <2>1, <3>1, <3>2 DEF ProofInv, LogTypeOK, HeaderInv, write_log
  <2>2. CASE ~ (tail <= Len(lh))
    BY <1>5, <2>2, LogAssumption DEF ProofInv, LogTypeOK, HeaderInv, write_log, Steps
  <2> QED BY <2>1, <2>2
<1>6. CASE write_head
  BY <1>6 DEF ProofInv, LogTypeOK, HeaderInv, write_head, Steps
<1>7. CASE install_trans
  <2>1. CASE tail <= Len(lh)
    <3>1. tail \in 1 .. LOGBLOCKS /\ tail + 1 \in 1 .. LOGBLOCKS + 1 /\ lh[tail] \in Block
      BY <1>7, <2>1, LogAssumption DEF ProofInv, LogTypeOK, HeaderInv
    <3>2. logged[tail] \in Val
      BY <3>1 DEF ProofInv, LogTypeOK
    <3>3. step = "install" => pin[lh[tail]] > 0
      <4>1. step = "install" => lh[tail] \in PinnedBlocks
        BY <2>1, <3>1 DEF ProofInv, LogTypeOK, PinnedBlocks, From, Recovering
      <4> QED BY <3>1, <4>1 DEF ProofInv, BufferInv
    <3>4. pin' \in [Block -> Nat]
      BY <1>7, <2>1, <3>1, <3>3 DEF ProofInv, LogTypeOK, install_trans, Unpin
    <3> QED BY <1>7, <2>1, <3>1, <3>2, <3>4 DEF ProofInv, LogTypeOK, HeaderInv, install_trans
  <2>2. CASE ~ (tail <= Len(lh))
    <3>1. lh' = << >> /\ tail' = 1 /\ step' \in Steps
      BY <1>7, <2>2 DEF install_trans, Steps
    <3>2. lh' \in Seq(Block) /\ Len(lh') = 0 /\ tail' \in 1 .. LOGBLOCKS + 1
      BY <3>1, EmptyHeader, LogAssumption
    <3> QED BY <1>7, <2>2, <3>1, <3>2, LogAssumption DEF ProofInv, LogTypeOK, HeaderInv, install_trans
  <2> QED BY <2>1, <2>2
<1>8. CASE Committed
  BY <1>8 DEF ProofInv, LogTypeOK, HeaderInv, Committed, WakeOps, logdisk, logmem
<1>9. CASE StopMachine
  <2>1. lh' \in Seq(Block) /\ Len(lh') = 0
    BY <1>9, EmptyHeader DEF StopMachine
  <2>2. tail' \in 1 .. LOGBLOCKS + 1 /\ outstanding' \in Nat /\ step' \in Steps
    BY <1>9, LogAssumption DEF StopMachine, Steps
  <2>3. /\ cache' \in [Block -> Val \cup {NoBuf}] /\ pin' \in [Block -> Nat]
        /\ op' \in [Proc -> {"out", "asleep", "ready", "in"}]
        /\ wrote' \in [Proc -> SUBSET Block] /\ committing' \in BOOLEAN
    BY <1>9 DEF StopMachine
  <2>4. UNCHANGED <<home, logged, head>>
    BY <1>9 DEF StopMachine, logdisk
  <2>5. LogTypeOK'
    BY <2>1, <2>2, <2>3, <2>4 DEF ProofInv, LogTypeOK
  <2>6. HeaderInv'
    BY <2>1, <2>4, LogAssumption DEF ProofInv, HeaderInv
  <2> QED BY <2>5, <2>6
<1>10. CASE read_head
  BY <1>10 DEF ProofInv, LogTypeOK, HeaderInv, read_head, Steps, logdisk
<1>11. CASE UNCHANGED logVars
  BY <1>11 DEF ProofInv, LogTypeOK, HeaderInv, logVars
<1> QED
  BY <1>1, <1>2, <1>3, <1>4, <1>5, <1>6, <1>7, <1>8, <1>9, <1>10, <1>11 DEF LogNext

(* Operations, commit and recovery take turns.                             *)
LEMMA StageStep ==
  ASSUME ProofInv, [LogNext]_logVars
  PROVE  StageInv'
<1>1. ASSUME NEW p \in Proc, begin_op(p) PROVE StageInv'
  <2>1. CASE committing \/ ~ HasRoom
    <3>1. Inside' = Inside
      BY <1>1, <2>1 DEF ProofInv, LogTypeOK, begin_op, Inside
    <3> QED BY <1>1, <2>1, <3>1 DEF ProofInv, StageInv, begin_op, Recovering, logdisk, logmem
  <2>2. CASE ~ (committing \/ ~ HasRoom)
    <3>1. Inside' = Inside \cup {p} /\ p \notin Inside /\ outstanding' = outstanding + 1
      BY <1>1, <2>2 DEF ProofInv, LogTypeOK, begin_op, Inside
    <3>2. IsFiniteSet(Inside') /\ outstanding' = Cardinality(Inside')
      BY <3>1, FS_AddElement DEF ProofInv, StageInv
    <3>3. step = "none" /\ head = << >>
      BY <1>1, <2>2, Settled DEF ProofInv, begin_op
    <3>4. outstanding' # 0
      BY <3>1 DEF ProofInv, LogTypeOK
    <3> QED BY <1>1, <2>2, <3>2, <3>3, <3>4 DEF StageInv, begin_op, Recovering, logdisk, logmem
  <2> QED BY <2>1, <2>2
<1>2. ASSUME NEW p \in Proc, end_op(p) PROVE StageInv'
  <2>1. outstanding > 0 /\ step = "none" /\ ~ committing /\ outstanding \in Nat
    BY <1>2, NoCommit DEF ProofInv, end_op
  <2>2. Inside' = Inside \ {p} /\ p \in Inside
    BY <1>2 DEF ProofInv, LogTypeOK, end_op, Inside, WakeOps
  <2>3. IsFiniteSet(Inside') /\ outstanding' = Cardinality(Inside')
    BY <1>2, <2>2, FS_RemoveElement DEF ProofInv, StageInv, end_op
  <2>4. CASE outstanding = 1
    <3>1. outstanding' = 0 /\ committing' = TRUE /\ lh' = lh /\ head' = head /\ head = << >>
          /\ step' = IF lh = << >> THEN "none" ELSE "write_log"
      BY <1>2, <2>1, <2>4, Settled DEF end_op, ProofInv, logdisk, Recovering
    <3> QED BY <2>3, <3>1 DEF StageInv, Recovering
  <2>5. CASE outstanding # 1
    <3>1. outstanding' # 0 /\ UNCHANGED <<committing, step, lh, head>>
      BY <1>2, <2>1, <2>5 DEF end_op, logdisk
    <3> QED BY <2>1, <2>3, <3>1 DEF ProofInv, StageInv, Recovering
  <2> QED BY <2>4, <2>5
<1>3. ASSUME NEW p \in Proc, \E b \in Block, v \in Val : log_write(p, b, v) PROVE StageInv'
  <2> PICK b \in Block, v \in Val : log_write(p, b, v)
    BY <1>3
  <2>1. outstanding > 0 /\ step = "none" /\ ~ committing /\ outstanding \in Nat
    BY NoCommit DEF ProofInv, log_write
  <2>2. UNCHANGED <<head, outstanding, committing, op, step>> /\ Inside' = Inside
    BY DEF log_write, logdisk, Inside
  <2> QED BY <2>1, <2>2 DEF ProofInv, StageInv, Recovering
<1>4. CASE \E b \in Block : Load(b) \/ Recycle(b)
  <2>1. UNCHANGED <<head, lh, outstanding, committing, op, step, tail>> /\ Inside' = Inside
    BY <1>4 DEF Load, Recycle, logdisk, Inside
  <2> QED BY <2>1 DEF ProofInv, StageInv, Recovering
<1>5. CASE write_log
  <2>1. UNCHANGED <<head, lh, outstanding, committing, op>> /\ Inside' = Inside
    BY <1>5 DEF write_log, Inside
  <2>2. /\ step = "write_log"
        /\ step' = "write_log" \/ (step' = "write_head" /\ tail' = 1)
    BY <1>5 DEF write_log
  <2> QED BY <2>1, <2>2 DEF ProofInv, StageInv, Recovering
<1>6. CASE write_head
  <2>1. UNCHANGED <<lh, outstanding, committing, op, tail>> /\ Inside' = Inside /\ head' = lh
    BY <1>6 DEF write_head, Inside
  <2>2. CASE step = "write_head"
    <3>1. step' = "install"
      BY <1>6, <2>2 DEF write_head
    <3> QED BY <2>1, <2>2, <3>1 DEF ProofInv, StageInv, Recovering
  <2>3. CASE step \in {"clear", "reclear"}
    <3>1. step' = "none" /\ lh = << >>
      BY <1>6, <2>3 DEF write_head, ProofInv, StageInv
    <3> QED BY <2>1, <2>3, <3>1 DEF ProofInv, StageInv, Recovering
  <2> QED BY <1>6, <2>2, <2>3 DEF write_head
<1>7. CASE install_trans
  <2>1. UNCHANGED <<head, outstanding, committing, op>> /\ Inside' = Inside
    BY <1>7 DEF install_trans, Inside
  <2>2. CASE tail <= Len(lh)
    <3>1. UNCHANGED <<lh, step>> /\ step \in {"install", "reinstall"}
      BY <1>7, <2>2 DEF install_trans
    <3> QED BY <2>1, <3>1 DEF ProofInv, StageInv, Recovering
  <2>3. CASE ~ (tail <= Len(lh))
    <3>1. /\ lh' = << >> /\ step \in {"install", "reinstall"}
          /\ step' = IF step = "install" THEN "clear" ELSE "reclear"
      BY <1>7, <2>3 DEF install_trans
    <3> QED BY <2>1, <3>1 DEF ProofInv, StageInv, Recovering
  <2> QED BY <2>2, <2>3
<1>8. CASE Committed
  <2>1. UNCHANGED <<head, lh, outstanding, step>> /\ committing' = FALSE /\ step = "none"
    BY <1>8 DEF Committed, logdisk, logmem
  <2>2. Inside' = Inside
    BY <1>8 DEF ProofInv, LogTypeOK, Committed, Inside, WakeOps
  <2> QED BY <2>1, <2>2 DEF ProofInv, StageInv, Recovering
<1>9. CASE StopMachine
  <2>1. Inside' = {}
    BY <1>9 DEF StopMachine, Inside
  <2> QED BY <1>9, <2>1, FS_EmptySet DEF StopMachine, StageInv, Recovering
<1>10. CASE read_head
  <2>1. UNCHANGED <<head, outstanding, committing, op, tail>> /\ Inside' = Inside /\ lh' = head
        /\ step = "read_head" /\ step' = "reinstall"
    BY <1>10 DEF read_head, logdisk, Inside
  <2> QED BY <2>1 DEF ProofInv, StageInv, Recovering
<1>11. CASE UNCHANGED logVars
  <2>1. Inside' = Inside
    BY <1>11 DEF Inside, logVars
  <2> QED BY <1>11, <2>1 DEF ProofInv, StageInv, Recovering, logVars
<1> QED
  BY <1>1, <1>2, <1>3, <1>4, <1>5, <1>6, <1>7, <1>8, <1>9, <1>10, <1>11 DEF LogNext

(* A process that begin_op turns away finds someone still at work.         *)
LEMMA SleepStep ==
  ASSUME ProofInv, [LogNext]_logVars
  PROVE  SleeperIsOwedWakeup'
<1>1. ASSUME NEW p \in Proc, begin_op(p) PROVE SleeperIsOwedWakeup'
  <2>1. CASE committing \/ ~ HasRoom
    <3>1. UNCHANGED <<committing, outstanding>>
      BY <1>1, <2>1 DEF begin_op
    <3>2. CASE ~ committing /\ outstanding = 0
      <4>1. lh = << >>
        BY <1>1, <3>2, Settled DEF ProofInv, StageInv, begin_op
      <4>2. Len(lh) = 0
        BY <4>1
      <4>3. (outstanding + 1) * MAXOPBLOCKS = MAXOPBLOCKS
        BY <3>2, LogAssumption
      <4>4. HasRoom
        BY <4>2, <4>3, LogAssumption DEF HasRoom
      <4> QED BY <2>1, <3>2, <4>4
    <3>3. CASE committing \/ outstanding # 0
      BY <3>1, <3>3 DEF ProofInv, LogTypeOK, SleeperIsOwedWakeup
    <3> QED BY <3>2, <3>3
  <2>2. CASE ~ (committing \/ ~ HasRoom)
    <3>1. outstanding' = outstanding + 1
      BY <1>1, <2>2 DEF begin_op
    <3> QED BY <3>1 DEF ProofInv, LogTypeOK, SleeperIsOwedWakeup
  <2> QED BY <2>1, <2>2
<1>2. ASSUME NEW p \in Proc, end_op(p) PROVE SleeperIsOwedWakeup'
  <2>1. CASE outstanding = 1
    BY <1>2, <2>1 DEF end_op, SleeperIsOwedWakeup
  <2>2. CASE outstanding # 1
    <3>1. \A q \in Proc : op'[q] # "asleep"
      BY <1>2, <2>2 DEF ProofInv, LogTypeOK, end_op, WakeOps
    <3> QED BY <3>1 DEF SleeperIsOwedWakeup
  <2> QED BY <2>1, <2>2
<1>3. ASSUME NEW p \in Proc, \E b \in Block, v \in Val : log_write(p, b, v) PROVE SleeperIsOwedWakeup'
  BY <1>3 DEF ProofInv, SleeperIsOwedWakeup, log_write
<1>4. CASE \E b \in Block : Load(b) \/ Recycle(b)
  BY <1>4 DEF ProofInv, SleeperIsOwedWakeup, Load, Recycle
<1>5. CASE write_log \/ write_head \/ install_trans
  BY <1>5 DEF ProofInv, SleeperIsOwedWakeup, write_log, write_head, install_trans
<1>6. CASE Committed
  <2>1. \A q \in Proc : op'[q] # "asleep"
    BY <1>6 DEF ProofInv, LogTypeOK, Committed, WakeOps
  <2> QED BY <2>1 DEF SleeperIsOwedWakeup
<1>7. CASE StopMachine
  BY <1>7 DEF StopMachine, SleeperIsOwedWakeup
<1>8. CASE read_head
  BY <1>8 DEF ProofInv, SleeperIsOwedWakeup, read_head
<1>9. CASE UNCHANGED logVars
  BY <1>9 DEF ProofInv, SleeperIsOwedWakeup, logVars
<1> QED
  BY <1>1, <1>2, <1>3, <1>4, <1>5, <1>6, <1>7, <1>8, <1>9 DEF LogNext

(* Only pinned buffers differ from their home blocks, and none of those is *)
(* lost from the cache.                                                    *)
LEMMA BufferStep ==
  ASSUME ProofInv, [LogNext]_logVars
  PROVE  BufferInv'
<1> USE DEF ProofInv
<1>0. lh \in Seq(Block) /\ Len(lh) \in Nat /\ tail \in Nat
  BY LogAssumption DEF LogTypeOK
<1>1. ASSUME NEW p \in Proc, begin_op(p) PROVE BufferInv'
  <2>1. UNCHANGED <<cache, pin, home, lh, step, tail>>
    BY <1>1 DEF begin_op, logdisk, logmem
  <2> QED BY <2>1 DEF BufferInv, PinnedBlocks, From, Recovering
<1>2. ASSUME NEW p \in Proc, end_op(p) PROVE BufferInv'
  <2>1. UNCHANGED <<cache, pin, home, lh>> /\ step = "none" /\ step' \in {"none", "write_log"}
    BY <1>2, NoCommit DEF end_op, logdisk
  <2>2. PinnedBlocks' = PinnedBlocks
    BY <2>1 DEF PinnedBlocks, From, Recovering
  <2> QED BY <2>1, <2>2 DEF BufferInv
<1>3. ASSUME NEW p \in Proc, \E b \in Block, v \in Val : log_write(p, b, v) PROVE BufferInv'
  <2> PICK b \in Block, v \in Val : log_write(p, b, v)
    BY <1>3
  <2>1. step = "none" /\ step' = "none" /\ home' = home
    BY NoCommit DEF log_write, logdisk
  <2>2. PinnedBlocks = {lh[i] : i \in 1 .. Len(lh)} /\ PinnedBlocks' = {lh'[i] : i \in 1 .. Len(lh')}
    BY <2>1 DEF PinnedBlocks, From, Recovering
  <2>3. cache' = [cache EXCEPT ![b] = v] /\ v # NoBuf
    BY LogAssumption DEF log_write
  <2>4. CASE Absorbed(b)
    <3>1. b \in PinnedBlocks /\ UNCHANGED <<lh, pin>>
      BY <1>0, <2>2, <2>4 DEF Absorbed, log_write
    <3>2. PinnedBlocks' = PinnedBlocks
      BY <2>2, <3>1
    <3> QED BY <2>1, <2>3, <3>1, <3>2 DEF BufferInv, LogTypeOK
  <2>5. CASE ~ Absorbed(b)
    <3>1. lh' = Append(lh, b) /\ pin' = [pin EXCEPT ![b] = pin[b] + 1]
      BY <2>5 DEF log_write
    <3>2. /\ Len(lh') = Len(lh) + 1
          /\ \A i \in 1 .. Len(lh) + 1 : lh'[i] = IF i = Len(lh) + 1 THEN b ELSE lh[i]
      BY <1>0, <3>1, AppendedTo
    <3>3. \A x \in Block : x \in PinnedBlocks' <=> x \in PinnedBlocks \/ x = b
      BY <1>0, <2>2, <3>2
    <3>4. \A x \in Block : pin'[x] >= pin[x] /\ pin'[b] > 0 /\ pin[x] \in Nat
      BY <3>1 DEF LogTypeOK
    <3>5. \A x \in Block : cache'[x] = IF x = b THEN v ELSE cache[x]
      BY <2>3 DEF LogTypeOK
    <3>6. \A x \in Block : pin[x] > 0 => pin'[x] > 0
      BY <3>1, <3>4 DEF LogTypeOK
    <3> QED BY <2>1, <2>3, <3>3, <3>4, <3>5, <3>6 DEF BufferInv
  <2> QED BY <2>4, <2>5
<1>4. ASSUME NEW b \in Block, Load(b) \/ Recycle(b) PROVE BufferInv'
  <2>1. UNCHANGED <<pin, home, lh, step, tail>>
    BY <1>4 DEF Load, Recycle, logdisk
  <2>2. PinnedBlocks' = PinnedBlocks
    BY <2>1 DEF PinnedBlocks, From, Recovering
  <2>3. b \notin PinnedBlocks
    BY <1>4 DEF Load, Recycle, BufferInv
  <2>4. cache' = [cache EXCEPT ![b] = NoBuf] \/ cache' = [cache EXCEPT ![b] = home[b]]
    BY <1>4 DEF Load, Recycle
  <2> QED BY <2>1, <2>2, <2>3, <2>4 DEF BufferInv, LogTypeOK
<1>5. CASE write_log
  <2>1. UNCHANGED <<cache, pin, home, lh>> /\ step = "write_log" /\ step' \in {"write_log", "write_head"}
    BY <1>5 DEF write_log
  <2>2. PinnedBlocks' = PinnedBlocks
    BY <2>1 DEF PinnedBlocks, From, Recovering
  <2> QED BY <2>1, <2>2 DEF BufferInv
<1>6. CASE write_head
  <2>1. UNCHANGED <<cache, pin, home, lh, tail>>
    BY <1>6 DEF write_head
  <2>2. CASE step = "write_head"
    <3>1. step' = "install" /\ tail' = 1
      BY <1>6, <2>1, <2>2 DEF write_head, StageInv
    <3>2. PinnedBlocks' = PinnedBlocks
      BY <2>1, <2>2, <3>1 DEF PinnedBlocks, From, Recovering
    <3> QED BY <2>1, <3>2 DEF BufferInv
  <2>3. CASE step \in {"clear", "reclear"}
    <3>1. step' = "none" /\ lh' = << >> /\ lh = << >>
      BY <1>6, <2>1, <2>3 DEF write_head, StageInv
    <3>2. Len(lh) = 0
      BY <3>1, EmptyHeader
    <3>3. PinnedBlocks = {} /\ PinnedBlocks' = {}
      BY <2>1, <2>3, <3>1, <3>2 DEF PinnedBlocks, From, Recovering
    <3> QED BY <2>1, <3>3 DEF BufferInv
  <2> QED BY <1>6, <2>2, <2>3 DEF write_head
<1>7. CASE install_trans
  <2>1. CASE tail <= Len(lh)
    <3>1. /\ lh' = lh /\ step' = step /\ tail' = tail + 1 /\ step \in {"install", "reinstall"}
          /\ home' = [home EXCEPT ![lh[tail]] = logged[tail]]
          /\ cache' = [cache EXCEPT ![lh[tail]] = logged[tail]]
      BY <1>7, <2>1 DEF install_trans
    <3>2. lh[tail] \in Block /\ tail \in 1 .. Len(lh)
      BY <1>0, <2>1 DEF LogTypeOK
    <3>3. \A x \in Block : x # lh[tail] => cache'[x] = cache[x] /\ home'[x] = home[x]
      BY <3>1 DEF LogTypeOK
    <3>4. cache'[lh[tail]] = home'[lh[tail]]
      BY <3>1, <3>2 DEF LogTypeOK
    <3>5. \A x \in Block : x \in PinnedBlocks' <=> x \in PinnedBlocks /\ x # lh[tail]
      <4>1. CASE step = "reinstall"
        BY <3>1, <4>1 DEF PinnedBlocks, Recovering
      <4>2. CASE step = "install"
        <5>1. PinnedBlocks = {lh[i] : i \in tail .. Len(lh)} /\ PinnedBlocks' = {lh[i] : i \in tail + 1 .. Len(lh)}
          BY <3>1, <4>2 DEF PinnedBlocks, From, Recovering
        <5>2. \A i \in 1 .. Len(lh) : lh[i] = lh[tail] => i = tail
          BY <3>2 DEF HeaderInv
        <5> QED BY <1>0, <3>2, <5>1, <5>2
      <4> QED BY <3>1, <4>1, <4>2
    <3>6. \A x \in Block : x # lh[tail] => pin'[x] = pin[x]
      BY <1>7, <2>1 DEF install_trans, Unpin, LogTypeOK
    <3> QED BY <3>3, <3>4, <3>5, <3>6 DEF BufferInv
  <2>2. CASE ~ (tail <= Len(lh))
    <3>1. /\ UNCHANGED <<cache, pin, home>> /\ lh' = << >> /\ step \in {"install", "reinstall"}
          /\ step' \in {"clear", "reclear"}
      BY <1>7, <2>2 DEF install_trans
    <3>2. Len(lh') = 0
      BY <3>1, EmptyHeader
    <3>3. PinnedBlocks = {}
      BY <1>0, <2>2, <3>1 DEF PinnedBlocks, From, Recovering
    <3>4. PinnedBlocks' = {}
      BY <3>1, <3>2 DEF PinnedBlocks, From, Recovering
    <3> QED BY <3>1, <3>3, <3>4 DEF BufferInv
  <2> QED BY <2>1, <2>2
<1>8. CASE Committed
  <2>1. UNCHANGED <<cache, pin, home, lh, step, tail>>
    BY <1>8 DEF Committed, logdisk, logmem
  <2> QED BY <2>1 DEF BufferInv, PinnedBlocks, From, Recovering
<1>9. CASE StopMachine
  <2>1. PinnedBlocks' = {} /\ cache' = [b \in Block |-> NoBuf]
    BY <1>9 DEF StopMachine, PinnedBlocks, Recovering
  <2> QED BY <2>1 DEF BufferInv
<1>10. CASE read_head
  <2>1. UNCHANGED <<cache, pin, home>> /\ PinnedBlocks = {} /\ PinnedBlocks' = {}
    BY <1>10 DEF read_head, PinnedBlocks, Recovering, logdisk
  <2> QED BY <2>1 DEF BufferInv
<1>11. CASE UNCHANGED logVars
  BY <1>11 DEF BufferInv, PinnedBlocks, From, Recovering, logVars
<1> QED
  BY <1>1, <1>2, <1>3, <1>4, <1>5, <1>6, <1>7, <1>8, <1>9, <1>10, <1>11 DEF LogNext

(* Operations keep to their share, and the log to its size.                *)
LEMMA RoomStep ==
  ASSUME ProofInv, [LogNext]_logVars
  PROVE  OpInv' /\ LogNeverFull'
<1> USE DEF ProofInv
<1>0. lh \in Seq(Block) /\ Len(lh) \in Nat
  BY DEF LogTypeOK
<1>a. IsFiniteSet(1 .. MAXOPBLOCKS) /\ Cardinality(1 .. MAXOPBLOCKS) = MAXOPBLOCKS
  BY FS_Interval, LogAssumption
<1>b. IsFiniteSet(Reserved) /\ Cardinality(Reserved) \in Nat
  <2>1. IsFiniteSet(Inside \X (1 .. MAXOPBLOCKS))
    BY <1>a, FS_Product DEF StageInv
  <2>2. Reserved \in SUBSET (Inside \X (1 .. MAXOPBLOCKS))
    BY DEF Reserved
  <2>3. IsFiniteSet(Reserved)
    BY <2>1, <2>2, FS_Subset
  <2> QED BY <2>3, FS_CardinalityType
<1>c. \A p \in Proc : IsFiniteSet(wrote[p]) /\ Cardinality(wrote[p]) \in Nat
  BY FS_CardinalityType DEF OpInv
<1>n. ASSUME Inside' = Inside, wrote' = wrote, Len(lh') \in Nat, Len(lh') <= Len(lh)
      PROVE  LogNeverFull'
  <2>1. Reserved' = Reserved
    BY <1>n DEF Reserved
  <2> QED BY <1>0, <1>b, <1>n, <2>1, LogAssumption DEF LogNeverFull
<1>1. ASSUME NEW p \in Proc, begin_op(p) PROVE OpInv' /\ LogNeverFull'
  <2>1. UNCHANGED <<lh, wrote>>
    BY <1>1 DEF begin_op, logmem
  <2>2. \A q \in Proc : q # p => op'[q] = op[q]
    BY <1>1 DEF begin_op, LogTypeOK
  <2>3. wrote[p] = {}
    BY <1>1 DEF begin_op, OpInv
  <2>4. OpInv'
    BY <2>1, <2>2, <2>3 DEF OpInv
  <2>5. CASE committing \/ ~ HasRoom
    <3>1. Inside' = Inside
      BY <1>1, <2>5 DEF begin_op, Inside, LogTypeOK
    <3>2. Len(lh') \in Nat /\ Len(lh') <= Len(lh)
      BY <1>0, <2>1
    <3> QED BY <1>n, <2>1, <2>4, <3>1, <3>2
  <2>6. CASE ~ (committing \/ ~ HasRoom)
    <3>1. Inside' = Inside \cup {p} /\ p \notin Inside /\ HasRoom
      BY <1>1, <2>6 DEF begin_op, Inside, LogTypeOK
    <3>2. IsFiniteSet(Inside') /\ Cardinality(Inside') = outstanding + 1
      BY <3>1, FS_AddElement DEF StageInv
    <3>3. /\ IsFiniteSet(Inside' \X (1 .. MAXOPBLOCKS))
          /\ Cardinality(Inside' \X (1 .. MAXOPBLOCKS)) = (outstanding + 1) * MAXOPBLOCKS
      BY <1>a, <3>2, FS_Product
    <3>4. Reserved' \in SUBSET (Inside' \X (1 .. MAXOPBLOCKS))
      BY DEF Reserved
    <3>5. IsFiniteSet(Reserved') /\ Cardinality(Reserved') <= (outstanding + 1) * MAXOPBLOCKS
      BY <3>3, <3>4, FS_Subset
    <3>6. Cardinality(Reserved') \in Nat
      BY <3>5, FS_CardinalityType
    <3>7. (outstanding + 1) * MAXOPBLOCKS \in Nat
      BY LogAssumption DEF LogTypeOK
    <3>8. Len(lh) + (outstanding + 1) * MAXOPBLOCKS <= LOGBLOCKS
      BY <3>1 DEF HasRoom
    <3> DEFINE W == (outstanding + 1) * MAXOPBLOCKS
    <3>9. W \in Nat /\ Cardinality(Reserved') <= W /\ Len(lh) + W <= LOGBLOCKS
      BY <3>5, <3>7, <3>8
    <3> HIDE DEF W
    <3>10. Len(lh') + Cardinality(Reserved') <= LOGBLOCKS
      BY <1>0, <2>1, <3>6, <3>9, LogAssumption
    <3> QED BY <2>4, <3>10 DEF LogNeverFull
  <2> QED BY <2>5, <2>6
<1>2. ASSUME NEW p \in Proc, end_op(p) PROVE OpInv' /\ LogNeverFull'
  <2>1. lh' = lh /\ wrote' = [wrote EXCEPT ![p] = {}]
    BY <1>2 DEF end_op
  <2>2. Inside' = Inside \ {p}
    BY <1>2 DEF LogTypeOK, end_op, Inside, WakeOps
  <2>3. \A q \in Proc : /\ wrote'[q] = IF q = p THEN {} ELSE wrote[q]
                        /\ (op'[q] # "in" <=> op[q] # "in" \/ q = p)
    BY <1>2, <2>1 DEF LogTypeOK, end_op, WakeOps
  <2>4. OpInv'
    BY <2>1, <2>3, FS_EmptySet, LogAssumption DEF OpInv
  <2>5. \A q \in Inside' : q \in Inside /\ q \in Proc /\ q # p
    BY <2>2 DEF Inside
  <2>6. ASSUME NEW r \in Reserved' PROVE r \in Reserved
    <3>1. r \in Inside' \X (1 .. MAXOPBLOCKS) /\ r[2] > Cardinality(wrote'[r[1]])
      BY DEF Reserved
    <3>2. r[1] \in Inside' /\ r \in Inside \X (1 .. MAXOPBLOCKS)
      BY <2>2, <3>1
    <3>3. wrote'[r[1]] = wrote[r[1]]
      BY <2>3, <2>5, <3>2
    <3> QED BY <3>1, <3>2, <3>3 DEF Reserved
  <2>7. Reserved' \in SUBSET Reserved
    BY <2>6
  <2>8. Cardinality(Reserved') <= Cardinality(Reserved) /\ Cardinality(Reserved') \in Nat
    BY <1>b, <2>7, FS_Subset, FS_CardinalityType
  <2>9. LogNeverFull'
    BY <1>0, <1>b, <2>1, <2>8, LogAssumption DEF LogNeverFull
  <2> QED BY <2>4, <2>9
<1>3. ASSUME NEW p \in Proc, \E b \in Block, v \in Val : log_write(p, b, v)
      PROVE  OpInv' /\ LogNeverFull'
  <2> PICK b \in Block, v \in Val : log_write(p, b, v)
    BY <1>3
  <2>1. op' = op /\ op[p] = "in" /\ p \in Inside /\ Inside' = Inside
    BY DEF log_write, Inside
  <2>2. \A q \in Proc : wrote'[q] = IF q = p THEN wrote[p] \cup {b} ELSE wrote[q]
    BY DEF log_write, LogTypeOK
  <2>3. /\ IsFiniteSet(wrote[p] \cup {b})
        /\ Cardinality(wrote[p] \cup {b}) =
             IF b \in wrote[p] THEN Cardinality(wrote[p]) ELSE Cardinality(wrote[p]) + 1
    BY <1>c, FS_AddElement
  <2>4. Cardinality(wrote[p] \cup {b}) <= OpBlocks
    BY DEF log_write
  <2>5. /\ Len(lh') \in Nat /\ Len(lh') >= Len(lh) /\ Len(lh') <= Len(lh) + 1
        /\ \A i \in 1 .. Len(lh) : lh'[i] = lh[i]
        /\ \E i \in 1 .. Len(lh') : lh'[i] = b
        /\ Absorbed(b) => lh' = lh
    <3>1. CASE Absorbed(b)
      BY <1>0, <3>1 DEF Absorbed, log_write
    <3>2. CASE ~ Absorbed(b)
      <4>1. lh' = Append(lh, b)
        BY <3>2 DEF log_write
      <4>2. /\ Len(lh') = Len(lh) + 1
            /\ \A i \in 1 .. Len(lh) + 1 : lh'[i] = IF i = Len(lh) + 1 THEN b ELSE lh[i]
        BY <1>0, <4>1, AppendedTo
      <4>3. lh'[Len(lh')] = b /\ Len(lh') \in 1 .. Len(lh')
        BY <1>0, <4>2
      <4> QED BY <1>0, <3>2, <4>2, <4>3
    <3> QED BY <3>1, <3>2
  <2>6. OpInv'
    <3> SUFFICES ASSUME NEW q \in Proc
                 PROVE  /\ IsFiniteSet(wrote'[q]) /\ Cardinality(wrote'[q]) <= OpBlocks
                        /\ op'[q] # "in" => wrote'[q] = {}
                        /\ \A x \in wrote'[q] : \E i \in 1 .. Len(lh') : lh'[i] = x
      BY DEF OpInv
    <3>1. IsFiniteSet(wrote'[q]) /\ Cardinality(wrote'[q]) <= OpBlocks
      BY <2>2, <2>3, <2>4 DEF OpInv
    <3>2. op'[q] # "in" => wrote'[q] = {}
      BY <2>1, <2>2 DEF OpInv
    <3>3. ASSUME NEW x \in wrote'[q] PROVE \E i \in 1 .. Len(lh') : lh'[i] = x
      <4>1. x = b \/ \E i \in 1 .. Len(lh) : lh[i] = x
        BY <2>2, <3>3 DEF OpInv
      <4> QED BY <1>0, <2>5, <4>1
    <3> QED BY <3>1, <3>2, <3>3
  <2>7. CASE b \in wrote[p]
    <3>1. wrote' = wrote
      <4>1. wrote' = [wrote EXCEPT ![p] = wrote[p] \cup {b}] /\ wrote[p] \cup {b} = wrote[p]
        BY <2>7 DEF log_write
      <4> QED BY <4>1 DEF LogTypeOK
    <3>2. lh' = lh
      BY <1>0, <2>5, <2>7 DEF OpInv, Absorbed
    <3>3. Len(lh') <= Len(lh)
      BY <1>0, <3>2
    <3> QED BY <1>n, <2>1, <2>5, <2>6, <3>1, <3>3
  <2>8. CASE b \notin wrote[p]
    <3> DEFINE k == Cardinality(wrote[p])
    <3>1. k \in Nat /\ Cardinality(wrote[p] \cup {b}) = k + 1 /\ k + 1 \in 1 .. MAXOPBLOCKS
      BY <1>c, <2>3, <2>4, <2>8, LogAssumption
    <3>2. <<p, k + 1>> \in Reserved
      BY <2>1, <3>1 DEF Reserved
    <3>3. ASSUME NEW q \in Inside, NEW i \in 1 .. MAXOPBLOCKS
          PROVE  <<q, i>> \in Reserved' <=> <<q, i>> \in Reserved /\ <<q, i>> # <<p, k + 1>>
      <4>1. /\ <<q, i>> \in Reserved  <=> i > Cardinality(wrote[q])
            /\ <<q, i>> \in Reserved' <=> i > Cardinality(wrote'[q])
        BY <2>1 DEF Reserved
      <4>2. q \in Proc
        BY DEF Inside
      <4>3. CASE q = p
        <5>1. i > k + 1 <=> i > k /\ i # k + 1
          BY <3>1
        <5> QED BY <2>2, <3>1, <4>1, <4>2, <4>3, <5>1
      <4>4. CASE q # p
        BY <2>2, <4>1, <4>2, <4>4
      <4> QED BY <4>3, <4>4
    <3>4. /\ \A r \in Reserved : r = <<r[1], r[2]>> /\ r[1] \in Inside /\ r[2] \in 1 .. MAXOPBLOCKS
          /\ \A r \in Reserved' : r = <<r[1], r[2]>> /\ r[1] \in Inside /\ r[2] \in 1 .. MAXOPBLOCKS
      BY <2>1 DEF Reserved
    <3>5. \A r : r \in Reserved' <=> r \in Reserved /\ r # <<p, k + 1>>
      BY <3>3, <3>4
    <3>6. Reserved' = Reserved \ {<<p, k + 1>>}
      BY <3>5
    <3>7. Cardinality(Reserved') = Cardinality(Reserved) - 1
      BY <1>b, <3>2, <3>6, FS_RemoveElement
    <3>8. LogNeverFull'
      BY <1>0, <1>b, <2>5, <3>7, LogAssumption DEF LogNeverFull
    <3> QED BY <2>6, <3>8
  <2> QED BY <2>7, <2>8
<1>4. CASE (\E b \in Block : Load(b) \/ Recycle(b)) \/ write_log \/ write_head
  <2>1. UNCHANGED <<lh, op, wrote>>
    BY <1>4 DEF Load, Recycle, write_log, write_head
  <2>2. Inside' = Inside /\ Len(lh') \in Nat /\ Len(lh') <= Len(lh)
    BY <1>0, <2>1 DEF Inside
  <2> QED BY <1>n, <2>1, <2>2 DEF OpInv
<1>5. CASE install_trans \/ read_head
  <2>1. UNCHANGED <<op, wrote>> /\ step # "none"
    BY <1>5 DEF install_trans, read_head
  <2>2. Inside = {} /\ Inside' = {}
    BY <2>1, NoCommit DEF Inside
  <2>3. \A p \in Proc : wrote[p] = {}
    BY <2>2 DEF Inside, OpInv
  <2>4. OpInv'
    BY <2>1, <2>3 DEF OpInv
  <2>5. Reserved' = {}
    BY <2>2 DEF Reserved
  <2>6. Len(lh') \in Nat /\ Len(lh') <= LOGBLOCKS
    <3>1. lh' = lh \/ lh' = << >> \/ lh' = head
      BY <1>5 DEF install_trans, read_head
    <3> QED BY <3>1, EmptyHeader, LogAssumption DEF HeaderInv, LogTypeOK
  <2> QED BY <2>4, <2>5, <2>6, FS_EmptySet DEF LogNeverFull
<1>6. CASE Committed
  <2>1. UNCHANGED <<lh, wrote>>
    BY <1>6 DEF Committed, logmem
  <2>2. Inside' = Inside /\ \A p \in Proc : op'[p] = "in" <=> op[p] = "in"
    BY <1>6 DEF LogTypeOK, Committed, Inside, WakeOps
  <2>3. Len(lh') \in Nat /\ Len(lh') <= Len(lh)
    BY <1>0, <2>1
  <2>4. OpInv'
    BY <2>1, <2>2 DEF OpInv
  <2> QED BY <1>n, <2>1, <2>2, <2>3, <2>4
<1>7. CASE StopMachine
  <2>1. Inside' = {} /\ Len(lh') = 0 /\ \A p \in Proc : wrote'[p] = {}
    BY <1>7, EmptyHeader DEF StopMachine, Inside
  <2>2. Reserved' = {}
    BY <2>1 DEF Reserved
  <2>3. LogNeverFull'
    BY <2>1, <2>2, FS_EmptySet, LogAssumption DEF LogNeverFull
  <2>4. OpInv'
    <3>1. IsFiniteSet({}) /\ Cardinality({}) <= OpBlocks
      BY FS_EmptySet, LogAssumption
    <3> QED BY <2>1, <3>1 DEF OpInv
  <2> QED BY <2>3, <2>4
<1>8. CASE UNCHANGED logVars
  <2>1. UNCHANGED <<lh, op, wrote>>
    BY <1>8 DEF logVars
  <2>2. Inside' = Inside /\ Len(lh') \in Nat /\ Len(lh') <= Len(lh)
    BY <1>0, <2>1 DEF Inside
  <2> QED BY <1>n, <2>1, <2>2 DEF OpInv
<1> QED
  BY <1>1, <1>2, <1>3, <1>4, <1>5, <1>6, <1>7, <1>8 DEF LogNext

(* The copies that commit and recovery have made are good.                 *)
LEMMA CopyStep ==
  ASSUME ProofInv, [LogNext]_logVars
  PROVE  CopyInv'
<1> USE DEF ProofInv
<1>0. lh \in Seq(Block) /\ Len(lh) \in Nat /\ tail \in Nat /\ tail >= 1
  BY LogAssumption DEF LogTypeOK
<1>1. ASSUME NEW p \in Proc, begin_op(p) PROVE CopyInv'
  BY <1>1 DEF begin_op, logdisk, logmem, CopyInv
<1>2. ASSUME NEW p \in Proc, end_op(p) PROVE CopyInv'
  <2>1. tail' = 1 /\ step = "none" /\ step' \in {"none", "write_log"}
    BY <1>2, NoCommit DEF end_op
  <2> QED BY <2>1 DEF CopyInv
<1>3. ASSUME NEW p \in Proc, \E b \in Block, v \in Val : log_write(p, b, v) PROVE CopyInv'
  <2>1. step' = "none"
    BY <1>3, NoCommit DEF log_write
  <2> QED BY <2>1 DEF CopyInv
<1>4. ASSUME NEW b \in Block, Load(b) \/ Recycle(b) PROVE CopyInv'
  <2>1. UNCHANGED <<logged, head, home, lh, step, tail>>
    BY <1>4 DEF Load, Recycle, logdisk
  <2>2. \A x \in Block : x # b => cache'[x] = cache[x]
    BY <1>4 DEF Load, Recycle, LogTypeOK
  <2>3. b \notin PinnedBlocks
    BY <1>4 DEF Load, Recycle, BufferInv
  <2>4. \A i \in 1 .. Len(lh) : lh[i] \in Block
    BY <1>0
  <2>5. CASE step \in {"write_log", "write_head"}
    <3>1. \A i \in 1 .. Len(lh) : lh[i] # b
      BY <1>0, <2>3, <2>5 DEF PinnedBlocks, From, Recovering
    <3> QED BY <2>1, <2>2, <2>4, <2>5, <3>1 DEF CopyInv
  <2>6. CASE step = "install"
    <3>1. \A i \in 1 .. Len(lh) : ~ (i < tail) => lh[i] # b
      BY <1>0, <2>3, <2>6 DEF PinnedBlocks, From, Recovering
    <3> QED BY <2>1, <2>2, <2>4, <2>6, <3>1 DEF CopyInv
  <2>7. CASE step \notin {"write_log", "write_head", "install"}
    BY <2>1, <2>7 DEF CopyInv
  <2> QED BY <2>5, <2>6, <2>7
<1>5. CASE write_log
  <2>1. UNCHANGED <<cache, lh>> /\ step = "write_log"
    BY <1>5 DEF write_log
  <2>2. CASE tail <= Len(lh)
    <3>1. logged' = [logged EXCEPT ![tail] = Contents(lh[tail])] /\ tail' = tail + 1 /\ step' = "write_log"
      BY <1>5, <2>2 DEF write_log
    <3>2. lh[tail] \in PinnedBlocks /\ lh[tail] \in Block
      BY <1>0, <2>1, <2>2 DEF PinnedBlocks, From, Recovering
    <3>3. Contents(lh[tail]) = cache[lh[tail]]
      BY <3>2 DEF BufferInv, Contents
    <3>4. \A i \in 1 .. Len(lh) : logged'[i] = IF i = tail THEN cache[lh[tail]] ELSE logged[i]
      BY <1>0, <3>1, <3>3, LogAssumption DEF LogTypeOK, HeaderInv
    <3>5. \A i \in 1 .. Len(lh) : i < tail' => logged'[i] = cache[lh[i]]
      BY <1>0, <2>1, <3>1, <3>4 DEF CopyInv
    <3> QED BY <2>1, <3>1, <3>5 DEF CopyInv
  <2>3. CASE ~ (tail <= Len(lh))
    <3>1. logged' = logged /\ step' = "write_head"
      BY <1>5, <2>3 DEF write_log
    <3>2. \A i \in 1 .. Len(lh) : logged[i] = cache[lh[i]]
      BY <1>0, <2>1, <2>3 DEF CopyInv
    <3> QED BY <2>1, <3>1, <3>2 DEF CopyInv
  <2> QED BY <2>2, <2>3
<1>6. CASE write_head
  <2>1. UNCHANGED <<cache, logged, home, lh, tail>>
    BY <1>6 DEF write_head
  <2>2. CASE step = "write_head"
    <3>1. step' = "install" /\ tail' = 1
      BY <1>6, <2>1, <2>2 DEF write_head, StageInv
    <3>2. \A i \in 1 .. Len(lh) : logged[i] = cache[lh[i]] /\ ~ (i < 1)
      BY <1>0, <2>2 DEF CopyInv
    <3> QED BY <2>1, <3>1, <3>2 DEF CopyInv
  <2>3. CASE step # "write_head"
    <3>1. step' = "none"
      BY <1>6, <2>3 DEF write_head
    <3> QED BY <3>1 DEF CopyInv
  <2> QED BY <2>2, <2>3
<1>7. CASE install_trans
  <2>0. UNCHANGED <<logged, head>> /\ step \in {"install", "reinstall"} /\ head = lh
    BY <1>7 DEF install_trans, StageInv
  <2>1. CASE tail <= Len(lh)
    <3>1. /\ lh' = lh /\ step' = step /\ tail' = tail + 1
          /\ home' = [home EXCEPT ![lh[tail]] = logged[tail]]
          /\ cache' = [cache EXCEPT ![lh[tail]] = logged[tail]]
      BY <1>7, <2>1 DEF install_trans
    <3>2. \A i \in 1 .. Len(lh) : lh[i] \in Block /\ (i # tail => lh[i] # lh[tail])
      BY <1>0, <2>1 DEF HeaderInv
    <3>3. \A i \in 1 .. Len(lh) : i # tail => home'[lh[i]] = home[lh[i]] /\ cache'[lh[i]] = cache[lh[i]]
      BY <3>1, <3>2 DEF LogTypeOK
    <3>4. tail \in 1 .. Len(lh) /\ home'[lh[tail]] = logged[tail]
      BY <1>0, <2>1, <3>1, <3>2 DEF LogTypeOK
    <3>5. \A i \in 1 .. Len(lh) : i < tail' <=> i < tail \/ i = tail
      BY <1>0, <3>1
    <3>6. CASE step = "install"
      <4>1. \A i \in 1 .. Len(lh) :
              logged[i] = IF i < tail' THEN home'[lh[i]] ELSE cache'[lh[i]]
        BY <3>3, <3>4, <3>5, <3>6 DEF CopyInv
      <4> QED BY <2>0, <3>1, <3>6, <4>1 DEF CopyInv
    <3>7. CASE step = "reinstall"
      <4>1. \A i \in 1 .. Len(lh) : i < tail' => logged[i] = home'[lh[i]]
        BY <3>3, <3>4, <3>5, <3>7 DEF CopyInv
      <4> QED BY <2>0, <3>1, <3>7, <4>1 DEF CopyInv
    <3> QED BY <2>0, <3>6, <3>7
  <2>2. CASE ~ (tail <= Len(lh))
    <3>1. home' = home /\ step' \in {"clear", "reclear"}
      BY <1>7, <2>2 DEF install_trans
    <3>2. \A i \in 1 .. Len(lh) : logged[i] = home[lh[i]]
      BY <1>0, <2>0, <2>2 DEF CopyInv
    <3> QED BY <2>0, <3>1, <3>2 DEF CopyInv
  <2> QED BY <2>1, <2>2
<1>8. CASE Committed
  BY <1>8 DEF Committed, logdisk, logmem, CopyInv
<1>9. CASE StopMachine
  BY <1>9 DEF StopMachine, CopyInv
<1>10. CASE read_head
  <2>1. step' = "reinstall" /\ tail' = 1
    BY <1>10 DEF read_head, StageInv
  <2> QED BY <2>1 DEF CopyInv
<1>11. CASE UNCHANGED logVars
  BY <1>11 DEF CopyInv, logVars
<1> QED
  BY <1>1, <1>2, <1>3, <1>4, <1>5, <1>6, <1>7, <1>8, <1>9, <1>10, <1>11 DEF LogNext

(* The invariant holds in every reachable state.                            *)
LEMMA Invariance == LogSpec => []ProofInv
<1>1. ProofInv /\ [LogNext]_logVars => ProofInv'
  BY TypeStep, StageStep, BufferStep, CopyStep, RoomStep, SleepStep DEF ProofInv
<1> QED BY <1>1, InitInv, PTL DEF LogSpec

(* A process begin_op put to sleep is owed a wakeup by the commit under    *)
(* way or by an operation that has yet to end, so wakeup(&log) in end_op   *)
(* reaches every one of them.                                              *)
THEOREM SleeperCorrect == LogSpec => []SleeperIsOwedWakeup
<1>1. ProofInv => SleeperIsOwedWakeup
  BY DEF ProofInv
<1> QED BY <1>1, Invariance, PTL

(* The log always has room for what the operations inside may still write, *)
(* so log_write never panics.                                              *)
THEOREM RoomCorrect == LogSpec => []LogNeverFull
<1>1. ProofInv => LogNeverFull
  BY DEF ProofInv
<1> QED BY <1>1, Invariance, PTL

(* All the log keeps, together: its types (commit and recovery stay inside *)
(* the log area, and no pin of bunpin is given back twice), its room and   *)
(* its wakeups.                                                            *)
THEOREM LogCorrect == LogSpec => []LogInv
<1>1. ProofInv => LogInv
  BY DEF ProofInv, LogInv
<1> QED BY <1>1, Invariance, PTL

-----------------------------------------------------------------------------
(* The refinement.                                                         *)

(* Durable, block by block.                                                *)
DurableIs ==
  /\ \A i \in 1 .. Len(head) : Durable[head[i]] = logged[i]
  /\ \A b \in Block : (\A i \in 1 .. Len(head) : head[i] # b) => Durable[b] = home[b]

(* A restart finds the logged copy of a block the header names, and the    *)
(* home block of any other.                                                *)
LEMMA DurableValue == LogTypeOK /\ HeaderInv => DurableIs
<1> SUFFICES ASSUME LogTypeOK, HeaderInv PROVE DurableIs
  OBVIOUS
<1>1. head \in Seq(Block) /\ DOMAIN head = 1 .. Len(head)
  BY DEF LogTypeOK
<1>2. ASSUME NEW i \in 1 .. Len(head) PROVE Durable[head[i]] = logged[i]
  <2>1. head[i] \in Block /\ \E j \in DOMAIN head : head[j] = head[i]
    BY <1>1
  <2>2. ASSUME NEW j \in DOMAIN head, head[j] = head[i] PROVE j = i
    BY <1>1, <2>2 DEF HeaderInv
  <2>3. (CHOOSE j \in DOMAIN head : head[j] = head[i]) = i
    BY <1>1, <2>2
  <2> QED BY <2>1, <2>3 DEF Durable
<1>3. ASSUME NEW b \in Block, \A i \in 1 .. Len(head) : head[i] # b
      PROVE  Durable[b] = home[b]
  BY <1>1, <1>3 DEF Durable
<1> QED BY <1>2, <1>3 DEF DurableIs

(* Two functions on the blocks are equal when they agree on each.          *)
LEMMA SameBlocks ==
  ASSUME NEW f, NEW g, f = [b \in Block |-> f[b]], g = [b \in Block |-> g[b]],
         \A b \in Block : f[b] = g[b]
  PROVE  f = g
<1>1. [b \in Block |-> f[b]] = [b \in Block |-> g[b]]
  OBVIOUS
<1> QED BY <1>1

(* What a restart would find is a function of blocks.                      *)
LEMMA DurableFunction == Durable = [b \in Block |-> Durable[b]]
  BY DEF Durable

(* With the header empty, or all it names installed, a restart finds the   *)
(* home blocks.                                                            *)
LEMMA DurableHome ==
  LogTypeOK /\ HeaderInv /\ (\A i \in 1 .. Len(head) : logged[i] = home[head[i]])
    => Durable = home
<1> SUFFICES ASSUME LogTypeOK, HeaderInv, \A i \in 1 .. Len(head) : logged[i] = home[head[i]]
             PROVE  Durable = home
  OBVIOUS
<1>1. \A b \in Block : Durable[b] = home[b]
  <2> TAKE b \in Block
  <2>1. DurableIs
    BY DurableValue
  <2>2. CASE \E i \in 1 .. Len(head) : head[i] = b
    <3> PICK i \in 1 .. Len(head) : head[i] = b
      BY <2>2
    <3> QED BY <2>1 DEF DurableIs
  <2>3. CASE \A i \in 1 .. Len(head) : head[i] # b
    BY <2>1, <2>3 DEF DurableIs
  <2> QED BY <2>2, <2>3
<1>2. home = [b \in Block |-> home[b]]
  BY DEF LogTypeOK
<1> QED BY <1>1, <1>2, DurableFunction, SameBlocks

(* Outside recovery, a reader of an unpinned block sees its home block.    *)
LEMMA SeenHome ==
  ASSUME BufferInv, NEW b \in Block, b \notin PinnedBlocks
  PROVE  Contents(b) = home[b]
  BY DEF BufferInv, Contents

(* Every step of the log is a step of the atomic disk, or leaves it alone. *)
LEMMA StepRefines ==
  ASSUME ProofInv, ProofInv', [LogNext]_logVars
  PROVE  [Abstract!AtomicNext]_<<Durable, Seen, Inside>>
<1> DEFINE Stutter == UNCHANGED <<Durable, Seen, Inside>>
<1> SUFFICES Abstract!AtomicNext \/ Stutter
  OBVIOUS
<1> USE DEF ProofInv
<1>0. lh \in Seq(Block) /\ Len(lh) \in Nat /\ tail \in Nat /\ tail >= 1
  BY LogAssumption DEF LogTypeOK
<1>d. DurableIs /\ DurableIs'
  <2>1. LogTypeOK' /\ HeaderInv' => DurableIs'
    BY DurableValue, PTL
  <2> QED BY <2>1, DurableValue
<1>e. /\ head = << >> => Durable = home
      /\ head' = << >> => Durable' = home'
  <2>1. LogTypeOK' /\ HeaderInv' /\ (\A i \in 1 .. Len(head) : logged[i] = home[head[i]])' => (Durable = home)'
    BY DurableHome, PTL
  <2>2. head = << >> => \A i \in 1 .. Len(head) : logged[i] = home[head[i]]
    BY EmptyHeader
  <2>3. head' = << >> => \A i \in 1 .. Len(head') : logged'[i] = home'[head'[i]]
    BY EmptyHeader
  <2> QED BY <2>1, <2>2, <2>3, DurableHome
<1>1. ASSUME NEW p \in Proc, begin_op(p) PROVE Abstract!AtomicNext \/ Stutter
  <2>1. Durable' = Durable /\ Seen' = Seen
    BY <1>1 DEF begin_op, logdisk, logmem, Durable, Seen, Contents, Recovering
  <2>2. CASE committing \/ ~ HasRoom
    <3>1. Inside' = Inside
      BY <1>1, <2>2 DEF LogTypeOK, begin_op, Inside
    <3> QED BY <2>1, <3>1
  <2>3. CASE ~ (committing \/ ~ HasRoom)
    <3>1. /\ Inside' = Inside \cup {p}
          /\ p \notin Inside
      BY <1>1, <2>3 DEF LogTypeOK, begin_op, Inside
    <3>2. Abstract!Begin(p)
      BY <2>1, <3>1 DEF Abstract!Begin
    <3> QED BY <3>2 DEF Abstract!AtomicNext
  <2> QED BY <2>2, <2>3
<1>2. ASSUME NEW p \in Proc, end_op(p) PROVE Abstract!AtomicNext \/ Stutter
  <2>1. UNCHANGED <<logdisk, cache>> /\ ~ Recovering /\ ~ Recovering'
    BY <1>2, NoCommit DEF end_op, Recovering
  <2>2. Durable' = Durable /\ Seen' = Seen
    BY <2>1 DEF logdisk, Durable, Seen, Contents
  <2>3. /\ Inside' = Inside \ {p}
        /\ p \in Inside
    BY <1>2 DEF LogTypeOK, end_op, WakeOps, Inside
  <2>4. Abstract!End(p)
    BY <2>2, <2>3 DEF Abstract!End
  <2> QED BY <2>4 DEF Abstract!AtomicNext
<1>3. ASSUME NEW p \in Proc, \E b \in Block, v \in Val : log_write(p, b, v)
      PROVE  Abstract!AtomicNext \/ Stutter
  <2> PICK b \in Block, v \in Val : log_write(p, b, v)
    BY <1>3
  <2>1. UNCHANGED <<home, logged, head, op>> /\ ~ Recovering /\ ~ Recovering'
    BY NoCommit DEF log_write, logdisk, Recovering
  <2>2. Durable' = Durable
    BY <2>1 DEF Durable
  <2>3. \A x \in Block : cache'[x] = (IF x = b THEN v ELSE cache[x]) /\ v # NoBuf
    BY LogAssumption DEF log_write, LogTypeOK
  <2>4. Seen = [x \in Block |-> Contents(x)] /\ Seen' = [x \in Block |-> Contents(x)']
    BY <2>1 DEF Seen
  <2>5. \A x \in Block : Contents(x)' = IF x = b THEN v ELSE Contents(x)
    BY <2>1, <2>3 DEF Contents
  <2>6. Seen' = [Seen EXCEPT ![b] = v]
    BY <2>4, <2>5
  <2>7. p \in Inside
    BY DEF log_write, Inside
  <2>8. Abstract!Write(p, b, v)
    BY <2>1, <2>2, <2>6, <2>7 DEF Abstract!Write, Inside
  <2> QED BY <2>8 DEF Abstract!AtomicNext
<1>4. ASSUME NEW b \in Block, Load(b) \/ Recycle(b) PROVE Abstract!AtomicNext \/ Stutter
  <2>1. UNCHANGED <<home, logged, head, op, step>>
    BY <1>4 DEF Load, Recycle, logdisk
  <2>2. Durable' = Durable
    BY <2>1 DEF Durable
  <2>3. Contents(b)' = Contents(b)
    BY <1>4, <2>1 DEF Load, Recycle, BufferInv, LogTypeOK, Contents
  <2>4. \A x \in Block : Contents(x)' = Contents(x)
    <3>1. \A x \in Block : x # b => cache'[x] = cache[x]
      BY <1>4 DEF Load, Recycle, LogTypeOK
    <3> QED BY <2>1, <2>3, <3>1 DEF Contents
  <2>5. Seen' = Seen
    BY <2>1, <2>2, <2>4 DEF Seen, Recovering
  <2> QED BY <2>1, <2>2, <2>5 DEF Inside
<1>5. CASE write_log
  <2>1. UNCHANGED <<home, head, cache, op>> /\ ~ Recovering /\ ~ Recovering' /\ head = << >>
    BY <1>5 DEF write_log, Recovering, StageInv
  <2>2. Durable' = Durable
    BY <1>e, <2>1
  <2>3. Seen' = Seen
    BY <2>1 DEF Seen, Contents
  <2> QED BY <2>1, <2>2, <2>3 DEF Inside
<1>6. CASE write_head
  <2>0. UNCHANGED <<home, logged, cache, op, lh>> /\ head' = lh /\ ~ Recovering'
    BY <1>6 DEF write_head, Recovering
  <2>1. CASE step = "write_head"
    <3>1. ~ Recovering /\ PinnedBlocks = {lh[i] : i \in 1 .. Len(lh)}
      BY <2>1 DEF PinnedBlocks, From, Recovering
    <3>2. Seen = [x \in Block |-> Contents(x)] /\ Seen' = Seen
      BY <2>0, <3>1 DEF Seen, Contents
    <3>3. \A x \in Block : Durable'[x] = Contents(x)
      <4> TAKE x \in Block
      <4>1. CASE x \in PinnedBlocks
        <5> PICK i \in 1 .. Len(lh) : lh[i] = x
          BY <3>1, <4>1
        <5>1. Durable'[x] = logged[i]
          BY <1>d, <2>0 DEF DurableIs
        <5>2. logged[i] = cache[x]
          BY <2>1 DEF CopyInv
        <5>3. Contents(x) = cache[x]
          BY <4>1 DEF BufferInv, Contents
        <5> QED BY <5>1, <5>2, <5>3
      <4>2. CASE x \notin PinnedBlocks
        <5>1. Durable'[x] = home[x]
          BY <1>d, <2>0, <3>1, <4>2 DEF DurableIs
        <5> QED BY <4>2, <5>1, SeenHome
      <4> QED BY <4>1, <4>2
    <3>4. Durable' = [x \in Block |-> Durable'[x]]
      BY DEF Durable
    <3>5. Durable' = Seen
      BY <3>2, <3>3, <3>4
    <3>6. Inside = {}
      BY <2>1, NoCommit DEF Inside
    <3>7. Abstract!Commit
      BY <2>0, <3>2, <3>5, <3>6 DEF Abstract!Commit, Inside
    <3> QED BY <3>7 DEF Abstract!AtomicNext
  <2>2. CASE step \in {"clear", "reclear"}
    <3>1. lh = << >> /\ head' = << >>
      BY <2>0, <2>2 DEF StageInv
    <3>2. \A i \in 1 .. Len(head) : logged[i] = home[head[i]]
      BY <2>2 DEF CopyInv
    <3>3. Durable = home /\ Durable' = home
      BY <1>e, <2>0, <3>1, <3>2, DurableHome
    <3>4. PinnedBlocks = {}
      <4>1. Len(lh) = 0
        BY <3>1, EmptyHeader
      <4> QED BY <2>2, <4>1 DEF PinnedBlocks, From, Recovering
    <3>5. \A x \in Block : Contents(x) = home[x] /\ Contents(x)' = home[x]
      BY <2>0, <3>4, SeenHome DEF Contents
    <3>6. home = [x \in Block |-> home[x]]
      BY DEF LogTypeOK
    <3>7. Seen = home /\ Seen' = home
      BY <2>0, <3>3, <3>5, <3>6 DEF Seen
    <3> QED BY <2>0, <3>3, <3>7 DEF Inside
  <2> QED BY <1>6, <2>1, <2>2 DEF write_head
<1>7. CASE install_trans
  <2>0. UNCHANGED <<logged, head, op>> /\ step \in {"install", "reinstall"} /\ head = lh
    BY <1>7 DEF install_trans, StageInv
  <2>1. CASE tail <= Len(lh)
    <3>1. /\ step' = step /\ home' = [home EXCEPT ![lh[tail]] = logged[tail]]
          /\ cache' = [cache EXCEPT ![lh[tail]] = logged[tail]]
      BY <1>7, <2>1 DEF install_trans
    <3>2. tail \in 1 .. Len(lh) /\ lh[tail] \in Block /\ tail \in 1 .. LOGBLOCKS
      BY <1>0, <2>1, LogAssumption DEF HeaderInv
    <3>3. \A x \in Block : Durable'[x] = Durable[x]
      <4> TAKE x \in Block
      <4>1. CASE \E i \in 1 .. Len(lh) : lh[i] = x
        <5> PICK i \in 1 .. Len(lh) : lh[i] = x
          BY <4>1
        <5> QED BY <1>d, <2>0 DEF DurableIs
      <4>2. CASE \A i \in 1 .. Len(lh) : lh[i] # x
        <5>1. home'[x] = home[x]
          BY <3>1, <3>2, <4>2 DEF LogTypeOK
        <5> QED BY <1>d, <2>0, <4>2, <5>1 DEF DurableIs
      <4> QED BY <4>1, <4>2
    <3>4. Durable' = Durable
      <4>1. Durable' = [x \in Block |-> Durable'[x]]
        BY DEF Durable
      <4> QED BY <3>3, <4>1, DurableFunction, SameBlocks
    <3>5. CASE step = "reinstall"
      <4>1. Recovering /\ Recovering'
        BY <3>1, <3>5 DEF Recovering
      <4> QED BY <2>0, <3>4, <4>1 DEF Seen, Inside
    <3>6. CASE step = "install"
      <4>1. ~ Recovering /\ ~ Recovering'
        BY <3>1, <3>6 DEF Recovering
      <4>2. logged[tail] = cache[lh[tail]] /\ logged[tail] # NoBuf
        <5>1. ~ (tail < tail)
          BY <1>0
        <5>2. logged[tail] = cache[lh[tail]]
          BY <3>2, <3>6, <5>1 DEF CopyInv
        <5>3. logged[tail] \in Val
          BY <3>2 DEF LogTypeOK
        <5> QED BY <5>2, <5>3, LogAssumption
      <4>3. \A x \in Block : cache'[x] = cache[x] /\ (x # lh[tail] => home'[x] = home[x])
        BY <3>1, <3>2, <4>2 DEF LogTypeOK
      <4>4. \A x \in Block : Contents(x)' = Contents(x)
        BY <4>2, <4>3 DEF Contents
      <4>5. Seen' = Seen
        BY <4>1, <4>4 DEF Seen
      <4> QED BY <2>0, <3>4, <4>5 DEF Inside
    <3> QED BY <2>0, <3>5, <3>6
  <2>2. CASE ~ (tail <= Len(lh))
    <3>1. UNCHANGED <<home, cache>> /\ (Recovering' <=> Recovering)
      BY <1>7, <2>2 DEF install_trans, Recovering
    <3>2. Durable' = Durable
      BY <2>0, <3>1 DEF Durable
    <3>3. Seen' = Seen
      BY <3>1, <3>2 DEF Seen, Contents
    <3> QED BY <2>0, <3>2, <3>3 DEF Inside
  <2> QED BY <2>1, <2>2
<1>8. CASE Committed
  <2>1. UNCHANGED <<home, logged, head, cache, step>>
    BY <1>8 DEF Committed, logdisk, logmem
  <2>2. Durable' = Durable
    BY <2>1 DEF Durable
  <2>3. Seen' = Seen
    BY <2>1, <2>2 DEF Seen, Contents, Recovering
  <2>4. Inside' = Inside
    BY <1>8 DEF Committed, WakeOps, LogTypeOK, Inside
  <2> QED BY <2>2, <2>3, <2>4
<1>9. CASE StopMachine
  <2>1. UNCHANGED <<home, logged, head>> /\ Recovering'
    BY <1>9 DEF StopMachine, logdisk, Recovering
  <2>2. Durable' = Durable /\ Seen' = Durable
    BY <2>1 DEF Durable, Seen
  <2>3. Inside' = {}
    BY <1>9 DEF StopMachine, Inside
  <2>4. Abstract!Crash
    BY <2>2, <2>3 DEF Abstract!Crash
  <2> QED BY <2>4 DEF Abstract!AtomicNext
<1>10. CASE read_head
  <2>1. UNCHANGED <<home, logged, head, op>> /\ Recovering /\ Recovering'
    BY <1>10 DEF read_head, logdisk, Recovering
  <2>2. Durable' = Durable /\ Seen' = Seen
    BY <2>1 DEF Durable, Seen
  <2> QED BY <2>1, <2>2 DEF Inside
<1>11. CASE UNCHANGED logVars
  <2>1. UNCHANGED <<home, logged, head, cache, step, op>>
    BY <1>11 DEF logVars
  <2>2. Durable' = Durable
    BY <2>1 DEF Durable
  <2>3. Seen' = Seen
    BY <2>1, <2>2 DEF Seen, Contents, Recovering
  <2> QED BY <2>1, <2>2, <2>3 DEF Inside
<1> QED
  BY <1>1, <1>2, <1>3, <1>4, <1>5, <1>6, <1>7, <1>8, <1>9, <1>10, <1>11 DEF LogNext

(* The log of log.c implements the atomic disk: whatever is recycled from  *)
(* the cache, and wherever a commit or a recovery is cut short, the        *)
(* operations of a group become durable at the one write of the header     *)
(* (write_head) or not at all, and readers see the last write.             *)
THEOREM Refinement == LogSpec => ImplementsAtomicDisk
<1>1. LogInit => Abstract!AtomicInit
  <2> SUFFICES ASSUME LogInit PROVE Abstract!AtomicInit
    OBVIOUS
  <2>1. ProofInv /\ head = << >> /\ Recovering
    BY InitInv DEF LogInit, Recovering
  <2>2. \A i \in 1 .. Len(head) : logged[i] = home[head[i]]
    BY <2>1, EmptyHeader
  <2>3. Durable = home /\ home \in [Block -> Val]
    BY <2>1, <2>2, DurableHome DEF ProofInv, LogTypeOK
  <2>4. Seen = Durable
    BY <2>1 DEF Seen
  <2>5. Inside = {}
    BY DEF LogInit, Inside
  <2> QED BY <2>3, <2>4, <2>5 DEF Abstract!AtomicInit
<1> QED
  BY <1>1, StepRefines, Invariance, PTL DEF LogSpec, ImplementsAtomicDisk, Abstract!AtomicSpec

-----------------------------------------------------------------------------
(* The users that refer to buffer i, and the stages with its sleeplock.    *)
Users(i) == {u \in User : stage[u] # "idle" /\ mine[u] = i}
Locked   == {"bread", "reading", "writing", "held"}

-----------------------------------------------------------------------------
(* The buffer cache.  Its inductive invariant, in parts.                   *)

(* Every buffer is in the list, and its count is the number of its users.  *)
RefInv ==
  /\ \A i \in Buffer : \E n \in Buffer : lru[n] = i
  /\ \A i \in Buffer : IsFiniteSet(Users(i)) /\ buf[i].refcnt = Cardinality(Users(i))

(* The owner of a sleeplock is past acquiresleep on that buffer.           *)
LockInv ==
  /\ \A u \in User : stage[u] \in Locked => owner[mine[u]] = u
  /\ \A i \in Buffer : owner[i] # NoUser =>
       stage[owner[i]] \in Locked /\ mine[owner[i]] = i

(* A valid buffer has its block's last contents, and so has the disk       *)
(* unless the block is being written.                                      *)
ContentInv ==
  /\ \A u \in User : stage[u] # "idle" => buf[mine[u]].blockno \in Sector
  /\ \A u \in User : stage[u] \in {"held", "writing"} => buf[mine[u]].valid
  /\ \A i \in Buffer : buf[i].valid =>
       buf[i].blockno \in Sector /\ buf[i].data = newest[buf[i].blockno]
  /\ \A b \in Sector :
       platter[b] = newest[b] \/ \E u \in User : stage[u] = "writing" /\ buf[mine[u]].blockno = b

CacheInv == BufTypeOK /\ RefInv /\ LockInv /\ OneBufferPerBlock /\ ContentInv
                      /\ LockSleeperHasHolder

-----------------------------------------------------------------------------
(* Any set of naturals that has members has a least one.                   *)
LEMMA HasMin ==
  ASSUME NEW S \in SUBSET Nat, S # {}
  PROVE  Min(S) \in S
<1> DEFINE R == OpToRel(<, Nat)
<1>1. IsWellFoundedOn(R, Nat)
  BY NatLessThanWellFounded
<1>2. \A a, b \in Nat : <<a, b>> \in R <=> a < b
  BY DEF OpToRel
<1> HIDE DEF R
<1>3. PICK x \in S : \A y \in S : ~ (<<y, x>> \in R)
  BY <1>1, WFMin
<1>4. \A y \in S : ~ (y < x)
  BY <1>2, <1>3
<1>5. \E z \in S : \A y \in S : z <= y
  BY <1>4
<1> QED BY <1>5 DEF Min

(* bget recycles a buffer that nobody refers to.                           *)
LEMMA VictimUnused ==
  ASSUME CacheInv, \E i \in Buffer : buf[i].refcnt = 0
  PROVE  Victim \in Buffer /\ buf[Victim].refcnt = 0 /\ Users(Victim) = {}
<1> DEFINE S == {n \in Buffer : buf[lru[n]].refcnt = 0}
<1>1. S \in SUBSET Nat /\ S # {}
  BY DEF CacheInv, RefInv, Buffer
<1>2. Min(S) \in S
  BY <1>1, HasMin
<1>3. Victim \in Buffer /\ buf[Victim].refcnt = 0
  BY <1>2 DEF Victim, CacheInv, BufTypeOK
<1> QED BY <1>3, FS_EmptySet DEF CacheInv, RefInv

(* brelse keeps every buffer in the list.                                  *)
LEMMA UsedLastKeeps ==
  ASSUME CacheInv, NEW i \in Buffer
  PROVE  /\ UsedLast(i) \in [Buffer -> Buffer]
         /\ \A j \in Buffer : \E n \in Buffer : UsedLast(i)[n] = j
<1> DEFINE old == CHOOSE n \in Buffer : lru[n] = i
<1>1. NBUF \in Nat /\ NBUF >= 1 /\ Buffer = 1 .. NBUF
  BY BufAssumption DEF Buffer
<1>2. lru \in [Buffer -> Buffer] /\ \A j \in Buffer : \E n \in Buffer : lru[n] = j
  BY DEF CacheInv, BufTypeOK, RefInv
<1>3. old \in Buffer /\ lru[old] = i
  BY <1>2
<1>4. UsedLast(i) = [n \in Buffer |-> IF n = NBUF THEN i ELSE IF n < old THEN lru[n] ELSE lru[n + 1]]
  BY DEF UsedLast
<1> HIDE DEF old
<1>5. ASSUME NEW n \in Buffer
      PROVE  UsedLast(i)[n] = (IF n = NBUF THEN i ELSE IF n < old THEN lru[n] ELSE lru[n + 1])
             /\ UsedLast(i)[n] \in Buffer
  BY <1>1, <1>2, <1>4
<1>6. ASSUME NEW j \in Buffer PROVE \E n \in Buffer : UsedLast(i)[n] = j
  <2>1. PICK n \in Buffer : lru[n] = j
    BY <1>2
  <2>2. CASE j = i
    <3>1. NBUF \in Buffer
      BY <1>1
    <3>2. UsedLast(i)[NBUF] = i
      BY <1>5, <3>1
    <3> QED BY <2>2, <3>1, <3>2
  <2>3. CASE j # i /\ n < old
    <3>1. n # NBUF
      BY <1>1, <1>3, <2>3
    <3>2. UsedLast(i)[n] = j
      BY <1>5, <2>1, <2>3, <3>1
    <3> QED BY <3>2
  <2>4. CASE j # i /\ ~ (n < old)
    <3>1. n # old /\ n - 1 \in Buffer /\ n - 1 # NBUF /\ ~ (n - 1 < old) /\ (n - 1) + 1 = n
      BY <1>1, <1>3, <2>1, <2>4
    <3>2. UsedLast(i)[n - 1] = j
      BY <1>5, <2>1, <3>1
    <3> QED BY <3>1, <3>2
  <2> QED BY <2>2, <2>3, <2>4
<1>7. UsedLast(i) \in [Buffer -> Buffer]
  BY <1>4, <1>5
<1> QED BY <1>6, <1>7

(* The invariant holds after binit.                                        *)
LEMMA CacheInit == binit => CacheInv
<1> SUFFICES ASSUME binit PROVE CacheInv
  OBVIOUS
<1>1. Zero \in Data /\ NBUF \in Nat /\ 1 \in Buffer
  BY BufAssumption DEF Zero, Buffer
<1>2. BufTypeOK
  <2>1. lru \in [Buffer -> Buffer] /\ owner \in [Buffer -> User \cup {NoUser}] /\ mine \in [User -> Buffer]
    BY <1>1 DEF binit
  <2>2. /\ platter \in [Sector -> Data] /\ newest \in [Sector -> Data]
        /\ stage \in [User -> {"idle", "acquiresleep", "asleep", "bread", "reading",
                               "writing", "held", "brelse"}]
    BY <1>1 DEF binit
  <2>3. buf \in [Buffer -> [blockno : Sector \cup {NoSector}, valid : BOOLEAN,
                            refcnt : Nat, data : Data]]
    BY <1>1 DEF binit
  <2> QED BY <2>1, <2>2, <2>3 DEF BufTypeOK
<1>3. \A i \in Buffer : Users(i) = {}
  BY DEF binit, Users
<1>4. RefInv
  BY <1>3, FS_EmptySet DEF binit, RefInv
<1>5. LockInv /\ LockSleeperHasHolder
  BY DEF binit, LockInv, Locked, LockSleeperHasHolder
<1>6. OneBufferPerBlock /\ ContentInv
  BY DEF binit, OneBufferPerBlock, ContentInv
<1> QED BY <1>2, <1>4, <1>5, <1>6 DEF CacheInv

(* A user that comes to refer to buffer i.                                 *)
LEMMA OneMoreUser ==
  ASSUME CacheInv, NEW u \in User, NEW i \in Buffer, stage[u] = "idle",
         stage' = [stage EXCEPT ![u] = "acquiresleep"], mine' = [mine EXCEPT ![u] = i]
  PROVE  /\ IsFiniteSet(Users(i)') /\ Cardinality(Users(i)') = Cardinality(Users(i)) + 1
         /\ \A j \in Buffer : j # i => Users(j)' = Users(j)
<1> USE DEF CacheInv, BufTypeOK
<1>1. Users(i)' = Users(i) \cup {u} /\ u \notin Users(i)
  BY DEF Users
<1>2. \A j \in Buffer : j # i => Users(j)' = Users(j)
  BY DEF Users
<1>3. IsFiniteSet(Users(i))
  BY DEF RefInv
<1>4. IsFiniteSet(Users(i) \cup {u}) /\ Cardinality(Users(i) \cup {u}) = Cardinality(Users(i)) + 1
  BY <1>1, <1>3, FS_AddElement
<1> QED BY <1>1, <1>2, <1>4

(* bget: a new reference, to the block's buffer or to a recycled one.      *)
LEMMA GetStep ==
  ASSUME CacheInv, NEW u \in User, NEW b \in Sector, bget(u, b)
  PROVE  CacheInv'
<1> USE DEF CacheInv
<1>1. PICK i \in Buffer :
        /\ mine' = [mine EXCEPT ![u] = i]
        /\ \/ i \in CachedIn(b) /\ buf' = [buf EXCEPT ![i].refcnt = buf[i].refcnt + 1]
           \/ /\ CachedIn(b) = {} /\ Users(i) = {} /\ buf[i].refcnt = 0
              /\ buf' = [buf EXCEPT ![i] =
                           [blockno |-> b, valid |-> FALSE, refcnt |-> 1, data |-> buf[i].data]]
  <2>1. CASE \E i \in CachedIn(b) : buf' = [buf EXCEPT ![i].refcnt = buf[i].refcnt + 1]
                                    /\ mine' = [mine EXCEPT ![u] = i]
    BY <2>1 DEF CachedIn
  <2>2. CASE /\ CachedIn(b) = {} /\ \E i \in Buffer : buf[i].refcnt = 0
             /\ buf' = [buf EXCEPT ![Victim] =
                          [blockno |-> b, valid |-> FALSE, refcnt |-> 1, data |-> buf[Victim].data]]
             /\ mine' = [mine EXCEPT ![u] = Victim]
    BY <2>2, VictimUnused
  <2> QED BY <2>1, <2>2 DEF bget
<1>2. stage[u] = "idle" /\ stage' = [stage EXCEPT ![u] = "acquiresleep"]
      /\ UNCHANGED <<lru, owner, platter, newest>>
  BY DEF bget, Go
<1>3. \A w \in User : /\ stage'[w] = IF w = u THEN "acquiresleep" ELSE stage[w]
                      /\ mine'[w] = IF w = u THEN i ELSE mine[w]
  BY <1>1, <1>2 DEF BufTypeOK
<1>4. \A j \in Buffer : j # i => buf'[j] = buf[j]
  BY <1>1 DEF BufTypeOK
<1>5. /\ buf'[i].blockno = b /\ buf'[i].refcnt = buf[i].refcnt + 1
      /\ buf'[i].valid => buf[i].valid /\ buf[i].blockno = b
      /\ buf'[i].data = buf[i].data
  <2>1. CASE i \in CachedIn(b) /\ buf' = [buf EXCEPT ![i].refcnt = buf[i].refcnt + 1]
    BY <2>1 DEF CachedIn, BufTypeOK
  <2>2. CASE buf[i].refcnt = 0 /\ buf' = [buf EXCEPT ![i] =
                           [blockno |-> b, valid |-> FALSE, refcnt |-> 1, data |-> buf[i].data]]
    <3>1. buf'[i] = [blockno |-> b, valid |-> FALSE, refcnt |-> 1, data |-> buf[i].data]
      BY <2>2 DEF BufTypeOK
    <3>2. buf[i] \in [blockno : Sector \cup {NoSector}, valid : BOOLEAN, refcnt : Nat, data : Data]
      BY DEF BufTypeOK
    <3> QED BY <2>2, <3>1, <3>2
  <2> QED BY <1>1, <2>1, <2>2
<1>6. buf[i].blockno = b \/ Users(i) = {}
  BY <1>1 DEF CachedIn
<1>7. \A j \in Buffer : j # i => buf[j].blockno # b
  <2>1. b # NoSector
    BY BufAssumption
  <2> QED BY <1>1, <2>1 DEF CachedIn, OneBufferPerBlock
<1>v. buf[i].blockno = b => buf'[i].valid = buf[i].valid
  BY <1>1 DEF CachedIn, BufTypeOK
<1>8. BufTypeOK'
  <2>0. buf[i] \in [blockno : Sector \cup {NoSector}, valid : BOOLEAN, refcnt : Nat, data : Data]
    BY DEF BufTypeOK
  <2>1. buf'[i] \in [blockno : Sector \cup {NoSector}, valid : BOOLEAN, refcnt : Nat, data : Data]
    <3>1. \/ buf'[i] = [buf[i] EXCEPT !.refcnt = buf[i].refcnt + 1]
          \/ buf'[i] = [blockno |-> b, valid |-> FALSE, refcnt |-> 1, data |-> buf[i].data]
      BY <1>1 DEF BufTypeOK
    <3>2. CASE buf'[i] = [buf[i] EXCEPT !.refcnt = buf[i].refcnt + 1]
      BY <2>0, <3>2
    <3>3. CASE buf'[i] = [blockno |-> b, valid |-> FALSE, refcnt |-> 1, data |-> buf[i].data]
      <4>1. buf[i].data \in Data
        BY <2>0
      <4> QED BY <3>3, <4>1
    <3> QED BY <3>1, <3>2, <3>3
  <2>2. buf' \in [Buffer -> [blockno : Sector \cup {NoSector}, valid : BOOLEAN,
                             refcnt : Nat, data : Data]]
    BY <1>1, <1>4, <2>1 DEF BufTypeOK
  <2>3. mine' \in [User -> Buffer]
    BY <1>1 DEF BufTypeOK
  <2>4. stage' \in [User -> {"idle", "acquiresleep", "asleep", "bread", "reading",
                             "writing", "held", "brelse"}]
    BY <1>2 DEF BufTypeOK
  <2> QED BY <1>2, <2>2, <2>3, <2>4 DEF BufTypeOK
<1>9. RefInv'
  <2>1. /\ IsFiniteSet(Users(i)') /\ Cardinality(Users(i)') = Cardinality(Users(i)) + 1
        /\ \A j \in Buffer : j # i => Users(j)' = Users(j)
    BY <1>1, <1>2, OneMoreUser
  <2> QED BY <1>2, <1>4, <1>5, <2>1 DEF RefInv
<1>10. LockInv' /\ LockSleeperHasHolder'
  BY <1>2, <1>3, BufAssumption DEF LockInv, Locked, LockSleeperHasHolder, BufTypeOK
<1>11. OneBufferPerBlock'
  BY <1>4, <1>5, <1>7 DEF OneBufferPerBlock
<1>12. ContentInv'
  <2>0. \A w \in User : w # u /\ stage[w] # "idle" => mine[w] \in Buffer /\ (mine[w] = i => buf[i].blockno = b)
    BY <1>6 DEF Users, BufTypeOK
  <2>1. \A w \in User : stage'[w] # "idle" => buf'[mine'[w]].blockno \in Sector
    BY <1>3, <1>4, <1>5, <2>0 DEF ContentInv
  <2>2. \A w \in User : stage'[w] \in {"held", "writing"} => buf'[mine'[w]].valid
    BY <1>3, <1>4, <1>v, <2>0 DEF ContentInv
  <2>3. \A j \in Buffer : buf'[j].valid =>
          buf'[j].blockno \in Sector /\ buf'[j].data = newest'[buf'[j].blockno]
    BY <1>2, <1>4, <1>5 DEF ContentInv
  <2>4. ASSUME NEW x \in Sector
        PROVE  \/ platter'[x] = newest'[x]
               \/ \E w \in User : stage'[w] = "writing" /\ buf'[mine'[w]].blockno = x
    <3>1. CASE platter[x] = newest[x]
      BY <1>2, <3>1
    <3>2. CASE \E w \in User : stage[w] = "writing" /\ buf[mine[w]].blockno = x
      <4> PICK w \in User : stage[w] = "writing" /\ buf[mine[w]].blockno = x
        BY <3>2
      <4>1. stage'[w] = "writing" /\ mine'[w] = mine[w] /\ mine[w] \in Buffer
        BY <1>2, <1>3 DEF BufTypeOK
      <4>2. buf'[mine[w]].blockno = x
        BY <1>2, <1>4, <1>5, <2>0
      <4> QED BY <4>1, <4>2
    <3> QED BY <3>1, <3>2 DEF ContentInv
  <2> QED BY <2>1, <2>2, <2>3, <2>4 DEF ContentInv
<1> QED BY <1>8, <1>9, <1>10, <1>11, <1>12

(* Steps that add and drop no reference.                                   *)
LEMMA SameUsers ==
  ASSUME RefInv, lru' = lru, mine' = mine,
         \A w \in User : stage'[w] = "idle" <=> stage[w] = "idle",
         \A j \in Buffer : buf'[j].refcnt = buf[j].refcnt
  PROVE  RefInv'
<1>1. \A j \in Buffer : Users(j)' = Users(j)
  BY DEF Users
<1> QED BY <1>1 DEF RefInv

(* Steps that leave the buffers and the disk alone.                        *)
LEMMA SameData ==
  ASSUME OneBufferPerBlock, ContentInv, UNCHANGED <<buf, mine, platter, newest>>,
         \A w \in User : /\ stage'[w] = "idle" <=> stage[w] = "idle"
                         /\ stage'[w] = "writing" <=> stage[w] = "writing"
                         /\ stage'[w] = "held" => stage[w] = "held" \/ buf[mine[w]].valid
  PROVE  OneBufferPerBlock' /\ ContentInv'
  BY DEF OneBufferPerBlock, ContentInv

(* acquiresleep: the lock is taken, or the user sleeps on its holder.      *)
LEMMA AcquireStep ==
  ASSUME CacheInv, NEW u \in User, acquiresleep(u)
  PROVE  CacheInv'
<1> USE DEF CacheInv
<1>1. UNCHANGED <<buf, lru, platter, mine, newest>> /\ stage[u] = "acquiresleep" /\ mine[u] \in Buffer
  BY DEF acquiresleep, BufTypeOK
<1>2. CASE owner[mine[u]] = NoUser
  <2>1. owner' = [owner EXCEPT ![mine[u]] = u] /\ stage' = [stage EXCEPT ![u] = "bread"]
    BY <1>2 DEF acquiresleep, Go
  <2>2. /\ \A w \in User : stage'[w] = IF w = u THEN "bread" ELSE stage[w]
        /\ \A j \in Buffer : owner'[j] = IF j = mine[u] THEN u ELSE owner[j]
    BY <2>1 DEF BufTypeOK
  <2>3. BufTypeOK'
    BY <1>1, <2>1 DEF BufTypeOK
  <2>4. RefInv'
    BY <1>1, <2>2, SameUsers
  <2>5. OneBufferPerBlock' /\ ContentInv'
    BY <1>1, <2>2, SameData
  <2>6. \A w \in User : stage[w] \in Locked => mine[w] # mine[u]
    BY <1>2, BufAssumption DEF LockInv
  <2>7. \A w \in User : stage'[w] \in Locked => owner'[mine'[w]] = w
    BY <1>1, <2>2, <2>6 DEF LockInv, BufTypeOK
  <2>8. \A j \in Buffer : owner'[j] # NoUser =>
          stage'[owner'[j]] \in Locked /\ mine'[owner'[j]] = j
    BY <1>1, <2>2 DEF LockInv, BufTypeOK, Locked
  <2>9. LockSleeperHasHolder'
    BY <1>1, <2>2, BufAssumption DEF LockSleeperHasHolder, BufTypeOK
  <2> QED BY <2>3, <2>4, <2>5, <2>7, <2>8, <2>9 DEF LockInv
<1>3. CASE owner[mine[u]] # NoUser
  <2>1. owner' = owner /\ stage' = [stage EXCEPT ![u] = "asleep"]
    BY <1>3 DEF acquiresleep, Go
  <2>2. \A w \in User : stage'[w] = IF w = u THEN "asleep" ELSE stage[w]
    BY <2>1 DEF BufTypeOK
  <2>3. BufTypeOK'
    BY <1>1, <2>1 DEF BufTypeOK
  <2>4. RefInv'
    BY <1>1, <2>2, SameUsers
  <2>5. OneBufferPerBlock' /\ ContentInv'
    BY <1>1, <2>2, SameData
  <2>6. \A w \in User : stage'[w] \in Locked => owner'[mine'[w]] = w
    BY <1>1, <2>1, <2>2 DEF LockInv, Locked
  <2>7. \A j \in Buffer : owner'[j] # NoUser =>
          stage'[owner'[j]] \in Locked /\ mine'[owner'[j]] = j
    BY <1>1, <2>1, <2>2 DEF LockInv, BufTypeOK, Locked
  <2>8. LockSleeperHasHolder'
    BY <1>1, <1>3, <2>1, <2>2 DEF LockSleeperHasHolder
  <2> QED BY <2>3, <2>4, <2>5, <2>6, <2>7, <2>8 DEF LockInv
<1> QED BY <1>2, <1>3

(* A user that keeps its sleeplock, in another stage.                      *)
LEMMA SameLocks ==
  ASSUME CacheInv, NEW u \in User, stage[u] \in Locked, stage'[u] \in Locked,
         \A w \in User : w # u => stage'[w] = stage[w], owner' = owner, mine' = mine
  PROVE  /\ \A w \in User : stage'[w] = "idle" <=> stage[w] = "idle"
         /\ \A w \in User : w # u /\ stage[w] \in Locked => mine[w] \in Buffer /\ mine[w] # mine[u]
         /\ LockInv' /\ LockSleeperHasHolder'
<1> USE DEF CacheInv
<1>1. stage'[u] \in Locked => stage'[u] # "idle" /\ stage'[u] # "asleep"
  BY DEF Locked
<1>2. /\ stage'[u] # "idle" /\ stage'[u] # "asleep" /\ stage[u] # "idle"
      /\ mine[u] \in Buffer /\ owner[mine[u]] = u
  BY <1>1 DEF Locked, LockInv, BufTypeOK
<1>3. \A w \in User : w # u /\ stage[w] \in Locked => mine[w] \in Buffer /\ mine[w] # mine[u]
  BY <1>2 DEF LockInv, BufTypeOK
<1>4. LockInv'
  <2>1. \A w \in User : stage'[w] \in Locked <=> stage[w] \in Locked
    OBVIOUS
  <2>2. \A j \in Buffer : owner[j] # NoUser => owner[j] \in User
    BY DEF BufTypeOK
  <2> QED BY <2>1, <2>2 DEF LockInv
<1>5. LockSleeperHasHolder'
  BY <1>2 DEF LockSleeperHasHolder
<1> QED BY <1>2, <1>3, <1>4, <1>5

(* bread: straight to the caller when the buffer is valid.                 *)
LEMMA ReadStep ==
  ASSUME CacheInv, NEW u \in User, bread(u)
  PROVE  CacheInv'
<1> USE DEF CacheInv
<1>1. UNCHANGED <<buf, lru, owner, platter, mine, newest>> /\ stage[u] = "bread" /\ stage[u] \in Locked
  BY DEF bread, Locked
<1>2. PICK s \in {"held", "reading"} : /\ stage' = [stage EXCEPT ![u] = s]
                                       /\ s = "held" => buf[mine[u]].valid
  BY DEF bread, Go
<1>3. s \in Locked /\ owner' = owner /\ mine' = mine
  BY <1>1 DEF Locked
<1>4. \A w \in User : stage'[w] = IF w = u THEN s ELSE stage[w]
  BY <1>2 DEF BufTypeOK
<1>8. /\ \A w \in User : stage'[w] = "idle" <=> stage[w] = "idle"
      /\ LockInv' /\ LockSleeperHasHolder'
  BY <1>1, <1>3, <1>4, SameLocks
<1>5. BufTypeOK'
  BY <1>1, <1>2 DEF BufTypeOK
<1>6. RefInv'
  BY <1>1, <1>8, SameUsers
<1>7. OneBufferPerBlock' /\ ContentInv'
  BY <1>1, <1>2, <1>4, <1>8, SameData
<1> QED BY <1>5, <1>6, <1>7, <1>8

(* bwrite: new contents, on their way to the disk.                         *)
LEMMA WriteStep ==
  ASSUME CacheInv, NEW u \in User, NEW v \in Data, bwrite(u, v)
  PROVE  CacheInv'
<1> USE DEF CacheInv
<1>i. PICK i \in Buffer : i = mine[u]
  BY DEF BufTypeOK
<1>0. PICK s : i = mine[u] /\ s = buf[i].blockno
  BY <1>i
<1>1. /\ UNCHANGED <<lru, owner, platter, mine>> /\ stage[u] = "held" /\ stage[u] \in Locked
      /\ "writing" \in Locked /\ stage' = [stage EXCEPT ![u] = "writing"]
      /\ buf' = [buf EXCEPT ![i].data = v] /\ newest' = [newest EXCEPT ![s] = v]
  BY <1>0 DEF bwrite, Locked, Go
<1>a. \A w \in User : stage'[w] = IF w = u THEN "writing" ELSE stage[w]
  BY <1>1 DEF BufTypeOK
<1>2. /\ \A w \in User : stage'[w] = IF w = u THEN "writing" ELSE stage[w]
      /\ \A w \in User : stage'[w] = "idle" <=> stage[w] = "idle"
      /\ LockInv' /\ LockSleeperHasHolder'
  BY <1>1, <1>a, SameLocks
<1>3. s \in Sector /\ buf[i].valid
  BY <1>0, <1>1 DEF ContentInv
<1>4. /\ \A j \in Buffer : /\ buf'[j].blockno = buf[j].blockno /\ buf'[j].valid = buf[j].valid
                           /\ buf'[j].refcnt = buf[j].refcnt
                           /\ buf'[j].data = IF j = i THEN v ELSE buf[j].data
      /\ \A x \in Sector : newest'[x] = IF x = s THEN v ELSE newest[x]
  BY <1>0, <1>1, <1>2, <1>3 DEF BufTypeOK
<1>5. BufTypeOK'
  <2>1. buf' \in [Buffer -> [blockno : Sector \cup {NoSector}, valid : BOOLEAN,
                             refcnt : Nat, data : Data]]
    BY <1>1 DEF BufTypeOK
  <2>2. newest' \in [Sector -> Data]
    BY <1>1 DEF BufTypeOK
  <2> QED BY <1>1, <2>1, <2>2 DEF BufTypeOK
<1>6. RefInv'
  BY <1>1, <1>2, <1>4, SameUsers
<1>7. OneBufferPerBlock'
  BY <1>0, <1>4 DEF OneBufferPerBlock
<1>8. ContentInv'
  <2>0. \A w \in User : mine[w] \in Buffer /\ mine'[w] = mine[w]
    BY <1>0, <1>1 DEF BufTypeOK
  <2>1. \A w \in User : stage'[w] # "idle" => buf'[mine'[w]].blockno \in Sector
    BY <1>0, <1>2, <1>4, <2>0 DEF ContentInv
  <2>2. \A w \in User : stage'[w] \in {"held", "writing"} => buf'[mine'[w]].valid
    BY <1>0, <1>2, <1>3, <1>4, <2>0 DEF ContentInv
  <2>3. \A j \in Buffer : buf'[j].valid =>
          buf'[j].blockno \in Sector /\ buf'[j].data = newest'[buf'[j].blockno]
    <3>1. \A j \in Buffer : j # i => buf[j].blockno # s
      BY <1>0, <1>2, <1>3, BufAssumption DEF OneBufferPerBlock
    <3> QED BY <1>0, <1>2, <1>3, <1>4, <3>1 DEF ContentInv
  <2>4. \A x \in Sector : \/ platter'[x] = newest'[x]
                          \/ \E w \in User : stage'[w] = "writing" /\ buf'[mine'[w]].blockno = x
    <3> TAKE x \in Sector
    <3>1. CASE x = s
      <4>1. stage'[u] = "writing" /\ buf'[mine'[u]].blockno = s
        BY <1>0, <1>2, <1>4, <2>0
      <4> QED BY <3>1, <4>1
    <3>2. CASE x # s /\ platter[x] = newest[x]
      BY <1>0, <1>1, <1>4, <3>2
    <3>3. CASE x # s /\ \E w \in User : stage[w] = "writing" /\ buf[mine[w]].blockno = x
      BY <1>0, <1>2, <1>4, <2>0, <3>3
    <3> QED BY <3>1, <3>2, <3>3 DEF ContentInv
  <2> QED BY <2>1, <2>2, <2>3, <2>4 DEF ContentInv
<1> QED BY <1>0, <1>2, <1>5, <1>6, <1>7, <1>8

(* virtio_disk_rw: contents move between the buffer and the disk.          *)
LEMMA TransferStep ==
  ASSUME CacheInv, NEW u \in User, Transfer(u)
  PROVE  CacheInv'
<1> USE DEF CacheInv
<1>i. PICK i \in Buffer : i = mine[u]
  BY DEF BufTypeOK
<1>0. PICK s : i = mine[u] /\ s = buf[i].blockno
  BY <1>i
<1>1. /\ UNCHANGED <<lru, owner, mine, newest>> /\ stage[u] \in {"reading", "writing"}
      /\ stage[u] \in Locked /\ "held" \in Locked /\ stage' = [stage EXCEPT ![u] = "held"]
  BY <1>0 DEF Transfer, Locked, Go
<1>a. \A w \in User : stage'[w] = IF w = u THEN "held" ELSE stage[w]
  BY <1>1 DEF BufTypeOK
<1>2. /\ \A w \in User : stage'[w] = IF w = u THEN "held" ELSE stage[w]
      /\ \A w \in User : stage'[w] = "idle" <=> stage[w] = "idle"
      /\ \A w \in User : w # u /\ stage[w] \in Locked => mine[w] \in Buffer /\ mine[w] # i
      /\ LockInv' /\ LockSleeperHasHolder'
  BY <1>0, <1>1, <1>a, SameLocks
<1>3. s \in Sector /\ \A j \in Buffer : j # i => buf[j].blockno # s
  <2>1. s \in Sector
    BY <1>0, <1>1 DEF ContentInv
  <2> QED BY <1>0, <1>2, <2>1, BufAssumption DEF OneBufferPerBlock
<1>4. \A w \in User : w # u /\ stage[w] = "writing" => buf[mine[w]].blockno # s
  BY <1>0, <1>2, <1>3 DEF Locked
<1>5. CASE stage[u] = "reading"
  <2>1. buf' = [buf EXCEPT ![i].data = platter[s], ![i].valid = TRUE] /\ platter' = platter
    BY <1>0, <1>5 DEF Transfer
  <2>2. platter[s] = newest[s]
    BY <1>0, <1>3, <1>4, <1>5 DEF ContentInv
  <2>3. \A j \in Buffer : /\ buf'[j].blockno = buf[j].blockno /\ buf'[j].refcnt = buf[j].refcnt
                          /\ buf'[j].valid <=> j = i \/ buf[j].valid
                          /\ buf'[j].data = IF j = i THEN newest[s] ELSE buf[j].data
    <3>1. \A j \in Buffer : j # i => buf'[j] = buf[j]
      BY <2>1 DEF BufTypeOK
    <3>2. buf[i] \in [blockno : Sector \cup {NoSector}, valid : BOOLEAN, refcnt : Nat, data : Data]
      BY DEF BufTypeOK
    <3>3. buf'[i] = [[buf[i] EXCEPT !.data = platter[s]] EXCEPT !.valid = TRUE]
      BY <2>1 DEF BufTypeOK
    <3> QED BY <2>2, <3>1, <3>2, <3>3
  <2>4. BufTypeOK'
    <3>1. platter[s] \in Data
      BY <1>3 DEF BufTypeOK
    <3>2. buf' = [[buf EXCEPT ![i].data = platter[s]] EXCEPT ![i].valid = TRUE]
      BY <2>1
    <3>3. [buf EXCEPT ![i].data = platter[s]] \in
            [Buffer -> [blockno : Sector \cup {NoSector}, valid : BOOLEAN, refcnt : Nat, data : Data]]
      BY <3>1 DEF BufTypeOK
    <3>4. buf' \in [Buffer -> [blockno : Sector \cup {NoSector}, valid : BOOLEAN,
                               refcnt : Nat, data : Data]]
      BY <3>2, <3>3
    <3> QED BY <1>1, <2>1, <3>4 DEF BufTypeOK
  <2>5. RefInv'
    BY <1>0, <1>1, <1>2, <2>3, SameUsers
  <2>6. OneBufferPerBlock'
    BY <2>3 DEF OneBufferPerBlock
  <2>7. ContentInv'
    <3>0. \A w \in User : mine[w] \in Buffer /\ mine'[w] = mine[w]
      BY <1>0, <1>1 DEF BufTypeOK
    <3>1. \A w \in User : stage'[w] # "idle" => buf'[mine'[w]].blockno \in Sector
      BY <1>0, <1>2, <2>3, <3>0 DEF ContentInv
    <3>2. \A w \in User : stage'[w] \in {"held", "writing"} => buf'[mine'[w]].valid
      BY <1>0, <1>2, <2>3, <3>0 DEF ContentInv
    <3>3. \A j \in Buffer : buf'[j].valid =>
            buf'[j].blockno \in Sector /\ buf'[j].data = newest'[buf'[j].blockno]
      BY <1>0, <1>1, <1>2, <1>3, <2>3 DEF ContentInv
    <3>4. ASSUME NEW x \in Sector
          PROVE  \/ platter'[x] = newest'[x]
                 \/ \E w \in User : stage'[w] = "writing" /\ buf'[mine'[w]].blockno = x
      <4>1. CASE platter[x] = newest[x]
        BY <1>1, <2>1, <4>1
      <4>2. CASE \E w \in User : stage[w] = "writing" /\ buf[mine[w]].blockno = x
        BY <1>2, <1>5, <2>3, <3>0, <4>2
      <4> QED BY <4>1, <4>2 DEF ContentInv
    <3> QED BY <3>1, <3>2, <3>3, <3>4 DEF ContentInv
  <2> QED BY <1>0, <1>2, <2>4, <2>5, <2>6, <2>7
<1>6. CASE stage[u] = "writing"
  <2>1. platter' = [platter EXCEPT ![s] = buf[i].data] /\ buf' = buf
    BY <1>0, <1>6 DEF Transfer
  <2>2. buf[i].valid /\ buf[i].data = newest[s] /\ buf[i].data \in Data
    BY <1>0, <1>2, <1>6 DEF ContentInv, BufTypeOK
  <2>3. \A x \in Sector : platter'[x] = IF x = s THEN newest[s] ELSE platter[x]
    BY <1>0, <1>3, <2>1, <2>2 DEF BufTypeOK
  <2>4. BufTypeOK'
    BY <1>0, <1>1, <1>3, <2>1, <2>2 DEF BufTypeOK
  <2>5. RefInv'
    BY <1>0, <1>1, <1>2, <2>1, SameUsers
  <2>6. OneBufferPerBlock'
    BY <2>1 DEF OneBufferPerBlock
  <2>7. ContentInv'
    <3>0. \A w \in User : mine'[w] = mine[w]
      BY <1>0, <1>1
    <3>2. \A w \in User : stage'[w] \in {"held", "writing"} => buf'[mine'[w]].valid
      BY <1>0, <1>2, <2>1, <2>2, <3>0 DEF ContentInv
    <3>4. ASSUME NEW x \in Sector
          PROVE  \/ platter'[x] = newest'[x]
                 \/ \E w \in User : stage'[w] = "writing" /\ buf'[mine'[w]].blockno = x
      <4>1. CASE x = s
        BY <1>0, <1>1, <2>3, <4>1
      <4>2. CASE x # s /\ platter[x] = newest[x]
        BY <1>0, <1>1, <2>3, <4>2
      <4>3. CASE x # s /\ \E w \in User : stage[w] = "writing" /\ buf[mine[w]].blockno = x
        <5> PICK w \in User : stage[w] = "writing" /\ buf[mine[w]].blockno = x
          BY <4>3
        <5>1. w # u
          BY <1>0, <4>3
        <5> QED BY <1>0, <1>2, <2>1, <3>0, <5>1
      <4> QED BY <4>1, <4>2, <4>3 DEF ContentInv
    <3> QED BY <1>0, <1>1, <1>2, <2>1, <3>0, <3>2, <3>4 DEF ContentInv
  <2> QED BY <1>0, <1>2, <2>4, <2>5, <2>6, <2>7
<1> QED BY <1>0, <1>1, <1>5, <1>6

(* releasesleep: the lock is free, and those asleep on it look again.      *)
LEMMA ReleaseStep ==
  ASSUME CacheInv, NEW u \in User, releasesleep(u)
  PROVE  CacheInv'
<1> USE DEF CacheInv
<1>1. /\ UNCHANGED <<buf, lru, platter, mine, newest>> /\ stage[u] = "held" /\ mine[u] \in Buffer
      /\ owner' = [owner EXCEPT ![mine[u]] = NoUser]
  BY DEF releasesleep, BufTypeOK
<1>2. \A w \in User : stage'[w] = IF w = u THEN "brelse"
                                  ELSE IF stage[w] = "asleep" /\ mine[w] = mine[u] THEN "acquiresleep"
                                  ELSE stage[w]
  BY DEF releasesleep
<1>3. \A j \in Buffer : owner'[j] = IF j = mine[u] THEN NoUser ELSE owner[j]
  BY <1>1 DEF BufTypeOK
<1>4. BufTypeOK'
  <2>1. stage' = [w \in User |-> stage'[w]]
    BY DEF releasesleep
  <2>2. stage' \in [User -> {"idle", "acquiresleep", "asleep", "bread", "reading",
                             "writing", "held", "brelse"}]
    BY <1>2, <2>1 DEF BufTypeOK
  <2>3. owner' \in [Buffer -> User \cup {NoUser}]
    BY <1>1 DEF BufTypeOK
  <2> QED BY <1>1, <2>2, <2>3 DEF BufTypeOK
<1>5. \A w \in User : /\ stage'[w] = "idle" <=> stage[w] = "idle"
                      /\ stage'[w] = "writing" <=> stage[w] = "writing"
                      /\ stage'[w] = "held" => stage[w] = "held"
  BY <1>1, <1>2
<1>6. RefInv'
  BY <1>1, <1>5, SameUsers
<1>7. OneBufferPerBlock' /\ ContentInv'
  BY <1>1, <1>5, SameData
<1>8. owner[mine[u]] = u
  BY <1>1 DEF LockInv, Locked
<1>9. \A w \in User : stage'[w] \in Locked => stage[w] \in Locked /\ w # u
  BY <1>2 DEF Locked
<1>10. \A w \in User : stage'[w] \in Locked => owner'[mine'[w]] = w
  BY <1>1, <1>3, <1>8, <1>9 DEF LockInv, BufTypeOK
<1>11. \A j \in Buffer : owner'[j] # NoUser =>
         stage'[owner'[j]] \in Locked /\ mine'[owner'[j]] = j
  BY <1>1, <1>2, <1>3 DEF LockInv, BufTypeOK, Locked
<1>12. LockSleeperHasHolder'
  BY <1>1, <1>2, <1>3 DEF LockSleeperHasHolder, BufTypeOK
<1> QED BY <1>4, <1>6, <1>7, <1>10, <1>11, <1>12 DEF LockInv

(* brelse: the reference goes, and the buffer is the most recently used.   *)
LEMMA DropStep ==
  ASSUME CacheInv, NEW u \in User, brelse(u)
  PROVE  CacheInv'
<1> USE DEF CacheInv
<1>0. PICK i \in Buffer : i = mine[u]
  BY DEF BufTypeOK
<1>1. /\ UNCHANGED <<owner, platter, mine, newest>> /\ stage[u] = "brelse" /\ i \in Buffer
      /\ stage' = [stage EXCEPT ![u] = "idle"]
      /\ buf' = [buf EXCEPT ![i].refcnt = buf[i].refcnt - 1]
      /\ lru' = UsedLast(i) \/ lru' = lru
  BY <1>0 DEF brelse, Go, BufTypeOK
<1>2. \A w \in User : stage'[w] = IF w = u THEN "idle" ELSE stage[w]
  BY <1>0, <1>1 DEF BufTypeOK
<1>3. \A j \in Buffer : /\ buf'[j].blockno = buf[j].blockno /\ buf'[j].valid = buf[j].valid
                        /\ buf'[j].data = buf[j].data
                        /\ buf'[j].refcnt = IF j = i THEN buf[i].refcnt - 1 ELSE buf[j].refcnt
  BY <1>0, <1>1 DEF BufTypeOK
<1>4. Users(i)' = Users(i) \ {u} /\ u \in Users(i) /\ \A j \in Buffer : j # i => Users(j)' = Users(j)
  BY <1>0, <1>1, <1>2 DEF Users
<1>5. /\ IsFiniteSet(Users(i) \ {u}) /\ Cardinality(Users(i) \ {u}) = Cardinality(Users(i)) - 1
      /\ Cardinality(Users(i) \ {u}) \in Nat /\ buf[i].refcnt = Cardinality(Users(i))
  BY <1>0, <1>1, <1>4, FS_RemoveElement, FS_CardinalityType DEF RefInv
<1>6. lru' \in [Buffer -> Buffer] /\ \A j \in Buffer : \E n \in Buffer : lru'[n] = j
  <2>1. CASE lru' = lru
    BY <2>1 DEF BufTypeOK, RefInv
  <2>2. CASE lru' = UsedLast(i)
    <3> HIDE DEF CacheInv
    <3> QED BY <2>2, UsedLastKeeps
  <2> QED BY <1>1, <2>1, <2>2
<1>7. BufTypeOK'
  <2>1. buf[i].refcnt - 1 \in Nat
    BY <1>0, <1>5
  <2>2. buf' \in [Buffer -> [blockno : Sector \cup {NoSector}, valid : BOOLEAN,
                             refcnt : Nat, data : Data]]
    BY <1>0, <1>1, <2>1 DEF BufTypeOK
  <2> QED BY <1>0, <1>1, <1>6, <2>2 DEF BufTypeOK
<1>8. RefInv'
  <2>1. ASSUME NEW j \in Buffer
        PROVE  IsFiniteSet(Users(j)') /\ buf'[j].refcnt = Cardinality(Users(j)')
    <3>1. CASE j = i
      BY <1>0, <1>1, <1>3, <1>4, <1>5, <3>1
    <3>2. CASE j # i
      BY <1>0, <1>3, <1>4, <3>2 DEF RefInv
    <3> QED BY <3>1, <3>2
  <2> QED BY <1>0, <1>6, <2>1 DEF RefInv
<1>9. OneBufferPerBlock'
  BY <1>0, <1>3 DEF OneBufferPerBlock
<1>10. ContentInv'
  <2>0. \A w \in User : mine[w] \in Buffer /\ mine'[w] = mine[w]
    BY <1>0, <1>1 DEF BufTypeOK
  <2>1. \A w \in User : stage'[w] # "idle" => buf'[mine'[w]].blockno \in Sector
    BY <1>0, <1>2, <1>3, <2>0 DEF ContentInv
  <2>2. \A w \in User : stage'[w] \in {"held", "writing"} => buf'[mine'[w]].valid
    BY <1>0, <1>2, <1>3, <2>0 DEF ContentInv
  <2>3. \A j \in Buffer : buf'[j].valid =>
          buf'[j].blockno \in Sector /\ buf'[j].data = newest'[buf'[j].blockno]
    BY <1>0, <1>1, <1>3 DEF ContentInv
  <2>4. \A x \in Sector : \/ platter'[x] = newest'[x]
                          \/ \E w \in User : stage'[w] = "writing" /\ buf'[mine'[w]].blockno = x
    BY <1>0, <1>1, <1>2, <1>3, <2>0 DEF ContentInv
  <2> QED BY <2>1, <2>2, <2>3, <2>4 DEF ContentInv
<1>11. LockInv' /\ LockSleeperHasHolder'
  <2>1. \A w \in User : stage'[w] \in Locked => owner'[mine'[w]] = w
    BY <1>0, <1>1, <1>2 DEF LockInv, Locked
  <2>2. \A j \in Buffer : owner'[j] # NoUser =>
          stage'[owner'[j]] \in Locked /\ mine'[owner'[j]] = j
    BY <1>0, <1>1, <1>2 DEF LockInv, BufTypeOK, Locked
  <2>3. LockSleeperHasHolder'
    BY <1>0, <1>1, <1>2 DEF LockSleeperHasHolder
  <2> QED BY <2>1, <2>2, <2>3 DEF LockInv
<1> QED BY <1>0, <1>7, <1>8, <1>9, <1>10, <1>11

(* The invariant holds in every reachable state.                           *)
LEMMA CacheInvariance == BufSpec => []CacheInv
<1>1. ASSUME CacheInv, UNCHANGED bufVars PROVE CacheInv'
  <2>1. \A i \in Buffer : Users(i)' = Users(i)
    BY <1>1 DEF Users, bufVars
  <2> QED BY <1>1, <2>1 DEF CacheInv, BufTypeOK, RefInv, LockInv, OneBufferPerBlock,
                            ContentInv, LockSleeperHasHolder, bufVars
<1>2. CacheInv /\ [BufNext]_bufVars => CacheInv'
  BY <1>1, GetStep, AcquireStep, ReadStep, WriteStep, TransferStep, ReleaseStep, DropStep
     DEF BufNext
<1> QED BY <1>2, CacheInit, PTL DEF BufSpec

(* What bio.c and sleeplock.c keep for any number of users: a block is in  *)
(* one buffer (bget), its holder works on it alone and on its last         *)
(* contents (bread, brelse), a reference count never drops below zero, and *)
(* a user asleep on a sleeplock has a holder to wake it.                   *)
THEOREM BufCorrect == BufSpec => []BufInv
<1>1. CacheInv => HeldIsCurrent
  BY DEF CacheInv, LockInv, ContentInv, HeldIsCurrent, Locked, BufTypeOK
<1>2. CacheInv => BufInv
  BY <1>1 DEF CacheInv, BufInv
<1> QED BY <1>2, CacheInvariance, PTL

-----------------------------------------------------------------------------
(***************************************************************************)
(* The contents of files.  The places of an inode where a block number     *)
(* stands: 0 .. NDIRECT in the inode, the last one that of the indirect    *)
(* block, and the cells of that after it.                                  *)
(***************************************************************************)
Slots == 0 .. NDIRECT + BSIZE
BlockAt(a, c, i, k) ==
  IF k <= NDIRECT THEN a[i][k]
  ELSE IF a[i][NDIRECT] = 0 THEN 0 ELSE c[a[i][NDIRECT]][k - NDIRECT - 1]

(* Where bmap finds the block bn of a file.                                *)
SlotOf(bn) == IF bn < NDIRECT THEN bn ELSE bn + 1

Cells == 0 .. BSIZE - 1
DiskTypes(used, a, c) ==
  /\ used \subseteq DataBlock
  /\ a \in [Inode -> [0 .. NDIRECT -> DataBlock \cup {0}]]
  /\ c \in [DataBlock -> [Cells -> Int]]
  /\ \A i \in Inode : a[i][NDIRECT] # 0 => c[a[i][NDIRECT]] \in [Cells -> DataBlock \cup {0}]

(* A block is in use exactly if it stands somewhere, and at one place.     *)
Owned(used, a, c) ==
  /\ \A i \in Inode, k \in Slots : BlockAt(a, c, i, k) # 0 => BlockAt(a, c, i, k) \in used
  /\ \A b \in used : \E i \in Inode, k \in Slots : BlockAt(a, c, i, k) = b
  /\ \A i, j \in Inode, k, l \in Slots :
       BlockAt(a, c, i, k) # 0 /\ BlockAt(a, c, i, k) = BlockAt(a, c, j, l) => i = j /\ k = l

Limit == MAXFILE * BSIZE
Held(w) == wr[w].at \in {"loop", "end"}
FileTypes ==
  /\ size \in [Inode -> 0 .. Limit] /\ offset \in [Inode -> 0 .. Limit] /\ told = size
  /\ wr \in [Writer -> [at : {"idle", "next", "loop", "end"}, ip : Inode \cup {0},
                        left : Nat, n : Nat, off : Nat, tot : Nat]]
  /\ touched \in [Writer -> SUBSET ({"bitmap", "block"} \X DataBlock)]

(* A chunk that has begun is within the file's limit and has come as far   *)
(* as tot says; it has its inode to itself.                                *)
ChunkOK(w) ==
  /\ wr[w].at = "idle" <=> wr[w].ip = 0
  /\ Held(w) =>
       /\ wr[w].n <= ChunkMax /\ wr[w].n <= wr[w].left /\ wr[w].tot <= wr[w].n
       /\ offset[wr[w].ip] <= size[wr[w].ip]
       /\ wr[w].off = offset[wr[w].ip] + wr[w].tot
       /\ offset[wr[w].ip] + wr[w].n <= Limit
  /\ ~Held(w) => touched[w] = {}
ChunkInv ==
  /\ \A w \in Writer : ChunkOK(w)
  /\ \A v, w \in Writer : v # w /\ Held(v) /\ Held(w) => wr[v].ip # wr[w].ip

(* Byte o of inode i is where a read looks for it.                         *)
Good(a, c, i, o) ==
  LET b == BlockAt(a, c, i, SlotOf(o \div BSIZE)) IN
  b # 0 /\ c[b][o % BSIZE] = ByteOf(i, o)

(* So is every byte below the size, and every byte a chunk has copied.     *)
BytesInv ==
  /\ \A i \in Inode : \A o \in 0 .. size[i] - 1 : Good(addrs, cells, i, o)
  /\ \A w \in Writer : Held(w) =>
       \A o \in offset[wr[w].ip] .. wr[w].off - 1 : Good(addrs, cells, wr[w].ip, o)

(* What a transaction has logged: at most two blocks for each block of the *)
(* chunk, one for a first block that it shares, and the indirect one's.    *)
ChunkBlocks == (TxBlocks - 4) \div 2
TopLog(i) == {"bitmap", "block"} \X {addrs[i][NDIRECT]}
Logged(w) == Cardinality(touched[w] \ TopLog(wr[w].ip))
Shared(w) == IF offset[wr[w].ip] % BSIZE = 0 THEN 0 ELSE 1
Reach(w)  == (offset[wr[w].ip] % BSIZE) + wr[w].tot
LogOK(w) ==
  /\ wr[w].at = "end" => Logged(w) <= 2 * ChunkBlocks + Shared(w)
  /\ wr[w].at = "loop" =>
       \/ wr[w].tot = 0 /\ Logged(w) = 0
       \/ \E p \in Nat \ {0} :
            /\ Logged(w) <= 2 * p - Shared(w)
            /\ (p - 1) * BSIZE < Reach(w) /\ Reach(w) <= p * BSIZE
            /\ wr[w].tot < wr[w].n => Reach(w) = p * BSIZE
ChunkLogInv == \A w \in Writer : LogOK(w)

FileIInv == DiskTypes(bitmap, addrs, cells) /\ Owned(bitmap, addrs, cells)
            /\ FileTypes /\ ChunkInv /\ BytesInv /\ ChunkLogInv

-----------------------------------------------------------------------------
(* A place holds a block number or nothing.                                *)
LEMMA PlaceTyped ==
  ASSUME NEW u, NEW a, NEW c, DiskTypes(u, a, c), NEW i \in Inode, NEW k \in Slots
  PROVE  BlockAt(a, c, i, k) \in DataBlock \cup {0}
<1> USE FileDataAssumption DEF DiskTypes
<1>1. CASE k <= NDIRECT
  <2>1. k \in 0 .. NDIRECT
    BY <1>1 DEF Slots
  <2> QED BY <1>1, <2>1 DEF BlockAt
<1>2. CASE ~(k <= NDIRECT)
  <2>1. k - NDIRECT - 1 \in Cells
    BY <1>2 DEF Slots, Cells
  <2> QED BY <1>2, <2>1 DEF BlockAt
<1> QED BY <1>1, <1>2

(* Block b stands at place k of inode i, the other places are as before.   *)
Filled(a, c, a2, c2, i, k, b) ==
  \A j \in Inode, l \in Slots :
    BlockAt(a2, c2, j, l) = IF j = i /\ l = k THEN b ELSE BlockAt(a, c, j, l)

(* A free block put at an empty place has that place only.                 *)
LEMMA Extend ==
  ASSUME NEW u, NEW a, NEW c, NEW a2, NEW c2, DiskTypes(u, a, c), Owned(u, a, c),
         NEW i \in Inode, NEW k \in Slots, NEW b \in DataBlock, b \notin u,
         BlockAt(a, c, i, k) = 0, Filled(a, c, a2, c2, i, k, b)
  PROVE  Owned(u \cup {b}, a2, c2)
<1> USE DEF Filled
<1>0. b # 0
  BY FileDataAssumption DEF DataBlock
<1>1. \A j \in Inode, l \in Slots : BlockAt(a2, c2, j, l) # 0 => BlockAt(a2, c2, j, l) \in u \cup {b}
  BY DEF Owned
<1>2. ASSUME NEW d \in u \cup {b} PROVE \E j \in Inode, l \in Slots : BlockAt(a2, c2, j, l) = d
  <2>1. CASE d = b
    BY <2>1
  <2>2. CASE d # b
    <3>1. d \in u
      BY <2>2
    <3>2. PICK j \in Inode, l \in Slots : BlockAt(a, c, j, l) = d
      BY <3>1 DEF Owned
    <3>3. d # 0
      BY <3>1, FileDataAssumption DEF DiskTypes, DataBlock
    <3>4. ~(j = i /\ l = k)
      BY <3>2, <3>3
    <3> QED BY <3>2, <3>4
  <2> QED BY <2>1, <2>2
<1>3. ASSUME NEW j \in Inode, NEW m \in Inode, NEW l \in Slots, NEW n \in Slots,
             BlockAt(a2, c2, j, l) # 0, BlockAt(a2, c2, j, l) = BlockAt(a2, c2, m, n)
      PROVE  j = m /\ l = n
  <2>1. \A q \in Inode, s \in Slots : BlockAt(a, c, q, s) # b
    BY <1>0 DEF Owned
  <2>2. CASE j = i /\ l = k
    BY <1>3, <2>1, <2>2
  <2>3. CASE m = i /\ n = k
    BY <1>3, <2>1, <2>3
  <2>4. CASE ~(j = i /\ l = k) /\ ~(m = i /\ n = k)
    BY <1>3, <2>4 DEF Owned
  <2> QED BY <2>2, <2>3, <2>4
<1> QED BY <1>1, <1>2, <1>3 DEF Owned

(* What an allocation for inode i leaves alone.                            *)
Ext(u, a, c, u2, a2, c2, i) ==
  /\ u \subseteq u2
  /\ \A j \in Inode, k \in Slots : BlockAt(a, c, j, k) # 0 => BlockAt(a2, c2, j, k) = BlockAt(a, c, j, k)
  /\ \A b \in u : b # a[i][NDIRECT] => c2[b] = c[b]
  /\ \A j \in Inode : j # i => a2[j] = a[j]

(* The updates DirectMap and IndirectMap make.                             *)
DirectFill(u, a, c, a2, c2, i, k, b) ==
  /\ k \in 0 .. NDIRECT /\ a[i][k] = 0 /\ b \in DataBlock \ u
  /\ a2 = [a EXCEPT ![i] = [a[i] EXCEPT ![k] = b]] /\ c2 = [c EXCEPT ![b] = Zeroed]
IndirectFill(a, c, c2, i, m, b) ==
  /\ c2 \in [DataBlock -> [Cells -> Int]]
  /\ c2[a[i][NDIRECT]] = [c[a[i][NDIRECT]] EXCEPT ![m] = b]
  /\ \A d \in DataBlock : d # b /\ d # a[i][NDIRECT] => c2[d] = c[d]

(* A free block for a direct place or for the indirect block.              *)
LEMMA FillDirect ==
  ASSUME NEW u, NEW a, NEW c, DiskTypes(u, a, c), Owned(u, a, c),
         NEW i \in Inode, NEW k, NEW b, NEW a2, NEW c2, DirectFill(u, a, c, a2, c2, i, k, b)
  PROVE  /\ DiskTypes(u \cup {b}, a2, c2) /\ Owned(u \cup {b}, a2, c2)
         /\ Ext(u, a, c, u \cup {b}, a2, c2, i) /\ a2[i][k] = b
<1> USE FileDataAssumption
<1>a. a2 = [a EXCEPT ![i] = [a[i] EXCEPT ![k] = b]] /\ c2 = [c EXCEPT ![b] = Zeroed]
      /\ k \in 0 .. NDIRECT /\ a[i][k] = 0 /\ b \in DataBlock /\ b \notin u
  BY DEF DirectFill
<1> USE <1>a
<1>0. b # 0 /\ NDIRECT \in 0 .. NDIRECT /\ NDIRECT \in Slots /\ k \in Slots
  BY DEF DataBlock, Slots
<1>1. a[i] \in [0 .. NDIRECT -> DataBlock \cup {0}] /\ a \in [Inode -> [0 .. NDIRECT -> DataBlock \cup {0}]]
      /\ c \in [DataBlock -> [Cells -> Int]]
  BY DEF DiskTypes
<1>2. /\ a2[i] = [a[i] EXCEPT ![k] = b] /\ \A j \in Inode : j # i => a2[j] = a[j]
      /\ \A l \in 0 .. NDIRECT : a2[i][l] = IF l = k THEN b ELSE a[i][l]
      /\ a2 \in [Inode -> [0 .. NDIRECT -> DataBlock \cup {0}]]
  BY <1>1, <1>a
<1>3. Zeroed \in [Cells -> Int] /\ Zeroed \in [Cells -> DataBlock \cup {0}] /\ \A m \in Cells : Zeroed[m] = 0
  BY DEF Zeroed, Cells
<1>4. /\ c2 \in [DataBlock -> [Cells -> Int]] /\ c2[b] = Zeroed
      /\ \A d \in DataBlock : d # b => c2[d] = c[d]
  BY <1>1, <1>3, <1>a
<1>5. ASSUME NEW j \in Inode, a[j][NDIRECT] # 0
      PROVE  a[j][NDIRECT] \in u /\ a[j][NDIRECT] # b /\ c2[a[j][NDIRECT]] = c[a[j][NDIRECT]]
  <2>1. BlockAt(a, c, j, NDIRECT) = a[j][NDIRECT]
    BY DEF BlockAt
  <2>2. a[j][NDIRECT] \in u
    BY <1>0, <1>5, <2>1 DEF Owned
  <2> QED BY <1>4, <2>2 DEF DiskTypes
<1>6. DiskTypes(u \cup {b}, a2, c2)
  <2>1. ASSUME NEW j \in Inode, a2[j][NDIRECT] # 0
        PROVE  c2[a2[j][NDIRECT]] \in [Cells -> DataBlock \cup {0}]
    <3>1. CASE a2[j][NDIRECT] = a[j][NDIRECT]
      BY <1>5, <2>1, <3>1 DEF DiskTypes
    <3>2. CASE a2[j][NDIRECT] # a[j][NDIRECT]
      BY <1>0, <1>2, <1>3, <1>4, <3>2
    <3> QED BY <3>1, <3>2
  <2> QED BY <1>2, <1>4, <2>1 DEF DiskTypes
<1>7. ASSUME NEW j \in Inode, NEW l \in Slots
      PROVE  BlockAt(a2, c2, j, l) = IF j = i /\ l = k THEN b ELSE BlockAt(a, c, j, l)
  <2>1. CASE l <= NDIRECT
    <3>1. l \in 0 .. NDIRECT
      BY <2>1 DEF Slots
    <3> QED BY <1>2, <2>1, <3>1 DEF BlockAt
  <2>2. CASE ~(l <= NDIRECT)
    <3>0. l - NDIRECT - 1 \in Cells /\ l # k
      BY <2>2 DEF Slots, Cells
    <3>1. CASE a2[j][NDIRECT] = a[j][NDIRECT]
      BY <1>5, <2>2, <3>0, <3>1 DEF BlockAt
    <3>2. CASE a2[j][NDIRECT] # a[j][NDIRECT]
      <4>1. j = i /\ k = NDIRECT /\ a2[j][NDIRECT] = b /\ a[j][NDIRECT] = 0
        BY <1>0, <1>2, <3>2
      <4>2. BlockAt(a, c, j, l) = 0
        BY <2>2, <4>1 DEF BlockAt
      <4>3. BlockAt(a2, c2, j, l) = c2[b][l - NDIRECT - 1]
        BY <1>0, <2>2, <4>1 DEF BlockAt
      <4> QED BY <1>3, <1>4, <3>0, <4>2, <4>3
    <3> QED BY <3>1, <3>2
  <2> QED BY <2>1, <2>2
<1>8. BlockAt(a, c, i, k) = 0
  BY DEF BlockAt
<1>9. Owned(u \cup {b}, a2, c2)
  <2>1. Filled(a, c, a2, c2, i, k, b)
    BY <1>7 DEF Filled
  <2>2. k \in Slots
    BY <1>0
  <2> QED BY <1>8, <2>1, <2>2, Extend
<1>10. Ext(u, a, c, u \cup {b}, a2, c2, i)
  <2>1. \A j \in Inode, l \in Slots : BlockAt(a, c, j, l) # 0 => BlockAt(a2, c2, j, l) = BlockAt(a, c, j, l)
    BY <1>7, <1>8
  <2>2. \A d \in u : c2[d] = c[d]
    BY <1>4 DEF DiskTypes
  <2> QED BY <1>2, <2>1, <2>2 DEF Ext
<1> QED BY <1>2, <1>6, <1>9, <1>10

(* A function changed at two places.                                       *)
LEMMA TwoUpdates ==
  ASSUME NEW D, NEW V, NEW f \in [D -> V], NEW b \in D, NEW t \in D, b # t, NEW x \in V, NEW z \in V
  PROVE  LET g == [[f EXCEPT ![b] = x] EXCEPT ![t] = z] IN
         g \in [D -> V] /\ g[t] = z /\ \A d \in D : d # b /\ d # t => g[d] = f[d]
  OBVIOUS

(* A free block for a cell of the indirect block.                          *)
LEMMA FillIndirect ==
  ASSUME NEW u, NEW a, NEW c, DiskTypes(u, a, c), Owned(u, a, c),
         NEW i \in Inode, a[i][NDIRECT] # 0, NEW m \in Cells, c[a[i][NDIRECT]][m] = 0,
         NEW b \in DataBlock, b \notin u,
         NEW c2, IndirectFill(a, c, c2, i, m, b)
  PROVE  /\ DiskTypes(u \cup {b}, a, c2) /\ Owned(u \cup {b}, a, c2)
         /\ Ext(u, a, c, u \cup {b}, a, c2, i)
         /\ c2[a[i][NDIRECT]][m] = b
<1> USE FileDataAssumption
<1> DEFINE t == a[i][NDIRECT]
<1>0. b # 0 /\ NDIRECT \in 0 .. NDIRECT /\ NDIRECT \in Slots /\ NDIRECT + 1 + m \in Slots
  BY DEF DataBlock, Slots, Cells
<1>1. a \in [Inode -> [0 .. NDIRECT -> DataBlock \cup {0}]] /\ c \in [DataBlock -> [Cells -> Int]]
      /\ c[t] \in [Cells -> DataBlock \cup {0}]
  BY DEF DiskTypes
<1>2. \A j \in Inode : a[j][NDIRECT] # 0 => a[j][NDIRECT] \in u /\ a[j][NDIRECT] \in DataBlock /\ a[j][NDIRECT] # b
  <2> SUFFICES ASSUME NEW j \in Inode, a[j][NDIRECT] # 0
               PROVE  a[j][NDIRECT] \in u /\ a[j][NDIRECT] \in DataBlock
    OBVIOUS
  <2>1. BlockAt(a, c, j, NDIRECT) = a[j][NDIRECT]
    BY DEF BlockAt
  <2>2. a[j][NDIRECT] \in u
    BY <1>0, <2>1 DEF Owned
  <2> QED BY <2>2 DEF DiskTypes
<1>3. t \in DataBlock /\ t # b /\ t \in u
  BY <1>2
<1>4. \A j \in Inode : j # i => a[j][NDIRECT] # t
  <2>1. \A j \in Inode : BlockAt(a, c, j, NDIRECT) = a[j][NDIRECT]
    BY DEF BlockAt
  <2> QED BY <1>0, <2>1 DEF Owned
<1>6. /\ [c[t] EXCEPT ![m] = b] \in [Cells -> DataBlock \cup {0}]
      /\ [c[t] EXCEPT ![m] = b] \in [Cells -> Int]
      /\ \A n \in Cells : [c[t] EXCEPT ![m] = b][n] = IF n = m THEN b ELSE c[t][n]
  BY <1>1, <1>3 DEF DataBlock
<1> HIDE DEF t
<1>7. /\ c2 \in [DataBlock -> [Cells -> Int]]
      /\ c2[t] = [c[t] EXCEPT ![m] = b]
      /\ \A d \in DataBlock : d # b /\ d # t => c2[d] = c[d]
  BY DEF t, IndirectFill
<1>8. DiskTypes(u \cup {b}, a, c2)
  <2>1. ASSUME NEW j \in Inode, a[j][NDIRECT] # 0
        PROVE  c2[a[j][NDIRECT]] \in [Cells -> DataBlock \cup {0}]
    BY <1>2, <1>6, <1>7, <2>1 DEF DiskTypes
  <2> QED BY <1>1, <1>7, <2>1 DEF DiskTypes
<1>9. ASSUME NEW j \in Inode, NEW l \in Slots
      PROVE  BlockAt(a, c2, j, l) = IF j = i /\ l = NDIRECT + 1 + m THEN b ELSE BlockAt(a, c, j, l)
  <2>1. CASE l <= NDIRECT
    BY <2>1 DEF BlockAt, Cells
  <2>2. CASE ~(l <= NDIRECT) /\ a[j][NDIRECT] = 0
    BY <2>2 DEF BlockAt, t
  <2>3. CASE ~(l <= NDIRECT) /\ a[j][NDIRECT] # 0
    <3>0. l - NDIRECT - 1 \in Cells /\ (l = NDIRECT + 1 + m <=> l - NDIRECT - 1 = m)
      BY <2>3 DEF Slots, Cells
    <3>1. BlockAt(a, c2, j, l) = c2[a[j][NDIRECT]][l - NDIRECT - 1]
          /\ BlockAt(a, c, j, l) = c[a[j][NDIRECT]][l - NDIRECT - 1]
      BY <2>3 DEF BlockAt
    <3>2. CASE j = i
      BY <1>6, <1>7, <3>0, <3>1, <3>2 DEF t
    <3>3. CASE j # i
      BY <1>2, <1>4, <1>7, <2>3, <3>1, <3>3
    <3> QED BY <3>2, <3>3
  <2> QED BY <2>1, <2>2, <2>3
<1>10. BlockAt(a, c, i, NDIRECT + 1 + m) = 0
  <2>1. ~(NDIRECT + 1 + m <= NDIRECT) /\ (NDIRECT + 1 + m) - NDIRECT - 1 = m
    BY DEF Cells
  <2> QED BY <2>1 DEF BlockAt
<1>11. Owned(u \cup {b}, a, c2)
  <2> DEFINE k == NDIRECT + 1 + m
  <2>1. Filled(a, c, a, c2, i, k, b)
    BY <1>9 DEF Filled
  <2>2. k \in Slots /\ BlockAt(a, c, i, k) = 0
    BY <1>0, <1>10
  <2> HIDE DEF k
  <2> QED BY <2>1, <2>2, Extend
<1>12. Ext(u, a, c, u \cup {b}, a, c2, i)
  <2>1. \A j \in Inode, l \in Slots : BlockAt(a, c, j, l) # 0 => BlockAt(a, c2, j, l) = BlockAt(a, c, j, l)
    BY <1>9, <1>10
  <2>2. \A d \in u : d # t => c2[d] = c[d]
    BY <1>7 DEF DiskTypes
  <2> QED BY <2>1, <2>2 DEF Ext, t
<1> QED BY <1>6, <1>7, <1>8, <1>11, <1>12 DEF t

-----------------------------------------------------------------------------
(* bmap: the disk it is given and the one it leaves.                       *)
LogEntry == {"bitmap", "block"} \X DataBlock
DiskRec ==
  [used : SUBSET DataBlock, cells : [DataBlock -> [Cells -> Int]],
   addrs : [Inode -> [0 .. NDIRECT -> DataBlock \cup {0}]], log : SUBSET LogEntry]
OkDisk(d) ==
  d \in DiskRec /\ DiskTypes(d.used, d.addrs, d.cells) /\ Owned(d.used, d.addrs, d.cells)
ExtDisk(d, e, i) == Ext(d.used, d.addrs, d.cells, e.used, e.addrs, e.cells, i)

(* r maps place k of inode i: the block that stands there, if any; nothing *)
(* that stood anywhere has moved; and what was logged is about that block  *)
(* or the indirect one.                                                    *)
Maps(d, r, i, k) ==
  /\ OkDisk(r.d) /\ ExtDisk(d, r.d, i)
  /\ r.addr = BlockAt(r.d.addrs, r.d.cells, i, k)
  /\ BlockAt(d.addrs, d.cells, i, k) # 0 => r.d = d
  /\ d.log \subseteq r.d.log
  /\ \A x \in r.d.log : x \in d.log \/ x[2] \in {r.addr, r.d.addrs[i][NDIRECT]}

(* Nothing changed.                                                        *)
LEMMA ExtSame ==
  ASSUME NEW d, NEW i \in Inode
  PROVE  ExtDisk(d, d, i)
  BY DEF ExtDisk, Ext

(* balloc's block is free.                                                 *)
LEMMA FreeBlock ==
  ASSUME NEW d \in DiskRec, NextFree(d) # 0
  PROVE  NextFree(d) \in DataBlock /\ NextFree(d) \notin d.used
<1>1. ~(DataBlock \subseteq d.used) /\ NextFree(d) = Min(DataBlock \ d.used)
  BY DEF NextFree
<1> DEFINE S == DataBlock \ d.used
<1>2. S \in SUBSET Nat /\ S # {}
  BY <1>1, FileDataAssumption DEF DataBlock
<1> HIDE DEF S
<1>3. Min(S) \in S
  BY <1>2, HasMin
<1> QED BY <1>1, <1>3 DEF S

(* A direct block is mapped, and so is the indirect one.                   *)
LEMMA DirectMaps ==
  ASSUME NEW d, OkDisk(d), NEW i \in Inode, NEW k \in 0 .. NDIRECT
  PROVE  /\ Maps(d, DirectMap(d, i, k), i, k)
         /\ DirectMap(d, i, k).addr \in DataBlock \cup {0}
         /\ d.addrs[i][k] = 0 => DirectMap(d, i, k).addr \notin d.used
<1> DEFINE r == DirectMap(d, i, k)
           b == NextFree(d)
<1>0. d \in DiskRec /\ BlockAt(d.addrs, d.cells, i, k) = d.addrs[i][k] /\ d.addrs[i][k] \in DataBlock \cup {0}
      /\ 0 \notin d.used
  BY FileDataAssumption DEF OkDisk, BlockAt, DiskRec, DataBlock
<1>1. CASE d.addrs[i][k] # 0
  <2>1. r = [addr |-> d.addrs[i][k], d |-> d]
    BY <1>1 DEF DirectMap
  <2>2. r.addr = d.addrs[i][k] /\ r.d = d
    BY <2>1
  <2> HIDE DEF r
  <2>3. Maps(d, r, i, k)
    BY <1>0, <2>2, ExtSame DEF Maps
  <2> QED BY <1>0, <1>1, <2>2, <2>3 DEF r
<1>2. CASE d.addrs[i][k] = 0 /\ b = 0
  <2>1. r = [addr |-> 0, d |-> d]
    BY <1>2 DEF DirectMap
  <2>2. r.addr = 0 /\ r.d = d
    BY <2>1
  <2> HIDE DEF r
  <2>3. Maps(d, r, i, k)
    BY <1>0, <1>2, <2>2, ExtSame DEF Maps
  <2> QED BY <1>0, <1>2, <2>2, <2>3 DEF r
<1>3. CASE d.addrs[i][k] = 0 /\ b # 0
  <2> DEFINE e == [Allocated(d, b) EXCEPT !.addrs[i][k] = b]
  <2>1. r = [addr |-> b, d |-> e]
    BY <1>3 DEF DirectMap
  <2>2. r.addr = b /\ r.d = e
    BY <2>1
  <2>3. b \in DataBlock /\ b \notin d.used
    BY <1>0, <1>3, FreeBlock
  <2>a. e = [Allocated(d, b) EXCEPT !.addrs[i][k] = b]
    OBVIOUS
  <2> HIDE DEF b, r, e
  <2>4. /\ e.used = d.used \cup {b} /\ e.cells = [d.cells EXCEPT ![b] = Zeroed]
        /\ e.addrs = [d.addrs EXCEPT ![i] = [d.addrs[i] EXCEPT ![k] = b]]
        /\ e.log = d.log \cup {<<"bitmap", b>>, <<"block", b>>}
        /\ e = [used |-> e.used, cells |-> e.cells, addrs |-> e.addrs, log |-> e.log]
    BY <1>0, <2>3, <2>a DEF DiskRec, Allocated
  <2>5. /\ DiskTypes(d.used \cup {b}, e.addrs, e.cells) /\ Owned(d.used \cup {b}, e.addrs, e.cells)
        /\ Ext(d.used, d.addrs, d.cells, d.used \cup {b}, e.addrs, e.cells, i) /\ e.addrs[i][k] = b
    <3> DEFINE a == d.addrs
               c == d.cells
               u == d.used
               a2 == e.addrs
               c2 == e.cells
    <3>1. DiskTypes(u, a, c) /\ Owned(u, a, c) /\ a[i][k] = 0 /\ b \notin u
          /\ a2 = [a EXCEPT ![i] = [a[i] EXCEPT ![k] = b]] /\ c2 = [c EXCEPT ![b] = Zeroed]
      BY <1>3, <2>3, <2>4 DEF OkDisk
    <3>a. DirectFill(u, a, c, a2, c2, i, k, b)
      BY <2>3, <3>1 DEF DirectFill
    <3>b. DiskTypes(u, a, c) /\ Owned(u, a, c)
      BY <3>1
    <3> HIDE DEF a, c, u, a2, c2
    <3>2. /\ DiskTypes(u \cup {b}, a2, c2) /\ Owned(u \cup {b}, a2, c2)
          /\ Ext(u, a, c, u \cup {b}, a2, c2, i) /\ a2[i][k] = b
      BY <3>a, <3>b, FillDirect
    <3> QED BY <3>2 DEF a, c, u, a2, c2
  <2>6. e.log \in SUBSET LogEntry
    BY <1>0, <2>3, <2>4 DEF DiskRec, LogEntry
  <2>7. e \in DiskRec
    <3>1. e.used \in SUBSET DataBlock /\ e.cells \in [DataBlock -> [Cells -> Int]]
          /\ e.addrs \in [Inode -> [0 .. NDIRECT -> DataBlock \cup {0}]]
      BY <2>4, <2>5 DEF DiskTypes
    <3> DEFINE f1 == e.used
               f2 == e.cells
               f3 == e.addrs
               f4 == e.log
    <3>2. f1 \in SUBSET DataBlock /\ f2 \in [DataBlock -> [Cells -> Int]]
          /\ f3 \in [Inode -> [0 .. NDIRECT -> DataBlock \cup {0}]] /\ f4 \in SUBSET LogEntry
      BY <2>6, <3>1
    <3>3. e = [used |-> f1, cells |-> f2, addrs |-> f3, log |-> f4]
      BY <2>4
    <3> HIDE DEF f1, f2, f3, f4
    <3> QED BY <3>2, <3>3 DEF DiskRec
  <2>8. BlockAt(e.addrs, e.cells, i, k) = b
    BY <2>5 DEF BlockAt
  <2>9. \A x \in e.log : x \in d.log \/ x[2] = b
    BY <2>4
  <2>10. OkDisk(e) /\ ExtDisk(d, e, i)
    BY <2>4, <2>5, <2>7 DEF OkDisk, ExtDisk
  <2>11. Maps(d, r, i, k)
    BY <1>0, <1>3, <2>2, <2>4, <2>8, <2>9, <2>10 DEF Maps
  <2> QED BY <2>2, <2>3, <2>11 DEF r
<1> QED BY <1>1, <1>2, <1>3

(* A block of the indirect block is mapped, and the inode stays as it was. *)
LEMMA IndirectMaps ==
  ASSUME NEW d, OkDisk(d), NEW i \in Inode, d.addrs[i][NDIRECT] # 0, NEW m \in Cells
  PROVE  LET r == IndirectMap(d, d.addrs[i][NDIRECT], m) IN
         Maps(d, r, i, NDIRECT + 1 + m) /\ r.d.addrs = d.addrs
<1> DEFINE t == d.addrs[i][NDIRECT]
           r == IndirectMap(d, t, m)
           b == NextFree(d)
           k == NDIRECT + 1 + m
<1>0. /\ d \in DiskRec /\ BlockAt(d.addrs, d.cells, i, k) = d.cells[t][m]
      /\ t \in DataBlock /\ k \in Slots /\ t \in d.used
      /\ \A c : BlockAt(d.addrs, c, i, k) = c[t][m]
  <2>1. ~(k <= NDIRECT) /\ k - NDIRECT - 1 = m /\ k \in Slots
    BY FileDataAssumption DEF Cells, Slots
  <2>2. \A c : BlockAt(d.addrs, c, i, k) = c[t][m]
    BY <2>1 DEF BlockAt
  <2>3. NDIRECT \in Slots /\ NDIRECT \in 0 .. NDIRECT /\ BlockAt(d.addrs, d.cells, i, NDIRECT) = t
    BY FileDataAssumption DEF Slots, BlockAt
  <2>4. t \in d.used
    BY <2>3 DEF OkDisk, Owned
  <2> QED BY <2>1, <2>2, <2>4 DEF OkDisk, DiskTypes
<1>1. CASE d.cells[t][m] # 0
  <2>1. r = [addr |-> d.cells[t][m], d |-> d]
    BY <1>1 DEF IndirectMap
  <2>2. r.addr = d.cells[t][m] /\ r.d = d
    BY <2>1
  <2> HIDE DEF r
  <2>3. Maps(d, r, i, k)
    BY <1>0, <2>2, ExtSame DEF Maps
  <2> QED BY <2>2, <2>3 DEF r
<1>2. CASE d.cells[t][m] = 0 /\ b = 0
  <2>1. r = [addr |-> 0, d |-> d]
    BY <1>2 DEF IndirectMap
  <2>2. r.addr = 0 /\ r.d = d
    BY <2>1
  <2> HIDE DEF r
  <2>3. Maps(d, r, i, k)
    BY <1>0, <1>2, <2>2, ExtSame DEF Maps
  <2> QED BY <2>2, <2>3 DEF r
<1>3. CASE d.cells[t][m] = 0 /\ b # 0
  <2> DEFINE e == [Allocated(d, b) EXCEPT !.cells[t][m] = b, !.log = @ \cup {<<"block", t>>}]
  <2>1. r = [addr |-> b, d |-> e]
    BY <1>3 DEF IndirectMap
  <2>2. r.addr = b /\ r.d = e
    BY <2>1
  <2>3. b \in DataBlock /\ b \notin d.used /\ b # t
    BY <1>0, <1>3, FreeBlock
  <2>a. e = [Allocated(d, b) EXCEPT !.cells[t][m] = b, !.log = @ \cup {<<"block", t>>}]
    OBVIOUS
  <2> DEFINE f == Allocated(d, b)
  <2>b. /\ f.used = d.used \cup {b} /\ f.cells = [d.cells EXCEPT ![b] = Zeroed] /\ f.addrs = d.addrs
        /\ f.log = d.log \cup {<<"bitmap", b>>, <<"block", b>>}
        /\ f = [used |-> f.used, cells |-> f.cells, addrs |-> f.addrs, log |-> f.log]
    <3>1. f = [d EXCEPT !.used = @ \cup {b}, !.cells[b] = Zeroed,
                        !.log = @ \cup {<<"bitmap", b>>, <<"block", b>>}]
      BY DEF Allocated
    <3> HIDE DEF f, b
    <3> QED BY <1>0, <2>3, <3>1 DEF DiskRec
  <2>c. f.cells[t] = d.cells[t]
    BY <1>0, <2>3, <2>b DEF DiskRec
  <2>d. e = [f EXCEPT !.cells[t][m] = b, !.log = @ \cup {<<"block", t>>}]
    BY <2>a
  <2> HIDE DEF b, r, e, f
  <2>4. /\ e.used = d.used \cup {b} /\ e.addrs = d.addrs
        /\ e.cells = [[d.cells EXCEPT ![b] = Zeroed] EXCEPT ![t] = [d.cells[t] EXCEPT ![m] = b]]
        /\ e.log = d.log \cup {<<"bitmap", b>>, <<"block", b>>, <<"block", t>>}
        /\ e = [used |-> e.used, cells |-> e.cells, addrs |-> e.addrs, log |-> e.log]
    <3> HIDE DEF t
    <3>1. /\ e.used = f.used /\ e.addrs = f.addrs /\ e.cells = [f.cells EXCEPT ![t] = [f.cells[t] EXCEPT ![m] = b]]
          /\ e.log = f.log \cup {<<"block", t>>}
          /\ e = [used |-> e.used, cells |-> e.cells, addrs |-> e.addrs, log |-> e.log]
      BY <2>b, <2>d
    <3>2. e.log = d.log \cup {<<"bitmap", b>>, <<"block", b>>, <<"block", t>>}
      BY <2>b, <3>1
    <3>3. e.cells = [[d.cells EXCEPT ![b] = Zeroed] EXCEPT ![t] = [d.cells[t] EXCEPT ![m] = b]]
      BY <2>b, <2>c, <3>1
    <3> QED BY <2>b, <3>1, <3>2, <3>3
  <2>5. /\ DiskTypes(d.used \cup {b}, d.addrs, e.cells) /\ Owned(d.used \cup {b}, d.addrs, e.cells)
        /\ Ext(d.used, d.addrs, d.cells, d.used \cup {b}, d.addrs, e.cells, i)
        /\ e.cells[t][m] = b
    <3> DEFINE a == d.addrs
               c == d.cells
               u == d.used
               c2 == e.cells
               z == [c[t] EXCEPT ![m] = b]
               V == [Cells -> Int]
    <3>1. c \in [DataBlock -> V] /\ Zeroed \in V /\ z \in V
      <4>1. c \in [DataBlock -> [Cells -> Int]] /\ b \in Int
        BY <1>0, <2>3, FileDataAssumption DEF DiskRec, DataBlock
      <4>2. c[t] \in [Cells -> Int]
        BY <1>0, <4>1
      <4>3. Zeroed \in [Cells -> Int]
        BY DEF Zeroed, Cells
      <4> QED BY <4>1, <4>2, <4>3
    <3>2. c2 = [[c EXCEPT ![b] = Zeroed] EXCEPT ![t] = z] /\ t \in DataBlock
      BY <1>0, <2>4
    <3>3. DiskTypes(u, a, c) /\ Owned(u, a, c) /\ a[i][NDIRECT] # 0 /\ b \notin u /\ c[a[i][NDIRECT]][m] = 0
      BY <1>3, <2>3 DEF OkDisk
    <3>4. c2 \in [DataBlock -> V] /\ c2[t] = z /\ \A x \in DataBlock : x # b /\ x # t => c2[x] = c[x]
      <4> HIDE DEF c, c2, z, V, t
      <4> QED BY <2>3, <3>1, <3>2, TwoUpdates
    <3>5. t = a[i][NDIRECT] /\ z = [c[a[i][NDIRECT]] EXCEPT ![m] = b]
      OBVIOUS
    <3> HIDE DEF a, c, u, c2, z, t
    <3>6. c2 \in [DataBlock -> [Cells -> Int]] /\ c2[a[i][NDIRECT]] = [c[a[i][NDIRECT]] EXCEPT ![m] = b]
          /\ \A x \in DataBlock : x # b /\ x # a[i][NDIRECT] => c2[x] = c[x]
      BY <3>4, <3>5
    <3>a. IndirectFill(a, c, c2, i, m, b)
      BY <3>6 DEF IndirectFill
    <3>7. /\ DiskTypes(u \cup {b}, a, c2) /\ Owned(u \cup {b}, a, c2)
          /\ Ext(u, a, c, u \cup {b}, a, c2, i) /\ c2[a[i][NDIRECT]][m] = b
      BY <2>3, <3>3, <3>a, FillIndirect
    <3> QED BY <3>5, <3>7 DEF a, c, u, c2
  <2>6. e.log \in SUBSET LogEntry
    BY <1>0, <2>3, <2>4 DEF DiskRec, LogEntry
  <2>7. e \in DiskRec
    <3> DEFINE f1 == e.used
               f2 == e.cells
               f3 == e.addrs
               f4 == e.log
    <3>2. f1 \in SUBSET DataBlock /\ f2 \in [DataBlock -> [Cells -> Int]]
          /\ f3 \in [Inode -> [0 .. NDIRECT -> DataBlock \cup {0}]] /\ f4 \in SUBSET LogEntry
      BY <2>4, <2>5, <2>6 DEF DiskTypes
    <3>3. e = [used |-> f1, cells |-> f2, addrs |-> f3, log |-> f4]
      BY <2>4
    <3> HIDE DEF f1, f2, f3, f4
    <3> QED BY <3>2, <3>3 DEF DiskRec
  <2>8. BlockAt(e.addrs, e.cells, i, k) = b
    BY <1>0, <2>4, <2>5
  <2>9. \A x \in e.log : x \in d.log \/ x[2] \in {b, t}
    BY <2>4
  <2>10. OkDisk(e) /\ ExtDisk(d, e, i)
    BY <2>4, <2>5, <2>7 DEF OkDisk, ExtDisk
  <2>11. Maps(d, r, i, k)
    BY <1>0, <1>3, <2>2, <2>4, <2>8, <2>9, <2>10 DEF Maps
  <2> QED BY <2>2, <2>4, <2>11 DEF r
<1> QED BY <1>1, <1>2, <1>3

(* Block bn of a file stands at its place when bmap returns.               *)
LEMMA BmapMaps ==
  ASSUME NEW d, OkDisk(d), NEW i \in Inode, NEW bn \in 0 .. MAXFILE - 1
  PROVE  Maps(d, bmap(d, i, bn), i, SlotOf(bn)) /\ SlotOf(bn) \in Slots /\ SlotOf(bn) # NDIRECT
<1> USE FileDataAssumption
<1> DEFINE r == bmap(d, i, bn)
<1>1. CASE bn < NDIRECT
  <2>1. bn \in 0 .. NDIRECT /\ bn \in Slots /\ bn # NDIRECT /\ SlotOf(bn) = bn /\ r = DirectMap(d, i, bn)
    BY <1>1 DEF Slots, SlotOf, bmap, MAXFILE, NINDIRECT
  <2> HIDE DEF r
  <2> QED BY <2>1, DirectMaps DEF r
<1>2. CASE ~(bn < NDIRECT)
  <2> DEFINE m == bn - NDIRECT
             k == NDIRECT + 1 + m
             top == DirectMap(d, i, NDIRECT)
             e == top.d
  <2>1. m \in Cells /\ SlotOf(bn) = k /\ k \in Slots /\ k # NDIRECT /\ NDIRECT \in 0 .. NDIRECT
        /\ NDIRECT \in Slots /\ ~(k <= NDIRECT) /\ k - NDIRECT - 1 = m
    BY <1>2 DEF Slots, SlotOf, MAXFILE, NINDIRECT, Cells
  <2>2. r = IF top.addr = 0 THEN top ELSE IndirectMap(top.d, top.addr, m)
    BY <1>2 DEF bmap
  <2>3. /\ Maps(d, top, i, NDIRECT) /\ top.addr \in DataBlock \cup {0}
        /\ d.addrs[i][NDIRECT] = 0 => top.addr \notin d.used
    BY <2>1, DirectMaps
  <2> HIDE DEF r, top, m, k
  <2>4. top.addr = e.addrs[i][NDIRECT] /\ OkDisk(e) /\ ExtDisk(d, e, i)
    BY <2>3 DEF Maps, BlockAt
  <2>5. BlockAt(d.addrs, d.cells, i, NDIRECT) = d.addrs[i][NDIRECT]
    BY DEF BlockAt
  <2>6. CASE top.addr = 0
    <3>1. d.addrs[i][NDIRECT] = 0
      BY <2>1, <2>3, <2>4, <2>5, <2>6 DEF Maps
    <3>2. BlockAt(d.addrs, d.cells, i, k) = 0 /\ BlockAt(e.addrs, e.cells, i, k) = 0
      BY <2>1, <2>4, <2>6, <3>1 DEF BlockAt
    <3>3. Maps(d, top, i, k)
      BY <2>3, <2>6, <3>2 DEF Maps
    <3> QED BY <2>1, <2>2, <2>6, <3>3 DEF r
  <2>7. CASE top.addr # 0
    <3>1. r = IndirectMap(e, e.addrs[i][NDIRECT], m)
      BY <2>2, <2>4, <2>7
    <3>2. Maps(e, r, i, NDIRECT + 1 + m) /\ r.d.addrs = e.addrs
      BY <2>1, <2>4, <2>7, <3>1, IndirectMaps
    <3>3. Maps(e, r, i, k)
      BY <3>2 DEF k
    <3>4. ExtDisk(d, r.d, i)
      <4>1. d.used \subseteq r.d.used
        BY <2>4, <3>3 DEF Maps, ExtDisk, Ext
      <4>2. \A j \in Inode, l \in Slots : BlockAt(d.addrs, d.cells, j, l) # 0 =>
              BlockAt(r.d.addrs, r.d.cells, j, l) = BlockAt(d.addrs, d.cells, j, l)
        BY <2>4, <3>3 DEF Maps, ExtDisk, Ext
      <4>3. \A j \in Inode : j # i => r.d.addrs[j] = d.addrs[j]
        BY <2>4, <3>3 DEF Maps, ExtDisk, Ext
      <4>4. ASSUME NEW b \in d.used, b # d.addrs[i][NDIRECT] PROVE r.d.cells[b] = d.cells[b]
        <5>1. e.cells[b] = d.cells[b] /\ b \in e.used
          BY <2>4, <4>4 DEF ExtDisk, Ext
        <5>2. b # e.addrs[i][NDIRECT]
          <6>1. CASE d.addrs[i][NDIRECT] = 0
            BY <2>3, <2>4, <6>1
          <6>2. CASE d.addrs[i][NDIRECT] # 0
            BY <2>1, <2>4, <2>5, <4>4, <6>2 DEF ExtDisk, Ext, BlockAt
          <6> QED BY <6>1, <6>2
        <5> QED BY <3>3, <5>1, <5>2 DEF Maps, ExtDisk, Ext
      <4> QED BY <4>1, <4>2, <4>3, <4>4 DEF ExtDisk, Ext
    <3>5. ASSUME BlockAt(d.addrs, d.cells, i, k) # 0 PROVE r.d = d
      <4>1. d.addrs[i][NDIRECT] # 0
        BY <2>1, <3>5 DEF BlockAt
      <4>2. e = d
        BY <2>3, <2>5, <4>1 DEF Maps
      <4> QED BY <3>3, <3>5, <4>2 DEF Maps
    <3>6. d.log \subseteq r.d.log
      BY <2>3, <3>3 DEF Maps
    <3>7. \A x \in r.d.log : x \in d.log \/ x[2] \in {r.addr, r.d.addrs[i][NDIRECT]}
      <4>1. \A x \in e.log : x \in d.log \/ x[2] = e.addrs[i][NDIRECT]
        BY <2>3, <2>4 DEF Maps
      <4> QED BY <3>2, <3>3, <4>1 DEF Maps
    <3>8. Maps(d, r, i, k)
      BY <3>3, <3>4, <3>5, <3>6, <3>7 DEF Maps
    <3> QED BY <2>1, <3>8 DEF r
  <2> QED BY <2>6, <2>7
<1> QED BY <1>1, <1>2

(* Division by the size of a block.                                        *)
LEMMA BlockOf ==
  ASSUME NEW o \in Nat
  PROVE  /\ o \div BSIZE \in Nat /\ o % BSIZE \in Cells
         /\ o = (o \div BSIZE) * BSIZE + (o % BSIZE)
<1>1. BSIZE \in Nat /\ BSIZE > 0
  BY FileDataAssumption
<1>2. o % BSIZE \in 0 .. BSIZE - 1 /\ o \div BSIZE \in Nat /\ o = (o \div BSIZE) * BSIZE + (o % BSIZE)
  BY <1>1, Z3
<1> QED BY <1>2 DEF Cells

(* A byte is at one cell of one block.                                     *)
LEMMA BlockUnique ==
  ASSUME NEW q \in Nat, NEW x \in Cells
  PROVE  (q * BSIZE + x) \div BSIZE = q /\ (q * BSIZE + x) % BSIZE = x
<1>1. BSIZE \in Nat /\ BSIZE > 0 /\ x \in 0 .. BSIZE - 1
  BY FileDataAssumption DEF Cells
<1> QED BY <1>1, Z3

(* Products with the size of a block keep the order.                       *)
LEMMA BlockOrder ==
  ASSUME NEW p \in Int, NEW q \in Int
  PROVE  p < q => p * BSIZE + BSIZE <= q * BSIZE
<1>1. BSIZE \in Nat /\ BSIZE > 0
  BY FileDataAssumption
<1> SUFFICES ASSUME p < q PROVE p * BSIZE + BSIZE <= q * BSIZE
  OBVIOUS
<1>2. (q - p - 1) * BSIZE >= 0
  BY <1>1, Z3
<1>3. (q - p - 1) * BSIZE = q * BSIZE - p * BSIZE - BSIZE
  BY <1>1, Z3
<1>4. p * BSIZE \in Int /\ q * BSIZE \in Int
  BY <1>1
<1> QED BY <1>1, <1>2, <1>3, <1>4

(* The place of a byte below the limit.                                    *)
LEMMA BytePlace ==
  ASSUME NEW o \in 0 .. Limit - 1
  PROVE  /\ o \div BSIZE \in 0 .. MAXFILE - 1
         /\ SlotOf(o \div BSIZE) \in Slots /\ SlotOf(o \div BSIZE) # NDIRECT
<1>1. MAXFILE \in Nat /\ MAXFILE = NDIRECT + BSIZE /\ NDIRECT \in Nat /\ BSIZE \in Nat \ {0}
  BY FileDataAssumption DEF MAXFILE, NINDIRECT
<1> DEFINE q == o \div BSIZE
<1>a. Limit = MAXFILE * BSIZE /\ MAXFILE * BSIZE \in Nat
  BY <1>1 DEF Limit
<1>b. o \in Nat /\ o < MAXFILE * BSIZE
  BY <1>a
<1>2. q \in Nat /\ o = q * BSIZE + (o % BSIZE) /\ (o % BSIZE) \in Cells
  BY <1>b, BlockOf
<1>c. (o % BSIZE) \in Nat
  BY <1>1, <1>2 DEF Cells
<1> HIDE DEF q
<1>3. q < MAXFILE
  <2>1. q >= MAXFILE => MAXFILE * BSIZE <= q * BSIZE
    <3>1. MAXFILE < q => MAXFILE * BSIZE + BSIZE <= q * BSIZE
      BY <1>1, <1>2, BlockOrder
    <3>2. q * BSIZE \in Nat
      BY <1>1, <1>2
    <3> QED BY <1>1, <1>2, <1>a, <3>1, <3>2
  <2> QED BY <1>1, <1>2, <1>b, <1>c, <1>a, <2>1
<1>4. q \in 0 .. MAXFILE - 1
  BY <1>1, <1>2, <1>3
<1>5. SlotOf(q) \in Slots /\ SlotOf(q) # NDIRECT
  BY <1>1, <1>4 DEF SlotOf, Slots
<1> QED BY <1>4, <1>5 DEF q

(* Different blocks of a file have different places.                       *)
LEMMA SlotUnique ==
  ASSUME NEW p \in Nat, NEW q \in Nat, SlotOf(p) = SlotOf(q)
  PROVE  p = q
  BY FileDataAssumption DEF SlotOf

(* Cells f are written over the block at place k.                          *)
Overwritten(a, c, c2, i, k, f) == c2 = [c EXCEPT ![BlockAt(a, c, i, k)] = f]

(* Block f is written over the block at place k, which is no indirect one: *)
(* no place changes.                                                       *)
LEMMA WriteKeepsPlaces ==
  ASSUME NEW u, NEW a, NEW c, DiskTypes(u, a, c), Owned(u, a, c), NEW i \in Inode,
         NEW k \in Slots, k # NDIRECT, BlockAt(a, c, i, k) # 0,
         NEW f \in [Cells -> Int], NEW c2, Overwritten(a, c, c2, i, k, f)
  PROVE  /\ DiskTypes(u, a, c2) /\ Owned(u, a, c2)
         /\ \A j \in Inode, l \in Slots : BlockAt(a, c2, j, l) = BlockAt(a, c, j, l)
<1> USE FileDataAssumption
<1> DEFINE b == BlockAt(a, c, i, k)
<1>1. b \in DataBlock
  BY PlaceTyped
<1>2. c2 = [c EXCEPT ![b] = f] /\ c \in [DataBlock -> [Cells -> Int]]
  BY DEF DiskTypes, Overwritten
<1>3. NDIRECT \in Slots /\ \A j \in Inode : BlockAt(a, c, j, NDIRECT) = a[j][NDIRECT]
  BY DEF Slots, BlockAt
<1>4. \A j \in Inode : a[j][NDIRECT] # 0 => a[j][NDIRECT] # b
  BY <1>3 DEF Owned
<1> HIDE DEF b
<1>5. c2 \in [DataBlock -> [Cells -> Int]] /\ \A x \in DataBlock : x # b => c2[x] = c[x]
  BY <1>1, <1>2
<1>6. \A j \in Inode : a[j][NDIRECT] # 0 => c2[a[j][NDIRECT]] = c[a[j][NDIRECT]]
  <2>1. \A j \in Inode : a[j][NDIRECT] # 0 => a[j][NDIRECT] \in DataBlock
    BY <1>3, PlaceTyped
  <2> QED BY <1>4, <1>5, <2>1
<1>7. \A j \in Inode, l \in Slots : BlockAt(a, c2, j, l) = BlockAt(a, c, j, l)
  BY <1>6 DEF BlockAt
<1>8. DiskTypes(u, a, c2)
  BY <1>5, <1>6 DEF DiskTypes
<1>9. Owned(u, a, c2)
  <2>1. \A j \in Inode, l \in Slots : BlockAt(a, c2, j, l) # 0 => BlockAt(a, c2, j, l) \in u
    BY <1>7 DEF Owned
  <2>2. \A x \in u : \E j \in Inode, l \in Slots : BlockAt(a, c2, j, l) = x
    BY <1>7 DEF Owned
  <2>3. ASSUME NEW j \in Inode, NEW m \in Inode, NEW l \in Slots, NEW n \in Slots,
               BlockAt(a, c2, j, l) # 0, BlockAt(a, c2, j, l) = BlockAt(a, c2, m, n)
        PROVE  j = m /\ l = n
    <3>1. BlockAt(a, c2, j, l) = BlockAt(a, c, j, l) /\ BlockAt(a, c2, m, n) = BlockAt(a, c, m, n)
      BY <1>7
    <3>2. BlockAt(a, c, j, l) # 0 /\ BlockAt(a, c, j, l) = BlockAt(a, c, m, n)
      BY <2>3, <3>1
    <3> QED BY <3>2 DEF Owned
  <2> QED BY <2>1, <2>2, <2>3 DEF Owned
<1> QED BY <1>7, <1>8, <1>9

(* What bmap does keeps every byte that is where it belongs.               *)
LEMMA MapKeepsGood ==
  ASSUME NEW d, OkDisk(d), NEW r, NEW i \in Inode, NEW k, Maps(d, r, i, k),
         NEW j \in Inode, NEW o \in 0 .. Limit - 1, Good(d.addrs, d.cells, j, o)
  PROVE  Good(r.d.addrs, r.d.cells, j, o)
<1> DEFINE l == SlotOf(o \div BSIZE)
           b == BlockAt(d.addrs, d.cells, j, l)
<1>1. l \in Slots /\ l # NDIRECT /\ NDIRECT \in Slots
  BY BytePlace, FileDataAssumption DEF Slots
<1>2. b # 0 /\ d.cells[b][o % BSIZE] = ByteOf(j, o)
  BY DEF Good
<1>3. b \in d.used
  <2>1. \A m \in Inode, n \in Slots :
          BlockAt(d.addrs, d.cells, m, n) # 0 => BlockAt(d.addrs, d.cells, m, n) \in d.used
    BY DEF OkDisk, Owned
  <2> QED BY <1>1, <1>2, <2>1
<1>4. b # d.addrs[i][NDIRECT]
  <2>1. BlockAt(d.addrs, d.cells, i, NDIRECT) = d.addrs[i][NDIRECT]
    BY FileDataAssumption DEF BlockAt
  <2> QED BY <1>1, <1>2, <2>1 DEF OkDisk, Owned
<1> HIDE DEF l
<1>5. BlockAt(r.d.addrs, r.d.cells, j, l) = b /\ r.d.cells[b] = d.cells[b]
  BY <1>1, <1>2, <1>3, <1>4 DEF Maps, ExtDisk, Ext
<1> HIDE DEF b
<1> QED BY <1>2, <1>5 DEF Good, l

(* A block of bytes of inode i, or of what was there.                      *)
Copied(i, bn, old, f) ==
  f \in [Cells -> Int] /\ \A x \in Cells : f[x] = old[x] \/ f[x] = ByteOf(i, bn * BSIZE + x)

(* So does writing bytes over the block they belong to.                    *)
LEMMA WriteKeepsGood ==
  ASSUME NEW u, NEW a, NEW c, DiskTypes(u, a, c), Owned(u, a, c), NEW i \in Inode,
         NEW bn \in 0 .. MAXFILE - 1, BlockAt(a, c, i, SlotOf(bn)) # 0,
         NEW f, Copied(i, bn, c[BlockAt(a, c, i, SlotOf(bn))], f),
         NEW c2, Overwritten(a, c, c2, i, SlotOf(bn), f),
         \A j \in Inode, l \in Slots : BlockAt(a, c2, j, l) = BlockAt(a, c, j, l),
         NEW j \in Inode, NEW o \in 0 .. Limit - 1, Good(a, c, j, o)
  PROVE  Good(a, c2, j, o)
<1> DEFINE l == SlotOf(o \div BSIZE)
           e == BlockAt(a, c, j, l)
           k == SlotOf(bn)
           b == BlockAt(a, c, i, k)
           x == o % BSIZE
<1>1. l \in Slots /\ k \in Slots /\ o \in Nat /\ bn \in Nat
  BY BytePlace, FileDataAssumption DEF SlotOf, Slots, MAXFILE, NINDIRECT, Limit
<1>2. e # 0 /\ c[e][x] = ByteOf(j, o)
  BY DEF Good
<1>3. x \in Cells /\ o \div BSIZE \in Nat /\ o = (o \div BSIZE) * BSIZE + x
  BY <1>1, BlockOf
<1>4. BlockAt(a, c2, j, l) = e
  BY <1>1
<1>5. b \in DataBlock /\ c \in [DataBlock -> [Cells -> Int]] /\ e \in DataBlock
  <2>1. \A m \in Inode, n \in Slots : BlockAt(a, c, m, n) \in DataBlock \cup {0}
    BY PlaceTyped
  <2>2. c \in [DataBlock -> [Cells -> Int]]
    BY DEF DiskTypes
  <2> QED BY <1>1, <1>2, <2>1, <2>2
<1>6. c2[b] = f /\ (e # b => c2[e] = c[e])
  BY <1>5 DEF Overwritten
<1>7. c2[e][x] = ByteOf(j, o)
  <2>1. CASE e # b
    BY <1>2, <1>6, <2>1
  <2>2. CASE e = b
    <3>1. j = i /\ l = k
      BY <1>1, <1>2, <2>2 DEF Owned
    <3>2. o \div BSIZE = bn
      BY <1>1, <1>3, <3>1, SlotUnique
    <3>3. f[x] = c[b][x] \/ f[x] = ByteOf(i, bn * BSIZE + x)
      BY <1>3 DEF Copied
    <3>4. bn * BSIZE + x = o
      BY <1>3, <3>2
    <3> HIDE DEF x, b, e
    <3> QED BY <1>2, <1>6, <2>2, <3>1, <3>3, <3>4
  <2> QED BY <2>1, <2>2
<1> HIDE DEF e
<1> QED BY <1>2, <1>4, <1>7 DEF Good

-----------------------------------------------------------------------------
(* The records of a filewrite.                                             *)
WriteRec == [at : {"idle", "next", "loop", "end"}, ip : Inode \cup {0},
             left : Nat, n : Nat, off : Nat, tot : Nat]

(* The numbers of the model.                                               *)
LEMMA FileNumbers ==
  /\ Limit \in Nat /\ ChunkBlocks \in Nat /\ ChunkMax = ChunkBlocks * BSIZE /\ ChunkMax \in Nat
  /\ 2 * ChunkBlocks + 4 <= TxBlocks /\ ChunkMax < UWRAP /\ Limit < UWRAP /\ UWRAP \in Nat
<1>1. NDIRECT \in Nat /\ BSIZE \in Nat /\ TxBlocks \in Nat /\ TxBlocks >= 4 /\ UWRAP \in Nat
      /\ UWRAP > (NDIRECT + BSIZE) * BSIZE /\ UWRAP > ((TxBlocks - 4) \div 2) * BSIZE
  BY FileDataAssumption
<1>2. Limit = (NDIRECT + BSIZE) * BSIZE /\ Limit \in Nat
  BY <1>1 DEF Limit, MAXFILE, NINDIRECT
<1>3. (TxBlocks - 4) \div 2 \in Nat /\ 2 * ((TxBlocks - 4) \div 2) <= TxBlocks - 4
  BY <1>1, Z3
<1>4. ChunkMax = ChunkBlocks * BSIZE
  <2>1. TxBlocks - 1 - 1 - 2 = TxBlocks - 4
    BY <1>1
  <2> QED BY <2>1 DEF ChunkMax, ChunkBlocks
<1>5. ChunkBlocks \in Nat /\ 2 * ChunkBlocks <= TxBlocks - 4 /\ UWRAP > ChunkBlocks * BSIZE
  BY <1>1, <1>3 DEF ChunkBlocks
<1>6. ChunkBlocks * BSIZE \in Nat
  BY <1>1, <1>5
<1> QED BY <1>1, <1>2, <1>4, <1>5, <1>6

(* The empty disk.                                                         *)
LEMMA FileInit == DataInit => FileIInv
<1> SUFFICES ASSUME DataInit PROVE FileIInv
  OBVIOUS
<1> USE FileDataAssumption
<1>1. /\ bitmap = {} /\ cells = [b \in DataBlock |-> Zeroed]
      /\ addrs = [i \in Inode |-> [k \in 0 .. NDIRECT |-> 0]]
      /\ size = [i \in Inode |-> 0] /\ offset = [i \in Inode |-> 0]
      /\ wr = [w \in Writer |-> Idle] /\ touched = [w \in Writer |-> {}]
      /\ told = [i \in Inode |-> 0]
  BY DEF DataInit
<1>2. NDIRECT \in 0 .. NDIRECT /\ \A i \in Inode, k \in 0 .. NDIRECT : addrs[i][k] = 0
  BY <1>1
<1>3. Zeroed \in [Cells -> Int]
  BY DEF Zeroed, Cells
<1>4. DiskTypes(bitmap, addrs, cells)
  BY <1>1, <1>2, <1>3 DEF DiskTypes
<1>5. \A i \in Inode, k \in Slots : BlockAt(addrs, cells, i, k) = 0
  <2> SUFFICES ASSUME NEW i \in Inode, NEW k \in Slots PROVE BlockAt(addrs, cells, i, k) = 0
    OBVIOUS
  <2>1. k <= NDIRECT => k \in 0 .. NDIRECT
    BY DEF Slots
  <2> QED BY <1>2, <2>1 DEF BlockAt
<1>6. Owned(bitmap, addrs, cells)
  BY <1>1, <1>5 DEF Owned
<1>7. \A w \in Writer : wr[w].at = "idle" /\ wr[w].ip = 0 /\ wr[w] \in WriteRec /\ touched[w] = {}
  BY <1>1 DEF Idle, WriteRec
<1>8. FileTypes
  <2>1. wr \in [Writer -> WriteRec]
    BY <1>1 DEF Idle, WriteRec
  <2>2. 0 \in 0 .. Limit
    BY FileNumbers
  <2> QED BY <1>1, <2>1, <2>2 DEF FileTypes, WriteRec
<1>9. ChunkInv
  BY <1>7 DEF ChunkInv, ChunkOK, Held
<1>10. BytesInv
  <2>1. \A i \in Inode : 0 .. size[i] - 1 = {}
    BY <1>1
  <2> QED BY <1>7, <2>1 DEF BytesInv, Held
<1>11. ChunkLogInv
  BY <1>7 DEF ChunkLogInv, LogOK
<1> QED BY <1>4, <1>6, <1>8, <1>9, <1>10, <1>11 DEF FileIInv

(* What every step needs of the files.                                     *)
LEMMA FileFacts ==
  ASSUME FileIInv
  PROVE  /\ wr \in [Writer -> WriteRec] /\ \A w \in Writer : wr[w] \in WriteRec
         /\ size \in [Inode -> Nat] /\ offset \in [Inode -> Nat] /\ told = size
         /\ \A i \in Inode : size[i] <= Limit /\ offset[i] <= Limit
         /\ 0 \notin Inode
         /\ \A w \in Writer : wr[w].at \in {"idle", "next", "loop", "end"} /\ (wr[w].at # "idle" <=> wr[w].ip \in Inode)
<1>1. wr \in [Writer -> WriteRec]
  BY DEF FileIInv, FileTypes, WriteRec
<1>2. \A w \in Writer : wr[w] \in WriteRec
  BY <1>1
<1>3. 0 \notin Inode
  BY FileDataAssumption
<1>4. \A w \in Writer : wr[w].at \in {"idle", "next", "loop", "end"} /\ wr[w].ip \in Inode \cup {0}
  BY <1>2 DEF WriteRec
<1>5. \A w \in Writer : wr[w].at = "idle" <=> wr[w].ip = 0
  BY DEF FileIInv, ChunkInv, ChunkOK
<1>6. size \in [Inode -> 0 .. Limit] /\ offset \in [Inode -> 0 .. Limit] /\ told = size
  BY DEF FileIInv, FileTypes
<1>7. \A i \in Inode : size[i] \in Nat /\ offset[i] \in Nat /\ size[i] <= Limit /\ offset[i] <= Limit
  BY <1>6, FileNumbers
<1>8. size \in [Inode -> Nat] /\ offset \in [Inode -> Nat]
  BY <1>6, <1>7
<1> QED BY <1>1, <1>2, <1>3, <1>4, <1>5, <1>6, <1>7, <1>8

(* A step that does not concern writer v or the file it writes.            *)
Aside(v) ==
  /\ wr'[v] = wr[v] /\ touched'[v] = touched[v]
  /\ Held(v) => /\ offset'[wr[v].ip] = offset[wr[v].ip] /\ size'[wr[v].ip] = size[wr[v].ip]
                /\ addrs'[wr[v].ip] = addrs[wr[v].ip]

(* Such a step keeps what v's chunk and its transaction have.              *)
LEMMA OtherChunk ==
  ASSUME FileIInv, NEW v \in Writer, Aside(v)
  PROVE  ChunkOK(v)' /\ LogOK(v)' /\ (Held(v)' <=> Held(v))
<1>0. ChunkOK(v) /\ LogOK(v)
  BY DEF FileIInv, ChunkInv, ChunkLogInv
<1>1. wr'[v] = wr[v] /\ touched'[v] = touched[v]
  BY DEF Aside
<1>2. Held(v)' <=> Held(v)
  BY <1>1 DEF Held
<1>3. CASE ~Held(v)
  <2>1. wr'[v].at \notin {"loop", "end"}
    BY <1>1, <1>3 DEF Held
  <2> QED BY <1>0, <1>1, <1>2, <1>3, <2>1 DEF ChunkOK, LogOK
<1>4. CASE Held(v)
  <2> DEFINE i == wr[v].ip
  <2>1. offset'[i] = offset[i] /\ size'[i] = size[i] /\ addrs'[i] = addrs[i] /\ wr'[v].ip = i
    BY <1>1, <1>4 DEF Aside
  <2>2. Logged(v)' = Logged(v) /\ Shared(v)' = Shared(v) /\ Reach(v)' = Reach(v)
    BY <1>1, <2>1 DEF Logged, TopLog, Shared, Reach
  <2>3. LogOK(v)'
    BY <1>0, <1>1, <2>2 DEF LogOK
  <2>4. ChunkOK(v)'
    BY <1>0, <1>1, <1>2, <2>1 DEF ChunkOK
  <2> QED BY <1>2, <2>3, <2>4
<1> QED BY <1>3, <1>4

(* A writer's step takes the others' chunks as they are.                   *)
LEMMA ChunksKept ==
  ASSUME FileIInv, NEW w \in Writer, \A v \in Writer : v # w => Aside(v),
         ChunkOK(w)', LogOK(w)',
         Held(w)' => \A v \in Writer : v # w /\ Held(v) => wr[v].ip # wr'[w].ip
  PROVE  ChunkInv' /\ ChunkLogInv'
<1>1. \A v \in Writer : v # w => ChunkOK(v)' /\ LogOK(v)' /\ (Held(v)' <=> Held(v)) /\ wr'[v] = wr[v]
  <2> SUFFICES ASSUME NEW v \in Writer, v # w
               PROVE  ChunkOK(v)' /\ LogOK(v)' /\ (Held(v)' <=> Held(v)) /\ wr'[v] = wr[v]
    OBVIOUS
  <2>1. Aside(v)
    OBVIOUS
  <2>2. wr'[v] = wr[v]
    BY <2>1 DEF Aside
  <2> QED BY <2>1, <2>2, OtherChunk
<1>2. \A v \in Writer : ChunkOK(v)' /\ LogOK(v)'
  BY <1>1
<1>3. \A u, v \in Writer : u # v /\ Held(u)' /\ Held(v)' => wr'[u].ip # wr'[v].ip
  <2>1. \A u, v \in Writer : u # v /\ Held(u) /\ Held(v) => wr[u].ip # wr[v].ip
    BY DEF FileIInv, ChunkInv
  <2> QED BY <1>1, <2>1
<1> QED BY <1>2, <1>3 DEF ChunkInv, ChunkLogInv

(* A step that leaves the disk and the files alone keeps the bytes.        *)
LEMMA DiskKept ==
  ASSUME FileIInv, UNCHANGED <<bitmap, cells, addrs, size>>
  PROVE  /\ DiskTypes(bitmap, addrs, cells)' /\ Owned(bitmap, addrs, cells)'
         /\ \A i \in Inode : \A o \in 0 .. size'[i] - 1 : Good(addrs', cells', i, o)
<1>1. DiskTypes(bitmap, addrs, cells) /\ Owned(bitmap, addrs, cells)
  BY DEF FileIInv
<1>2. \A i \in Inode : \A o \in 0 .. size[i] - 1 : Good(addrs, cells, i, o)
  BY DEF FileIInv, BytesInv
<1>3. bitmap' = bitmap /\ cells' = cells /\ addrs' = addrs /\ size' = size
  OBVIOUS
<1> QED BY <1>1, <1>2, <1>3

(* A step of writer w alone, that does not go on in a chunk.               *)
LEMMA WriterOut ==
  ASSUME FileIInv, NEW w \in Writer, NEW e \in WriteRec, wr' = [wr EXCEPT ![w] = e],
         e.at \in {"idle", "next"}, e.at = "idle" <=> e.ip = 0, ~Held(w),
         UNCHANGED <<bitmap, cells, addrs, size, offset, touched, told>>
  PROVE  FileIInv'
<1>0. /\ bitmap' = bitmap /\ cells' = cells /\ addrs' = addrs /\ size' = size /\ offset' = offset
      /\ touched' = touched /\ told' = told
  OBVIOUS
<1>1. wr \in [Writer -> WriteRec]
  BY FileFacts
<1>2. /\ wr' \in [Writer -> WriteRec] /\ wr'[w] = e /\ \A v \in Writer : v # w => wr'[v] = wr[v]
  BY <1>1
<1>3. FileTypes'
  <2>1. FileTypes
    BY DEF FileIInv
  <2> QED BY <1>0, <1>2, <2>1 DEF FileTypes, WriteRec
<1>4. \A v \in Writer : v # w => Aside(v)
  BY <1>0, <1>2 DEF Aside
<1>5. ~Held(w)' /\ \A v \in Writer : v # w => (Held(v)' <=> Held(v))
  BY <1>2 DEF Held
<1>6. touched[w] = {}
  BY DEF FileIInv, ChunkInv, ChunkOK
<1>7. ChunkOK(w)' /\ LogOK(w)'
  BY <1>0, <1>2, <1>5, <1>6 DEF ChunkOK, LogOK
<1>8. ChunkInv' /\ ChunkLogInv'
  BY <1>4, <1>5, <1>7, ChunksKept
<1>9. \A v \in Writer : Held(v)' =>
        \A o \in offset'[wr'[v].ip] .. wr'[v].off - 1 : Good(addrs', cells', wr'[v].ip, o)
  BY <1>0, <1>2, <1>5 DEF FileIInv, BytesInv
<1>10. BytesInv'
  BY <1>9, DiskKept DEF BytesInv
<1> QED BY <1>3, <1>8, <1>10, DiskKept DEF FileIInv

(* A write is taken up.                                                    *)
LEMMA FilewriteStep ==
  ASSUME FileIInv, NEW w \in Writer, NEW i \in Inode, NEW n \in Lengths, filewrite(w, i, n)
  PROVE  FileIInv'
<1> DEFINE e == [Idle EXCEPT !.at = "next", !.ip = i, !.left = n]
<1>1. e \in WriteRec /\ e.at = "next" /\ e.ip = i
  BY FileDataAssumption DEF Idle, WriteRec
<1>2. wr' = [wr EXCEPT ![w] = e] /\ UNCHANGED <<bitmap, cells, addrs, size, offset, touched, told>>
  BY DEF filewrite
<1>3. ~Held(w)
  BY DEF filewrite, Idle, Held
<1>4. e.at = "idle" <=> e.ip = 0
  BY <1>1, FileFacts
<1>5. e.at \in {"idle", "next"}
  BY <1>1
<1> HIDE DEF e
<1> QED BY <1>1, <1>2, <1>3, <1>4, <1>5, WriterOut

(* writei's check is exact although it is made in uint arithmetic: a chunk *)
(* that it lets begin ends within the largest file.                        *)
LEMMA NotRefused ==
  ASSUME NEW off \in 0 .. Limit, NEW n \in 0 .. ChunkMax, NEW sz \in Nat, ~Refused(off, n, sz)
  PROVE  off <= sz /\ off + n <= Limit
<1>1. off \in Nat /\ n \in Nat /\ off < UWRAP /\ n < UWRAP /\ UWRAP \in Nat
  BY FileNumbers
<1>2. off <= sz /\ ~((off + n) % UWRAP < off) /\ ~((off + n) % UWRAP > Limit)
  BY <1>1 DEF Refused, Limit
<1> DEFINE s == (off + n) % UWRAP
<1>3. (off + n < UWRAP => s = off + n) /\ (off + n >= UWRAP => s = off + n - UWRAP)
  BY <1>1, Z3
<1> HIDE DEF s
<1>4. s >= off
  <2>1. s \in Int
    BY <1>1, <1>3
  <2> QED BY <1>1, <1>2, <2>1 DEF s
<1>5. off + n < UWRAP
  BY <1>1, <1>3, <1>4
<1>6. s <= Limit
  <2>1. s \in Int
    BY <1>1, <1>3
  <2> QED BY <1>1, <1>2, <2>1, FileNumbers DEF s
<1> QED BY <1>1, <1>2, <1>3, <1>5, <1>6, FileNumbers

(* A chunk is refused, or begins within the limit and with an empty        *)
(* transaction.                                                            *)
LEMMA BeginChunkStep ==
  ASSUME FileIInv, NEW w \in Writer, BeginChunk(w)
  PROVE  FileIInv'
<1> DEFINE j == wr[w]
           i == j.ip
           n == Least(j.left, ChunkMax)
           e == [j EXCEPT !.at = "loop", !.n = n, !.off = offset[i], !.tot = 0]
<1>0. /\ bitmap' = bitmap /\ cells' = cells /\ addrs' = addrs /\ size' = size /\ offset' = offset
      /\ touched' = touched /\ told' = told /\ j.at = "next" /\ Unheld(i)
      /\ wr' = [wr EXCEPT ![w] = IF Refused(offset[i], n, size[i]) THEN Idle ELSE e]
  BY DEF BeginChunk
<1>1. j \in WriteRec /\ i \in Inode /\ offset[i] \in 0 .. Limit /\ size[i] \in Nat
      /\ wr \in [Writer -> WriteRec] /\ 0 \notin Inode
  BY <1>0, FileFacts, FileNumbers
<1>2. ~Held(w)
  BY <1>0 DEF Held
<1>3. CASE Refused(offset[i], n, size[i])
  <2>1. wr' = [wr EXCEPT ![w] = Idle]
    BY <1>0, <1>3
  <2>2. Idle \in WriteRec /\ Idle.at = "idle" /\ Idle.ip = 0
    BY DEF Idle, WriteRec
  <2>3. Idle.at \in {"idle", "next"} /\ (Idle.at = "idle" <=> Idle.ip = 0)
    BY <2>2
  <2> QED BY <1>0, <1>2, <2>1, <2>2, <2>3, WriterOut
<1>4. CASE ~Refused(offset[i], n, size[i])
  <2>1. wr' = [wr EXCEPT ![w] = e]
    BY <1>0, <1>4
  <2>2. n \in 0 .. ChunkMax /\ n <= j.left
    BY <1>1, FileNumbers DEF Least, WriteRec
  <2>3. offset[i] <= size[i] /\ offset[i] + n <= Limit
    BY <1>1, <1>4, <2>2, NotRefused
  <2>4. e \in WriteRec /\ e.at = "loop" /\ e.ip = i /\ e.n = n /\ e.off = offset[i] /\ e.tot = 0 /\ e.left = j.left
    <3>1. n \in Nat /\ offset[i] \in Nat
      BY <1>1, <2>2, FileNumbers
    <3> HIDE DEF n
    <3> QED BY <1>1, <3>1 DEF WriteRec
  <2> HIDE DEF e, n
  <2>5. /\ wr' \in [Writer -> WriteRec] /\ wr'[w] = e /\ \A v \in Writer : v # w => wr'[v] = wr[v]
    BY <1>1, <2>1, <2>4
  <2>6. FileTypes'
    <3>1. FileTypes
      BY DEF FileIInv
    <3> QED BY <1>0, <2>5, <3>1 DEF FileTypes, WriteRec
  <2>7. \A v \in Writer : v # w => Aside(v)
    BY <1>0, <2>5 DEF Aside
  <2>8. Held(w)' /\ \A v \in Writer : v # w => (Held(v)' <=> Held(v))
    BY <2>4, <2>5 DEF Held
  <2>9. \A v \in Writer : v # w /\ Held(v) => wr[v].ip # wr'[w].ip
    BY <1>0, <2>4, <2>5 DEF Unheld, Held
  <2>10. touched[w] = {}
    BY <1>2 DEF FileIInv, ChunkInv, ChunkOK
  <2>11. ChunkOK(w)'
    <3>1. n <= ChunkMax /\ 0 <= n /\ offset[i] = offset[i] + 0 /\ i # 0
      BY <1>1, <2>2, FileNumbers
    <3> QED BY <1>0, <2>2, <2>3, <2>4, <2>5, <2>8, <3>1 DEF ChunkOK
  <2>12. LogOK(w)'
    <3>1. Logged(w)' = 0
      <4>1. touched'[w] \ TopLog(wr[w].ip)' = {}
        BY <1>0, <2>10
      <4> QED BY <1>0, <2>10, FS_EmptySet DEF Logged
    <3> QED BY <2>4, <2>5, <3>1 DEF LogOK
  <2>13. ChunkInv' /\ ChunkLogInv'
    BY <2>7, <2>9, <2>11, <2>12, ChunksKept
  <2>14. BytesInv'
    <3>1. ASSUME NEW v \in Writer, Held(v)'
          PROVE  \A o \in offset'[wr'[v].ip] .. wr'[v].off - 1 : Good(addrs', cells', wr'[v].ip, o)
      <4>1. CASE v = w
        <5>1. offset'[wr'[v].ip] .. wr'[v].off - 1 = {}
          BY <1>0, <1>1, <2>4, <2>5, <4>1
        <5> QED BY <5>1
      <4>2. CASE v # w
        BY <1>0, <2>5, <2>8, <3>1, <4>2 DEF FileIInv, BytesInv
      <4> QED BY <4>1, <4>2
    <3>2. \A k \in Inode : \A o \in 0 .. size'[k] - 1 : Good(addrs', cells', k, o)
      BY <1>0, DiskKept
    <3> QED BY <3>1, <3>2 DEF BytesInv
  <2>15. DiskTypes(bitmap, addrs, cells)' /\ Owned(bitmap, addrs, cells)'
    BY <1>0, DiskKept
  <2> QED BY <2>6, <2>13, <2>14, <2>15 DEF FileIInv
<1> QED BY <1>3, <1>4

(* A chunk ends: what it copied is below the size it leaves.               *)
LEMMA EndChunkStep ==
  ASSUME FileIInv, NEW w \in Writer, EndChunk(w)
  PROVE  FileIInv'
<1> DEFINE j == wr[w]
           i == j.ip
           e == IF j.tot # j.n \/ j.left = j.tot THEN Idle
                ELSE [j EXCEPT !.at = "next", !.left = @ - j.tot]
<1>0. /\ bitmap' = bitmap /\ cells' = cells /\ addrs' = addrs
      /\ size' = [size EXCEPT ![i] = Grown(j.off, @)]
      /\ offset' = [offset EXCEPT ![i] = @ + j.tot]
      /\ touched' = [touched EXCEPT ![w] = {}]
      /\ told' = [told EXCEPT ![i] = Grown(offset[i] + j.tot, @)]
      /\ wr' = [wr EXCEPT ![w] = e]
  BY DEF EndChunk
<1>1. Held(w) /\ j.at # "idle"
  BY DEF EndChunk, Held
<1>2. j \in WriteRec /\ i \in Inode /\ offset[i] \in Nat /\ size[i] \in Nat /\ size[i] <= Limit
      /\ wr \in [Writer -> WriteRec] /\ 0 \notin Inode /\ told = size
      /\ size \in [Inode -> Nat] /\ offset \in [Inode -> Nat]
  BY <1>1, FileFacts
<1>3. j.n \in Nat /\ j.left \in Nat /\ j.off \in Nat /\ j.tot \in Nat
  BY <1>2 DEF WriteRec
<1>4. /\ j.n <= j.left /\ j.tot <= j.n /\ offset[i] <= size[i] /\ j.off = offset[i] + j.tot
      /\ offset[i] + j.n <= Limit
  BY <1>1 DEF FileIInv, ChunkInv, ChunkOK
<1>5. e \in WriteRec /\ e.at \in {"idle", "next"} /\ (e.at = "idle" <=> e.ip = 0)
  <2>1. Idle \in WriteRec /\ Idle.at = "idle" /\ Idle.ip = 0
    BY DEF Idle, WriteRec
  <2>2. [j EXCEPT !.at = "next", !.left = @ - j.tot] \in WriteRec
        /\ [j EXCEPT !.at = "next", !.left = @ - j.tot].at = "next"
        /\ [j EXCEPT !.at = "next", !.left = @ - j.tot].ip = i
    <3>1. j.left - j.tot \in Nat
      BY <1>3, <1>4
    <3> QED BY <1>2, <3>1 DEF WriteRec
  <2> QED BY <1>2, <2>1, <2>2
<1> HIDE DEF e
<1>6. /\ wr' \in [Writer -> WriteRec] /\ wr'[w] = e /\ \A v \in Writer : v # w => wr'[v] = wr[v]
  BY <1>0, <1>2, <1>5
<1>7. touched \in [Writer -> SUBSET ({"bitmap", "block"} \X DataBlock)]
  BY DEF FileIInv, FileTypes
<1>8. /\ touched' \in [Writer -> SUBSET ({"bitmap", "block"} \X DataBlock)]
      /\ touched'[w] = {} /\ \A v \in Writer : v # w => touched'[v] = touched[v]
  BY <1>0, <1>7
<1>9. /\ size'[i] = Grown(j.off, size[i]) /\ \A k \in Inode : k # i => size'[k] = size[k]
      /\ offset'[i] = offset[i] + j.tot /\ \A k \in Inode : k # i => offset'[k] = offset[k]
      /\ told' = size'
  BY <1>0, <1>2, <1>4
<1>10. FileTypes'
  <2>1. Grown(j.off, size[i]) \in 0 .. Limit /\ offset[i] + j.tot \in 0 .. Limit
    BY <1>2, <1>3, <1>4, FileNumbers DEF Grown
  <2>2. size \in [Inode -> 0 .. Limit] /\ offset \in [Inode -> 0 .. Limit]
    BY DEF FileIInv, FileTypes
  <2>3. size' \in [Inode -> 0 .. Limit] /\ offset' \in [Inode -> 0 .. Limit]
    BY <1>0, <2>1, <2>2
  <2> QED BY <1>6, <1>8, <1>9, <2>3 DEF FileTypes, WriteRec
<1>11. \A v \in Writer : v # w => (Held(v) => wr[v].ip # i /\ wr[v].ip \in Inode)
  <2>1. \A v \in Writer : Held(v) => wr[v].ip \in Inode
    BY FileFacts DEF Held
  <2> QED BY <1>1, <2>1 DEF FileIInv, ChunkInv
<1>12. \A v \in Writer : v # w => Aside(v)
  <2> SUFFICES ASSUME NEW v \in Writer, v # w PROVE Aside(v)
    OBVIOUS
  <2> QED BY <1>0, <1>6, <1>8, <1>9, <1>11 DEF Aside
<1>13. ~Held(w)' /\ \A v \in Writer : v # w => (Held(v)' <=> Held(v))
  BY <1>5, <1>6 DEF Held
<1>14. ChunkOK(w)' /\ LogOK(w)'
  BY <1>5, <1>6, <1>8, <1>13 DEF ChunkOK, LogOK
<1>15. ChunkInv' /\ ChunkLogInv'
  BY <1>12, <1>13, <1>14, ChunksKept
<1>16. BytesInv'
  <2>0. BytesInv
    BY DEF FileIInv
  <2>1. ASSUME NEW k \in Inode, NEW o \in 0 .. size'[k] - 1 PROVE Good(addrs, cells, k, o)
    <3>1. CASE k # i
      BY <1>9, <2>0, <2>1, <3>1 DEF BytesInv
    <3>2. CASE k = i
      <4>1. o \in Nat /\ (o < size[i] \/ o < j.off)
        BY <1>2, <1>3, <1>9, <2>1, <3>2 DEF Grown
      <4>2. CASE o < size[i]
        BY <1>2, <2>0, <3>2, <4>1, <4>2 DEF BytesInv
      <4>3. CASE ~(o < size[i])
        <5>1. o \in offset[i] .. j.off - 1
          BY <1>2, <1>3, <1>4, <4>1, <4>3
        <5> QED BY <1>1, <2>0, <3>2, <5>1 DEF BytesInv
      <4> QED BY <4>2, <4>3
    <3> QED BY <3>1, <3>2
  <2>2. ASSUME NEW v \in Writer, Held(v)'
        PROVE  \A o \in offset'[wr'[v].ip] .. wr'[v].off - 1 : Good(addrs, cells, wr'[v].ip, o)
    <3>1. v # w
      BY <1>13, <2>2
    <3>2. wr'[v] = wr[v] /\ Held(v) /\ offset'[wr[v].ip] = offset[wr[v].ip]
      BY <1>6, <1>9, <1>11, <1>13, <2>2, <3>1
    <3> QED BY <2>0, <3>2 DEF BytesInv
  <2> QED BY <1>0, <2>1, <2>2 DEF BytesInv
<1>17. DiskTypes(bitmap, addrs, cells)' /\ Owned(bitmap, addrs, cells)'
  <2>1. DiskTypes(bitmap, addrs, cells) /\ Owned(bitmap, addrs, cells)
    BY DEF FileIInv
  <2> QED BY <1>0, <2>1
<1> QED BY <1>10, <1>15, <1>16, <1>17 DEF FileIInv

(* The offset of a file whose inode nobody holds is moved.                 *)
LEMMA OffsetStep ==
  ASSUME FileIInv, NEW i \in Inode, NEW z \in 0 .. Limit, offset' = [offset EXCEPT ![i] = z],
         \A w \in Writer : Held(w) => wr[w].ip # i,
         UNCHANGED <<bitmap, cells, addrs, size, wr, touched, told>>
  PROVE  FileIInv'
<1>0. /\ bitmap' = bitmap /\ cells' = cells /\ addrs' = addrs /\ size' = size /\ wr' = wr
      /\ touched' = touched /\ told' = told
      /\ \A w \in Writer : Held(w) => wr[w].ip # i
  OBVIOUS
<1>1. offset \in [Inode -> 0 .. Limit]
  BY DEF FileIInv, FileTypes
<1>2. offset' \in [Inode -> 0 .. Limit] /\ \A k \in Inode : k # i => offset'[k] = offset[k]
  BY <1>1
<1>3. \A v \in Writer : Held(v) => wr[v].ip \in Inode
  BY FileFacts DEF Held
<1>4. \A v \in Writer : Aside(v)
  BY <1>0, <1>2, <1>3 DEF Aside
<1>5. \A v \in Writer : ChunkOK(v)' /\ LogOK(v)' /\ (Held(v)' <=> Held(v))
  BY <1>4, OtherChunk
<1>6. ChunkInv' /\ ChunkLogInv'
  <2>1. \A u, v \in Writer : u # v /\ Held(u)' /\ Held(v)' => wr'[u].ip # wr'[v].ip
    BY <1>0, <1>5 DEF FileIInv, ChunkInv
  <2> QED BY <1>5, <2>1 DEF ChunkInv, ChunkLogInv
<1>7. FileTypes'
  <2>1. FileTypes
    BY DEF FileIInv
  <2> QED BY <1>0, <1>2, <2>1 DEF FileTypes
<1>8. BytesInv'
  <2>1. ASSUME NEW v \in Writer, Held(v)'
        PROVE  \A o \in offset'[wr'[v].ip] .. wr'[v].off - 1 : Good(addrs', cells', wr'[v].ip, o)
    <3>1. Held(v) /\ offset'[wr[v].ip] = offset[wr[v].ip]
      BY <1>0, <1>2, <1>3, <1>5, <2>1
    <3> QED BY <1>0, <3>1 DEF FileIInv, BytesInv
  <2>2. \A k \in Inode : \A o \in 0 .. size'[k] - 1 : Good(addrs', cells', k, o)
    BY <1>0, DiskKept
  <2> QED BY <2>1, <2>2 DEF BytesInv
<1>9. DiskTypes(bitmap, addrs, cells)' /\ Owned(bitmap, addrs, cells)'
  BY <1>0, DiskKept
<1> QED BY <1>6, <1>7, <1>8, <1>9 DEF FileIInv

(* A file that nobody writes is opened anew.                               *)
LEMMA ReopenStep ==
  ASSUME FileIInv, NEW i \in Inode, Reopen(i)
  PROVE  FileIInv'
<1>1. 0 \in 0 .. Limit
  BY FileNumbers
<1>2. \A w \in Writer : Held(w) => wr[w].ip # i
  BY DEF Reopen
<1> QED BY <1>1, <1>2, OffsetStep DEF Reopen

(* A read moves the offset to what it read, no further than the size.      *)
LEMMA FilereadStep ==
  ASSUME FileIInv, NEW i \in Inode, NEW n \in Nat, fileread(i, n)
  PROVE  FileIInv'
<1>1. offset[i] \in Nat /\ size[i] \in Nat /\ size[i] <= Limit /\ offset[i] <= Limit
  BY FileFacts
<1>2. Limit \in Nat
  BY FileNumbers
<1>3. PICK z : z = offset[i] + ReadLen(i, offset[i], n)
  OBVIOUS
<1>4. z \in 0 .. Limit
  BY <1>1, <1>2, <1>3 DEF ReadLen, Least
<1>5. \A w \in Writer : Held(w) => wr[w].ip # i
  BY DEF fileread, Unheld, Held
<1>6. /\ offset' = [offset EXCEPT ![i] = z]
      /\ UNCHANGED <<bitmap, cells, addrs, size, wr, touched, told>>
  BY <1>3 DEF fileread, FileIInv, FileTypes
<1> QED BY <1>4, <1>5, <1>6, OffsetStep

(* The blocks of an inode are what stands at its places.                   *)
LEMMA MappedPlaces ==
  ASSUME NEW i \in Inode, DiskTypes(bitmap, addrs, cells)
  PROVE  \A b : b # 0 => (b \in Mapped(i) <=> \E k \in Slots : BlockAt(addrs, cells, i, k) = b)
<1> USE FileDataAssumption
<1> SUFFICES ASSUME NEW b, b # 0
             PROVE  b \in Mapped(i) <=> \E k \in Slots : BlockAt(addrs, cells, i, k) = b
  OBVIOUS
<1> DEFINE t == addrs[i][NDIRECT]
<1>1. b \in Mapped(i) <=> (\E k \in 0 .. NDIRECT : b = addrs[i][k]) \/ (t # 0 /\ \E k \in 0 .. BSIZE - 1 : b = cells[t][k])
  BY DEF Mapped
<1>2. \A k \in 0 .. NDIRECT : k \in Slots /\ BlockAt(addrs, cells, i, k) = addrs[i][k]
  BY DEF Slots, BlockAt
<1>3. ASSUME t # 0, NEW k \in 0 .. BSIZE - 1
      PROVE  NDIRECT + 1 + k \in Slots /\ BlockAt(addrs, cells, i, NDIRECT + 1 + k) = cells[t][k]
  <2>1. NDIRECT + 1 + k \in Slots /\ ~(NDIRECT + 1 + k <= NDIRECT) /\ (NDIRECT + 1 + k) - NDIRECT - 1 = k
    BY DEF Slots
  <2> QED BY <1>3, <2>1 DEF BlockAt
<1>4. b \in Mapped(i) => \E k \in Slots : BlockAt(addrs, cells, i, k) = b
  <2>1. CASE \E k \in 0 .. NDIRECT : b = addrs[i][k]
    BY <1>2, <2>1
  <2>2. CASE t # 0 /\ \E k \in 0 .. BSIZE - 1 : b = cells[t][k]
    <3>1. PICK k \in 0 .. BSIZE - 1 : b = cells[t][k]
      BY <2>2
    <3> QED BY <1>3, <2>2, <3>1
  <2> QED BY <1>1, <2>1, <2>2
<1>5. ASSUME NEW k \in Slots, BlockAt(addrs, cells, i, k) = b PROVE b \in Mapped(i)
  <2>1. CASE k <= NDIRECT
    <3>1. k \in 0 .. NDIRECT
      BY <2>1 DEF Slots
    <3> QED BY <1>1, <1>2, <1>5, <3>1
  <2>2. CASE ~(k <= NDIRECT)
    <3>1. k - NDIRECT - 1 \in 0 .. BSIZE - 1
      BY <2>2 DEF Slots
    <3>2. t # 0 /\ b = cells[t][k - NDIRECT - 1]
      BY <1>5, <2>2 DEF BlockAt
    <3> QED BY <1>1, <3>1, <3>2
  <2> QED BY <2>1, <2>2
<1> QED BY <1>4, <1>5

(* An inode gives its blocks back, and no other inode's.                   *)
LEMMA ItruncStep ==
  ASSUME FileIInv, NEW i \in Inode, itrunc(i)
  PROVE  FileIInv'
<1> USE FileDataAssumption
<1>0. /\ Unheld(i) /\ bitmap' = bitmap \ Freed(i)
      /\ addrs' = [addrs EXCEPT ![i] = [k \in 0 .. NDIRECT |-> 0]]
      /\ size' = [size EXCEPT ![i] = 0] /\ told' = [told EXCEPT ![i] = 0]
      /\ cells' = [b \in DataBlock |-> IF b \in Freed(i) THEN Stale ELSE cells[b]]
      /\ offset' = offset /\ wr' = wr /\ touched' = touched
  BY DEF itrunc
<1>1. DiskTypes(bitmap, addrs, cells) /\ Owned(bitmap, addrs, cells)
  BY DEF FileIInv
<1>2. /\ bitmap \subseteq DataBlock /\ 0 \notin DataBlock
      /\ addrs \in [Inode -> [0 .. NDIRECT -> DataBlock \cup {0}]]
      /\ cells \in [DataBlock -> [Cells -> Int]] /\ Stale \in [Cells -> Int]
  BY <1>1 DEF DiskTypes, DataBlock, Stale, Cells
<1>3. \A b \in DataBlock : b \in Freed(i) <=> \E k \in Slots : BlockAt(addrs, cells, i, k) = b
  BY <1>1, <1>2, MappedPlaces DEF Freed
<1>4. /\ \A k \in Inode : k # i => addrs'[k] = addrs[k]
      /\ addrs'[i] = [k \in 0 .. NDIRECT |-> 0]
      /\ addrs' \in [Inode -> [0 .. NDIRECT -> DataBlock \cup {0}]]
      /\ cells' \in [DataBlock -> [Cells -> Int]]
      /\ \A b \in DataBlock : b \notin Freed(i) => cells'[b] = cells[b]
  BY <1>0, <1>2
<1>5. \A j \in Inode, k \in Slots : j # i /\ BlockAt(addrs, cells, j, k) # 0 =>
        BlockAt(addrs, cells, j, k) \in bitmap /\ BlockAt(addrs, cells, j, k) \notin Freed(i)
  <2> SUFFICES ASSUME NEW j \in Inode, NEW k \in Slots, j # i, BlockAt(addrs, cells, j, k) # 0
               PROVE  BlockAt(addrs, cells, j, k) \in bitmap /\ BlockAt(addrs, cells, j, k) \notin Freed(i)
    OBVIOUS
  <2>1. BlockAt(addrs, cells, j, k) \in bitmap
    BY <1>1 DEF Owned
  <2>2. ~ \E l \in Slots : BlockAt(addrs, cells, i, l) = BlockAt(addrs, cells, j, k)
    BY <1>1 DEF Owned
  <2> QED BY <1>2, <1>3, <2>1, <2>2
<1>6. NDIRECT \in 0 .. NDIRECT /\ NDIRECT \in Slots /\ \A j \in Inode : BlockAt(addrs, cells, j, NDIRECT) = addrs[j][NDIRECT]
  BY DEF Slots, BlockAt
<1>7. \A j \in Inode : j # i /\ addrs[j][NDIRECT] # 0 => cells'[addrs[j][NDIRECT]] = cells[addrs[j][NDIRECT]]
  BY <1>2, <1>4, <1>5, <1>6
<1>8. \A j \in Inode, k \in Slots : BlockAt(addrs', cells', j, k) = IF j = i THEN 0 ELSE BlockAt(addrs, cells, j, k)
  <2> SUFFICES ASSUME NEW j \in Inode, NEW k \in Slots
               PROVE  BlockAt(addrs', cells', j, k) = IF j = i THEN 0 ELSE BlockAt(addrs, cells, j, k)
    OBVIOUS
  <2>1. k <= NDIRECT => k \in 0 .. NDIRECT
    BY DEF Slots
  <2>2. CASE j = i
    BY <1>4, <1>6, <2>1, <2>2 DEF BlockAt
  <2>3. CASE j # i
    BY <1>4, <1>7, <2>3 DEF BlockAt
  <2> QED BY <2>2, <2>3
<1>9. DiskTypes(bitmap', addrs', cells')
  <2>1. \A j \in Inode : addrs'[j][NDIRECT] # 0 => cells'[addrs'[j][NDIRECT]] \in [Cells -> DataBlock \cup {0}]
    BY <1>1, <1>4, <1>6, <1>7 DEF DiskTypes
  <2> QED BY <1>0, <1>2, <1>4, <2>1 DEF DiskTypes
<1>10. Owned(bitmap', addrs', cells')
  <2>1. \A j \in Inode, k \in Slots : BlockAt(addrs', cells', j, k) # 0 => BlockAt(addrs', cells', j, k) \in bitmap'
    BY <1>0, <1>5, <1>8
  <2>2. ASSUME NEW b \in bitmap' PROVE \E j \in Inode, k \in Slots : BlockAt(addrs', cells', j, k) = b
    <3>1. b \in bitmap /\ b \notin Freed(i) /\ b \in DataBlock
      BY <1>0, <1>2, <2>2
    <3>2. PICK j \in Inode, k \in Slots : BlockAt(addrs, cells, j, k) = b
      BY <1>1, <3>1 DEF Owned
    <3>3. j # i
      BY <1>3, <3>1, <3>2
    <3> QED BY <1>8, <3>2, <3>3
  <2>3. ASSUME NEW j \in Inode, NEW m \in Inode, NEW k \in Slots, NEW l \in Slots,
               BlockAt(addrs', cells', j, k) # 0, BlockAt(addrs', cells', j, k) = BlockAt(addrs', cells', m, l)
        PROVE  j = m /\ k = l
    <3>1. j # i /\ m # i
      BY <1>8, <2>3
    <3>2. BlockAt(addrs, cells, j, k) # 0 /\ BlockAt(addrs, cells, j, k) = BlockAt(addrs, cells, m, l)
      BY <1>8, <2>3, <3>1
    <3> QED BY <1>1, <3>2 DEF Owned
  <2> QED BY <2>1, <2>2, <2>3 DEF Owned
<1>11. /\ size \in [Inode -> 0 .. Limit] /\ told = size
       /\ touched \in [Writer -> SUBSET ({"bitmap", "block"} \X DataBlock)]
  BY DEF FileIInv, FileTypes
<1>12. /\ size' \in [Inode -> 0 .. Limit] /\ told' = size' /\ size'[i] = 0
       /\ \A k \in Inode : k # i => size'[k] = size[k]
  BY <1>0, <1>11, FileNumbers
<1>13. FileTypes'
  <2>1. FileTypes
    BY DEF FileIInv
  <2> QED BY <1>0, <1>12, <2>1 DEF FileTypes
<1>14. \A v \in Writer : Held(v) => wr[v].ip \in Inode /\ wr[v].ip # i
  BY <1>0, FileFacts DEF Held, Unheld
<1>15. \A v \in Writer : Aside(v)
  <2> SUFFICES ASSUME NEW v \in Writer PROVE Aside(v)
    OBVIOUS
  <2> QED BY <1>0, <1>4, <1>12, <1>14 DEF Aside
<1>16. \A v \in Writer : ChunkOK(v)' /\ LogOK(v)' /\ (Held(v)' <=> Held(v))
  BY <1>15, OtherChunk
<1>17. ChunkInv' /\ ChunkLogInv'
  <2>1. \A u, v \in Writer : u # v /\ Held(u)' /\ Held(v)' => wr'[u].ip # wr'[v].ip
    BY <1>0, <1>16 DEF FileIInv, ChunkInv
  <2> QED BY <1>16, <2>1 DEF ChunkInv, ChunkLogInv
<1>18. ASSUME NEW j \in Inode, j # i, NEW o \in 0 .. Limit - 1, Good(addrs, cells, j, o)
       PROVE  Good(addrs', cells', j, o)
  <2> DEFINE l == SlotOf(o \div BSIZE)
             b == BlockAt(addrs, cells, j, l)
  <2>1. l \in Slots /\ b # 0 /\ cells[b][o % BSIZE] = ByteOf(j, o)
    BY <1>18, BytePlace DEF Good
  <2>2. b \in DataBlock /\ b \notin Freed(i)
    BY <1>2, <1>5, <1>18, <2>1
  <2>3. BlockAt(addrs', cells', j, l) = b
    BY <1>8, <1>18, <2>1
  <2> HIDE DEF b
  <2>4. cells'[b] = cells[b]
    BY <1>4, <2>2
  <2> QED BY <2>1, <2>3, <2>4 DEF Good
<1>19. BytesInv'
  <2>0. BytesInv
    BY DEF FileIInv
  <2>1. ASSUME NEW k \in Inode, NEW o \in 0 .. size'[k] - 1 PROVE Good(addrs', cells', k, o)
    <3>1. k # i /\ size'[k] = size[k]
      BY <1>12
    <3>2. o \in 0 .. Limit - 1
      BY <1>11, <2>1, <3>1, FileNumbers
    <3>3. Good(addrs, cells, k, o)
      BY <2>0, <2>1, <3>1 DEF BytesInv
    <3> QED BY <1>18, <3>1, <3>2, <3>3
  <2>2. ASSUME NEW v \in Writer, Held(v)', NEW o \in offset'[wr'[v].ip] .. wr'[v].off - 1
        PROVE  Good(addrs', cells', wr'[v].ip, o)
    <3>1. Held(v) /\ wr[v].ip \in Inode /\ wr[v].ip # i /\ wr'[v] = wr[v]
      BY <1>0, <1>14, <1>16, <2>2
    <3>2. o \in offset[wr[v].ip] .. wr[v].off - 1
      BY <1>0, <2>2, <3>1
    <3>3. o \in 0 .. Limit - 1
      <4>1. wr[v].off = offset[wr[v].ip] + wr[v].tot /\ wr[v].tot <= wr[v].n
            /\ offset[wr[v].ip] + wr[v].n <= Limit
        BY <3>1 DEF FileIInv, ChunkInv, ChunkOK
      <4>2. offset[wr[v].ip] \in Nat /\ wr[v].tot \in Nat /\ wr[v].n \in Nat
        BY <3>1, FileFacts DEF WriteRec
      <4> QED BY <3>2, <4>1, <4>2, FileNumbers
    <3>4. Good(addrs, cells, wr[v].ip, o)
      BY <2>0, <3>1, <3>2 DEF BytesInv
    <3> QED BY <1>18, <3>1, <3>3, <3>4
  <2> QED BY <2>1, <2>2 DEF BytesInv
<1> QED BY <1>9, <1>10, <1>13, <1>17, <1>19 DEF FileIInv

-----------------------------------------------------------------------------
(* A turn of writei's loop.                                                *)
Turn(w) == Least(wr[w].n - wr[w].tot, BSIZE - (wr[w].off % BSIZE))
BlockNo(w) == wr[w].off \div BSIZE
Mapping(w) == bmap(Disk, wr[w].ip, BlockNo(w))
NewCells(w) ==
  [c \in 0 .. BSIZE - 1 |->
     LET o == wr[w].off - (wr[w].off % BSIZE) + c IN
     IF o \in wr[w].off .. wr[w].off + Turn(w) - 1 THEN ByteOf(wr[w].ip, o)
     ELSE Mapping(w).d.cells[Mapping(w).addr][c]]

(* The disk bmap is given is the one there is.                             *)
LEMMA DiskIsOk ==
  ASSUME FileIInv
  PROVE  /\ OkDisk(Disk) /\ Disk.used = bitmap /\ Disk.cells = cells /\ Disk.addrs = addrs
         /\ Disk.log = {}
<1>1. DiskTypes(bitmap, addrs, cells) /\ Owned(bitmap, addrs, cells)
  BY DEF FileIInv
<1>2. Disk.used = bitmap /\ Disk.cells = cells /\ Disk.addrs = addrs /\ Disk.log = {}
  BY DEF Disk
<1>3. Disk \in DiskRec
  <2>1. /\ bitmap \in SUBSET DataBlock /\ cells \in [DataBlock -> [Cells -> Int]]
        /\ addrs \in [Inode -> [0 .. NDIRECT -> DataBlock \cup {0}]] /\ {} \in SUBSET LogEntry
    BY <1>1 DEF DiskTypes
  <2> QED BY <2>1 DEF Disk, DiskRec
<1> QED BY <1>1, <1>2, <1>3 DEF OkDisk

(* What a turn starts from.                                                *)
LEMMA TurnFacts ==
  ASSUME FileIInv, NEW w \in Writer, wr[w].at = "loop", wr[w].tot < wr[w].n
  PROVE  /\ wr[w] \in WriteRec /\ wr[w].ip \in Inode /\ Held(w)
         /\ wr[w].off \in 0 .. Limit - 1
         /\ wr[w].n \in Nat /\ wr[w].tot \in Nat /\ offset[wr[w].ip] \in Nat
         /\ wr[w].off = offset[wr[w].ip] + wr[w].tot /\ wr[w].n <= ChunkMax
         /\ offset[wr[w].ip] + wr[w].n <= Limit
         /\ BlockNo(w) \in 0 .. MAXFILE - 1
         /\ wr[w].off % BSIZE \in Cells /\ wr[w].off = BlockNo(w) * BSIZE + (wr[w].off % BSIZE)
         /\ Turn(w) \in Nat \ {0} /\ Turn(w) <= wr[w].n - wr[w].tot
         /\ Turn(w) <= BSIZE - (wr[w].off % BSIZE)
         /\ Turn(w) < wr[w].n - wr[w].tot => Turn(w) = BSIZE - (wr[w].off % BSIZE)
<1>1. wr[w] \in WriteRec /\ wr[w].ip \in Inode
  BY FileFacts
<1>2. Held(w)
  BY DEF Held
<1>3. wr[w].n \in Nat /\ wr[w].tot \in Nat /\ offset[wr[w].ip] \in Nat /\ wr[w].off \in Nat
  BY <1>1, FileFacts DEF WriteRec
<1>4. wr[w].off = offset[wr[w].ip] + wr[w].tot /\ wr[w].n <= ChunkMax /\ offset[wr[w].ip] + wr[w].n <= Limit
  BY <1>2 DEF FileIInv, ChunkInv, ChunkOK
<1>5. wr[w].off \in 0 .. Limit - 1
  BY <1>3, <1>4, FileNumbers
<1>6. BlockNo(w) \in 0 .. MAXFILE - 1
  BY <1>5, BytePlace DEF BlockNo
<1>7. wr[w].off % BSIZE \in Cells /\ wr[w].off = BlockNo(w) * BSIZE + (wr[w].off % BSIZE)
  BY <1>3, BlockOf DEF BlockNo
<1>8. wr[w].off % BSIZE \in Nat /\ wr[w].off % BSIZE < BSIZE /\ BSIZE \in Nat
  BY <1>7, FileDataAssumption DEF Cells
<1>9. /\ Turn(w) \in Nat \ {0} /\ Turn(w) <= wr[w].n - wr[w].tot
      /\ Turn(w) <= BSIZE - (wr[w].off % BSIZE)
      /\ Turn(w) < wr[w].n - wr[w].tot => Turn(w) = BSIZE - (wr[w].off % BSIZE)
  <2> DEFINE x == wr[w].n - wr[w].tot
             y == BSIZE - (wr[w].off % BSIZE)
  <2>1. x \in Nat \ {0} /\ y \in Nat \ {0} /\ Turn(w) = IF x < y THEN x ELSE y
    BY <1>3, <1>8 DEF Turn, Least
  <2> HIDE DEF x, y
  <2>2. Turn(w) \in Nat \ {0} /\ Turn(w) <= x /\ Turn(w) <= y /\ (Turn(w) < x => Turn(w) = y)
    BY <2>1
  <2> QED BY <2>2 DEF x, y
<1> QED BY <1>1, <1>2, <1>3, <1>4, <1>5, <1>6, <1>7, <1>9

(* What a turn maps.                                                       *)
LEMMA TurnMaps ==
  ASSUME FileIInv, NEW w \in Writer, wr[w].at = "loop", wr[w].tot < wr[w].n
  PROVE  /\ Maps(Disk, Mapping(w), wr[w].ip, SlotOf(BlockNo(w)))
         /\ SlotOf(BlockNo(w)) \in Slots /\ SlotOf(BlockNo(w)) # NDIRECT
         /\ Mapping(w).addr \in DataBlock \cup {0}
         /\ \A j \in Inode : \A o \in 0 .. Limit - 1 :
              Good(addrs, cells, j, o) => Good(Mapping(w).d.addrs, Mapping(w).d.cells, j, o)
<1> DEFINE i == wr[w].ip
           r == Mapping(w)
           k == SlotOf(BlockNo(w))
           d == Disk
<1>1. i \in Inode /\ BlockNo(w) \in 0 .. MAXFILE - 1
  BY TurnFacts
<1>2. OkDisk(d) /\ d.cells = cells /\ d.addrs = addrs
  BY DiskIsOk
<1> HIDE DEF d
<1>3. Maps(d, r, i, k) /\ k \in Slots /\ k # NDIRECT
  BY <1>1, <1>2, BmapMaps DEF Mapping, d
<1> HIDE DEF i, r, k
<1>4. r.addr = BlockAt(r.d.addrs, r.d.cells, i, k) /\ OkDisk(r.d)
  BY <1>3 DEF Maps
<1>5. r.addr \in DataBlock \cup {0}
  <2> DEFINE a == r.d.addrs
             c == r.d.cells
             u == r.d.used
  <2>1. DiskTypes(u, a, c)
    BY <1>4 DEF OkDisk
  <2>2. r.addr = BlockAt(a, c, i, k)
    BY <1>4
  <2> HIDE DEF a, c, u
  <2> QED BY <1>1, <1>3, <2>1, <2>2, PlaceTyped
<1>6. ASSUME NEW j \in Inode, NEW o \in 0 .. Limit - 1, Good(addrs, cells, j, o)
      PROVE  Good(r.d.addrs, r.d.cells, j, o)
  BY <1>1, <1>2, <1>3, <1>6, MapKeepsGood
<1>7. Maps(Disk, Mapping(w), wr[w].ip, SlotOf(BlockNo(w)))
  BY <1>3 DEF i, r, k, d
<1> QED BY <1>3, <1>5, <1>6, <1>7 DEF i, r, k

(* The new contents are the old ones with bytes at their places.           *)
LEMMA TurnCopies ==
  ASSUME FileIInv, NEW w \in Writer, wr[w].at = "loop", wr[w].tot < wr[w].n, Mapping(w).addr # 0
  PROVE  /\ Copied(wr[w].ip, BlockNo(w), Mapping(w).d.cells[Mapping(w).addr], NewCells(w))
         /\ NewCells(w) \in [Cells -> Int]
         /\ \A o \in wr[w].off .. wr[w].off + Turn(w) - 1 :
              /\ o \in Nat /\ o \div BSIZE = BlockNo(w) /\ o % BSIZE \in Cells
              /\ NewCells(w)[o % BSIZE] = ByteOf(wr[w].ip, o)
<1> DEFINE i == wr[w].ip
           bn == BlockNo(w)
           x == wr[w].off % BSIZE
           off == wr[w].off
           m == Turn(w)
           old == Mapping(w).d.cells[Mapping(w).addr]
           f == NewCells(w)
<1>1. /\ i \in Inode /\ bn \in Nat /\ off \in Nat /\ x \in Cells /\ off = bn * BSIZE + x
      /\ m \in Nat \ {0} /\ m <= BSIZE - x
  BY TurnFacts, FileDataAssumption, FileNumbers DEF MAXFILE, NINDIRECT
<1>2. BSIZE \in Nat \ {0} /\ bn * BSIZE \in Nat /\ x \in Nat
  BY <1>1, FileDataAssumption DEF Cells
<1>3. old \in [Cells -> Int]
  <2>1. Mapping(w).d.cells \in [DataBlock -> [Cells -> Int]]
    BY TurnMaps DEF Maps, OkDisk, DiskTypes
  <2>2. Mapping(w).addr \in DataBlock
    BY TurnMaps
  <2> QED BY <2>1, <2>2
<1>4. f = [c \in Cells |-> IF off - x + c \in off .. off + m - 1 THEN ByteOf(i, off - x + c) ELSE old[c]]
  BY DEF NewCells, Cells
<1>5. \A o \in Nat : ByteOf(i, o) \in Int
  <2>1. i \in Nat
    BY <1>1, FileDataAssumption
  <2> HIDE DEF i
  <2> QED BY <2>1 DEF ByteOf
<1> HIDE DEF i, bn, x, off, m, old, f
<1>6. \A c \in Cells : off - x + c = bn * BSIZE + c /\ bn * BSIZE + c \in Nat
  BY <1>1, <1>2 DEF Cells
<1>7. \A c \in Cells : f[c] = IF bn * BSIZE + c \in off .. off + m - 1 THEN ByteOf(i, bn * BSIZE + c) ELSE old[c]
  BY <1>4, <1>6
<1>8. f \in [Cells -> Int]
  <2>1. \A c \in Cells : f[c] \in Int
    BY <1>3, <1>5, <1>6, <1>7
  <2>2. f = [c \in Cells |-> f[c]]
    BY <1>4
  <2> QED BY <2>1, <2>2
<1>9. Copied(i, bn, old, f)
  BY <1>7, <1>8 DEF Copied
<1>10. ASSUME NEW o \in off .. off + m - 1
       PROVE  o \in Nat /\ o \div BSIZE = bn /\ o % BSIZE \in Cells /\ f[o % BSIZE] = ByteOf(i, o)
  <2> DEFINE c == o - bn * BSIZE
  <2>1. c \in Cells /\ o = bn * BSIZE + c /\ o \in Nat
    BY <1>1, <1>2 DEF Cells
  <2> HIDE DEF c
  <2>2. o \div BSIZE = bn /\ o % BSIZE = c
    BY <1>1, <2>1, BlockUnique
  <2> QED BY <1>7, <2>1, <2>2
<1> QED BY <1>8, <1>9, <1>10 DEF i, bn, x, off, m, old, f

(* Finite sets of log entries.                                             *)
LEMMA EntriesFinite ==
  ASSUME NEW S \in SUBSET ({"bitmap", "block"} \X DataBlock)
  PROVE  IsFiniteSet(S)
<1>1. IsFiniteSet(DataBlock)
  BY FileDataAssumption, FS_Interval DEF DataBlock
<1>2. IsFiniteSet({"bitmap"}) /\ {"bitmap"} \cup {"block"} = {"bitmap", "block"}
  BY FS_Singleton
<1>3. IsFiniteSet({"bitmap", "block"})
  BY <1>2, FS_AddElement
<1>4. IsFiniteSet({"bitmap", "block"} \X DataBlock)
  BY <1>1, <1>3, FS_Product
<1> QED BY <1>4, FS_Subset

(* Two more at most.                                                       *)
LEMMA AtMostTwo ==
  ASSUME NEW A, IsFiniteSet(A), NEW x, NEW y, NEW B
  PROVE  /\ B \subseteq (A \cup {x}) \cup {y} =>
              Cardinality(B) \in Nat /\ Cardinality(B) <= Cardinality(A) + 2
         /\ B \subseteq A \cup {x} => Cardinality(B) <= Cardinality(A) + 1
         /\ B \subseteq A => Cardinality(B) <= Cardinality(A)
<1> DEFINE C == A \cup {x}
           D == C \cup {y}
<1>1. IsFiniteSet(C) /\ Cardinality(C) <= Cardinality(A) + 1 /\ Cardinality(A) \in Nat
  BY FS_AddElement, FS_CardinalityType
<1> HIDE DEF C
<1>2. IsFiniteSet(D) /\ Cardinality(D) <= Cardinality(C) + 1 /\ Cardinality(C) \in Nat
  <2>1. Cardinality(C) \in Nat
    BY <1>1, FS_CardinalityType
  <2>2. IsFiniteSet(D) /\ (Cardinality(D) = Cardinality(C) \/ Cardinality(D) = Cardinality(C) + 1)
    BY <1>1, FS_AddElement
  <2> QED BY <2>1, <2>2
<1> HIDE DEF D
<1>3. \A S : IsFiniteSet(S) /\ B \subseteq S => IsFiniteSet(B) /\ Cardinality(B) <= Cardinality(S) /\ Cardinality(B) \in Nat
  BY FS_Subset, FS_CardinalityType
<1>4. Cardinality(D) \in Nat
  BY <1>2, FS_CardinalityType
<1> QED BY <1>1, <1>2, <1>3, <1>4 DEF C, D

(* What a turn adds to the transaction, the indirect block's apart: two    *)
(* blocks at most, one when the block was there, none when it was and      *)
(* nothing is copied.                                                      *)
LEMMA TurnLogs ==
  ASSUME FileIInv, NEW w \in Writer, wr[w].at = "loop", wr[w].tot < wr[w].n,
         addrs' = Mapping(w).d.addrs, wr'[w].ip = wr[w].ip,
         NEW more \in SUBSET {<<"block", Mapping(w).addr>>},
         touched'[w] = touched[w] \cup Mapping(w).d.log \cup more
  PROVE  /\ Logged(w) \in Nat /\ Logged(w)' \in Nat /\ Logged(w)' <= Logged(w) + 2
         /\ BlockAt(addrs, cells, wr[w].ip, SlotOf(BlockNo(w))) # 0 =>
              /\ Logged(w)' <= Logged(w) + 1
              /\ more = {} => Logged(w)' <= Logged(w)
<1> DEFINE i == wr[w].ip
           r == Mapping(w)
           k == SlotOf(BlockNo(w))
           A == touched[w] \ TopLog(i)
           B == touched'[w] \ TopLog(i)'
           e1 == <<"block", r.addr>>
           e2 == <<"bitmap", r.addr>>
<1>1. i \in Inode /\ Maps(Disk, r, i, k)
  BY TurnFacts, TurnMaps
<1>2. touched[w] \in SUBSET ({"bitmap", "block"} \X DataBlock)
  BY DEF FileIInv, FileTypes
<1>3. IsFiniteSet(A)
  BY <1>2, EntriesFinite
<1>4. Disk.log = {} /\ Disk.addrs = addrs /\ Disk.cells = cells /\ OkDisk(Disk)
  BY DiskIsOk
<1>5. r.d.log \in SUBSET LogEntry /\ \A x \in r.d.log : x[2] \in {r.addr, r.d.addrs[i][NDIRECT]}
  BY <1>1, <1>4 DEF Maps, OkDisk, DiskRec
<1>6. addrs[i][NDIRECT] # 0 => addrs'[i][NDIRECT] = addrs[i][NDIRECT]
  <2>1. NDIRECT \in Slots /\ \A a, c : BlockAt(a, c, i, NDIRECT) = a[i][NDIRECT]
    BY FileDataAssumption DEF Slots, BlockAt
  <2>2. BlockAt(addrs, cells, i, NDIRECT) # 0 =>
          BlockAt(r.d.addrs, r.d.cells, i, NDIRECT) = BlockAt(addrs, cells, i, NDIRECT)
    BY <1>1, <1>4, <2>1 DEF Maps, ExtDisk, Ext
  <2> QED BY <2>1, <2>2
<1>7. \A x \in touched[w] : x \in TopLog(i) => x \in TopLog(i)'
  <2> SUFFICES ASSUME NEW x \in touched[w], x \in TopLog(i) PROVE x \in TopLog(i)'
    OBVIOUS
  <2>1. x \in {"bitmap", "block"} \X DataBlock /\ x[2] = addrs[i][NDIRECT] /\ x[2] # 0
    BY <1>2, FileDataAssumption DEF TopLog, DataBlock
  <2> QED BY <1>6, <2>1 DEF TopLog
<1>8. \A x \in r.d.log : x \in TopLog(i)' \/ x \in {e1, e2}
  <2> SUFFICES ASSUME NEW x \in r.d.log PROVE x \in TopLog(i)' \/ x \in {e1, e2}
    OBVIOUS
  <2>1. x \in {"bitmap", "block"} \X DataBlock /\ x = <<x[1], x[2]>> /\ x[1] \in {"bitmap", "block"}
    BY <1>5 DEF LogEntry
  <2>2. x[2] = r.addr \/ x[2] = addrs'[i][NDIRECT]
    BY <1>5
  <2> QED BY <2>1, <2>2 DEF TopLog
<1> HIDE DEF e1, e2
<1>9. more \subseteq {e1}
  BY DEF e1
<1>10. \A x \in B : x \in A \/ x \in r.d.log \/ x \in more
  BY <1>7
<1>11. B \subseteq (A \cup {e1}) \cup {e2}
  BY <1>8, <1>9, <1>10
<1>12. Logged(w) = Cardinality(A) /\ Logged(w)' = Cardinality(B)
  <2>1. TopLog(wr[w].ip)' = TopLog(i)'
    BY DEF TopLog
  <2> QED BY <2>1 DEF Logged
<1>13. ASSUME BlockAt(addrs, cells, i, k) # 0
       PROVE  B \subseteq A \cup {e1} /\ (more = {} => B \subseteq A)
  <2>1. r.d.log = {}
    BY <1>1, <1>4, <1>13 DEF Maps
  <2> QED BY <1>9, <1>10, <2>1
<1>14. Cardinality(A) \in Nat
  BY <1>3, FS_CardinalityType
<1> HIDE DEF A, B, i, k
<1>15. Cardinality(B) \in Nat /\ Cardinality(B) <= Cardinality(A) + 2
  BY <1>3, <1>11, AtMostTwo
<1>16. BlockAt(addrs, cells, i, k) # 0 => Cardinality(B) <= Cardinality(A) + 1 /\ (more = {} => Cardinality(B) <= Cardinality(A))
  BY <1>3, <1>13, AtMostTwo
<1> QED BY <1>12, <1>14, <1>15, <1>16 DEF i, k

(* A turn starts on a block's first byte, or is the first one, and then a  *)
(* block it shares with bytes before it is there already.                  *)
LEMMA TurnStart ==
  ASSUME FileIInv, NEW w \in Writer, wr[w].at = "loop", wr[w].tot < wr[w].n
  PROVE  \/ /\ wr[w].tot = 0 /\ Logged(w) = 0 /\ wr[w].off % BSIZE = offset[wr[w].ip] % BSIZE
            /\ offset[wr[w].ip] % BSIZE # 0 =>
                 BlockAt(addrs, cells, wr[w].ip, SlotOf(BlockNo(w))) # 0
         \/ \E p \in Nat \ {0} : /\ Logged(w) <= 2 * p - Shared(w) /\ Reach(w) = p * BSIZE
                                 /\ wr[w].off % BSIZE = 0
<1> DEFINE i == wr[w].ip
           z == offset[i]
           s == z % BSIZE
           q == z \div BSIZE
<1>0. i \in Inode /\ z \in Nat /\ wr[w].tot \in Nat /\ wr[w].off = z + wr[w].tot /\ Held(w)
  BY TurnFacts
<1>1. q \in Nat /\ s \in Cells /\ z = q * BSIZE + s /\ s \in Nat /\ s < BSIZE /\ BSIZE \in Nat \ {0}
  BY <1>0, BlockOf, FileDataAssumption DEF Cells
<1> HIDE DEF s, q
<1>2. LogOK(w)
  BY DEF FileIInv, ChunkLogInv
<1>3. CASE wr[w].tot = 0 /\ Logged(w) = 0
  <2>1. wr[w].off = z
    BY <1>0, <1>3
  <2>2. ASSUME s # 0 PROVE BlockAt(addrs, cells, i, SlotOf(BlockNo(w))) # 0
    <3>1. s - 1 \in Cells /\ z - 1 = q * BSIZE + (s - 1) /\ z - 1 \in Nat
      <4>1. q * BSIZE \in Nat
        BY <1>1
      <4> QED BY <1>0, <1>1, <2>2, <4>1 DEF Cells
    <3>2. (z - 1) \div BSIZE = q
      BY <1>1, <3>1, BlockUnique
    <3>3. z - 1 \in 0 .. size[i] - 1
      <4>1. z <= size[i]
        BY <1>0 DEF FileIInv, ChunkInv, ChunkOK
      <4>2. size[i] \in Nat
        BY <1>0, FileFacts
      <4> QED BY <1>0, <3>1, <4>1, <4>2
    <3>4. Good(addrs, cells, i, z - 1)
      BY <1>0, <3>3 DEF FileIInv, BytesInv
    <3>5. BlockNo(w) = q
      BY <2>1 DEF BlockNo, q
    <3> QED BY <3>2, <3>4, <3>5 DEF Good
  <2> QED BY <1>3, <2>1, <2>2 DEF s
<1>4. CASE ~(wr[w].tot = 0 /\ Logged(w) = 0)
  <2>1. PICK p \in Nat \ {0} : Logged(w) <= 2 * p - Shared(w) /\ Reach(w) = p * BSIZE
    BY <1>2, <1>4 DEF LogOK
  <2>2. Reach(w) = s + wr[w].tot
    BY DEF Reach, s
  <2>3. wr[w].off = (q + p) * BSIZE + 0 /\ q + p \in Nat /\ 0 \in Cells
    <3>1. wr[w].off = q * BSIZE + p * BSIZE
      <4>1. q * BSIZE \in Nat /\ p * BSIZE \in Nat
        BY <1>1
      <4> QED BY <1>0, <1>1, <2>1, <2>2, <4>1
    <3>2. q * BSIZE + p * BSIZE = (q + p) * BSIZE + 0
      BY <1>1, Z3
    <3> QED BY <1>1, <3>1, <3>2 DEF Cells
  <2>4. wr[w].off % BSIZE = 0
    BY <2>3, BlockUnique
  <2> QED BY <2>1, <2>4
<1> QED BY <1>3, <1>4

(* The transaction after a turn that copied.                               *)
LEMMA TurnLogOK ==
  ASSUME FileIInv, NEW w \in Writer, wr[w].at = "loop", wr[w].tot < wr[w].n,
         addrs' = Mapping(w).d.addrs, offset' = offset,
         wr'[w].ip = wr[w].ip, wr'[w].at = "loop", wr'[w].n = wr[w].n, wr'[w].tot = wr[w].tot + Turn(w),
         touched'[w] = touched[w] \cup Mapping(w).d.log \cup {<<"block", Mapping(w).addr>>}
  PROVE  LogOK(w)'
<1> DEFINE i == wr[w].ip
           z == offset[i]
           s == z % BSIZE
           m == Turn(w)
           tot == wr[w].tot
           n == wr[w].n
<1>0. i \in Inode /\ z \in Nat /\ tot \in Nat /\ n \in Nat /\ wr[w].off = z + tot /\ tot < n
      /\ m \in Nat \ {0} /\ m <= n - tot /\ m <= BSIZE - (wr[w].off % BSIZE)
      /\ (m < n - tot => m = BSIZE - (wr[w].off % BSIZE))
  BY TurnFacts
<1>1. s \in Nat /\ s < BSIZE /\ BSIZE \in Nat \ {0}
  BY <1>0, BlockOf, FileDataAssumption DEF Cells
<1>2. /\ Logged(w) \in Nat /\ Logged(w)' \in Nat /\ Logged(w)' <= Logged(w) + 2
      /\ BlockAt(addrs, cells, i, SlotOf(BlockNo(w))) # 0 => Logged(w)' <= Logged(w) + 1
  BY TurnLogs
<1>3. Reach(w)' = s + (tot + m) /\ Shared(w)' = Shared(w) /\ Shared(w) = IF s = 0 THEN 0 ELSE 1
  BY DEF Reach, Shared
<1> SUFFICES \E p \in Nat \ {0} :
                /\ Logged(w)' <= 2 * p - Shared(w)'
                /\ (p - 1) * BSIZE < Reach(w)' /\ Reach(w)' <= p * BSIZE
                /\ tot + m < n => Reach(w)' = p * BSIZE
  BY DEF LogOK
<1>4. CASE /\ tot = 0 /\ Logged(w) = 0 /\ wr[w].off % BSIZE = s
           /\ s # 0 => BlockAt(addrs, cells, i, SlotOf(BlockNo(w))) # 0
  <2> HIDE DEF i, z, s, m, tot, n
  <2>1. Logged(w)' <= 2 * 1 - Shared(w)'
    BY <1>1, <1>2, <1>3, <1>4
  <2>2. (1 - 1) * BSIZE < Reach(w)' /\ Reach(w)' <= 1 * BSIZE /\ (tot + m < n => Reach(w)' = 1 * BSIZE)
    BY <1>0, <1>1, <1>3, <1>4
  <2> QED BY <2>1, <2>2
<1>5. ASSUME NEW p \in Nat \ {0}, Logged(w) <= 2 * p - Shared(w), Reach(w) = p * BSIZE, wr[w].off % BSIZE = 0
      PROVE  \E pp \in Nat \ {0} :
                /\ Logged(w)' <= 2 * pp - Shared(w)'
                /\ (pp - 1) * BSIZE < Reach(w)' /\ Reach(w)' <= pp * BSIZE
                /\ tot + m < n => Reach(w)' = pp * BSIZE
  <2>0. Reach(w) = s + tot
    BY DEF Reach
  <2> HIDE DEF i, z, s, m, tot, n
  <2>1. (p + 1) * BSIZE = p * BSIZE + BSIZE /\ (p + 1 - 1) * BSIZE = p * BSIZE /\ p * BSIZE \in Nat
    BY <1>1, Z3
  <2>2. Logged(w)' <= 2 * (p + 1) - Shared(w)'
    BY <1>1, <1>2, <1>3, <1>5
  <2>3. /\ (p + 1 - 1) * BSIZE < Reach(w)' /\ Reach(w)' <= (p + 1) * BSIZE
        /\ tot + m < n => Reach(w)' = (p + 1) * BSIZE
    BY <1>0, <1>1, <1>3, <1>5, <2>0, <2>1
  <2>4. p + 1 \in Nat \ {0}
    OBVIOUS
  <2> QED BY <2>2, <2>3, <2>4
<1> QED BY <1>4, <1>5, TurnStart

(* The transaction after a turn that failed.                               *)
LEMMA TurnEndOK ==
  ASSUME FileIInv, NEW w \in Writer, wr[w].at = "loop", wr[w].tot < wr[w].n,
         addrs' = Mapping(w).d.addrs, offset' = offset, wr'[w].ip = wr[w].ip, wr'[w].at = "end",
         touched'[w] = touched[w] \cup Mapping(w).d.log
  PROVE  LogOK(w)'
<1> DEFINE i == wr[w].ip
           z == offset[i]
           s == z % BSIZE
           tot == wr[w].tot
           n == wr[w].n
           K == ChunkBlocks
<1>0. i \in Inode /\ z \in Nat /\ tot \in Nat /\ n \in Nat /\ wr[w].off = z + tot /\ tot < n /\ n <= K * BSIZE
      /\ K \in Nat
  BY TurnFacts, FileNumbers
<1>1. s \in Nat /\ s < BSIZE /\ BSIZE \in Nat \ {0} /\ K * BSIZE \in Nat
  <2>1. s \in Cells /\ BSIZE \in Nat \ {0}
    BY <1>0, BlockOf, FileDataAssumption
  <2>2. s \in Nat /\ s < BSIZE
    BY <2>1 DEF Cells
  <2> QED BY <2>1, <2>2, FileNumbers
<1>2. /\ Logged(w) \in Nat /\ Logged(w)' \in Nat /\ Logged(w)' <= Logged(w) + 2
      /\ BlockAt(addrs, cells, i, SlotOf(BlockNo(w))) # 0 => Logged(w)' <= Logged(w)
  <2> DEFINE more == {}
  <2>1. touched'[w] = touched[w] \cup Mapping(w).d.log \cup more /\ more \in SUBSET {<<"block", Mapping(w).addr>>}
    OBVIOUS
  <2>2. more = {}
    OBVIOUS
  <2> HIDE DEF more
  <2> QED BY <2>1, <2>2, TurnLogs
<1>3. Shared(w)' = Shared(w) /\ Shared(w) = IF s = 0 THEN 0 ELSE 1
  BY DEF Shared
<1> SUFFICES Logged(w)' <= 2 * K + Shared(w)
  BY <1>3 DEF LogOK
<1>4. CASE /\ tot = 0 /\ Logged(w) = 0 /\ wr[w].off % BSIZE = s
           /\ s # 0 => BlockAt(addrs, cells, i, SlotOf(BlockNo(w))) # 0
  <2> HIDE DEF i, z, s, tot, n, K
  <2>1. K >= 1
    <3>1. K = 0 => K * BSIZE = 0
      BY <1>1
    <3> QED BY <1>0, <1>4, <3>1
  <2> QED BY <1>0, <1>1, <1>2, <1>3, <1>4, <2>1
<1>5. ASSUME NEW p \in Nat \ {0}, Logged(w) <= 2 * p - Shared(w), Reach(w) = p * BSIZE
      PROVE  Logged(w)' <= 2 * K + Shared(w)
  <2>0. Reach(w) = s + tot
    BY DEF Reach
  <2> HIDE DEF i, z, s, tot, n, K
  <2>1. p * BSIZE \in Nat /\ p * BSIZE < s + K * BSIZE
    BY <1>0, <1>1, <1>5, <2>0
  <2>2. p >= K + 1 => (K + 1) * BSIZE <= p * BSIZE
    <3>1. K + 1 < p => (K + 1) * BSIZE + BSIZE <= p * BSIZE
      BY <1>0, BlockOrder
    <3>2. (K + 1) * BSIZE \in Nat
      BY <1>0, <1>1
    <3> QED BY <1>0, <1>1, <2>1, <3>1, <3>2
  <2>3. (K + 1) * BSIZE = K * BSIZE + BSIZE
    BY <1>0, <1>1, Z3
  <2>4. p <= K
    BY <1>0, <1>1, <2>1, <2>2, <2>3
  <2>5. s = 0 => p < K
    BY <1>0, <1>1, <2>1, <2>4
  <2> QED BY <1>0, <1>2, <1>3, <1>5, <2>4, <2>5
<1> QED BY <1>4, <1>5, TurnStart

(* The disk after a turn that copied.                                      *)
LEMMA TurnDisk ==
  ASSUME FileIInv, NEW w \in Writer, wr[w].at = "loop", wr[w].tot < wr[w].n, Mapping(w).addr # 0,
         bitmap' = Mapping(w).d.used, addrs' = Mapping(w).d.addrs,
         cells' = [Mapping(w).d.cells EXCEPT ![Mapping(w).addr] = NewCells(w)]
  PROVE  /\ DiskTypes(bitmap', addrs', cells') /\ Owned(bitmap', addrs', cells')
         /\ \A j \in Inode : \A o \in 0 .. Limit - 1 :
              Good(addrs, cells, j, o) => Good(addrs', cells', j, o)
         /\ \A o \in wr[w].off .. wr[w].off + Turn(w) - 1 : Good(addrs', cells', wr[w].ip, o)
<1> DEFINE i == wr[w].ip
           r == Mapping(w)
           bn == BlockNo(w)
           k == SlotOf(bn)
           u == bitmap'
           a == addrs'
           c == r.d.cells
           c2 == cells'
           f == NewCells(w)
<1>1. i \in Inode /\ bn \in 0 .. MAXFILE - 1
  BY TurnFacts
<1>2. /\ Maps(Disk, r, i, k) /\ k \in Slots /\ k # NDIRECT
      /\ \A j \in Inode : \A o \in 0 .. Limit - 1 : Good(addrs, cells, j, o) => Good(a, c, j, o)
  BY TurnMaps
<1>3. DiskTypes(u, a, c) /\ Owned(u, a, c) /\ r.addr = BlockAt(a, c, i, k)
  BY <1>2 DEF Maps, OkDisk
<1>4. /\ Copied(i, bn, c[r.addr], f) /\ f \in [Cells -> Int]
      /\ \A o \in wr[w].off .. wr[w].off + Turn(w) - 1 :
           o \in Nat /\ o \div BSIZE = bn /\ o % BSIZE \in Cells /\ f[o % BSIZE] = ByteOf(i, o)
  BY TurnCopies
<1>5. Overwritten(a, c, c2, i, k, f) /\ BlockAt(a, c, i, k) # 0
  BY <1>3 DEF Overwritten
<1>6. Copied(i, bn, c[BlockAt(a, c, i, k)], f)
  BY <1>3, <1>4
<1>p. BlockAt(a, c, i, k) \in DataBlock /\ c \in [DataBlock -> [Cells -> Int]]
      /\ c2 = [c EXCEPT ![BlockAt(a, c, i, k)] = f]
  <2>1. r.addr \in DataBlock
    BY TurnMaps
  <2> QED BY <1>3, <2>1 DEF DiskTypes
<1> HIDE DEF i, r, k, u, a, c, c2, f, bn
<1>7. /\ DiskTypes(u, a, c2) /\ Owned(u, a, c2)
      /\ \A j \in Inode, l \in Slots : BlockAt(a, c2, j, l) = BlockAt(a, c, j, l)
  BY <1>1, <1>2, <1>3, <1>4, <1>5, WriteKeepsPlaces
<1>8. ASSUME NEW j \in Inode, NEW o \in 0 .. Limit - 1, Good(addrs, cells, j, o) PROVE Good(a, c2, j, o)
  <2>1. Good(a, c, j, o)
    BY <1>2, <1>8
  <2>2. Overwritten(a, c, c2, i, SlotOf(bn), f) /\ BlockAt(a, c, i, SlotOf(bn)) # 0 /\ Copied(i, bn, c[BlockAt(a, c, i, SlotOf(bn))], f)
    BY <1>5, <1>6 DEF k
  <2> QED BY <1>1, <1>3, <1>7, <2>1, <2>2, WriteKeepsGood
<1>9. ASSUME NEW o \in wr[w].off .. wr[w].off + Turn(w) - 1 PROVE Good(a, c2, i, o)
  <2> DEFINE b == BlockAt(a, c, i, k)
  <2>1. SlotOf(o \div BSIZE) = k /\ f[o % BSIZE] = ByteOf(i, o)
    BY <1>4, <1>9 DEF k
  <2>2. BlockAt(a, c2, i, k) = b /\ b # 0
    BY <1>1, <1>2, <1>5, <1>7
  <2>3. c2[b] = f
    BY <1>p
  <2> QED BY <2>1, <2>2, <2>3 DEF Good
<1> QED BY <1>7, <1>8, <1>9 DEF i, u, a, c2

(* A turn of the loop, whether it copies or fails.                         *)
LEMMA WriteBlockStep ==
  ASSUME FileIInv, NEW w \in Writer, WriteBlock(w)
  PROVE  FileIInv'
<1> DEFINE j == wr[w]
           i == j.ip
           r == Mapping(w)
           m == Turn(w)
<1>0. /\ j.at = "loop" /\ j.tot < j.n /\ bitmap' = r.d.used /\ addrs' = r.d.addrs
      /\ size' = size /\ offset' = offset /\ told' = told
  BY DEF WriteBlock, Mapping, BlockNo
<1>1. \/ /\ r.addr # 0 /\ cells' = [r.d.cells EXCEPT ![r.addr] = NewCells(w)]
         /\ wr' = [wr EXCEPT ![w].off = @ + m, ![w].tot = @ + m]
         /\ touched' = [touched EXCEPT ![w] = @ \cup r.d.log \cup {<<"block", r.addr>>}]
      \/ /\ cells' = r.d.cells /\ wr' = [wr EXCEPT ![w].at = "end"]
         /\ touched' = [touched EXCEPT ![w] = @ \cup r.d.log]
  BY DEF WriteBlock, Mapping, BlockNo, NewCells, Turn
<1>2. /\ j \in WriteRec /\ i \in Inode /\ Held(w) /\ j.off \in 0 .. Limit - 1
      /\ j.n \in Nat /\ j.tot \in Nat /\ offset[i] \in Nat /\ j.off = offset[i] + j.tot
      /\ offset[i] + j.n <= Limit /\ m \in Nat \ {0} /\ m <= j.n - j.tot
  BY <1>0, TurnFacts
<1>3. /\ wr \in [Writer -> WriteRec] /\ size[i] \in Nat
      /\ \A v \in Writer : Held(v) => wr[v].ip \in Inode
      /\ \A k \in Inode : size[k] \in Nat /\ size[k] <= Limit /\ offset[k] \in Nat
  BY <1>2, FileFacts DEF Held
<1>4. touched \in [Writer -> SUBSET ({"bitmap", "block"} \X DataBlock)]
  BY DEF FileIInv, FileTypes
<1>5. /\ Maps(Disk, r, i, SlotOf(BlockNo(w))) /\ r.addr \in DataBlock \cup {0}
      /\ \A k \in Inode : \A o \in 0 .. Limit - 1 :
           Good(addrs, cells, k, o) => Good(r.d.addrs, r.d.cells, k, o)
  BY <1>0, TurnMaps
<1>6. /\ r.d.log \in SUBSET ({"bitmap", "block"} \X DataBlock)
      /\ \A k \in Inode : k # i => addrs'[k] = addrs[k]
      /\ DiskTypes(r.d.used, r.d.addrs, r.d.cells) /\ Owned(r.d.used, r.d.addrs, r.d.cells)
  <2>1. Disk.addrs = addrs
    BY DiskIsOk
  <2> QED BY <1>0, <1>5, <2>1 DEF Maps, OkDisk, DiskRec, LogEntry, ExtDisk, Ext
<1>7. \A v \in Writer : v # w /\ Held(v) => wr[v].ip # i
  BY <1>2 DEF FileIInv, ChunkInv
<1>8. ChunkOK(w)
  BY DEF FileIInv, ChunkInv
<1> HIDE DEF r, m
<1>9. ASSUME NEW e \in WriteRec, wr' = [wr EXCEPT ![w] = e], e.at \in {"loop", "end"}, e.ip = i,
             e.n = j.n, e.left = j.left, e.tot \in Nat, j.tot <= e.tot, e.tot <= j.n, e.off = offset[i] + e.tot,
             NEW t \in SUBSET ({"bitmap", "block"} \X DataBlock), touched' = [touched EXCEPT ![w] = t],
             LogOK(w)', DiskTypes(bitmap', addrs', cells'), Owned(bitmap', addrs', cells'),
             \A k \in Inode : \A o \in 0 .. Limit - 1 : Good(addrs, cells, k, o) => Good(addrs', cells', k, o),
             \A o \in j.off .. e.off - 1 : Good(addrs', cells', i, o)
      PROVE  FileIInv'
  <2>1. wr' \in [Writer -> WriteRec] /\ wr'[w] = e /\ \A v \in Writer : v # w => wr'[v] = wr[v]
    BY <1>3, <1>9
  <2>2. /\ touched' \in [Writer -> SUBSET ({"bitmap", "block"} \X DataBlock)]
        /\ \A v \in Writer : v # w => touched'[v] = touched[v]
    BY <1>4, <1>9
  <2>3. FileTypes'
    <3>1. FileTypes
      BY DEF FileIInv
    <3> QED BY <1>0, <2>1, <2>2, <3>1 DEF FileTypes, WriteRec
  <2>4. \A v \in Writer : v # w => Aside(v)
    <3> SUFFICES ASSUME NEW v \in Writer, v # w PROVE Aside(v)
      OBVIOUS
    <3> QED BY <1>0, <1>3, <1>6, <1>7, <2>1, <2>2 DEF Aside
  <2>5. Held(w)' /\ \A v \in Writer : v # w => (Held(v)' <=> Held(v))
    BY <1>9, <2>1 DEF Held
  <2>6. ChunkOK(w)'
    <3>1. e.at # "idle" /\ e.ip # 0
      BY <1>2, <1>9, FileDataAssumption
    <3> QED BY <1>0, <1>2, <1>8, <1>9, <2>1, <2>5, <3>1 DEF ChunkOK
  <2>7. ChunkInv' /\ ChunkLogInv'
    <3>1. \A v \in Writer : v # w /\ Held(v) => wr[v].ip # wr'[w].ip
      BY <1>7, <1>9, <2>1
    <3> QED BY <1>9, <2>4, <2>6, <3>1, ChunksKept
  <2>8. BytesInv'
    <3>0. BytesInv
      BY DEF FileIInv
    <3>1. ASSUME NEW k \in Inode, NEW o \in 0 .. size'[k] - 1 PROVE Good(addrs', cells', k, o)
      <4>1. o \in 0 .. Limit - 1 /\ o \in 0 .. size[k] - 1
        BY <1>0, <1>3, <3>1, FileNumbers
      <4> QED BY <1>9, <3>0, <4>1 DEF BytesInv
    <3>2. ASSUME NEW v \in Writer, Held(v)', NEW o \in offset'[wr'[v].ip] .. wr'[v].off - 1
          PROVE  Good(addrs', cells', wr'[v].ip, o)
      <4>0. Held(v)
        BY <1>2, <2>5, <3>2
      <4>a. wr[v].ip \in Inode /\ wr[v] \in WriteRec /\ offset[wr[v].ip] \in Nat
        BY <1>3, <4>0
      <4>b. wr[v].off = offset[wr[v].ip] + wr[v].tot /\ wr[v].tot <= wr[v].n
            /\ offset[wr[v].ip] + wr[v].n <= Limit /\ wr[v].tot \in Nat /\ wr[v].n \in Nat
        BY <4>0, <4>a DEF FileIInv, ChunkInv, ChunkOK, WriteRec
      <4>1. \A x \in offset[wr[v].ip] .. wr[v].off - 1 : Good(addrs', cells', wr[v].ip, x)
        <5> SUFFICES ASSUME NEW x \in offset[wr[v].ip] .. wr[v].off - 1 PROVE Good(addrs', cells', wr[v].ip, x)
          OBVIOUS
        <5>1. x \in 0 .. Limit - 1
          BY <4>a, <4>b, FileNumbers
        <5>2. Good(addrs, cells, wr[v].ip, x)
          BY <3>0, <4>0 DEF BytesInv
        <5> QED BY <1>9, <4>a, <5>1, <5>2
      <4>2. CASE v # w
        BY <1>0, <2>1, <3>2, <4>1, <4>2
      <4>3. CASE v = w
        <5>1. o \in offset[i] .. e.off - 1 /\ wr'[v].ip = i
          BY <1>0, <1>9, <2>1, <3>2, <4>3
        <5>2. CASE o < j.off
          <6>1. o \in offset[i] .. j.off - 1
            BY <1>2, <5>1, <5>2
          <6> QED BY <4>1, <4>3, <5>1, <6>1
        <5>3. CASE ~(o < j.off)
          <6>1. o \in j.off .. e.off - 1
            BY <1>2, <5>1, <5>3
          <6> QED BY <1>9, <5>1, <6>1
        <5> QED BY <5>2, <5>3
      <4> QED BY <4>2, <4>3
    <3> QED BY <3>1, <3>2 DEF BytesInv
  <2> QED BY <1>9, <2>3, <2>7, <2>8 DEF FileIInv
<1>10. CASE /\ r.addr # 0 /\ cells' = [r.d.cells EXCEPT ![r.addr] = NewCells(w)]
            /\ wr' = [wr EXCEPT ![w].off = @ + m, ![w].tot = @ + m]
            /\ touched' = [touched EXCEPT ![w] = @ \cup r.d.log \cup {<<"block", r.addr>>}]
  <2> DEFINE e == [j EXCEPT !.off = @ + m, !.tot = @ + m]
             t == touched[w] \cup r.d.log \cup {<<"block", r.addr>>}
  <2>1. /\ e \in WriteRec /\ e.at = "loop" /\ e.ip = i /\ e.n = j.n /\ e.left = j.left
        /\ e.tot = j.tot + m /\ e.off = j.off + m
    <3>1. j.off + m \in Nat /\ j.tot + m \in Nat
      BY <1>2, FileNumbers
    <3> QED BY <1>0, <1>2, <3>1 DEF WriteRec
  <2>2. wr' = [wr EXCEPT ![w] = e]
    BY <1>2, <1>3, <1>10
  <2>3. touched' = [touched EXCEPT ![w] = t]
    BY <1>10
  <2>4. t \in SUBSET ({"bitmap", "block"} \X DataBlock)
    <3>1. r.addr \in DataBlock
      BY <1>5, <1>10
    <3> QED BY <1>4, <1>6, <3>1
  <2>a. touched'[w] = touched[w] \cup r.d.log \cup {<<"block", r.addr>>}
    BY <1>4, <2>3
  <2> HIDE DEF e, t
  <2>5. wr'[w] = e
    BY <1>3, <2>2
  <2>6. LogOK(w)'
    <3>1. wr'[w].ip = wr[w].ip /\ wr'[w].at = "loop" /\ wr'[w].n = wr[w].n /\ wr'[w].tot = wr[w].tot + Turn(w)
      BY <2>1, <2>5 DEF m
    <3>2. touched'[w] = touched[w] \cup Mapping(w).d.log \cup {<<"block", Mapping(w).addr>>}
          /\ addrs' = Mapping(w).d.addrs
      BY <1>0, <2>a DEF r
    <3> QED BY <1>0, <3>1, <3>2, TurnLogOK
  <2>7. /\ DiskTypes(bitmap', addrs', cells') /\ Owned(bitmap', addrs', cells')
        /\ \A k \in Inode : \A o \in 0 .. Limit - 1 : Good(addrs, cells, k, o) => Good(addrs', cells', k, o)
        /\ \A o \in j.off .. j.off + m - 1 : Good(addrs', cells', i, o)
    <3>1. Mapping(w).addr # 0 /\ bitmap' = Mapping(w).d.used /\ addrs' = Mapping(w).d.addrs
          /\ cells' = [Mapping(w).d.cells EXCEPT ![Mapping(w).addr] = NewCells(w)]
      BY <1>0, <1>10 DEF r
    <3>2. /\ DiskTypes(bitmap', addrs', cells') /\ Owned(bitmap', addrs', cells')
          /\ \A k \in Inode : \A o \in 0 .. Limit - 1 : Good(addrs, cells, k, o) => Good(addrs', cells', k, o)
          /\ \A o \in wr[w].off .. wr[w].off + Turn(w) - 1 : Good(addrs', cells', wr[w].ip, o)
      BY <1>0, <3>1, TurnDisk
    <3> QED BY <3>2 DEF m
  <2>8. e.tot \in Nat /\ j.tot <= e.tot /\ e.tot <= j.n /\ e.off = offset[i] + e.tot
    BY <1>2, <2>1, FileNumbers
  <2>9. e.at \in {"loop", "end"} /\ \A o \in j.off .. e.off - 1 : Good(addrs', cells', i, o)
    <3> SUFFICES ASSUME NEW o \in j.off .. e.off - 1 PROVE Good(addrs', cells', i, o)
      BY <2>1
    <3>1. j.off \in Nat /\ m \in Nat /\ e.off = j.off + m
      BY <1>2, <2>1, FileNumbers
    <3>2. o \in j.off .. j.off + m - 1
      BY <3>1
    <3> QED BY <2>7, <3>2
  <2> QED BY <1>9, <2>1, <2>2, <2>3, <2>4, <2>6, <2>7, <2>8, <2>9
<1>11. CASE /\ cells' = r.d.cells /\ wr' = [wr EXCEPT ![w].at = "end"]
            /\ touched' = [touched EXCEPT ![w] = @ \cup r.d.log]
  <2> DEFINE e == [j EXCEPT !.at = "end"]
             t == touched[w] \cup r.d.log
  <2>1. /\ e \in WriteRec /\ e.at = "end" /\ e.ip = i /\ e.n = j.n /\ e.left = j.left
        /\ e.tot = j.tot /\ e.off = j.off
    BY <1>2 DEF WriteRec
  <2>2. wr' = [wr EXCEPT ![w] = e]
    BY <1>2, <1>3, <1>11
  <2>3. touched' = [touched EXCEPT ![w] = t] /\ t \in SUBSET ({"bitmap", "block"} \X DataBlock)
    BY <1>4, <1>6, <1>11
  <2>a. touched'[w] = touched[w] \cup r.d.log
    BY <1>4, <2>3
  <2> HIDE DEF e, t
  <2>5. wr'[w] = e
    BY <1>3, <2>2
  <2>6. LogOK(w)'
    <3>1. wr'[w].ip = wr[w].ip /\ wr'[w].at = "end"
      BY <2>1, <2>5
    <3>2. touched'[w] = touched[w] \cup Mapping(w).d.log /\ addrs' = Mapping(w).d.addrs
      BY <1>0, <2>a DEF r
    <3> QED BY <1>0, <3>1, <3>2, TurnEndOK
  <2>7. /\ DiskTypes(bitmap', addrs', cells') /\ Owned(bitmap', addrs', cells')
        /\ \A k \in Inode : \A o \in 0 .. Limit - 1 : Good(addrs, cells, k, o) => Good(addrs', cells', k, o)
    BY <1>0, <1>5, <1>6, <1>11
  <2>8. e.tot \in Nat /\ j.tot <= e.tot /\ e.tot <= j.n /\ e.off = offset[i] + e.tot
    BY <1>0, <1>2, <2>1
  <2>9. e.at \in {"loop", "end"} /\ \A o \in j.off .. e.off - 1 : Good(addrs', cells', i, o)
    <3>1. j.off .. e.off - 1 = {}
      BY <1>2, <2>1, FileNumbers
    <3> QED BY <2>1, <3>1
  <2> QED BY <1>9, <2>1, <2>2, <2>3, <2>6, <2>7, <2>8, <2>9
<1> QED BY <1>1, <1>10, <1>11

(* What bmap finds where every block is there.                             *)
LEMMA FindsBlock ==
  ASSUME FileIInv, NEW i \in Inode, NEW o \in 0 .. Limit - 1, Good(addrs, cells, i, o)
  PROVE  cells[bmap(Disk, i, o \div BSIZE).addr][o % BSIZE] = ByteOf(i, o)
<1> DEFINE bn == o \div BSIZE
           k == SlotOf(bn)
           d == Disk
           r == bmap(d, i, bn)
<1>1. bn \in 0 .. MAXFILE - 1
  BY BytePlace
<1>2. OkDisk(d) /\ d.cells = cells /\ d.addrs = addrs
  BY DiskIsOk
<1>3. BlockAt(addrs, cells, i, k) # 0 /\ cells[BlockAt(addrs, cells, i, k)][o % BSIZE] = ByteOf(i, o)
  BY DEF Good
<1> HIDE DEF bn, d
<1>4. Maps(d, r, i, k)
  BY <1>1, <1>2, BmapMaps
<1>5. r.addr = BlockAt(addrs, cells, i, k)
  BY <1>2, <1>3, <1>4 DEF Maps
<1> HIDE DEF r
<1>6. cells[r.addr][o % BSIZE] = ByteOf(i, o)
  BY <1>3, <1>5
<1> QED BY <1>6 DEF r, d, bn

(* A file reads back what was written.                                     *)
LEMMA Reads ==
  ASSUME FileIInv
  PROVE  ReadsBackWrites
<1> SUFFICES ASSUME NEW i \in {k \in Inode : Unheld(k)}
             PROVE  /\ size[i] = told[i]
                    /\ \A off \in 0 .. size[i], n \in {1, BSIZE + 1, UWRAP - 1} :
                         \A k \in DOMAIN readi(i, off, n) : readi(i, off, n)[k] = ByteOf(i, off + k)
  BY DEF ReadsBackWrites
<1>1. size[i] \in Nat /\ size[i] <= Limit /\ size[i] = told[i] /\ i \in Inode
  BY FileFacts
<1>2. ASSUME NEW off \in 0 .. size[i], NEW n \in {1, BSIZE + 1, UWRAP - 1}, NEW k \in DOMAIN readi(i, off, n)
      PROVE  readi(i, off, n)[k] = ByteOf(i, off + k)
  <2> DEFINE m == IF off > size[i] \/ (off + n) % UWRAP < off THEN 0 ELSE Least(n, size[i] - off)
  <2>1. readi(i, off, n) = [x \in 0 .. m - 1 |-> cells[bmap(Disk, i, (off + x) \div BSIZE).addr][(off + x) % BSIZE]]
    BY DEF readi, ReadLen
  <2>2. n \in Nat
    BY FileDataAssumption, FileNumbers
  <2>3. m \in Nat /\ m <= size[i] - off
    BY <1>1, <2>2 DEF Least
  <2> HIDE DEF m
  <2>4. k \in 0 .. m - 1
    BY <2>1
  <2>5. off + k \in 0 .. Limit - 1 /\ off + k \in 0 .. size[i] - 1
    BY <1>1, <2>3, <2>4, FileNumbers
  <2>6. readi(i, off, n)[k] = cells[bmap(Disk, i, (off + k) \div BSIZE).addr][(off + k) % BSIZE]
    BY <2>1, <2>4
  <2> DEFINE o == off + k
  <2>7. Good(addrs, cells, i, o)
    BY <1>1, <2>5 DEF FileIInv, BytesInv
  <2>8. o \in 0 .. Limit - 1
    BY <2>5
  <2>9. readi(i, off, n)[k] = cells[bmap(Disk, i, o \div BSIZE).addr][o % BSIZE]
    BY <2>6
  <2> HIDE DEF o
  <2>10. cells[bmap(Disk, i, o \div BSIZE).addr][o % BSIZE] = ByteOf(i, o)
    BY <1>1, <2>7, <2>8, FindsBlock
  <2> QED BY <2>9, <2>10 DEF o
<1> QED BY <1>1, <1>2

(* Every block in use has one owner.                                       *)
LEMMA OwnedOnce ==
  ASSUME FileIInv
  PROVE  BlocksOwnedOnce
<1>1. DiskTypes(bitmap, addrs, cells) /\ Owned(bitmap, addrs, cells)
  BY DEF FileIInv
<1>2. bitmap \subseteq DataBlock /\ 0 \notin DataBlock
  BY <1>1, FileDataAssumption DEF DiskTypes, DataBlock
<1>3. \A i \in Inode : \A b : b \in Mine(i) <=> b # 0 /\ \E k \in Slots : BlockAt(addrs, cells, i, k) = b
  <2> SUFFICES ASSUME NEW i \in Inode, NEW b
               PROVE  b \in Mine(i) <=> b # 0 /\ \E k \in Slots : BlockAt(addrs, cells, i, k) = b
    OBVIOUS
  <2>1. b # 0 => (b \in Mapped(i) <=> \E k \in Slots : BlockAt(addrs, cells, i, k) = b)
    BY <1>1, MappedPlaces
  <2> QED BY <2>1 DEF Mine
<1>4. bitmap = UNION {Mine(i) : i \in Inode}
  <2>1. ASSUME NEW b \in bitmap PROVE \E i \in Inode : b \in Mine(i)
    <3>1. PICK i \in Inode, k \in Slots : BlockAt(addrs, cells, i, k) = b
      BY <1>1, <2>1 DEF Owned
    <3>2. b # 0
      BY <1>2, <2>1
    <3> QED BY <1>3, <3>1, <3>2
  <2>2. ASSUME NEW i \in Inode, NEW b \in Mine(i) PROVE b \in bitmap
    <3>1. PICK k \in Slots : BlockAt(addrs, cells, i, k) = b
      BY <1>3, <2>2
    <3>2. b # 0
      BY <1>3, <2>2
    <3> QED BY <1>1, <3>1, <3>2 DEF Owned
  <2> QED BY <2>1, <2>2
<1>5. ASSUME NEW i \in Inode, NEW j \in Inode, i # j PROVE Mine(i) \cap Mine(j) = {}
  <2> SUFFICES ASSUME NEW b \in Mine(i), b \in Mine(j) PROVE FALSE
    OBVIOUS
  <2>1. PICK k \in Slots : BlockAt(addrs, cells, i, k) = b
    BY <1>3
  <2>2. PICK l \in Slots : BlockAt(addrs, cells, j, l) = b
    BY <1>3
  <2>3. b # 0
    BY <1>3
  <2> QED BY <1>1, <1>5, <2>1, <2>2, <2>3 DEF Owned
<1>6. ASSUME NEW i \in Inode, NEW a \in 0 .. NDIRECT, NEW b \in 0 .. NDIRECT, a # b, addrs[i][a] # 0
      PROVE  addrs[i][a] # addrs[i][b]
  <2>1. a \in Slots /\ b \in Slots
    BY FileDataAssumption DEF Slots
  <2>2. BlockAt(addrs, cells, i, a) = addrs[i][a] /\ BlockAt(addrs, cells, i, b) = addrs[i][b]
    BY DEF BlockAt
  <2> QED BY <1>1, <1>6, <2>1, <2>2 DEF Owned
<1> QED BY <1>4, <1>5, <1>6 DEF BlocksOwnedOnce

(* A chunk fits the transaction it was cut for.                            *)
LEMMA FitsInLog ==
  ASSUME FileIInv
  PROVE  WriteFitsInLog
<1> SUFFICES ASSUME NEW w \in Writer PROVE Cardinality(touched[w]) + 1 <= TxBlocks
  BY DEF WriteFitsInLog
<1>0. ChunkBlocks \in Nat /\ 2 * ChunkBlocks + 4 <= TxBlocks /\ TxBlocks \in Nat
      /\ ChunkMax = ChunkBlocks * BSIZE /\ BSIZE \in Nat \ {0} /\ ChunkMax \in Nat
  BY FileNumbers, FileDataAssumption
<1>1. CASE ~Held(w)
  <2>1. touched[w] = {}
    BY <1>1 DEF FileIInv, ChunkInv, ChunkOK
  <2>2. Cardinality(touched[w]) = 0
    BY <2>1, FS_EmptySet
  <2> QED BY <1>0, <2>2
<1>2. CASE Held(w)
  <2> DEFINE i == wr[w].ip
             s == offset[i] % BSIZE
             K == ChunkBlocks
             A == touched[w] \ TopLog(i)
             t == addrs[i][NDIRECT]
  <2>1. i \in Inode /\ offset[i] \in Nat /\ wr[w].tot \in Nat /\ wr[w].n \in Nat
    BY <1>2, FileFacts DEF Held, WriteRec
  <2>2. s \in Nat /\ s < BSIZE
    BY <2>1, BlockOf, FileDataAssumption DEF Cells
  <2>3. wr[w].tot <= wr[w].n /\ wr[w].n <= ChunkMax
    BY <1>2 DEF FileIInv, ChunkInv, ChunkOK
  <2>4. LogOK(w)
    BY DEF FileIInv, ChunkLogInv
  <2>5. Shared(w) = (IF s = 0 THEN 0 ELSE 1) /\ Reach(w) = s + wr[w].tot
    BY DEF Shared, Reach
  <2>6. touched[w] \in SUBSET ({"bitmap", "block"} \X DataBlock)
    BY DEF FileIInv, FileTypes
  <2>7. IsFiniteSet(A) /\ Logged(w) = Cardinality(A)
    BY <2>6, EntriesFinite DEF Logged
  <2>8. Cardinality(A) \in Nat
    BY <2>7, FS_CardinalityType
  <2>9. touched[w] \subseteq (A \cup {<<"bitmap", t>>}) \cup {<<"block", t>>}
    BY DEF TopLog
  <2> HIDE DEF A, s, t, i, K
  <2>10. Cardinality(touched[w]) \in Nat /\ Cardinality(touched[w]) <= Logged(w) + 2
    BY <2>7, <2>9, AtMostTwo
  <2>11. Logged(w) <= 2 * K + 1
    <3>1. CASE wr[w].at = "end"
      BY <1>0, <2>4, <2>5, <2>7, <2>8, <3>1 DEF LogOK, K
    <3>2. CASE wr[w].at # "end"
      <4>1. wr[w].at = "loop"
        BY <1>2, <3>2 DEF Held
      <4>2. CASE Logged(w) = 0
        BY <1>0, <4>2 DEF K
      <4>3. CASE Logged(w) # 0
        <5>1. PICK p \in Nat \ {0} : Logged(w) <= 2 * p - Shared(w) /\ (p - 1) * BSIZE < Reach(w)
          BY <2>4, <4>1, <4>3 DEF LogOK
        <5>2. K \in Nat /\ K * BSIZE \in Nat /\ Reach(w) <= s + K * BSIZE
          BY <1>0, <2>1, <2>2, <2>3, <2>5 DEF K
        <5>3. (p - 1) * BSIZE \in Int
          BY <1>0
        <5>4. K + 1 <= p - 1 => K * BSIZE + BSIZE <= (p - 1) * BSIZE
          BY <5>2, BlockOrder
        <5>5. p <= K + 1
          BY <1>0, <2>1, <2>2, <2>5, <5>1, <5>2, <5>3, <5>4
        <5>6. s = 0 => p <= K
          <6>1. p = K + 1 => p - 1 = K
            BY <5>2
          <6> QED BY <1>0, <2>1, <2>5, <5>1, <5>2, <5>5, <6>1
        <5> QED BY <2>5, <2>7, <2>8, <5>1, <5>2, <5>5, <5>6
      <4> QED BY <4>2, <4>3
    <3> QED BY <3>1, <3>2
  <2> QED BY <1>0, <2>7, <2>8, <2>10, <2>11 DEF K
<1> QED BY <1>1, <1>2

(* The invariant says what the file system promises.                       *)
LEMMA FilesAreRight == FileIInv => DataInv
<1> SUFFICES ASSUME FileIInv PROVE DataInv
  OBVIOUS
<1>1. DataTypeOK
  <2>1. bitmap \subseteq DataBlock /\ \A i \in Inode : addrs[i] \in [0 .. NDIRECT -> DataBlock \cup {0}]
    BY DEF FileIInv, DiskTypes
  <2>2. \A i \in Inode : size[i] \in 0 .. MAXFILE * BSIZE /\ offset[i] \in 0 .. MAXFILE * BSIZE
    BY DEF FileIInv, FileTypes, Limit
  <2>3. ASSUME NEW w \in Writer, wr[w].at = "loop", wr[w].tot < wr[w].n PROVE wr[w].off \div BSIZE < MAXFILE
    <3>1. BlockNo(w) \in 0 .. MAXFILE - 1
      BY <2>3, TurnFacts
    <3>2. MAXFILE \in Nat
      BY FileDataAssumption DEF MAXFILE, NINDIRECT
    <3> QED BY <3>1, <3>2 DEF BlockNo
  <2> QED BY <2>1, <2>2, <2>3 DEF DataTypeOK
<1> QED BY <1>1, Reads, OwnedOnce, FitsInLog DEF DataInv

(* A step of the file system keeps it.                                     *)
LEMMA FileStep == FileIInv /\ [DataNext]_dataVars => FileIInv'
<1> SUFFICES ASSUME FileIInv, [DataNext]_dataVars PROVE FileIInv'
  OBVIOUS
<1>1. CASE \E w \in Writer : BeginChunk(w) \/ WriteBlock(w) \/ EndChunk(w)
  BY <1>1, BeginChunkStep, WriteBlockStep, EndChunkStep
<1>2. CASE \E w \in Writer, i \in Inode, n \in Lengths : filewrite(w, i, n)
  BY <1>2, FilewriteStep
<1>3. CASE \E i \in Inode : itrunc(i) \/ Reopen(i)
  BY <1>3, ItruncStep, ReopenStep
<1>4. CASE UNCHANGED dataVars
  BY <1>4 DEF dataVars, FileIInv, FileTypes, ChunkInv, ChunkOK, BytesInv, ChunkLogInv, LogOK,
             Held, Logged, TopLog, Shared, Reach
<1>5. CASE \E i \in Inode, n \in Lengths : fileread(i, n)
  BY <1>5, FilereadStep, FileDataAssumption
<1> QED BY <1>1, <1>2, <1>3, <1>4, <1>5 DEF DataNext

(* On any disk, with any number of writers, any inodes and any MAXOPBLOCKS *)
(* of four or more: a block of the bitmap has one owner, a file reads back *)
(* what was reported written, and no chunk that filewrite cuts writes more *)
(* blocks than its transaction may, aligned or not, whether the disk fills *)
(* up or not.                                                              *)
THEOREM DataCorrect == DataSpec => []DataInv
<1>1. DataSpec => DataInit /\ [][DataNext]_dataVars
  BY PTL DEF DataSpec
<1> QED BY <1>1, FileInit, FileStep, FilesAreRight, PTL
-----------------------------------------------------------------------------
(* What namex, iput and the calls of sysfile.c rely on.                    *)

Pcs == {"dead", "user", "walk", "link to", "link bad", "end_op"}
Types == {"free", "dir", "file"}

FsType(f) ==
  f \in [type : [Inum -> Types], nlink : [Inum -> Int],
         ent : [Inum -> [Name -> Linkable]], up : [Inum -> Inum]]

TableTypes ==
  /\ iref \in [Inum -> Int] /\ leaked \in [Inum -> Nat]
  /\ cwd \in [Agent -> Linkable] /\ jail \in [Agent -> Linkable]
  /\ fd \in [Agent -> Linkable] /\ ip \in [Agent -> Linkable]
  /\ held \in [Agent -> Linkable] /\ todo \in [Agent -> Seq(Inum)]
  /\ \A p \in Agent : Len(todo[p]) <= 2

FlowTypes ==
  /\ pc \in [Agent -> Pcs] /\ freed \subseteq Agent
  /\ panic \in {"no", "ilock: no type"}
  /\ removed \subseteq Inum /\ strays \subseteq Inum /\ slipped \subseteq Inum

(* What a process points at in each state of its call.                     *)
CallOf(p) ==
  /\ pc[p] \in {"dead", "user"} => ip[p] = 0 /\ held[p] = 0 /\ todo[p] = << >>
  /\ pc[p] = "dead" => cwd[p] = 0
  /\ pc[p] \in {"user", "walk", "link to", "link bad"} => cwd[p] # 0
  /\ pc[p] = "walk" => ip[p] # 0 /\ held[p] = 0
  /\ pc[p] = "link to" => ip[p] # 0 /\ held[p] # 0
  /\ pc[p] = "link bad" => ip[p] = 0 /\ held[p] # 0
  /\ pc[p] = "end_op" => ip[p] = 0 /\ held[p] = 0 /\ todo[p] # << >>
  /\ cwd[p] = 0 => jail[p] = 0 /\ fd[p] = 0
CallInv == \A p \in Agent : CallOf(p)

(* Only a directory has entries, and they name inodes in use.              *)
EntryInv ==
  /\ fs.type[ROOTINO] = "dir"
  /\ \A k \in Inum, n \in Name : fs.ent[k][n] # 0 =>
       fs.type[k] = "dir" /\ fs.ent[k][n] # k /\ fs.type[fs.ent[k][n]] # "free"

(* ".." of a directory is where its name is, until it is removed.          *)
UpInv ==
  \A i \in Inum :
    /\ fs.type[i] # "dir" => fs.up[i] = ROOTINO
    /\ i \notin removed \cup strays =>
         fs.up[i] = ROOTINO \/ \E n \in Name : fs.ent[fs.up[i]][n] = i

(* What a directory outside the tree names is lost.                        *)
DetachedInv ==
  \A d \in Inum : fs.type[d] = "dir" /\ Detached(d) =>
    \A n \in Name : fs.ent[d][n] # 0 => fs.ent[d][n] \in strays

HeldInv == \A p \in Agent : held[p] # 0 => fs.type[held[p]] = "file"

(* nlink in the middle of calls: sys_link counts a name before it exists.  *)
(* A lost inode may have more links than names.                            *)
Holders(h, i) == {p \in Agent : h[p] = i}
LinksIn(f, h, i) == Cardinality(Entries(f, i)) + Cardinality(Subdirs(f, i))
                    + (IF i = ROOTINO THEN 1 ELSE 0) + Cardinality(Holders(h, i))
LinkOf(i) ==
  /\ fs.nlink[i] >= 0
  /\ fs.type[i] # "free" => /\ fs.nlink[i] >= LinksIn(fs, held, i)
                            /\ i \notin strays => fs.nlink[i] = LinksIn(fs, held, i)
LinkInv == \A i \in Inum : LinkOf(i)

TreeInv == EntryInv /\ UpInv /\ DetachedInv /\ HeldInv /\ LinkInv

(* UnlinkedFreedUnlessReused also holds in the middle of calls.            *)
SlipInv ==
  \A i \in Inum :
    fs.type[i] # "free" /\ fs.nlink[i] = 0 => iref[i] > 0 \/ i \in slipped

NamesIInv == /\ FsType(fs) /\ TableTypes /\ FlowTypes
             /\ CallInv /\ RefsAreHeld /\ TreeInv /\ SlipInv

-----------------------------------------------------------------------------
(* Counting pointers.                                                      *)

One(b) == IF b THEN 1 ELSE 0
Put(p, k) == IF k <= Len(todo[p]) THEN todo[p][k] ELSE 0
PutRefs(p, j) == One(Put(p, 1) = j) + One(Put(p, 2) = j)
KeptRefs(p, j) == One(cwd[p] = j) + One(jail[p] = j) + One(fd[p] = j)
                  + One(ip[p] = j) + One(held[p] = j)
RefsOf(p, j) == {x \in Refs(j) : x[1] = p}
SlotRef(p, k) ==
  CASE k = 1 -> cwd[p] [] k = 2 -> jail[p] [] k = 3 -> fd[p] [] k = 4 -> ip[p]
    [] k = 5 -> held[p] [] k = 6 -> Put(p, 1) [] OTHER -> Put(p, 2)

(* Inums are the numbers from 1; 0 is none of them.                        *)
LEMMA InumFacts == /\ Inum \subseteq Nat /\ 0 \notin Inum /\ ROOTINO \in Inum
                   /\ Linkable = Inum \cup {0} /\ IsFiniteSet(Inum)
<1>1. NINUM \in Nat /\ NINUM > 1
  BY NamesAssumption
<1>2. IsFiniteSet(1 .. NINUM)
  BY <1>1, FS_Interval
<1> QED BY <1>1, <1>2 DEF Inum, ROOTINO, Linkable

(* The seven pointers a process can have, one by one.                      *)
LEMMA SlotIsPointer ==
  ASSUME TableTypes, NEW p \in Agent, NEW j \in Inum, NEW k \in 1 .. 7
  PROVE  k <= Len(Pointers(p)) /\ Pointers(p)[k] = j <=> SlotRef(p, k) = j
<1>1. todo[p] \in Seq(Inum) /\ Len(todo[p]) \in 0 .. 2 /\ j # 0 /\ Len(todo[p]) \in Nat
  <2>1. todo[p] \in Seq(Inum) /\ Len(todo[p]) <= 2
    BY DEF TableTypes
  <2>2. Len(todo[p]) \in Nat
    BY <2>1, LenProperties
  <2>3. Len(todo[p]) \in 0 .. 2
    <3>1. \A l \in Nat : l <= 2 => l \in 0 .. 2
      OBVIOUS
    <3> QED BY <2>1, <2>2, <3>1, Zenon
  <2>4. j # 0
    BY InumFacts
  <2> QED BY <2>1, <2>2, <2>3, <2>4
<1> DEFINE five == <<cwd[p], jail[p], fd[p], ip[p], held[p]>>
<1>2. five \in Seq(Linkable) /\ Len(five) = 5
  BY DEF TableTypes
<1>3. todo[p] \in Seq(Linkable)
  BY <1>1, InumFacts
<1>4. /\ five[1] = cwd[p] /\ five[2] = jail[p] /\ five[3] = fd[p] /\ five[4] = ip[p]
      /\ five[5] = held[p]
  OBVIOUS
<1>5. Pointers(p) = five \o todo[p]
  BY DEF Pointers
<1> HIDE DEF five
<1>6. /\ Len(Pointers(p)) = 5 + Len(todo[p])
      /\ \A m \in 1 .. (5 + Len(todo[p])) :
            Pointers(p)[m] = IF m <= 5 THEN five[m] ELSE todo[p][m - 5]
  <2>1. /\ Len(five \o todo[p]) = Len(five) + Len(todo[p])
        /\ \A m \in 1 .. (Len(five) + Len(todo[p])) :
              (five \o todo[p])[m] = IF m <= Len(five) THEN five[m] ELSE todo[p][m - Len(five)]
    BY <1>2, <1>3, ConcatProperties
  <2> QED BY <2>1, <1>2, <1>5
<1>7. CASE k \in 1 .. 5
  <2>1. k \in 1 .. (5 + Len(todo[p])) /\ k <= 5
    BY <1>1, <1>7
  <2>2. k <= Len(Pointers(p)) /\ Pointers(p)[k] = five[k]
    BY <1>6, <2>1
  <2> QED BY <2>2, <1>4, <1>7 DEF SlotRef
<1>8. CASE k = 6
  <2>1. SlotRef(p, k) = Put(p, 1) /\ (k <= Len(Pointers(p)) <=> 1 <= Len(todo[p]))
    BY <1>1, <1>6, <1>8 DEF SlotRef
  <2>2. 1 <= Len(todo[p]) => Pointers(p)[k] = todo[p][1]
    BY <1>1, <1>6, <1>8
  <2> QED BY <1>1, <2>1, <2>2 DEF Put
<1>9. CASE k = 7
  <2>1. SlotRef(p, k) = Put(p, 2) /\ (k <= Len(Pointers(p)) <=> 2 <= Len(todo[p]))
    BY <1>1, <1>6, <1>9 DEF SlotRef
  <2>2. 2 <= Len(todo[p]) => Pointers(p)[k] = todo[p][2]
    BY <1>1, <1>6, <1>9
  <2> QED BY <1>1, <2>1, <2>2 DEF Put
<1> QED BY <1>7, <1>8, <1>9

(* One more element, if b.                                                 *)
LEMMA CountOne ==
  ASSUME NEW S, IsFiniteSet(S), NEW x, x \notin S, NEW b \in BOOLEAN,
         NEW T, T = IF b THEN S \cup {x} ELSE S
  PROVE  IsFiniteSet(T) /\ Cardinality(T) = Cardinality(S) + One(b)
<1>1. Cardinality(S) \in Nat
  BY FS_CardinalityType
<1>2. IsFiniteSet(S \cup {x}) /\ Cardinality(S \cup {x}) = Cardinality(S) + 1
  BY FS_AddElement
<1> QED BY <1>1, <1>2 DEF One

(* A process's pointers to an inode, counted slot by slot.                 *)
LEMMA CountSlots ==
  ASSUME TableTypes, NEW p \in Agent, NEW j \in Inum
  PROVE  /\ IsFiniteSet(RefsOf(p, j))
         /\ Cardinality(RefsOf(p, j)) = KeptRefs(p, j) + PutRefs(p, j)
<1> DEFINE S(m) == {x \in RefsOf(p, j) : x[2] <= m}
           b(k) == SlotRef(p, k) = j
<1>1. \A x : x \in RefsOf(p, j) <=> \E k \in 1 .. 7 : x = <<p, k>> /\ b(k)
  <2>1. ASSUME NEW x, x \in RefsOf(p, j) PROVE \E k \in 1 .. 7 : x = <<p, k>> /\ b(k)
    <3>1. x \in Agent \X (1 .. 7) /\ x[1] = p /\ x[2] <= Len(Pointers(x[1])) /\ Pointers(x[1])[x[2]] = j
      BY <2>1 DEF RefsOf, Refs
    <3>2. x = <<p, x[2]>> /\ x[2] \in 1 .. 7
      BY <3>1
    <3>3. b(x[2])
      BY <3>1, <3>2, SlotIsPointer
    <3> QED BY <3>2, <3>3
  <2>2. ASSUME NEW k \in 1 .. 7, b(k) PROVE <<p, k>> \in RefsOf(p, j)
    <3>1. k <= Len(Pointers(p)) /\ Pointers(p)[k] = j
      BY <2>2, SlotIsPointer
    <3> QED BY <3>1 DEF RefsOf, Refs
  <2> QED BY <2>1, <2>2
<1>2. S(0) = {} /\ S(7) = RefsOf(p, j)
  BY <1>1
<1>3. ASSUME NEW m \in 0 .. 6
      PROVE  <<p, m + 1>> \notin S(m) /\ S(m + 1) = IF b(m + 1) THEN S(m) \cup {<<p, m + 1>>} ELSE S(m)
  <2>1. <<p, m + 1>> \notin S(m)
    BY <1>3
  <2>2. ASSUME NEW x PROVE x \in S(m + 1) <=> x \in S(m) \/ (b(m + 1) /\ x = <<p, m + 1>>)
    <3>1. CASE x \in RefsOf(p, j)
      <4>1. PICK k \in 1 .. 7 : x = <<p, k>> /\ b(k)
        BY <1>1, <3>1
      <4>2. x[2] = k /\ (x = <<p, m + 1>> <=> k = m + 1)
        BY <4>1
      <4>3. k <= m + 1 <=> k <= m \/ k = m + 1
        BY <1>3
      <4>4. x \in S(m + 1) <=> k <= m + 1
        BY <3>1, <4>2
      <4>5. x \in S(m) <=> k <= m
        BY <3>1, <4>2
      <4> HIDE DEF S, b
      <4> QED BY <4>1, <4>2, <4>3, <4>4, <4>5
    <3>2. CASE x \notin RefsOf(p, j)
      <4>1. x \notin S(m) /\ x \notin S(m + 1)
        BY <3>2
      <4>2. ~ (b(m + 1) /\ x = <<p, m + 1>>)
        BY <1>1, <1>3, <3>2
      <4> QED BY <4>1, <4>2
    <3> QED BY <3>1, <3>2
  <2> HIDE DEF S, b
  <2> QED BY <2>1, <2>2
<1>4. \A m \in 0 .. 6 : b(m + 1) \in BOOLEAN
  OBVIOUS
<1> HIDE DEF S, b
<1>5. ASSUME NEW m \in 0 .. 6, IsFiniteSet(S(m))
      PROVE  IsFiniteSet(S(m + 1)) /\ Cardinality(S(m + 1)) = Cardinality(S(m)) + One(b(m + 1))
  BY <1>3, <1>4, <1>5, CountOne
<1>6. \A m \in 0 .. 6 : IsFiniteSet(S(m)) =>
         IsFiniteSet(S(m + 1)) /\ Cardinality(S(m + 1)) = Cardinality(S(m)) + One(b(m + 1))
  BY <1>5
<1>7. IsFiniteSet(S(0)) /\ Cardinality(S(0)) = 0
  BY <1>2, FS_EmptySet
<1>8. IsFiniteSet(S(1)) /\ Cardinality(S(1)) = One(b(1))
  <2>1. 0 \in 0 .. 6 /\ 0 + 1 = 1
    OBVIOUS
  <2> QED BY <2>1, <1>6, <1>7 DEF One
<1>9. IsFiniteSet(S(2)) /\ Cardinality(S(2)) = One(b(1)) + One(b(2))
  <2>1. 1 \in 0 .. 6 /\ 1 + 1 = 2
    OBVIOUS
  <2> QED BY <2>1, <1>6, <1>8
<1>10. IsFiniteSet(S(3)) /\ Cardinality(S(3)) = One(b(1)) + One(b(2)) + One(b(3))
  <2>1. 2 \in 0 .. 6 /\ 2 + 1 = 3
    OBVIOUS
  <2> QED BY <2>1, <1>6, <1>9
<1>11. IsFiniteSet(S(4)) /\ Cardinality(S(4)) = One(b(1)) + One(b(2)) + One(b(3)) + One(b(4))
  <2>1. 3 \in 0 .. 6 /\ 3 + 1 = 4
    OBVIOUS
  <2> QED BY <2>1, <1>6, <1>10
<1>12. IsFiniteSet(S(5)) /\ Cardinality(S(5)) = One(b(1)) + One(b(2)) + One(b(3)) + One(b(4)) + One(b(5))
  <2>1. 4 \in 0 .. 6 /\ 4 + 1 = 5
    OBVIOUS
  <2> QED BY <2>1, <1>6, <1>11
<1>13. IsFiniteSet(S(6)) /\ Cardinality(S(6)) = One(b(1)) + One(b(2)) + One(b(3)) + One(b(4)) + One(b(5)) + One(b(6))
  <2>1. 5 \in 0 .. 6 /\ 5 + 1 = 6
    OBVIOUS
  <2> QED BY <2>1, <1>6, <1>12
<1>14. IsFiniteSet(S(7)) /\ Cardinality(S(7)) = One(b(1)) + One(b(2)) + One(b(3)) + One(b(4)) + One(b(5)) + One(b(6)) + One(b(7))
  <2>1. 6 \in 0 .. 6 /\ 6 + 1 = 7
    OBVIOUS
  <2> QED BY <2>1, <1>6, <1>13
<1>15. /\ (b(1) <=> cwd[p] = j) /\ (b(2) <=> jail[p] = j) /\ (b(3) <=> fd[p] = j)
       /\ (b(4) <=> ip[p] = j) /\ (b(5) <=> held[p] = j)
       /\ (b(6) <=> Put(p, 1) = j) /\ (b(7) <=> Put(p, 2) = j)
  BY DEF b, SlotRef
<1>16. /\ One(b(1)) = One(cwd[p] = j) /\ One(b(2)) = One(jail[p] = j) /\ One(b(3)) = One(fd[p] = j)
       /\ One(b(4)) = One(ip[p] = j) /\ One(b(5)) = One(held[p] = j)
       /\ One(b(6)) = One(Put(p, 1) = j) /\ One(b(7)) = One(Put(p, 2) = j)
  BY <1>15 DEF One
<1>17. KeptRefs(p, j) + PutRefs(p, j) = Cardinality(S(7))
  <2>1. \A c : One(c) \in Nat
    BY DEF One
  <2> QED BY <2>1, <1>14, <1>16 DEF KeptRefs, PutRefs
<1> QED BY <1>2, <1>14, <1>17
OthersRest(p) ==
  \A q \in Agent \ {p} :
    /\ cwd'[q] = cwd[q] /\ jail'[q] = jail[q] /\ fd'[q] = fd[q]
    /\ ip'[q] = ip[q] /\ held'[q] = held[q] /\ todo'[q] = todo[q]
OwnRefs(p, j) == KeptRefs(p, j) + PutRefs(p, j)
RestRefs(p, j) == {x \in Refs(j) : x[1] # p}

(* Counts of pointers are natural numbers.                                 *)
LEMMA OwnNat ==
  ASSUME NEW p, NEW j
  PROVE  /\ OwnRefs(p, j) \in Nat /\ KeptRefs(p, j) \in Nat /\ PutRefs(p, j) \in Nat
         /\ \A b : One(b) \in {0, 1}
<1>1. \A b : One(b) \in {0, 1}
  BY DEF One
<1> QED BY <1>1 DEF OwnRefs, KeptRefs, PutRefs

(* The pointers to an inode, one process's and the others'.                *)
SplitAt(p, j) ==
  /\ Cardinality(RestRefs(p, j)) \in Nat
  /\ Cardinality(Refs(j)) = Cardinality(RestRefs(p, j)) + OwnRefs(p, j)
Splits == TableTypes => \A p \in Agent, j \in Inum : SplitAt(p, j)
(* Every pointer is p's or another process's.                              *)
LEMMA SplitRefs == Splits
<1> SUFFICES ASSUME TableTypes, NEW p \in Agent, NEW j \in Inum
             PROVE  SplitAt(p, j)
  BY DEF Splits
<1>1. IsFiniteSet(Agent \X (1 .. 7))
  <2>1. IsFiniteSet(1 .. 7)
    BY 1 \in Int, 7 \in Int, FS_Interval
  <2> QED BY <2>1, NamesAssumption, FS_Product
<1>2. Refs(j) \subseteq Agent \X (1 .. 7) /\ IsFiniteSet(Refs(j))
  <2>1. Refs(j) \subseteq Agent \X (1 .. 7)
    BY DEF Refs
  <2> QED BY <1>1, <2>1, FS_Subset
<1>3. IsFiniteSet(RestRefs(p, j)) /\ RestRefs(p, j) \cap RefsOf(p, j) = {}
      /\ RestRefs(p, j) \cup RefsOf(p, j) = Refs(j)
  <2>1. RestRefs(p, j) \subseteq Refs(j)
    BY DEF RestRefs
  <2>2. IsFiniteSet(RestRefs(p, j))
    BY <1>2, <2>1, FS_Subset
  <2> QED BY <2>2 DEF RestRefs, RefsOf
<1>4. IsFiniteSet(RefsOf(p, j)) /\ Cardinality(RefsOf(p, j)) = OwnRefs(p, j)
  BY CountSlots DEF OwnRefs
<1>5. Cardinality(RestRefs(p, j) \cup RefsOf(p, j))
        = Cardinality(RestRefs(p, j)) + Cardinality(RefsOf(p, j))
          - Cardinality(RestRefs(p, j) \cap RefsOf(p, j))
  BY <1>3, <1>4, FS_Union
<1>6. Cardinality(RestRefs(p, j)) \in Nat /\ Cardinality({}) = 0
  BY <1>3, FS_CardinalityType, FS_EmptySet
<1>7. OwnRefs(p, j) \in Nat
  BY OwnNat
<1>8. Cardinality(Refs(j)) = Cardinality(RestRefs(p, j)) + Cardinality(RefsOf(p, j)) - Cardinality({})
  BY <1>3, <1>5
<1>9. Cardinality(Refs(j)) = Cardinality(RestRefs(p, j)) + OwnRefs(p, j)
  BY <1>4, <1>6, <1>7, <1>8
<1> QED BY <1>6, <1>9 DEF SplitAt

(* A pointer is a reference.                                               *)
LEMMA RefsSome ==
  ASSUME TableTypes, RefsAreHeld, NEW p \in Agent, NEW j \in Inum
  PROVE  iref[j] >= leaked[j] + OwnRefs(p, j) /\ iref[j] \in Nat
<1>1. iref[j] = leaked[j] + Cardinality(Refs(j)) /\ leaked[j] \in Nat
  BY DEF RefsAreHeld, TableTypes
<1>2. OwnRefs(p, j) \in Nat
  BY OwnNat
<1> QED BY <1>1, <1>2, SplitRefs DEF SplitAt, Splits

(* A step that moves one process's pointers keeps the count, when iref     *)
(* follows them.                                                           *)
LEMMA RefsStep ==
  ASSUME TableTypes, TableTypes', RefsAreHeld, NEW p \in Agent, OthersRest(p),
         \A j \in Inum : iref'[j] - leaked'[j] - OwnRefs(p, j)' = iref[j] - leaked[j] - OwnRefs(p, j)
  PROVE  RefsAreHeld'
<1>1. SUFFICES ASSUME NEW j \in Inum PROVE iref'[j] = leaked'[j] + Cardinality(Refs(j)')
  BY DEF RefsAreHeld
<1>2. RestRefs(p, j)' = RestRefs(p, j)
  <2>1. ASSUME NEW q \in Agent, q # p PROVE Pointers(q)' = Pointers(q)
    BY <2>1 DEF OthersRest, Pointers
  <2>2. \A x \in Agent \X (1 .. 7) : x[1] # p => (x \in Refs(j)' <=> x \in Refs(j))
    <3>1. SUFFICES ASSUME NEW x \in Agent \X (1 .. 7), x[1] # p PROVE x \in Refs(j)' <=> x \in Refs(j)
      OBVIOUS
    <3>2. x[1] \in Agent
      OBVIOUS
    <3>3. Pointers(x[1])' = Pointers(x[1])
      BY <2>1, <3>1, <3>2
    <3> QED BY <3>3 DEF Refs
  <2>3. Refs(j) \subseteq Agent \X (1 .. 7) /\ Refs(j)' \subseteq Agent \X (1 .. 7)
    BY DEF Refs
  <2> QED BY <2>2, <2>3 DEF RestRefs
<1>3. /\ Cardinality(RestRefs(p, j)) \in Nat
      /\ Cardinality(Refs(j)) = Cardinality(RestRefs(p, j)) + OwnRefs(p, j)
  BY SplitRefs DEF SplitAt, Splits
<1>4. Cardinality(Refs(j)') = Cardinality(RestRefs(p, j)') + OwnRefs(p, j)'
  <2>1. Splits'
    BY SplitRefs, PTL
  <2> QED BY <2>1 DEF SplitAt, Splits
<1>5. iref[j] = leaked[j] + Cardinality(Refs(j)) /\ leaked[j] \in Nat
  BY DEF RefsAreHeld, TableTypes
<1>6. iref'[j] \in Int /\ leaked'[j] \in Nat
  BY DEF TableTypes
<1>7. OwnRefs(p, j) \in Nat /\ OwnRefs(p, j)' \in Nat
  <2>1. \A b : One(b) \in {0, 1}
    BY DEF One
  <2> QED BY <2>1 DEF OwnRefs, KeptRefs, PutRefs
<1> QED BY <1>1, <1>2, <1>3, <1>4, <1>5, <1>6, <1>7
(* What is left of iput for p once it has put a and b.                     *)
SettledBy(p, where, f, r, a, b) ==
  /\ fs' = f /\ iref' \in [Inum -> Int]
  /\ todo' \in [Agent -> Seq(Inum)] /\ \A q \in Agent : Len(todo'[q]) <= 2
  /\ \A q \in Agent \ {p} : todo'[q] = todo[q] /\ pc'[q] = pc[q]
  /\ pc'[p] = (IF where = "end_op" /\ todo'[p] = << >> THEN "user" ELSE where)
  /\ pc' \in [Agent -> Pcs]
  /\ \A j \in Inum :
       /\ PutRefs(p, j) = 0
       /\ iref'[j] - PutRefs(p, j)' = r[j] - One(j = a) - One(j = b)
       /\ (r[j] > 0 /\ ~ Frees(f, r, j) /\ f.type[j] # "free" /\ f.nlink[j] = 0) => iref'[j] > 0
       /\ (r[j] > 0 /\ Frees(f, r, j)) => iref'[j] > 0

(* Settle in terms of the pointers it moves.                               *)
LEMMA SettleFacts ==
  ASSUME TableTypes, pc \in [Agent -> Pcs], NEW p \in Agent, todo[p] = << >>,
         NEW a \in Linkable, NEW b \in Linkable, a = b => a = 0,
         NEW f, NEW r \in [Inum -> Int], NEW where \in Pcs,
         Settle(p, where, f, r, a, b)
  PROVE  SettledBy(p, where, f, r, a, b)
<1> DEFINE freeing == Kept(f, r, a) \o Kept(f, r, b)
<1>1. /\ fs' = f
      /\ iref' = [i \in Inum |-> IF i \in {a, b} /\ ~Frees(f, r, i) THEN r[i] - 1 ELSE r[i]]
      /\ todo' = [todo EXCEPT ![p] = freeing]
      /\ pc' = [pc EXCEPT ![p] = IF where = "end_op" /\ freeing = << >> THEN "user" ELSE where]
  BY DEF Settle
<1> DEFINE A == a # 0 /\ Frees(f, r, a)
           B == b # 0 /\ Frees(f, r, b)
<1>2. /\ freeing = IF A THEN (IF B THEN <<a, b>> ELSE <<a>>) ELSE (IF B THEN <<b>> ELSE << >>)
      /\ freeing \in Seq(Inum) /\ Len(freeing) <= 2
  <2>1. (a # 0 => a \in Inum) /\ (b # 0 => b \in Inum)
    BY InumFacts
  <2>2. Kept(f, r, a) = IF A THEN <<a>> ELSE << >>
    BY DEF Kept
  <2>3. Kept(f, r, b) = IF B THEN <<b>> ELSE << >>
    BY DEF Kept
  <2> HIDE DEF A, B
  <2>4. freeing = IF A THEN (IF B THEN <<a, b>> ELSE <<a>>) ELSE (IF B THEN <<b>> ELSE << >>)
    <3>1. <<a>> \o <<b>> = <<a, b>> /\ <<a>> \o << >> = <<a>> /\ << >> \o <<b>> = <<b>>
          /\ << >> \o << >> = << >>
      <4>1. <<a>> \in Seq(Linkable) /\ <<b>> \in Seq(Linkable) /\ << >> \in Seq(Linkable)
        OBVIOUS
      <4>2. <<a>> \o << >> = <<a>> /\ << >> \o <<b>> = <<b>> /\ << >> \o << >> = << >>
        BY <4>1, ConcatEmptySeq, Zenon
      <4>3. /\ <<a>> \o <<b>> \in Seq(Linkable) /\ Len(<<a>> \o <<b>>) = Len(<<a>>) + Len(<<b>>)
            /\ \A i \in 1 .. Len(<<a>>) + Len(<<b>>) :
                  (<<a>> \o <<b>>)[i] = IF i <= Len(<<a>>) THEN <<a>>[i] ELSE <<b>>[i - Len(<<a>>)]
        BY <4>1, ConcatProperties, Zenon
      <4> DEFINE s == <<a>> \o <<b>>
      <4>4. s \in Seq(Linkable) /\ Len(s) = 2 /\ s[1] = a /\ s[2] = b
        <5>1. Len(<<a>>) = 1 /\ Len(<<b>>) = 1 /\ <<a>>[1] = a /\ <<b>>[1] = b
          OBVIOUS
        <5> HIDE DEF s
        <5>2. s \in Seq(Linkable) /\ Len(s) = 2
          BY <4>3, <5>1 DEF s
        <5>3. s[1] = a
          BY <4>3, <5>1 DEF s
        <5>4. s[2] = b
          BY <4>3, <5>1 DEF s
        <5> QED BY <5>2, <5>3, <5>4
      <4> HIDE DEF s
      <4>5. s = <<a, b>>
        BY <4>4
      <4> QED BY <4>2, <4>5 DEF s
    <3>2. CASE A /\ B
      BY <3>1, <3>2, <2>2, <2>3, Zenon
    <3>3. CASE A /\ ~ B
      BY <3>1, <3>3, <2>2, <2>3, Zenon
    <3>4. CASE ~ A /\ B
      BY <3>1, <3>4, <2>2, <2>3, Zenon
    <3>5. CASE ~ A /\ ~ B
      BY <3>1, <3>5, <2>2, <2>3, Zenon
    <3> QED BY <3>2, <3>3, <3>4, <3>5
  <2>5. (A => a \in Inum) /\ (B => b \in Inum)
    BY <2>1 DEF A, B
  <2> QED BY <2>4, <2>5
<1> HIDE DEF freeing
<1>3. todo'[p] = freeing
  BY <1>1 DEF TableTypes
<1>4. /\ iref' \in [Inum -> Int]
      /\ todo' \in [Agent -> Seq(Inum)] /\ \A q \in Agent : Len(todo'[q]) <= 2
      /\ \A q \in Agent \ {p} : todo'[q] = todo[q] /\ pc'[q] = pc[q]
  <2>1. iref' \in [Inum -> Int]
    BY <1>1
  <2>2. /\ todo' \in [Agent -> Seq(Inum)]
        /\ \A q \in Agent \ {p} : todo'[q] = todo[q] /\ pc'[q] = pc[q]
    BY <1>1, <1>2 DEF TableTypes
  <2>3. ASSUME NEW q \in Agent PROVE Len(todo'[q]) <= 2
    <3>1. CASE q = p
      BY <3>1, <1>2, <1>3
    <3>2. CASE q # p
      BY <3>2, <2>2 DEF TableTypes
    <3> QED BY <3>1, <3>2
  <2> QED BY <2>1, <2>2, <2>3
<1>5. /\ pc'[p] = (IF where = "end_op" /\ todo'[p] = << >> THEN "user" ELSE where)
      /\ pc' \in [Agent -> Pcs]
  BY <1>1, <1>3 DEF Pcs
<1>6. ASSUME NEW j \in Inum
      PROVE  /\ PutRefs(p, j) = 0
             /\ iref'[j] - PutRefs(p, j)' = r[j] - One(j = a) - One(j = b)
             /\ (r[j] > 0 /\ ~ Frees(f, r, j) /\ f.type[j] # "free" /\ f.nlink[j] = 0) => iref'[j] > 0
             /\ (r[j] > 0 /\ Frees(f, r, j)) => iref'[j] > 0
  <2>1. j # 0 /\ r[j] \in Int /\ iref'[j] = IF j \in {a, b} /\ ~Frees(f, r, j) THEN r[j] - 1 ELSE r[j]
    BY InumFacts, <1>1
  <2>2. PutRefs(p, j) = 0
    BY <2>1 DEF PutRefs, Put, One
  <2>3. PutRefs(p, j)' = One(A /\ a = j) + One(B /\ b = j)
    <3>1. Put(p, 1)' = IF A THEN a ELSE IF B THEN b ELSE 0
      <4> HIDE DEF A, B
      <4> QED BY <1>2, <1>3 DEF Put
    <3>2. Put(p, 2)' = IF A /\ B THEN b ELSE 0
      <4> HIDE DEF A, B
      <4> QED BY <1>2, <1>3 DEF Put
    <3> HIDE DEF A, B
    <3> QED BY <3>1, <3>2, <2>1 DEF PutRefs, One
  <2>4. iref'[j] - PutRefs(p, j)' = r[j] - One(j = a) - One(j = b)
    <3>1. CASE j # a /\ j # b
      BY <3>1, <2>1, <2>3 DEF One
    <3>2. CASE j = a
      <4>1. j # b /\ (A <=> Frees(f, r, j))
        BY <3>2, <2>1
      <4> HIDE DEF A, B
      <4>2. PutRefs(p, j)' = One(Frees(f, r, j))
        BY <2>3, <4>1, <3>2 DEF One
      <4>3. One(j = a) = 1 /\ One(j = b) = 0
        BY <4>1, <3>2 DEF One
      <4>4. j \in {a, b}
        BY <3>2
      <4> QED BY <4>2, <4>3, <4>4, <2>1 DEF One
    <3>3. CASE j = b
      <4>1. j # a /\ (B <=> Frees(f, r, j))
        BY <3>3, <2>1
      <4> HIDE DEF A, B
      <4>2. PutRefs(p, j)' = One(Frees(f, r, j))
        BY <2>3, <4>1, <3>3 DEF One
      <4>3. One(j = a) = 0 /\ One(j = b) = 1
        BY <4>1, <3>3 DEF One
      <4>4. j \in {a, b}
        BY <3>3
      <4> QED BY <4>2, <4>3, <4>4, <2>1 DEF One
    <3> QED BY <3>1, <3>2, <3>3
  <2>5. (r[j] > 0 /\ ~ Frees(f, r, j) /\ f.type[j] # "free" /\ f.nlink[j] = 0) => iref'[j] > 0
    BY <2>1 DEF Frees
  <2>6. (r[j] > 0 /\ Frees(f, r, j)) => iref'[j] > 0
    BY <2>1
  <2> QED BY <2>2, <2>4, <2>5, <2>6
<1> QED BY <1>1, <1>4, <1>5, <1>6 DEF SettledBy

(* Unless it frees the inode, iput leaves a reference to one without links. *)
LEMMA SettleSlip ==
  ASSUME NEW p, NEW where, NEW f, NEW r, NEW a, NEW b, SettledBy(p, where, f, r, a, b),
         slipped' = slipped,
         \A i \in Inum : f.type[i] # "free" /\ f.nlink[i] = 0 => r[i] > 0 \/ i \in slipped
  PROVE  SlipInv'
<1>1. SUFFICES ASSUME NEW i \in Inum, f.type[i] # "free", f.nlink[i] = 0, i \notin slipped
               PROVE  iref'[i] > 0
  BY DEF SlipInv, SettledBy
<1>2. r[i] > 0
  BY <1>1
<1> QED BY <1>1, <1>2 DEF SettledBy

(* iget and idup count one reference more.                                 *)
LEMMA GotFacts ==
  ASSUME TableTypes, NEW i \in Inum
  PROVE  Got(i) \in [Inum -> Int] /\ \A j \in Inum : Got(i)[j] = iref[j] + One(j = i)
BY DEF Got, TableTypes, One
-----------------------------------------------------------------------------
(* The tree of names through each change of it.                            *)

TreeTypes == /\ FsType(fs) /\ held \in [Agent -> Linkable]
             /\ removed \subseteq Inum /\ strays \subseteq Inum

(* An inode has finitely many names, subdirectories and holders.           *)
LEMMA CountFacts ==
  ASSUME NEW f, NEW h, NEW i
  PROVE  /\ IsFiniteSet(Entries(f, i)) /\ Cardinality(Entries(f, i)) \in Nat
         /\ IsFiniteSet(Subdirs(f, i)) /\ Cardinality(Subdirs(f, i)) \in Nat
         /\ IsFiniteSet(Holders(h, i)) /\ Cardinality(Holders(h, i)) \in Nat
<1>1. IsFiniteSet(Inum \X Name)
  BY InumFacts, NamesAssumption, FS_Product
<1>2. Entries(f, i) \subseteq Inum \X Name /\ Subdirs(f, i) \subseteq Name /\ Holders(h, i) \subseteq Agent
  BY DEF Entries, Subdirs, Holders
<1>3. IsFiniteSet(Entries(f, i)) /\ IsFiniteSet(Subdirs(f, i)) /\ IsFiniteSet(Holders(h, i))
  BY <1>1, <1>2, NamesAssumption, FS_Subset
<1> QED BY <1>3, FS_CardinalityType

(* One element less.                                                       *)
LEMMA Fewer ==
  ASSUME NEW S, IsFiniteSet(S), NEW x \in S, NEW T, T = S \ {x}
  PROVE  Cardinality(T) = Cardinality(S) - 1
BY FS_RemoveElement

(* One element more.                                                       *)
LEMMA OneMore ==
  ASSUME NEW S, IsFiniteSet(S), NEW x, x \notin S, NEW T, T = S \cup {x}
  PROVE  Cardinality(T) = Cardinality(S) + 1
BY FS_AddElement

(* A set with an element has at least one.                                 *)
LEMMA SomeIsOne ==
  ASSUME NEW S, IsFiniteSet(S), NEW x \in S
  PROVE  Cardinality(S) >= 1
<1>1. Cardinality(S) \in Nat /\ Cardinality(S \ {x}) = Cardinality(S) - 1 /\ IsFiniteSet(S \ {x})
  BY FS_RemoveElement, FS_CardinalityType
<1>2. Cardinality(S \ {x}) \in Nat
  BY <1>1, FS_CardinalityType
<1> QED BY <1>1, <1>2

(* A set of no elements is empty.                                          *)
LEMMA NoneIsEmpty ==
  ASSUME NEW S, IsFiniteSet(S), Cardinality(S) = 0
  PROVE  S = {}
BY FS_EmptySet

(* The parts of the number of links.                                       *)
LEMMA LinksParts ==
  ASSUME NEW f, NEW h, NEW i
  PROVE  /\ LinksIn(f, h, i) \in Nat
         /\ LinksIn(f, h, i) = Cardinality(Entries(f, i)) + Cardinality(Subdirs(f, i))
                    + (IF i = ROOTINO THEN 1 ELSE 0) + Cardinality(Holders(h, i))
BY CountFacts DEF LinksIn

(* An inode without links has no name, no directory in it and no holder.   *)
LEMMA NoLinks ==
  ASSUME TreeTypes, TreeInv, NEW i \in Inum, fs.type[i] # "free", fs.nlink[i] = 0
  PROVE  /\ i # ROOTINO /\ ~ Named(i) /\ Detached(i)
         /\ \A p \in Agent : held[p] # i
         /\ \A n \in Name : fs.ent[i][n] # 0 => fs.type[fs.ent[i][n]] # "dir"
<1>1. fs.nlink[i] >= LinksIn(fs, held, i)
  BY DEF TreeInv, LinkInv, LinkOf
<1>2. /\ Cardinality(Entries(fs, i)) = 0 /\ Cardinality(Subdirs(fs, i)) = 0
      /\ Cardinality(Holders(held, i)) = 0 /\ i # ROOTINO
  BY <1>1, CountFacts, LinksParts
<1>3. Entries(fs, i) = {} /\ Subdirs(fs, i) = {} /\ Holders(held, i) = {}
  BY <1>2, CountFacts, NoneIsEmpty
<1>4. ~ Named(i)
  <2>1. SUFFICES ASSUME NEW k \in Inum, NEW n \in Name, fs.ent[k][n] = i PROVE FALSE
    BY DEF Named
  <2>2. fs.type[k] = "dir"
    BY <2>1, InumFacts DEF TreeInv, EntryInv
  <2>3. <<k, n>> \in Entries(fs, i)
    BY <2>1, <2>2 DEF Entries
  <2> QED BY <1>3, <2>3
<1> QED BY <1>2, <1>3, <1>4 DEF Subdirs, Holders, Detached

(* A name is a link.                                                       *)
LEMMA NameLinks ==
  ASSUME TreeTypes, TreeInv, NEW d \in Inum, NEW n \in Name, NEW i \in Inum, fs.ent[d][n] = i
  PROVE  /\ fs.type[d] = "dir" /\ d # i /\ fs.type[i] # "free" /\ fs.nlink[i] >= 1
         /\ <<d, n>> \in Entries(fs, i)
         /\ fs.type[i] = "dir" => n \in Subdirs(fs, d) /\ fs.nlink[d] >= 1
<1>1. i # 0 /\ fs.type[d] = "dir" /\ d # i /\ fs.type[i] # "free"
  BY InumFacts DEF TreeInv, EntryInv
<1>2. <<d, n>> \in Entries(fs, i)
  BY <1>1 DEF Entries
<1>3. fs.type[i] = "dir" => n \in Subdirs(fs, d)
  BY <1>1 DEF Subdirs
<1>4. Cardinality(Entries(fs, i)) >= 1
  BY <1>2, CountFacts, SomeIsOne
<1>5. fs.type[i] = "dir" => Cardinality(Subdirs(fs, d)) >= 1
  BY <1>3, CountFacts, SomeIsOne
<1>6. fs.nlink[i] >= LinksIn(fs, held, i) /\ fs.nlink[d] >= LinksIn(fs, held, d)
  BY <1>1 DEF TreeInv, LinkInv, LinkOf
<1>7. fs.nlink[i] \in Int /\ fs.nlink[d] \in Int
  BY DEF TreeTypes, FsType
<1>8. fs.nlink[i] >= 1
  BY <1>4, <1>6, <1>7, LinksParts, CountFacts
<1>9. fs.type[i] = "dir" => fs.nlink[d] >= 1
  BY <1>5, <1>6, <1>7, LinksParts, CountFacts
<1> QED BY <1>1, <1>2, <1>3, <1>8, <1>9

(* sys_unlink takes a name and, with a directory, the link of its "..".    *)
LEMMA UnlinkTree ==
  ASSUME TreeTypes, TreeInv, NEW d \in Inum, NEW n \in Name, NEW i \in Inum, fs.ent[d][n] = i,
         fs.type[i] = "dir" => isdirempty(i),
         fs' = Unlinked(i, d, n), held' = held, strays' = strays,
         removed' = IF fs.type[i] = "dir" THEN removed \cup {i} ELSE removed
  PROVE  TreeTypes' /\ TreeInv' /\ fs.nlink[i] >= 1
<1> USE InumFacts
<1>1. /\ fs.type[d] = "dir" /\ d # i /\ fs.type[i] # "free" /\ fs.nlink[i] >= 1
      /\ <<d, n>> \in Entries(fs, i)
      /\ fs.type[i] = "dir" => n \in Subdirs(fs, d) /\ fs.nlink[d] >= 1
  BY NameLinks
<1>2. /\ fs' = [type |-> fs.type, nlink |-> fs'.nlink, ent |-> fs'.ent, up |-> fs.up]
      /\ fs'.type = fs.type /\ fs'.up = fs.up
      /\ fs'.ent = [fs.ent EXCEPT ![d][n] = 0]
      /\ fs'.nlink = [fs.nlink EXCEPT ![i] = @ - 1, ![d] = IF fs.type[i] = "dir" THEN @ - 1 ELSE @]
  <2> DEFINE ln == [fs.nlink EXCEPT ![i] = @ - 1, ![d] = IF fs.type[i] = "dir" THEN @ - 1 ELSE @]
             en == [fs.ent EXCEPT ![d][n] = 0]
  <2>1. fs' = [fs EXCEPT !.ent = en, !.nlink = ln]
    BY DEF Unlinked, TreeTypes, FsType
  <2> HIDE DEF ln, en
  <2>2. fs = [type |-> fs.type, nlink |-> fs.nlink, ent |-> fs.ent, up |-> fs.up]
    BY DEF TreeTypes, FsType
  <2>3. fs' = [type |-> fs.type, nlink |-> ln, ent |-> en, up |-> fs.up]
    BY <2>1, <2>2
  <2> QED BY <2>3 DEF ln, en
<1>3. /\ fs'.ent \in [Inum -> [Name -> Linkable]]
      /\ \A j \in Inum, m \in Name : fs'.ent[j][m] = IF j = d /\ m = n THEN 0 ELSE fs.ent[j][m]
  BY <1>2 DEF TreeTypes, FsType
<1>4. /\ fs'.nlink \in [Inum -> Int] /\ fs'.nlink[i] = fs.nlink[i] - 1
      /\ fs'.nlink[d] = (IF fs.type[i] = "dir" THEN fs.nlink[d] - 1 ELSE fs.nlink[d])
      /\ \A j \in Inum \ {i, d} : fs'.nlink[j] = fs.nlink[j]
  BY <1>1, <1>2 DEF TreeTypes, FsType
<1>5. TreeTypes'
  <2>1. fs.type \in [Inum -> Types] /\ fs.up \in [Inum -> Inum]
    BY DEF TreeTypes, FsType
  <2>2. FsType(fs')
    BY <2>1, <1>2, <1>3, <1>4 DEF FsType
  <2> QED BY <2>2 DEF TreeTypes
<1>6. EntryInv'
  BY <1>2, <1>3 DEF TreeInv, EntryInv, TreeTypes, FsType
<1>7. UpInv'
  <2>1. SUFFICES ASSUME NEW j \in Inum
                 PROVE  /\ fs.type[j] # "dir" => fs.up[j] = ROOTINO
                        /\ j \notin removed' \cup strays' =>
                             fs.up[j] = ROOTINO \/ \E m \in Name : fs'.ent[fs.up[j]][m] = j
    BY <1>2 DEF UpInv
  <2>2. /\ fs.type[j] # "dir" => fs.up[j] = ROOTINO
        /\ j \notin removed \cup strays =>
             fs.up[j] = ROOTINO \/ \E m \in Name : fs.ent[fs.up[j]][m] = j
    BY DEF TreeInv, UpInv
  <2>3. fs.up[j] \in Inum
    BY DEF TreeTypes, FsType
  <2> QED BY <2>2, <2>3, <1>3
<1>8. DetachedInv'
  <2>1. SUFFICES ASSUME NEW k \in Inum, fs.type[k] = "dir", Detached(k)', NEW m \in Name,
                        fs'.ent[k][m] # 0
                 PROVE  fs'.ent[k][m] \in strays
    BY <1>2 DEF DetachedInv
  <2>2. fs'.ent[k][m] = fs.ent[k][m]
    BY <1>3, <2>1
  <2>3. CASE k = i
    BY <2>1, <2>2, <2>3 DEF isdirempty
  <2>4. CASE k # i
    <3>1. Named(k) => Named(k)'
      <4>1. ASSUME Named(k) PROVE Named(k)'
        <5>1. PICK x \in Inum, y \in Name : fs.ent[x][y] = k
          BY <4>1 DEF Named
        <5>2. fs'.ent[x][y] = k
          BY <5>1, <1>3, <2>4
        <5> QED BY <5>2 DEF Named
      <4> QED BY <4>1
    <3>2. Detached(k)
      BY <2>1, <2>4, <3>1 DEF Detached
    <3> QED BY <2>1, <2>2, <3>2 DEF TreeInv, DetachedInv
  <2> QED BY <2>3, <2>4
<1>9. HeldInv'
  BY <1>2 DEF TreeInv, HeldInv
<1>10. LinkInv'
  <2>1. SUFFICES ASSUME NEW j \in Inum PROVE LinkOf(j)'
    BY DEF LinkInv
  <2>2. LinkOf(j) /\ fs.nlink[j] \in Int
    BY DEF TreeInv, LinkInv, TreeTypes, FsType
  <2>3. Holders(held', j) = Holders(held, j)
    OBVIOUS
  <2>4. CASE j = i
    <3>1. Subdirs(fs', j) = Subdirs(fs, j)
      BY <1>1, <1>2, <1>3, <2>4 DEF Subdirs
    <3>2. Entries(fs', j) = Entries(fs, j) \ {<<d, n>>}
      <4>1. \A e \in Inum \X Name : e = <<d, n>> <=> e[1] = d /\ e[2] = n
        OBVIOUS
      <4> QED BY <4>1, <1>2, <1>3, <2>4 DEF Entries
    <3>3. Cardinality(Entries(fs', j)) = Cardinality(Entries(fs, j)) - 1
      BY <3>2, <1>1, <2>4, CountFacts, Fewer
    <3>4. LinksIn(fs', held', j) = LinksIn(fs, held, j) - 1
      BY <3>1, <3>3, <2>3, CountFacts, LinksParts
    <3> QED BY <3>4, <2>2, <2>4, <1>1, <1>2, <1>4, LinksParts DEF LinkOf
  <2>5. CASE j # i
    <3>1. Entries(fs', j) = Entries(fs, j)
      BY <1>2, <1>3, <2>5 DEF Entries
    <3>2. CASE j = d /\ fs.type[i] = "dir"
      <4>1. Subdirs(fs', j) = Subdirs(fs, j) \ {n}
        BY <1>2, <1>3, <3>2 DEF Subdirs
      <4>2. Cardinality(Subdirs(fs', j)) = Cardinality(Subdirs(fs, j)) - 1
        BY <4>1, <1>1, <3>2, CountFacts, Fewer
      <4>3. LinksIn(fs', held', j) = LinksIn(fs, held, j) - 1
        BY <3>1, <4>2, <2>3, CountFacts, LinksParts
      <4> QED BY <4>3, <2>2, <3>2, <1>1, <1>2, <1>4, LinksParts DEF LinkOf
    <3>3. CASE ~ (j = d /\ fs.type[i] = "dir")
      <4>1. Subdirs(fs', j) = Subdirs(fs, j)
        BY <1>2, <1>3, <3>3 DEF Subdirs
      <4>2. fs'.nlink[j] = fs.nlink[j]
        BY <1>4, <2>5, <3>3
      <4>3. LinksIn(fs', held', j) = LinksIn(fs, held, j)
        BY <3>1, <4>1, <2>3 DEF LinksIn
      <4> QED BY <4>2, <4>3, <2>2, <1>2 DEF LinkOf
    <3> QED BY <3>2, <3>3
  <2> QED BY <2>4, <2>5
<1> QED BY <1>1, <1>5, <1>6, <1>7, <1>8, <1>9, <1>10 DEF TreeInv
(* Nothing names, holds or is in an inode that is free.                    *)
LEMMA FreeAlone ==
  ASSUME TreeTypes, TreeInv, NEW i \in Inum, fs.type[i] = "free"
  PROVE  /\ i # ROOTINO /\ fs.up[i] = ROOTINO
         /\ \A n \in Name : fs.ent[i][n] = 0
         /\ \A k \in Inum, n \in Name : fs.ent[k][n] # i
         /\ \A p \in Agent : held[p] # i
         /\ Entries(fs, i) = {} /\ Subdirs(fs, i) = {} /\ Holders(held, i) = {}
<1> USE InumFacts
<1>1. i # ROOTINO /\ fs.up[i] = ROOTINO
  BY DEF TreeInv, EntryInv, UpInv
<1>2. \A n \in Name : fs.ent[i][n] = 0
  BY DEF TreeInv, EntryInv
<1>3. \A k \in Inum, n \in Name : fs.ent[k][n] # i
  BY DEF TreeInv, EntryInv
<1>4. \A p \in Agent : held[p] # i
  BY DEF TreeInv, HeldInv
<1> QED BY <1>1, <1>2, <1>3, <1>4 DEF Entries, Subdirs, Holders

(* The parts of the file system and their types.                           *)
LEMMA FsParts ==
  ASSUME TreeTypes
  PROVE  /\ fs = [type |-> fs.type, nlink |-> fs.nlink, ent |-> fs.ent, up |-> fs.up]
         /\ fs.type \in [Inum -> Types] /\ fs.nlink \in [Inum -> Int]
         /\ fs.ent \in [Inum -> [Name -> Linkable]] /\ fs.up \in [Inum -> Inum]
BY DEF TreeTypes, FsType

(* create makes an inode, its name and, for a directory, its "..".         *)
LEMMA MadeTree ==
  ASSUME TreeTypes, TreeInv, NEW d \in Inum, NEW n \in Name, NEW i \in Inum, NEW t \in {"dir", "file"},
         fs.type[d] = "dir", fs.ent[d][n] = 0, fs.type[i] = "free",
         fs' = Made(i, t, d, n), held' = held, removed' = removed,
         strays' = IF Detached(d) THEN strays \cup {i} ELSE strays
  PROVE  TreeTypes' /\ TreeInv'
<1> USE InumFacts
<1>1. /\ i # ROOTINO /\ fs.up[i] = ROOTINO /\ i # d
      /\ \A m \in Name : fs.ent[i][m] = 0
      /\ \A k \in Inum, m \in Name : fs.ent[k][m] # i
      /\ \A p \in Agent : held[p] # i
      /\ Entries(fs, i) = {} /\ Subdirs(fs, i) = {} /\ Holders(held, i) = {}
  BY FreeAlone
<1>2. /\ fs'.type = [fs.type EXCEPT ![i] = t]
      /\ fs'.nlink = [fs.nlink EXCEPT ![i] = 1, ![d] = IF t = "dir" THEN @ + 1 ELSE @]
      /\ fs'.ent = [fs.ent EXCEPT ![i] = [m \in Name |-> 0], ![d][n] = i]
      /\ fs'.up = [fs.up EXCEPT ![i] = IF t = "dir" THEN d ELSE ROOTINO]
      /\ fs' = [type |-> fs'.type, nlink |-> fs'.nlink, ent |-> fs'.ent, up |-> fs'.up]
  BY DEF Made
<1>3. /\ fs'.type \in [Inum -> Types] /\ fs'.nlink \in [Inum -> Int] /\ fs'.up \in [Inum -> Inum]
      /\ fs'.type[i] = t /\ \A j \in Inum \ {i} : fs'.type[j] = fs.type[j]
      /\ fs'.up[i] = (IF t = "dir" THEN d ELSE ROOTINO) /\ \A j \in Inum \ {i} : fs'.up[j] = fs.up[j]
  BY <1>1, <1>2, FsParts DEF Types
<1>4. /\ fs'.nlink[i] = 1 /\ fs'.nlink[d] = (IF t = "dir" THEN fs.nlink[d] + 1 ELSE fs.nlink[d])
      /\ \A j \in Inum \ {i, d} : fs'.nlink[j] = fs.nlink[j]
  BY <1>1, <1>2, FsParts
<1>5. /\ fs'.ent \in [Inum -> [Name -> Linkable]]
      /\ \A j \in Inum, m \in Name : fs'.ent[j][m] = IF j = d /\ m = n THEN i ELSE fs.ent[j][m]
  <2>1. fs'.ent[i] = [m \in Name |-> 0] /\ fs'.ent[d] = [fs.ent[d] EXCEPT ![n] = i]
        /\ \A j \in Inum \ {i, d} : fs'.ent[j] = fs.ent[j]
    BY <1>1, <1>2, FsParts
  <2>2. fs'.ent \in [Inum -> [Name -> Linkable]]
    <3>1. fs'.ent = [j \in Inum |-> fs'.ent[j]]
      BY <1>2, FsParts
    <3>2. [m \in Name |-> 0] \in [Name -> Linkable] /\ [fs.ent[d] EXCEPT ![n] = i] \in [Name -> Linkable]
      BY FsParts
    <3>3. \A j \in Inum : fs'.ent[j] \in [Name -> Linkable]
      <4>1. \A j \in Inum : fs.ent[j] \in [Name -> Linkable]
        BY FsParts
      <4>2. \A j \in Inum : j = i \/ j = d \/ j \in Inum \ {i, d}
        OBVIOUS
      <4> QED BY <2>1, <3>2, <4>1, <4>2, Zenon
    <3> QED BY <3>1, <3>3
  <2>3. ASSUME NEW j \in Inum, NEW m \in Name
        PROVE  fs'.ent[j][m] = IF j = d /\ m = n THEN i ELSE fs.ent[j][m]
    BY <2>1, <1>1, FsParts
  <2> QED BY <2>2, <2>3
<1>6. TreeTypes'
  <2>1. FsType(fs')
    BY <1>2, <1>3, <1>5 DEF FsType
  <2> QED BY <2>1 DEF TreeTypes
<1>7. EntryInv'
  <2>1. fs'.type[ROOTINO] = "dir"
    BY <1>1, <1>3 DEF TreeInv, EntryInv
  <2>2. ASSUME NEW k \in Inum, NEW m \in Name, fs'.ent[k][m] # 0
        PROVE  fs'.type[k] = "dir" /\ fs'.ent[k][m] # k /\ fs'.type[fs'.ent[k][m]] # "free"
    <3>1. CASE k = d /\ m = n
      BY <3>1, <1>1, <1>3, <1>5
    <3>2. CASE ~ (k = d /\ m = n)
      <4>1. fs'.ent[k][m] = fs.ent[k][m] /\ fs.ent[k][m] \in Inum /\ k # i /\ fs.ent[k][m] # i
        BY <3>2, <2>2, <1>1, <1>5, FsParts
      <4>2. fs.type[k] = "dir" /\ fs.ent[k][m] # k /\ fs.type[fs.ent[k][m]] # "free"
        BY <4>1, <2>2 DEF TreeInv, EntryInv
      <4>3. fs'.type[k] = fs.type[k] /\ fs'.type[fs.ent[k][m]] = fs.type[fs.ent[k][m]]
        BY <4>1, <1>3
      <4> QED BY <4>1, <4>2, <4>3
    <3> QED BY <3>1, <3>2
  <2> QED BY <2>1, <2>2 DEF EntryInv
<1>8. UpInv'
  <2>1. SUFFICES ASSUME NEW j \in Inum
                 PROVE  /\ fs'.type[j] # "dir" => fs'.up[j] = ROOTINO
                        /\ j \notin removed' \cup strays' =>
                             fs'.up[j] = ROOTINO \/ \E m \in Name : fs'.ent[fs'.up[j]][m] = j
    BY DEF UpInv
  <2>2. CASE j = i
    BY <2>2, <1>3, <1>5
  <2>3. CASE j # i
    <3>1. fs'.type[j] = fs.type[j] /\ fs'.up[j] = fs.up[j] /\ fs.up[j] \in Inum
      BY <2>3, <1>3, FsParts
    <3>2. /\ fs.type[j] # "dir" => fs.up[j] = ROOTINO
          /\ j \notin removed \cup strays =>
               fs.up[j] = ROOTINO \/ \E m \in Name : fs.ent[fs.up[j]][m] = j
      BY DEF TreeInv, UpInv
    <3>3. \A m \in Name : fs.ent[fs.up[j]][m] = j => fs'.ent[fs.up[j]][m] = j
      BY <3>1, <1>5
    <3> QED BY <3>1, <3>2, <3>3
  <2> QED BY <2>2, <2>3
<1>9. DetachedInv'
  <2>1. SUFFICES ASSUME NEW k \in Inum, fs'.type[k] = "dir", Detached(k)', NEW m \in Name,
                        fs'.ent[k][m] # 0
                 PROVE  fs'.ent[k][m] \in strays'
    BY DEF DetachedInv
  <2>2. k # i
    BY <1>1, <1>5, <2>1
  <2>3. Detached(k)
    <3>1. ASSUME Named(k) PROVE Named(k)'
      <4>1. PICK x \in Inum, y \in Name : fs.ent[x][y] = k
        BY <3>1 DEF Named
      <4>2. fs'.ent[x][y] = k
        BY <4>1, <1>5
      <4> QED BY <4>2 DEF Named
    <3> QED BY <2>1, <2>2, <3>1 DEF Detached
  <2>4. CASE k = d /\ m = n
    BY <2>3, <2>4, <1>5
  <2>5. CASE ~ (k = d /\ m = n)
    <3>1. fs'.ent[k][m] = fs.ent[k][m] /\ fs.type[k] = "dir"
      BY <2>1, <2>2, <2>5, <1>3, <1>5
    <3> QED BY <3>1, <2>1, <2>3 DEF TreeInv, DetachedInv
  <2> QED BY <2>4, <2>5
<1>10. HeldInv'
  <2>1. \A p \in Agent : held[p] # 0 => held[p] \in Inum \ {i}
    BY <1>1 DEF TreeTypes
  <2> QED BY <2>1, <1>3 DEF TreeInv, HeldInv
<1>11. LinkInv'
  <2>1. SUFFICES ASSUME NEW j \in Inum PROVE LinkOf(j)'
    BY DEF LinkInv
  <2>2. LinkOf(j) /\ fs.nlink[j] \in Int
    BY FsParts DEF TreeInv, LinkInv
  <2>3. Holders(held', j) = Holders(held, j)
    OBVIOUS
  <2>4. CASE j = i
    <3>1. Subdirs(fs', j) = {} /\ Holders(held', j) = {}
      BY <1>1, <1>5, <2>3, <2>4 DEF Subdirs
    <3>2. Entries(fs', j) = {<<d, n>>}
      <4>1. \A e \in Inum \X Name : e = <<d, n>> <=> e[1] = d /\ e[2] = n
        OBVIOUS
      <4>2. \A e \in Inum \X Name : fs'.ent[e[1]][e[2]] = i <=> e = <<d, n>>
        <5>1. ASSUME NEW e \in Inum \X Name PROVE fs'.ent[e[1]][e[2]] = i <=> e = <<d, n>>
          <6>1. e[1] \in Inum /\ e[2] \in Name
            OBVIOUS
          <6>2. fs'.ent[e[1]][e[2]] = IF e[1] = d /\ e[2] = n THEN i ELSE fs.ent[e[1]][e[2]]
            BY <6>1, <1>5
          <6>3. fs.ent[e[1]][e[2]] # i
            BY <6>1, <1>1
          <6>4. e = <<d, n>> <=> e[1] = d /\ e[2] = n
            BY <4>1
          <6> QED BY <6>2, <6>3, <6>4
        <5> QED BY <5>1
      <4>3. fs'.type[d] = "dir" /\ <<d, n>> \in Inum \X Name
        BY <1>1, <1>3
      <4> QED BY <4>2, <4>3, <2>4 DEF Entries
    <3>3. Cardinality(Entries(fs', j)) = 1 /\ Cardinality({}) = 0
      BY <3>2, FS_Singleton, FS_EmptySet
    <3>4. LinksIn(fs', held', j) = 1
      BY <3>1, <3>3, <2>4, <1>1 DEF LinksIn
    <3> QED BY <3>4, <2>4, <1>4 DEF LinkOf
  <2>5. CASE j # i
    <3>1. Entries(fs', j) = Entries(fs, j)
      <4>1. ASSUME NEW e \in Inum \X Name PROVE e \in Entries(fs', j) <=> e \in Entries(fs, j)
        <5>1. e[1] \in Inum /\ e[2] \in Name
          OBVIOUS
        <5>2. CASE e[1] = i
          <6>1. fs'.ent[e[1]][e[2]] = 0 /\ fs.ent[e[1]][e[2]] = 0
            BY <5>1, <5>2, <1>1, <1>5
          <6> QED BY <6>1 DEF Entries
        <5>3. CASE e[1] # i
          <6>1. fs'.type[e[1]] = fs.type[e[1]]
            BY <5>1, <5>3, <1>3
          <6>2. fs'.ent[e[1]][e[2]] = j <=> fs.ent[e[1]][e[2]] = j
            BY <5>1, <2>5, <1>5
          <6> QED BY <6>1, <6>2 DEF Entries
        <5> QED BY <5>2, <5>3
      <4> QED BY <4>1 DEF Entries
    <3>2. \A m \in Name : fs.ent[j][m] # 0 => fs'.type[fs.ent[j][m]] = fs.type[fs.ent[j][m]]
      BY <1>1, <1>3, FsParts
    <3>3. CASE j = d /\ t = "dir"
      <4>1. Subdirs(fs', j) = Subdirs(fs, j) \cup {n} /\ n \notin Subdirs(fs, j)
        BY <1>3, <1>5, <3>2, <3>3 DEF Subdirs
      <4>2. Cardinality(Subdirs(fs', j)) = Cardinality(Subdirs(fs, j)) + 1
        BY <4>1, CountFacts, OneMore
      <4>3. LinksIn(fs', held', j) = LinksIn(fs, held, j) + 1
        BY <3>1, <4>2, <2>3, CountFacts, LinksParts
      <4>4. fs'.type[j] = fs.type[j] /\ fs'.nlink[j] = fs.nlink[j] + 1
        BY <1>3, <1>4, <2>5, <3>3
      <4>5. j \notin strays' => j \notin strays
        OBVIOUS
      <4> QED BY <4>3, <4>4, <4>5, <2>2, LinksParts DEF LinkOf
    <3>4. CASE ~ (j = d /\ t = "dir")
      <4>1. Subdirs(fs', j) = Subdirs(fs, j)
        <5>1. ASSUME NEW m \in Name PROVE m \in Subdirs(fs', j) <=> m \in Subdirs(fs, j)
          <6>1. CASE j = d /\ m = n
            BY <6>1, <3>4, <1>3, <1>5 DEF Subdirs
          <6>2. CASE ~ (j = d /\ m = n)
            BY <6>2, <3>2, <1>5 DEF Subdirs
          <6> QED BY <6>1, <6>2
        <5> QED BY <5>1 DEF Subdirs
      <4>2. fs'.nlink[j] = fs.nlink[j] /\ fs'.type[j] = fs.type[j]
        BY <1>3, <1>4, <2>5, <3>4
      <4>3. LinksIn(fs', held', j) = LinksIn(fs, held, j)
        BY <3>1, <4>1, <2>3 DEF LinksIn
      <4>4. j \notin strays' => j \notin strays
        OBVIOUS
      <4> QED BY <4>2, <4>3, <4>4, <2>2 DEF LinkOf
    <3> QED BY <3>3, <3>4
  <2> QED BY <2>4, <2>5
<1> QED BY <1>6, <1>7, <1>8, <1>9, <1>10, <1>11 DEF TreeInv
(* A create without a block for the entry makes an inode without links.    *)
LEMMA UnmadeTree ==
  ASSUME TreeTypes, TreeInv, NEW i \in Inum, NEW t \in {"dir", "file"}, fs.type[i] = "free",
         fs' = Unmade(i, t), held' = held, removed' = removed, strays' = strays
  PROVE  TreeTypes' /\ TreeInv'
<1> USE InumFacts
<1>1. /\ i # ROOTINO /\ fs.up[i] = ROOTINO
      /\ \A m \in Name : fs.ent[i][m] = 0
      /\ \A k \in Inum, m \in Name : fs.ent[k][m] # i
      /\ \A p \in Agent : held[p] # i
      /\ Entries(fs, i) = {} /\ Subdirs(fs, i) = {} /\ Holders(held, i) = {}
  BY FreeAlone
<1>2. /\ fs'.type = [fs.type EXCEPT ![i] = t] /\ fs'.nlink = [fs.nlink EXCEPT ![i] = 0]
      /\ fs'.ent = fs.ent /\ fs'.up = fs.up
      /\ fs' = [type |-> fs'.type, nlink |-> fs'.nlink, ent |-> fs'.ent, up |-> fs'.up]
  <2>1. fs' = [type |-> [fs.type EXCEPT ![i] = t], nlink |-> [fs.nlink EXCEPT ![i] = 0],
               ent |-> fs.ent, up |-> fs.up]
    BY FsParts DEF Unmade
  <2> QED BY <2>1
<1>3. /\ fs'.type \in [Inum -> Types] /\ fs'.nlink \in [Inum -> Int]
      /\ fs'.type[i] = t /\ \A j \in Inum \ {i} : fs'.type[j] = fs.type[j]
      /\ fs'.nlink[i] = 0 /\ \A j \in Inum \ {i} : fs'.nlink[j] = fs.nlink[j]
  BY <1>2, FsParts DEF Types
<1>4. TreeTypes'
  <2>1. FsType(fs')
    BY <1>2, <1>3, FsParts DEF FsType
  <2> QED BY <2>1 DEF TreeTypes
<1>5. EntryInv'
  <2>1. fs'.type[ROOTINO] = "dir"
    BY <1>1, <1>3 DEF TreeInv, EntryInv
  <2>2. ASSUME NEW k \in Inum, NEW m \in Name, fs.ent[k][m] # 0
        PROVE  fs'.type[k] = "dir" /\ fs.ent[k][m] # k /\ fs'.type[fs.ent[k][m]] # "free"
    <3>1. fs.ent[k][m] \in Inum \ {i} /\ k # i
      BY <2>2, <1>1, FsParts
    <3>2. fs'.type[k] = fs.type[k] /\ fs'.type[fs.ent[k][m]] = fs.type[fs.ent[k][m]]
      BY <3>1, <1>3
    <3> QED BY <2>2, <3>2 DEF TreeInv, EntryInv
  <2> QED BY <2>1, <2>2, <1>2 DEF EntryInv
<1>6. UpInv'
  <2>1. ASSUME NEW j \in Inum
        PROVE  /\ fs'.type[j] # "dir" => fs.up[j] = ROOTINO
               /\ j \notin removed \cup strays =>
                    fs.up[j] = ROOTINO \/ \E m \in Name : fs.ent[fs.up[j]][m] = j
    BY <1>1, <1>3 DEF TreeInv, UpInv
  <2> QED BY <2>1, <1>2 DEF UpInv
<1>7. DetachedInv'
  <2>1. SUFFICES ASSUME NEW k \in Inum, fs'.type[k] = "dir", Detached(k)', NEW m \in Name,
                        fs.ent[k][m] # 0
                 PROVE  fs.ent[k][m] \in strays
    BY <1>2 DEF DetachedInv
  <2>2. k # i /\ fs.type[k] = "dir"
    BY <1>1, <1>3, <2>1
  <2>3. Detached(k)
    BY <2>1, <1>2 DEF Detached, Named
  <2> QED BY <2>1, <2>2, <2>3 DEF TreeInv, DetachedInv
<1>8. HeldInv'
  <2>1. \A p \in Agent : held[p] # 0 => held[p] \in Inum \ {i}
    BY <1>1 DEF TreeTypes
  <2> QED BY <2>1, <1>3 DEF TreeInv, HeldInv
<1>9. LinkInv'
  <2>1. SUFFICES ASSUME NEW j \in Inum PROVE LinkOf(j)'
    BY DEF LinkInv
  <2>2. LinkOf(j) /\ fs.nlink[j] \in Int
    BY FsParts DEF TreeInv, LinkInv
  <2>3. Entries(fs', j) = Entries(fs, j)
    <3>1. ASSUME NEW e \in Inum \X Name PROVE e \in Entries(fs', j) <=> e \in Entries(fs, j)
      <4>1. e[1] \in Inum /\ e[2] \in Name
        OBVIOUS
      <4>2. CASE e[1] = i
        <5>1. fs'.ent[e[1]][e[2]] = 0 /\ fs.ent[e[1]][e[2]] = 0
          BY <4>1, <4>2, <1>1, <1>2
        <5> QED BY <5>1 DEF Entries
      <4>3. CASE e[1] # i
        BY <4>1, <4>3, <1>2, <1>3 DEF Entries
      <4> QED BY <4>2, <4>3
    <3> QED BY <3>1 DEF Entries
  <2>4. Subdirs(fs', j) = Subdirs(fs, j)
    <3>1. \A m \in Name : fs.ent[j][m] # 0 => fs'.type[fs.ent[j][m]] = fs.type[fs.ent[j][m]]
      BY <1>1, <1>3, FsParts
    <3> QED BY <3>1, <1>2 DEF Subdirs
  <2>5. LinksIn(fs', held', j) = LinksIn(fs, held, j)
    BY <2>3, <2>4 DEF LinksIn, Holders
  <2>6. CASE j = i
    <3>1. LinksIn(fs, held, j) = 0
      BY <1>1, <2>6, FS_EmptySet DEF LinksIn
    <3> QED BY <3>1, <2>5, <2>6, <1>3 DEF LinkOf
  <2>7. CASE j # i
    BY <2>7, <2>2, <2>5, <1>3 DEF LinkOf
  <2> QED BY <2>6, <2>7
<1> QED BY <1>4, <1>5, <1>6, <1>7, <1>8, <1>9 DEF TreeInv

(* With holders h, i has k links more.                                     *)
MovesLinks(h, i, k) ==
  \A j \in Inum : LinksIn(fs, h, j) = LinksIn(fs, held, j) + (IF j = i THEN k ELSE 0)

(* What a change of link counts and holders alone keeps.                   *)
LEMMA CountTree ==
  ASSUME TreeTypes, TreeInv, NEW i \in Inum, NEW k \in Int, fs' = Relinked(i, k),
         held' \in [Agent -> Linkable], removed' = removed, strays' = strays, HeldInv',
         MovesLinks(held', i, k), fs.type[i] # "free"
  PROVE  TreeTypes' /\ TreeInv'
<1>1. /\ fs'.type = fs.type /\ fs'.nlink = [fs.nlink EXCEPT ![i] = @ + k]
      /\ fs'.ent = fs.ent /\ fs'.up = fs.up
      /\ fs' = [type |-> fs'.type, nlink |-> fs'.nlink, ent |-> fs'.ent, up |-> fs'.up]
  <2>1. fs' = [type |-> fs.type, nlink |-> [fs.nlink EXCEPT ![i] = @ + k],
               ent |-> fs.ent, up |-> fs.up]
    BY FsParts DEF Relinked
  <2> QED BY <2>1
<1>2. fs'.nlink \in [Inum -> Int] /\ \A j \in Inum : fs'.nlink[j] = fs.nlink[j] + (IF j = i THEN k ELSE 0)
  BY <1>1, FsParts
<1>3. TreeTypes'
  <2>1. FsType(fs')
    BY <1>1, <1>2, FsParts DEF FsType
  <2> QED BY <2>1 DEF TreeTypes
<1>4. EntryInv' /\ UpInv' /\ DetachedInv'
  <2>1. EntryInv'
    BY <1>1 DEF TreeInv, EntryInv
  <2>2. UpInv'
    BY <1>1 DEF TreeInv, UpInv
  <2>3. \A d : Detached(d)' <=> Detached(d)
    BY <1>1 DEF Detached, Named
  <2>4. DetachedInv'
    BY <2>3, <1>1 DEF TreeInv, DetachedInv
  <2> QED BY <2>1, <2>2, <2>4
<1>5. LinkInv'
  <2>1. SUFFICES ASSUME NEW j \in Inum PROVE LinkOf(j)'
    BY DEF LinkInv
  <2>2. LinkOf(j) /\ fs.nlink[j] \in Int
    BY FsParts DEF TreeInv, LinkInv
  <2>3. LinksIn(fs', held', j) = LinksIn(fs, held', j)
    BY <1>1 DEF LinksIn, Entries, Subdirs
  <2>4. LinksIn(fs, held', j) \in Nat /\ LinksIn(fs, held, j) \in Nat
    BY LinksParts
  <2>5. fs'.type[j] = fs.type[j] /\ fs'.nlink[j] = fs.nlink[j] + (IF j = i THEN k ELSE 0)
    BY <1>1, <1>2
  <2>6. LinksIn(fs, held', j) = LinksIn(fs, held, j) + (IF j = i THEN k ELSE 0)
    BY DEF MovesLinks
  <2>7. CASE j = i
    BY <2>7, <2>2, <2>3, <2>4, <2>5, <2>6 DEF LinkOf
  <2>8. CASE j # i
    BY <2>8, <2>2, <2>3, <2>4, <2>5, <2>6 DEF LinkOf
  <2> QED BY <2>7, <2>8
<1> QED BY <1>3, <1>4, <1>5 DEF TreeInv

(* sys_link counts a link for the name it is about to make.                *)
LEMMA LinkTree ==
  ASSUME TreeTypes, TreeInv, NEW p \in Agent, NEW i \in Inum, fs.type[i] = "file", held[p] = 0,
         fs' = Relinked(i, 1), held' = [held EXCEPT ![p] = i], removed' = removed, strays' = strays
  PROVE  TreeTypes' /\ TreeInv'
<1> USE InumFacts
<1>1. held' \in [Agent -> Linkable] /\ held'[p] = i /\ \A q \in Agent \ {p} : held'[q] = held[q]
  BY DEF TreeTypes
<1>2. Holders(held', i) = Holders(held, i) \cup {p} /\ p \notin Holders(held, i)
  BY <1>1 DEF Holders
<1>3. \A j \in Inum \ {i} : Holders(held', j) = Holders(held, j)
  BY <1>1 DEF Holders
<1>4. Cardinality(Holders(held', i)) = Cardinality(Holders(held, i)) + 1
  BY <1>2, CountFacts, OneMore
<1>5. ASSUME NEW j \in Inum
      PROVE  LinksIn(fs, held', j) = LinksIn(fs, held, j) + (IF j = i THEN 1 ELSE 0)
  <2>1. CASE j = i
    BY <2>1, <1>4, LinksParts, CountFacts
  <2>2. CASE j # i
    <3>1. Holders(held', j) = Holders(held, j)
      BY <2>2, <1>3
    <3>2. LinksIn(fs, held', j) = LinksIn(fs, held, j)
      BY <3>1 DEF LinksIn
    <3> QED BY <3>2, <2>2, LinksParts
  <2> QED BY <2>1, <2>2
<1>6. HeldInv'
  <2>1. fs'.type = fs.type
    BY FsParts DEF Relinked
  <2> QED BY <2>1, <1>1 DEF TreeInv, HeldInv
<1>7. MovesLinks(held', i, 1)
  BY <1>5, Zenon DEF MovesLinks
<1>8. fs.type[i] # "free" /\ 1 \in Int
  OBVIOUS
<1> QED BY <1>1, <1>6, <1>7, <1>8, CountTree

(* sys_link takes the link back when it cannot make the name.              *)
LEMMA LinkBadTree ==
  ASSUME TreeTypes, TreeInv, NEW p \in Agent, NEW i \in Inum, held[p] = i,
         fs' = Relinked(i, -1), held' = [held EXCEPT ![p] = 0], removed' = removed, strays' = strays
  PROVE  TreeTypes' /\ TreeInv'
<1> USE InumFacts
<1>1. held' \in [Agent -> Linkable] /\ held'[p] = 0 /\ \A q \in Agent \ {p} : held'[q] = held[q]
  BY DEF TreeTypes
<1>2. Holders(held', i) = Holders(held, i) \ {p} /\ p \in Holders(held, i)
  BY <1>1 DEF Holders
<1>3. \A j \in Inum \ {i} : Holders(held', j) = Holders(held, j)
  BY <1>1 DEF Holders
<1>4. Cardinality(Holders(held', i)) = Cardinality(Holders(held, i)) - 1
  BY <1>2, CountFacts, Fewer
<1>5. ASSUME NEW j \in Inum
      PROVE  LinksIn(fs, held', j) = LinksIn(fs, held, j) + (IF j = i THEN -1 ELSE 0)
  <2>1. CASE j = i
    BY <2>1, <1>4, LinksParts, CountFacts
  <2>2. CASE j # i
    <3>1. Holders(held', j) = Holders(held, j)
      BY <2>2, <1>3
    <3>2. LinksIn(fs, held', j) = LinksIn(fs, held, j)
      BY <3>1 DEF LinksIn
    <3> QED BY <3>2, <2>2, LinksParts
  <2> QED BY <2>1, <2>2
<1>6. HeldInv'
  <2>1. fs'.type = fs.type
    BY FsParts DEF Relinked
  <2> QED BY <2>1, <1>1 DEF TreeInv, HeldInv
<1>7. fs.type[i] # "free" /\ -1 \in Int
  BY DEF TreeInv, HeldInv
<1>8. MovesLinks(held', i, -1)
  BY <1>5, Zenon DEF MovesLinks
<1> QED BY <1>1, <1>6, <1>7, <1>8, CountTree
(* sys_link makes the name it has counted.                                 *)
LEMMA LinkEntryTree ==
  ASSUME TreeTypes, TreeInv, NEW p \in Agent, NEW i \in Inum, NEW d \in Inum, NEW n \in Name,
         held[p] = i, fs.type[d] = "dir", fs.ent[d][n] = 0,
         fs' = Linked(d, n, i), held' = [held EXCEPT ![p] = 0], removed' = removed,
         strays' = IF Detached(d) THEN strays \cup {i} ELSE strays
  PROVE  TreeTypes' /\ TreeInv'
<1> USE InumFacts
<1>1. held' \in [Agent -> Linkable] /\ held'[p] = 0 /\ \A q \in Agent \ {p} : held'[q] = held[q]
  BY DEF TreeTypes
<1>2. fs.type[i] = "file" /\ i # d
  BY DEF TreeInv, HeldInv
<1>3. /\ fs'.type = fs.type /\ fs'.nlink = fs.nlink /\ fs'.up = fs.up
      /\ fs'.ent = [fs.ent EXCEPT ![d][n] = i]
      /\ fs' = [type |-> fs'.type, nlink |-> fs'.nlink, ent |-> fs'.ent, up |-> fs'.up]
  <2>1. fs' = [type |-> fs.type, nlink |-> fs.nlink, ent |-> [fs.ent EXCEPT ![d][n] = i], up |-> fs.up]
    BY FsParts DEF Linked
  <2> QED BY <2>1
<1>4. /\ fs'.ent \in [Inum -> [Name -> Linkable]]
      /\ \A j \in Inum, m \in Name : fs'.ent[j][m] = IF j = d /\ m = n THEN i ELSE fs.ent[j][m]
  BY <1>3, FsParts
<1>5. TreeTypes'
  <2>1. FsType(fs')
    BY <1>3, <1>4, FsParts DEF FsType
  <2> QED BY <2>1, <1>1 DEF TreeTypes
<1>6. EntryInv'
  BY <1>2, <1>3, <1>4 DEF TreeInv, EntryInv
<1>7. UpInv'
  <2>1. SUFFICES ASSUME NEW j \in Inum
                 PROVE  /\ fs.type[j] # "dir" => fs.up[j] = ROOTINO
                        /\ j \notin removed' \cup strays' =>
                             fs.up[j] = ROOTINO \/ \E m \in Name : fs'.ent[fs.up[j]][m] = j
    BY <1>3 DEF UpInv
  <2>2. /\ fs.type[j] # "dir" => fs.up[j] = ROOTINO
        /\ j \notin removed \cup strays =>
             fs.up[j] = ROOTINO \/ \E m \in Name : fs.ent[fs.up[j]][m] = j
    BY DEF TreeInv, UpInv
  <2>3. fs.up[j] \in Inum /\ (j \notin removed' \cup strays' => j \notin removed \cup strays)
    BY FsParts
  <2>4. \A m \in Name : fs.ent[fs.up[j]][m] = j => fs'.ent[fs.up[j]][m] = j
    BY <2>3, <1>4
  <2> QED BY <2>2, <2>3, <2>4
<1>8. DetachedInv'
  <2>1. SUFFICES ASSUME NEW k \in Inum, fs.type[k] = "dir", Detached(k)', NEW m \in Name,
                        fs'.ent[k][m] # 0
                 PROVE  fs'.ent[k][m] \in strays'
    BY <1>3 DEF DetachedInv
  <2>2. Detached(k)
    <3>1. ASSUME Named(k) PROVE Named(k)'
      <4>1. PICK x \in Inum, y \in Name : fs.ent[x][y] = k
        BY <3>1 DEF Named
      <4>2. fs'.ent[x][y] = k
        BY <4>1, <1>4
      <4> QED BY <4>2 DEF Named
    <3>2. k # i
      BY <1>2, <2>1
    <3> QED BY <2>1, <3>1, <3>2 DEF Detached
  <2>3. CASE k = d /\ m = n
    BY <2>2, <2>3, <1>4
  <2>4. CASE ~ (k = d /\ m = n)
    <3>1. fs'.ent[k][m] = fs.ent[k][m]
      BY <2>4, <1>4
    <3> QED BY <3>1, <2>1, <2>2 DEF TreeInv, DetachedInv
  <2> QED BY <2>3, <2>4
<1>9. HeldInv'
  BY <1>1, <1>3 DEF TreeInv, HeldInv
<1>10. LinkInv'
  <2>1. SUFFICES ASSUME NEW j \in Inum PROVE LinkOf(j)'
    BY DEF LinkInv
  <2>2. LinkOf(j) /\ (j \notin strays' => j \notin strays)
    BY DEF TreeInv, LinkInv
  <2>3. Subdirs(fs', j) = Subdirs(fs, j)
    BY <1>2, <1>3, <1>4 DEF Subdirs
  <2>4. CASE j = i
    <3>1. Entries(fs', j) = Entries(fs, j) \cup {<<d, n>>} /\ <<d, n>> \notin Entries(fs, j)
      <4>1. \A e \in Inum \X Name : e = <<d, n>> <=> e[1] = d /\ e[2] = n
        OBVIOUS
      <4>2. <<d, n>> \notin Entries(fs, j)
        BY <2>4 DEF Entries
      <4>3. ASSUME NEW e \in Inum \X Name
            PROVE  e \in Entries(fs', j) <=> e \in Entries(fs, j) \/ e = <<d, n>>
        <5>1. e[1] \in Inum /\ e[2] \in Name
          OBVIOUS
        <5>2. fs'.ent[e[1]][e[2]] = IF e[1] = d /\ e[2] = n THEN i ELSE fs.ent[e[1]][e[2]]
          BY <5>1, <1>4
        <5> QED BY <5>2, <4>1, <1>3, <2>4 DEF Entries
      <4>4. <<d, n>> \in Inum \X Name
        OBVIOUS
      <4> QED BY <4>2, <4>3, <4>4 DEF Entries
    <3>2. Holders(held', j) = Holders(held, j) \ {p} /\ p \in Holders(held, j)
      BY <1>1, <2>4 DEF Holders
    <3>3. Cardinality(Entries(fs', j)) = Cardinality(Entries(fs, j)) + 1
      BY <3>1, CountFacts, OneMore
    <3>4. Cardinality(Holders(held', j)) = Cardinality(Holders(held, j)) - 1
      BY <3>2, CountFacts, Fewer
    <3>5. LinksIn(fs', held', j) = LinksIn(fs, held, j)
      BY <2>3, <3>3, <3>4, CountFacts, LinksParts
    <3> QED BY <3>5, <2>2, <1>3 DEF LinkOf
  <2>5. CASE j # i
    <3>1. Entries(fs', j) = Entries(fs, j)
      <4>1. ASSUME NEW e \in Inum \X Name PROVE e \in Entries(fs', j) <=> e \in Entries(fs, j)
        <5>1. e[1] \in Inum /\ e[2] \in Name
          OBVIOUS
        <5>2. fs'.ent[e[1]][e[2]] = IF e[1] = d /\ e[2] = n THEN i ELSE fs.ent[e[1]][e[2]]
          BY <5>1, <1>4
        <5> QED BY <5>2, <1>3, <2>5 DEF Entries
      <4> QED BY <4>1 DEF Entries
    <3>2. Holders(held', j) = Holders(held, j)
      BY <1>1, <2>5 DEF Holders
    <3>3. LinksIn(fs', held', j) = LinksIn(fs, held, j)
      BY <3>1, <3>2, <2>3 DEF LinksIn
    <3> QED BY <3>3, <2>2, <1>3 DEF LinkOf
  <2> QED BY <2>4, <2>5
<1> QED BY <1>5, <1>6, <1>7, <1>8, <1>9, <1>10 DEF TreeInv

(* The inodes of E are freed.                                              *)
ErasesAll(E) ==
  fs' = [type  |-> [j \in Inum |-> IF j \in E THEN "free" ELSE fs.type[j]],
         nlink |-> fs.nlink,
         ent   |-> [j \in Inum |-> IF j \in E THEN [m \in Name |-> 0] ELSE fs.ent[j]],
         up    |-> [j \in Inum |-> IF j \in E THEN ROOTINO ELSE fs.up[j]]]

(* Inodes without links may go: what is in them was lost before.           *)
LEMMA EraseTree ==
  ASSUME TreeTypes, TreeInv, NEW E \in SUBSET Inum, ErasesAll(E),
         \A i \in E : fs.type[i] # "free" /\ fs.nlink[i] = 0,
         held' = held, removed' = removed \ E, strays' \subseteq strays, strays \ E \subseteq strays'
  PROVE  TreeTypes' /\ TreeInv'
<1> USE InumFacts
<1>1. ASSUME NEW i \in E
      PROVE  /\ i # ROOTINO /\ ~ Named(i) /\ Detached(i)
             /\ \A p \in Agent : held[p] # i
             /\ \A n \in Name : fs.ent[i][n] # 0 => fs.ent[i][n] \in strays \ E
  <2>1. fs.type[i] # "free" /\ fs.nlink[i] = 0 /\ i \in Inum
    OBVIOUS
  <2>2. i # ROOTINO /\ ~ Named(i) /\ Detached(i) /\ \A p \in Agent : held[p] # i
    BY <2>1, NoLinks
  <2>3. ASSUME NEW n \in Name, fs.ent[i][n] # 0 PROVE fs.ent[i][n] \in strays \ E
    <3>1. fs.type[i] = "dir" /\ fs.ent[i][n] \in Inum
      BY <2>3, <2>1, FsParts DEF TreeInv, EntryInv
    <3>2. fs.ent[i][n] \in strays
      BY <2>1, <2>2, <2>3, <3>1 DEF TreeInv, DetachedInv
    <3>3. Named(fs.ent[i][n])
      BY <2>1 DEF Named
    <3>4. fs.ent[i][n] \notin E
      <4>1. SUFFICES ASSUME fs.ent[i][n] \in E PROVE FALSE
        OBVIOUS
      <4>2. fs.type[fs.ent[i][n]] # "free" /\ fs.nlink[fs.ent[i][n]] = 0
        BY <4>1
      <4> QED BY <4>2, <3>1, <3>3, NoLinks
    <3> QED BY <3>2, <3>4
  <2> QED BY <2>2, <2>3
<1>2. /\ fs'.type \in [Inum -> Types] /\ fs'.nlink = fs.nlink /\ fs'.up \in [Inum -> Inum]
      /\ \A j \in Inum : fs'.type[j] = IF j \in E THEN "free" ELSE fs.type[j]
      /\ \A j \in Inum : fs'.up[j] = IF j \in E THEN ROOTINO ELSE fs.up[j]
      /\ \A j \in Inum : fs'.ent[j] = IF j \in E THEN [m \in Name |-> 0] ELSE fs.ent[j]
      /\ fs'.ent \in [Inum -> [Name -> Linkable]]
      /\ fs' = [type |-> fs'.type, nlink |-> fs'.nlink, ent |-> fs'.ent, up |-> fs'.up]
  <2>1. [m \in Name |-> 0] \in [Name -> Linkable]
    OBVIOUS
  <2> QED BY <2>1, FsParts DEF ErasesAll, Types
<1>3. \A j \in Inum, m \in Name : fs'.ent[j][m] = IF j \in E THEN 0 ELSE fs.ent[j][m]
  BY <1>2
<1>4. TreeTypes'
  <2>1. FsType(fs')
    BY <1>2, FsParts DEF FsType
  <2> QED BY <2>1 DEF TreeTypes
<1>5. \A j \in Inum, m \in Name : fs.ent[j][m] \notin E
  BY <1>1 DEF Named
<1>6. EntryInv'
  <2>1. fs'.type[ROOTINO] = "dir"
    BY <1>1, <1>2 DEF TreeInv, EntryInv
  <2>2. ASSUME NEW k \in Inum, NEW m \in Name, fs'.ent[k][m] # 0
        PROVE  fs'.type[k] = "dir" /\ fs'.ent[k][m] # k /\ fs'.type[fs'.ent[k][m]] # "free"
    <3>1. k \notin E /\ fs'.ent[k][m] = fs.ent[k][m] /\ fs.ent[k][m] \in Inum
      BY <2>2, <1>3, FsParts
    <3>2. fs.type[k] = "dir" /\ fs.ent[k][m] # k /\ fs.type[fs.ent[k][m]] # "free"
      BY <3>1, <2>2 DEF TreeInv, EntryInv
    <3> QED BY <3>1, <3>2, <1>2, <1>5
  <2> QED BY <2>1, <2>2 DEF EntryInv
<1>7. UpInv'
  <2>1. SUFFICES ASSUME NEW j \in Inum
                 PROVE  /\ fs'.type[j] # "dir" => fs'.up[j] = ROOTINO
                        /\ j \notin removed' \cup strays' =>
                             fs'.up[j] = ROOTINO \/ \E m \in Name : fs'.ent[fs'.up[j]][m] = j
    BY DEF UpInv
  <2>2. CASE j \in E
    BY <2>2, <1>2
  <2>3. CASE j \notin E
    <3>1. fs'.type[j] = fs.type[j] /\ fs'.up[j] = fs.up[j] /\ fs.up[j] \in Inum
      BY <2>3, <1>2, FsParts
    <3>2. /\ fs.type[j] # "dir" => fs.up[j] = ROOTINO
          /\ j \notin removed \cup strays =>
               fs.up[j] = ROOTINO \/ \E m \in Name : fs.ent[fs.up[j]][m] = j
      BY DEF TreeInv, UpInv
    <3>3. j \notin removed' \cup strays' => j \notin removed \cup strays
      BY <2>3
    <3>4. ASSUME j \notin strays, NEW m \in Name, fs.ent[fs.up[j]][m] = j
          PROVE  fs'.ent[fs.up[j]][m] = j
      <4>1. fs.up[j] \notin E
        BY <1>1, <3>4
      <4> QED BY <4>1, <3>1, <3>4, <1>3
    <3> QED BY <3>1, <3>2, <3>3, <3>4
  <2> QED BY <2>2, <2>3
<1>8. DetachedInv'
  <2>1. SUFFICES ASSUME NEW k \in Inum, fs'.type[k] = "dir", Detached(k)', NEW m \in Name,
                        fs'.ent[k][m] # 0
                 PROVE  fs'.ent[k][m] \in strays'
    BY DEF DetachedInv
  <2>2. k \notin E /\ fs'.ent[k][m] = fs.ent[k][m] /\ fs.type[k] = "dir"
    BY <2>1, <1>2, <1>3
  <2>3. Detached(k)
    <3>1. SUFFICES ASSUME Named(k), ~ Named(k)', k \notin strays PROVE FALSE
      BY <2>1 DEF Detached
    <3>2. PICK x \in Inum, y \in Name : fs.ent[x][y] = k
      BY <3>1 DEF Named
    <3>3. x \notin E
      BY <3>1, <3>2, <1>1
    <3>4. fs'.ent[x][y] = k
      BY <3>2, <3>3, <1>3
    <3> QED BY <3>1, <3>4 DEF Named
  <2>4. fs.ent[k][m] \in strays
    BY <2>1, <2>2, <2>3 DEF TreeInv, DetachedInv
  <2> QED BY <2>2, <2>4, <1>5
<1>9. HeldInv'
  <2>1. \A p \in Agent : held[p] # 0 => held[p] \in Inum \ E
    BY <1>1 DEF TreeTypes
  <2> QED BY <2>1, <1>2 DEF TreeInv, HeldInv
<1>10. LinkInv'
  <2>1. SUFFICES ASSUME NEW j \in Inum PROVE LinkOf(j)'
    BY DEF LinkInv
  <2>2. LinkOf(j) /\ fs.nlink[j] \in Int
    BY FsParts DEF TreeInv, LinkInv
  <2>3. CASE j \in E
    BY <2>2, <2>3, <1>2 DEF LinkOf
  <2>4. CASE j \notin E
    <3>1. Entries(fs', j) \subseteq Entries(fs, j)
      <4>1. ASSUME NEW e \in Entries(fs', j) PROVE e \in Entries(fs, j)
        <5>1. /\ e \in Inum \X Name /\ e[1] \in Inum /\ e[2] \in Name
              /\ fs'.type[e[1]] = "dir" /\ fs'.ent[e[1]][e[2]] = j
          BY DEF Entries
        <5>2. e[1] \notin E
          BY <5>1, <1>2
        <5> QED BY <5>1, <5>2, <1>2, <1>3 DEF Entries
      <4> QED BY <4>1
    <3>2. j \notin strays => Entries(fs', j) = Entries(fs, j)
      <4>1. ASSUME j \notin strays, NEW e \in Entries(fs, j) PROVE e \in Entries(fs', j)
        <5>1. /\ e \in Inum \X Name /\ e[1] \in Inum /\ e[2] \in Name
              /\ fs.type[e[1]] = "dir" /\ fs.ent[e[1]][e[2]] = j
          BY DEF Entries
        <5>2. e[1] \notin E
          BY <5>1, <4>1, <1>1
        <5> QED BY <5>1, <5>2, <1>2, <1>3 DEF Entries
      <4> QED BY <3>1, <4>1
    <3>3. Subdirs(fs', j) = Subdirs(fs, j)
      <4>1. \A m \in Name : fs'.ent[j][m] = fs.ent[j][m]
        BY <2>4, <1>3
      <4>2. \A m \in Name : fs.ent[j][m] # 0 => fs'.type[fs.ent[j][m]] = fs.type[fs.ent[j][m]]
        BY <1>2, <1>5, FsParts
      <4> QED BY <4>1, <4>2 DEF Subdirs
    <3>4. Cardinality(Entries(fs', j)) <= Cardinality(Entries(fs, j))
      BY <3>1, CountFacts, FS_Subset
    <3>5. LinksIn(fs', held', j) <= LinksIn(fs, held, j)
      BY <3>3, <3>4, CountFacts, LinksParts
    <3>6. j \notin strays => LinksIn(fs', held', j) = LinksIn(fs, held, j)
      BY <3>2, <3>3 DEF LinksIn
    <3>7. j \notin strays' => j \notin strays
      BY <2>4
    <3>8. fs'.type[j] = fs.type[j] /\ fs'.nlink[j] = fs.nlink[j]
      BY <2>4, <1>2
    <3> QED BY <3>5, <3>6, <3>7, <3>8, <2>2, LinksParts DEF LinkOf
  <2> QED BY <2>3, <2>4
<1> QED BY <1>4, <1>6, <1>7, <1>8, <1>9, <1>10 DEF TreeInv
-----------------------------------------------------------------------------
(* One process's step.                                                     *)

Moves(p) ==
  /\ cwd' \in [Agent -> Linkable] /\ jail' \in [Agent -> Linkable]
  /\ fd' \in [Agent -> Linkable] /\ ip' \in [Agent -> Linkable] /\ held' \in [Agent -> Linkable]
  /\ \A q \in Agent \ {p} : /\ cwd'[q] = cwd[q] /\ jail'[q] = jail[q] /\ fd'[q] = fd[q]
                            /\ ip'[q] = ip[q] /\ held'[q] = held[q]

Turns(p) ==
  /\ iref' \in [Inum -> Int] /\ leaked' \in [Inum -> Nat] /\ pc' \in [Agent -> Pcs]
  /\ todo' \in [Agent -> Seq(Inum)] /\ \A q \in Agent : Len(todo'[q]) <= 2
  /\ \A q \in Agent \ {p} : todo'[q] = todo[q] /\ pc'[q] = pc[q]

Flows == freed' \subseteq Agent /\ panic' \in {"no", "ilock: no type"} /\ slipped' \subseteq Inum

(* One process moves, and iref follows its pointers.                       *)
LEMMA MoveStep ==
  ASSUME NamesIInv, NEW p \in Agent, Moves(p), Turns(p), Flows, TreeTypes', TreeInv', SlipInv', CallOf(p)',
         \A j \in Inum : iref'[j] - leaked'[j] - OwnRefs(p, j)' = iref[j] - leaked[j] - OwnRefs(p, j)
  PROVE  NamesIInv'
<1>1. TableTypes' /\ FlowTypes' /\ FsType(fs)'
  BY DEF Moves, Turns, Flows, TreeTypes, TableTypes, FlowTypes
<1>2. OthersRest(p)
  BY DEF Moves, Turns, OthersRest
<1>3. RefsAreHeld'
  BY <1>1, <1>2, RefsStep DEF NamesIInv
<1>4. ASSUME NEW q \in Agent, q # p PROVE CallOf(q)'
  <2>1. CallOf(q)
    BY DEF NamesIInv, CallInv
  <2>2. /\ cwd'[q] = cwd[q] /\ jail'[q] = jail[q] /\ fd'[q] = fd[q]
        /\ ip'[q] = ip[q] /\ held'[q] = held[q] /\ todo'[q] = todo[q] /\ pc'[q] = pc[q]
    BY <1>4 DEF Moves, Turns
  <2> QED BY <2>1, <2>2 DEF CallOf
<1>5. CallInv'
  BY <1>4 DEF CallInv
<1> QED BY <1>1, <1>3, <1>5 DEF NamesIInv

(* No inode without links is without a reference, in f under r.            *)
Referenced(f, r) ==
  \A i \in Inum : f.type[i] # "free" /\ f.nlink[i] = 0 => r[i] > 0 \/ i \in slipped

(* What p's own pointers lose besides a and b is what r has more.          *)
Accounted(p, r, a, b) ==
  \A j \in Inum : r[j] - One(j = a) - One(j = b) - leaked'[j] - KeptRefs(p, j)'
                    = iref[j] - leaked[j] - KeptRefs(p, j)

CountsAreNat ==
  \A p \in Agent, j \in Inum : PutRefs(p, j) \in Nat /\ KeptRefs(p, j) \in Nat

(* The same for the next state.                                            *)
LEMMA CountsNatural == CountsAreNat
BY OwnNat DEF CountsAreNat

(* Settle keeps the count of references.                                   *)
LEMMA SettleRefs ==
  ASSUME TableTypes, NEW p \in Agent, NEW where, NEW f, NEW r \in [Inum -> Int], NEW a, NEW b,
         SettledBy(p, where, f, r, a, b), leaked' \in [Inum -> Nat], Accounted(p, r, a, b)
  PROVE  \A j \in Inum : iref'[j] - leaked'[j] - OwnRefs(p, j)' = iref[j] - leaked[j] - OwnRefs(p, j)
<1>1. SettledBy(p, where, f, r, a, b)
  OBVIOUS
<1>2. ASSUME NEW j \in Inum
      PROVE  iref'[j] - leaked'[j] - OwnRefs(p, j)' = iref[j] - leaked[j] - OwnRefs(p, j)
  <2>1. /\ PutRefs(p, j) = 0
        /\ iref'[j] - PutRefs(p, j)' = r[j] - One(j = a) - One(j = b)
    BY <1>1 DEF SettledBy
  <2>2. r[j] - One(j = a) - One(j = b) - leaked'[j] - KeptRefs(p, j)' = iref[j] - leaked[j] - KeptRefs(p, j)
    BY DEF Accounted
  <2>3. /\ iref'[j] \in Int /\ r[j] \in Int /\ iref[j] \in Int /\ leaked[j] \in Nat /\ leaked'[j] \in Nat
    BY <1>1 DEF SettledBy, TableTypes
  <2>4. /\ \A c : One(c) \in {0, 1}
        /\ PutRefs(p, j)' \in Nat /\ KeptRefs(p, j)' \in Nat /\ KeptRefs(p, j) \in Nat
    <3>1. CountsAreNat /\ CountsAreNat'
      BY CountsNatural, PTL
    <3>2. \A c : One(c) \in {0, 1}
      BY OwnNat
    <3> QED BY <3>1, <3>2 DEF CountsAreNat
  <2>5. OwnRefs(p, j)' = KeptRefs(p, j)' + PutRefs(p, j)' /\ OwnRefs(p, j) = KeptRefs(p, j) + PutRefs(p, j)
    BY DEF OwnRefs
  <2>6. One(j = a) \in Nat /\ One(j = b) \in Nat
    BY DEF One
  <2> DEFINE x1 == One(j = a) x2 == One(j = b) k1 == KeptRefs(p, j)' k0 == KeptRefs(p, j) q1 == PutRefs(p, j)'
  <2> HIDE DEF x1, x2, k1, k0, q1
  <2>7. /\ iref'[j] - q1 = r[j] - x1 - x2
        /\ r[j] - x1 - x2 - leaked'[j] - k1 = iref[j] - leaked[j] - k0
        /\ x1 \in Nat /\ x2 \in Nat /\ k1 \in Nat /\ k0 \in Nat /\ q1 \in Nat
    BY <2>1, <2>2, <2>4, <2>6 DEF x1, x2, k1, k0, q1
  <2>8. iref'[j] - leaked'[j] - (k1 + q1) = iref[j] - leaked[j] - k0
    <3>1. \A u, v, w, z, y, x, l, m, n, o \in Int :
             u - v = w - x - y /\ w - x - y - l - m = n - o - z => u - l - (m + v) = n - o - z
      OBVIOUS
    <3> QED BY <2>3, <2>7, <3>1
  <2>9. OwnRefs(p, j)' = k1 + q1
    BY <2>5 DEF k1, q1
  <2>10. OwnRefs(p, j) = k0
    <3>1. k0 + 0 = k0
      BY <2>7
    <3> QED BY <2>1, <2>5, <3>1 DEF k0
  <2> QED BY <2>8, <2>9, <2>10
<1> QED BY <1>2

(* The parts of the invariant the lemmas about the tree ask for.           *)
LEMMA TreeNow ==
  ASSUME NamesIInv
  PROVE  TreeTypes /\ TreeInv /\ TableTypes /\ RefsAreHeld
BY DEF NamesIInv, TreeTypes, TableTypes, FlowTypes

(* A step that settles, and accounts for its pointers.                     *)
LEMMA SettleStep ==
  ASSUME NamesIInv, NEW p \in Agent, todo[p] = << >>, NEW where \in Pcs, NEW f,
         NEW r \in [Inum -> Int], NEW a \in Linkable, NEW b \in Linkable, a = b => a = 0,
         Settle(p, where, f, r, a, b), Moves(p), leaked' \in [Inum -> Nat], Accounted(p, r, a, b),
         freed' = freed, panic' \in {"no", "ilock: no type"}, slipped' = slipped,
         TreeTypes', TreeInv', Referenced(f, r),
         SettledBy(p, where, f, r, a, b) => CallOf(p)'
  PROVE  NamesIInv'
<1>1. SettledBy(p, where, f, r, a, b)
  BY SettleFacts DEF NamesIInv, FlowTypes
<1>2. Turns(p)
  BY <1>1 DEF SettledBy, Turns
<1>3. SlipInv'
  <2>1. \A i \in Inum : f.type[i] # "free" /\ f.nlink[i] = 0 => r[i] > 0 \/ i \in slipped
    BY DEF Referenced
  <2> QED BY <1>1, <2>1, SettleSlip
<1>4. Flows
  BY DEF Flows, NamesIInv, FlowTypes
<1>5. \A j \in Inum : iref'[j] - leaked'[j] - OwnRefs(p, j)' = iref[j] - leaked[j] - OwnRefs(p, j)
  BY <1>1, TreeNow, SettleRefs
<1>6. CallOf(p)'
  BY <1>1
<1> QED BY <1>2, <1>3, <1>4, <1>5, <1>6, MoveStep

(* The tree where no inode, name or holder changes.                        *)
LEMMA TreeSame ==
  ASSUME NamesIInv, fs' = fs, held' = held, removed' = removed, strays' = strays
  PROVE  TreeTypes' /\ TreeInv'
<1>1. TreeTypes /\ TreeInv
  BY DEF NamesIInv, TreeTypes, TableTypes, FlowTypes
<1>2. TreeTypes'
  BY <1>1 DEF TreeTypes
<1>3. \A d : Detached(d)' <=> Detached(d)
  BY DEF Detached, Named
<1>4. EntryInv' /\ UpInv' /\ HeldInv'
  BY <1>1 DEF TreeInv, EntryInv, UpInv, HeldInv
<1>5. DetachedInv'
  BY <1>1, <1>3 DEF TreeInv, DetachedInv
<1>6. LinkInv'
  BY <1>1 DEF TreeInv, LinkInv, LinkOf
<1> QED BY <1>2, <1>4, <1>5, <1>6 DEF TreeInv

(* A step that only gets references keeps one to every inode without links. *)
LEMMA StillReferenced ==
  ASSUME NamesIInv
  PROVE  Referenced(fs, iref) /\ \A i \in Inum : Referenced(fs, Got(i))
<1>1. Referenced(fs, iref)
  BY DEF NamesIInv, SlipInv, Referenced
<1>2. ASSUME NEW i \in Inum PROVE Referenced(fs, Got(i))
  <2>1. \A j \in Inum : Got(i)[j] = iref[j] + One(j = i)
    BY TreeNow, GotFacts
  <2>2. \A j \in Inum : iref[j] \in Int /\ One(j = i) \in {0, 1}
    BY TreeNow DEF TableTypes, One
  <2> QED BY <1>1, <2>1, <2>2 DEF Referenced
<1> QED BY <1>1, <1>2
-----------------------------------------------------------------------------
(* The actions.                                                            *)

(* A process about to lock the inode it walked to.                         *)
LEMMA AtFacts ==
  ASSUME NamesIInv, NEW p \in Agent, ilock(p)
  PROVE  /\ ip[p] \in Inum /\ todo[p] = << >> /\ panic = "no" /\ cwd[p] \in Inum
         /\ jail[p] \in Linkable /\ fd[p] \in Linkable /\ held[p] \in Linkable
         /\ pc[p] \in {"walk", "link to"} /\ fs.type[ip[p]] \in {"dir", "file"}
         /\ pc[p] = "walk" => held[p] = 0
         /\ pc[p] = "link to" => held[p] \in Inum /\ held[p] # 0 /\ fs.type[held[p]] = "file"
<1> USE InumFacts
<1>1. panic = "no" /\ ip[p] # 0 /\ todo[p] = << >> /\ fs.type[ip[p]] # "free"
  BY DEF ilock, Locks
<1>2. /\ ip[p] \in Linkable /\ cwd[p] \in Linkable /\ jail[p] \in Linkable /\ fd[p] \in Linkable
      /\ held[p] \in Linkable /\ pc[p] \in Pcs
  BY DEF NamesIInv, TableTypes, FlowTypes
<1>3. CallOf(p)
  BY DEF NamesIInv, CallInv
<1>4. ip[p] \in Inum /\ pc[p] \in {"walk", "link to"}
  BY <1>1, <1>2, <1>3 DEF CallOf, Pcs
<1>5. cwd[p] \in Inum
  BY <1>2, <1>3, <1>4 DEF CallOf
<1>6. fs.type[ip[p]] \in Types
  BY <1>4, TreeNow, FsParts
<1>7. held[p] # 0 => held[p] \in Inum /\ fs.type[held[p]] = "file"
  BY <1>2, TreeNow DEF TreeInv, HeldInv
<1> QED BY <1>1, <1>2, <1>3, <1>4, <1>5, <1>6, <1>7 DEF CallOf, Types

(* A process in user mode.                                                 *)
LEMMA UserFacts ==
  ASSUME NamesIInv, NEW p \in Agent, pc[p] = "user"
  PROVE  /\ ip[p] = 0 /\ held[p] = 0 /\ todo[p] = << >> /\ cwd[p] \in Inum
         /\ jail[p] \in Linkable /\ fd[p] \in Linkable /\ CallOf(p)
<1> USE InumFacts
<1>1. CallOf(p) /\ cwd[p] \in Linkable /\ jail[p] \in Linkable /\ fd[p] \in Linkable
  BY DEF NamesIInv, TableTypes, CallInv
<1> QED BY <1>1 DEF CallOf

(* namex starts at an inode.                                               *)
LEMMA StartFacts ==
  ASSUME NamesIInv, NEW p \in Agent, cwd[p] \in Inum, NEW absolute \in BOOLEAN
  PROVE  Start(p, absolute) \in Inum
<1>1. jail[p] \in Linkable
  BY DEF NamesIInv, TableTypes
<1> QED BY <1>1, InumFacts DEF Start, Jailed

(* The types of the tables.                                                *)
LEMMA FnSame ==
  ASSUME NamesIInv
  PROVE  /\ cwd \in [Agent -> Linkable] /\ jail \in [Agent -> Linkable] /\ fd \in [Agent -> Linkable]
         /\ ip \in [Agent -> Linkable] /\ held \in [Agent -> Linkable] /\ todo \in [Agent -> Seq(Inum)]
         /\ pc \in [Agent -> Pcs] /\ iref \in [Inum -> Int] /\ leaked \in [Inum -> Nat]
         /\ freed \subseteq Agent /\ panic \in {"no", "ilock: no type"} /\ slipped \subseteq Inum
         /\ \A q \in Agent : Len(todo[q]) <= 2
         /\ 0 \in Linkable /\ Inum \subseteq Linkable
BY InumFacts DEF NamesIInv, TableTypes, FlowTypes

(* A call that fails gives up the inode it walked to.                      *)
LEMMA FailStep ==
  ASSUME NamesIInv, NEW p \in Agent, ilock(p), Fail(p),
         UNCHANGED <<cwd, jail, fd, held, freed, panic, removed, strays, slipped, leaked>>
  PROVE  NamesIInv'
<1> DEFINE where == IF pc[p] = "link to" THEN "link bad" ELSE "end_op"
<1>1. /\ ip[p] \in Inum /\ todo[p] = << >> /\ cwd[p] \in Inum
      /\ pc[p] \in {"walk", "link to"} /\ panic = "no" /\ ip[p] # 0
      /\ pc[p] = "walk" => held[p] = 0
      /\ pc[p] = "link to" => held[p] # 0
  BY AtFacts, InumFacts
<1>2. Settle(p, where, fs, iref, ip[p], 0) /\ ip' = [ip EXCEPT ![p] = 0]
  BY DEF Fail, Over
<1>3. ip'[p] = 0 /\ Moves(p)
  BY <1>2, FnSame DEF Moves
<1>4. Accounted(p, iref, ip[p], 0)
  <2>1. SUFFICES ASSUME NEW j \in Inum
                 PROVE  iref[j] - One(j = ip[p]) - One(j = 0) - leaked[j] - KeptRefs(p, j)'
                          = iref[j] - leaked[j] - KeptRefs(p, j)
    BY DEF Accounted
  <2>2. iref[j] \in Int /\ leaked[j] \in Nat /\ j # 0
    BY FnSame, InumFacts
  <2>3. KeptRefs(p, j)' = One(cwd[p] = j) + One(jail[p] = j) + One(fd[p] = j) + One(0 = j) + One(held[p] = j)
    BY <1>3 DEF KeptRefs
  <2> QED BY <2>2, <2>3 DEF KeptRefs, One
<1>5. TreeTypes' /\ TreeInv'
  <2>1. fs' = fs
    BY <1>2 DEF Settle
  <2> QED BY <2>1, TreeSame
<1>6. SettledBy(p, where, fs, iref, ip[p], 0) => CallOf(p)'
  <2>1. SUFFICES ASSUME pc'[p] = (IF where = "end_op" /\ todo'[p] = << >> THEN "user" ELSE where)
                 PROVE  CallOf(p)'
    BY DEF SettledBy
  <2>2. CallOf(p)
    BY DEF NamesIInv, CallInv
  <2> QED BY <2>1, <2>2, <1>1, <1>3, InumFacts DEF CallOf
<1>7. Referenced(fs, iref)
  BY StillReferenced
<1>8. where \in Pcs /\ (ip[p] = 0 => ip[p] = 0) /\ ip[p] \in Linkable /\ 0 \in Linkable /\ iref \in [Inum -> Int]
      /\ leaked' \in [Inum -> Nat] /\ panic' \in {"no", "ilock: no type"}
  BY <1>1, FnSame DEF Pcs
<1> HIDE DEF where
<1> QED BY <1>1, <1>2, <1>3, <1>4, <1>5, <1>6, <1>7, <1>8, SettleStep
(* begin_op and the first idup or iget of namex.                           *)
LEMMA BeginStep ==
  ASSUME NamesIInv, NEW p \in Agent, NEW absolute \in BOOLEAN, BeginCall(p, absolute)
  PROVE  NamesIInv'
<1> DEFINE s == Start(p, absolute)
<1>1. /\ pc[p] = "user" /\ pc' = [pc EXCEPT ![p] = "walk"] /\ ip' = [ip EXCEPT ![p] = s]
      /\ iref' = Got(s)
      /\ UNCHANGED <<fs, cwd, jail, fd, held, todo, freed, panic, removed, strays, slipped, leaked>>
  BY DEF BeginCall, In, ghosts
<1>2. ip[p] = 0 /\ held[p] = 0 /\ todo[p] = << >> /\ cwd[p] \in Inum /\ CallOf(p)
  BY <1>1, UserFacts
<1>3. s \in Inum /\ s # 0 /\ Got(s) \in [Inum -> Int] /\ \A j \in Inum : Got(s)[j] = iref[j] + One(j = s)
  <2>1. s \in Inum
    BY <1>2, StartFacts
  <2>2. s # 0
    BY <2>1, InumFacts
  <2> HIDE DEF s
  <2> QED BY <2>1, <2>2, GotFacts, TreeNow
<1> HIDE DEF s
<1>4. Moves(p) /\ Turns(p) /\ Flows /\ ip'[p] = s /\ pc'[p] = "walk"
  BY <1>1, <1>3, FnSame DEF Moves, Turns, Flows, Pcs
<1>5. ASSUME NEW j \in Inum
      PROVE  iref'[j] - leaked'[j] - OwnRefs(p, j)' = iref[j] - leaked[j] - OwnRefs(p, j)
  <2>1. iref[j] \in Int /\ leaked[j] \in Nat /\ j # 0 /\ iref'[j] = iref[j] + One(j = s)
    BY <1>1, <1>3, FnSame, InumFacts
  <2>2. KeptRefs(p, j)' = One(cwd[p] = j) + One(jail[p] = j) + One(fd[p] = j) + One(s = j) + One(held[p] = j)
    BY <1>1, <1>4 DEF KeptRefs
  <2>3. PutRefs(p, j)' = PutRefs(p, j) /\ PutRefs(p, j) \in Nat
    BY <1>1, OwnNat DEF PutRefs, Put
  <2>4. KeptRefs(p, j)' = KeptRefs(p, j) + One(j = s) /\ KeptRefs(p, j) \in Nat /\ One(j = s) \in {0, 1}
    BY <2>1, <2>2, <1>2 DEF KeptRefs, One
  <2> QED BY <2>1, <2>3, <2>4, <1>1 DEF OwnRefs
<1>6. TreeTypes' /\ TreeInv'
  BY <1>1, TreeSame
<1>7. SlipInv'
  <2>1. Referenced(fs, Got(s))
    BY <1>3, StillReferenced
  <2> QED BY <2>1, <1>1 DEF Referenced, SlipInv
<1>8. CallOf(p)'
  BY <1>1, <1>2, <1>3, <1>4 DEF CallOf
<1> QED BY <1>4, <1>5, <1>6, <1>7, <1>8, MoveStep

(* One turn of namex.                                                      *)
LEMMA WalkStep ==
  ASSUME NamesIInv, NEW p \in Agent, NEW e \in Name \cup {".."}, namex(p, e)
  PROVE  NamesIInv'
<1> DEFINE next == dirlookup(ip[p], e)
           same == UNCHANGED <<cwd, jail, fd, held, freed, panic, removed, strays, slipped, leaked>>
<1>1. ilock(p) /\ same /\ (Fail(p) \/ (next # 0 /\ Settle(p, pc[p], fs, Got(next), ip[p], 0)
                                       /\ ip' = [ip EXCEPT ![p] = next]))
  BY DEF namex, ghosts
<1>2. CASE Fail(p)
  BY <1>1, <1>2, FailStep
<1>3. CASE next # 0 /\ Settle(p, pc[p], fs, Got(next), ip[p], 0) /\ ip' = [ip EXCEPT ![p] = next]
  <2>1. /\ ip[p] \in Inum /\ todo[p] = << >> /\ cwd[p] \in Inum
        /\ pc[p] \in {"walk", "link to"} /\ panic = "no" /\ ip[p] # 0
    BY <1>1, AtFacts, InumFacts
  <2>2. next \in Inum
    <3>1. fs.ent \in [Inum -> [Name -> Linkable]] /\ fs.up \in [Inum -> Inum]
      BY TreeNow, FsParts
    <3>2. e # ".." => e \in Name
      OBVIOUS
    <3>3. next = IF e = ".." THEN fs.up[ip[p]] ELSE fs.ent[ip[p]][e]
      BY DEF dirlookup
    <3> HIDE DEF next
    <3>4. next \in Linkable
      <4>1. fs.up[ip[p]] \in Linkable
        BY <2>1, <3>1, InumFacts
      <4>2. e \in Name => fs.ent[ip[p]][e] \in Linkable
        BY <2>1, <3>1
      <4> QED BY <4>1, <4>2, <3>2, <3>3
    <3> QED BY <1>3, <3>4, InumFacts
  <2>3. Got(next) \in [Inum -> Int] /\ \A j \in Inum : Got(next)[j] = iref[j] + One(j = next)
    BY <2>2, GotFacts, TreeNow
  <2>4. Referenced(fs, Got(next))
    BY <2>2, StillReferenced
  <2> HIDE DEF next
  <2>5. ip'[p] = next /\ Moves(p)
    BY <1>1, <1>3, <2>2, FnSame DEF Moves
  <2>6. Accounted(p, Got(next), ip[p], 0)
    <3>1. SUFFICES ASSUME NEW j \in Inum
                   PROVE  Got(next)[j] - One(j = ip[p]) - One(j = 0) - leaked[j] - KeptRefs(p, j)'
                            = iref[j] - leaked[j] - KeptRefs(p, j)
      BY <1>1 DEF Accounted
    <3>2. iref[j] \in Int /\ leaked[j] \in Nat /\ j # 0 /\ Got(next)[j] = iref[j] + One(j = next)
      BY <2>3, FnSame, InumFacts
    <3>3. KeptRefs(p, j)' = One(cwd[p] = j) + One(jail[p] = j) + One(fd[p] = j) + One(next = j) + One(held[p] = j)
      BY <1>1, <2>5 DEF KeptRefs
    <3> QED BY <3>2, <3>3 DEF KeptRefs, One
  <2>7. TreeTypes' /\ TreeInv'
    <3>1. fs' = fs
      BY <1>3 DEF Settle
    <3> QED BY <1>1, <3>1, TreeSame
  <2>8. SettledBy(p, pc[p], fs, Got(next), ip[p], 0) => CallOf(p)'
    <3>1. SUFFICES ASSUME pc'[p] = pc[p] PROVE CallOf(p)'
      BY <2>1 DEF SettledBy
    <3>2. CallOf(p)
      BY DEF NamesIInv, CallInv
    <3> QED BY <3>1, <3>2, <2>1, <2>5, <1>1, <1>3, InumFacts DEF CallOf
  <2>9. /\ pc[p] \in Pcs /\ ip[p] \in Linkable /\ 0 \in Linkable
        /\ leaked' \in [Inum -> Nat] /\ panic' \in {"no", "ilock: no type"}
        /\ freed' = freed /\ slipped' = slipped
    BY <1>1, <2>1, FnSame
  <2> HIDE DEF same
  <2> QED BY <1>3, <2>1, <2>3, <2>4, <2>5, <2>6, <2>7, <2>8, <2>9, SettleStep
<1> QED BY <1>1, <1>2, <1>3

(* The end of a call that leaves the tree alone: r, a and b as in Settle.  *)
LEMMA EndStep ==
  ASSUME NamesIInv, NEW p \in Agent, At(p, "walk"), NEW r \in [Inum -> Int],
         NEW a \in Linkable, NEW b \in Linkable, a = b => a = 0,
         Over(p, "end_op", fs, r, a, b), Moves(p), leaked' \in [Inum -> Nat], Accounted(p, r, a, b),
         UNCHANGED <<held, freed, panic, removed, strays, slipped>>,
         Referenced(fs, r), cwd'[p] \in Inum
  PROVE  NamesIInv'
<1>1. Settle(p, "end_op", fs, r, a, b) /\ ip' = [ip EXCEPT ![p] = 0]
  BY DEF Over
<1>2. pc[p] = "walk" /\ todo[p] = << >> /\ panic = "no" /\ held[p] = 0
  BY AtFacts DEF At
<1>3. TreeTypes' /\ TreeInv'
  <2>1. fs' = fs
    BY <1>1 DEF Settle
  <2> QED BY <2>1, TreeSame
<1>4. SettledBy(p, "end_op", fs, r, a, b) => CallOf(p)'
  <2>1. SUFFICES ASSUME pc'[p] = (IF todo'[p] = << >> THEN "user" ELSE "end_op") PROVE CallOf(p)'
    BY DEF SettledBy
  <2>2. ip'[p] = 0 /\ held'[p] = 0 /\ cwd'[p] # 0
    BY <1>1, <1>2, FnSame, InumFacts
  <2> QED BY <2>1, <2>2 DEF CallOf
<1>5. "end_op" \in Pcs /\ panic' \in {"no", "ilock: no type"} /\ freed' = freed /\ slipped' = slipped
  BY <1>2 DEF Pcs
<1> QED BY <1>1, <1>2, <1>3, <1>4, <1>5, SettleStep
(* sys_open of an inode that exists.                                       *)
LEMMA OpenStep ==
  ASSUME NamesIInv, NEW p \in Agent, sys_open(p)
  PROVE  NamesIInv'
<1>1. /\ At(p, "walk") /\ ilock(p) /\ fd[p] = 0
      /\ UNCHANGED <<cwd, jail, held, freed, panic, removed, strays, slipped, leaked>>
      /\ \/ fd' = [fd EXCEPT ![p] = ip[p]] /\ Over(p, "end_op", fs, iref, 0, 0)
         \/ Fail(p) /\ UNCHANGED fd
  BY DEF sys_open, At, ghosts
<1>2. CASE Fail(p) /\ UNCHANGED fd
  BY <1>1, <1>2, FailStep
<1>3. CASE fd' = [fd EXCEPT ![p] = ip[p]] /\ Over(p, "end_op", fs, iref, 0, 0)
  <2>1. ip[p] \in Inum /\ cwd[p] \in Inum /\ ip' = [ip EXCEPT ![p] = 0]
    BY <1>1, <1>3, AtFacts DEF Over
  <2>2. fd'[p] = ip[p] /\ ip'[p] = 0 /\ Moves(p)
    BY <1>1, <1>3, <2>1, FnSame DEF Moves
  <2>3. Accounted(p, iref, 0, 0)
    <3>1. SUFFICES ASSUME NEW j \in Inum
                   PROVE  iref[j] - One(j = 0) - One(j = 0) - leaked[j] - KeptRefs(p, j)'
                            = iref[j] - leaked[j] - KeptRefs(p, j)
      BY <1>1 DEF Accounted
    <3>2. iref[j] \in Int /\ leaked[j] \in Nat /\ j # 0
      BY FnSame, InumFacts
    <3>3. KeptRefs(p, j)' = One(cwd[p] = j) + One(jail[p] = j) + One(ip[p] = j) + One(0 = j) + One(held[p] = j)
      BY <1>1, <2>2 DEF KeptRefs
    <3> QED BY <3>2, <3>3, <1>1 DEF KeptRefs, One
  <2>4. Referenced(fs, iref)
    BY StillReferenced
  <2>5. iref \in [Inum -> Int] /\ 0 \in Linkable /\ leaked' \in [Inum -> Nat] /\ cwd'[p] \in Inum
    BY <1>1, <2>1, FnSame
  <2> QED BY <1>1, <1>3, <2>2, <2>3, <2>4, <2>5, EndStep
<1> QED BY <1>1, <1>2, <1>3

(* sys_chdir.                                                              *)
LEMMA ChdirStep ==
  ASSUME NamesIInv, NEW p \in Agent, sys_chdir(p)
  PROVE  NamesIInv'
<1>1. /\ At(p, "walk") /\ ilock(p)
      /\ UNCHANGED <<jail, fd, held, freed, panic, removed, strays, slipped, leaked>>
      /\ \/ Fail(p) /\ UNCHANGED cwd
         \/ Over(p, "end_op", fs, iref, cwd[p], 0) /\ cwd' = [cwd EXCEPT ![p] = ip[p]]
  BY DEF sys_chdir, At, ghosts
<1>2. CASE Fail(p) /\ UNCHANGED cwd
  BY <1>1, <1>2, FailStep
<1>3. CASE Over(p, "end_op", fs, iref, cwd[p], 0) /\ cwd' = [cwd EXCEPT ![p] = ip[p]]
  <2>1. ip[p] \in Inum /\ cwd[p] \in Inum /\ cwd[p] # 0 /\ ip' = [ip EXCEPT ![p] = 0]
    BY <1>1, <1>3, AtFacts, InumFacts DEF Over
  <2>2. cwd'[p] = ip[p] /\ ip'[p] = 0 /\ Moves(p)
    BY <1>1, <1>3, <2>1, FnSame DEF Moves
  <2>3. Accounted(p, iref, cwd[p], 0)
    <3>1. SUFFICES ASSUME NEW j \in Inum
                   PROVE  iref[j] - One(j = cwd[p]) - One(j = 0) - leaked[j] - KeptRefs(p, j)'
                            = iref[j] - leaked[j] - KeptRefs(p, j)
      BY <1>1 DEF Accounted
    <3>2. iref[j] \in Int /\ leaked[j] \in Nat /\ j # 0
      BY FnSame, InumFacts
    <3>3. KeptRefs(p, j)' = One(ip[p] = j) + One(jail[p] = j) + One(fd[p] = j) + One(0 = j) + One(held[p] = j)
      BY <1>1, <2>2 DEF KeptRefs
    <3> QED BY <3>2, <3>3, <1>1 DEF KeptRefs, One
  <2>4. Referenced(fs, iref)
    BY StillReferenced
  <2>5. iref \in [Inum -> Int] /\ 0 \in Linkable /\ leaked' \in [Inum -> Nat] /\ cwd'[p] \in Inum
        /\ cwd[p] \in Linkable
    BY <1>1, <2>1, <2>2, FnSame
  <2> QED BY <1>1, <1>3, <2>1, <2>2, <2>3, <2>4, <2>5, EndStep
<1> QED BY <1>1, <1>2, <1>3

(* sys_jail, which may lose a reference to the old root.                   *)
LEMMA JailStep ==
  ASSUME NamesIInv, NEW p \in Agent, sys_jail(p)
  PROVE  NamesIInv'
<1>1. /\ At(p, "walk") /\ ilock(p)
      /\ UNCHANGED <<fd, held, freed, panic, removed, strays, slipped>>
      /\ Over(p, "end_op", fs, Got(ip[p]), cwd[p], 0)
      /\ cwd' = [cwd EXCEPT ![p] = ip[p]] /\ jail' = [jail EXCEPT ![p] = ip[p]]
      /\ leaked' = [i \in Inum |-> IF i = jail[p] THEN leaked[i] + 1 ELSE leaked[i]]
  BY DEF sys_jail, AtParent, At
<1>2. ip[p] \in Inum /\ cwd[p] \in Inum /\ cwd[p] # 0 /\ ip' = [ip EXCEPT ![p] = 0]
  BY <1>1, AtFacts, InumFacts DEF Over
<1>3. cwd'[p] = ip[p] /\ jail'[p] = ip[p] /\ ip'[p] = 0 /\ Moves(p)
  BY <1>1, <1>2, FnSame DEF Moves
<1>4. Got(ip[p]) \in [Inum -> Int] /\ \A j \in Inum : Got(ip[p])[j] = iref[j] + One(j = ip[p])
  BY <1>2, GotFacts, TreeNow
<1>5. Referenced(fs, Got(ip[p]))
  BY <1>2, StillReferenced
<1>6. leaked' \in [Inum -> Nat] /\ \A j \in Inum : leaked'[j] = leaked[j] + One(jail[p] = j)
  <2>1. leaked \in [Inum -> Nat]
    BY FnSame
  <2>2. ASSUME NEW j \in Inum
        PROVE  /\ leaked'[j] = leaked[j] + One(jail[p] = j)
               /\ (IF j = jail[p] THEN leaked[j] + 1 ELSE leaked[j]) \in Nat
    BY <1>1, <2>1 DEF One
  <2> QED BY <1>1, <2>2
<1>7. Accounted(p, Got(ip[p]), cwd[p], 0)
  <2>1. SUFFICES ASSUME NEW j \in Inum
                 PROVE  Got(ip[p])[j] - One(j = cwd[p]) - One(j = 0) - leaked'[j] - KeptRefs(p, j)'
                          = iref[j] - leaked[j] - KeptRefs(p, j)
    BY <1>1 DEF Accounted
  <2>2. iref[j] \in Int /\ leaked[j] \in Nat /\ j # 0 /\ Got(ip[p])[j] = iref[j] + One(j = ip[p])
        /\ leaked'[j] = leaked[j] + One(jail[p] = j)
    BY <1>4, <1>6, FnSame, InumFacts
  <2>3. KeptRefs(p, j)' = One(ip[p] = j) + One(ip[p] = j) + One(fd[p] = j) + One(0 = j) + One(held[p] = j)
    BY <1>1, <1>3 DEF KeptRefs
  <2> QED BY <2>2, <2>3 DEF KeptRefs, One
<1>8. 0 \in Linkable /\ cwd'[p] \in Inum /\ cwd[p] \in Linkable
  BY <1>2, <1>3, FnSame
<1> QED BY <1>1, <1>2, <1>3, <1>4, <1>5, <1>6, <1>7, <1>8, EndStep

(* create of a name that exists.                                           *)
LEMMA ExistingStep ==
  ASSUME NamesIInv, NEW p \in Agent, NEW n \in Name, CreateExisting(p, n)
  PROVE  NamesIInv'
<1> DEFINE next == dirlookup(ip[p], n)
<1>1. /\ At(p, "walk") /\ ilock(p) /\ next # 0
      /\ UNCHANGED <<cwd, jail, held, freed, panic, removed, strays, slipped, leaked>>
      /\ \/ fd[p] = 0 /\ fd' = [fd EXCEPT ![p] = next] /\ Over(p, "end_op", fs, Got(next), ip[p], 0)
         \/ Over(p, "end_op", fs, Got(next), ip[p], next) /\ UNCHANGED fd
  BY DEF CreateExisting, AtParent, At, ghosts
<1>2. ip[p] \in Inum /\ cwd[p] \in Inum /\ ip[p] # 0 /\ ip' = [ip EXCEPT ![p] = 0]
  BY <1>1, AtFacts, InumFacts DEF Over
<1>3. next = fs.ent[ip[p]][n]
  BY NamesAssumption DEF dirlookup
<1> HIDE DEF next
<1>4. next \in Inum /\ next # ip[p]
  <2>1. next \in Linkable
    BY <1>2, <1>3, TreeNow, FsParts
  <2>2. next # ip[p]
    BY <1>1, <1>2, <1>3, TreeNow DEF TreeInv, EntryInv
  <2> QED BY <2>1, <2>2, <1>1, InumFacts
<1>5. Got(next) \in [Inum -> Int] /\ \A j \in Inum : Got(next)[j] = iref[j] + One(j = next)
  BY <1>4, GotFacts, TreeNow
<1>6. Referenced(fs, Got(next))
  BY <1>4, StillReferenced
<1>7. /\ 0 \in Linkable /\ cwd'[p] \in Inum /\ ip[p] \in Linkable /\ next \in Linkable
      /\ leaked' \in [Inum -> Nat] /\ ip'[p] = 0
  BY <1>1, <1>2, <1>4, FnSame
<1>8. CASE fd[p] = 0 /\ fd' = [fd EXCEPT ![p] = next] /\ Over(p, "end_op", fs, Got(next), ip[p], 0)
  <2>1. fd'[p] = next /\ Moves(p)
    BY <1>1, <1>2, <1>7, <1>8, FnSame DEF Moves
  <2>2. Accounted(p, Got(next), ip[p], 0)
    <3>1. SUFFICES ASSUME NEW j \in Inum
                   PROVE  Got(next)[j] - One(j = ip[p]) - One(j = 0) - leaked[j] - KeptRefs(p, j)'
                            = iref[j] - leaked[j] - KeptRefs(p, j)
      BY <1>1 DEF Accounted
    <3>2. iref[j] \in Int /\ leaked[j] \in Nat /\ j # 0 /\ Got(next)[j] = iref[j] + One(j = next)
      BY <1>5, FnSame, InumFacts
    <3>3. KeptRefs(p, j)' = One(cwd[p] = j) + One(jail[p] = j) + One(next = j) + One(0 = j) + One(held[p] = j)
      BY <1>1, <1>7, <2>1 DEF KeptRefs
    <3> QED BY <3>2, <3>3, <1>8 DEF KeptRefs, One
  <2> QED BY <1>1, <1>2, <1>5, <1>6, <1>7, <1>8, <2>1, <2>2, EndStep
<1>9. CASE Over(p, "end_op", fs, Got(next), ip[p], next) /\ UNCHANGED fd
  <2>1. Moves(p)
    BY <1>1, <1>2, <1>7, <1>9, FnSame DEF Moves
  <2>2. Accounted(p, Got(next), ip[p], next)
    <3>1. SUFFICES ASSUME NEW j \in Inum
                   PROVE  Got(next)[j] - One(j = ip[p]) - One(j = next) - leaked[j] - KeptRefs(p, j)'
                            = iref[j] - leaked[j] - KeptRefs(p, j)
      BY <1>1 DEF Accounted
    <3>2. iref[j] \in Int /\ leaked[j] \in Nat /\ j # 0 /\ Got(next)[j] = iref[j] + One(j = next)
      BY <1>5, FnSame, InumFacts
    <3>3. KeptRefs(p, j)' = One(cwd[p] = j) + One(jail[p] = j) + One(fd[p] = j) + One(0 = j) + One(held[p] = j)
      BY <1>1, <1>7, <1>9, <2>1 DEF KeptRefs
    <3> QED BY <3>2, <3>3 DEF KeptRefs, One
  <2> QED BY <1>1, <1>2, <1>4, <1>5, <1>6, <1>7, <1>9, <2>1, <2>2, EndStep
<1> QED BY <1>1, <1>8, <1>9
(* The end of a call that changes the tree to f.                           *)
LEMMA EndTreeStep ==
  ASSUME NamesIInv, NEW p \in Agent, ilock(p), NEW f, NEW r \in [Inum -> Int],
         NEW a \in Linkable, NEW b \in Linkable, a = b => a = 0,
         Over(p, "end_op", f, r, a, b), Moves(p), Accounted(p, r, a, b),
         UNCHANGED <<cwd, freed, slipped, leaked>>, panic' = "no",
         held'[p] = 0, TreeTypes', TreeInv', Referenced(f, r)
  PROVE  NamesIInv'
<1>1. Settle(p, "end_op", f, r, a, b) /\ ip' = [ip EXCEPT ![p] = 0]
  BY DEF Over
<1>2. todo[p] = << >> /\ cwd[p] \in Inum /\ cwd[p] # 0
  BY AtFacts, InumFacts
<1>3. SettledBy(p, "end_op", f, r, a, b) => CallOf(p)'
  <2>1. SUFFICES ASSUME pc'[p] = (IF todo'[p] = << >> THEN "user" ELSE "end_op") PROVE CallOf(p)'
    BY DEF SettledBy
  <2>2. ip'[p] = 0 /\ held'[p] = 0 /\ cwd'[p] # 0
    BY <1>1, <1>2, FnSame
  <2> QED BY <2>1, <2>2 DEF CallOf
<1>4. "end_op" \in Pcs /\ panic' \in {"no", "ilock: no type"} /\ freed' = freed /\ slipped' = slipped
      /\ leaked' \in [Inum -> Nat]
  BY FnSame DEF Pcs
<1> QED BY <1>1, <1>2, <1>3, <1>4, SettleStep

(* Any set of naturals that has members has a least one.                   *)
LEMMA LeastOf ==
  ASSUME NEW S \in SUBSET Nat, S # {}
  PROVE  Min(S) \in S
<1> DEFINE R == OpToRel(<, Nat)
<1>1. IsWellFoundedOn(R, Nat)
  BY NatLessThanWellFounded
<1>2. \A a, b \in Nat : <<a, b>> \in R <=> a < b
  BY DEF OpToRel
<1> HIDE DEF R
<1>3. PICK x \in S : \A y \in S : ~ (<<y, x>> \in R)
  BY <1>1, WFMin
<1>4. \A y \in S : ~ (y < x)
  BY <1>2, <1>3
<1>5. \A y \in S : x <= y
  BY <1>4
<1> QED BY <1>5 DEF Min

(* create: no inode, no block for the entry, or a new inode.               *)
LEMMA CreateStep ==
  ASSUME NamesIInv, NEW p \in Agent, NEW n \in Name, NEW t \in {"dir", "file"}, create(p, t, n)
  PROVE  NamesIInv'
<1> DEFINE i == ialloc
           d == ip[p]
           same == UNCHANGED <<cwd, jail, held, freed, panic, removed, slipped, leaked>>
           made == /\ strays' = IF Detached(d) THEN strays \cup {i} ELSE strays
                   /\ \/ /\ fd[p] = 0 /\ fd' = [fd EXCEPT ![p] = i]
                         /\ Over(p, "end_op", Made(i, t, d, n), Got(i), d, 0)
                      \/ Over(p, "end_op", Made(i, t, d, n), Got(i), d, i) /\ UNCHANGED fd
           unmade == Over(p, "end_op", Unmade(i, t), Got(i), i, d) /\ UNCHANGED <<fd, strays>>
<1>1. /\ ilock(p) /\ pc[p] = "walk" /\ fs.type[d] = "dir" /\ dirlookup(d, n) = 0 /\ same
      /\ \/ Fail(p) /\ UNCHANGED <<fd, strays>>
         \/ (\E k \in Inum : fs.type[k] = "free") /\ (made \/ unmade)
  BY DEF create, AtParent, At
<1>2. CASE Fail(p) /\ UNCHANGED <<fd, strays>>
  BY <1>1, <1>2, FailStep
<1>3. CASE (\E k \in Inum : fs.type[k] = "free") /\ (made \/ unmade)
  <2>1. /\ d \in Inum /\ d # 0 /\ cwd[p] \in Inum /\ held[p] = 0 /\ panic = "no"
        /\ ip' = [ip EXCEPT ![p] = 0]
    <3>1. ip' = [ip EXCEPT ![p] = 0]
      BY <1>3 DEF Over
    <3> QED BY <1>1, <3>1, AtFacts, InumFacts
  <2>2. i \in Inum /\ fs.type[i] = "free"
    <3>1. {k \in Inum : fs.type[k] = "free"} \in SUBSET Nat /\ {k \in Inum : fs.type[k] = "free"} # {}
      BY <1>3, InumFacts
    <3>2. i \in {k \in Inum : fs.type[k] = "free"}
      BY <3>1, LeastOf DEF ialloc
    <3> QED BY <3>2
  <2>3. fs.ent[d][n] = 0
    BY <1>1, NamesAssumption DEF dirlookup
  <2> HIDE DEF i, d
  <2>4. i # d /\ i # 0
    BY <1>1, <2>2, InumFacts
  <2>5. Got(i) \in [Inum -> Int] /\ \A j \in Inum : Got(i)[j] = iref[j] + One(j = i)
    BY <2>2, GotFacts, TreeNow
  <2>6. d \in Linkable /\ i \in Linkable /\ 0 \in Linkable /\ ip'[p] = 0 /\ ip[p] = d
    BY <2>1, <2>2, FnSame DEF d
  <2>7. Referenced(fs, iref) /\ TreeTypes /\ TreeInv
    BY StillReferenced, TreeNow
  <2>8. \A j \in Inum : iref[j] \in Nat
    BY TreeNow, RefsSome
  <2>9. CASE made
    <3>1. fs' = Made(i, t, d, n)
      BY <2>9 DEF Over, Settle
    <3>2. TreeTypes' /\ TreeInv'
      BY <1>1, <2>1, <2>2, <2>3, <2>7, <2>9, <3>1, MadeTree
    <3>3. Referenced(Made(i, t, d, n), Got(i))
      <4> DEFINE f == Made(i, t, d, n)
      <4>1. f.nlink = [fs.nlink EXCEPT ![i] = 1, ![d] = IF t = "dir" THEN @ + 1 ELSE @]
            /\ f.type = [fs.type EXCEPT ![i] = t]
        BY DEF Made
      <4>2. fs.nlink \in [Inum -> Int] /\ fs.type \in [Inum -> Types]
        BY <2>7, FsParts
      <4> HIDE DEF f
      <4>3. ASSUME NEW j \in Inum, f.type[j] # "free", f.nlink[j] = 0
            PROVE  Got(i)[j] > 0 \/ j \in slipped
        <5>1. j # i
          BY <4>1, <4>2, <4>3, <2>1, <2>4
        <5>2. f.type[j] = fs.type[j] /\ (f.nlink[j] = fs.nlink[j] \/ f.nlink[j] = fs.nlink[j] + 1)
          BY <4>1, <4>2, <5>1, <2>1, <2>4
        <5>3. fs.nlink[j] >= 0 /\ fs.nlink[j] \in Int
          BY <4>2, <2>7 DEF TreeInv, LinkInv, LinkOf
        <5>4. fs.type[j] # "free" /\ fs.nlink[j] = 0
          BY <4>3, <5>2, <5>3
        <5>5. iref[j] > 0 \/ j \in slipped
          BY <5>4, <2>7 DEF Referenced
        <5>6. Got(i)[j] = iref[j]
          BY <2>5, <2>8, <5>1 DEF One
        <5> QED BY <5>5, <5>6
      <4> QED BY <4>3 DEF Referenced, f
    <3> DEFINE f == Made(i, t, d, n)
    <3> HIDE DEF f
    <3>4. Referenced(f, Got(i)) /\ held'[p] = 0 /\ panic' = "no"
      BY <1>1, <2>1, <3>3 DEF f
    <3>5. CASE fd[p] = 0 /\ fd' = [fd EXCEPT ![p] = i] /\ Over(p, "end_op", f, Got(i), d, 0)
      <4>1. fd'[p] = i /\ Moves(p)
        BY <1>1, <2>1, <2>6, <3>5, FnSame DEF Moves
      <4>2. Accounted(p, Got(i), d, 0)
        <5>1. SUFFICES ASSUME NEW j \in Inum
                       PROVE  Got(i)[j] - One(j = d) - One(j = 0) - leaked[j] - KeptRefs(p, j)'
                                = iref[j] - leaked[j] - KeptRefs(p, j)
          BY <1>1 DEF Accounted
        <5>2. iref[j] \in Int /\ leaked[j] \in Nat /\ j # 0 /\ Got(i)[j] = iref[j] + One(j = i)
          BY <2>5, FnSame, InumFacts
        <5>3. KeptRefs(p, j)' = One(cwd[p] = j) + One(jail[p] = j) + One(i = j) + One(0 = j) + One(held[p] = j)
          BY <1>1, <2>6, <4>1 DEF KeptRefs
        <5> QED BY <5>2, <5>3, <3>5, <2>6 DEF KeptRefs, One
      <4> HIDE DEF made, unmade
      <4> QED BY <1>1, <2>1, <2>5, <2>6, <3>2, <3>4, <3>5, <4>1, <4>2, EndTreeStep
    <3>6. CASE Over(p, "end_op", f, Got(i), d, i) /\ UNCHANGED fd
      <4>1. Moves(p)
        BY <1>1, <2>1, <2>6, <3>6, FnSame DEF Moves
      <4>2. Accounted(p, Got(i), d, i)
        <5>1. SUFFICES ASSUME NEW j \in Inum
                       PROVE  Got(i)[j] - One(j = d) - One(j = i) - leaked[j] - KeptRefs(p, j)'
                                = iref[j] - leaked[j] - KeptRefs(p, j)
          BY <1>1 DEF Accounted
        <5>2. iref[j] \in Int /\ leaked[j] \in Nat /\ j # 0 /\ Got(i)[j] = iref[j] + One(j = i)
          BY <2>5, FnSame, InumFacts
        <5>3. KeptRefs(p, j)' = One(cwd[p] = j) + One(jail[p] = j) + One(fd[p] = j) + One(0 = j) + One(held[p] = j)
          BY <1>1, <2>6, <3>6 DEF KeptRefs
        <5> QED BY <5>2, <5>3, <2>6 DEF KeptRefs, One
      <4> HIDE DEF made, unmade
      <4> QED BY <1>1, <2>1, <2>4, <2>5, <2>6, <3>2, <3>4, <3>6, <4>1, <4>2, EndTreeStep
    <3> QED BY <2>9, <3>5, <3>6 DEF f
  <2>10. CASE unmade
    <3>1. fs' = Unmade(i, t)
      BY <2>10 DEF Over, Settle
    <3>2. TreeTypes' /\ TreeInv'
      BY <1>1, <2>2, <2>7, <2>10, <3>1, UnmadeTree
    <3> DEFINE f == Unmade(i, t)
    <3>3. f.nlink = [fs.nlink EXCEPT ![i] = 0] /\ f.type = [fs.type EXCEPT ![i] = t]
      BY <2>7, FsParts DEF Unmade
    <3> HIDE DEF f
    <3>4. Referenced(f, Got(i))
      <4>1. fs.nlink \in [Inum -> Int] /\ fs.type \in [Inum -> Types]
        BY <2>7, FsParts
      <4>2. ASSUME NEW j \in Inum, f.type[j] # "free", f.nlink[j] = 0
            PROVE  Got(i)[j] > 0 \/ j \in slipped
        <5>1. Got(i)[j] = iref[j] + One(j = i) /\ iref[j] \in Nat
          BY <2>5, <2>8
        <5>2. CASE j = i
          BY <5>1, <5>2 DEF One
        <5>3. CASE j # i
          <6>1. fs.type[j] # "free" /\ fs.nlink[j] = 0
            BY <4>1, <4>2, <5>3, <3>3
          <6>2. iref[j] > 0 \/ j \in slipped
            BY <6>1, <2>7 DEF Referenced
          <6> QED BY <5>1, <5>3, <6>2 DEF One
        <5> QED BY <5>2, <5>3
      <4> QED BY <4>2 DEF Referenced
    <3>5. Over(p, "end_op", f, Got(i), i, d) /\ UNCHANGED fd
      BY <2>10 DEF f
    <3>6. Moves(p) /\ held'[p] = 0 /\ panic' = "no"
      BY <1>1, <2>1, <2>6, <3>5, FnSame DEF Moves
    <3>7. Accounted(p, Got(i), i, d)
      <4>1. SUFFICES ASSUME NEW j \in Inum
                     PROVE  Got(i)[j] - One(j = i) - One(j = d) - leaked[j] - KeptRefs(p, j)'
                              = iref[j] - leaked[j] - KeptRefs(p, j)
        BY <1>1 DEF Accounted
      <4>2. iref[j] \in Int /\ leaked[j] \in Nat /\ j # 0 /\ Got(i)[j] = iref[j] + One(j = i)
        BY <2>5, FnSame, InumFacts
      <4>3. KeptRefs(p, j)' = One(cwd[p] = j) + One(jail[p] = j) + One(fd[p] = j) + One(0 = j) + One(held[p] = j)
        BY <1>1, <2>6, <3>5 DEF KeptRefs
      <4> QED BY <4>2, <4>3, <2>6 DEF KeptRefs, One
    <3> HIDE DEF made, unmade
    <3> QED BY <1>1, <2>1, <2>4, <2>5, <2>6, <3>2, <3>4, <3>5, <3>6, <3>7, EndTreeStep
  <2> QED BY <1>3, <2>9, <2>10
<1> QED BY <1>1, <1>2, <1>3
(* sys_unlink: no name, a directory with entries, or the name goes.        *)
LEMMA UnlinkStep ==
  ASSUME NamesIInv, NEW p \in Agent, NEW n \in Name, sys_unlink(p, n)
  PROVE  NamesIInv'
<1> DEFINE d == ip[p]
           i == dirlookup(d, n)
           same == UNCHANGED <<cwd, jail, fd, held, freed, strays, slipped, leaked>>
           full == Over(p, "end_op", fs, Got(i), i, d) /\ UNCHANGED removed
           gone == /\ fs.type[i] = "dir" => isdirempty(i)
                   /\ Over(p, "end_op", Unlinked(i, d, n), Got(i), d, i)
                   /\ removed' = IF fs.type[i] = "dir" THEN removed \cup {i} ELSE removed
<1>1. /\ ilock(p) /\ pc[p] = "walk" /\ same
      /\ \/ Fail(p) /\ UNCHANGED <<panic, removed>>
         \/ /\ i # 0 /\ panic' = IF fs.nlink[i] < 1 THEN "unlink: nlink < 1" ELSE "no"
            /\ full \/ gone
  BY DEF sys_unlink, AtParent, At
<1>2. CASE Fail(p) /\ UNCHANGED <<panic, removed>>
  BY <1>1, <1>2, FailStep
<1>3. CASE i # 0 /\ (panic' = IF fs.nlink[i] < 1 THEN "unlink: nlink < 1" ELSE "no") /\ (full \/ gone)
  <2>1. /\ d \in Inum /\ d # 0 /\ cwd[p] \in Inum /\ held[p] = 0 /\ panic = "no"
        /\ ip' = [ip EXCEPT ![p] = 0]
    <3>1. ip' = [ip EXCEPT ![p] = 0]
      BY <1>3 DEF Over
    <3> QED BY <1>1, <3>1, AtFacts, InumFacts
  <2>2. fs.ent[d][n] = i
    BY NamesAssumption DEF dirlookup
  <2>12. i # 0 /\ panic' = IF fs.nlink[i] < 1 THEN "unlink: nlink < 1" ELSE "no"
    BY <1>3
  <2> HIDE DEF i, d
  <2>3. i \in Inum
    <3>1. i \in Linkable
      BY <2>1, <2>2, TreeNow, FsParts
    <3> QED BY <2>12, <3>1, InumFacts
  <2>4. i # d /\ fs.nlink[i] >= 1 /\ fs.nlink[i] \in Int
    BY <2>1, <2>2, <2>3, TreeNow, NameLinks, FsParts
  <2>5. panic' = "no"
    <3>1. ~ (fs.nlink[i] < 1)
      BY <2>4
    <3> QED BY <2>12, <3>1, Zenon
  <2>6. Got(i) \in [Inum -> Int] /\ \A j \in Inum : Got(i)[j] = iref[j] + One(j = i)
    BY <2>3, GotFacts, TreeNow
  <2>7. d \in Linkable /\ i \in Linkable /\ ip'[p] = 0 /\ ip[p] = d
    BY <2>1, <2>3, FnSame DEF d
  <2>8. Moves(p) /\ held'[p] = 0
    BY <1>1, <2>1, <2>7, FnSame DEF Moves
  <2>9. ASSUME NEW j \in Inum
        PROVE  Got(i)[j] - One(j = i) - One(j = d) - leaked[j] - KeptRefs(p, j)'
                 = iref[j] - leaked[j] - KeptRefs(p, j)
    <3>1. iref[j] \in Int /\ leaked[j] \in Nat /\ j # 0 /\ Got(i)[j] = iref[j] + One(j = i)
      BY <2>6, FnSame, InumFacts
    <3>2. KeptRefs(p, j)' = One(cwd[p] = j) + One(jail[p] = j) + One(fd[p] = j) + One(0 = j) + One(held[p] = j)
      BY <1>1, <2>7 DEF KeptRefs
    <3> QED BY <3>1, <3>2, <2>7 DEF KeptRefs, One
  <2>10. CASE full
    <3>1. fs' = fs
      BY <2>10 DEF Over, Settle
    <3>2. TreeTypes' /\ TreeInv'
      BY <1>1, <2>10, <3>1, TreeSame
    <3>3. Accounted(p, Got(i), i, d)
      BY <1>1, <2>9 DEF Accounted
    <3>4. Referenced(fs, Got(i))
      BY <2>3, StillReferenced
    <3>5. Over(p, "end_op", fs, Got(i), i, d)
      BY <2>10
    <3> HIDE DEF full, gone
    <3> QED BY <1>1, <2>4, <2>5, <2>6, <2>7, <2>8, <3>2, <3>3, <3>4, <3>5, EndTreeStep
  <2>11. CASE gone
    <3> DEFINE f == Unlinked(i, d, n)
    <3>1. fs' = f
      BY <2>11 DEF Over, Settle
    <3>2. TreeTypes' /\ TreeInv'
      BY <1>1, <2>1, <2>2, <2>3, <2>11, <3>1, TreeNow, UnlinkTree
    <3>3. Accounted(p, Got(i), d, i)
      <4>1. ASSUME NEW j \in Inum
            PROVE  Got(i)[j] - One(j = d) - One(j = i) - leaked'[j] - KeptRefs(p, j)'
                     = iref[j] - leaked[j] - KeptRefs(p, j)
        <5>1. Got(i)[j] \in Int /\ One(j = d) \in {0, 1} /\ One(j = i) \in {0, 1}
          BY <2>6 DEF One
        <5>2. Got(i)[j] - One(j = d) - One(j = i) = Got(i)[j] - One(j = i) - One(j = d)
          BY <5>1
        <5> QED BY <5>2, <2>9, <1>1
      <4> QED BY <4>1 DEF Accounted
    <3>4. /\ f.type = fs.type
          /\ f.nlink = [fs.nlink EXCEPT ![i] = @ - 1, ![d] = IF fs.type[i] = "dir" THEN @ - 1 ELSE @]
      BY TreeNow, FsParts DEF Unlinked
    <3> HIDE DEF f
    <3>5. Referenced(f, Got(i))
      <4>1. ASSUME NEW j \in Inum, f.type[j] # "free", f.nlink[j] = 0
            PROVE  Got(i)[j] > 0 \/ j \in slipped
        <5>1. Got(i)[j] = iref[j] + One(j = i) /\ iref[j] \in Nat
          BY <2>6, TreeNow, RefsSome
        <5>2. CASE j = i
          BY <5>1, <5>2 DEF One
        <5>3. CASE j = d
          <6>1. iref[j] >= leaked[j] + OwnRefs(p, j) /\ leaked[j] \in Nat
            BY TreeNow, RefsSome, FnSame
          <6>2. KeptRefs(p, j) >= 1 /\ KeptRefs(p, j) \in Nat
            BY <5>3, <2>7 DEF KeptRefs, One
          <6>3. OwnRefs(p, j) >= 1 /\ OwnRefs(p, j) \in Nat
            BY <6>2, OwnNat DEF OwnRefs
          <6>4. iref[j] >= 1
            BY <6>1, <6>3, <5>1
          <6> QED BY <5>1, <6>4, <2>4, <5>3 DEF One
        <5>4. CASE j # i /\ j # d
          <6>1. fs.type[j] # "free" /\ fs.nlink[j] = 0
            BY <4>1, <5>4, <3>4, TreeNow, FsParts
          <6>2. iref[j] > 0 \/ j \in slipped
            BY <6>1, StillReferenced DEF Referenced
          <6> QED BY <5>1, <5>4, <6>2 DEF One
        <5> QED BY <5>2, <5>3, <5>4
      <4> QED BY <4>1 DEF Referenced
    <3>6. Over(p, "end_op", f, Got(i), d, i)
      BY <2>11 DEF f
    <3> HIDE DEF full, gone
    <3> QED BY <1>1, <2>4, <2>5, <2>6, <2>7, <2>8, <3>2, <3>3, <3>5, <3>6, EndTreeStep
  <2> QED BY <1>3, <2>10, <2>11
<1> QED BY <1>1, <1>2, <1>3

(* The first half of sys_link.                                             *)
LEMMA LinkStep ==
  ASSUME NamesIInv, NEW p \in Agent, NEW absolute \in BOOLEAN, sys_link(p, absolute)
  PROVE  NamesIInv'
<1> DEFINE s == Start(p, absolute)
           i == ip[p]
<1>1. /\ ilock(p) /\ pc[p] = "walk" /\ fs.type[i] # "dir"
      /\ fs' = Relinked(i, 1) /\ held' = [held EXCEPT ![p] = i]
      /\ pc' = [pc EXCEPT ![p] = "link to"] /\ ip' = [ip EXCEPT ![p] = s] /\ iref' = Got(s)
      /\ UNCHANGED <<cwd, jail, fd, todo, freed, panic, removed, strays, slipped, leaked>>
  BY DEF sys_link, At, ghosts
<1>2. /\ i \in Inum /\ i # 0 /\ held[p] = 0 /\ todo[p] = << >> /\ cwd[p] \in Inum
      /\ fs.type[i] = "file"
  BY <1>1, AtFacts, InumFacts
<1>3. s \in Inum /\ s # 0 /\ Got(s) \in [Inum -> Int] /\ \A j \in Inum : Got(s)[j] = iref[j] + One(j = s)
  <2>1. s \in Inum
    BY <1>2, StartFacts
  <2>2. s # 0
    BY <2>1, InumFacts
  <2> HIDE DEF s
  <2> QED BY <2>1, <2>2, GotFacts, TreeNow
<1> HIDE DEF s, i
<1>4. ip[p] = i
  BY DEF i
<1>5. Moves(p) /\ Turns(p) /\ Flows /\ ip'[p] = s /\ pc'[p] = "link to" /\ held'[p] = i
  BY <1>1, <1>2, <1>3, FnSame DEF Moves, Turns, Flows, Pcs
<1>6. ASSUME NEW j \in Inum
      PROVE  iref'[j] - leaked'[j] - OwnRefs(p, j)' = iref[j] - leaked[j] - OwnRefs(p, j)
  <2>1. iref[j] \in Int /\ leaked[j] \in Nat /\ j # 0 /\ iref'[j] = iref[j] + One(j = s)
    BY <1>1, <1>3, FnSame, InumFacts
  <2>2. KeptRefs(p, j)' = One(cwd[p] = j) + One(jail[p] = j) + One(fd[p] = j) + One(s = j) + One(i = j)
    BY <1>1, <1>5 DEF KeptRefs
  <2>3. PutRefs(p, j)' = PutRefs(p, j) /\ PutRefs(p, j) \in Nat
    BY <1>1, OwnNat DEF PutRefs, Put
  <2>4. KeptRefs(p, j)' = KeptRefs(p, j) + One(j = s) /\ KeptRefs(p, j) \in Nat /\ One(j = s) \in {0, 1}
    BY <2>1, <2>2, <1>2, <1>4 DEF KeptRefs, One
  <2>5. leaked'[j] = leaked[j] /\ OwnRefs(p, j)' = KeptRefs(p, j)' + PutRefs(p, j)'
        /\ OwnRefs(p, j) = KeptRefs(p, j) + PutRefs(p, j)
    BY <1>1 DEF OwnRefs
  <2> QED BY <2>1, <2>3, <2>4, <2>5
<1>7. TreeTypes' /\ TreeInv'
  BY <1>1, <1>2, TreeNow, LinkTree
<1>8. SlipInv'
  <2>1. fs'.type = fs.type /\ fs'.nlink = [fs.nlink EXCEPT ![i] = @ + 1]
    BY <1>1, TreeNow, FsParts DEF Relinked
  <2>2. ASSUME NEW j \in Inum, fs'.type[j] # "free", fs'.nlink[j] = 0
        PROVE  iref'[j] > 0 \/ j \in slipped
    <3>1. fs.nlink[j] >= 0 /\ fs.nlink[j] \in Int
      BY TreeNow, FsParts DEF TreeInv, LinkInv, LinkOf
    <3>2. fs.type[j] # "free" /\ fs.nlink[j] = 0
      BY <2>1, <2>2, <3>1, <1>2, TreeNow, FsParts
    <3>3. Referenced(fs, Got(s))
      BY <1>3, StillReferenced
    <3> QED BY <3>2, <3>3, <1>1 DEF Referenced
  <2> QED BY <2>2, <1>1 DEF SlipInv
<1>9. CallOf(p)'
  <2>1. cwd[p] # 0
    BY <1>2, InumFacts
  <2> QED BY <2>1, <1>1, <1>2, <1>3, <1>5 DEF CallOf
<1> QED BY <1>5, <1>6, <1>7, <1>8, <1>9, MoveStep

(* The second half of sys_link.                                            *)
LEMMA LinkEntryStep ==
  ASSUME NamesIInv, NEW p \in Agent, NEW n \in Name, LinkEntry(p, n)
  PROVE  NamesIInv'
<1> DEFINE d == ip[p]
           i == held[p]
           named == /\ dirlookup(d, n) = 0
                    /\ strays' = IF Detached(d) THEN strays \cup {i} ELSE strays
                    /\ Over(p, "end_op", Linked(d, n, i), iref, d, i)
                    /\ held' = [held EXCEPT ![p] = 0]
<1>1. /\ ilock(p) /\ pc[p] = "link to" /\ fs.type[d] = "dir"
      /\ UNCHANGED <<cwd, jail, fd, freed, panic, removed, slipped, leaked>>
      /\ named \/ (Fail(p) /\ UNCHANGED <<held, strays>>)
  BY DEF LinkEntry, AtParent, At
<1>2. CASE Fail(p) /\ UNCHANGED <<held, strays>>
  BY <1>1, <1>2, FailStep
<1>3. CASE named
  <2>1. /\ d \in Inum /\ d # 0 /\ cwd[p] \in Inum /\ i \in Inum /\ i # 0 /\ panic = "no"
        /\ ip' = [ip EXCEPT ![p] = 0] /\ fs.type[i] = "file"
    <3>1. ip' = [ip EXCEPT ![p] = 0]
      BY <1>3 DEF Over
    <3> QED BY <1>1, <3>1, AtFacts, InumFacts
  <2>2. fs.ent[d][n] = 0
    BY <1>3, NamesAssumption DEF dirlookup
  <2>3. i # d
    BY <1>1, <2>1
  <2> DEFINE f == Linked(d, n, i)
  <2>4. fs' = Linked(d, n, i)
    BY <1>3 DEF Over, Settle
  <2>5. TreeTypes' /\ TreeInv'
    BY <1>1, <1>3, <2>1, <2>2, <2>4, TreeNow, LinkEntryTree
  <2>6. f.type = fs.type /\ f.nlink = fs.nlink
    BY TreeNow, FsParts DEF Linked
  <2>7. Over(p, "end_op", f, iref, d, i) /\ held' = [held EXCEPT ![p] = 0]
    BY <1>3
  <2> HIDE DEF f, named, d, i
  <2>8. ip[p] = d /\ held[p] = i
    BY DEF d, i
  <2>9. d \in Linkable /\ i \in Linkable /\ ip'[p] = 0 /\ held'[p] = 0 /\ iref \in [Inum -> Int]
        /\ panic' = "no"
    BY <1>1, <2>1, <2>7, FnSame
  <2>10. Moves(p)
    BY <1>1, <2>1, <2>7, FnSame DEF Moves
  <2>11. Referenced(f, iref)
    BY <2>6, StillReferenced DEF Referenced
  <2>12. Accounted(p, iref, d, i)
    <3>1. SUFFICES ASSUME NEW j \in Inum
                   PROVE  iref[j] - One(j = d) - One(j = i) - leaked[j] - KeptRefs(p, j)'
                            = iref[j] - leaked[j] - KeptRefs(p, j)
      BY <1>1 DEF Accounted
    <3>2. iref[j] \in Int /\ leaked[j] \in Nat /\ j # 0
      BY FnSame, InumFacts
    <3>3. KeptRefs(p, j)' = One(cwd[p] = j) + One(jail[p] = j) + One(fd[p] = j) + One(0 = j) + One(0 = j)
      BY <1>1, <2>9 DEF KeptRefs
    <3> QED BY <3>2, <3>3, <2>8 DEF KeptRefs, One
  <2> QED BY <1>1, <2>3, <2>5, <2>7, <2>9, <2>10, <2>11, <2>12, EndTreeStep
<1> QED BY <1>1, <1>2, <1>3

(* sys_link undoes its first half.                                         *)
LEMMA LinkBadStep ==
  ASSUME NamesIInv, NEW p \in Agent, LinkBad(p)
  PROVE  NamesIInv'
<1> DEFINE i == held[p]
           f == Relinked(i, -1)
<1>1. /\ pc[p] = "link bad" /\ panic = "no" /\ todo[p] = << >>
      /\ Settle(p, "end_op", f, iref, i, 0) /\ held' = [held EXCEPT ![p] = 0]
      /\ UNCHANGED <<cwd, jail, fd, ip, freed, panic, removed, strays, slipped, leaked>>
  BY DEF LinkBad, In, ghosts
<1>2. CallOf(p) /\ i \in Inum /\ i # 0 /\ ip[p] = 0 /\ cwd[p] # 0
  <2>1. CallOf(p) /\ i \in Linkable
    BY FnSame DEF NamesIInv, CallInv
  <2> QED BY <1>1, <2>1, InumFacts DEF CallOf
<1>3. fs' = Relinked(i, -1)
  BY <1>1 DEF Settle
<1>4. TreeTypes' /\ TreeInv'
  BY <1>1, <1>2, <1>3, TreeNow, LinkBadTree
<1>5. f.type = fs.type /\ f.nlink = [fs.nlink EXCEPT ![i] = @ + (-1)]
  BY TreeNow, FsParts DEF Relinked
<1> HIDE DEF i, f
<1>6. held[p] = i
  BY DEF i
<1>7. Referenced(f, iref)
  <2>1. ASSUME NEW j \in Inum, f.type[j] # "free", f.nlink[j] = 0
        PROVE  iref[j] > 0 \/ j \in slipped
    <3>1. CASE j = i
      <4>1. iref[j] >= leaked[j] + OwnRefs(p, j) /\ leaked[j] \in Nat /\ iref[j] \in Nat
        BY TreeNow, RefsSome, FnSame
      <4>2. KeptRefs(p, j) >= 1 /\ KeptRefs(p, j) \in Nat
        BY <3>1, <1>6 DEF KeptRefs, One
      <4>3. OwnRefs(p, j) >= 1 /\ OwnRefs(p, j) \in Nat
        BY <4>2, OwnNat DEF OwnRefs
      <4> QED BY <4>1, <4>3
    <3>2. CASE j # i
      <4>1. fs.type[j] # "free" /\ fs.nlink[j] = 0
        BY <2>1, <3>2, <1>5, TreeNow, FsParts
      <4> QED BY <4>1, StillReferenced DEF Referenced
    <3> QED BY <3>1, <3>2
  <2> QED BY <2>1 DEF Referenced
<1>8. Moves(p) /\ held'[p] = 0 /\ 0 \in Linkable /\ i \in Linkable /\ iref \in [Inum -> Int]
      /\ leaked' \in [Inum -> Nat] /\ panic' \in {"no", "ilock: no type"} /\ "end_op" \in Pcs
  BY <1>1, <1>2, FnSame DEF Moves, Pcs
<1>9. Accounted(p, iref, i, 0)
  <2>1. SUFFICES ASSUME NEW j \in Inum
                 PROVE  iref[j] - One(j = i) - One(j = 0) - leaked[j] - KeptRefs(p, j)'
                          = iref[j] - leaked[j] - KeptRefs(p, j)
    BY <1>1 DEF Accounted
  <2>2. iref[j] \in Int /\ leaked[j] \in Nat /\ j # 0
    BY FnSame, InumFacts
  <2>3. KeptRefs(p, j)' = One(cwd[p] = j) + One(jail[p] = j) + One(fd[p] = j) + One(ip[p] = j) + One(0 = j)
    BY <1>1, <1>8 DEF KeptRefs
  <2> QED BY <2>2, <2>3, <1>6 DEF KeptRefs, One
<1>10. SettledBy(p, "end_op", f, iref, i, 0) => CallOf(p)'
  <2>1. SUFFICES ASSUME pc'[p] = (IF todo'[p] = << >> THEN "user" ELSE "end_op") PROVE CallOf(p)'
    BY DEF SettledBy
  <2> QED BY <2>1, <1>1, <1>2, <1>8 DEF CallOf
<1> QED BY <1>1, <1>2, <1>4, <1>7, <1>8, <1>9, <1>10, SettleStep

(* fileclose of the last descriptor.                                       *)
LEMMA CloseStep ==
  ASSUME NamesIInv, NEW p \in Agent, CloseFile(p)
  PROVE  NamesIInv'
<1> DEFINE i == fd[p]
<1>1. /\ pc[p] = "user" /\ panic = "no" /\ i # 0 /\ fd' = [fd EXCEPT ![p] = 0]
      /\ Settle(p, "end_op", fs, iref, i, 0)
      /\ UNCHANGED <<cwd, jail, ip, held, freed, panic, removed, strays, slipped, leaked>>
  BY DEF CloseFile, In, ghosts
<1>2. CallOf(p) /\ i \in Linkable /\ ip[p] = 0 /\ held[p] = 0 /\ todo[p] = << >> /\ cwd[p] # 0
  BY <1>1, UserFacts, InumFacts
<1>3. TreeTypes' /\ TreeInv'
  <2>1. fs' = fs
    BY <1>1 DEF Settle
  <2> QED BY <1>1, <2>1, TreeSame
<1>4. Moves(p) /\ fd'[p] = 0 /\ 0 \in Linkable /\ iref \in [Inum -> Int]
      /\ leaked' \in [Inum -> Nat] /\ panic' \in {"no", "ilock: no type"} /\ "end_op" \in Pcs
  BY <1>1, <1>2, FnSame DEF Moves, Pcs
<1>5. Accounted(p, iref, i, 0)
  <2>1. SUFFICES ASSUME NEW j \in Inum
                 PROVE  iref[j] - One(j = i) - One(j = 0) - leaked[j] - KeptRefs(p, j)'
                          = iref[j] - leaked[j] - KeptRefs(p, j)
    BY <1>1 DEF Accounted
  <2>2. iref[j] \in Int /\ leaked[j] \in Nat /\ j # 0
    BY FnSame, InumFacts
  <2>3. KeptRefs(p, j)' = One(cwd[p] = j) + One(jail[p] = j) + One(0 = j) + One(ip[p] = j) + One(held[p] = j)
    BY <1>1, <1>4 DEF KeptRefs
  <2> QED BY <2>2, <2>3 DEF KeptRefs, One
<1>6. SettledBy(p, "end_op", fs, iref, i, 0) => CallOf(p)'
  <2>1. SUFFICES ASSUME pc'[p] = (IF todo'[p] = << >> THEN "user" ELSE "end_op") PROVE CallOf(p)'
    BY DEF SettledBy
  <2> QED BY <2>1, <1>1, <1>2, <1>4 DEF CallOf
<1>7. Referenced(fs, iref)
  BY StillReferenced
<1> QED BY <1>1, <1>2, <1>3, <1>4, <1>5, <1>6, <1>7, SettleStep
(* A step that moves no pointer.                                           *)
LEMMA StillMoves ==
  ASSUME NamesIInv, NEW p \in Agent, UNCHANGED <<iref, cwd, jail, fd, pc, ip, held, todo, leaked>>
  PROVE  /\ Moves(p) /\ Turns(p) /\ CallOf(p)'
         /\ \A j \in Inum : iref'[j] - leaked'[j] - OwnRefs(p, j)' = iref[j] - leaked[j] - OwnRefs(p, j)
<1>1. Moves(p) /\ Turns(p)
  BY FnSame DEF Moves, Turns
<1>2. CallOf(p)'
  <2>1. CallOf(p)
    BY DEF NamesIInv, CallInv
  <2> QED BY <2>1 DEF CallOf
<1>3. ASSUME NEW j \in Inum PROVE OwnRefs(p, j)' = OwnRefs(p, j)
  BY DEF OwnRefs, KeptRefs, PutRefs, Put
<1> QED BY <1>1, <1>2, <1>3

(* ilock panics, and nothing moves.                                        *)
LEMMA PanicStep ==
  ASSUME NamesIInv, NEW p \in Agent, ilockPanics(p)
  PROVE  NamesIInv'
<1>1. UNCHANGED <<fs, iref, cwd, jail, fd, pc, ip, held, todo, freed, removed, strays, slipped, leaked>>
      /\ panic' = "ilock: no type"
  BY DEF ilockPanics, mem, ghosts
<1>2. TreeTypes' /\ TreeInv'
  BY <1>1, TreeSame
<1>3. SlipInv'
  BY <1>1 DEF NamesIInv, SlipInv
<1>4. Flows
  BY <1>1, FnSame DEF Flows
<1> QED BY <1>1, <1>2, <1>3, <1>4, StillMoves, MoveStep

(* The first part of an iput that frees: the inode.                        *)
LEMMA EraseStep ==
  ASSUME NamesIInv, NEW p \in Agent, NEW i \in Inum, Frees(fs, iref, i), fs' = Erased(i),
         freed' = freed \cup {p}, removed' = removed \ {i}, strays' = strays \ {i},
         UNCHANGED <<iref, cwd, jail, fd, pc, ip, held, todo, panic, slipped, leaked>>
  PROVE  NamesIInv'
<1>1. fs.type[i] # "free" /\ fs.nlink[i] = 0
  BY DEF Frees
<1>2. /\ fs' = [type  |-> [fs.type EXCEPT ![i] = "free"], nlink |-> fs.nlink,
                ent |-> [fs.ent EXCEPT ![i] = [m \in Name |-> 0]], up |-> [fs.up EXCEPT ![i] = ROOTINO]]
  BY TreeNow, FsParts DEF Erased
<1>3. ErasesAll({i})
  <2>1. [fs.type EXCEPT ![i] = "free"] = [j \in Inum |-> IF j \in {i} THEN "free" ELSE fs.type[j]]
    BY TreeNow, FsParts
  <2>2. [fs.ent EXCEPT ![i] = [m \in Name |-> 0]]
           = [j \in Inum |-> IF j \in {i} THEN [m \in Name |-> 0] ELSE fs.ent[j]]
    BY TreeNow, FsParts
  <2>3. [fs.up EXCEPT ![i] = ROOTINO] = [j \in Inum |-> IF j \in {i} THEN ROOTINO ELSE fs.up[j]]
    BY TreeNow, FsParts
  <2> QED BY <2>1, <2>2, <2>3, <1>2, Zenon DEF ErasesAll
<1>4. TreeTypes' /\ TreeInv'
  <2>1. {i} \in SUBSET Inum /\ \A k \in {i} : fs.type[k] # "free" /\ fs.nlink[k] = 0
    BY <1>1
  <2>2. removed' = removed \ {i} /\ strays' \subseteq strays /\ strays \ {i} \subseteq strays'
    OBVIOUS
  <2> QED BY <1>3, <2>1, <2>2, TreeNow, EraseTree
<1>5. SlipInv'
  <2>1. ASSUME NEW j \in Inum, fs'.type[j] # "free", fs'.nlink[j] = 0
        PROVE  iref'[j] > 0 \/ j \in slipped'
    <3>1. fs.type[j] # "free" /\ fs.nlink[j] = 0
      BY <2>1, <1>1, <1>2, TreeNow, FsParts
    <3> QED BY <3>1 DEF NamesIInv, SlipInv
  <2> QED BY <2>1 DEF SlipInv
<1>6. Flows
  BY FnSame DEF Flows
<1> QED BY <1>4, <1>5, <1>6, StillMoves, MoveStep

(* One or two numbers.                                                     *)
LEMMA OneOrTwo ==
  ASSUME NEW l \in Nat, NEW m, m = l - 1
  PROVE  /\ l # 0 /\ l <= 2 => l \in {1, 2}
         /\ l = 1 => m = 0
         /\ l = 2 => m = 1
         /\ l \in {1, 2} => m <= 2
OBVIOUS

(* The rest of a list of one or two inodes.                                *)
LEMMA ShortTail ==
  ASSUME NEW s \in Seq(Inum), s # << >>, Len(s) <= 2
  PROVE  /\ Len(s) \in {1, 2} /\ Head(s) = s[1]
         /\ Tail(s) \in Seq(Inum) /\ Len(Tail(s)) <= 2
         /\ Len(s) = 1 => Tail(s) = << >> /\ Len(Tail(s)) = 0
         /\ Len(s) = 2 => Tail(s)[1] = s[2] /\ Len(Tail(s)) = 1 /\ Tail(s) # << >>
<1>1. Len(s) \in Nat /\ Len(s) # 0 /\ Len(<< >>) = 0
  BY EmptySeq, LenProperties
<1>2. /\ Tail(s) \in Seq(Inum) /\ Len(Tail(s)) = Len(s) - 1
      /\ \A k \in 1 .. Len(Tail(s)) : Tail(s)[k] = s[k + 1]
  BY HeadTailProperties
<1>3. Head(s) = s[1]
  OBVIOUS
<1> DEFINE t == Tail(s)
           l == Len(s)
           m == Len(t)
<1>4. /\ l # 0 /\ l <= 2 => l \in {1, 2}
      /\ l = 1 => m = 0
      /\ l = 2 => m = 1
      /\ l \in {1, 2} => m <= 2
  <2>1. l \in Nat /\ m = l - 1
    BY <1>1, <1>2, Zenon
  <2> HIDE DEF l, m
  <2> QED BY <2>1, OneOrTwo
<1>5. l \in {1, 2} /\ m <= 2
  <2>1. l # 0 /\ l <= 2
    BY <1>1, Zenon
  <2> HIDE DEF l, m
  <2> QED BY <2>1, <1>4, Zenon
<1>6. m = 0 => t = << >>
  BY <1>2, EmptySeq, Zenon
<1>7. m = 1 => t[1] = s[2] /\ t # << >>
  <2>1. 1 \in 1 .. 1 /\ 1 + 1 = 2 /\ 1 # 0
    OBVIOUS
  <2>2. \A k \in 1 .. m : t[k] = s[k + 1]
    BY <1>2, Zenon
  <2>3. t = << >> => m = 0
    BY <1>1, Zenon
  <2> HIDE DEF t, m
  <2> QED BY <2>1, <2>2, <2>3, Zenon
<1>8. t \in Seq(Inum)
  BY <1>2, Zenon
<1> QED BY <1>3, <1>4, <1>5, <1>6, <1>7, <1>8, Zenon

(* One reference less.                                                     *)
LEMMA OneLess ==
  ASSUME NEW r \in [Inum -> Int], NEW i \in Inum
  PROVE  /\ [r EXCEPT ![i] = @ - 1] \in [Inum -> Int]
         /\ \A j \in Inum : [r EXCEPT ![i] = @ - 1][j] = r[j] - One(i = j)
BY DEF One

(* What iput takes from ref it takes from the pointers.                    *)
LEMMA PutBalance ==
  ASSUME NEW x \in Int, NEW l \in Int, NEW k \in Int, NEW o \in Int, NEW q \in Int
  PROVE  (x - o) - l - (k + q) = x - l - (k + (o + q))
OBVIOUS

(* The last part of iput: one pointer less.                                *)
LEMMA DropRefStep ==
  ASSUME NamesIInv, NEW p \in Agent, NEW i \in Inum, todo[p] # << >>, i = Head(todo[p]),
         ~ (Frees(fs, iref, i) /\ p \notin freed),
         iref' = [iref EXCEPT ![i] = @ - 1], todo' = [todo EXCEPT ![p] = Tail(@)],
         freed' = freed \ {p},
         slipped' = IF p \in freed /\ Frees(fs, iref, i) THEN slipped \cup {i} ELSE slipped,
         pc' = [pc EXCEPT ![p] = IF Len(todo[p]) = 1 /\ @ = "end_op"
                                 THEN IF cwd[p] = 0 THEN "dead" ELSE "user" ELSE @],
         UNCHANGED <<fs, cwd, jail, fd, ip, held, panic, removed, strays, leaked>>
  PROVE  NamesIInv'
<1>1. /\ todo[p] \in Seq(Inum) /\ Len(todo[p]) \in {1, 2} /\ Head(todo[p]) = todo[p][1]
      /\ Tail(todo[p]) \in Seq(Inum) /\ Len(Tail(todo[p])) <= 2
      /\ Len(todo[p]) = 1 => Tail(todo[p]) = << >> /\ Len(Tail(todo[p])) = 0
      /\ Len(todo[p]) = 2 => /\ Tail(todo[p])[1] = todo[p][2] /\ Len(Tail(todo[p])) = 1
                             /\ Tail(todo[p]) # << >>
  BY FnSame, ShortTail
<1>2. /\ todo' \in [Agent -> Seq(Inum)] /\ todo'[p] = Tail(todo[p])
      /\ \A q \in Agent \ {p} : todo'[q] = todo[q] /\ pc'[q] = pc[q]
  BY <1>1, FnSame
<1>3. ASSUME NEW q \in Agent PROVE Len(todo'[q]) <= 2
  <2>1. CASE q = p
    BY <2>1, <1>1, <1>2, Zenon
  <2>2. CASE q # p
    BY <2>2, <1>2, FnSame
  <2> QED BY <2>1, <2>2
<1>4. pc' \in [Agent -> Pcs]
      /\ pc'[p] = IF Len(todo[p]) = 1 /\ pc[p] = "end_op"
                  THEN IF cwd[p] = 0 THEN "dead" ELSE "user" ELSE pc[p]
  BY FnSame DEF Pcs
<1>5. iref' \in [Inum -> Int] /\ \A j \in Inum : iref'[j] = iref[j] - One(i = j)
  <2>1. iref \in [Inum -> Int]
    BY FnSame
  <2> QED BY <2>1, OneLess, Zenon
<1>6. Turns(p)
  BY <1>2, <1>3, <1>4, <1>5, FnSame DEF Turns
<1>7. Moves(p)
  BY FnSame DEF Moves
<1>8. Flows
  BY FnSame DEF Flows
<1>9. ASSUME NEW j \in Inum
      PROVE  /\ PutRefs(p, j) = One(i = j) + PutRefs(p, j)' /\ PutRefs(p, j)' \in Nat
             /\ iref'[j] - leaked'[j] - OwnRefs(p, j)' = iref[j] - leaked[j] - OwnRefs(p, j)
  <2>1. Put(p, 1) = i /\ Put(p, 1)' = Put(p, 2) /\ Put(p, 2)' = 0
    <3>1. Put(p, 1) = i
      BY <1>1 DEF Put
    <3>2. CASE Len(todo[p]) = 1
      <4>1. Len(todo'[p]) = 0
        BY <1>1, <1>2, <3>2, Zenon
      <4> QED BY <3>1, <3>2, <4>1 DEF Put
    <3>3. CASE Len(todo[p]) = 2
      <4>1. Len(todo'[p]) = 1 /\ todo'[p][1] = todo[p][2]
        BY <1>1, <1>2, <3>3, Zenon
      <4> QED BY <3>1, <3>3, <4>1 DEF Put
    <3> QED BY <1>1, <3>2, <3>3
  <2>2. j # 0
    BY InumFacts
  <2>3. PutRefs(p, j) = One(i = j) + PutRefs(p, j)' /\ PutRefs(p, j)' \in Nat
    BY <2>1, <2>2 DEF PutRefs, One
  <2>4. KeptRefs(p, j)' = KeptRefs(p, j) /\ KeptRefs(p, j) \in Nat /\ One(i = j) \in {0, 1}
    BY OwnNat DEF KeptRefs
  <2>5. iref[j] \in Int /\ leaked[j] \in Nat /\ leaked'[j] = leaked[j] /\ iref'[j] = iref[j] - One(i = j)
    BY <1>5, FnSame
  <2>6. iref'[j] - leaked'[j] - OwnRefs(p, j)' = iref[j] - leaked[j] - OwnRefs(p, j)
    <3> DEFINE x == iref[j] l == leaked[j] k == KeptRefs(p, j) o == One(i = j) q == PutRefs(p, j)'
    <3>1. x \in Int /\ l \in Int /\ k \in Int /\ o \in Int /\ q \in Int
      <4>1. \A m \in Nat : m \in Int
        OBVIOUS
      <4>2. o \in Nat
        BY DEF One
      <4> QED BY <4>1, <4>2, <2>3, <2>4, <2>5, Zenon
    <3>2. /\ iref'[j] = x - o /\ leaked'[j] = l /\ OwnRefs(p, j)' = k + q
          /\ OwnRefs(p, j) = k + (o + q) /\ iref[j] = x /\ leaked[j] = l
      BY <2>3, <2>4, <2>5, Zenon DEF OwnRefs
    <3> HIDE DEF x, l, k, o, q
    <3>3. (x - o) - l - (k + q) = x - l - (k + (o + q))
      BY <3>1, PutBalance
    <3> QED BY <3>2, <3>3, Zenon
  <2> QED BY <2>3, <2>6
<1>10. TreeTypes' /\ TreeInv'
  BY TreeSame
<1>11. SlipInv'
  <2>1. ASSUME NEW j \in Inum, fs.type[j] # "free", fs.nlink[j] = 0
        PROVE  iref'[j] > 0 \/ j \in slipped'
    <3>1. iref[j] > 0 \/ j \in slipped
      BY <2>1 DEF NamesIInv, SlipInv
    <3>2. CASE j # i
      BY <3>1, <3>2, <1>5, FnSame DEF One
    <3>3. CASE j = i
      <4>1. iref[j] >= leaked[j] + OwnRefs(p, j) /\ leaked[j] \in Nat /\ iref[j] \in Nat
        BY TreeNow, RefsSome, FnSame
      <4>2. PutRefs(p, j) >= 1 /\ PutRefs(p, j) \in Nat
        BY <1>9, <3>3 DEF One
      <4>3. OwnRefs(p, j) >= 1 /\ OwnRefs(p, j) \in Nat
        BY <4>2, OwnNat DEF OwnRefs
      <4>4. iref[j] >= 1 /\ iref'[j] = iref[j] - 1
        BY <4>1, <4>3, <1>5, <3>3 DEF One
      <4>5. CASE iref[j] = 1
        <5>1. Frees(fs, iref, i)
          BY <2>1, <3>3, <4>5 DEF Frees
        <5> QED BY <5>1, <3>3
      <4>6. CASE iref[j] # 1
        BY <4>1, <4>4, <4>6
      <4> QED BY <4>5, <4>6
    <3> QED BY <3>2, <3>3
  <2> QED BY <2>1 DEF SlipInv
<1>12. CallOf(p)'
  <2>1. CallOf(p)
    BY DEF NamesIInv, CallInv
  <2>2. Len(todo[p]) = 1 => todo'[p] = << >>
    BY <1>1, <1>2, Zenon
  <2>3. Len(todo[p]) = 2 => todo'[p] # << >>
    BY <1>1, <1>2, Zenon
  <2> QED BY <2>1, <2>2, <2>3, <1>1, <1>4 DEF CallOf
<1> QED BY <1>6, <1>7, <1>8, <1>9, <1>10, <1>11, <1>12, MoveStep

(* iput.                                                                   *)
LEMMA PutStep ==
  ASSUME NamesIInv, NEW p \in Agent, iput(p)
  PROVE  NamesIInv'
<1> DEFINE i == Head(todo[p])
<1>1. todo[p] # << >> /\ i \in Inum
  <2>1. todo[p] # << >> /\ todo[p] \in Seq(Inum)
    BY FnSame DEF iput
  <2> QED BY <2>1, HeadTailProperties
<1>2. CASE Frees(fs, iref, i) /\ p \notin freed
  BY <1>1, <1>2, EraseStep DEF iput
<1>3. CASE ~ (Frees(fs, iref, i) /\ p \notin freed)
  BY <1>1, <1>3, DropRefStep DEF iput
<1> QED BY <1>2, <1>3
(* How many of two pointers lead to an inode.                              *)
Both(x, y, j) == {k \in {1, 2} : <<x, y>>[k] = j}
(* They are counted one by one.                                            *)
LEMMA PairCount ==
  ASSUME NEW x, NEW y, NEW j
  PROVE  Cardinality(Both(x, y, j)) = One(x = j) + One(y = j)
<1> DEFINE S == Both(x, y, j)
<1>1. <<x, y>>[1] = x /\ <<x, y>>[2] = y /\ 1 # 2
  OBVIOUS
<1>2. IsFiniteSet({}) /\ Cardinality({}) = 0
  BY FS_EmptySet
<1>3. \A z : IsFiniteSet({z}) /\ Cardinality({z}) = 1
  BY FS_Singleton
<1>4. CASE x = j /\ y = j
  <2>1. S = {1} \cup {2}
    BY <1>1, <1>4 DEF Both
  <2>2. Cardinality({1} \cup {2}) = Cardinality({1}) + 1
    BY <1>1, <1>3, FS_AddElement
  <2> HIDE DEF S
  <2>3. Cardinality(S) = 1 + 1
    BY <2>1, <2>2, <1>3, Zenon
  <2> QED BY <2>3, <1>4 DEF One, S
<1>5. CASE x = j /\ y # j
  <2>1. S = {1}
    BY <1>1, <1>5 DEF Both
  <2> HIDE DEF S
  <2>2. Cardinality(S) = 1
    BY <2>1, <1>3
  <2> QED BY <2>2, <1>5 DEF One, S
<1>6. CASE x # j /\ y = j
  <2>1. S = {2}
    BY <1>1, <1>6 DEF Both
  <2> HIDE DEF S
  <2>2. Cardinality(S) = 1
    BY <2>1, <1>3
  <2> QED BY <2>2, <1>6 DEF One, S
<1>7. CASE x # j /\ y # j
  <2>1. S = {}
    BY <1>1, <1>7 DEF Both
  <2> HIDE DEF S
  <2>2. Cardinality(S) = 0
    BY <2>1, <1>2
  <2> QED BY <2>2, <1>7 DEF One, S
<1> QED BY <1>4, <1>5, <1>6, <1>7

(* The pointers of a process with a working directory, a jail and nothing  *)
(* else.                                                                   *)
LEMMA TwoRefs ==
  ASSUME NEW p, NEW j \in Inum, fd[p] = 0, ip[p] = 0, held[p] = 0, todo[p] = << >>
  PROVE  OwnRefs(p, j) = One(cwd[p] = j) + One(jail[p] = j)
<1>1. j # 0
  BY InumFacts
<1>2. Put(p, 1) = 0 /\ Put(p, 2) = 0
  BY DEF Put
<1>3. One(0 = j) = 0 /\ One(cwd[p] = j) \in {0, 1} /\ One(jail[p] = j) \in {0, 1}
  BY <1>1 DEF One
<1> QED BY <1>2, <1>3 DEF OwnRefs, KeptRefs, PutRefs

(* kfork.                                                                  *)
LEMMA ForkStep ==
  ASSUME NamesIInv, NEW p \in Agent, NEW q \in Agent, ForkAgent(p, q)
  PROVE  NamesIInv'
<1>1. /\ pc[p] = "user" /\ pc[q] = "dead" /\ pc' = [pc EXCEPT ![q] = "user"]
      /\ cwd' = [cwd EXCEPT ![q] = cwd[p]] /\ jail' = [jail EXCEPT ![q] = jail[p]]
      /\ iref' = [i \in Inum |-> iref[i] + Cardinality(Both(cwd[p], jail[p], i))]
      /\ UNCHANGED <<fs, fd, ip, held, todo, freed, panic, removed, strays, slipped, leaked>>
  BY DEF ForkAgent, In, Both
<1>2. cwd[p] \in Inum /\ jail[p] \in Linkable
  BY <1>1, UserFacts
<1>3. CallOf(q) /\ cwd[q] = 0 /\ jail[q] = 0 /\ fd[q] = 0 /\ ip[q] = 0 /\ held[q] = 0 /\ todo[q] = << >>
  <2>1. CallOf(q)
    BY DEF NamesIInv, CallInv
  <2> QED BY <2>1, <1>1 DEF CallOf
<1>4. cwd'[q] = cwd[p] /\ jail'[q] = jail[p] /\ pc'[q] = "user"
  BY <1>1, FnSame
<1>5. /\ iref' \in [Inum -> Int]
      /\ \A j \in Inum : iref'[j] = iref[j] + (One(cwd[p] = j) + One(jail[p] = j))
  <2>1. \A j \in Inum : iref'[j] = iref[j] + (One(cwd[p] = j) + One(jail[p] = j))
    <3>1. \A j \in Inum : iref'[j] = iref[j] + Cardinality(Both(cwd[p], jail[p], j))
      BY <1>1
    <3>2. ASSUME NEW j \in Inum
          PROVE  iref'[j] = iref[j] + (One(cwd[p] = j) + One(jail[p] = j))
      <4>1. iref'[j] = iref[j] + Cardinality(Both(cwd[p], jail[p], j))
        BY <3>1, Zenon
      <4>2. Cardinality(Both(cwd[p], jail[p], j)) = One(cwd[p] = j) + One(jail[p] = j)
        BY PairCount
      <4> QED BY <4>1, <4>2, Zenon
    <3> QED BY <3>2, Zenon
  <2>2. \A j \in Inum : iref[j] \in Int /\ One(cwd[p] = j) \in {0, 1} /\ One(jail[p] = j) \in {0, 1}
    BY FnSame DEF One
  <2>3. \A j \in Inum : iref'[j] \in Int
    BY <2>1, <2>2
  <2>4. iref' = [i \in Inum |-> iref'[i]]
    BY <1>1
  <2> QED BY <2>1, <2>3, <2>4
<1>6. Moves(q)
  BY <1>1, <1>2, FnSame DEF Moves
<1>7. Turns(q)
  BY <1>1, <1>5, FnSame DEF Turns, Pcs
<1>8. Flows
  BY <1>1, FnSame DEF Flows
<1>9. TreeTypes' /\ TreeInv'
  BY <1>1, TreeSame
<1>10. SlipInv'
  <2>1. \A j \in Inum : iref[j] \in Int /\ One(cwd[p] = j) \in {0, 1} /\ One(jail[p] = j) \in {0, 1}
    BY FnSame DEF One
  <2>2. \A j \in Inum : iref[j] > 0 => iref'[j] > 0
    BY <1>5, <2>1
  <2> QED BY <2>2, <1>1 DEF NamesIInv, SlipInv
<1>11. CallOf(q)'
  <2>1. cwd'[q] # 0 /\ fd'[q] = 0 /\ ip'[q] = 0 /\ held'[q] = 0 /\ todo'[q] = << >>
    BY <1>1, <1>2, <1>3, <1>4, InumFacts
  <2> QED BY <2>1, <1>4 DEF CallOf
<1>12. ASSUME NEW j \in Inum
       PROVE  iref'[j] - leaked'[j] - OwnRefs(q, j)' = iref[j] - leaked[j] - OwnRefs(q, j)
  <2>1. OwnRefs(q, j) = One(cwd[q] = j) + One(jail[q] = j)
    BY <1>3, TwoRefs
  <2>2. OwnRefs(q, j) = 0
    BY <2>1, <1>3, InumFacts DEF One
  <2>3. OwnRefs(q, j)' = One(cwd[p] = j) + One(jail[p] = j)
    <3>1. j # 0
      BY InumFacts
    <3>2. Put(q, 1)' = 0 /\ Put(q, 2)' = 0
      BY <1>1, <1>3 DEF Put
    <3>3. fd'[q] = 0 /\ ip'[q] = 0 /\ held'[q] = 0
      BY <1>1, <1>3
    <3>4. One(0 = j) = 0 /\ One(cwd[p] = j) \in {0, 1} /\ One(jail[p] = j) \in {0, 1}
      BY <3>1 DEF One
    <3> QED BY <3>2, <3>3, <3>4, <1>4 DEF OwnRefs, KeptRefs, PutRefs
  <2> DEFINE o == One(cwd[p] = j) + One(jail[p] = j)
  <2>4. o \in Int /\ iref[j] \in Int /\ leaked[j] \in Int /\ leaked'[j] = leaked[j] /\ iref'[j] = iref[j] + o
    <3>1. One(cwd[p] = j) \in {0, 1} /\ One(jail[p] = j) \in {0, 1}
      BY DEF One
    <3>2. \A u, v \in {0, 1} : u + v \in Int
      OBVIOUS
    <3>3. o \in Int /\ iref'[j] = iref[j] + o
      BY <3>1, <3>2, <1>5, Zenon
    <3>4. iref[j] \in Int /\ leaked[j] \in Int /\ leaked'[j] = leaked[j]
      <4>1. leaked[j] \in Nat /\ iref[j] \in Int /\ leaked'[j] = leaked[j]
        BY <1>1, FnSame
      <4>2. \A n \in Nat : n \in Int
        OBVIOUS
      <4> QED BY <4>1, <4>2, Zenon
    <3> QED BY <3>3, <3>4
  <2> HIDE DEF o
  <2>5. OwnRefs(q, j)' = o
    BY <2>3 DEF o
  <2>6. \A u, v, w \in Int : (u + w) - v - w = u - v - 0
    OBVIOUS
  <2> QED BY <2>2, <2>4, <2>5, <2>6
<1> QED BY <1>6, <1>7, <1>8, <1>9, <1>10, <1>11, <1>12, MoveStep

(* kexit: the pointers become iputs to do.                                 *)
LEMMA ExitStep ==
  ASSUME NamesIInv, NEW p \in Agent, ExitAgent(p)
  PROVE  NamesIInv'
<1> DEFINE t == IF Jailed(p) THEN <<cwd[p], jail[p]>> ELSE <<cwd[p]>>
<1>1. /\ pc[p] = "user" /\ fd[p] = 0 /\ pc' = [pc EXCEPT ![p] = "end_op"]
      /\ todo' = [todo EXCEPT ![p] = t]
      /\ cwd' = [cwd EXCEPT ![p] = 0] /\ jail' = [jail EXCEPT ![p] = 0]
      /\ UNCHANGED <<fs, iref, fd, ip, held, freed, panic, removed, strays, slipped, leaked>>
  BY DEF ExitAgent, In
<1>2. /\ cwd[p] \in Inum /\ jail[p] \in Linkable /\ cwd[p] # 0
      /\ ip[p] = 0 /\ held[p] = 0 /\ todo[p] = << >>
  BY <1>1, UserFacts, InumFacts
<1>3. t \in Seq(Inum) /\ Len(t) <= 2 /\ t # << >>
  <2>1. jail[p] # 0 => jail[p] \in Inum
    BY <1>2, InumFacts
  <2>2. CASE Jailed(p)
    <3>1. jail[p] \in Inum
      BY <2>1, <2>2 DEF Jailed
    <3>2. t = <<cwd[p], jail[p]>>
      BY <2>2
    <3> HIDE DEF t
    <3> QED BY <3>1, <3>2, <1>2
  <2>3. CASE ~ Jailed(p)
    <3>1. t = <<cwd[p]>>
      BY <2>3
    <3> HIDE DEF t
    <3> QED BY <3>1, <1>2
  <2> QED BY <2>2, <2>3
<1>4. /\ (IF 1 <= Len(t) THEN t[1] ELSE 0) = cwd[p]
      /\ (IF 2 <= Len(t) THEN t[2] ELSE 0) = jail[p]
  <2>1. CASE Jailed(p)
    <3>1. t = <<cwd[p], jail[p]>>
      BY <2>1
    <3> HIDE DEF t
    <3> QED BY <3>1
  <2>2. CASE ~ Jailed(p)
    <3>1. t = <<cwd[p]>> /\ jail[p] = 0
      BY <2>2 DEF Jailed
    <3> HIDE DEF t
    <3> QED BY <3>1
  <2> QED BY <2>1, <2>2
<1> HIDE DEF t
<1>5. cwd'[p] = 0 /\ jail'[p] = 0 /\ pc'[p] = "end_op" /\ todo'[p] = t
  BY <1>1, FnSame
<1>6. Moves(p)
  BY <1>1, FnSame DEF Moves
<1>7. Turns(p)
  <2>1. todo' \in [Agent -> Seq(Inum)] /\ \A q \in Agent \ {p} : todo'[q] = todo[q] /\ pc'[q] = pc[q]
    BY <1>1, <1>3, FnSame
  <2>2. ASSUME NEW q \in Agent PROVE Len(todo'[q]) <= 2
    <3>1. CASE q = p
      BY <3>1, <1>3, <1>5, Zenon
    <3>2. CASE q # p
      BY <3>2, <2>1, FnSame
    <3> QED BY <3>1, <3>2
  <2>3. pc' \in [Agent -> Pcs]
    BY <1>1, FnSame DEF Pcs
  <2> QED BY <2>1, <2>2, <2>3, <1>1, FnSame DEF Turns
<1>8. Flows
  BY <1>1, FnSame DEF Flows
<1>9. TreeTypes' /\ TreeInv'
  BY <1>1, TreeSame
<1>10. SlipInv'
  BY <1>1 DEF NamesIInv, SlipInv
<1>11. CallOf(p)'
  <2>1. fd'[p] = 0 /\ ip'[p] = 0 /\ held'[p] = 0 /\ todo'[p] # << >>
    BY <1>1, <1>2, <1>3, <1>5, Zenon
  <2> QED BY <2>1, <1>5 DEF CallOf
<1>12. ASSUME NEW j \in Inum
       PROVE  iref'[j] - leaked'[j] - OwnRefs(p, j)' = iref[j] - leaked[j] - OwnRefs(p, j)
  <2>1. OwnRefs(p, j) = One(cwd[p] = j) + One(jail[p] = j)
    BY <1>1, <1>2, TwoRefs
  <2>2. OwnRefs(p, j)' = One(cwd[p] = j) + One(jail[p] = j)
    <3>1. Put(p, 1)' = cwd[p] /\ Put(p, 2)' = jail[p]
      BY <1>4, <1>5, Zenon DEF Put
    <3>2. fd'[p] = 0 /\ ip'[p] = 0 /\ held'[p] = 0
      BY <1>1, <1>2
    <3>3. One(0 = j) = 0 /\ One(cwd[p] = j) \in {0, 1} /\ One(jail[p] = j) \in {0, 1}
      BY InumFacts DEF One
    <3>4. KeptRefs(p, j)' = 0
      BY <3>2, <3>3, <1>5 DEF KeptRefs
    <3>5. PutRefs(p, j)' = One(cwd[p] = j) + One(jail[p] = j)
      BY <3>1, Zenon DEF PutRefs
    <3> DEFINE u == One(cwd[p] = j)
               v == One(jail[p] = j)
               s == KeptRefs(p, j)'
               t2 == PutRefs(p, j)'
    <3>6. OwnRefs(p, j)' = s + t2 /\ s = 0 /\ t2 = u + v /\ u \in {0, 1} /\ v \in {0, 1}
      BY <3>3, <3>4, <3>5, Zenon DEF OwnRefs
    <3> HIDE DEF s, t2, u, v
    <3>7. s + t2 = u + v
      BY <3>6
    <3> QED BY <3>6, <3>7, Zenon DEF u, v
  <2> QED BY <2>1, <2>2, <1>1, Zenon
<1> QED BY <1>6, <1>7, <1>8, <1>9, <1>10, <1>11, <1>12, MoveStep
-----------------------------------------------------------------------------
(* Boot, crash and the theorem.                                            *)

Booted ==
  /\ iref = [i \in Inum |-> IF i = ROOTINO THEN 1 ELSE 0]
  /\ \E boot \in Agent :
       /\ cwd = [p \in Agent |-> IF p = boot THEN ROOTINO ELSE 0]
       /\ pc = [p \in Agent |-> IF p = boot THEN "user" ELSE "dead"]
  /\ jail = [p \in Agent |-> 0] /\ fd = [p \in Agent |-> 0]
  /\ ip = [p \in Agent |-> 0] /\ held = [p \in Agent |-> 0]
  /\ todo = [p \in Agent |-> << >>] /\ leaked = [i \in Inum |-> 0]

(* A process that points at nothing has no reference.                      *)
LEMMA PointsNowhere ==
  ASSUME TableTypes, NEW q \in Agent, cwd[q] = 0, jail[q] = 0, fd[q] = 0, ip[q] = 0, held[q] = 0,
         todo[q] = << >>, NEW j \in Inum, NEW k \in 1 .. 7
  PROVE  ~ (k <= Len(Pointers(q)) /\ Pointers(q)[k] = j)
<1>1. Put(q, 1) = 0 /\ Put(q, 2) = 0 /\ j # 0
  BY InumFacts DEF Put
<1>2. SlotRef(q, k) = 0
  BY <1>1 DEF SlotRef
<1> QED BY <1>1, <1>2, SlotIsPointer

(* The first process's working directory is the only pointer.              *)
BootRefs == Booted => TableTypes /\ CallInv /\ RefsAreHeld /\ pc \in [Agent -> Pcs]
(* So a booted kernel has the invariants of its tables.                    *)
LEMMA BootCounts == BootRefs
<1> SUFFICES ASSUME Booted PROVE TableTypes /\ CallInv /\ RefsAreHeld /\ pc \in [Agent -> Pcs]
  BY DEF BootRefs
<1> USE InumFacts
<1>1. PICK boot \in Agent :
        /\ cwd = [p \in Agent |-> IF p = boot THEN ROOTINO ELSE 0]
        /\ pc = [p \in Agent |-> IF p = boot THEN "user" ELSE "dead"]
  BY DEF Booted
<1>2. /\ iref \in [Inum -> Int] /\ leaked \in [Inum -> Nat]
      /\ cwd \in [Agent -> Linkable] /\ jail \in [Agent -> Linkable]
      /\ fd \in [Agent -> Linkable] /\ ip \in [Agent -> Linkable]
      /\ held \in [Agent -> Linkable] /\ pc \in [Agent -> Pcs]
  BY <1>1 DEF Booted, Pcs
<1>3. todo \in [Agent -> Seq(Inum)] /\ \A p \in Agent : todo[p] = << >> /\ Len(todo[p]) <= 2
  <2>1. << >> \in Seq(Inum) /\ Len(<< >>) <= 2
    BY EmptySeq
  <2>2. todo = [p \in Agent |-> << >>]
    BY DEF Booted
  <2>3. \A p \in Agent : todo[p] = << >>
    BY <2>2
  <2> QED BY <2>1, <2>2, <2>3
<1>4. TableTypes
  BY <1>2, <1>3 DEF TableTypes
<1>5. \A p \in Agent : /\ jail[p] = 0 /\ fd[p] = 0 /\ ip[p] = 0 /\ held[p] = 0
                       /\ cwd[p] = IF p = boot THEN ROOTINO ELSE 0
                       /\ pc[p] = IF p = boot THEN "user" ELSE "dead"
  BY <1>1 DEF Booted
<1>6. CallInv
  <2>1. ASSUME NEW p \in Agent PROVE CallOf(p)
    <3>1. /\ jail[p] = 0 /\ fd[p] = 0 /\ ip[p] = 0 /\ held[p] = 0 /\ todo[p] = << >>
          /\ cwd[p] = IF p = boot THEN ROOTINO ELSE 0
          /\ pc[p] = IF p = boot THEN "user" ELSE "dead"
      BY <1>3, <1>5
    <3>2. ROOTINO # 0
      OBVIOUS
    <3> QED BY <3>1, <3>2 DEF CallOf
  <2> QED BY <2>1 DEF CallInv
<1>7. ASSUME NEW j \in Inum PROVE iref[j] = leaked[j] + Cardinality(Refs(j))
  <2>1. RestRefs(boot, j) = {}
    <3>1. SUFFICES ASSUME NEW x \in RestRefs(boot, j) PROVE FALSE
      OBVIOUS
    <3>2. /\ x[1] \in Agent /\ x[2] \in 1 .. 7 /\ x[1] # boot
          /\ x[2] <= Len(Pointers(x[1])) /\ Pointers(x[1])[x[2]] = j
      BY <3>1 DEF RestRefs, Refs
    <3> DEFINE q == x[1]
               k == x[2]
    <3> HIDE DEF q, k
    <3>3. q \in Agent /\ k \in 1 .. 7 /\ q # boot /\ k <= Len(Pointers(q)) /\ Pointers(q)[k] = j
      BY <3>2 DEF q, k
    <3>4. cwd[q] = 0 /\ jail[q] = 0 /\ fd[q] = 0 /\ ip[q] = 0 /\ held[q] = 0 /\ todo[q] = << >>
      BY <3>3, <1>3, <1>5
    <3> QED BY <3>3, <3>4, <1>4, PointsNowhere
  <2>2. Cardinality(RestRefs(boot, j)) = 0
    BY <2>1, FS_EmptySet
  <2>3. Cardinality(Refs(j)) = Cardinality(RestRefs(boot, j)) + OwnRefs(boot, j)
    BY <1>4, SplitRefs DEF Splits, SplitAt
  <2>4. OwnRefs(boot, j) = One(cwd[boot] = j) + One(jail[boot] = j)
    BY <1>3, <1>5, TwoRefs
  <2>5. One(cwd[boot] = j) = One(ROOTINO = j) /\ One(jail[boot] = j) = 0
    BY <1>5 DEF One
  <2>6. iref[j] = One(ROOTINO = j) /\ leaked[j] = 0 /\ One(ROOTINO = j) \in {0, 1}
    BY DEF Booted, One
  <2> QED BY <2>2, <2>3, <2>4, <2>5, <2>6
<1> QED BY <1>2, <1>4, <1>6, <1>7 DEF RefsAreHeld

(* Between calls sys_link holds nothing.                                   *)
LEMMA QuietHolds ==
  ASSUME NamesIInv, Quiet
  PROVE  held = [p \in Agent |-> 0]
<1>1. ASSUME NEW p \in Agent PROVE held[p] = 0
  <2>1. CallOf(p) /\ pc[p] \in {"user", "dead"}
    BY DEF NamesIInv, CallInv, Quiet
  <2> QED BY <2>1 DEF CallOf
<1> QED BY <1>1, FnSame

(* Recovery and ireclaim.                                                  *)
LEMMA CrashStep ==
  ASSUME NamesIInv, Crash
  PROVE  NamesIInv'
<1> DEFINE E == {i \in Inum : Orphan(fs, i)}
<1>1. /\ Quiet /\ fs' = ireclaim(fs) /\ held' = [p \in Agent |-> 0]
      /\ freed' = {} /\ panic' = "no" /\ slipped' = {} /\ strays' = strays
      /\ removed' = {i \in removed : ~ Orphan(fs, i)}
  BY DEF Crash
<1>2. TableTypes' /\ CallInv' /\ RefsAreHeld' /\ (pc \in [Agent -> Pcs])'
  <2>1. Booted'
    BY DEF Crash, Booted
  <2>2. BootRefs'
    BY BootCounts, PTL
  <2> QED BY <2>1, <2>2 DEF BootRefs
<1>3. E \in SUBSET Inum /\ \A i \in E : fs.type[i] # "free" /\ fs.nlink[i] = 0
  BY DEF Orphan
<1>4. \A i \in Inum : Orphan(fs, i) <=> i \in E
  OBVIOUS
<1>5. ErasesAll(E)
  <2>1. fs' = [type  |-> [i \in Inum |-> IF Orphan(fs, i) THEN "free" ELSE fs.type[i]],
               nlink |-> fs.nlink,
               ent   |-> [i \in Inum |-> IF Orphan(fs, i) THEN [n \in Name |-> 0] ELSE fs.ent[i]],
               up    |-> [i \in Inum |-> IF Orphan(fs, i) THEN ROOTINO ELSE fs.up[i]]]
    BY <1>1, TreeNow, FsParts DEF ireclaim
  <2> HIDE DEF E
  <2>2. [i \in Inum |-> IF Orphan(fs, i) THEN "free" ELSE fs.type[i]]
          = [j \in Inum |-> IF j \in E THEN "free" ELSE fs.type[j]]
    BY <1>4
  <2>3. [i \in Inum |-> IF Orphan(fs, i) THEN [n \in Name |-> 0] ELSE fs.ent[i]]
          = [j \in Inum |-> IF j \in E THEN [m \in Name |-> 0] ELSE fs.ent[j]]
    BY <1>4
  <2>4. [i \in Inum |-> IF Orphan(fs, i) THEN ROOTINO ELSE fs.up[i]]
          = [j \in Inum |-> IF j \in E THEN ROOTINO ELSE fs.up[j]]
    BY <1>4
  <2> QED BY <2>1, <2>2, <2>3, <2>4, Zenon DEF ErasesAll
<1>6. held' = held
  BY <1>1, QuietHolds
<1>7. removed' = removed \ E
  BY <1>1 DEF NamesIInv, FlowTypes
<1>8. TreeTypes' /\ TreeInv'
  <2> HIDE DEF E
  <2>1. strays' \subseteq strays /\ strays \ E \subseteq strays'
    BY <1>1
  <2> QED BY <1>3, <1>5, <1>6, <1>7, <2>1, TreeNow, EraseTree
<1>9. SlipInv'
  <2>1. ASSUME NEW j \in Inum, fs'.type[j] # "free", fs'.nlink[j] = 0 PROVE FALSE
    <3> HIDE DEF E
    <3>1. fs'.type[j] = (IF j \in E THEN "free" ELSE fs.type[j]) /\ fs'.nlink[j] = fs.nlink[j]
      BY <1>5 DEF ErasesAll
    <3>2. j \notin E /\ fs.type[j] # "free" /\ fs.nlink[j] = 0
      BY <2>1, <3>1
    <3>3. Orphan(fs, j)
      BY <3>2 DEF Orphan
    <3> QED BY <1>4, <3>2, <3>3
  <2> QED BY <2>1 DEF SlipInv
<1>10. FlowTypes'
  BY <1>1, <1>2, <1>8 DEF FlowTypes, TreeTypes
<1>11. FsType(fs)'
  BY <1>8 DEF TreeTypes
<1> QED BY <1>2, <1>8, <1>9, <1>10, <1>11 DEF NamesIInv

(* The new file system is a root without entries.                          *)
LEMMA NamesInit == fsinit => NamesIInv
<1> SUFFICES ASSUME fsinit PROVE NamesIInv
  OBVIOUS
<1> USE InumFacts
<1>1. TableTypes /\ CallInv /\ RefsAreHeld /\ pc \in [Agent -> Pcs]
  <2>1. Booted
    BY DEF fsinit, Booted
  <2> QED BY <2>1, BootCounts DEF BootRefs
<1>2. /\ fs = [type  |-> [i \in Inum |-> IF i = ROOTINO THEN "dir" ELSE "free"],
               nlink |-> [i \in Inum |-> IF i = ROOTINO THEN 1 ELSE 0],
               ent   |-> [i \in Inum |-> [n \in Name |-> 0]],
               up    |-> [i \in Inum |-> ROOTINO]]
      /\ held = [p \in Agent |-> 0]
      /\ freed = {} /\ panic = "no" /\ removed = {} /\ strays = {} /\ slipped = {}
  BY DEF fsinit
<1>3. \A i \in Inum : /\ fs.type[i] = IF i = ROOTINO THEN "dir" ELSE "free"
                      /\ fs.nlink[i] = IF i = ROOTINO THEN 1 ELSE 0
                      /\ fs.up[i] = ROOTINO /\ \A n \in Name : fs.ent[i][n] = 0
  BY <1>2
<1>4. FsType(fs)
  <2>1. [n \in Name |-> 0] \in [Name -> Linkable]
    OBVIOUS
  <2> QED BY <2>1, <1>2 DEF FsType, Types
<1>5. FlowTypes
  BY <1>1, <1>2 DEF FlowTypes
<1>6. EntryInv /\ UpInv /\ DetachedInv
  BY <1>3 DEF EntryInv, UpInv, DetachedInv
<1>7. HeldInv
  BY <1>2 DEF HeldInv
<1>8. ASSUME NEW i \in Inum PROVE LinkOf(i)
  <2>1. Entries(fs, i) = {}
    <3>1. ASSUME NEW e \in Inum \X Name PROVE fs.ent[e[1]][e[2]] = 0
      BY <1>3
    <3>2. i # 0
      OBVIOUS
    <3> QED BY <3>1, <3>2, Zenon DEF Entries
  <2>6. Subdirs(fs, i) = {}
    BY <1>3 DEF Subdirs
  <2>2. Holders(held, i) = {}
    BY <1>2 DEF Holders
  <2>3. LinksIn(fs, held, i) = IF i = ROOTINO THEN 1 ELSE 0
    BY <2>1, <2>2, <2>6, FS_EmptySet DEF LinksIn
  <2>4. fs.nlink[i] = LinksIn(fs, held, i) /\ fs.nlink[i] \in {0, 1}
    BY <2>3, <1>3
  <2>5. \A k \in {0, 1} : k >= 0 /\ k >= k
    OBVIOUS
  <2> QED BY <2>4, <2>5, Zenon DEF LinkOf
<1>9. SlipInv
  BY <1>3 DEF SlipInv
<1> QED BY <1>1, <1>4, <1>5, <1>6, <1>7, <1>8, <1>9 DEF NamesIInv, TreeInv, LinkInv

(* Nothing happens.                                                        *)
LEMMA NamesStutter ==
  ASSUME NamesIInv, UNCHANGED namesVars
  PROVE  NamesIInv'
<1>1. UNCHANGED <<fs, iref, cwd, jail, fd, pc, ip, held, todo, freed, panic,
                  removed, strays, slipped, leaked>>
  BY DEF namesVars, mem, ghosts
<1>2. PICK p \in Agent : TRUE
  BY NamesAssumption
<1>3. TreeTypes' /\ TreeInv'
  BY <1>1, TreeSame
<1>4. SlipInv'
  BY <1>1 DEF NamesIInv, SlipInv
<1>5. Flows
  BY <1>1, FnSame DEF Flows
<1> QED BY <1>1, <1>3, <1>4, <1>5, StillMoves, MoveStep

(* Every step of every call, one process at a time, and a crash.           *)
LEMMA NamesStep == NamesIInv /\ [NamesNext]_namesVars => NamesIInv'
<1> SUFFICES ASSUME NamesIInv, [NamesNext]_namesVars PROVE NamesIInv'
  OBVIOUS
<1>1. CASE UNCHANGED namesVars
  BY <1>1, NamesStutter
<1>2. CASE Crash
  BY <1>2, CrashStep
<1>3. ASSUME NEW p \in Agent, NEW e \in Name \cup {".."}, namex(p, e) PROVE NamesIInv'
  BY <1>3, WalkStep
<1>4. ASSUME NEW p \in Agent, NEW n \in Name, CreateExisting(p, n) PROVE NamesIInv'
  BY <1>4, ExistingStep
<1>5. ASSUME NEW p \in Agent, NEW n \in Name, sys_unlink(p, n) PROVE NamesIInv'
  BY <1>5, UnlinkStep
<1>6. ASSUME NEW p \in Agent, NEW n \in Name, LinkEntry(p, n) PROVE NamesIInv'
  BY <1>6, LinkEntryStep
<1>7. ASSUME NEW p \in Agent, NEW n \in Name, NEW t \in {"dir", "file"}, create(p, t, n) PROVE NamesIInv'
  BY <1>7, CreateStep
<1>8. ASSUME NEW p \in Agent, NEW absolute \in BOOLEAN, BeginCall(p, absolute) PROVE NamesIInv'
  BY <1>8, BeginStep
<1>9. ASSUME NEW p \in Agent, NEW absolute \in BOOLEAN, sys_link(p, absolute) PROVE NamesIInv'
  BY <1>9, LinkStep
<1>10. ASSUME NEW p \in Agent, ilockPanics(p) \/ iput(p) PROVE NamesIInv'
  BY <1>10, PanicStep, PutStep
<1>11. ASSUME NEW p \in Agent, sys_open(p) \/ sys_chdir(p) \/ sys_jail(p) PROVE NamesIInv'
  BY <1>11, OpenStep, ChdirStep, JailStep
<1>12. ASSUME NEW p \in Agent, LinkBad(p) \/ CloseFile(p) \/ ExitAgent(p) PROVE NamesIInv'
  BY <1>12, LinkBadStep, CloseStep, ExitStep
<1>13. ASSUME NEW p \in Agent, NEW q \in Agent, ForkAgent(p, q) PROVE NamesIInv'
  BY <1>13, ForkStep
<1> QED BY <1>1, <1>2, <1>3, <1>4, <1>5, <1>6, <1>7, <1>8, <1>9, <1>10, <1>11, <1>12, <1>13
        DEF NamesNext

(* Between calls no call holds a link, and every pointer has a reference.  *)
LEMMA NamesImplied == NamesIInv => NamesInv
<1> SUFFICES ASSUME NamesIInv PROVE NamesInv
  OBVIOUS
<1> USE InumFacts
<1>1. NamesTypeOK
  <2>1. ASSUME NEW i \in Inum
        PROVE  /\ fs.type[i] \in {"free", "dir", "file"} /\ fs.nlink[i] \in Nat
               /\ fs.up[i] \in Inum /\ \A n \in Name : fs.ent[i][n] \in Linkable
    <3>1. fs.nlink[i] >= 0 /\ fs.nlink[i] \in Int
      BY TreeNow, FsParts DEF TreeInv, LinkInv, LinkOf
    <3> QED BY <3>1, TreeNow, FsParts DEF Types
  <2>2. iref \in [Inum -> Nat]
    <3>1. PICK p \in Agent : TRUE
      BY NamesAssumption
    <3>2. \A j \in Inum : iref[j] \in Nat
      BY <3>1, TreeNow, RefsSome
    <3> QED BY <3>2, FnSame
  <2> QED BY <2>1, <2>2, FnSame DEF NamesTypeOK
<1>2. LinksConsistent
  <2>1. SUFFICES ASSUME Quiet, NEW i \in Inum \ strays, fs.type[i] # "free"
                 PROVE  fs.nlink[i] = Cardinality(Entries(fs, i)) + Cardinality(Subdirs(fs, i))
                                      + (IF i = ROOTINO THEN 1 ELSE 0)
    BY DEF LinksConsistent, NlinkCountsNames
  <2>2. fs.nlink[i] = LinksIn(fs, held, i)
    BY <2>1, TreeNow DEF TreeInv, LinkInv, LinkOf
  <2>3. Holders(held, i) = {}
    BY <2>1, QuietHolds DEF Holders
  <2>4. Cardinality(Holders(held, i)) = 0
    BY <2>3, FS_EmptySet
  <2> QED BY <2>2, <2>4, CountFacts DEF LinksIn
<1>3. UnlinkedFreedUnlessReused
  BY DEF NamesIInv, SlipInv, UnlinkedFreedUnlessReused
<1>4. NamesLeadToInodes
  <2>1. panic # "unlink: nlink < 1"
    BY FnSame
  <2>2. \A i \in Inum, n \in Name :
           fs.type[i] = "dir" /\ fs.ent[i][n] # 0 => fs.type[fs.ent[i][n]] # "free"
    BY TreeNow DEF TreeInv, EntryInv
  <2>3. ASSUME NEW i \in Inum \ (removed \cup strays) PROVE fs.type[fs.up[i]] = "dir"
    <3>1. fs.up[i] = ROOTINO \/ \E n \in Name : fs.ent[fs.up[i]][n] = i
      BY TreeNow DEF TreeInv, UpInv
    <3>2. fs.up[i] \in Inum /\ i # 0
      BY TreeNow, FsParts
    <3> QED BY <3>1, <3>2, TreeNow DEF TreeInv, EntryInv
  <2> QED BY <2>1, <2>2, <2>3 DEF NamesLeadToInodes
<1> QED BY <1>1, <1>2, <1>3, <1>4, TreeNow DEF NamesInv

(* Through every failure of every call of sysfile.c, the race of iput with *)
(* a new reference, and a crash: references and links are counted, names   *)
(* lead to inodes, and no unlinked inode is left behind.                   *)
THEOREM NamesCorrect == NamesSpec => []NamesInv
<1>1. NamesSpec => fsinit /\ [][NamesNext]_namesVars
  BY PTL DEF NamesSpec
<1> QED BY <1>1, NamesInit, NamesStep, NamesImplied, PTL
=============================================================================

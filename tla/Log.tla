--------------------------------- MODULE Log ---------------------------------
(***************************************************************************)
(* The redo log of kernel/log.c over the buffer cache: begin_op admits an  *)
(* operation while its worst case fits, log_write pins the block in the    *)
(* cache, the last end_op commits: log blocks, header, home blocks, header *)
(* cleared, one disk write per step.  The machine may stop between any two *)
(* steps, of the recovery too; memory is lost and initlog runs.            *)
(*                                                                         *)
(* A buffer without a pin may be recycled at any moment (bget); a block    *)
(* not in the cache is read from its home.  Every action but a step of     *)
(* commit or recovery holds log.lock or the sleeplock of its buffer        *)
(* throughout, and operations cannot run during a commit, so each is one   *)
(* step.                                                                   *)
(***************************************************************************)
EXTENDS Integers, Sequences, FiniteSets

CONSTANTS
  Proc, Block, Val,
  NoBuf,       \* the block is not cached
  LOGBLOCKS,
  MAXOPBLOCKS,
  OpBlocks     \* distinct blocks an operation of fs.c really logs

ASSUME LogAssumption ==
  /\ NoBuf \notin Val
  /\ OpBlocks \in Nat /\ MAXOPBLOCKS \in Nat /\ LOGBLOCKS \in Nat
  /\ OpBlocks < MAXOPBLOCKS /\ MAXOPBLOCKS <= LOGBLOCKS

VARIABLES
  home,        \* disk: block -> contents
  logged,      \* disk: the blocks of the log area
  head,        \* disk: the header, the home block of each logged one
  cache,       \* memory: block -> contents, or NoBuf
  pin,         \* memory: references log_write holds
  lh,          \* memory: log.lh
  outstanding, committing,
  op,          \* process -> "out", "asleep" or "ready" in begin_op, "in"
  wrote,       \* process -> blocks its operation has logged
  step,        \* where commit or recovery is
  tail

logdisk == <<home, logged, head>>
logmem  == <<cache, pin, lh, tail>>
logVars == <<home, logged, head, cache, pin, lh, outstanding, committing, op,
             wrote, step, tail>>

Steps == {"none", "write_log", "write_head", "install", "clear",
          "read_head", "reinstall", "reclear"}
Recovering == step \in {"read_head", "reinstall", "reclear"}

(* A fresh image, before initlog.                                          *)
LogInit ==
  /\ home \in {[b \in Block |-> v] : v \in Val}
  /\ logged = [i \in 1 .. LOGBLOCKS |-> CHOOSE v \in Val : TRUE]
  /\ head = << >>
  /\ cache = [b \in Block |-> NoBuf]
  /\ pin = [b \in Block |-> 0]
  /\ lh = << >>
  /\ outstanding = 0
  /\ committing = FALSE
  /\ op = [p \in Proc |-> "out"]
  /\ wrote = [p \in Proc |-> {}]
  /\ step = "read_head"
  /\ tail = 1

(* wakeup(&log): everyone asleep in begin_op looks again.                  *)
WakeOps(state) == [p \in Proc |-> IF state[p] = "asleep" THEN "ready" ELSE state[p]]

HasRoomForOthers == Len(lh) + outstanding * MAXOPBLOCKS <= LOGBLOCKS   \* mutant
HasRoom == Len(lh) + (outstanding + 1) * MAXOPBLOCKS <= LOGBLOCKS

begin_op(p) ==
  /\ ~Recovering
  /\ op[p] \in {"out", "ready"}
  /\ IF committing \/ ~HasRoom
     THEN op' = [op EXCEPT ![p] = "asleep"] /\ UNCHANGED outstanding
     ELSE op' = [op EXCEPT ![p] = "in"] /\ outstanding' = outstanding + 1
  /\ UNCHANGED <<logdisk, logmem, committing, wrote, step>>

(* What bread returns: the cached contents, or the home block's.           *)
Contents(b) == IF cache[b] = NoBuf THEN home[b] ELSE cache[b]

(* Buffers come and go in the cache: bread on a miss, bget on reuse.       *)
Load(b) ==
  /\ ~Recovering
  /\ cache[b] = NoBuf
  /\ cache' = [cache EXCEPT ![b] = home[b]]
  /\ UNCHANGED <<logdisk, pin, lh, outstanding, committing, op, wrote, step, tail>>

RecycleAny(b) ==                                                \* mutant
  /\ cache[b] # NoBuf
  /\ cache' = [cache EXCEPT ![b] = NoBuf]
  /\ UNCHANGED <<logdisk, pin, lh, outstanding, committing, op, wrote, step, tail>>
Recycle(b) ==
  /\ cache[b] # NoBuf
  /\ pin[b] = 0
  /\ cache' = [cache EXCEPT ![b] = NoBuf]
  /\ UNCHANGED <<logdisk, pin, lh, outstanding, committing, op, wrote, step, tail>>

Absorbed(b) == \E i \in DOMAIN lh : lh[i] = b

(* bread, a change of the contents and log_write; log_write panics when    *)
(* the header is full.                                                     *)
log_write(p, b, v) ==
  /\ op[p] = "in"
  /\ Cardinality(wrote[p] \cup {b}) <= OpBlocks
  /\ Len(lh) < LOGBLOCKS
  /\ cache' = [cache EXCEPT ![b] = v]
  /\ wrote' = [wrote EXCEPT ![p] = @ \cup {b}]
  /\ IF Absorbed(b)
     THEN UNCHANGED <<lh, pin>>
     ELSE lh' = Append(lh, b) /\ pin' = [pin EXCEPT ![b] = @ + 1]
  /\ UNCHANGED <<logdisk, outstanding, committing, op, step, tail>>

end_op(p) ==
  /\ op[p] = "in"
  /\ outstanding' = outstanding - 1
  /\ wrote' = [wrote EXCEPT ![p] = {}]
  /\ tail' = 1
  /\ IF outstanding = 1
     THEN /\ committing' = TRUE
          /\ step' = IF lh = << >> THEN "none" ELSE "write_log"
          /\ op' = [op EXCEPT ![p] = "out"]
     ELSE /\ op' = WakeOps([op EXCEPT ![p] = "out"])
          /\ UNCHANGED <<committing, step>>
  /\ UNCHANGED <<logdisk, cache, pin, lh>>

-----------------------------------------------------------------------------
(* commit(), without log.lock, and the end of end_op.                      *)
write_log ==
  /\ step = "write_log"
  /\ IF tail <= Len(lh)
     THEN /\ logged' = [logged EXCEPT ![tail] = Contents(lh[tail])]
          /\ tail' = tail + 1
          /\ UNCHANGED step
     ELSE step' = "write_head" /\ tail' = 1 /\ UNCHANGED logged
  /\ UNCHANGED <<home, head, cache, pin, lh, outstanding, committing, op, wrote>>

(* write_head: the header is one block, written at once.                   *)
write_head ==
  /\ step \in {"write_head", "clear", "reclear"}
  /\ head' = lh
  /\ step' = IF step = "write_head" THEN "install" ELSE "none"
  /\ UNCHANGED <<home, logged, cache, pin, lh, outstanding, committing, op,
                 wrote, tail>>

(* bunpin: a commit gives up the pin of the block it installs.             *)
Unpin(b) == IF step = "install" THEN [pin EXCEPT ![b] = @ - 1] ELSE pin

(* install_trans(recovering): the log block is copied into the cached home *)
(* block, which is written; a commit then gives up its pin.  At the end    *)
(* log.lh.n = 0.                                                           *)
install_trans ==
  /\ step \in {"install", "reinstall"}
  /\ IF tail <= Len(lh)
     THEN /\ home' = [home EXCEPT ![lh[tail]] = logged[tail]]
          /\ cache' = [cache EXCEPT ![lh[tail]] = logged[tail]]
          /\ pin' = Unpin(lh[tail])
          /\ tail' = tail + 1
          /\ UNCHANGED <<lh, step>>
     ELSE /\ lh' = << >>
          /\ tail' = 1
          /\ step' = IF step = "install" THEN "clear" ELSE "reclear"
          /\ UNCHANGED <<home, cache, pin>>
  /\ UNCHANGED <<logged, head, outstanding, committing, op, wrote>>

Committed ==
  /\ committing
  /\ step = "none"
  /\ committing' = FALSE
  /\ op' = WakeOps(op)
  /\ UNCHANGED <<logdisk, logmem, outstanding, wrote, step>>

(* The machine stops and restarts: memory is gone, initlog runs.           *)
StopMachine ==
  /\ cache' = [b \in Block |-> NoBuf]
  /\ pin' = [b \in Block |-> 0]
  /\ lh' = << >>
  /\ outstanding' = 0
  /\ committing' = FALSE
  /\ op' = [p \in Proc |-> "out"]
  /\ wrote' = [p \in Proc |-> {}]
  /\ step' = "read_head"
  /\ tail' = 1
  /\ UNCHANGED logdisk

read_head ==
  /\ step = "read_head"
  /\ lh' = head
  /\ step' = "reinstall"
  /\ UNCHANGED <<logdisk, cache, pin, outstanding, committing, op, wrote, tail>>

LogNext ==
  \/ \E p \in Proc : begin_op(p) \/ end_op(p)
  \/ \E p \in Proc, b \in Block, v \in Val : log_write(p, b, v)
  \/ \E b \in Block : Load(b) \/ Recycle(b)
  \/ write_log \/ write_head \/ install_trans \/ Committed
  \/ StopMachine \/ read_head

LogSpec == LogInit /\ [][LogNext]_logVars

-----------------------------------------------------------------------------
(* Types; recovery releases no pin it does not hold, and commit and        *)
(* recovery stay inside the log area (tail).                               *)
LogTypeOK ==
  /\ home \in [Block -> Val]
  /\ logged \in [1 .. LOGBLOCKS -> Val]
  /\ head \in Seq(Block) /\ lh \in Seq(Block)
  /\ cache \in [Block -> Val \cup {NoBuf}]
  /\ pin \in [Block -> Nat]
  /\ outstanding \in Nat /\ committing \in BOOLEAN
  /\ op \in [Proc -> {"out", "asleep", "ready", "in"}]
  /\ wrote \in [Proc -> SUBSET Block]
  /\ step \in Steps /\ tail \in 1 .. LOGBLOCKS + 1

Inside == {p \in Proc : op[p] = "in"}

(* The blocks that the operations inside may still log, one pair each: an  *)
(* operation that has logged k of its MAXOPBLOCKS has k + 1 .. MAXOPBLOCKS *)
(* to come.                                                                *)
Reserved ==
  {r \in Inside \X (1 .. MAXOPBLOCKS) : r[2] > Cardinality(wrote[r[1]])}

(* The log has room for all that the operations under way may still write, *)
(* whatever was logged since begin_op let them in, so log_write never      *)
(* panics with "too big a transaction" (an operation keeps to fewer than   *)
(* MAXOPBLOCKS blocks).                                                    *)
LogNeverFull == Len(lh) + Cardinality(Reserved) <= LOGBLOCKS

(* A process asleep in begin_op is always owed a wakeup, by the commit     *)
(* under way or by an operation that has yet to end.                       *)
SleeperIsOwedWakeup ==
  (\E p \in Proc : op[p] = "asleep") => committing \/ outstanding > 0

(* What a restart would find: the home blocks, with the log over them when *)
(* the header names any.                                                   *)
Durable ==
  [b \in Block |->
     IF \E i \in DOMAIN head : head[i] = b
     THEN logged[CHOOSE i \in DOMAIN head : head[i] = b]
     ELSE home[b]]

(* What bread returns now.                                                 *)
Seen ==
  IF Recovering THEN Durable
  ELSE [b \in Block |-> Contents(b)]

Abstract == INSTANCE AtomicDisk WITH
  durable <- Durable, seen <- Seen, open <- Inside

(* The log implements the atomic disk: whatever order commits, recycled    *)
(* buffers and crashes (of a recovery too) come in, operations are durable *)
(* all together or not at all, and readers always see the last write.      *)
ImplementsAtomicDisk == Abstract!AtomicSpec

(* What the log keeps through group commit, crash and recovery: its types, *)
(* room for every block the outstanding operations may still write         *)
(* (log.c:134), and a wakeup to come for every operation begin_op turned   *)
(* away (log.c:158).                                                       *)
LogInv == LogTypeOK /\ LogNeverFull /\ SleeperIsOwedWakeup
=============================================================================

----------------------------- MODULE AtomicDisk -----------------------------
(***************************************************************************)
(* What the log of kernel/log.c promises the file system: the blocks       *)
(* change on disk only between operations, all the writes of a group of    *)
(* operations at once, and a crash loses a group whole or not at all.      *)
(***************************************************************************)
CONSTANTS Block, Val, Proc
VARIABLES
  durable,   \* block -> contents a restart would find
  seen,      \* block -> contents an operation reads now
  open       \* the processes inside begin_op .. end_op

AtomicInit ==
  /\ durable \in [Block -> Val]
  /\ seen = durable
  /\ open = {}

Begin(p) == p \notin open /\ open' = open \cup {p} /\ UNCHANGED <<durable, seen>>

Write(p, b, v) ==
  /\ p \in open
  /\ seen' = [seen EXCEPT ![b] = v]
  /\ UNCHANGED <<durable, open>>

End(p) == p \in open /\ open' = open \ {p} /\ UNCHANGED <<durable, seen>>

(* The group commits: only while no operation is open.                     *)
Commit == open = {} /\ durable' = seen /\ UNCHANGED <<seen, open>>

Crash == seen' = durable /\ open' = {} /\ UNCHANGED durable

AtomicNext ==
  \/ Commit \/ Crash
  \/ \E p \in Proc : Begin(p) \/ End(p)
  \/ \E p \in Proc, b \in Block, v \in Val : Write(p, b, v)

AtomicSpec == AtomicInit /\ [][AtomicNext]_<<durable, seen, open>>
=============================================================================

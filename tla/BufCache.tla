------------------------------ MODULE BufCache ------------------------------
(***************************************************************************)
(* The buffer cache of kernel/bio.c with the sleeplocks of                 *)
(* kernel/sleeplock.c.  Users read a block (bread), may change and write   *)
(* it (bwrite), and release it (brelse); recycled buffers, waiting users   *)
(* and transfers interleave freely.  virtio_disk_rw is its promise: the    *)
(* transfer takes place while the caller sleeps (module VirtioDisk).       *)
(*                                                                         *)
(* Steps under bcache.lock or a sleeplock's inner lock are single actions. *)
(***************************************************************************)
EXTENDS Integers, FiniteSetsExt

CONSTANTS
  User,          \* processes
  Sector,        \* blocks of the disk
  Data,          \* contents of a block
  NBUF,
  NoUser, NoSector

ASSUME BufAssumption ==
  NBUF \in Nat \ {0} /\ NoUser \notin User /\ NoSector \notin Sector /\ Data # {}

VARIABLES
  buf,           \* buffer -> [blockno, valid, refcnt, data]
  lru,           \* the buffers, least recently used first
  owner,         \* buffer -> the user holding its sleeplock
  platter,       \* block -> contents on the disk
  stage, mine,   \* user -> where it is, and the buffer it works on
  newest         \* history: the last contents given to each block

bufVars == <<buf, lru, owner, platter, stage, mine, newest>>

Buffer == 1 .. NBUF
Zero   == CHOOSE v \in Data : TRUE

binit ==
  /\ buf = [i \in Buffer |-> [blockno |-> NoSector, valid |-> FALSE,
                              refcnt |-> 0, data |-> Zero]]
  /\ lru = [n \in Buffer |-> n]
  /\ owner = [i \in Buffer |-> NoUser]
  /\ platter = [b \in Sector |-> Zero]
  /\ stage = [u \in User |-> "idle"]
  /\ mine = [u \in User |-> 1]
  /\ newest = platter

Go(u, label) == stage' = [stage EXCEPT ![u] = label]

(* bget, under bcache.lock: the buffer of the block, else the least        *)
(* recently used one nobody refers to.                                     *)
NeverCached(b) == {}                                            \* mutant
CachedIn(b) == {i \in Buffer : buf[i].blockno = b}
Victim == lru[Min({n \in Buffer : buf[lru[n]].refcnt = 0})]

bget(u, b) ==
  /\ stage[u] = "idle"
  /\ \/ \E i \in CachedIn(b) :
          /\ buf' = [buf EXCEPT ![i].refcnt = @ + 1]
          /\ mine' = [mine EXCEPT ![u] = i]
     \/ /\ CachedIn(b) = {}
        /\ \E i \in Buffer : buf[i].refcnt = 0    \* else panic
        /\ buf' = [buf EXCEPT ![Victim] =
                     [blockno |-> b, valid |-> FALSE, refcnt |-> 1, data |-> @.data]]
        /\ mine' = [mine EXCEPT ![u] = Victim]
  /\ Go(u, "acquiresleep")
  /\ UNCHANGED <<lru, owner, platter, newest>>

acquiresleep(u) ==
  /\ stage[u] = "acquiresleep"
  /\ IF owner[mine[u]] = NoUser
     THEN owner' = [owner EXCEPT ![mine[u]] = u] /\ Go(u, "bread")
     ELSE Go(u, "asleep") /\ UNCHANGED owner
  /\ UNCHANGED <<buf, lru, platter, mine, newest>>

(* bread, with the buffer locked.                                          *)
bread(u) ==
  /\ stage[u] = "bread"
  /\ Go(u, IF buf[mine[u]].valid THEN "held" ELSE "reading")
  /\ UNCHANGED <<buf, lru, owner, platter, mine, newest>>

(* The caller changes the contents and calls bwrite.                       *)
bwrite(u, v) ==
  /\ stage[u] = "held"
  /\ buf' = [buf EXCEPT ![mine[u]].data = v]
  /\ newest' = [newest EXCEPT ![buf[mine[u]].blockno] = v]
  /\ Go(u, "writing")
  /\ UNCHANGED <<lru, owner, platter, mine>>

(* virtio_disk_rw(b, write), and bread sets valid.                         *)
Transfer(u) ==
  LET i == mine[u] IN
  /\ \/ /\ stage[u] = "reading"
        /\ buf' = [buf EXCEPT ![i].data = platter[buf[i].blockno], ![i].valid = TRUE]
        /\ UNCHANGED platter
     \/ /\ stage[u] = "writing"
        /\ platter' = [platter EXCEPT ![buf[i].blockno] = buf[i].data]
        /\ UNCHANGED buf
  /\ Go(u, "held")
  /\ UNCHANGED <<lru, owner, mine, newest>>

(* brelse: releasesleep wakes the waiters, and then the reference goes     *)
(* under bcache.lock.                                                      *)
releasesleep(u) ==
  /\ stage[u] = "held"
  /\ owner' = [owner EXCEPT ![mine[u]] = NoUser]
  /\ stage' = [w \in User |->
              CASE w = u -> "brelse"
                [] stage[w] = "asleep" /\ mine[w] = mine[u] -> "acquiresleep"
                [] OTHER -> stage[w]]
  /\ UNCHANGED <<buf, lru, platter, mine, newest>>

(* The list with buffer i moved to its head, the most recently used end.   *)
UsedLast(i) ==
  LET at == CHOOSE n \in Buffer : lru[n] = i
  IN  [n \in Buffer |-> IF n = NBUF THEN i ELSE IF n < at THEN lru[n] ELSE lru[n + 1]]

brelse(u) ==
  LET i == mine[u] IN
  /\ stage[u] = "brelse"
  /\ buf' = [buf EXCEPT ![i].refcnt = @ - 1]
  /\ lru' = IF buf[i].refcnt = 1 THEN UsedLast(i) ELSE lru
  /\ Go(u, "idle")
  /\ UNCHANGED <<owner, platter, mine, newest>>

BufNext ==
  \/ \E u \in User, b \in Sector : bget(u, b)
  \/ \E u \in User, v \in Data : bwrite(u, v)
  \/ \E u \in User :
       acquiresleep(u) \/ bread(u) \/ Transfer(u) \/ releasesleep(u) \/ brelse(u)

BufSpec == binit /\ [][BufNext]_bufVars

-----------------------------------------------------------------------------
(* Types; no reference count of a buffer goes below zero.                  *)
BufTypeOK ==
  /\ buf \in [Buffer -> [blockno : Sector \cup {NoSector}, valid : BOOLEAN,
                         refcnt : Nat, data : Data]]
  /\ lru \in [Buffer -> Buffer]
  /\ owner \in [Buffer -> User \cup {NoUser}]
  /\ platter \in [Sector -> Data] /\ newest \in [Sector -> Data]
  /\ stage \in [User -> {"idle", "acquiresleep", "asleep", "bread", "reading",
                      "writing", "held", "brelse"}]
  /\ mine \in [User -> Buffer]

(* bget: a block is never in two buffers, whoever races to load it.        *)
OneBufferPerBlock ==
  \A i, j \in Buffer :
    i # j /\ buf[i].blockno # NoSector => buf[i].blockno # buf[j].blockno

(* A user that bread has returned to works on its block alone, and on the  *)
(* block's last contents: no buffer is recycled, reloaded or handed over   *)
(* under it.                                                               *)
HeldIsCurrent ==
  \A u \in User : stage[u] = "held" =>
    /\ owner[mine[u]] = u
    /\ buf[mine[u]].data = newest[buf[mine[u]].blockno]

(* A user asleep on a sleeplock has a holder to wake it: acquiresleep and  *)
(* releasesleep lose no wakeup.                                            *)
LockSleeperHasHolder == \A u \in User : stage[u] = "asleep" => owner[mine[u]] # NoUser

(* What bio.c keeps while users read, wait, write and recycle: a block has *)
(* one buffer, its holder sees the current contents, and a user asleep on  *)
(* a sleeplock has a holder to wake it.                                    *)
BufInv == BufTypeOK /\ OneBufferPerBlock /\ HeldIsCurrent /\ LockSleeperHasHolder
=============================================================================

-------------------------------- MODULE Cache --------------------------------
(***************************************************************************)
(* The LLM response cache of kernel/cache.c: a table of CACHE_SLOTS        *)
(* entries in RAM under cache_lock, and the append-only file /cache.bin    *)
(* under the sleeplock disk_io_lock.  cache_set evicts the least recently  *)
(* used entry to the file, after it has released cache_lock; cache_get     *)
(* looks in RAM, then in the file, then for a similar key in RAM.          *)
(*                                                                         *)
(* A key stands for its 64-bit hash.  A value is the number of the set     *)
(* that stored it.  The file is looked up in the caller's root directory,  *)
(* so that jailed and free callers have a file each.                       *)
(*                                                                         *)
(* disk_scan reads the file in steps of a whole record from offset 0,      *)
(* disk_append writes at the end, wherever that is: a write cut short by a *)
(* full disk puts every later record out of step.  A piece of the file     *)
(* therefore has its offset and length.  A scan that meets the middle of a *)
(* record finds text there, taken to be the hash of no key.                *)
(***************************************************************************)
EXTENDS Integers, Sequences

CONSTANTS
  Procs,       \* contexts that call the cache
  Keys, NoKey, \* NoKey marks an empty slot (hash 0)
  Roots,       \* root directories in use
  RootOf,      \* the root directory of each caller
  CACHE_SLOTS,
  RecSize,     \* sizeof(rec_buf), in the units at which a write may stop
  DiskMax,     \* what fits the file, in the same units
  Signed,      \* keys with enough content words for a signature
  Score,       \* Score[k][m]: components in which the signatures agree
  Threshold,   \* the least score of a semantic hit
  MaxSets,     \* bound: number of cache_set calls
  MaxTicks,    \* bound: clock ticks
  MaxBoots     \* bound: reboots

ASSUME CacheAssumption ==
  /\ NoKey \notin Keys
  /\ RootOf \in [Procs -> Roots]
  /\ CACHE_SLOTS \in Nat \ {0} /\ RecSize \in Nat \ {0} /\ DiskMax \in Nat
  /\ Signed \subseteq Keys
  /\ Score \in [Keys -> [Keys -> Nat]]
  /\ Threshold \in Nat /\ MaxSets \in Nat /\ MaxTicks \in Nat /\ MaxBoots \in Nat

VARIABLES
  cache_ram,    \* slot -> [hash, val, last_access, has_sig]
  disk,         \* root -> pieces of its file [hash, val, at, len]
  disk_io_lock, \* the holder, or "free"
  ticks,
  pc,           \* where each caller is
  arg,          \* the key it looks up
  rec,          \* the record it evicts, or has read from the file
  sets, boots,  \* bounds
  latest,       \* history: the last value set under each key in this boot, or 0
  lost,         \* history: values disk_append did not store where disk_scan looks
  fresh,        \* history: keys of which the last set found no record on file
  stale         \* history: an exact lookup of such a key got an older value

ram  == <<cache_ram, ticks>>
hist == <<latest, lost, fresh>>
vars == <<cache_ram, disk, disk_io_lock, ticks, pc, arg, rec, sets, boots,
          latest, lost, fresh, stale>>

Slots  == 0 .. CACHE_SLOTS - 1
NoRec  == [hash |-> NoKey, val |-> 0]
Empty  == [hash |-> NoKey, val |-> 0, last_access |-> 0, has_sig |-> FALSE]

Init ==
  /\ cache_ram = [i \in Slots |-> Empty]
  /\ disk = [d \in Roots |-> << >>]
  /\ disk_io_lock = "free"
  /\ ticks = 0
  /\ pc = [p \in Procs |-> "idle"]
  /\ arg = [p \in Procs |-> NoKey]
  /\ rec = [p \in Procs |-> NoRec]
  /\ sets = 0
  /\ boots = 0
  /\ latest = [k \in Keys |-> 0]
  /\ lost = {}
  /\ fresh = {}
  /\ stale = FALSE

Goto(p, label) == pc' = [pc EXCEPT ![p] = label]

(* The slots with this hash; ram_find returns the first of them.           *)
Holding(table, k) == {i \in Slots : table[i].hash = k}
First(S) == CHOOSE i \in S : \A j \in S : i <= j

-----------------------------------------------------------------------------
(* The first slot with the smallest last_access.                           *)
Lru == First({i \in Slots : \A j \in Slots :
                cache_ram[i].last_access <= cache_ram[j].last_access})

(* Mutant: the key is not looked for before a free slot is taken.          *)
SetSlotFree(k) == IF Holding(cache_ram, NoKey) # {}
                  THEN First(Holding(cache_ram, NoKey)) ELSE Lru

(* cache_set picks the slot of the key, else a free one, else the LRU one. *)
SetSlot(k) ==
  CASE Holding(cache_ram, k) # {}     -> First(Holding(cache_ram, k))
    [] Holding(cache_ram, k) = {} /\ Holding(cache_ram, NoKey) # {}
                                      -> First(Holding(cache_ram, NoKey))
    [] OTHER                          -> Lru

Evicts(k) == Holding(cache_ram, k) = {} /\ Holding(cache_ram, NoKey) = {}

(* History: the value set, and whether any record of the key is on file or *)
(* in the hands of a caller.                                               *)
Recorded(k) == \/ \E d \in Roots : \E n \in DOMAIN disk[d] : disk[d][n].hash = k
               \/ \E p \in Procs : rec[p].hash = k
Remember(k) ==
  /\ latest' = [latest EXCEPT ![k] = sets']
  /\ fresh' = IF Recorded(k) THEN fresh \ {k} ELSE fresh \cup {k}

(* cache_set, under cache_lock: write the slot, keep what it held ...      *)
CacheSet(p, k) ==
  LET i == SetSlot(k) IN
  /\ pc[p] = "idle"
  /\ sets < MaxSets
  /\ sets' = sets + 1
  /\ rec' = [rec EXCEPT ![p] = IF Evicts(k)
                               THEN [hash |-> cache_ram[i].hash, val |-> cache_ram[i].val]
                               ELSE NoRec]
  /\ cache_ram' = [cache_ram EXCEPT ![i] = [hash |-> k, val |-> sets',
                                            last_access |-> ticks,
                                            has_sig |-> k \in Signed]]
  /\ Goto(p, IF Evicts(k) THEN "append" ELSE "idle")
  /\ Remember(k)
  /\ UNCHANGED <<disk, disk_io_lock, ticks, arg, boots, lost, stale>>

(* ip->size of a file, and the piece a write of n units leaves at its end. *)
Size(file) == IF file = << >> THEN 0
              ELSE file[Len(file)].at + file[Len(file)].len
Piece(p, n) == [hash |-> rec[p].hash, val |-> rec[p].val,
                at |-> Size(disk[RootOf[p]]), len |-> n]
InStep(n) == n % RecSize = 0

(* disk_append under disk_io_lock, in one log transaction, is over; what   *)
(* it returns is not looked at.                                            *)
AppendReturns(p, stored) ==
  /\ pc[p] = "append"
  /\ disk_io_lock = "free"
  /\ lost' = IF stored THEN lost ELSE lost \cup {rec[p].val}
  /\ rec' = [rec EXCEPT ![p] = NoRec]
  /\ Goto(p, "idle")
  /\ UNCHANGED <<ram, disk_io_lock, arg, sets, boots, latest, fresh, stale>>

(* ... then disk_append it.  The record is where disk_scan looks for one   *)
(* if the file was in step ...                                             *)
DiskAppend(p) ==
  /\ Size(disk[RootOf[p]]) + RecSize <= DiskMax
  /\ disk' = [disk EXCEPT ![RootOf[p]] = Append(@, Piece(p, RecSize))]
  /\ AppendReturns(p, InStep(Size(disk[RootOf[p]])))

(* ... or it is refused: create() fails, the file is at its limit, or      *)
(* writei gets no block at all ...                                         *)
AppendRefused(p) ==
  /\ AppendReturns(p, FALSE)
  /\ UNCHANGED disk

(* ... or writei, out of blocks in the middle, writes the first n units.   *)
AppendShort(p, n) ==
  /\ Size(disk[RootOf[p]]) + RecSize <= DiskMax
  /\ disk' = [disk EXCEPT ![RootOf[p]] = Append(@, Piece(p, n))]
  /\ AppendReturns(p, FALSE)

-----------------------------------------------------------------------------
(* A lookup returns a value, or 0 for a miss, for the very key or not.     *)
Return(p, v, exact) ==
  /\ Goto(p, "idle")
  /\ stale' = (stale \/ (/\ exact /\ arg[p] \in fresh
                         /\ v # latest[arg[p]] /\ latest[arg[p]] \notin lost))
  /\ arg' = [arg EXCEPT ![p] = NoKey]
  /\ rec' = [rec EXCEPT ![p] = NoRec]

(* cache_get and cache_get_exact are called with a key.                    *)
CacheGet(p, k) ==
  /\ pc[p] = "idle"
  /\ Goto(p, "find")
  /\ arg' = [arg EXCEPT ![p] = k]
  /\ UNCHANGED <<ram, disk, disk_io_lock, rec, sets, boots, hist, stale>>

(* cache_get_exact: a hit in RAM touches the entry.                        *)
RamHit(p) ==
  LET i == First(Holding(cache_ram, arg[p])) IN
  /\ pc[p] = "find"
  /\ Holding(cache_ram, arg[p]) # {}
  /\ cache_ram' = [cache_ram EXCEPT ![i].last_access = ticks]
  /\ Return(p, cache_ram[i].val, TRUE)
  /\ UNCHANGED <<disk, disk_io_lock, ticks, sets, boots, hist>>

RamMiss(p) ==
  /\ pc[p] = "find"
  /\ Holding(cache_ram, arg[p]) = {}
  /\ Goto(p, "scan")
  /\ UNCHANGED <<ram, disk, disk_io_lock, arg, rec, sets, boots, hist, stale>>

(* disk_scan under disk_io_lock returns the first record of the key it     *)
(* comes upon.  Of a record cut short it reads the rest out of the next    *)
(* piece: the value of a long one is mixed up.                             *)
Records(p) ==
  LET file == disk[RootOf[p]] IN
  {n \in DOMAIN file : /\ file[n].hash = arg[p]
                       /\ InStep(file[n].at)
                       /\ file[n].at + RecSize <= Size(file)}
Mixed == -1
ReadAs(piece) == IF piece.len = RecSize THEN {piece.val} ELSE {piece.val, Mixed}

DiskHit(p) ==
  /\ pc[p] = "scan"
  /\ disk_io_lock = "free"
  /\ Records(p) # {}
  /\ disk_io_lock' = p
  /\ \E v \in ReadAs(disk[RootOf[p]][First(Records(p))]) :
       rec' = [rec EXCEPT ![p] = [hash |-> arg[p], val |-> v]]
  /\ Goto(p, "promote")
  /\ UNCHANGED <<ram, disk, arg, sets, boots, hist, stale>>

DiskMiss(p) ==
  /\ pc[p] = "scan"
  /\ disk_io_lock = "free"
  /\ Records(p) = {}
  /\ Goto(p, "semantic")
  /\ UNCHANGED <<ram, disk, disk_io_lock, arg, rec, sets, boots, hist, stale>>

(* What promote leaves in RAM, given whether it may take a free slot.      *)
Promoted(p, may) ==
  IF may /\ Holding(cache_ram, NoKey) # {}
  THEN [cache_ram EXCEPT ![First(Holding(cache_ram, NoKey))] =
          [hash |-> arg[p], val |-> rec[p].val, last_access |-> ticks,
           has_sig |-> FALSE]]
  ELSE cache_ram

(* Mutant: RAM is not searched again before the promotion.                 *)
PromoteUnchecked(p) ==
  /\ pc[p] = "promote"
  /\ cache_ram' = Promoted(p, TRUE)
  /\ disk_io_lock' = "free"
  /\ Return(p, rec[p].val, TRUE)
  /\ UNCHANGED <<disk, ticks, sets, boots, hist>>

(* ... and it is promoted into a free slot of RAM, if there is one and the *)
(* key has not come back meanwhile.                                        *)
Promote(p) ==
  /\ pc[p] = "promote"
  /\ cache_ram' = Promoted(p, Holding(cache_ram, arg[p]) = {})
  /\ disk_io_lock' = "free"
  /\ Return(p, rec[p].val, TRUE)
  /\ UNCHANGED <<disk, ticks, sets, boots, hist>>

(* cache_get_semantic: the signed entry with the best score, the later     *)
(* last_access and the first slot deciding ties.                           *)
Candidates == {i \in Slots : cache_ram[i].hash # NoKey /\ cache_ram[i].has_sig}
Beats(k, i, j) ==
  LET si == Score[k][cache_ram[i].hash]
      sj == Score[k][cache_ram[j].hash]
      ti == cache_ram[i].last_access
      tj == cache_ram[j].last_access
  IN si > sj \/ (si = sj /\ (ti > tj \/ (ti = tj /\ i <= j)))
Similar(k) == {i \in Candidates : /\ \A j \in Candidates : Beats(k, i, j)
                                  /\ Score[k][cache_ram[i].hash] >= Threshold}

SemanticHit(p) ==
  /\ pc[p] = "semantic"
  /\ arg[p] \in Signed
  /\ \E i \in Similar(arg[p]) :
       /\ cache_ram' = [cache_ram EXCEPT ![i].last_access = ticks]
       /\ Return(p, cache_ram[i].val, FALSE)
  /\ UNCHANGED <<disk, disk_io_lock, ticks, sets, boots, hist>>

SemanticMiss(p) ==
  /\ pc[p] = "semantic"
  /\ arg[p] \in Signed => Similar(arg[p]) = {}
  /\ Return(p, 0, FALSE)
  /\ UNCHANGED <<ram, disk, disk_io_lock, sets, boots, hist>>

-----------------------------------------------------------------------------
Tick ==
  /\ ticks < MaxTicks
  /\ ticks' = ticks + 1
  /\ UNCHANGED <<cache_ram, disk, disk_io_lock, pc, arg, rec, sets, boots, hist, stale>>

(* The machine restarts: the file is all that is left.                     *)
Reboot ==
  /\ boots < MaxBoots
  /\ boots' = boots + 1
  /\ cache_ram' = [i \in Slots |-> Empty]
  /\ disk_io_lock' = "free"
  /\ ticks' = 0
  /\ pc' = [p \in Procs |-> "idle"]
  /\ arg' = [p \in Procs |-> NoKey]
  /\ rec' = [p \in Procs |-> NoRec]
  /\ latest' = [k \in Keys |-> 0]
  /\ fresh' = {}
  /\ UNCHANGED <<disk, sets, lost, stale>>

Step(p) ==
  \/ \E k \in Keys : CacheSet(p, k) \/ CacheGet(p, k)
  \/ DiskAppend(p) \/ AppendRefused(p) \/ \E n \in 1 .. RecSize - 1 : AppendShort(p, n)
  \/ RamHit(p) \/ RamMiss(p) \/ DiskHit(p) \/ DiskMiss(p)
  \/ Promote(p) \/ SemanticHit(p) \/ SemanticMiss(p)

Next == (\E p \in Procs : Step(p)) \/ Tick \/ Reboot

Spec == Init /\ [][Next]_vars

-----------------------------------------------------------------------------
Values == -1 .. MaxSets
Record == [hash : Keys, val : Values]
Pieces == [hash : Keys, val : Values, at : Nat, len : 1 .. RecSize]

(* Types of the table, the files and the callers.                          *)
TypeOK ==
  /\ cache_ram \in [Slots -> [hash : Keys \cup {NoKey}, val : Values,
                              last_access : 0 .. MaxTicks, has_sig : BOOLEAN]]
  /\ \A d \in Roots : disk[d] \in Seq(Pieces) /\ Size(disk[d]) <= DiskMax
  /\ disk_io_lock \in Procs \cup {"free"}
  /\ pc \in [Procs -> {"idle", "append", "find", "scan", "promote", "semantic"}]
  /\ arg \in [Procs -> Keys \cup {NoKey}]
  /\ rec \in [Procs -> Record \cup {NoRec}]
  /\ latest \in [Keys -> Values]
  /\ lost \subseteq Values
  /\ fresh \subseteq Keys

(* A key is in at most one slot of RAM, although a lookup promotes what it *)
(* read before another caller's set of the same key.                       *)
OneSlotPerKey ==
  \A i, j \in Slots :
    cache_ram[i].hash = cache_ram[j].hash /\ cache_ram[i].hash # NoKey => i = j

(* RAM never goes back in time: what it holds for a key that was set since *)
(* the boot is the last value set, whatever older records the file has and *)
(* whenever they were read for a promotion.                                *)
RamIsLatest ==
  \A i \in Slots, k \in Keys :
    cache_ram[i].hash = k /\ latest[k] # 0 => cache_ram[i].val = latest[k]

(* A record that disk_scan finds and reads as it was written.              *)
Readable(piece) == piece.len = RecSize /\ InStep(piece.at)

(* The last value set under a key is where a lookup finds it, evictions    *)
(* included: in RAM, in a record that is whole and in step, with a caller  *)
(* about to append it; or it was lost in one of three ways that are known: *)
(* its append was refused, cut short, or came behind one cut short.        *)
SetIsKept ==
  \A k \in Keys :
    \/ latest[k] \in lost \cup {0}
    \/ \E i \in Slots : cache_ram[i].val = latest[k]
    \/ \E d \in Roots : \E n \in DOMAIN disk[d] :
         disk[d][n].val = latest[k] /\ Readable(disk[d][n])
    \/ \E p \in Procs : pc[p] = "append" /\ rec[p].val = latest[k]

(* What cache_test.c checks of an overwritten key, in RAM and after its    *)
(* eviction, for every interleaving of lookups, sets, evictions and        *)
(* reboots: a key overwritten before any record of it went to the file     *)
(* reads back as the value set last, unless disk_append lost that value.   *)
(* (A record cut short reads back mixed up, and of several records         *)
(* disk_scan finds the oldest.)                                            *)
LastSetWins == ~stale

(* What cache.c keeps while callers set, evict, append and promote: a key  *)
(* has one slot, RAM holds its latest value, and the last value set can    *)
(* be found or was lost by an append that failed.                          *)
CacheInv == TypeOK /\ OneSlotPerKey /\ RamIsLatest /\ SetIsKept
=============================================================================

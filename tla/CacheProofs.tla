----------------------------- MODULE CacheProofs -----------------------------
(***************************************************************************)
(* Proofs about the response cache of cache.c, for any number of callers,  *)
(* keys, slots and files: a key has one slot, RAM holds the value set      *)
(* last, that value can be found or its append failed, and a key of which  *)
(* no record went to the file before its last set reads back as that set's *)
(* value; for any record size and any unit at which a write may stop.      *)
(***************************************************************************)
EXTENDS Cache, WellFoundedInduction, TLAPS

Entries == [hash : Keys \cup {NoKey}, val : Values,
            last_access : 0 .. MaxTicks, has_sig : BOOLEAN]
Looking == {"find", "scan", "promote", "semantic"}

-----------------------------------------------------------------------------
(* The inductive invariant, in parts.                                      *)
Counters == sets \in 0 .. MaxSets /\ ticks \in 0 .. MaxTicks /\ disk \in [Roots -> Seq(Pieces)]

(* What a caller holds where: a key while it looks one up, a record while  *)
(* it evicts one or has just read one, of the key it looks for.            *)
CallerInv ==
  \A p \in Procs :
    /\ pc[p] \in Looking => arg[p] \in Keys
    /\ pc[p] \in {"append", "promote"} => rec[p] \in Record
    /\ pc[p] = "promote" => rec[p].hash = arg[p]

(* No slot becomes free again before the next boot: while one is, nothing  *)
(* was evicted, and every key set in this boot is in RAM.                  *)
RoomInv ==
  Holding(cache_ram, NoKey) # {} =>
    \A k \in Keys : latest[k] # 0 => Holding(cache_ram, k) # {}

(* SetIsKept with the slot named by the key.                               *)
KeptInv ==
  \A k \in Keys :
    \/ latest[k] \in lost \cup {0}
    \/ \E i \in Slots : cache_ram[i].hash = k /\ cache_ram[i].val = latest[k]
    \/ \E d \in Roots : \E n \in DOMAIN disk[d] : disk[d][n].val = latest[k] /\ Readable(disk[d][n])
    \/ \E p \in Procs : pc[p] = "append" /\ rec[p].val = latest[k]

(* A record of a fresh key, on file or on its way there, is of its last    *)
(* set, and what disk_scan read of it too, unless disk_append lost it.     *)
FreshInv ==
  \A k \in fresh :
    /\ latest[k] # 0
    /\ \A d \in Roots : \A n \in DOMAIN disk[d] : disk[d][n].hash = k =>
         disk[d][n].val = latest[k] /\ (disk[d][n].len = RecSize \/ latest[k] \in lost)
    /\ \A p \in Procs : rec[p].hash = k =>
         rec[p].val = latest[k] \/ (pc[p] # "append" /\ latest[k] \in lost)

StoreInv == /\ TypeOK /\ Counters /\ CallerInv /\ OneSlotPerKey /\ RoomInv /\ RamIsLatest
            /\ KeptInv /\ FreshInv /\ LastSetWins

-----------------------------------------------------------------------------
(* A set of numbers that is not empty has a least one, which First finds.  *)
LEMMA HasLeast ==
  ASSUME NEW S \in SUBSET Nat, S # {}
  PROVE  \E z \in S : \A y \in S : z <= y
<1> DEFINE R == OpToRel(<, Nat)
<1>1. IsWellFoundedOn(R, Nat)
  BY NatLessThanWellFounded
<1>2. \A a, b \in Nat : <<a, b>> \in R <=> a < b
  BY DEF OpToRel
<1> HIDE DEF R
<1>3. PICK x \in S : \A y \in S : ~ (<<y, x>> \in R)
  BY <1>1, WFMin
<1>4. \A y \in S : ~ (y < x)
  BY <1>2, <1>3
<1> QED BY <1>4

(* First is a member of the set it searches.                               *)
LEMMA HasFirst ==
  ASSUME NEW S \in SUBSET Nat, S # {}
  PROVE  First(S) \in S
  BY HasLeast DEF First

(* Slots are numbered from 0, and the empty hash is no key.                *)
LEMMA SlotNumbers == Slots \subseteq Nat /\ 0 \in Slots /\ NoKey \notin Keys
  BY CacheAssumption DEF Slots

(* The slot found for a hash holds it.                                     *)
LEMMA HoldingFirst ==
  ASSUME NEW k, Holding(cache_ram, k) # {}
  PROVE  First(Holding(cache_ram, k)) \in Slots /\ cache_ram[First(Holding(cache_ram, k))].hash = k
<1>1. Holding(cache_ram, k) \in SUBSET Nat
  BY SlotNumbers DEF Holding
<1>2. First(Holding(cache_ram, k)) \in Holding(cache_ram, k)
  BY <1>1, HasFirst
<1> QED BY <1>2 DEF Holding

(* The LRU search ends at a slot.                                          *)
LEMMA LruIsSlot ==
  ASSUME TypeOK
  PROVE  Lru \in Slots
<1> DEFINE A == {cache_ram[i].last_access : i \in Slots}
<1>1. \A i \in Slots : cache_ram[i].last_access \in Nat
  BY CacheAssumption DEF TypeOK
<1>2. A \in SUBSET Nat /\ A # {}
  BY <1>1, SlotNumbers
<1> HIDE DEF A
<1>3. \E z \in A : \A y \in A : z <= y
  BY <1>2, HasLeast
<1>4. PICK i \in Slots : \A j \in Slots : cache_ram[i].last_access <= cache_ram[j].last_access
  BY <1>3 DEF A
<1> DEFINE S == {m \in Slots : \A j \in Slots : cache_ram[m].last_access <= cache_ram[j].last_access}
<1>5. S \in SUBSET Nat /\ S # {}
  BY <1>4, SlotNumbers
<1>6. First(S) \in S
  BY <1>5, HasFirst
<1> QED BY <1>6 DEF Lru

(* The invariant holds at the first boot.                                  *)
LEMMA InitInv == Init => StoreInv
<1> SUFFICES ASSUME Init PROVE StoreInv
  OBVIOUS
<1>1. 0 \in 0 .. MaxSets /\ 0 \in 0 .. MaxTicks /\ DiskMax \in Nat
  BY CacheAssumption
<1>2. cache_ram \in [Slots -> [hash : Keys \cup {NoKey}, val : Values,
                              last_access : 0 .. MaxTicks, has_sig : BOOLEAN]]
  BY <1>1 DEF Init, Empty, Values
<1>3. disk \in [Roots -> Seq(Pieces)] /\ \A d \in Roots : disk[d] = << >> /\ Size(disk[d]) <= DiskMax
  BY <1>1 DEF Init, Size
<1>4. TypeOK /\ Counters
  BY <1>1, <1>2, <1>3 DEF Init, TypeOK, Counters, Values
<1>5. CallerInv /\ FreshInv /\ LastSetWins
  BY DEF Init, CallerInv, FreshInv, LastSetWins, Looking
<1>6. OneSlotPerKey /\ RamIsLatest /\ KeptInv /\ RoomInv
  BY SlotNumbers DEF Init, OneSlotPerKey, RamIsLatest, KeptInv, RoomInv, Empty
<1> QED BY <1>4, <1>5, <1>6 DEF StoreInv

(* A step of one caller that leaves the keys and values in RAM and the     *)
(* files alone, and neither begins nor ends an eviction.                   *)
LEMMA QuietStep ==
  ASSUME StoreInv, NEW p \in Procs,
         cache_ram' \in [Slots -> Entries],
         \A i \in Slots : cache_ram'[i].hash = cache_ram[i].hash /\ cache_ram'[i].val = cache_ram[i].val,
         UNCHANGED <<disk, ticks, sets, latest, lost, fresh>>,
         disk_io_lock' \in Procs \cup {"free"},
         pc' \in [Procs -> {"idle", "append", "find", "scan", "promote", "semantic"}],
         arg' \in [Procs -> Keys \cup {NoKey}], rec' \in [Procs -> Record \cup {NoRec}],
         \A q \in Procs \ {p} : pc'[q] = pc[q] /\ arg'[q] = arg[q] /\ rec'[q] = rec[q],
         pc[p] # "append", pc'[p] # "append",
         pc'[p] \in Looking => arg'[p] \in Keys,
         pc'[p] = "promote" => rec'[p] \in Record /\ rec'[p].hash = arg'[p],
         \A k \in fresh : rec'[p].hash = k => rec'[p].val = latest[k] \/ latest[k] \in lost,
         ~ stale'
  PROVE  StoreInv'
<1> USE DEF StoreInv
<1>1. TypeOK' /\ Counters'
  BY DEF TypeOK, Counters, Entries
<1>2. CallerInv'
  BY DEF CallerInv
<1>3. \A k : Holding(cache_ram', k) = Holding(cache_ram, k)
  BY DEF Holding
<1>4. OneSlotPerKey' /\ RamIsLatest'
  BY DEF OneSlotPerKey, RamIsLatest
<1>5. RoomInv'
  BY <1>3 DEF RoomInv
<1>6. KeptInv'
  <2> SUFFICES ASSUME NEW k \in Keys
               PROVE  \/ latest[k] \in lost \cup {0}
                      \/ \E i \in Slots : cache_ram'[i].hash = k /\ cache_ram'[i].val = latest[k]
                      \/ \E d \in Roots : \E n \in DOMAIN disk[d] : disk[d][n].val = latest[k] /\ Readable(disk[d][n])
                      \/ \E q \in Procs : pc'[q] = "append" /\ rec'[q].val = latest[k]
    BY DEF KeptInv
  <2>1. \A q \in Procs : pc[q] = "append" => pc'[q] = "append" /\ rec'[q] = rec[q]
    OBVIOUS
  <2> QED BY <2>1 DEF KeptInv
<1>7. FreshInv'
  BY DEF FreshInv
<1>8. LastSetWins'
  BY DEF LastSetWins
<1> QED BY <1>1, <1>2, <1>4, <1>5, <1>6, <1>7, <1>8

(* A hit moves the time of an entry, and nothing else of it.               *)
LEMMA Touch ==
  ASSUME StoreInv, NEW i \in Slots, cache_ram' = [cache_ram EXCEPT ![i].last_access = ticks]
  PROVE  /\ cache_ram' \in [Slots -> Entries]
         /\ \A j \in Slots : cache_ram'[j].hash = cache_ram[j].hash /\ cache_ram'[j].val = cache_ram[j].val
<1>1. cache_ram \in [Slots -> Entries] /\ ticks \in 0 .. MaxTicks
  BY DEF StoreInv, TypeOK, Counters, Entries
<1>2. ASSUME NEW j \in Slots
      PROVE  /\ cache_ram'[j] \in Entries
             /\ cache_ram'[j].hash = cache_ram[j].hash /\ cache_ram'[j].val = cache_ram[j].val
  <2>1. CASE j = i
    <3>1. cache_ram'[j] = [cache_ram[j] EXCEPT !.last_access = ticks]
      BY <1>1, <2>1
    <3>2. cache_ram[j] \in Entries
      BY <1>1
    <3> QED BY <1>1, <3>1, <3>2 DEF Entries
  <2>2. CASE j # i
    BY <1>1, <2>2
  <2> QED BY <2>1, <2>2
<1>3. cache_ram' \in [Slots -> Entries]
  BY <1>1, <1>2
<1> QED BY <1>2, <1>3

(* A caller that returns from a lookup has nothing left in its hands.      *)
LEMMA Returned ==
  ASSUME StoreInv, NEW p \in Procs, NEW v, NEW b \in BOOLEAN, Return(p, v, b)
  PROVE  /\ pc' \in [Procs -> {"idle", "append", "find", "scan", "promote", "semantic"}]
         /\ arg' \in [Procs -> Keys \cup {NoKey}] /\ rec' \in [Procs -> Record \cup {NoRec}]
         /\ \A q \in Procs \ {p} : pc'[q] = pc[q] /\ arg'[q] = arg[q] /\ rec'[q] = rec[q]
         /\ pc'[p] = "idle" /\ rec'[p] = NoRec
         /\ \A k \in fresh : rec'[p].hash # k
<1>1. /\ pc' = [pc EXCEPT ![p] = "idle"] /\ arg' = [arg EXCEPT ![p] = NoKey] /\ rec' = [rec EXCEPT ![p] = NoRec]
  BY DEF Return, Goto
<1>2. \A k \in fresh : NoRec.hash # k
  BY SlotNumbers DEF StoreInv, TypeOK, NoRec
<1> QED BY <1>1, <1>2 DEF StoreInv, TypeOK

(* A lookup begins.                                                        *)
LEMMA GetStep ==
  ASSUME StoreInv, NEW p \in Procs, NEW k \in Keys, CacheGet(p, k)
  PROVE  StoreInv'
<1>1. /\ pc[p] = "idle" /\ pc' = [pc EXCEPT ![p] = "find"] /\ arg' = [arg EXCEPT ![p] = k]
      /\ UNCHANGED <<cache_ram, ticks, disk, disk_io_lock, rec, sets, latest, lost, fresh, stale>>
  BY DEF CacheGet, Goto, ram, hist
<1>2. /\ pc' \in [Procs -> {"idle", "append", "find", "scan", "promote", "semantic"}]
      /\ arg' \in [Procs -> Keys \cup {NoKey}] /\ rec' \in [Procs -> Record \cup {NoRec}]
      /\ \A q \in Procs \ {p} : pc'[q] = pc[q] /\ arg'[q] = arg[q] /\ rec'[q] = rec[q]
      /\ pc'[p] = "find" /\ arg'[p] = k
      /\ disk_io_lock' \in Procs \cup {"free"} /\ cache_ram' \in [Slots -> Entries]
  BY <1>1 DEF StoreInv, TypeOK, Entries
<1>3. ~ stale' /\ \A m \in fresh : rec'[p].hash = m => rec'[p].val = latest[m] \/ latest[m] \in lost
  BY <1>1 DEF StoreInv, LastSetWins, FreshInv
<1> QED BY <1>1, <1>2, <1>3, QuietStep

(* A lookup goes on to the next place after a miss.                        *)
LEMMA MissStep ==
  ASSUME StoreInv, NEW p \in Procs, RamMiss(p) \/ DiskMiss(p)
  PROVE  StoreInv'
<1>1. /\ pc[p] \in {"find", "scan"} /\ pc' = [pc EXCEPT ![p] = pc'[p]] /\ pc'[p] \in {"scan", "semantic"}
      /\ UNCHANGED <<cache_ram, ticks, disk, disk_io_lock, arg, rec, sets, latest, lost, fresh, stale>>
  BY DEF StoreInv, TypeOK, RamMiss, DiskMiss, Goto, ram, hist
<1>2. /\ pc' \in [Procs -> {"idle", "append", "find", "scan", "promote", "semantic"}]
      /\ arg' \in [Procs -> Keys \cup {NoKey}] /\ rec' \in [Procs -> Record \cup {NoRec}]
      /\ \A q \in Procs \ {p} : pc'[q] = pc[q] /\ arg'[q] = arg[q] /\ rec'[q] = rec[q]
      /\ disk_io_lock' \in Procs \cup {"free"} /\ cache_ram' \in [Slots -> Entries]
  BY <1>1 DEF StoreInv, TypeOK, Entries
<1>3. ~ stale' /\ \A m \in fresh : rec'[p].hash = m => rec'[p].val = latest[m] \/ latest[m] \in lost
  BY <1>1 DEF StoreInv, LastSetWins, FreshInv
<1>4. arg'[p] \in Keys
  BY <1>1 DEF StoreInv, CallerInv, Looking
<1>5. pc[p] # "append" /\ pc'[p] # "append" /\ pc'[p] # "promote"
  BY <1>1
<1> QED BY <1>1, <1>2, <1>3, <1>4, <1>5, QuietStep

(* A hit in RAM returns the value set last, of a key whose history says so.*)
LEMMA RamHitStep ==
  ASSUME StoreInv, NEW p \in Procs, RamHit(p)
  PROVE  StoreInv'
<1>1. PICK i \in Slots : i = First(Holding(cache_ram, arg[p])) /\ cache_ram[i].hash = arg[p]
  BY HoldingFirst DEF RamHit
<1>2. /\ pc[p] = "find" /\ cache_ram' = [cache_ram EXCEPT ![i].last_access = ticks]
      /\ Return(p, cache_ram[i].val, TRUE)
      /\ UNCHANGED <<disk, disk_io_lock, ticks, sets, latest, lost, fresh>>
  BY <1>1 DEF RamHit, hist
<1>3. ~ stale'
  <2>1. arg[p] \in Keys
    BY <1>2 DEF StoreInv, CallerInv, Looking
  <2>2. arg[p] \in fresh => cache_ram[i].val = latest[arg[p]]
    BY <1>1, <2>1 DEF StoreInv, RamIsLatest, FreshInv
  <2> QED BY <1>2, <2>2 DEF Return, StoreInv, LastSetWins
<1>4. disk_io_lock' \in Procs \cup {"free"} /\ pc[p] # "append"
  BY <1>2 DEF StoreInv, TypeOK
<1>5. /\ cache_ram' \in [Slots -> Entries]
      /\ \A j \in Slots : cache_ram'[j].hash = cache_ram[j].hash /\ cache_ram'[j].val = cache_ram[j].val
  BY <1>2, Touch
<1>6. /\ pc' \in [Procs -> {"idle", "append", "find", "scan", "promote", "semantic"}]
      /\ arg' \in [Procs -> Keys \cup {NoKey}] /\ rec' \in [Procs -> Record \cup {NoRec}]
      /\ \A q \in Procs \ {p} : pc'[q] = pc[q] /\ arg'[q] = arg[q] /\ rec'[q] = rec[q]
      /\ pc'[p] = "idle" /\ \A k \in fresh : rec'[p].hash # k
  BY <1>2, Returned
<1> QED BY <1>2, <1>3, <1>4, <1>5, <1>6, QuietStep DEF Looking

(* The semantic lookup returns, with a similar entry or with none.         *)
LEMMA SemanticStep ==
  ASSUME StoreInv, NEW p \in Procs, SemanticHit(p) \/ SemanticMiss(p)
  PROVE  StoreInv'
<1>1. /\ pc[p] = "semantic" /\ UNCHANGED <<disk, disk_io_lock, ticks, sets, latest, lost, fresh>>
      /\ \E v : Return(p, v, FALSE)
  BY DEF SemanticHit, SemanticMiss, ram, hist
<1>2. /\ cache_ram' \in [Slots -> Entries]
      /\ \A j \in Slots : cache_ram'[j].hash = cache_ram[j].hash /\ cache_ram'[j].val = cache_ram[j].val
  <2>1. CASE SemanticMiss(p)
    BY <2>1 DEF SemanticMiss, ram, StoreInv, TypeOK, Entries
  <2>2. CASE SemanticHit(p)
    <3>1. PICK i \in Slots : cache_ram' = [cache_ram EXCEPT ![i].last_access = ticks]
      BY <2>2 DEF SemanticHit, Similar, Candidates
    <3> QED BY <3>1, Touch
  <2> QED BY <2>1, <2>2
<1>3. ~ stale'
  BY <1>1 DEF Return, StoreInv, LastSetWins
<1>4. disk_io_lock' \in Procs \cup {"free"} /\ pc[p] # "append"
  BY <1>1 DEF StoreInv, TypeOK
<1>5. /\ pc' \in [Procs -> {"idle", "append", "find", "scan", "promote", "semantic"}]
      /\ arg' \in [Procs -> Keys \cup {NoKey}] /\ rec' \in [Procs -> Record \cup {NoRec}]
      /\ \A q \in Procs \ {p} : pc'[q] = pc[q] /\ arg'[q] = arg[q] /\ rec'[q] = rec[q]
      /\ pc'[p] = "idle" /\ \A k \in fresh : rec'[p].hash # k
  BY <1>1, Returned
<1> QED BY <1>1, <1>2, <1>3, <1>4, <1>5, QuietStep DEF Looking

(* disk_scan hands over a record of the key it looks for.                  *)
LEMMA DiskHitStep ==
  ASSUME StoreInv, NEW p \in Procs, DiskHit(p)
  PROVE  StoreInv'
<1>1. RootOf[p] \in Roots
  BY CacheAssumption
<1>2. PICK n \in DOMAIN disk[RootOf[p]] :
        /\ n = First(Records(p)) /\ disk[RootOf[p]][n].hash = arg[p]
        /\ disk[RootOf[p]][n] \in Pieces
  <2>1. disk[RootOf[p]] \in Seq(Pieces)
    BY <1>1 DEF StoreInv, TypeOK
  <2>2. Records(p) \in SUBSET Nat /\ Records(p) # {}
    BY <2>1 DEF Records, DiskHit
  <2>3. First(Records(p)) \in Records(p)
    BY <2>2, HasFirst
  <2>4. \A s \in Seq(Pieces) : \A n \in DOMAIN s : s[n] \in Pieces
    OBVIOUS
  <2>5. \A n \in DOMAIN disk[RootOf[p]] : disk[RootOf[p]][n] \in Pieces
    BY <2>1, <2>4
  <2> QED BY <2>3, <2>5 DEF Records
<1>3. PICK v \in ReadAs(disk[RootOf[p]][n]) :
      /\ pc[p] = "scan" /\ pc' = [pc EXCEPT ![p] = "promote"]
      /\ rec' = [rec EXCEPT ![p] = [hash |-> arg[p], val |-> v]] /\ disk_io_lock' = p
      /\ UNCHANGED <<cache_ram, ticks, disk, arg, sets, latest, lost, fresh, stale>>
  BY <1>2 DEF DiskHit, Goto, ram, hist
<1>4. arg[p] \in Keys
  BY <1>3 DEF StoreInv, CallerInv, Looking
<1>5. v \in Values
  BY <1>2, <1>3, CacheAssumption DEF ReadAs, Pieces, Values, Mixed
<1>6. PICK r \in Record : r = [hash |-> arg[p], val |-> v] /\ r.hash = arg[p] /\ r.val = v
  <2>1. [hash |-> arg[p], val |-> v] \in Record
    BY <1>4, <1>5 DEF Record
  <2>2. [hash |-> arg[p], val |-> v].hash = arg[p] /\ [hash |-> arg[p], val |-> v].val = v
    OBVIOUS
  <2> QED BY <2>1, <2>2
<1>7. /\ pc' \in [Procs -> {"idle", "append", "find", "scan", "promote", "semantic"}]
      /\ arg' \in [Procs -> Keys \cup {NoKey}] /\ rec' \in [Procs -> Record \cup {NoRec}]
      /\ \A q \in Procs \ {p} : pc'[q] = pc[q] /\ arg'[q] = arg[q] /\ rec'[q] = rec[q]
      /\ pc'[p] = "promote" /\ rec'[p] = r /\ arg'[p] = arg[p]
      /\ cache_ram' \in [Slots -> Entries]
  BY <1>3, <1>6 DEF StoreInv, TypeOK, Entries
<1>8. \A k \in fresh : rec'[p].hash = k => rec'[p].val = latest[k] \/ latest[k] \in lost
  BY <1>1, <1>2, <1>3, <1>6, <1>7 DEF StoreInv, FreshInv, ReadAs
<1>9. ~ stale'
  BY <1>3 DEF StoreInv, LastSetWins
<1>10. pc[p] # "append" /\ pc'[p] # "append"
  BY <1>3, <1>7
<1> QED BY <1>3, <1>4, <1>6, <1>7, <1>8, <1>9, <1>10, QuietStep

(* The slot cache_set writes: the key's own, else a free one, else one     *)
(* whose entry it evicts.                                                  *)
LEMMA SetSlotFits ==
  ASSUME StoreInv, NEW k \in Keys
  PROVE  /\ SetSlot(k) \in Slots
         /\ Holding(cache_ram, k) # {} => cache_ram[SetSlot(k)].hash = k
         /\ ~ Evicts(k) => cache_ram[SetSlot(k)].hash \in {k, NoKey}
         /\ Evicts(k) => cache_ram[SetSlot(k)].hash \in Keys \ {k}
<1>1. CASE Holding(cache_ram, k) # {}
  <2>1. SetSlot(k) = First(Holding(cache_ram, k)) /\ ~ Evicts(k)
    BY <1>1 DEF SetSlot, Evicts
  <2> QED BY <1>1, <2>1, HoldingFirst
<1>2. CASE Holding(cache_ram, k) = {} /\ Holding(cache_ram, NoKey) # {}
  <2>1. SetSlot(k) = First(Holding(cache_ram, NoKey)) /\ ~ Evicts(k)
    BY <1>2 DEF SetSlot, Evicts
  <2> QED BY <1>2, <2>1, HoldingFirst
<1>3. CASE Evicts(k)
  <2>1. SetSlot(k) = Lru /\ Holding(cache_ram, k) = {} /\ Holding(cache_ram, NoKey) = {}
    BY <1>3 DEF SetSlot, Evicts
  <2>2. Lru \in Slots
    BY LruIsSlot DEF StoreInv
  <2>3. cache_ram[Lru].hash \in Keys \cup {NoKey}
    BY <2>2 DEF StoreInv, TypeOK
  <2>4. cache_ram[Lru].hash # k /\ cache_ram[Lru].hash # NoKey
    BY <2>1, <2>2 DEF Holding
  <2> QED BY <1>3, <2>1, <2>2, <2>3, <2>4
<1> QED BY <1>1, <1>2, <1>3 DEF Evicts

(* cache_set under cache_lock.                                             *)
LEMMA SetStep ==
  ASSUME StoreInv, NEW p \in Procs, NEW k \in Keys, CacheSet(p, k)
  PROVE  StoreInv'
<1> USE DEF StoreInv
<1>1. PICK i \in Slots : /\ i = SetSlot(k)
                         /\ Holding(cache_ram, k) # {} => cache_ram[i].hash = k
                         /\ ~ Evicts(k) => cache_ram[i].hash \in {k, NoKey}
                         /\ Evicts(k) => cache_ram[i].hash \in Keys \ {k}
  BY SetSlotFits
<1> DEFINE v  == sets + 1
           r  == IF Evicts(k) THEN [hash |-> cache_ram[i].hash, val |-> cache_ram[i].val] ELSE NoRec
           en == [hash |-> k, val |-> v, last_access |-> ticks, has_sig |-> k \in Signed]
<1>2. /\ pc[p] = "idle" /\ sets < MaxSets /\ sets' = v
      /\ UNCHANGED <<disk, disk_io_lock, ticks, arg, lost, stale>>
  BY DEF CacheSet
<1>3. /\ rec' = [rec EXCEPT ![p] = r] /\ cache_ram' = [cache_ram EXCEPT ![i] = en]
      /\ pc' = [pc EXCEPT ![p] = IF Evicts(k) THEN "append" ELSE "idle"]
      /\ latest' = [latest EXCEPT ![k] = v]
  BY <1>1, <1>2 DEF CacheSet, Goto, Remember
<1>4. /\ fresh' \subseteq fresh \cup {k}
      /\ k \in fresh' => ~ Recorded(k)
  BY DEF CacheSet, Remember
<1>5. v \in Values /\ v # 0 /\ v \in 0 .. MaxSets
  BY <1>2, CacheAssumption DEF Counters, Values
<1>6. en \in Entries /\ en.hash = k /\ en.val = v
  BY <1>5 DEF Entries, Counters
<1>7. r \in Record \cup {NoRec} /\ r.hash # k /\ (Evicts(k) => /\ r \in Record /\ r.hash = cache_ram[i].hash
                                                               /\ r.val = cache_ram[i].val)
  <2>1. cache_ram[i].val \in Values
    BY DEF TypeOK
  <2> QED BY <1>1, <2>1, SlotNumbers DEF Record, NoRec
<1>8. ~ Evicts(k) => r = NoRec
  OBVIOUS
<1> HIDE DEF v, r, en
<1>9. /\ \A j \in Slots : cache_ram'[j] = IF j = i THEN en ELSE cache_ram[j]
      /\ \A q \in Procs : rec'[q] = IF q = p THEN r ELSE rec[q]
      /\ \A q \in Procs : pc'[q] = IF q # p THEN pc[q] ELSE IF Evicts(k) THEN "append" ELSE "idle"
      /\ \A m \in Keys : latest'[m] = IF m = k THEN v ELSE latest[m]
  BY <1>3 DEF TypeOK
<1>10. TypeOK' /\ Counters'
  <2>1. cache_ram' \in [Slots -> Entries]
    BY <1>3, <1>6 DEF TypeOK, Entries
  <2>2. /\ pc' \in [Procs -> {"idle", "append", "find", "scan", "promote", "semantic"}]
        /\ rec' \in [Procs -> Record \cup {NoRec}] /\ latest' \in [Keys -> Values]
    BY <1>3, <1>5, <1>7 DEF TypeOK
  <2>3. fresh' \subseteq Keys /\ sets' \in 0 .. MaxSets
    BY <1>2, <1>4, <1>5 DEF TypeOK
  <2> QED BY <1>2, <2>1, <2>2, <2>3 DEF TypeOK, Counters, Entries
<1>11. CallerInv'
  BY <1>2, <1>7, <1>9 DEF CallerInv, Looking
<1>12. \A j \in Slots : cache_ram[j].hash = k => j = i
  BY <1>1, SlotNumbers DEF OneSlotPerKey, Holding
<1>13. OneSlotPerKey'
  BY <1>6, <1>9, <1>12 DEF OneSlotPerKey
<1>14. RoomInv'
  <2> SUFFICES ASSUME Holding(cache_ram', NoKey) # {}, NEW m \in Keys, latest'[m] # 0
               PROVE  Holding(cache_ram', m) # {}
    BY DEF RoomInv
  <2>1. Holding(cache_ram, NoKey) # {}
    BY <1>6, <1>9, SlotNumbers DEF Holding
  <2>2. CASE m = k
    BY <2>2, <1>6, <1>9 DEF Holding
  <2>3. CASE m # k
    <3>1. PICK j \in Slots : cache_ram[j].hash = m
      BY <2>1, <2>3, <1>9 DEF RoomInv, Holding
    <3>2. cache_ram[i].hash \in {k, NoKey}
      BY <1>1, <2>1 DEF Evicts
    <3>3. j # i
      BY <3>1, <3>2, <2>3, SlotNumbers
    <3> QED BY <3>1, <3>3, <1>9 DEF Holding
  <2> QED BY <2>2, <2>3
<1>15. RamIsLatest'
  <2> SUFFICES ASSUME NEW j \in Slots, NEW m \in Keys, cache_ram'[j].hash = m, latest'[m] # 0
               PROVE  cache_ram'[j].val = latest'[m]
    BY DEF RamIsLatest
  <2>1. CASE j = i
    BY <2>1, <1>6, <1>9
  <2>2. CASE j # i
    <3>1. cache_ram'[j] = cache_ram[j] /\ m # k
      BY <2>2, <1>9, <1>12
    <3> QED BY <3>1, <1>9 DEF RamIsLatest
  <2> QED BY <2>1, <2>2
<1>16. KeptInv'
  <2> SUFFICES ASSUME NEW m \in Keys
               PROVE  \/ latest'[m] \in lost \cup {0}
                      \/ \E j \in Slots : cache_ram'[j].hash = m /\ cache_ram'[j].val = latest'[m]
                      \/ \E d \in Roots : \E n \in DOMAIN disk[d] : disk[d][n].val = latest'[m] /\ Readable(disk[d][n])
                      \/ \E q \in Procs : pc'[q] = "append" /\ rec'[q].val = latest'[m]
    BY <1>2 DEF KeptInv
  <2>1. CASE m = k
    BY <2>1, <1>6, <1>9
  <2>2. CASE m # k
    <3>1. latest'[m] = latest[m]
      BY <2>2, <1>9
    <3>2. ASSUME NEW q \in Procs, pc[q] = "append", rec[q].val = latest[m]
          PROVE  pc'[q] = "append" /\ rec'[q].val = latest[m]
      BY <3>2, <1>2, <1>9
    <3>3. ASSUME NEW j \in Slots, cache_ram[j].hash = m, cache_ram[j].val = latest[m]
          PROVE  \/ cache_ram'[j].hash = m /\ cache_ram'[j].val = latest[m]
                 \/ pc'[p] = "append" /\ rec'[p].val = latest[m]
      <4>1. CASE j = i
        <5>1. Evicts(k)
          BY <4>1, <3>3, <2>2, <1>1, SlotNumbers
        <5> QED BY <5>1, <4>1, <3>3, <1>7, <1>9
      <4>2. CASE j # i
        BY <4>2, <3>3, <1>9
      <4> QED BY <4>1, <4>2
    <3>4. \/ latest[m] \in lost \cup {0}
          \/ \E j \in Slots : cache_ram[j].hash = m /\ cache_ram[j].val = latest[m]
          \/ \E d \in Roots : \E n \in DOMAIN disk[d] : disk[d][n].val = latest[m] /\ Readable(disk[d][n])
          \/ \E q \in Procs : pc[q] = "append" /\ rec[q].val = latest[m]
      BY DEF KeptInv
    <3> QED BY <3>1, <3>2, <3>3, <3>4
  <2> QED BY <2>1, <2>2
<1>17. FreshInv'
  <2> SUFFICES ASSUME NEW m \in fresh'
               PROVE  /\ latest'[m] # 0
                      /\ \A d \in Roots : \A n \in DOMAIN disk[d] : disk[d][n].hash = m =>
                           /\ disk[d][n].val = latest'[m]
                           /\ disk[d][n].len = RecSize \/ latest'[m] \in lost
                      /\ \A q \in Procs : rec'[q].hash = m =>
                           rec'[q].val = latest'[m] \/ (pc'[q] # "append" /\ latest'[m] \in lost)
    BY <1>2 DEF FreshInv
  <2>1. CASE m = k
    BY <2>1, <1>4, <1>5, <1>7, <1>9 DEF Recorded
  <2>2. CASE m # k
    <3>1. m \in fresh /\ m \in Keys /\ latest'[m] = latest[m] /\ latest[m] # 0
      BY <2>2, <1>4, <1>9 DEF TypeOK, FreshInv
    <3>2. r.hash = m => r.val = latest[m]
      <4>1. CASE Evicts(k)
        BY <4>1, <3>1, <1>7 DEF RamIsLatest
      <4>2. CASE ~ Evicts(k)
        BY <4>2, <3>1, <1>8, SlotNumbers DEF NoRec
      <4> QED BY <4>1, <4>2
    <3> QED BY <3>1, <3>2, <1>9 DEF FreshInv
  <2> QED BY <2>1, <2>2
<1>18. LastSetWins'
  BY <1>2 DEF LastSetWins
<1> QED BY <1>10, <1>11, <1>13, <1>14, <1>15, <1>16, <1>17, <1>18

(* The size of a file is a number, and grows by what is appended.          *)
LEMMA FileSize ==
  ASSUME NEW s \in Seq(Pieces)
  PROVE  /\ Size(s) \in Nat
         /\ \A e \in Pieces : Size(Append(s, e)) = e.at + e.len
<1>1. Size(s) \in Nat
  <2>1. CASE s = << >>
    BY <2>1 DEF Size
  <2>2. CASE s # << >>
    <3>1. s[Len(s)] \in Pieces
      BY <2>2
    <3>2. s[Len(s)].at \in Nat /\ s[Len(s)].len \in Nat
      BY <3>1, CacheAssumption DEF Pieces
    <3> QED BY <2>2, <3>2 DEF Size
  <2> QED BY <2>1, <2>2
<1>2. ASSUME NEW e \in Pieces PROVE Size(Append(s, e)) = e.at + e.len
  <2>1. Append(s, e) # << >> /\ Append(s, e)[Len(Append(s, e))] = e
    OBVIOUS
  <2> QED BY <2>1 DEF Size
<1> QED BY <1>1, <1>2

(* The three ways disk_append may end: the value is lost with the file as  *)
(* it was, or a piece is added, and the value lost unless it is readable.  *)
LEMMA AppendEnds ==
  ASSUME StoreInv, NEW p \in Procs, NEW d0 \in Roots, d0 = RootOf[p],
         DiskAppend(p) \/ AppendRefused(p) \/ \E n \in 1 .. RecSize - 1 : AppendShort(p, n)
  PROVE  /\ pc[p] = "append" /\ rec' = [rec EXCEPT ![p] = NoRec] /\ pc' = [pc EXCEPT ![p] = "idle"]
         /\ UNCHANGED <<cache_ram, ticks, disk_io_lock, arg, sets, latest, fresh, stale>>
         /\ \/ disk' = disk /\ lost' = lost \cup {rec[p].val}
            \/ \E e \in Pieces :
                 /\ disk' = [disk EXCEPT ![d0] = Append(disk[d0], e)]
                 /\ Size(Append(disk[d0], e)) <= DiskMax
                 /\ e.hash = rec[p].hash /\ e.val = rec[p].val
                 /\ \/ lost' = lost \cup {rec[p].val}
                    \/ lost' = lost /\ Readable(e)
<1>1. PICK b \in BOOLEAN : AppendReturns(p, b)
  BY DEF DiskAppend, AppendRefused, AppendShort, InStep
<1>2. /\ pc[p] = "append" /\ rec' = [rec EXCEPT ![p] = NoRec] /\ pc' = [pc EXCEPT ![p] = "idle"]
      /\ UNCHANGED <<cache_ram, ticks, disk_io_lock, arg, sets, latest, fresh, stale>>
  BY <1>1 DEF AppendReturns, Goto, ram
<1>3. rec[p].hash \in Keys /\ rec[p].val \in Values
  BY <1>2 DEF StoreInv, CallerInv, Record
<1>4. disk[d0] \in Seq(Pieces) /\ Size(disk[d0]) \in Nat
  BY FileSize DEF StoreInv, Counters
<1>5. ASSUME NEW n \in 1 .. RecSize, Size(disk[d0]) + RecSize <= DiskMax
      PROVE  /\ Piece(p, n) \in Pieces /\ Piece(p, n).hash = rec[p].hash
             /\ Piece(p, n).val = rec[p].val /\ Piece(p, n).len = n
             /\ Piece(p, n).at = Size(disk[d0])
             /\ Size(Append(disk[d0], Piece(p, n))) <= DiskMax
  <2>1. /\ Piece(p, n) \in Pieces /\ Piece(p, n).hash = rec[p].hash
        /\ Piece(p, n).val = rec[p].val /\ Piece(p, n).len = n
        /\ Piece(p, n).at = Size(disk[d0])
    BY <1>3, <1>4 DEF Piece, Pieces
  <2>2. Size(Append(disk[d0], Piece(p, n))) = Size(disk[d0]) + n
    BY <1>4, <2>1, FileSize
  <2> QED BY <1>4, <1>5, <2>1, <2>2, CacheAssumption
<1>6. CASE DiskAppend(p)
  <2>1. /\ Size(disk[d0]) + RecSize <= DiskMax
        /\ disk' = [disk EXCEPT ![d0] = Append(disk[d0], Piece(p, RecSize))]
        /\ lost' = IF InStep(Size(disk[d0])) THEN lost ELSE lost \cup {rec[p].val}
    BY <1>6 DEF DiskAppend, AppendReturns
  <2>2. RecSize \in 1 .. RecSize
    BY CacheAssumption
  <2>3. PICK e \in Pieces : e = Piece(p, RecSize)
    BY <1>5, <2>1, <2>2
  <2>4. /\ e.hash = rec[p].hash /\ e.val = rec[p].val /\ e.len = RecSize
        /\ e.at = Size(disk[d0]) /\ Size(Append(disk[d0], e)) <= DiskMax
    BY <1>5, <2>1, <2>2, <2>3
  <2>5. lost' = lost \cup {rec[p].val} \/ (lost' = lost /\ Readable(e))
    BY <2>1, <2>4 DEF Readable
  <2> QED BY <1>2, <2>1, <2>3, <2>4, <2>5
<1>7. CASE AppendRefused(p)
  BY <1>2, <1>7 DEF AppendRefused, AppendReturns
<1>8. ASSUME NEW n \in 1 .. RecSize - 1, AppendShort(p, n)
      PROVE  \E e \in Pieces :
                 /\ disk' = [disk EXCEPT ![d0] = Append(disk[d0], e)]
                 /\ Size(Append(disk[d0], e)) <= DiskMax
                 /\ e.hash = rec[p].hash /\ e.val = rec[p].val
                 /\ lost' = lost \cup {rec[p].val}
  <2>1. /\ Size(disk[d0]) + RecSize <= DiskMax
        /\ disk' = [disk EXCEPT ![d0] = Append(disk[d0], Piece(p, n))]
        /\ lost' = lost \cup {rec[p].val}
    BY <1>8 DEF AppendShort, AppendReturns
  <2>2. n \in 1 .. RecSize
    BY CacheAssumption
  <2>3. PICK e \in Pieces : e = Piece(p, n)
    BY <1>5, <2>1, <2>2
  <2>4. /\ e.hash = rec[p].hash /\ e.val = rec[p].val /\ Size(Append(disk[d0], e)) <= DiskMax
    BY <1>5, <2>1, <2>2, <2>3
  <2> QED BY <2>1, <2>3, <2>4
<1> QED BY <1>2, <1>6, <1>7, <1>8

(* disk_append: the evicted record goes to the file, or is lost.           *)
LEMMA AppendStep ==
  ASSUME StoreInv, NEW p \in Procs,
         DiskAppend(p) \/ AppendRefused(p) \/ \E n \in 1 .. RecSize - 1 : AppendShort(p, n)
  PROVE  StoreInv'
<1> USE DEF StoreInv
<1>1. PICK d0 \in Roots : d0 = RootOf[p]
  BY CacheAssumption
<1>2. /\ pc[p] = "append" /\ rec' = [rec EXCEPT ![p] = NoRec] /\ pc' = [pc EXCEPT ![p] = "idle"]
      /\ UNCHANGED <<cache_ram, ticks, disk_io_lock, arg, sets, latest, fresh, stale>>
      /\ \/ disk' = disk /\ lost' = lost \cup {rec[p].val}
         \/ \E e \in Pieces :
              /\ disk' = [disk EXCEPT ![d0] = Append(disk[d0], e)]
              /\ Size(Append(disk[d0], e)) <= DiskMax
              /\ e.hash = rec[p].hash /\ e.val = rec[p].val
              /\ \/ lost' = lost \cup {rec[p].val}
                 \/ lost' = lost /\ Readable(e)
  BY <1>1, AppendEnds
<1>3. rec[p] \in Record /\ rec[p].val \in Values
  BY <1>2 DEF CallerInv, Record
<1>4. /\ \A q \in Procs : rec'[q] = IF q = p THEN NoRec ELSE rec[q]
      /\ \A q \in Procs : pc'[q] = IF q = p THEN "idle" ELSE pc[q]
  BY <1>2 DEF TypeOK
<1>5. \A d \in Roots : disk[d] \in Seq(Pieces) /\ Size(disk[d]) <= DiskMax
  BY DEF TypeOK
<1> DEFINE New(e) == /\ e.hash = rec[p].hash /\ e.val = rec[p].val
                     /\ rec[p].val \in lost' \/ Readable(e)
<1>6. ASSUME NEW d \in Roots
      PROVE  /\ disk'[d] \in Seq(Pieces) /\ Size(disk'[d]) <= DiskMax
             /\ \A n \in DOMAIN disk[d] : n \in DOMAIN disk'[d] /\ disk'[d][n] = disk[d][n]
             /\ \A n \in DOMAIN disk'[d] : n \in DOMAIN disk[d] \/ New(disk'[d][n])
  <2>1. CASE disk'[d] = disk[d]
    BY <2>1, <1>5
  <2>2. CASE disk'[d] # disk[d]
    <3>1. PICK e \in Pieces : /\ d = d0 /\ disk'[d] = Append(disk[d], e)
                              /\ Size(Append(disk[d], e)) <= DiskMax /\ New(e)
      BY <2>2, <1>2 DEF Counters
    <3>2. PICK s \in Seq(Pieces) : s = disk[d]
      BY <1>5
    <3> HIDE DEF New
    <3>3. /\ Append(s, e) \in Seq(Pieces)
          /\ \A n \in 1 .. Len(s) : Append(s, e)[n] = s[n]
          /\ Append(s, e)[Len(s) + 1] = e /\ Len(s) \in Nat
          /\ DOMAIN s = 1 .. Len(s) /\ DOMAIN Append(s, e) = 1 .. Len(s) + 1
      OBVIOUS
    <3>4. \A n \in 1 .. Len(s) + 1 : n \in 1 .. Len(s) \/ n = Len(s) + 1
      BY <3>3
    <3>5. \A n \in 1 .. Len(s) : n \in 1 .. Len(s) + 1
      BY <3>3
    <3> QED BY <3>1, <3>2, <3>3, <3>4, <3>5
  <2> QED BY <2>1, <2>2
<1>7. disk' \in [Roots -> Seq(Pieces)]
  BY <1>2, <1>6 DEF Counters
<1>8. TypeOK' /\ Counters'
  <2>1. /\ pc' \in [Procs -> {"idle", "append", "find", "scan", "promote", "semantic"}]
        /\ rec' \in [Procs -> Record \cup {NoRec}] /\ lost' \subseteq Values
    BY <1>2, <1>3 DEF TypeOK
  <2> QED BY <1>2, <1>6, <1>7, <2>1 DEF TypeOK, Counters
<1>9. CallerInv'
  BY <1>2, <1>4 DEF CallerInv, Looking
<1>10. OneSlotPerKey' /\ RamIsLatest' /\ RoomInv'
  BY <1>2 DEF OneSlotPerKey, RamIsLatest, RoomInv
<1>11. \/ rec[p].val \in lost'
       \/ \E n \in DOMAIN disk'[d0] : disk'[d0][n].val = rec[p].val /\ Readable(disk'[d0][n])
  <2>1. CASE lost' = lost \cup {rec[p].val}
    BY <2>1
  <2>2. CASE lost' # lost \cup {rec[p].val}
    <3>1. PICK e \in Pieces : /\ disk' = [disk EXCEPT ![d0] = Append(disk[d0], e)]
                              /\ e.val = rec[p].val /\ Readable(e)
      BY <2>2, <1>2
    <3>2. disk'[d0] = Append(disk[d0], e)
      BY <3>1 DEF Counters
    <3>3. PICK s \in Seq(Pieces) : s = disk[d0]
      BY <1>5
    <3>4. Len(s) + 1 \in DOMAIN Append(s, e) /\ Append(s, e)[Len(s) + 1] = e
      OBVIOUS
    <3> QED BY <3>1, <3>2, <3>3, <3>4
  <2> QED BY <2>1, <2>2
<1>12. lost \subseteq lost'
  BY <1>2
<1>13. KeptInv'
  <2> SUFFICES ASSUME NEW k \in Keys
               PROVE  \/ latest[k] \in lost' \cup {0}
                      \/ \E i \in Slots : cache_ram[i].hash = k /\ cache_ram[i].val = latest[k]
                      \/ \E d \in Roots : \E n \in DOMAIN disk'[d] : disk'[d][n].val = latest[k] /\ Readable(disk'[d][n])
                      \/ \E q \in Procs : pc'[q] = "append" /\ rec'[q].val = latest[k]
    BY <1>2 DEF KeptInv
  <2>1. CASE rec[p].val = latest[k]
    BY <2>1, <1>11
  <2>2. CASE rec[p].val # latest[k]
    <3>1. ASSUME NEW q \in Procs, pc[q] = "append", rec[q].val = latest[k]
          PROVE  pc'[q] = "append" /\ rec'[q].val = latest[k]
      BY <3>1, <2>2, <1>4
    <3>2. ASSUME NEW d \in Roots, NEW n \in DOMAIN disk[d], disk[d][n].val = latest[k], Readable(disk[d][n])
          PROVE  n \in DOMAIN disk'[d] /\ disk'[d][n].val = latest[k] /\ Readable(disk'[d][n])
      BY <3>2, <1>6
    <3>3. \/ latest[k] \in lost \cup {0}
          \/ \E j \in Slots : cache_ram[j].hash = k /\ cache_ram[j].val = latest[k]
          \/ \E d \in Roots : \E n \in DOMAIN disk[d] : disk[d][n].val = latest[k] /\ Readable(disk[d][n])
          \/ \E q \in Procs : pc[q] = "append" /\ rec[q].val = latest[k]
      BY DEF KeptInv
    <3> QED BY <3>1, <3>2, <3>3, <1>12
  <2> QED BY <2>1, <2>2
<1>14. FreshInv'
  <2> SUFFICES ASSUME NEW k \in fresh
               PROVE  /\ latest[k] # 0
                      /\ \A d \in Roots : \A n \in DOMAIN disk'[d] : disk'[d][n].hash = k =>
                           /\ disk'[d][n].val = latest[k]
                           /\ disk'[d][n].len = RecSize \/ latest[k] \in lost'
                      /\ \A q \in Procs : rec'[q].hash = k =>
                           rec'[q].val = latest[k] \/ (pc'[q] # "append" /\ latest[k] \in lost')
    BY <1>2 DEF FreshInv
  <2>1. /\ latest[k] # 0
        /\ \A q \in Procs : rec[q].hash = k =>
             rec[q].val = latest[k] \/ (pc[q] # "append" /\ latest[k] \in lost)
    BY DEF FreshInv
  <2>2. NoRec.hash # k
    BY SlotNumbers DEF TypeOK, NoRec
  <2>3. \A q \in Procs : rec'[q].hash = k =>
          rec'[q].val = latest[k] \/ (pc'[q] # "append" /\ latest[k] \in lost')
    BY <1>4, <1>12, <2>1, <2>2
  <2>4. rec[p].hash = k => rec[p].val = latest[k]
    BY <1>2, <2>1
  <2>5. ASSUME NEW d \in Roots, NEW n \in DOMAIN disk'[d], disk'[d][n].hash = k
        PROVE  /\ disk'[d][n].val = latest[k]
               /\ disk'[d][n].len = RecSize \/ latest[k] \in lost'
    <3>1. CASE n \in DOMAIN disk[d]
      BY <3>1, <2>5, <1>6, <1>12 DEF FreshInv
    <3>2. CASE n \notin DOMAIN disk[d]
      <4>1. New(disk'[d][n])
        BY <3>2, <2>5, <1>6
      <4> QED BY <4>1, <2>4, <2>5 DEF Readable
    <3> QED BY <3>1, <3>2
  <2> QED BY <2>1, <2>3, <2>5
<1>15. LastSetWins'
  BY <1>2 DEF LastSetWins
<1> QED BY <1>8, <1>9, <1>10, <1>13, <1>14, <1>15

(* A record read from the file is put in a free slot, if its key has not   *)
(* come back meanwhile.                                                    *)
LEMMA PromoteStep ==
  ASSUME StoreInv, NEW p \in Procs, Promote(p)
  PROVE  StoreInv'
<1> USE DEF StoreInv
<1>1. /\ pc[p] = "promote" /\ cache_ram' = Promoted(p, Holding(cache_ram, arg[p]) = {})
      /\ disk_io_lock' = "free" /\ Return(p, rec[p].val, TRUE)
      /\ UNCHANGED <<disk, ticks, sets, latest, lost, fresh>>
  BY DEF Promote, hist
<1>2. arg[p] \in Keys /\ rec[p] \in Record /\ rec[p].hash = arg[p] /\ rec[p].val \in Values
  BY <1>1 DEF CallerInv, Looking, Record
<1>3. ~ stale'
  BY <1>1, <1>2 DEF Return, LastSetWins, FreshInv
<1>4. /\ pc' \in [Procs -> {"idle", "append", "find", "scan", "promote", "semantic"}]
      /\ arg' \in [Procs -> Keys \cup {NoKey}] /\ rec' \in [Procs -> Record \cup {NoRec}]
      /\ \A q \in Procs \ {p} : pc'[q] = pc[q] /\ arg'[q] = arg[q] /\ rec'[q] = rec[q]
      /\ pc'[p] = "idle" /\ \A k \in fresh : rec'[p].hash # k
  BY <1>1, Returned
<1>5. CASE cache_ram' = cache_ram
  <2>1. cache_ram' \in [Slots -> Entries]
    BY <1>5 DEF TypeOK, Entries
  <2>2. pc[p] # "append" /\ pc'[p] # "append" /\ pc'[p] \notin Looking /\ pc'[p] # "promote"
    BY <1>1, <1>4 DEF Looking
  <2> QED BY <1>1, <1>3, <1>4, <1>5, <2>1, <2>2, QuietStep
<1>6. CASE cache_ram' # cache_ram
  <2> DEFINE en == [hash |-> arg[p], val |-> rec[p].val, last_access |-> ticks, has_sig |-> FALSE]
  <2>1. /\ Holding(cache_ram, arg[p]) = {} /\ Holding(cache_ram, NoKey) # {}
        /\ cache_ram' = [cache_ram EXCEPT ![First(Holding(cache_ram, NoKey))] = en]
    BY <1>1, <1>6 DEF Promoted
  <2>2. PICK i \in Slots : i = First(Holding(cache_ram, NoKey)) /\ cache_ram[i].hash = NoKey
    BY <2>1, HoldingFirst
  <2>3. en \in Entries /\ en.hash = arg[p] /\ en.val = rec[p].val
    BY <1>2 DEF Entries, Counters
  <2> HIDE DEF en
  <2>4. \A j \in Slots : cache_ram'[j] = IF j = i THEN en ELSE cache_ram[j]
    BY <2>1, <2>2 DEF TypeOK
  <2>5. \A j \in Slots : cache_ram[j].hash # arg[p]
    BY <2>1 DEF Holding
  <2>6. latest[arg[p]] = 0
    BY <1>2, <2>1 DEF RoomInv
  <2>7. TypeOK' /\ Counters'
    <3>1. cache_ram' \in [Slots -> Entries]
      BY <2>1, <2>2, <2>3 DEF TypeOK, Entries
    <3> QED BY <1>1, <1>4, <3>1 DEF TypeOK, Counters, Entries
  <2>8. CallerInv'
    BY <1>4 DEF CallerInv, Looking
  <2>9. OneSlotPerKey'
    BY <2>3, <2>4, <2>5 DEF OneSlotPerKey
  <2>10. RamIsLatest'
    BY <1>1, <2>3, <2>4, <2>6 DEF RamIsLatest
  <2>11. RoomInv'
    <3>1. ASSUME NEW m \in Keys, Holding(cache_ram, m) # {} PROVE Holding(cache_ram', m) # {}
      <4>1. PICK j \in Slots : cache_ram[j].hash = m
        BY <3>1 DEF Holding
      <4>2. j # i
        BY <2>2, <4>1, SlotNumbers
      <4> QED BY <2>4, <4>1, <4>2 DEF Holding
    <3> QED BY <1>1, <2>1, <3>1 DEF RoomInv
  <2>12. KeptInv'
    <3> SUFFICES ASSUME NEW k \in Keys
                 PROVE  \/ latest[k] \in lost \cup {0}
                        \/ \E j \in Slots : cache_ram'[j].hash = k /\ cache_ram'[j].val = latest[k]
                        \/ \E d \in Roots : \E n \in DOMAIN disk[d] : disk[d][n].val = latest[k] /\ Readable(disk[d][n])
                        \/ \E q \in Procs : pc'[q] = "append" /\ rec'[q].val = latest[k]
      BY <1>1 DEF KeptInv
    <3>1. ASSUME NEW q \in Procs, pc[q] = "append", rec[q].val = latest[k]
          PROVE  pc'[q] = "append" /\ rec'[q].val = latest[k]
      BY <3>1, <1>1, <1>4
    <3>2. ASSUME NEW j \in Slots, cache_ram[j].hash = k, cache_ram[j].val = latest[k]
          PROVE  cache_ram'[j].hash = k /\ cache_ram'[j].val = latest[k]
      BY <3>2, <2>2, <2>4, SlotNumbers
    <3>3. \/ latest[k] \in lost \cup {0}
          \/ \E j \in Slots : cache_ram[j].hash = k /\ cache_ram[j].val = latest[k]
          \/ \E d \in Roots : \E n \in DOMAIN disk[d] : disk[d][n].val = latest[k] /\ Readable(disk[d][n])
          \/ \E q \in Procs : pc[q] = "append" /\ rec[q].val = latest[k]
      BY DEF KeptInv
    <3> QED BY <3>1, <3>2, <3>3
  <2>13. FreshInv'
    BY <1>1, <1>4 DEF FreshInv
  <2>14. LastSetWins'
    BY <1>3 DEF LastSetWins
  <2> QED BY <2>7, <2>8, <2>9, <2>10, <2>11, <2>12, <2>13, <2>14
<1> QED BY <1>5, <1>6

(* A reboot empties RAM and leaves the files.                              *)
LEMMA RebootStep ==
  ASSUME StoreInv, Reboot
  PROVE  StoreInv'
<1> USE DEF StoreInv
<1>1. 0 \in 0 .. MaxSets /\ 0 \in 0 .. MaxTicks
  BY CacheAssumption
<1>2. cache_ram' \in [Slots -> [hash : Keys \cup {NoKey}, val : Values,
                               last_access : 0 .. MaxTicks, has_sig : BOOLEAN]]
  BY <1>1 DEF Reboot, Empty, Values
<1>3. TypeOK' /\ Counters'
  BY <1>1, <1>2 DEF Reboot, TypeOK, Counters, Values
<1>4. CallerInv' /\ FreshInv' /\ LastSetWins'
  BY DEF Reboot, CallerInv, FreshInv, LastSetWins, Looking
<1>5. OneSlotPerKey' /\ RamIsLatest' /\ KeptInv' /\ RoomInv'
  BY SlotNumbers DEF Reboot, OneSlotPerKey, RamIsLatest, KeptInv, RoomInv, Empty
<1> QED BY <1>3, <1>4, <1>5

(* The clock ticks, or nothing happens.                                    *)
LEMMA IdleStep ==
  ASSUME StoreInv, Tick \/ UNCHANGED vars
  PROVE  StoreInv'
<1> USE DEF StoreInv
<1>1. UNCHANGED <<cache_ram, disk, disk_io_lock, pc, arg, rec, sets, latest, lost, fresh, stale>>
  BY DEF Tick, vars, hist
<1>2. ticks' \in 0 .. MaxTicks
  <2>1. CASE Tick
    <3>1. ticks \in 0 .. MaxTicks /\ ticks < MaxTicks /\ ticks' = ticks + 1
      BY <2>1 DEF Tick, Counters
    <3> QED BY <3>1, CacheAssumption
  <2>2. CASE UNCHANGED vars
    BY <2>2 DEF vars, Counters
  <2> QED BY <2>1, <2>2
<1>3. TypeOK' /\ Counters'
  BY <1>1, <1>2 DEF TypeOK, Counters
<1>4. CallerInv' /\ FreshInv' /\ LastSetWins'
  BY <1>1 DEF CallerInv, FreshInv, LastSetWins
<1>5. OneSlotPerKey' /\ RamIsLatest' /\ RoomInv'
  BY <1>1 DEF OneSlotPerKey, RamIsLatest, RoomInv
<1>6. KeptInv'
  BY <1>1 DEF KeptInv
<1> QED BY <1>3, <1>4, <1>5, <1>6

(* Every step keeps the invariant.                                         *)
LEMMA StepInv == StoreInv /\ [Next]_vars => StoreInv'
<1> SUFFICES ASSUME StoreInv, [Next]_vars PROVE StoreInv'
  OBVIOUS
<1>1. ASSUME NEW p \in Procs, Step(p) PROVE StoreInv'
  <2>1. ASSUME NEW k \in Keys, CacheSet(p, k) PROVE StoreInv'
    BY <2>1, SetStep
  <2>2. ASSUME NEW k \in Keys, CacheGet(p, k) PROVE StoreInv'
    BY <2>2, GetStep
  <2>3. CASE DiskAppend(p) \/ AppendRefused(p) \/ \E n \in 1 .. RecSize - 1 : AppendShort(p, n)
    BY <2>3, AppendStep
  <2>4. CASE RamHit(p)
    BY <2>4, RamHitStep
  <2>5. CASE RamMiss(p) \/ DiskMiss(p)
    BY <2>5, MissStep
  <2>6. CASE DiskHit(p)
    BY <2>6, DiskHitStep
  <2>7. CASE Promote(p)
    BY <2>7, PromoteStep
  <2>8. CASE SemanticHit(p) \/ SemanticMiss(p)
    BY <2>8, SemanticStep
  <2> QED BY <1>1, <2>1, <2>2, <2>3, <2>4, <2>5, <2>6, <2>7, <2>8 DEF Step
<1>2. CASE Reboot
  BY <1>2, RebootStep
<1>3. CASE Tick \/ UNCHANGED vars
  BY <1>3, IdleStep
<1> QED BY <1>1, <1>2, <1>3 DEF Next

(* Every reachable state satisfies the invariant.                          *)
LEMMA Invariance == Spec => []StoreInv
<1>1. Init => StoreInv
  BY InitInv
<1>2. StoreInv /\ [Next]_vars => StoreInv'
  BY StepInv
<1> QED BY <1>1, <1>2, PTL DEF Spec

-----------------------------------------------------------------------------
(* Whoever sets, looks up, evicts, appends and promotes at the same time,  *)
(* through reboots, appends that fail and writes cut short: a key has one  *)
(* slot in RAM, RAM holds the value set last in this boot although older   *)
(* ones are read from the file and promoted, and the value set last is in  *)
(* RAM, in a whole record where disk_scan looks for one, or on its way; or *)
(* its append was refused, cut short, or came behind one cut short.        *)
THEOREM CacheCorrect == Spec => []CacheInv
<1>1. StoreInv => CacheInv
  <2> SUFFICES ASSUME StoreInv PROVE CacheInv
    OBVIOUS
  <2>1. SetIsKept
    BY DEF StoreInv, KeptInv, SetIsKept
  <2> QED BY <2>1 DEF StoreInv, CacheInv
<1> QED BY <1>1, Invariance, PTL

(* An exact lookup of a key overwritten before any record of it went to a  *)
(* file returns the value set last, from RAM or from the file, unless the  *)
(* append of that value failed.                                            *)
THEOREM LookupCorrect == Spec => []LastSetWins
<1>1. StoreInv => LastSetWins
  BY DEF StoreInv
<1> QED BY <1>1, Invariance, PTL

=============================================================================

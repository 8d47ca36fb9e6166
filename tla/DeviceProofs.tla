----------------------------- MODULE DeviceProofs -----------------------------
(***************************************************************************)
(* Proofs about the device drivers.                                        *)
(*                                                                         *)
(* virtio_disk.c, for any number of callers and descriptors: descriptors   *)
(* are neither lost nor shared and a call returns with its own transfer    *)
(* done, in whatever order the device completes requests.                  *)
(*                                                                         *)
(* uart.c under console.c and printf.c, for any number of writers and      *)
(* printers: messages come out whole and a sleeping writer is owed an      *)
(* interrupt, although bytes are sent by interrupt and by polling at once. *)
(*                                                                         *)
(* console.c, for any ring and number of readers: what is typed is read,   *)
(* whole and in order, its mirror is kept in step, and a REQ| line is not  *)
(* seen by readers.                                                        *)
(***************************************************************************)
EXTENDS VirtioDisk, Uart, Console, FiniteSetTheorems, SequenceTheorems,
        WellFoundedInduction, TLAPS

-----------------------------------------------------------------------------
(* The driver.  Its inductive invariant, in parts.                         *)

Submitted == avail \cup ToSet(used)

(* Where a caller is and what it has: from Submit to Complete a chain, and *)
(* its buffer belongs to the device until the handler has seen it done.    *)
Request(c) ==
  /\ idx[c] # NUM <=> rw[c] \in {"asleep on buffer", "woken"}
  /\ idx[c] = NUM => ~bdisk[c]
  /\ rw[c] = "idle" => c \in moved
  /\ idx[c] # NUM => info[idx[c]] = c
  /\ idx[c] # NUM /\ (~bdisk[c] \/ idx[c] \in ToSet(used)) => c \in moved
RequestInv == \A c \in Caller : Request(c)

(* DescriptorsConserved in two: who has which descriptors, and where the   *)
(* requests are.                                                           *)
Owned ==
  /\ \A d \in Desc : d \notin free <=> \E c \in Busy : d \in Chain(idx[c])
  /\ \A c, v \in Busy : c # v => Chain(idx[c]) \cap Chain(idx[v]) = {}
Placed ==
  /\ IsInjective(used) /\ avail \cap ToSet(used) = {}
  /\ \A c \in Busy : bdisk[c] <=> idx[c] \in Submitted

(* Whatever the device has, or has given back, is the head of a request.   *)
HeadInv == \A d \in Submitted : info[d] \in Caller /\ idx[info[d]] = d

DriverInv == /\ DiskTypeOK /\ RequestInv /\ HeadInv /\ Owned /\ Placed
             /\ NoLostCompletion /\ DescriptorWaitEnds

(* The used ring after the device has added a head.                        *)
LEMMA UsedGrows ==
  ASSUME NEW s \in Seq(Desc), NEW d \in Desc, d \notin ToSet(s), IsInjective(s)
  PROVE  /\ Append(s, d) \in Seq(Desc) /\ Append(s, d) # << >>
         /\ ToSet(Append(s, d)) = ToSet(s) \cup {d} /\ IsInjective(Append(s, d))
<1>1. /\ Append(s, d) \in Seq(Desc) /\ Len(s) \in Nat /\ DOMAIN s = 1 .. Len(s)
      /\ DOMAIN Append(s, d) = 1 .. Len(s) + 1
      /\ \A i \in 1 .. Len(s) : Append(s, d)[i] = s[i]
      /\ Append(s, d)[Len(s) + 1] = d /\ Append(s, d) # << >>
  OBVIOUS
<1>2. \A i \in 1 .. Len(s) : s[i] # d
  BY <1>1 DEF ToSet
<1>3. \A i \in 1 .. Len(s) + 1 : i \in 1 .. Len(s) \/ i = Len(s) + 1
  BY <1>1
<1>4. IsInjective(Append(s, d))
  BY <1>1, <1>2, <1>3 DEF IsInjective
<1>5. ToSet(Append(s, d)) = ToSet(s) \cup {d}
  <2>1. ASSUME NEW x \in ToSet(Append(s, d)) PROVE x \in ToSet(s) \cup {d}
    BY <2>1, <1>1, <1>3 DEF ToSet
  <2>2. ASSUME NEW x \in ToSet(s) PROVE x \in ToSet(Append(s, d))
    <3>1. PICK i \in 1 .. Len(s) : x = s[i]
      BY <1>1, <2>2 DEF ToSet
    <3>2. i \in 1 .. Len(s) + 1 /\ Append(s, d)[i] = x
      BY <1>1, <3>1
    <3> QED BY <1>1, <3>2 DEF ToSet
  <2>3. d \in ToSet(Append(s, d))
    <3>1. Len(s) + 1 \in 1 .. Len(s) + 1
      BY <1>1
    <3> QED BY <1>1, <3>1 DEF ToSet
  <2> QED BY <2>1, <2>2, <2>3
<1> QED BY <1>1, <1>4, <1>5

(* The used ring after the handler has taken its oldest head.              *)
LEMMA UsedShrinks ==
  ASSUME NEW s \in Seq(Desc), s # << >>, IsInjective(s)
  PROVE  /\ Head(s) \in ToSet(s) /\ Head(s) \in Desc /\ Tail(s) \in Seq(Desc)
         /\ ToSet(Tail(s)) = ToSet(s) \ {Head(s)} /\ IsInjective(Tail(s))
<1>1. /\ Len(s) \in Nat /\ Len(s) >= 1 /\ DOMAIN s = 1 .. Len(s) /\ Head(s) = s[1]
      /\ Tail(s) \in Seq(Desc) /\ DOMAIN Tail(s) = 1 .. Len(s) - 1
      /\ \A i \in 1 .. Len(s) - 1 : Tail(s)[i] = s[i + 1]
      /\ \A i \in 1 .. Len(s) : s[i] \in Desc
  OBVIOUS
<1>2. \A i \in 1 .. Len(s) - 1 : i + 1 \in 1 .. Len(s) /\ i + 1 # 1
  BY <1>1
<1>3. 1 \in 1 .. Len(s)
  BY <1>1
<1>4. IsInjective(Tail(s))
  <2> SUFFICES ASSUME NEW i \in 1 .. Len(s) - 1, NEW j \in 1 .. Len(s) - 1, Tail(s)[i] = Tail(s)[j]
               PROVE  i = j
    BY <1>1 DEF IsInjective
  <2>1. i + 1 = j + 1
    BY <1>1, <1>2 DEF IsInjective
  <2> QED BY <2>1
<1>5. Head(s) \in ToSet(s) /\ Head(s) \in Desc
  BY <1>1, <1>3 DEF ToSet
<1>6. ASSUME NEW x \in ToSet(Tail(s)) PROVE x \in ToSet(s) /\ x # Head(s)
  <2>1. PICK i \in 1 .. Len(s) - 1 : x = s[i + 1]
    BY <1>1, <1>6 DEF ToSet
  <2>2. s[i + 1] # s[1]
    BY <1>1, <1>2, <1>3 DEF IsInjective
  <2> QED BY <1>1, <1>2, <2>1, <2>2 DEF ToSet
<1>7. ASSUME NEW x \in ToSet(s), x # Head(s) PROVE x \in ToSet(Tail(s))
  <2>1. PICK i \in 1 .. Len(s) : x = s[i]
    BY <1>1, <1>7 DEF ToSet
  <2>2. i # 1
    BY <1>1, <1>7, <2>1
  <2>3. i - 1 \in 1 .. Len(s) - 1 /\ (i - 1) + 1 = i
    BY <1>1, <2>2
  <2>4. Tail(s)[i - 1] = x
    BY <1>1, <2>1, <2>3
  <2> QED BY <1>1, <2>3, <2>4 DEF ToSet
<1> QED BY <1>1, <1>4, <1>5, <1>6, <1>7

(* Any set of naturals that has members has a least one.                   *)
LEMMA HasMin ==
  ASSUME NEW S \in SUBSET Nat, S # {}
  PROVE  Min(S) \in S
<1> DEFINE R == OpToRel(<, Nat)
<1>1. IsWellFoundedOn(R, Nat)
  BY NatLessThanWellFounded
<1>2. \A a, b \in Nat : <<a, b>> \in R <=> a < b
  BY DEF OpToRel
<1> HIDE DEF R
<1>3. PICK x \in S : \A y \in S : ~ (<<y, x>> \in R)
  BY <1>1, WFMin
<1>4. \A y \in S : ~ (y < x)
  BY <1>2, <1>3
<1>5. \E z \in S : \A y \in S : z <= y
  BY <1>4
<1> QED BY <1>5 DEF Min

(* Three free descriptors are three different ones.                        *)
LEMMA ThreeFree ==
  ASSUME DiskTypeOK, Cardinality(free) >= 3
  PROVE  \E a, b, c \in free : alloc3_desc = <<a, b, c>> /\ a # b /\ b # c /\ a # c
<1>1. NUM \in Nat /\ IsFiniteSet(Desc) /\ Desc \subseteq Nat
  BY DiskAssumption, FS_Interval DEF Desc
<1>2. IsFiniteSet(free) /\ free \subseteq Nat /\ Cardinality(free) \in Nat
  BY <1>1, FS_Subset, FS_CardinalityType DEF DiskTypeOK
<1>3. free # {}
  BY <1>2, FS_EmptySet
<1>4. PICK a \in free : a = Min(free)
  BY <1>2, <1>3, HasMin
<1>5. /\ IsFiniteSet(free \ {a}) /\ Cardinality(free \ {a}) = Cardinality(free) - 1
  BY <1>2, FS_RemoveElement
<1>6. free \ {a} # {}
  BY <1>2, <1>5, FS_EmptySet
<1>7. PICK b \in free \ {a} : b = Min(free \ {a})
  BY <1>2, <1>6, HasMin
<1>8. /\ IsFiniteSet((free \ {a}) \ {b})
      /\ Cardinality((free \ {a}) \ {b}) = Cardinality(free \ {a}) - 1
  BY <1>5, FS_RemoveElement
<1>9. free \ {a, b} # {}
  <2>1. (free \ {a}) \ {b} # {}
    BY <1>2, <1>5, <1>8, FS_EmptySet
  <2> QED BY <2>1
<1>10. PICK c \in free \ {a, b} : c = Min(free \ {a, b})
  BY <1>2, <1>9, HasMin
<1>11. alloc3_desc = <<a, b, c>>
  BY <1>4, <1>7, <1>10 DEF alloc3_desc, alloc_desc
<1> QED BY <1>11

(* With too few free, some request has the others.                         *)
LEMMA SomeBusy ==
  ASSUME DiskTypeOK, Owned, Cardinality(free) < 3
  PROVE  Busy # {}
<1> SUFFICES ASSUME Busy = {} PROVE FALSE
  OBVIOUS
<1>1. free = Desc
  BY DEF DiskTypeOK, Owned
<1>2. Cardinality(Desc) = NUM
  BY DiskAssumption, FS_Interval DEF Desc
<1> QED BY <1>1, <1>2, DiskAssumption

(* A chain is of descriptors, its head among them.                         *)
LEMMA ChainIn ==
  ASSUME DiskTypeOK, NEW d \in Desc
  PROVE  Chain(d) \subseteq Desc /\ d \in Chain(d)
<1>1. \A x \in 0 .. NUM : x \in Desc \/ x = NUM
  BY DiskAssumption DEF Desc
<1>2. \A v \in Desc : next[v] \in Desc \/ next[v] = NUM
  BY <1>1 DEF DiskTypeOK
<1> QED BY <1>2 DEF Chain

(* A chain stays the same as long as the next fields of its members do.    *)
LEMMA ChainKept ==
  ASSUME DiskTypeOK, NEW d \in Desc, \A v \in Chain(d) : next'[v] = next[v]
  PROVE  Chain(d)' = Chain(d)
<1>1. d \in Chain(d) /\ (next[d] # NUM => next[d] \in Chain(d))
  BY DEF Chain
<1> QED BY <1>1 DEF Chain

(* The invariant holds after virtio_disk_init.                             *)
LEMMA DriverInit == virtio_disk_init => DriverInv
<1> SUFFICES ASSUME virtio_disk_init PROVE DriverInv
  OBVIOUS
<1>1. ToSet(<< >>) = {} /\ IsInjective(<< >>) /\ << >> \in Seq(Desc)
  BY DEF ToSet, IsInjective
<1>2. NUM \in 0 .. NUM
  BY DiskAssumption
<1>3. Busy = {}
  BY DEF virtio_disk_init, Busy
<1>4. DiskTypeOK
  BY <1>1, <1>2 DEF virtio_disk_init, DiskTypeOK
<1>5. RequestInv
  BY DEF virtio_disk_init, RequestInv, Request
<1>6. HeadInv /\ Owned /\ Placed /\ NoLostCompletion /\ DescriptorWaitEnds
  BY <1>1, <1>3 DEF virtio_disk_init, HeadInv, Submitted, Owned, Placed, NoLostCompletion, DescriptorWaitEnds
<1> QED BY <1>4, <1>5, <1>6 DEF DriverInv

(* The head of a busy caller's chain is a descriptor.                      *)
LEMMA HeadsApart ==
  ASSUME DiskTypeOK, NEW c \in Busy
  PROVE  idx[c] \in Desc
<1>1. idx[c] \in 0 .. NUM /\ idx[c] # NUM
  BY DEF Busy, DiskTypeOK
<1> QED BY <1>1, DiskAssumption DEF Desc

(* What the device has or gave back are descriptors.                       *)
LEMMA SubmittedHeads ==
  ASSUME DiskTypeOK
  PROVE  Submitted \subseteq Desc
<1>1. used \in Seq(Desc)
  BY DEF DiskTypeOK
<1>2. \A i \in DOMAIN used : used[i] \in Desc
  BY <1>1
<1> QED BY <1>2 DEF Submitted, DiskTypeOK, ToSet

(* Who has which descriptors is a matter of free, next and idx.            *)
LEMMA OwnedKept ==
  ASSUME Owned, UNCHANGED <<free, next, idx>>
  PROVE  Owned' /\ Busy' = Busy
<1>1. Busy' = Busy /\ \A d : Chain(d)' = Chain(d)
  BY DEF Busy, Chain
<1> QED BY <1>1 DEF Owned

(* virtio_disk_rw is called.                                               *)
LEMMA CallStep ==
  ASSUME DriverInv, NEW c \in Caller, Call(c)
  PROVE  DriverInv'
<1> USE DEF DriverInv
<1>1. /\ rw[c] = "idle" /\ rw' = [rw EXCEPT ![c] = "alloc"] /\ moved' = moved \ {c}
      /\ UNCHANGED <<free, next, info, bdisk, avail, used, irq, serving, idx>>
  BY DEF Call
<1>2. \A v \in Caller : rw'[v] = IF v = c THEN "alloc" ELSE rw[v]
  BY <1>1 DEF DiskTypeOK
<1>3. DiskTypeOK'
  BY <1>1 DEF DiskTypeOK
<1>4. Owned' /\ Busy' = Busy
  BY <1>1, OwnedKept
<1>5. idx[c] = NUM
  BY <1>1 DEF RequestInv, Request
<1>6. RequestInv'
  <2> SUFFICES ASSUME NEW v \in Caller PROVE Request(v)'
    BY DEF RequestInv
  <2>1. CASE v = c
    <3>1. rw'[c] = "alloc" /\ idx'[c] = NUM /\ bdisk'[c] = bdisk[c] /\ ~bdisk[c]
      BY <1>1, <1>2, <1>5 DEF RequestInv, Request
    <3> QED BY <2>1, <3>1 DEF Request
  <2>2. CASE v # c
    <3>1. rw'[v] = rw[v] /\ (v \in moved' <=> v \in moved)
      BY <1>1, <1>2, <2>2
    <3> QED BY <1>1, <3>1 DEF RequestInv, Request
  <2> QED BY <2>1, <2>2
<1>7. HeadInv' /\ Placed' /\ NoLostCompletion'
  BY <1>1, <1>4 DEF HeadInv, Placed, Submitted, NoLostCompletion
<1>8. DescriptorWaitEnds'
  BY <1>2, <1>4 DEF DescriptorWaitEnds
<1> QED BY <1>3, <1>4, <1>6, <1>7, <1>8

(* A chain is made and handed to the device.                               *)
LEMMA SubmitStep ==
  ASSUME DriverInv, NEW c \in Caller, Submit(c)
  PROVE  DriverInv'
<1> USE DEF DriverInv
<1>0. Cardinality(free) >= 3
  BY DEF Submit
<1>1. PICK x, y, z \in free : alloc3_desc = <<x, y, z>> /\ x # y /\ y # z /\ x # z
  BY <1>0, ThreeFree
<1>2. /\ rw[c] = "alloc" /\ free' = free \ {x, y, z}
      /\ next' = [next EXCEPT ![x] = y, ![y] = z, ![z] = NUM]
      /\ info' = [info EXCEPT ![x] = c] /\ bdisk' = [bdisk EXCEPT ![c] = TRUE]
      /\ idx' = [idx EXCEPT ![c] = x] /\ avail' = avail \cup {x}
      /\ rw' = [rw EXCEPT ![c] = "asleep on buffer"]
      /\ UNCHANGED <<used, irq, serving, moved>>
  <2>1. ToSet(<<x, y, z>>) = {x, y, z} /\ <<x, y, z>>[1] = x /\ <<x, y, z>>[2] = y /\ <<x, y, z>>[3] = z
    BY DEF ToSet
  <2> QED BY <1>1, <2>1 DEF Submit
<1>3. /\ x \in Desc /\ y \in Desc /\ z \in Desc /\ x \in 0 .. NUM /\ y \in 0 .. NUM /\ z \in 0 .. NUM
      /\ x # NUM /\ y # NUM /\ z # NUM
  <2>1. \A d \in Desc : d \in 0 .. NUM /\ d # NUM
    BY DiskAssumption DEF Desc
  <2> QED BY <2>1 DEF DiskTypeOK
<1>4. /\ rw'[c] = "asleep on buffer" /\ idx'[c] = x /\ bdisk'[c]
      /\ info'[x] = c /\ next'[x] = y /\ next'[y] = z
  BY <1>1, <1>2, <1>3 DEF DiskTypeOK
<1>a. \A v \in Caller : v # c => rw'[v] = rw[v] /\ idx'[v] = idx[v] /\ bdisk'[v] = bdisk[v]
  BY <1>2 DEF DiskTypeOK
<1>b. \A d \in Desc : d # x => info'[d] = info[d]
  BY <1>2 DEF DiskTypeOK
<1>c. \A d \in Desc : d \notin {x, y, z} => next'[d] = next[d]
  BY <1>2 DEF DiskTypeOK
<1>5. DiskTypeOK'
  <2>1. NUM \in 0 .. NUM
    BY DiskAssumption
  <2> QED BY <1>2, <1>3, <2>1 DEF DiskTypeOK
<1>6. idx[c] = NUM /\ c \notin Busy
  BY <1>2 DEF RequestInv, Request, Busy
<1>7. Busy' = Busy \cup {c}
  <2> HIDE DEF DriverInv
  <2>1. c \in Busy'
    BY <1>3, <1>4 DEF Busy
  <2>2. \A v \in Caller : v # c => (v \in Busy' <=> v \in Busy)
    BY <1>a DEF Busy
  <2>3. Busy \subseteq Caller /\ Busy' \subseteq Caller
    BY DEF Busy
  <2> QED BY <2>1, <2>2, <2>3
<1>8. \A v \in Busy : /\ v \in Caller /\ v # c /\ idx'[v] = idx[v] /\ idx[v] \in Desc
                       /\ idx[v] \in Chain(idx[v]) /\ Chain(idx[v]) \subseteq Desc \ free
  <2> SUFFICES ASSUME NEW v \in Busy
               PROVE  /\ v \in Caller /\ v # c /\ idx'[v] = idx[v] /\ idx[v] \in Desc
                      /\ idx[v] \in Chain(idx[v]) /\ Chain(idx[v]) \subseteq Desc \ free
    OBVIOUS
  <2>1. v \in Caller /\ v # c
    BY <1>6 DEF Busy
  <2>2. idx[v] \in Desc /\ idx[v] \in Chain(idx[v]) /\ Chain(idx[v]) \subseteq Desc
    BY HeadsApart, ChainIn
  <2>3. \A d \in Chain(idx[v]) : d \notin free
    BY <2>2 DEF Owned
  <2> QED BY <1>a, <2>1, <2>2, <2>3
<1>9. \A v \in Busy : Chain(idx[v])' = Chain(idx[v])
  <2> SUFFICES ASSUME NEW v \in Busy PROVE Chain(idx[v])' = Chain(idx[v])
    OBVIOUS
  <2>1. PICK h \in Desc : h = idx[v]
    BY <1>8
  <2>2. \A d \in Chain(h) : next'[d] = next[d]
    BY <1>8, <1>c, <2>1
  <2>3. Chain(h)' = Chain(h)
    BY <2>2, ChainKept
  <2>4. idx'[v] = h
    BY <1>8, <2>1
  <2> QED BY <2>1, <2>3, <2>4 DEF Chain
<1>10. Chain(idx[c])' = {x, y, z}
  <2>1. Chain(x)' = {x, y, z}
    BY <1>3, <1>4 DEF Chain
  <2> QED BY <1>4, <2>1 DEF Chain
<1>11. Owned'
  <2>1. ASSUME NEW d \in Desc
        PROVE  d \notin free' <=> \E v \in Busy' : d \in Chain(idx[v])'
    <3>1. (\E v \in Busy' : d \in Chain(idx[v])') <=> d \in {x, y, z} \/ \E v \in Busy : d \in Chain(idx[v])
      BY <1>7, <1>9, <1>10
    <3>2. (\E v \in Busy : d \in Chain(idx[v])) <=> d \notin free
      BY DEF Owned
    <3> QED BY <1>2, <3>1, <3>2
  <2>2. ASSUME NEW v \in Busy', NEW g \in Busy', v # g
        PROVE  Chain(idx[v])' \cap Chain(idx[g])' = {}
    <3>1. CASE v \in Busy /\ g \in Busy
      BY <1>9, <2>2, <3>1 DEF Owned
    <3>2. CASE v = c
      <4>1. g \in Busy
        BY <1>7, <2>2, <3>2
      <4> QED BY <1>8, <1>9, <1>10, <3>2, <4>1
    <3>3. CASE g = c
      <4>1. v \in Busy
        BY <1>7, <2>2, <3>3
      <4> QED BY <1>8, <1>9, <1>10, <3>3, <4>1
    <3> QED BY <1>7, <3>1, <3>2, <3>3
  <2> QED BY <2>1, <2>2 DEF Owned
<1>12. x \notin Submitted
  <2>1. SUFFICES ASSUME x \in Submitted PROVE FALSE
    OBVIOUS
  <2>2. info[x] \in Caller /\ idx[info[x]] = x
    BY <2>1 DEF HeadInv
  <2>3. info[x] \in Busy
    BY <1>3, <2>2 DEF Busy
  <2> QED BY <1>8, <2>2, <2>3
<1>13. Submitted' = Submitted \cup {x}
  BY <1>2 DEF Submitted
<1>14. \A v \in Busy : idx[v] # x
  BY <1>8
<1>15. HeadInv'
  <2> SUFFICES ASSUME NEW d \in Submitted' PROVE info'[d] \in Caller /\ idx'[info'[d]] = d
    BY DEF HeadInv
  <2>1. CASE d = x
    BY <1>4, <2>1
  <2>2. CASE d # x
    <3>1. d \in Submitted
      BY <1>13, <2>2
    <3>2. d \in Desc
      BY <3>1, SubmittedHeads
    <3>3. info[d] \in Caller /\ idx[info[d]] = d
      BY <3>1 DEF HeadInv
    <3>4. info'[d] = info[d] /\ info[d] # c
      BY <1>6, <1>b, <2>2, <3>2, <3>3, DiskAssumption DEF Desc
    <3> QED BY <1>a, <3>3, <3>4
  <2> QED BY <2>1, <2>2
<1>16. Placed'
  <2>1. avail' \cap ToSet(used') = {}
    BY <1>2, <1>12 DEF Placed, Submitted
  <2>2. ASSUME NEW v \in Busy' PROVE bdisk'[v] <=> idx'[v] \in Submitted'
    <3>1. CASE v = c
      BY <1>4, <1>13, <3>1
    <3>2. CASE v \in Busy
      <4>1. bdisk'[v] = bdisk[v] /\ idx'[v] = idx[v] /\ idx[v] # x
        BY <1>8, <1>a, <1>14, <3>2
      <4>2. bdisk[v] <=> idx[v] \in Submitted
        BY <3>2 DEF Placed
      <4> QED BY <1>13, <4>1, <4>2
    <3> QED BY <1>7, <3>1, <3>2
  <2> QED BY <1>2, <2>1, <2>2 DEF Placed
<1>17. RequestInv'
  <2> SUFFICES ASSUME NEW v \in Caller PROVE Request(v)'
    BY DEF RequestInv
  <2>1. CASE v = c
    <3>1. x \notin ToSet(used')
      BY <1>2, <1>12 DEF Submitted
    <3> QED BY <1>3, <1>4, <2>1, <3>1 DEF Request
  <2>2. CASE v # c /\ idx[v] = NUM
    <3>1. rw'[v] = rw[v] /\ idx'[v] = idx[v] /\ bdisk'[v] = bdisk[v] /\ moved' = moved
      BY <1>2, <1>a, <2>2
    <3> QED BY <2>2, <3>1 DEF RequestInv, Request
  <2>3. CASE v # c /\ idx[v] # NUM
    <3>1. v \in Busy
      BY <2>3 DEF Busy
    <3>2. rw'[v] = rw[v] /\ idx'[v] = idx[v] /\ bdisk'[v] = bdisk[v] /\ moved' = moved /\ used' = used
      BY <1>2, <1>a, <2>3
    <3>3. info'[idx[v]] = info[idx[v]]
      BY <1>8, <1>14, <1>b, <3>1
    <3> QED BY <3>2, <3>3 DEF RequestInv, Request
  <2> QED BY <2>1, <2>2, <2>3
<1>18. NoLostCompletion' /\ DescriptorWaitEnds'
  BY <1>2, <1>7 DEF NoLostCompletion, DescriptorWaitEnds
<1> QED BY <1>5, <1>11, <1>15, <1>16, <1>17, <1>18

(* Too few descriptors, and a kill of a sleeper: only callers without a    *)
(* chain change place, or one with a chain wakes.                          *)
LEMMA PlaceStep ==
  ASSUME DriverInv, UNCHANGED <<free, next, info, bdisk, avail, used, irq, serving, idx, moved>>,
         rw' \in [Caller -> {"idle", "alloc", "asleep for descriptors", "asleep on buffer", "woken"}],
         \A v \in Caller : /\ rw'[v] = "idle" <=> rw[v] = "idle"
                           /\ rw'[v] \in {"asleep on buffer", "woken"} <=> rw[v] \in {"asleep on buffer", "woken"},
         DescriptorWaitEnds'
  PROVE  DriverInv'
<1> USE DEF DriverInv
<1>1. DiskTypeOK'
  BY DEF DiskTypeOK
<1>2. Owned' /\ Busy' = Busy
  BY OwnedKept
<1>3. RequestInv'
  BY DEF RequestInv, Request
<1>4. HeadInv' /\ Placed' /\ NoLostCompletion'
  BY <1>2 DEF HeadInv, Placed, Submitted, NoLostCompletion
<1> QED BY <1>1, <1>2, <1>3, <1>4

(* alloc3_desc finds too few and the caller sleeps for them.               *)
LEMMA NoDescriptorsStep ==
  ASSUME DriverInv, NEW c \in Caller, NoDescriptors(c)
  PROVE  DriverInv'
<1> DEFINE P == {"idle", "alloc", "asleep for descriptors", "asleep on buffer", "woken"}
<1>1. /\ rw[c] = "alloc" /\ Cardinality(free) < 3
      /\ UNCHANGED <<free, next, info, bdisk, avail, used, irq, serving, idx, moved>>
  BY DEF NoDescriptors
<1>2. rw \in [Caller -> P] /\ WakeDesc(rw) \in [Caller -> P]
  BY DEF DriverInv, DiskTypeOK, WakeDesc
<1>3. PICK f \in [Caller -> P] :
        /\ rw' = [f EXCEPT ![c] = "asleep for descriptors"]
        /\ \A v \in Caller : f[v] = rw[v] \/ (rw[v] = "asleep for descriptors" /\ f[v] = "alloc")
  <2>1. \A v \in Caller : WakeDesc(rw)[v] = rw[v] \/ (rw[v] = "asleep for descriptors" /\ WakeDesc(rw)[v] = "alloc")
    BY DEF WakeDesc
  <2>2. CASE free = {}
    BY <1>2, <2>2 DEF NoDescriptors
  <2>3. CASE free # {}
    BY <1>2, <2>1, <2>3 DEF NoDescriptors
  <2> QED BY <2>2, <2>3
<1>4. rw' \in [Caller -> P] /\ \A v \in Caller : rw'[v] = IF v = c THEN "asleep for descriptors" ELSE f[v]
  BY <1>3
<1>5. \A v \in Caller : /\ rw'[v] = "idle" <=> rw[v] = "idle"
                        /\ rw'[v] \in {"asleep on buffer", "woken"} <=> rw[v] \in {"asleep on buffer", "woken"}
  BY <1>1, <1>3, <1>4
<1>6. DescriptorWaitEnds'
  <2>1. Busy # {}
    BY <1>1, SomeBusy DEF DriverInv
  <2> QED BY <1>1, <2>1 DEF DescriptorWaitEnds, Busy
<1> QED BY <1>1, <1>4, <1>5, <1>6, PlaceStep

(* kkill wakes a sleeper, which tests its condition again.                 *)
LEMMA KillStep ==
  ASSUME DriverInv, NEW c \in Caller, KillSleeper(c)
  PROVE  DriverInv'
<1> DEFINE P == {"idle", "alloc", "asleep for descriptors", "asleep on buffer", "woken"}
<1>1. /\ rw[c] \in {"asleep for descriptors", "asleep on buffer"}
      /\ UNCHANGED <<free, next, info, bdisk, avail, used, irq, serving, idx, moved>>
      /\ rw' = [rw EXCEPT ![c] = IF rw[c] = "asleep on buffer" THEN "woken" ELSE "alloc"]
  BY DEF KillSleeper
<1>2. rw \in [Caller -> P]
  BY DEF DriverInv, DiskTypeOK
<1>3. /\ rw' \in [Caller -> P] /\ \A v \in Caller : v # c => rw'[v] = rw[v]
      /\ rw[c] = "asleep on buffer" => rw'[c] = "woken"
      /\ rw[c] # "asleep on buffer" => rw'[c] = "alloc"
  BY <1>1, <1>2
<1>4. \A v \in Caller : /\ rw'[v] = "idle" <=> rw[v] = "idle"
                        /\ rw'[v] \in {"asleep on buffer", "woken"} <=> rw[v] \in {"asleep on buffer", "woken"}
  BY <1>1, <1>3
<1>5. DescriptorWaitEnds'
  <2>1. Busy' = Busy
    BY <1>1 DEF Busy
  <2> QED BY <1>3, <2>1 DEF DriverInv, DescriptorWaitEnds
<1> QED BY <1>1, <1>3, <1>4, <1>5, PlaceStep

(* WokenWriters with b->disk still set: the caller sleeps again.                  *)
LEMMA SpuriousStep ==
  ASSUME DriverInv, NEW c \in Caller, Complete(c), bdisk[c]
  PROVE  DriverInv'
<1> DEFINE P == {"idle", "alloc", "asleep for descriptors", "asleep on buffer", "woken"}
<1>1. /\ rw[c] = "woken" /\ rw' = [rw EXCEPT ![c] = "asleep on buffer"]
      /\ UNCHANGED <<free, next, info, bdisk, avail, used, irq, serving, idx, moved>>
  BY DEF Complete
<1>2. rw \in [Caller -> P]
  BY DEF DriverInv, DiskTypeOK
<1>3. /\ rw' \in [Caller -> P] /\ \A v \in Caller : v # c => rw'[v] = rw[v]
      /\ rw'[c] = "asleep on buffer"
  BY <1>1, <1>2
<1>4. \A v \in Caller : /\ rw'[v] = "idle" <=> rw[v] = "idle"
                        /\ rw'[v] \in {"asleep on buffer", "woken"} <=> rw[v] \in {"asleep on buffer", "woken"}
  BY <1>1, <1>3
<1>5. DescriptorWaitEnds'
  <2>1. Busy' = Busy
    BY <1>1 DEF Busy
  <2> QED BY <1>3, <2>1 DEF DriverInv, DescriptorWaitEnds
<1> QED BY <1>1, <1>3, <1>4, <1>5, PlaceStep

(* WokenWriters with b->disk clear: the chain is freed and the call returns.      *)
LEMMA CompleteStep ==
  ASSUME DriverInv, NEW c \in Caller, Complete(c), ~bdisk[c]
  PROVE  DriverInv'
<1> USE DEF DriverInv
<1>1. /\ rw[c] = "woken" /\ info' = [info EXCEPT ![idx[c]] = NoCaller]
      /\ free' = free \cup Chain(idx[c])
      /\ next' = [d \in Desc |-> IF d \in Chain(idx[c]) THEN NUM ELSE next[d]]
      /\ idx' = [idx EXCEPT ![c] = NUM] /\ rw' = WakeDesc([rw EXCEPT ![c] = "idle"])
      /\ UNCHANGED <<bdisk, avail, used, irq, serving, moved>>
  BY DEF Complete
<1>2. c \in Busy /\ idx[c] # NUM /\ c \in moved /\ info[idx[c]] = c
  BY <1>1 DEF RequestInv, Request, Busy
<1>3. PICK h \in Desc : h = idx[c]
  BY <1>2, HeadsApart
<1>4. Chain(h) \subseteq Desc /\ h \in Chain(h)
  BY ChainIn
<1>5. \A v \in Caller : v # c => /\ idx'[v] = idx[v]
                                 /\ rw'[v] = IF rw[v] = "asleep for descriptors" THEN "alloc" ELSE rw[v]
  BY <1>1 DEF DiskTypeOK, WakeDesc
<1>6. rw'[c] = "idle" /\ idx'[c] = NUM
  BY <1>1 DEF DiskTypeOK, WakeDesc
<1>7. /\ \A d \in Desc : d # h => info'[d] = info[d]
      /\ \A d \in Desc : d \notin Chain(h) => next'[d] = next[d]
  BY <1>1, <1>3 DEF DiskTypeOK
<1>8. DiskTypeOK'
  <2>1. NUM \in 0 .. NUM
    BY DiskAssumption
  <2>2. rw' \in [Caller -> {"idle", "alloc", "asleep for descriptors", "asleep on buffer", "woken"}]
    BY <1>1 DEF DiskTypeOK, WakeDesc
  <2>3. next' \in [Desc -> 0 .. NUM] /\ idx' \in [Caller -> 0 .. NUM]
    BY <1>1, <2>1 DEF DiskTypeOK
  <2>4. info' \in [Desc -> Caller \cup {NoCaller}] /\ free' \subseteq Desc
    BY <1>1, <1>3, <1>4 DEF DiskTypeOK
  <2> QED BY <1>1, <2>2, <2>3, <2>4 DEF DiskTypeOK
<1>9. Busy' = Busy \ {c}
  BY <1>5, <1>6 DEF Busy
<1>10. \A v \in Busy : v # c =>
         v \in Caller /\ idx[v] \in Desc /\ idx[v] \in Chain(idx[v]) /\ Chain(idx[v]) \subseteq Desc \ Chain(h)
  <2> SUFFICES ASSUME NEW v \in Busy, v # c
               PROVE  v \in Caller /\ idx[v] \in Desc /\ idx[v] \in Chain(idx[v]) /\ Chain(idx[v]) \subseteq Desc \ Chain(h)
    OBVIOUS
  <2>1. v \in Caller /\ idx[v] \in Desc /\ idx[v] \in Chain(idx[v]) /\ Chain(idx[v]) \subseteq Desc
    BY HeadsApart, ChainIn DEF Busy
  <2>2. Chain(idx[v]) \cap Chain(idx[c]) = {}
    BY <1>2 DEF Owned
  <2>3. Chain(idx[c]) = Chain(h)
    BY <1>3
  <2> QED BY <2>1, <2>2, <2>3
<1>11. \A v \in Busy' : Chain(idx[v])' = Chain(idx[v])
  <2> SUFFICES ASSUME NEW v \in Busy, v # c PROVE Chain(idx[v])' = Chain(idx[v])
    BY <1>9
  <2>1. PICK g \in Desc : g = idx[v]
    BY <1>10
  <2>2. \A d \in Chain(g) : next'[d] = next[d]
    BY <1>7, <1>10, <2>1
  <2>3. Chain(g)' = Chain(g)
    BY <2>2, ChainKept
  <2>4. idx'[v] = g
    BY <1>5, <1>10, <2>1
  <2> QED BY <2>1, <2>3, <2>4 DEF Chain
<1>12. Owned'
  <2>1. ASSUME NEW d \in Desc
        PROVE  d \notin free' <=> \E v \in Busy' : d \in Chain(idx[v])'
    <3>1. (\E v \in Busy' : d \in Chain(idx[v])') <=> \E v \in Busy : v # c /\ d \in Chain(idx[v])
      BY <1>9, <1>11
    <3>2. (\E v \in Busy : d \in Chain(idx[v])) <=> d \notin free
      BY DEF Owned
    <3>3. d \in free' <=> d \in free \/ d \in Chain(h)
      BY <1>1, <1>3
    <3>4. d \in Chain(idx[c]) <=> d \in Chain(h)
      BY <1>3
    <3> QED BY <1>2, <1>10, <3>1, <3>2, <3>3, <3>4
  <2>2. ASSUME NEW v \in Busy', NEW g \in Busy', v # g
        PROVE  Chain(idx[v])' \cap Chain(idx[g])' = {}
    BY <1>9, <1>11, <2>2 DEF Owned
  <2> QED BY <2>1, <2>2 DEF Owned
<1>13. h \notin Submitted /\ Submitted' = Submitted
  BY <1>1, <1>2, <1>3 DEF Placed, Submitted
<1>14. HeadInv'
  <2> SUFFICES ASSUME NEW d \in Submitted PROVE info'[d] \in Caller /\ idx'[info'[d]] = d
    BY <1>13 DEF HeadInv
  <2>1. d \in Desc /\ d # h
    BY <1>13, SubmittedHeads
  <2>2. info[d] \in Caller /\ idx[info[d]] = d
    BY DEF HeadInv
  <2>3. info'[d] = info[d] /\ info[d] # c
    BY <1>3, <1>7, <2>1, <2>2
  <2> QED BY <1>5, <2>2, <2>3
<1>15. Placed'
  <2>1. \A v \in Busy' : bdisk'[v] <=> idx'[v] \in Submitted'
    <3> SUFFICES ASSUME NEW v \in Busy, v # c PROVE bdisk'[v] <=> idx'[v] \in Submitted'
      BY <1>9
    <3>1. bdisk'[v] = bdisk[v] /\ idx'[v] = idx[v]
      BY <1>1, <1>5, <1>10
    <3> QED BY <1>13, <3>1 DEF Placed
  <2> QED BY <1>1, <2>1 DEF Placed
<1>16. RequestInv'
  <2> SUFFICES ASSUME NEW v \in Caller PROVE Request(v)'
    BY DEF RequestInv
  <2>1. CASE v = c
    BY <1>1, <1>2, <1>6, <2>1 DEF Request
  <2>2. CASE v # c /\ idx[v] = NUM
    <3>1. idx'[v] = idx[v] /\ bdisk'[v] = bdisk[v] /\ moved' = moved /\ ~bdisk[v]
      BY <1>1, <1>5, <2>2 DEF RequestInv, Request
    <3>2. rw[v] \notin {"asleep on buffer", "woken"} /\ (rw[v] = "idle" => v \in moved)
      BY <2>2 DEF RequestInv, Request
    <3>3. rw'[v] \notin {"asleep on buffer", "woken"} /\ (rw'[v] = "idle" => rw[v] = "idle")
      BY <1>5, <2>2, <3>2
    <3> QED BY <2>2, <3>1, <3>2, <3>3 DEF Request
  <2>3. CASE v # c /\ idx[v] # NUM
    <3>1. v \in Busy
      BY <2>3 DEF Busy
    <3>2. /\ idx'[v] = idx[v] /\ bdisk'[v] = bdisk[v] /\ moved' = moved /\ used' = used
          /\ rw[v] \in {"asleep on buffer", "woken"}
      BY <1>1, <1>5, <2>3 DEF RequestInv, Request
    <3>3. rw'[v] = rw[v]
      BY <1>5, <2>3, <3>2
    <3>4. idx[v] # h /\ info'[idx[v]] = info[idx[v]]
      BY <1>4, <1>7, <1>10, <2>3, <3>1
    <3> QED BY <3>2, <3>3, <3>4 DEF RequestInv, Request
  <2> QED BY <2>1, <2>2, <2>3
<1>17. NoLostCompletion'
  BY <1>1 DEF NoLostCompletion
<1>18. DescriptorWaitEnds'
  BY <1>5, <1>6 DEF DescriptorWaitEnds
<1> QED BY <1>8, <1>12, <1>14, <1>15, <1>16, <1>17, <1>18

(* The device transfers one request's data and puts it on the used ring.   *)
LEMMA DeviceStep ==
  ASSUME DriverInv, NEW d \in Desc, DeviceServes(d)
  PROVE  DriverInv'
<1> USE DEF DriverInv
<1>1. /\ d \in avail /\ avail' = avail \ {d} /\ used' = Append(used, d) /\ irq' = TRUE
      /\ moved' = moved \cup {info[d]} /\ UNCHANGED <<free, next, info, bdisk, serving, rw, idx>>
  BY DEF DeviceServes
<1>2. used \in Seq(Desc) /\ d \notin ToSet(used) /\ IsInjective(used)
  BY <1>1 DEF DiskTypeOK, Placed
<1>3. /\ used' \in Seq(Desc) /\ ToSet(used') = ToSet(used) \cup {d} /\ IsInjective(used')
  BY <1>1, <1>2, UsedGrows
<1>4. info[d] \in Caller /\ idx[info[d]] = d
  BY <1>1 DEF HeadInv, Submitted
<1>5. Submitted' = Submitted
  BY <1>1, <1>3 DEF Submitted
<1>6. DiskTypeOK'
  BY <1>1, <1>3, <1>4 DEF DiskTypeOK
<1>7. Owned' /\ Busy' = Busy
  BY <1>1, OwnedKept
<1>8. HeadInv'
  BY <1>1, <1>5 DEF HeadInv
<1>9. Placed'
  <2>1. avail' \cap ToSet(used') = {}
    BY <1>1, <1>3 DEF Placed
  <2> QED BY <1>1, <1>3, <1>5, <1>7, <2>1 DEF Placed
<1>10. RequestInv'
  <2> SUFFICES ASSUME NEW v \in Caller PROVE Request(v)'
    BY DEF RequestInv
  <2>1. CASE idx[v] = d
    <3>a. d # NUM
      BY DiskAssumption DEF Desc
    <3>1. v = info[d] /\ v \in moved'
      BY <1>1, <2>1, <3>a DEF RequestInv, Request
    <3> QED BY <1>1, <3>1 DEF RequestInv, Request
  <2>2. CASE idx[v] # d
    <3>1. idx[v] \in ToSet(used') <=> idx[v] \in ToSet(used)
      BY <1>3, <2>2
    <3>2. v \in moved => v \in moved'
      BY <1>1
    <3> QED BY <1>1, <3>1, <3>2 DEF RequestInv, Request
  <2> QED BY <2>1, <2>2
<1>11. NoLostCompletion' /\ DescriptorWaitEnds'
  BY <1>1, <1>7 DEF NoLostCompletion, DescriptorWaitEnds
<1> QED BY <1>6, <1>7, <1>8, <1>9, <1>10, <1>11

(* The handler takes the oldest head: its caller's buffer is its own again. *)
LEMMA IntrNextStep ==
  ASSUME DriverInv, IntrNext
  PROVE  DriverInv'
<1> USE DEF DriverInv
<1>1. PICK c, d : /\ d = Head(used) /\ c = info[d] /\ serving /\ used # << >> /\ used' = Tail(used)
                  /\ bdisk' = [bdisk EXCEPT ![c] = FALSE] /\ rw' = [rw EXCEPT ![c] = "woken"]
                  /\ UNCHANGED <<free, next, info, avail, irq, serving, idx, moved>>
  BY DEF IntrNext
<1>2. used \in Seq(Desc) /\ IsInjective(used)
  BY DEF DiskTypeOK, Placed
<1>3. /\ d \in ToSet(used) /\ d \in Desc /\ used' \in Seq(Desc)
      /\ ToSet(used') = ToSet(used) \ {d} /\ IsInjective(used')
  BY <1>1, <1>2, UsedShrinks
<1>4. c \in Caller /\ idx[c] = d /\ d # NUM /\ c \in moved
  <2>1. c \in Caller /\ idx[c] = d
    BY <1>1, <1>3 DEF HeadInv, Submitted
  <2>2. d # NUM
    BY <1>3, DiskAssumption DEF Desc
  <2> QED BY <1>3, <2>1, <2>2 DEF RequestInv, Request
<1>5. /\ rw'[c] = "woken" /\ ~bdisk'[c]
      /\ \A v \in Caller : v # c => rw'[v] = rw[v] /\ bdisk'[v] = bdisk[v]
  BY <1>1, <1>4 DEF DiskTypeOK
<1>6. DiskTypeOK'
  BY <1>1, <1>3 DEF DiskTypeOK
<1>7. Owned' /\ Busy' = Busy
  BY <1>1, OwnedKept
<1>8. d \notin avail /\ Submitted' = Submitted \ {d}
  BY <1>1, <1>3 DEF Submitted, Placed
<1>9. HeadInv'
  BY <1>1, <1>8 DEF HeadInv
<1>10. \A v \in Caller : idx[v] # NUM /\ v # c => idx[v] # d
  BY <1>1 DEF RequestInv, Request
<1>11. Placed'
  <2>1. ASSUME NEW v \in Busy PROVE bdisk'[v] <=> idx'[v] \in Submitted'
    <3>1. CASE v = c
      BY <1>1, <1>4, <1>5, <1>8, <3>1
    <3>2. CASE v # c
      <4>1. bdisk'[v] = bdisk[v] /\ idx'[v] = idx[v] /\ idx[v] # d
        BY <1>1, <1>5, <1>10, <3>2 DEF Busy
      <4>2. bdisk[v] <=> idx[v] \in Submitted
        BY DEF Placed
      <4> QED BY <1>8, <4>1, <4>2
    <3> QED BY <3>1, <3>2
  <2>2. avail' \cap ToSet(used') = {}
    BY <1>1, <1>3 DEF Placed
  <2> QED BY <1>3, <1>7, <2>1, <2>2 DEF Placed
<1>12. RequestInv'
  <2> SUFFICES ASSUME NEW v \in Caller PROVE Request(v)'
    BY DEF RequestInv
  <2>1. CASE v = c
    BY <1>1, <1>4, <1>5, <2>1 DEF RequestInv, Request
  <2>2. CASE v # c
    <3>1. rw'[v] = rw[v] /\ bdisk'[v] = bdisk[v] /\ (idx[v] \in ToSet(used') => idx[v] \in ToSet(used))
      BY <1>3, <1>5, <2>2
    <3> QED BY <1>1, <3>1 DEF RequestInv, Request
  <2> QED BY <2>1, <2>2
<1>13. NoLostCompletion'
  BY <1>1 DEF NoLostCompletion
<1>14. DescriptorWaitEnds'
  BY <1>5, <1>7 DEF DescriptorWaitEnds
<1> QED BY <1>6, <1>7, <1>9, <1>11, <1>12, <1>13, <1>14

(* The handler begins or ends; only irq and serving change.                *)
LEMMA IntrEdgeStep ==
  ASSUME DriverInv, IntrAck \/ IntrReturn \/ UNCHANGED diskVars
  PROVE  DriverInv'
<1> USE DEF DriverInv
<1>1. /\ UNCHANGED <<free, next, info, bdisk, avail, used, rw, idx, moved>>
      /\ irq' \in BOOLEAN /\ serving' \in BOOLEAN /\ NoLostCompletion'
  <2>1. CASE IntrAck
    BY <2>1 DEF IntrAck, NoLostCompletion
  <2>2. CASE IntrReturn
    BY <2>2 DEF IntrReturn, NoLostCompletion, DiskTypeOK
  <2>3. CASE UNCHANGED diskVars
    BY <2>3 DEF diskVars, NoLostCompletion, DiskTypeOK
  <2> QED BY <2>1, <2>2, <2>3
<1>2. DiskTypeOK'
  BY <1>1 DEF DiskTypeOK
<1>3. Owned' /\ Busy' = Busy
  BY <1>1, OwnedKept
<1>4. RequestInv'
  BY <1>1 DEF RequestInv, Request
<1>5. HeadInv' /\ Placed' /\ DescriptorWaitEnds'
  BY <1>1, <1>3 DEF HeadInv, Placed, Submitted, DescriptorWaitEnds
<1> QED BY <1>1, <1>2, <1>3, <1>4, <1>5

(* Every step keeps the invariant.                                         *)
LEMMA DriverNext == DriverInv /\ [DiskNext]_diskVars => DriverInv'
<1> SUFFICES ASSUME DriverInv, [DiskNext]_diskVars PROVE DriverInv'
  OBVIOUS
<1>1. ASSUME NEW c \in Caller,
             Call(c) \/ Submit(c) \/ NoDescriptors(c) \/ Complete(c) \/ KillSleeper(c)
      PROVE  DriverInv'
  BY <1>1, CallStep, SubmitStep, NoDescriptorsStep, SpuriousStep, CompleteStep, KillStep
<1>2. ASSUME NEW d \in Desc, DeviceServes(d) PROVE DriverInv'
  BY <1>2, DeviceStep
<1>3. CASE IntrAck \/ IntrNext \/ IntrReturn \/ UNCHANGED diskVars
  BY <1>3, IntrNextStep, IntrEdgeStep
<1> QED BY <1>1, <1>2, <1>3 DEF DiskNext

(* Descriptors are neither lost nor shared, virtio_disk_rw returns only    *)
(* with its own transfer done, no completion is overlooked and a caller    *)
(* out of descriptors has someone to wake it: for any number of callers    *)
(* and descriptors, whatever order the device completes requests in and    *)
(* whoever is killed meanwhile.                                            *)
THEOREM DiskCorrect == DiskSpec => []DiskInv
<1>1. DriverInv => DiskInv
  <2> SUFFICES ASSUME DriverInv PROVE DiskInv
    OBVIOUS
  <2>1. DescriptorsConserved
    BY DEF DriverInv, Owned, Placed, Submitted, DescriptorsConserved
  <2>2. ReturnMeansTransferred
    <3> SUFFICES ASSUME NEW c \in Caller, rw[c] = "idle" PROVE c \in moved /\ ~bdisk[c]
      BY DEF ReturnMeansTransferred
    <3> QED BY DEF DriverInv, RequestInv, Request
  <2> QED BY <2>1, <2>2 DEF DriverInv, DiskInv
<1> QED BY <1>1, DriverInit, DriverNext, PTL DEF DiskSpec

-----------------------------------------------------------------------------
(* The transmitter.  Its inductive invariant, in parts.                    *)

Byte == (Task \cup {Echo}) \X Nat \X Nat
Progress == [pc : {"idle", "send", "asleep", "poll", "put"}, i : 0 .. Bytes]

TransmitTypes ==
  /\ conswr \in Process \cup {NoTask} /\ pr \in Printer \cup {NoTask}
  /\ tx_busy \in BOOLEAN /\ thri \in BOOLEAN /\ torn \in BOOLEAN
  /\ intr \in {"none", "acked", "input", "poll", "put"}
  /\ fifo \in Seq(Byte)
  /\ task \in [Task -> Progress] /\ count \in [Task -> Nat]
  /\ last \in [{Process, Printer} -> Byte \cup {NoTask}]

(* Who writes has the lock of its kind, and who does not is at no byte.    *)
HolderInv ==
  /\ \A p \in Process : /\ task[p].pc \in {"idle", "send", "asleep"}
                        /\ task[p].pc # "idle" <=> conswr = p
                        /\ task[p].pc = "idle" => task[p].i = 0
  /\ \A t \in Printer : /\ task[t].pc \in {"idle", "poll", "put"}
                        /\ task[t].pc # "idle" <=> pr = t
                        /\ task[t].pc = "idle" => task[t].i = 0
                        /\ task[t].pc = "put" => task[t].i < Bytes

(* The device has at most one byte of a write(), one of a printf() and one *)
(* of the echo, and no byte of who is about to put one there.              *)
Has(K) == \E i \in 1 .. Len(fifo) : fifo[i][1] \in K
Lone(K) == \A i, j \in 1 .. Len(fifo) : fifo[i][1] \in K /\ fifo[j][1] \in K => i = j
FifoInv ==
  /\ Lone(Process) /\ Lone(Printer) /\ Lone({Echo})
  /\ Has(Process) => tx_busy
  /\ (\E t \in Printer : Pc(t, "put")) => ~Has(Printer)
  /\ intr = "put" => ~Has({Echo})

(* A device that is busy, or waited for, still interrupts.                 *)
OwedInv == tx_busy \/ (\E p \in Process : Pc(p, "asleep")) =>
             fifo # << >> \/ thri \/ intr = "acked"

(* The last byte of a kind, v, is the one before what the lock's holder h  *)
(* writes next, unless h is to begin a message.                            *)
Latest(h, v) == h = NoTask \/ task[h].i = 0 \/ v = <<h, count[h], task[h].i - 1>>
Ordered(K, h) ==
  /\ \A i \in 1 .. Len(fifo) : fifo[i][1] \in K => Follows(last[K], fifo[i]) /\ Latest(h, fifo[i])
  /\ ~Has(K) => Latest(h, last[K])
OrderInv == Ordered(Process, conswr) /\ Ordered(Printer, pr)

TransmitInv == TransmitTypes /\ HolderInv /\ FifoInv /\ OwedInv /\ OrderInv /\ MessagesWhole

(* The bytes in the device: of three kinds, so no more than three.         *)
LEMMA FifoFact ==
  ASSUME TransmitInv
  PROVE  /\ fifo \in Seq(Byte) /\ Len(fifo) \in 0 .. 3
         /\ \A i \in 1 .. Len(fifo) : fifo[i] \in Byte /\ fifo[i][1] \in Task \cup {Echo}
         /\ fifo = << >> <=> Len(fifo) = 0
<1>1. fifo \in Seq(Byte) /\ Len(fifo) \in Nat
  BY DEF TransmitInv, TransmitTypes
<1>2. \A i \in 1 .. Len(fifo) : fifo[i] \in Byte
  BY <1>1, ElementOfSeq
<1>3. fifo = << >> <=> Len(fifo) = 0
  BY <1>1, EmptySeq
<1>4. \A i \in 1 .. Len(fifo) : fifo[i][1] \in Process \cup Printer \cup {Echo}
  BY <1>2 DEF Byte, Task
<1>5. Len(fifo) <= 3
  <2> SUFFICES ASSUME Len(fifo) > 3 PROVE FALSE
    BY <1>1
  <2>1. 1 \in 1 .. Len(fifo) /\ 2 \in 1 .. Len(fifo) /\ 3 \in 1 .. Len(fifo) /\ 4 \in 1 .. Len(fifo)
    BY <1>1
  <2>2. Lone(Process) /\ Lone(Printer) /\ Lone({Echo})
    BY DEF TransmitInv, FifoInv
  <2> QED BY <1>4, <2>1, <2>2 DEF Lone
<1>6. Len(fifo) \in 0 .. 3
  <2>1. PICK k \in Nat : k = Len(fifo)
    BY <1>1
  <2>2. k \in 0 .. 3
    BY <1>5, <2>1
  <2> QED BY <2>1, <2>2
<1> QED BY <1>1, <1>2, <1>3, <1>4, <1>6 DEF Task

(* Steps that neither fill nor empty the device.                           *)
LEMMA DeviceIdle ==
  ASSUME TransmitInv, UNCHANGED <<fifo, last, torn>>, TransmitTypes', HolderInv', OwedInv',
         Has(Process) => tx_busy', (\E t \in Printer : Pc(t, "put")') => ~Has(Printer),
         intr' = "put" => ~Has({Echo}),
         \A v \in Byte \cup {NoTask} : /\ Latest(conswr, v) => Latest(conswr, v)'
                                       /\ Latest(pr, v) => Latest(pr, v)'
  PROVE  TransmitInv'
<1>1. Has(Process)' = Has(Process) /\ Has(Printer)' = Has(Printer) /\ Has({Echo})' = Has({Echo})
  BY DEF Has
<1>2. FifoInv' /\ MessagesWhole'
  <2>1. Lone(Process)' /\ Lone(Printer)' /\ Lone({Echo})'
    BY DEF TransmitInv, FifoInv, Lone
  <2> QED BY <1>1, <2>1 DEF TransmitInv, FifoInv, MessagesWhole
<1>3. last[Process] \in Byte \cup {NoTask} /\ last[Printer] \in Byte \cup {NoTask}
  BY DEF TransmitInv, TransmitTypes
<1>4. Ordered(Process, conswr)'
  BY <1>1, <1>3, FifoFact DEF TransmitInv, OrderInv, Ordered, Follows
<1>5. Ordered(Printer, pr)'
  BY <1>1, <1>3, FifoFact DEF TransmitInv, OrderInv, Ordered, Follows
<1> QED BY <1>2, <1>4, <1>5 DEF TransmitInv, OrderInv

(* One task moves on.                                                      *)
LEMMA TaskMoves ==
  ASSUME TransmitInv, NEW t \in Task, NEW q \in Progress, task' = [task EXCEPT ![t] = q]
  PROVE  /\ task' \in [Task -> Progress] /\ task'[t] = q
         /\ \A u \in Task : u # t => task'[u] = task[u]
         /\ \A u \in Task : task[u] \in Progress /\ task[u].i \in 0 .. Bytes
         /\ [task[t] EXCEPT !.pc = "send"] = [pc |-> "send", i |-> task[t].i]
  BY DEF TransmitInv, TransmitTypes, Progress

(* It holds at the start.                                                  *)
LEMMA TransmitInit == UartInit => TransmitInv
<1> SUFFICES ASSUME UartInit PROVE TransmitInv
  OBVIOUS
<1>1. /\ fifo = << >> /\ Len(fifo) = 0 /\ fifo \in Seq(Byte) /\ ~torn
      /\ \A t \in Task : task[t] = [pc |-> "idle", i |-> 0]
      /\ last[Process] = NoTask /\ last[Printer] = NoTask /\ conswr = NoTask /\ pr = NoTask
  BY DEF UartInit
<1>2. TransmitTypes
  <2>1. [pc |-> "idle", i |-> 0] \in Progress
    BY UartAssumption DEF Progress
  <2>2. last \in [{Process, Printer} -> Byte \cup {NoTask}]
    BY DEF UartInit
  <2>3. task \in [Task -> Progress] /\ count \in [Task -> Nat]
    BY <2>1 DEF UartInit
  <2> QED BY <1>1, <2>2, <2>3 DEF UartInit, TransmitTypes
<1>3. HolderInv
  BY <1>1, UartAssumption DEF HolderInv, Task
<1>4. ~Has(Process) /\ ~Has(Printer) /\ Lone(Process) /\ Lone(Printer) /\ Lone({Echo})
  BY <1>1 DEF Has, Lone
<1>5. FifoInv /\ OwedInv
  BY <1>1, <1>4 DEF FifoInv, OwedInv, Pc, UartInit, Task
<1>6. OrderInv
  BY <1>1, <1>4 DEF OrderInv, Ordered, Latest
<1> QED BY <1>1, <1>2, <1>3, <1>5, <1>6 DEF TransmitInv, MessagesWhole

(* A record of progress with another place.                                *)
LEMMA PlaceFact ==
  ASSUME TransmitInv, NEW t \in Task, NEW x \in {"idle", "send", "asleep", "poll", "put"}, Proceeds(t, x)
  PROVE  /\ task' \in [Task -> Progress] /\ task'[t].pc = x /\ task'[t].i = task[t].i
         /\ \A u \in Task : u # t => task'[u] = task[u]
  BY DEF Proceeds, TransmitInv, TransmitTypes, Progress

(* A write() takes conswr_lock.                                            *)
LEMMA ConsoleWriteStep ==
  ASSUME TransmitInv, NEW p \in Process, consolewrite(p)
  PROVE  TransmitInv'
<1>1. /\ Pc(p, "idle") /\ conswr = NoTask /\ conswr' = p /\ Proceeds(p, "send")
      /\ UNCHANGED <<pr, tx_busy, fifo, thri, intr, count, last, torn>> /\ p \in Task
  BY DEF consolewrite, Task
<1>2. /\ task' \in [Task -> Progress] /\ task'[p].pc = "send" /\ task'[p].i = task[p].i
      /\ \A u \in Task : u # p => task'[u] = task[u]
  BY <1>1, PlaceFact
<1>3. TransmitTypes'
  BY <1>1, <1>2 DEF TransmitInv, TransmitTypes
<1>4. \A u \in Printer : u \in Task /\ u # p /\ task'[u] = task[u]
  BY <1>2, UartAssumption DEF Task
<1>5. HolderInv' /\ task[p].i = 0
  BY <1>1, <1>2, <1>4, UartAssumption DEF TransmitInv, HolderInv, Pc, Task
<1>6. OwedInv'
  BY <1>1, <1>2 DEF TransmitInv, OwedInv, Pc, Task
<1>7. (\E t \in Printer : Pc(t, "put")') => ~Has(Printer)
  BY <1>4 DEF TransmitInv, FifoInv, Pc
<1>8. \A v \in Byte \cup {NoTask} : (Latest(conswr, v) => Latest(conswr, v)') /\ (Latest(pr, v) => Latest(pr, v)')
  BY <1>1, <1>2, <1>4, <1>5 DEF Latest, TransmitInv, TransmitTypes
<1> QED BY <1>1, <1>3, <1>5, <1>6, <1>7, <1>8, DeviceIdle DEF TransmitInv, FifoInv

(* A writer finds the transmitter busy.                                    *)
LEMMA SendSleepStep ==
  ASSUME TransmitInv, NEW p \in Process, SendSleep(p)
  PROVE  TransmitInv'
<1>1. /\ Pc(p, "send") /\ tx_busy /\ Proceeds(p, "asleep")
      /\ UNCHANGED <<conswr, pr, tx_busy, fifo, thri, intr, count, last, torn>> /\ p \in Task
  BY DEF SendSleep, Task
<1>2. /\ task' \in [Task -> Progress] /\ task'[p].pc = "asleep" /\ task'[p].i = task[p].i
      /\ \A u \in Task : u # p => task'[u] = task[u]
  BY <1>1, PlaceFact
<1>3. TransmitTypes'
  BY <1>1, <1>2 DEF TransmitInv, TransmitTypes
<1>4. \A u \in Printer : u \in Task /\ u # p /\ task'[u] = task[u]
  BY <1>2, UartAssumption DEF Task
<1>5. HolderInv'
  BY <1>1, <1>2, <1>4, UartAssumption DEF TransmitInv, HolderInv, Pc, Task
<1>6. OwedInv'
  BY <1>1 DEF TransmitInv, OwedInv
<1>7. (\E t \in Printer : Pc(t, "put")') => ~Has(Printer)
  BY <1>4 DEF TransmitInv, FifoInv, Pc
<1>8. \A v \in Byte \cup {NoTask} : (Latest(conswr, v) => Latest(conswr, v)') /\ (Latest(pr, v) => Latest(pr, v)')
  BY <1>1, <1>2, <1>4 DEF Latest, TransmitInv, TransmitTypes, Task
<1> QED BY <1>1, <1>3, <1>5, <1>6, <1>7, <1>8, DeviceIdle DEF TransmitInv, FifoInv

(* A write() ends, all of it written or its buffer unreadable.             *)
LEMMA WriteEndStep ==
  ASSUME TransmitInv, NEW p \in Process, WriteDone(p) \/ WriteFault(p)
  PROVE  TransmitInv'
<1> DEFINE z == [pc |-> "idle", i |-> 0]
<1>1. /\ Pc(p, "send") /\ conswr' = NoTask
      /\ task' = [task EXCEPT ![p] = z] /\ count' = [count EXCEPT ![p] = @ + 1]
      /\ UNCHANGED <<pr, tx_busy, fifo, thri, intr, last, torn>> /\ p \in Task
  BY DEF WriteDone, WriteFault, Task
<1>2. z \in Progress /\ z.pc = "idle" /\ z.i = 0
  BY UartAssumption DEF Progress
<1> HIDE DEF z
<1>3. /\ task' \in [Task -> Progress] /\ task'[p] = z
      /\ \A u \in Task : u # p => task'[u] = task[u]
  BY <1>1, <1>2, TaskMoves
<1>4. count' \in [Task -> Nat] /\ \A u \in Task : u # p => count'[u] = count[u]
  BY <1>1 DEF TransmitInv, TransmitTypes
<1>5. TransmitTypes'
  BY <1>1, <1>3, <1>4 DEF TransmitInv, TransmitTypes
<1>6. \A u \in Printer : u \in Task /\ u # p /\ task'[u] = task[u]
  BY <1>3, UartAssumption DEF Task
<1>7. HolderInv' /\ conswr = p
  BY <1>1, <1>2, <1>3, <1>6, UartAssumption DEF TransmitInv, HolderInv, Pc, Task
<1>8. OwedInv'
  BY <1>1, <1>2, <1>3 DEF TransmitInv, OwedInv, Pc, Task
<1>9. (\E t \in Printer : Pc(t, "put")') => ~Has(Printer)
  BY <1>6 DEF TransmitInv, FifoInv, Pc
<1>10. \A v \in Byte \cup {NoTask} : Latest(conswr, v) => Latest(conswr, v)'
  BY <1>1, <1>7, UartAssumption DEF Latest
<1>11. \A v \in Byte \cup {NoTask} : Latest(pr, v) => Latest(pr, v)'
  BY <1>1, <1>4, <1>6 DEF Latest, TransmitInv, TransmitTypes
<1> QED BY <1>1, <1>5, <1>7, <1>8, <1>9, <1>10, <1>11, DeviceIdle DEF TransmitInv, FifoInv

(* A printf() takes pr.lock.                                               *)
LEMMA PrintfStep ==
  ASSUME TransmitInv, NEW t \in Printer, printf(t)
  PROVE  TransmitInv'
<1>1. /\ Pc(t, "idle") /\ pr = NoTask /\ pr' = t /\ Proceeds(t, "poll")
      /\ UNCHANGED <<conswr, tx_busy, fifo, thri, intr, count, last, torn>> /\ t \in Task
  BY DEF printf, Task
<1>2. /\ task' \in [Task -> Progress] /\ task'[t].pc = "poll" /\ task'[t].i = task[t].i
      /\ \A u \in Task : u # t => task'[u] = task[u]
  BY <1>1, PlaceFact
<1>3. TransmitTypes'
  BY <1>1, <1>2 DEF TransmitInv, TransmitTypes
<1>4. \A u \in Process : u \in Task /\ u # t /\ task'[u] = task[u]
  BY <1>2, UartAssumption DEF Task
<1>5. HolderInv' /\ task[t].i = 0
  BY <1>1, <1>2, <1>4, UartAssumption DEF TransmitInv, HolderInv, Pc, Task
<1>6. OwedInv'
  BY <1>1, <1>4 DEF TransmitInv, OwedInv, Pc
<1>7. (\E u \in Printer : Pc(u, "put")') => ~Has(Printer)
  BY <1>2 DEF TransmitInv, FifoInv, Pc, Task
<1>8. \A v \in Byte \cup {NoTask} : (Latest(conswr, v) => Latest(conswr, v)') /\ (Latest(pr, v) => Latest(pr, v)')
  BY <1>1, <1>2, <1>4, <1>5 DEF Latest, TransmitInv, TransmitTypes
<1> QED BY <1>1, <1>3, <1>5, <1>6, <1>7, <1>8, DeviceIdle DEF TransmitInv, FifoInv

(* A printer sees the transmitter empty.                                   *)
LEMMA PollStep ==
  ASSUME TransmitInv, NEW t \in Task, PollIdle(t)
  PROVE  TransmitInv'
<1>1. /\ Pc(t, "poll") /\ task[t].i < Bytes /\ fifo = << >> /\ Proceeds(t, "put")
      /\ UNCHANGED <<conswr, pr, tx_busy, fifo, thri, intr, count, last, torn>>
  BY DEF PollIdle
<1>2. /\ task' \in [Task -> Progress] /\ task'[t].pc = "put" /\ task'[t].i = task[t].i
      /\ \A u \in Task : u # t => task'[u] = task[u]
  BY <1>1, PlaceFact
<1>3. t \in Printer
  BY <1>1 DEF TransmitInv, HolderInv, Pc, Task
<1>4. TransmitTypes'
  BY <1>1, <1>2 DEF TransmitInv, TransmitTypes
<1>5. \A u \in Process : u \in Task /\ u # t /\ task'[u] = task[u]
  BY <1>2, <1>3, UartAssumption DEF Task
<1>6. HolderInv'
  BY <1>1, <1>2, <1>3, <1>5, UartAssumption DEF TransmitInv, HolderInv, Pc, Task
<1>7. OwedInv'
  BY <1>1, <1>5 DEF TransmitInv, OwedInv, Pc
<1>8. ~Has(Printer)
  BY <1>1, FifoFact DEF Has
<1>9. \A v \in Byte \cup {NoTask} : (Latest(conswr, v) => Latest(conswr, v)') /\ (Latest(pr, v) => Latest(pr, v)')
  BY <1>1, <1>2, <1>5 DEF Latest, TransmitInv, TransmitTypes, Task
<1> QED BY <1>1, <1>4, <1>6, <1>7, <1>8, <1>9, DeviceIdle DEF TransmitInv, FifoInv

(* A printf() ends.                                                        *)
LEMMA PrintDoneStep ==
  ASSUME TransmitInv, NEW t \in Task, PrintDone(t)
  PROVE  TransmitInv'
<1> DEFINE z == [pc |-> "idle", i |-> 0]
<1>1. /\ Pc(t, "poll") /\ task[t].i = Bytes /\ pr' = NoTask
      /\ task' = [task EXCEPT ![t] = z] /\ count' = [count EXCEPT ![t] = @ + 1]
      /\ UNCHANGED <<conswr, tx_busy, fifo, thri, intr, last, torn>>
  BY DEF PrintDone
<1>2. z \in Progress /\ z.pc = "idle" /\ z.i = 0
  BY UartAssumption DEF Progress
<1> HIDE DEF z
<1>3. /\ task' \in [Task -> Progress] /\ task'[t] = z
      /\ \A u \in Task : u # t => task'[u] = task[u]
  BY <1>1, <1>2, TaskMoves
<1>4. count' \in [Task -> Nat] /\ \A u \in Task : u # t => count'[u] = count[u]
  BY <1>1 DEF TransmitInv, TransmitTypes
<1>5. TransmitTypes'
  BY <1>1, <1>3, <1>4 DEF TransmitInv, TransmitTypes
<1>6. t \in Printer
  BY <1>1 DEF TransmitInv, HolderInv, Pc, Task
<1>7. \A u \in Process : u \in Task /\ u # t /\ task'[u] = task[u]
  BY <1>3, <1>6, UartAssumption DEF Task
<1>8. HolderInv' /\ pr = t
  BY <1>1, <1>2, <1>3, <1>6, <1>7, UartAssumption DEF TransmitInv, HolderInv, Pc, Task
<1>9. OwedInv'
  BY <1>1, <1>7 DEF TransmitInv, OwedInv, Pc
<1>10. (\E u \in Printer : Pc(u, "put")') => ~Has(Printer)
  BY <1>2, <1>3 DEF TransmitInv, FifoInv, Pc, Task
<1>11. \A v \in Byte \cup {NoTask} : Latest(pr, v) => Latest(pr, v)'
  BY <1>1, <1>8, UartAssumption DEF Latest
<1>12. \A v \in Byte \cup {NoTask} : Latest(conswr, v) => Latest(conswr, v)'
  BY <1>1, <1>4, <1>7 DEF Latest, TransmitInv, TransmitTypes
<1> QED BY <1>1, <1>5, <1>8, <1>9, <1>10, <1>11, <1>12, DeviceIdle DEF TransmitInv, FifoInv

(* The interrupt is acknowledged.                                          *)
LEMMA AckStep ==
  ASSUME TransmitInv, NEW typed \in BOOLEAN, UartAck(typed)
  PROVE  TransmitInv'
<1>1. /\ intr' = "acked" /\ thri' = FALSE
      /\ UNCHANGED <<conswr, pr, tx_busy, fifo, task, count, last, torn>>
  BY DEF UartAck
<1>2. TransmitTypes' /\ HolderInv' /\ OwedInv'
  BY <1>1 DEF TransmitInv, TransmitTypes, HolderInv, OwedInv
<1>3. (Has(Process) => tx_busy') /\ intr' # "put"
  BY <1>1 DEF TransmitInv, FifoInv
<1>4. (\E u \in Printer : Pc(u, "put")') => ~Has(Printer)
  BY <1>1 DEF TransmitInv, FifoInv, Pc
<1>5. \A v \in Byte \cup {NoTask} : (Latest(conswr, v) => Latest(conswr, v)') /\ (Latest(pr, v) => Latest(pr, v)')
  BY <1>1 DEF Latest
<1> QED BY <1>1, <1>2, <1>3, <1>4, <1>5, DeviceIdle

(* uartintr looks at the status register and wakes the writers.            *)
LEMMA UartIntrStep ==
  ASSUME TransmitInv, uartintr
  PROVE  TransmitInv'
<1>1. /\ intr = "acked" /\ intr' = "input"
      /\ UNCHANGED <<conswr, pr, fifo, thri, count, last, torn>>
  BY DEF uartintr
<1>2. CASE fifo # << >>
  <2>1. UNCHANGED <<tx_busy, task>>
    BY <1>2 DEF uartintr
  <2>2. TransmitTypes' /\ HolderInv' /\ OwedInv'
    BY <1>1, <1>2, <2>1 DEF TransmitInv, TransmitTypes, HolderInv, OwedInv
  <2>3. Has(Process) => tx_busy'
    BY <2>1 DEF TransmitInv, FifoInv
  <2>4. (\E u \in Printer : Pc(u, "put")') => ~Has(Printer)
    BY <2>1 DEF TransmitInv, FifoInv, Pc
  <2>5. \A v \in Byte \cup {NoTask} : (Latest(conswr, v) => Latest(conswr, v)') /\ (Latest(pr, v) => Latest(pr, v)')
    BY <1>1, <2>1 DEF Latest
  <2> QED BY <1>1, <2>2, <2>3, <2>4, <2>5, DeviceIdle
<1>3. CASE fifo = << >>
  <2>1. tx_busy' = FALSE /\ task' = WokenWriters
    BY <1>3 DEF uartintr
  <2>2. ~Has(Process) /\ ~Has(Printer)
    BY <1>3, FifoFact DEF Has
  <2>3. /\ task' \in [Task -> Progress]
        /\ \A u \in Task : /\ task'[u].i = task[u].i
                           /\ task'[u].pc = IF task[u].pc = "asleep" THEN "send" ELSE task[u].pc
    BY <2>1 DEF WokenWriters, Pc, TransmitInv, TransmitTypes, Progress
  <2>4. TransmitTypes'
    BY <1>1, <2>1, <2>3 DEF TransmitInv, TransmitTypes
  <2>5. HolderInv'
    BY <1>1, <2>3 DEF TransmitInv, HolderInv, Task
  <2>6. OwedInv'
    BY <2>1, <2>3 DEF OwedInv, Pc, Task
  <2>7. \A v \in Byte \cup {NoTask} : (Latest(conswr, v) => Latest(conswr, v)') /\ (Latest(pr, v) => Latest(pr, v)')
    BY <1>1, <2>3 DEF Latest, TransmitInv, TransmitTypes, Task
  <2> QED BY <1>1, <2>2, <2>4, <2>5, <2>6, <2>7, DeviceIdle
<1> QED BY <1>2, <1>3

(* The handler turns to a typed character, sees the transmitter empty, or  *)
(* returns.                                                                *)
LEMMA TypedStep ==
  ASSUME TransmitInv, consoleintr \/ EchoIdle \/ UartReturn
  PROVE  TransmitInv'
<1>1. /\ UNCHANGED <<conswr, pr, tx_busy, fifo, thri, task, count, last, torn>>
      /\ intr # "acked" /\ intr' \in {"poll", "put", "none"}
      /\ intr' = "put" => fifo = << >>
  BY DEF consoleintr, EchoIdle, UartReturn
<1>2. TransmitTypes' /\ HolderInv' /\ OwedInv'
  BY <1>1 DEF TransmitInv, TransmitTypes, HolderInv, OwedInv, Pc
<1>3. (Has(Process) => tx_busy') /\ ((\E u \in Printer : Pc(u, "put")') => ~Has(Printer))
  BY <1>1 DEF TransmitInv, FifoInv, Pc
<1>4. intr' = "put" => ~Has({Echo})
  BY <1>1, FifoFact DEF Has
<1>5. \A v \in Byte \cup {NoTask} : (Latest(conswr, v) => Latest(conswr, v)') /\ (Latest(pr, v) => Latest(pr, v)')
  BY <1>1 DEF Latest
<1> QED BY <1>1, <1>2, <1>3, <1>4, <1>5, DeviceIdle

(* A byte enters the device.                                               *)
LEMMA Added ==
  ASSUME TransmitInv, NEW b \in Byte, fifo' = Append(fifo, b)
  PROVE  /\ fifo' \in Seq(Byte) /\ Len(fifo') = Len(fifo) + 1 /\ fifo' # << >>
         /\ fifo'[Len(fifo) + 1] = b
         /\ \A i \in 1 .. Len(fifo) : fifo'[i] = fifo[i]
  BY AppendProperties DEF TransmitInv, TransmitTypes

(* A byte of a kind that the device has none of leaves it with one.        *)
LEMMA StaysLone ==
  ASSUME TransmitInv, NEW b \in Byte, fifo' = Append(fifo, b), NEW K, Lone(K), b[1] \in K => ~Has(K)
  PROVE  Lone(K)'
<1>1. /\ Len(fifo) \in Nat /\ Len(fifo') = Len(fifo) + 1
      /\ fifo'[Len(fifo) + 1] = b /\ \A i \in 1 .. Len(fifo) : fifo'[i] = fifo[i]
  BY Added, FifoFact
<1> SUFFICES ASSUME NEW i \in 1 .. Len(fifo'), NEW j \in 1 .. Len(fifo'),
                    fifo'[i][1] \in K, fifo'[j][1] \in K
             PROVE  i = j
  BY DEF Lone
<1>2. (i = Len(fifo) + 1 \/ i \in 1 .. Len(fifo)) /\ (j = Len(fifo) + 1 \/ j \in 1 .. Len(fifo))
  BY <1>1
<1> QED BY <1>1, <1>2 DEF Lone, Has

(* A byte of one kind does not concern the order of the other.             *)
LEMMA SameOrder ==
  ASSUME TransmitInv, NEW b \in Byte, fifo' = Append(fifo, b), UNCHANGED <<last, count>>,
         NEW K, NEW h, b[1] \notin K, Ordered(K, h),
         h # NoTask => task'[h] = task[h]
  PROVE  Ordered(K, h)' /\ (Has(K)' <=> Has(K))
<1>1. Has(K)' <=> Has(K)
  BY Added, FifoFact DEF Has
<1>2. \A v : Latest(h, v) => Latest(h, v)'
  BY DEF Latest
<1>3. \A i \in 1 .. Len(fifo') : fifo'[i][1] \in K => i \in 1 .. Len(fifo) /\ fifo'[i] = fifo[i]
  BY Added, FifoFact
<1>4. \A v : Follows(last[K], v) => Follows(last[K], v)'
  BY DEF Follows
<1> QED BY <1>1, <1>2, <1>3, <1>4 DEF Ordered

(* The byte after a task's last one.                                       *)
LEMMA ItsByte ==
  ASSUME TransmitInv, NEW t \in Task
  PROVE  <<t, count[t], task[t].i>> \in Byte
<1>1. count[t] \in Nat /\ task[t].i \in Nat
  BY UartAssumption DEF TransmitInv, TransmitTypes, Progress
<1> QED BY <1>1 DEF Byte

(* With no byte of its kind in the device, the holder's next byte follows  *)
(* what was sent, and the order of its kind is kept.                       *)
LEMMA NextOrder ==
  ASSUME TransmitInv, NEW K \in {Process, Printer}, NEW h \in K, ~Has(K), Ordered(K, h),
         task[h].i < Bytes, fifo' = Append(fifo, <<h, count[h], task[h].i>>),
         UNCHANGED <<last, count>>, task'[h].i = task[h].i + 1
  PROVE  Ordered(K, h)'
<1>1. h \in Task /\ h # NoTask /\ count[h] \in Nat /\ task[h].i \in Nat /\ last[K] \in Byte \cup {NoTask}
  BY UartAssumption DEF TransmitInv, TransmitTypes, Progress, Task
<1>2. PICK b \in Byte : b = <<h, count[h], task[h].i>>
  BY <1>1 DEF Byte
<1>3. Latest(h, last[K])
  BY DEF Ordered
<1>4. Follows(last[K], b)
  <2>1. CASE task[h].i = 0
    BY <1>2, <2>1 DEF Follows
  <2>2. CASE task[h].i # 0
    <3>1. last[K] = <<h, count[h], task[h].i - 1>>
      BY <1>1, <1>3, <2>2 DEF Latest
    <3>2. last[K] # NoTask
      BY <1>1, <2>2, <3>1, UartAssumption
    <3>3. b = <<last[K][1], last[K][2], last[K][3] + 1>>
      BY <1>1, <1>2, <3>1, UartAssumption
    <3> QED BY <3>2, <3>3 DEF Follows
  <2> QED BY <2>1, <2>2
<1>5. Latest(h, b)'
  BY <1>1, <1>2 DEF Latest
<1>6. Len(fifo) \in Nat /\ Len(fifo') = Len(fifo) + 1 /\ fifo'[Len(fifo) + 1] = b
  BY <1>2, Added, FifoFact
<1>7. \A i \in 1 .. Len(fifo) : fifo'[i][1] \notin K
  BY <1>2, Added DEF Has
<1>8. \A i \in 1 .. Len(fifo') : fifo'[i][1] \in K => fifo'[i] = b
  BY <1>6, <1>7
<1>9. Has(K)'
  BY <1>2, <1>6 DEF Has
<1>20. Follows(last[K], b)'
  BY <1>4 DEF Follows
<1> QED BY <1>5, <1>8, <1>9, <1>20 DEF Ordered

(* uartwrite sends a byte.                                                 *)
LEMMA SendByteStep ==
  ASSUME TransmitInv, NEW p \in Process, SendByte(p)
  PROVE  TransmitInv'
<1> DEFINE z == [task[p] EXCEPT !.i = @ + 1]
<1>1. /\ Pc(p, "send") /\ task[p].i < Bytes /\ ~tx_busy /\ tx_busy' = TRUE /\ thri' = FALSE
      /\ fifo' = Append(fifo, <<p, count[p], task[p].i>>)
      /\ UNCHANGED <<conswr, pr, intr, count, last, torn>> /\ p \in Task
  BY DEF SendByte, WriteThr, ByteOf, Task
<1>2. task' = [task EXCEPT ![p] = z] /\ task[p] \in Progress
  BY <1>1 DEF SendByte, TransmitInv, TransmitTypes
<1>3. z \in Progress /\ z.pc = task[p].pc /\ z.i = task[p].i + 1
  BY <1>1, <1>2, UartAssumption DEF Progress
<1> HIDE DEF z
<1>4. /\ task' \in [Task -> Progress] /\ task'[p] = z
      /\ \A u \in Task : u # p => task'[u] = task[u]
  BY <1>1, <1>2, <1>3, TaskMoves
<1>5. PICK b \in Byte : b = <<p, count[p], task[p].i>>
  BY <1>1, ItsByte
<1>6. /\ fifo' \in Seq(Byte) /\ Len(fifo') = Len(fifo) + 1 /\ fifo' # << >>
      /\ fifo'[Len(fifo) + 1] = b /\ \A i \in 1 .. Len(fifo) : fifo'[i] = fifo[i]
  BY <1>1, <1>5, Added
<1>7. TransmitTypes'
  BY <1>1, <1>4, <1>6 DEF TransmitInv, TransmitTypes
<1>8. \A u \in Printer : u \in Task /\ u # p /\ task'[u] = task[u]
  BY <1>4, UartAssumption DEF Task
<1>9. HolderInv' /\ conswr = p
  BY <1>1, <1>3, <1>4, <1>8, UartAssumption DEF TransmitInv, HolderInv, Pc, Task
<1>10. ~Has(Process)
  BY <1>1 DEF TransmitInv, FifoInv
<1>11. /\ Lone(Process)' /\ Lone(Printer)' /\ Lone({Echo})'
       /\ Has({Echo})' <=> Has({Echo})
  <2>1. b[1] = p /\ p \notin Printer /\ p \notin {Echo}
    BY <1>5, UartAssumption DEF Task
  <2>2. Lone(Process) /\ Lone(Printer) /\ Lone({Echo})
    BY DEF TransmitInv, FifoInv
  <2> QED BY <1>1, <1>5, <1>6, <1>10, <2>1, <2>2, StaysLone, FifoFact DEF Has
<1>12. Ordered(Process, conswr)'
  <2>1. Ordered(Process, p)'
    BY <1>1, <1>3, <1>4, <1>9, <1>10, NextOrder DEF TransmitInv, OrderInv
  <2> QED BY <1>1, <1>9, <2>1 DEF Ordered, Latest
<1>13. Ordered(Printer, pr)' /\ (Has(Printer)' <=> Has(Printer))
  <2>1. PICK h : h = pr
    OBVIOUS
  <2>2. h # NoTask => task'[h] = task[h]
    BY <1>8, <2>1 DEF TransmitInv, TransmitTypes
  <2>3. b[1] \notin Printer /\ Ordered(Printer, h)
    BY <1>5, <2>1, UartAssumption DEF TransmitInv, OrderInv
  <2>4. Ordered(Printer, h)' /\ (Has(Printer)' <=> Has(Printer))
    BY <1>1, <1>5, <2>2, <2>3, SameOrder
  <2> QED BY <1>1, <2>1, <2>4 DEF Ordered, Latest
<1>14. FifoInv'
  <2>1. (intr' = "put" => ~Has({Echo})') /\ tx_busy'
    BY <1>1, <1>11 DEF TransmitInv, FifoInv
  <2>2. (\E t \in Printer : Pc(t, "put")') => ~Has(Printer)'
    BY <1>8, <1>13 DEF TransmitInv, FifoInv, Pc
  <2> QED BY <1>11, <2>1, <2>2 DEF FifoInv
<1>15. OwedInv' /\ MessagesWhole'
  BY <1>1, <1>6 DEF OwedInv, TransmitInv, MessagesWhole
<1> QED BY <1>7, <1>9, <1>12, <1>13, <1>14, <1>15 DEF TransmitInv, OrderInv

(* uartputc_sync sends a byte.                                             *)
LEMMA PutByteStep ==
  ASSUME TransmitInv, NEW t \in Task, PutByte(t)
  PROVE  TransmitInv'
<1> DEFINE z == [pc |-> "poll", i |-> task[t].i + 1]
<1>1. /\ Pc(t, "put") /\ thri' = FALSE
      /\ fifo' = Append(fifo, <<t, count[t], task[t].i>>)
      /\ UNCHANGED <<conswr, pr, tx_busy, intr, count, last, torn>>
  BY DEF PutByte, WriteThr, ByteOf
<1>2. /\ t \in Printer /\ pr = t /\ task[t].i < Bytes /\ task[t] \in Progress
  BY <1>1 DEF TransmitInv, HolderInv, TransmitTypes, Pc, Task
<1>3. task' = [task EXCEPT ![t] = z]
  BY DEF PutByte, TransmitInv, TransmitTypes
<1>4. z \in Progress /\ z.pc = "poll" /\ z.i = task[t].i + 1
  BY <1>2, UartAssumption DEF Progress
<1> HIDE DEF z
<1>5. /\ task' \in [Task -> Progress] /\ task'[t] = z
      /\ \A u \in Task : u # t => task'[u] = task[u]
  BY <1>3, <1>4, TaskMoves
<1>6. PICK b \in Byte : b = <<t, count[t], task[t].i>>
  BY ItsByte
<1>7. /\ fifo' \in Seq(Byte) /\ Len(fifo') = Len(fifo) + 1 /\ fifo' # << >>
      /\ fifo'[Len(fifo) + 1] = b /\ \A i \in 1 .. Len(fifo) : fifo'[i] = fifo[i]
  BY <1>1, <1>6, Added
<1>8. TransmitTypes'
  BY <1>1, <1>5, <1>7 DEF TransmitInv, TransmitTypes
<1>9. \A u \in Process : u \in Task /\ u # t /\ task'[u] = task[u]
  BY <1>2, <1>5, UartAssumption DEF Task
<1>10. HolderInv'
  BY <1>1, <1>2, <1>4, <1>5, <1>9, UartAssumption DEF TransmitInv, HolderInv, Pc, Task
<1>11. ~Has(Printer)
  BY <1>1, <1>2 DEF TransmitInv, FifoInv
<1>12. /\ Lone(Process)' /\ Lone(Printer)' /\ Lone({Echo})'
       /\ Has({Echo})' <=> Has({Echo})
  <2>1. b[1] = t /\ t \notin Process /\ t \notin {Echo}
    BY <1>2, <1>6, UartAssumption DEF Task
  <2>2. Lone(Process) /\ Lone(Printer) /\ Lone({Echo})
    BY DEF TransmitInv, FifoInv
  <2> QED BY <1>1, <1>6, <1>7, <1>11, <2>1, <2>2, StaysLone, FifoFact DEF Has
<1>13. Ordered(Printer, pr)'
  <2>1. Ordered(Printer, t)'
    BY <1>1, <1>2, <1>4, <1>5, <1>11, NextOrder DEF TransmitInv, OrderInv
  <2> QED BY <1>1, <1>2, <2>1 DEF Ordered, Latest
<1>14. Ordered(Process, conswr)' /\ (Has(Process)' <=> Has(Process))
  <2>1. PICK h : h = conswr
    OBVIOUS
  <2>2. h # NoTask => task'[h] = task[h]
    BY <1>9, <2>1 DEF TransmitInv, TransmitTypes
  <2>3. b[1] \notin Process /\ Ordered(Process, h)
    BY <1>2, <1>6, <2>1, UartAssumption DEF TransmitInv, OrderInv
  <2>4. Ordered(Process, h)' /\ (Has(Process)' <=> Has(Process))
    BY <1>1, <1>6, <2>2, <2>3, SameOrder
  <2> QED BY <1>1, <2>1, <2>4 DEF Ordered, Latest
<1>15. FifoInv'
  <2>1. intr' = "put" => ~Has({Echo})'
    BY <1>1, <1>12 DEF TransmitInv, FifoInv
  <2>2. \A u \in Printer : ~Pc(u, "put")'
    BY <1>2, <1>4, <1>5, UartAssumption DEF TransmitInv, HolderInv, Pc, Task
  <2>3. Has(Process)' => tx_busy'
    BY <1>1, <1>14 DEF TransmitInv, FifoInv
  <2> QED BY <1>12, <2>1, <2>2, <2>3 DEF FifoInv
<1>16. OwedInv' /\ MessagesWhole'
  BY <1>1, <1>7 DEF OwedInv, TransmitInv, MessagesWhole
<1> QED BY <1>8, <1>10, <1>13, <1>14, <1>15, <1>16 DEF TransmitInv, OrderInv

(* The handler echoes a character.                                         *)
LEMMA EchoByteStep ==
  ASSUME TransmitInv, EchoByte
  PROVE  TransmitInv'
<1>1. PICK b : b = <<Echo, 0, 0>>
  OBVIOUS
<1>2. /\ intr = "put" /\ intr' = "input" /\ thri' = FALSE /\ fifo' = Append(fifo, b)
      /\ UNCHANGED <<conswr, pr, tx_busy, task, count, last, torn>>
  BY <1>1 DEF EchoByte, WriteThr
<1>3. b \in Byte /\ b[1] = Echo /\ b[1] \notin Process /\ b[1] \notin Printer
  BY <1>1, UartAssumption DEF Byte, Task
<1>4. fifo' \in Seq(Byte) /\ fifo' # << >>
  BY <1>2, <1>3, Added
<1>5. TransmitTypes' /\ HolderInv' /\ OwedInv' /\ MessagesWhole'
  BY <1>2, <1>4 DEF TransmitInv, TransmitTypes, HolderInv, OwedInv, MessagesWhole
<1>6. PICK h, g : h = conswr /\ g = pr
  OBVIOUS
<1>7. Ordered(Process, h) /\ Ordered(Printer, g)
  BY <1>6 DEF TransmitInv, OrderInv
<1>8. Ordered(Process, h)' /\ (Has(Process)' <=> Has(Process))
  BY <1>2, <1>3, <1>7, SameOrder
<1>9. Ordered(Printer, g)' /\ (Has(Printer)' <=> Has(Printer))
  BY <1>2, <1>3, <1>7, SameOrder
<1>10. OrderInv'
  BY <1>2, <1>6, <1>8, <1>9 DEF OrderInv, Ordered, Latest
<1>11. Lone(Process)' /\ Lone(Printer)' /\ Lone({Echo})'
  <2>1. Lone(Process) /\ Lone(Printer) /\ Lone({Echo}) /\ ~Has({Echo})
    BY <1>2 DEF TransmitInv, FifoInv
  <2> QED BY <1>2, <1>3, <2>1, StaysLone
<1>12. FifoInv'
  <2>1. (\E t \in Printer : Pc(t, "put")') => ~Has(Printer)'
    BY <1>2, <1>9 DEF TransmitInv, FifoInv, Pc
  <2>2. (Has(Process)' => tx_busy') /\ intr' # "put"
    BY <1>2, <1>8 DEF TransmitInv, FifoInv
  <2> QED BY <1>11, <2>1, <2>2 DEF FifoInv
<1> QED BY <1>5, <1>10, <1>12 DEF TransmitInv

(* The oldest byte leaves the device.                                      *)
LEMMA Sent ==
  ASSUME TransmitInv, fifo # << >>
  PROVE  /\ Head(fifo) = fifo[1] /\ Tail(fifo) \in Seq(Byte) /\ Len(Tail(fifo)) = Len(fifo) - 1
         /\ \A i \in 1 .. Len(fifo) - 1 : Tail(fifo)[i] = fifo[i + 1]
<1>1. fifo \in Seq(Byte)
  BY DEF TransmitInv, TransmitTypes
<1> QED BY <1>1, HeadTailProperties

(* What is left was there before, one place further back.                  *)
LEMMA Left ==
  ASSUME TransmitInv, fifo # << >>, fifo' = Tail(fifo)
  PROVE  /\ Len(fifo) \in 1 .. 3 /\ 1 \in 1 .. Len(fifo)
         /\ \A i \in 1 .. Len(fifo') : i \in Nat /\ i + 1 \in 1 .. Len(fifo) /\ fifo'[i] = fifo[i + 1]
         /\ \A i \in 1 .. Len(fifo) : i # 1 => i - 1 \in 1 .. Len(fifo') /\ fifo'[i - 1] = fifo[i]
<1>1. Len(fifo) \in 1 .. 3 /\ Len(fifo') = Len(fifo) - 1 /\ \A i \in 1 .. Len(fifo') : fifo'[i] = fifo[i + 1]
  BY FifoFact, Sent
<1> QED BY <1>1

(* No kind comes to have two bytes; the one that left was its kind's only. *)
LEMMA LeftLone ==
  ASSUME TransmitInv, fifo # << >>, fifo' = Tail(fifo), NEW K, Lone(K)
  PROVE  /\ Lone(K)' /\ (Has(K)' => Has(K))
         /\ fifo[1][1] \in K => ~Has(K)'
         /\ fifo[1][1] \notin K => (Has(K)' <=> Has(K))
<1>1. Lone(K)'
  <2> SUFFICES ASSUME NEW i \in 1 .. Len(fifo'), NEW j \in 1 .. Len(fifo'),
                      fifo'[i][1] \in K, fifo'[j][1] \in K
               PROVE  i = j
    BY DEF Lone
  <2>1. i + 1 = j + 1 /\ i \in Nat /\ j \in Nat
    BY Left DEF Lone
  <2> QED BY <2>1
<1>2. Has(K)' => Has(K)
  BY Left DEF Has
<1>3. ASSUME fifo[1][1] \in K PROVE ~Has(K)'
  <2> SUFFICES ASSUME NEW i \in 1 .. Len(fifo'), fifo'[i][1] \in K PROVE FALSE
    BY DEF Has
  <2>1. i + 1 = 1 /\ i \in 1 .. Len(fifo') /\ i \in Nat
    BY <1>3, Left DEF Lone
  <2> QED BY <2>1
<1>4. ASSUME fifo[1][1] \notin K, Has(K) PROVE Has(K)'
  <2>1. PICK i \in 1 .. Len(fifo) : fifo[i][1] \in K
    BY <1>4 DEF Has
  <2>2. i # 1
    BY <1>4, <2>1
  <2> QED BY <2>1, <2>2, Left DEF Has
<1> QED BY <1>1, <1>2, <1>3, <1>4

(* The order of the kind K it is of.                                       *)
LEMMA SentOwn ==
  ASSUME TransmitInv, NEW K, Lone(K), NEW h, Ordered(K, h), fifo # << >>, fifo[1][1] \in K,
         fifo' = Tail(fifo), last'[K] = fifo[1], UNCHANGED <<task, count>>
  PROVE  Ordered(K, h)'
<1>1. PICK b : b = fifo[1]
  OBVIOUS
<1>2. Latest(h, b)
  BY <1>1, Left DEF Ordered
<1>3. Latest(h, last[K])'
  BY <1>1, <1>2 DEF Latest
<1>4. ~Has(K)'
  BY LeftLone
<1> QED BY <1>3, <1>4 DEF Ordered, Has

(* The order of another kind.                                              *)
LEMMA SentOther ==
  ASSUME TransmitInv, NEW M, Lone(M), NEW g, Ordered(M, g), fifo # << >>, fifo[1][1] \notin M,
         fifo' = Tail(fifo), last'[M] = last[M], UNCHANGED <<task, count>>
  PROVE  Ordered(M, g)'
<1>1. \A v : Latest(g, v) => Latest(g, v)'
  BY DEF Latest
<1>2. ASSUME NEW i \in 1 .. Len(fifo'), fifo'[i][1] \in M
      PROVE  Follows(last[M], fifo[i])' /\ Latest(g, fifo[i])'
  <2>1. i + 1 \in 1 .. Len(fifo) /\ fifo'[i] = fifo[i + 1]
    BY Left
  <2>2. PICK b : b = fifo[i + 1]
    OBVIOUS
  <2>3. Follows(last[M], b) /\ Latest(g, b) /\ fifo'[i] = b
    BY <1>2, <2>1, <2>2 DEF Ordered
  <2>4. Latest(g, b)'
    BY <1>1, <2>3
  <2> QED BY <2>3, <2>4 DEF Follows, Latest
<1>3. ~Has(M)' => Latest(g, last[M])'
  <2>1. PICK v : v = last[M]
    OBVIOUS
  <2>2. ~Has(M)' => Latest(g, v)'
    BY <1>1, <2>1, LeftLone DEF Ordered
  <2> QED BY <2>1, <2>2 DEF Latest
<1> QED BY <1>2, <1>3 DEF Ordered

(* What a sent byte leaves in last and torn.                               *)
LEMMA SentHistory ==
  ASSUME TransmitInv, DeviceSends
  PROVE  /\ last' \in [{Process, Printer} -> Byte \cup {NoTask}] /\ torn' = FALSE
         /\ fifo[1][1] \in Process => last'[Process] = fifo[1]
         /\ fifo[1][1] \in Printer => last'[Printer] = fifo[1]
         /\ fifo[1][1] \notin Process => last'[Process] = last[Process]
         /\ fifo[1][1] \notin Printer => last'[Printer] = last[Printer]
<1>1. /\ fifo # << >> /\ Head(fifo) = fifo[1] /\ 1 \in 1 .. Len(fifo)
      /\ fifo[1] \in Byte /\ fifo[1][1] \in Process \cup Printer \cup {Echo}
  BY Sent, FifoFact DEF DeviceSends, Task
<1>2. last \in [{Process, Printer} -> Byte \cup {NoTask}] /\ torn = FALSE
  BY DEF TransmitInv, TransmitTypes, MessagesWhole
<1>3. Ordered(Process, conswr) /\ Ordered(Printer, pr)
  BY DEF TransmitInv, OrderInv
<1>4. PICK c : c = fifo[1]
  OBVIOUS
<1>5. CASE c[1] = Echo
  <2>1. UNCHANGED <<last, torn>> /\ c[1] \notin Process /\ c[1] \notin Printer
    BY <1>1, <1>4, <1>5, UartAssumption DEF DeviceSends, Task
  <2> QED BY <1>2, <1>4, <2>1
<1>6. CASE c[1] \in Process
  <2>1. c[1] # Echo /\ c[1] \notin Printer /\ Kind(c) = Process
    BY <1>6, UartAssumption DEF Task, Kind
  <2>2. last' = [last EXCEPT ![Process] = c] /\ torn' = (torn \/ ~Follows(last[Process], c))
    BY <1>1, <1>4, <2>1 DEF DeviceSends
  <2>3. Follows(last[Process], c)
    BY <1>1, <1>3, <1>4, <1>6, Zenon DEF Ordered
  <2>4. torn' = FALSE
    BY <1>2, <2>2, <2>3, Zenon
  <2>5. Process # Printer
    BY <1>6, <2>1
  <2> QED BY <1>1, <1>2, <1>4, <1>6, <2>1, <2>2, <2>4, <2>5
<1>7. CASE c[1] \in Printer
  <2>1. c[1] # Echo /\ c[1] \notin Process /\ Kind(c) = Printer
    BY <1>7, UartAssumption DEF Task, Kind
  <2>2. last' = [last EXCEPT ![Printer] = c] /\ torn' = (torn \/ ~Follows(last[Printer], c))
    BY <1>1, <1>4, <2>1 DEF DeviceSends
  <2>3. Follows(last[Printer], c)
    BY <1>1, <1>3, <1>4, <1>7, Zenon DEF Ordered
  <2>4. torn' = FALSE
    BY <1>2, <2>2, <2>3, Zenon
  <2>5. Process # Printer
    BY <1>7, <2>1
  <2> QED BY <1>1, <1>2, <1>4, <1>7, <2>1, <2>2, <2>4, <2>5
<1> QED BY <1>1, <1>4, <1>5, <1>6, <1>7

(* A byte leaves the device.                                               *)
LEMMA DeviceSendsStep ==
  ASSUME TransmitInv, DeviceSends
  PROVE  TransmitInv'
<1>1. /\ fifo # << >> /\ fifo' = Tail(fifo) /\ thri' = (Len(fifo) = 1)
      /\ UNCHANGED <<conswr, pr, tx_busy, intr, task, count>>
  BY DEF DeviceSends
<1>2. Len(fifo) \in 1 .. 3 /\ fifo' \in Seq(Byte) /\ Len(fifo') = Len(fifo) - 1
  BY <1>1, FifoFact, Sent
<1>3. Lone(Process) /\ Lone(Printer) /\ Lone({Echo})
  BY DEF TransmitInv, FifoInv
<1>4. OrderInv'
  <2>1. PICK h, g : h = conswr /\ g = pr
    OBVIOUS
  <2>2. Ordered(Process, h) /\ Ordered(Printer, g)
    BY <2>1 DEF TransmitInv, OrderInv
  <2>3. Ordered(Process, h)'
    <3>1. CASE fifo[1][1] \in Process
      BY <1>1, <1>3, <2>2, <3>1, SentOwn, SentHistory
    <3>2. CASE fifo[1][1] \notin Process
      BY <1>1, <1>3, <2>2, <3>2, SentOther, SentHistory
    <3> QED BY <3>1, <3>2
  <2>4. Ordered(Printer, g)'
    <3>1. CASE fifo[1][1] \in Printer
      BY <1>1, <1>3, <2>2, <3>1, SentOwn, SentHistory
    <3>2. CASE fifo[1][1] \notin Printer
      BY <1>1, <1>3, <2>2, <3>2, SentOther, SentHistory
    <3> QED BY <3>1, <3>2
  <2> QED BY <1>1, <2>1, <2>3, <2>4 DEF OrderInv, Ordered, Latest
<1>5. TransmitTypes' /\ MessagesWhole'
  BY <1>1, <1>2, SentHistory DEF TransmitInv, TransmitTypes, MessagesWhole
<1>6. HolderInv'
  BY <1>1 DEF TransmitInv, HolderInv
<1>7. FifoInv'
  <2>1. /\ Lone(Process)' /\ Lone(Printer)' /\ Lone({Echo})'
        /\ Has(Process)' => Has(Process)
        /\ Has(Printer)' => Has(Printer)
        /\ Has({Echo})' => Has({Echo})
    BY <1>1, <1>3, LeftLone
  <2> QED BY <1>1, <2>1 DEF TransmitInv, FifoInv, Pc
<1>8. OwedInv'
  <2>1. thri' \/ fifo' # << >>
    <3>1. CASE Len(fifo) = 1
      BY <1>1, <3>1, Zenon
    <3>2. CASE Len(fifo) # 1
      <4>1. Len(fifo') # 0
        BY <1>2, <3>2
      <4> QED BY <4>1
    <3> QED BY <3>1, <3>2
  <2> QED BY <2>1 DEF OwedInv
<1> QED BY <1>4, <1>5, <1>6, <1>7, <1>8 DEF TransmitInv

(* Every step.                                                             *)
LEMMA TransmitStep == TransmitInv /\ [UartNext]_uartVars => TransmitInv'
<1> SUFFICES ASSUME TransmitInv, [UartNext]_uartVars PROVE TransmitInv'
  OBVIOUS
<1>1. CASE UNCHANGED uartVars
  <2>1. UNCHANGED <<conswr, pr, tx_busy, fifo, thri, intr, task, count, last, torn>>
    BY <1>1 DEF uartVars
  <2>2. TransmitTypes' /\ HolderInv' /\ OwedInv'
    BY <2>1 DEF TransmitInv, TransmitTypes, HolderInv, OwedInv, Pc
  <2>3. /\ Has(Process) => tx_busy'
        /\ (\E u \in Printer : Pc(u, "put")') => ~Has(Printer)
        /\ intr' = "put" => ~Has({Echo})
    BY <2>1 DEF TransmitInv, FifoInv, Pc
  <2>4. \A v \in Byte \cup {NoTask} : (Latest(conswr, v) => Latest(conswr, v)') /\ (Latest(pr, v) => Latest(pr, v)')
    BY <2>1 DEF Latest
  <2> QED BY <2>1, <2>2, <2>3, <2>4, DeviceIdle
<1>2. CASE UartNext
  <2>1. \A t \in Task : TaskStep(t) => TransmitInv'
    BY SendByteStep, SendSleepStep, WriteEndStep, PollStep, PutByteStep, PrintDoneStep
       DEF TaskStep, SendByte, SendSleep, WriteDone
  <2>2. UartHandler \/ consoleintr => TransmitInv'
    BY UartIntrStep, TypedStep, EchoByteStep DEF UartHandler
  <2> QED BY <1>2, <2>1, <2>2, ConsoleWriteStep, WriteEndStep, PrintfStep, DeviceSendsStep, AckStep
          DEF UartNext
<1> QED BY <1>1, <1>2

(* What uart.c and console.c keep although write(), printf and the echo    *)
(* share one register and no lock, for any number of writers and printers, *)
(* messages and writes: a write() and a printf() come out whole, a writer  *)
(* asleep is owed an interrupt, and the FIFO never holds more than three   *)
(* bytes.                                                                  *)
THEOREM UartCorrect == UartSpec => []UartInv
<1>1. UartSpec => []TransmitInv
  BY TransmitInit, TransmitStep, PTL DEF UartSpec
<1>2. TransmitInv => UartInv
  <2> SUFFICES ASSUME TransmitInv PROVE UartInv
    OBVIOUS
  <2>1. Len(fifo) <= 3
    BY FifoFact
  <2>2. UartTypeOK
    BY <2>1 DEF UartTypeOK, TransmitInv, TransmitTypes, Progress
  <2> QED BY <2>2 DEF UartInv, TransmitInv, OwedInv, SleeperIsOwedInterrupt
<1> QED BY <1>1, <1>2, PTL

-----------------------------------------------------------------------------
(* The console's input.  Its inductive invariant, in parts.                *)
InputTypes ==
  /\ buf \in [0 .. INPUT_BUF_SIZE - 1 -> Typed]
  /\ r \in Nat /\ w \in Nat /\ e \in Nat
  /\ lock \in Readers \cup {"free"}
  /\ agent_buf \in Seq(Typed) /\ Len(agent_buf) <= AGENT_BUF_SIZE - 1
  /\ ipc \in {"idle", "dispatch", "finish"}
  /\ agent_q \in Seq(Seq(Typed)) /\ Len(agent_q) <= QMax
  /\ chars \in 0 .. MaxChars /\ linelen \in 0 .. MaxLine - 1
  /\ inReq \in BOOLEAN /\ leaked \in BOOLEAN
  /\ accepted \in Seq(Typed) /\ taken \in Seq(Typed)

(* A reader: who holds cons.lock, what it still wants, and that it sleeps  *)
(* on an empty ring.                                                       *)
ReaderInv ==
  /\ rpc \in [Readers -> {"user", "acquire", "locked", "drain", "recheck", "asleep", "exited"}]
  /\ n \in [Readers -> 0 .. ReadSize]
  /\ \A p \in Readers : /\ rpc[p] = "locked" <=> lock = p
                        /\ rpc[p] \notin {"user", "exited"} => n[p] > 0
  /\ NoSleepOnInput

(* The indices; the line being typed has no end yet and leaves room for    *)
(* one, and there is none during a dispatch or between two lines.          *)
RingInv ==
  /\ r <= w /\ w <= e /\ e <= r + INPUT_BUF_SIZE /\ e <= chars
  /\ e # w => e < r + INPUT_BUF_SIZE
  /\ \A i \in w .. e - 1 : buf[At(i)] \notin Ends
  /\ ipc # "idle" \/ linelen = 0 => e = w

(* The k-th character given to the readers is the k-th taken or at its     *)
(* place in the ring.                                                      *)
KeptInv ==
  /\ Len(taken) = r /\ Len(accepted) = w
  /\ \A i \in 1 .. r : taken[i] = accepted[i]
  /\ \A i \in r .. w - 1 : accepted[i + 1] = buf[At(i)]

(* A REQ| line that began with an empty ring has it to itself.             *)
ReqInv ==
  /\ inReq => /\ r = w /\ ipc = "idle" /\ linelen > 0 /\ e - w = linelen
              /\ agent_buf[1] = "REQ"
  /\ ~leaked

InputInv == InputTypes /\ ReaderInv /\ RingInv /\ Lockstep /\ KeptInv /\ ReqInv

(* Division: what a remainder leaves is a multiple.                        *)
LEMMA Remainder ==
  ASSUME NEW N \in Nat \ {0}, NEW i \in Nat
  PROVE  i % N \in 0 .. N - 1 /\ i \div N \in Int /\ i = N * (i \div N) + (i % N)
<1>1. i % N \in 0 .. N - 1
  BY Z3
<1>2. i \div N \in Int /\ i = N * (i \div N) + (i % N)
  BY Z3
<1> QED BY <1>1, <1>2

(* Multiples of N are N apart.                                             *)
LEMMA Multiples ==
  ASSUME NEW N \in Nat \ {0}, NEW a \in Int, NEW b \in Int, a < b
  PROVE  N * b >= N * a + N
<1>1. N * b >= N * (a + 1)
  <2>1. b >= a + 1
    OBVIOUS
  <2> QED BY <2>1, Z3
<1>2. N * (a + 1) = N * a + N
  BY Z3
<1> QED BY <1>1, <1>2, Z3

(* Numbers less than N apart have different remainders.                    *)
LEMMA Apart ==
  ASSUME NEW N \in Nat \ {0}, NEW i \in Nat, NEW j \in Nat, i < j, j < i + N
  PROVE  i % N # j % N
<1> SUFFICES ASSUME i % N = j % N PROVE FALSE
  OBVIOUS
<1>1. PICK a \in Int, b \in Int, m \in Int : i = N * a + m /\ j = N * b + m
  <2>1. /\ i % N \in Int /\ i \div N \in Int /\ j \div N \in Int
        /\ i = N * (i \div N) + (i % N) /\ j = N * (j \div N) + (i % N)
    BY Remainder
  <2> QED BY <2>1
<1>2. CASE a < b
  BY <1>1, <1>2, Multiples
<1>3. CASE b < a
  BY <1>1, <1>3, Multiples
<1>4. CASE a = b
  BY <1>1, <1>4
<1> QED BY <1>2, <1>3, <1>4

(* Indices within one ring's length have slots of their own.               *)
LEMMA Slots ==
  /\ \A i \in Nat : At(i) \in 0 .. INPUT_BUF_SIZE - 1
  /\ \A i, j \in Nat : i < j /\ j < i + INPUT_BUF_SIZE => At(i) # At(j)
<1>1. INPUT_BUF_SIZE \in Nat \ {0}
  BY ConsoleAssumption
<1>2. \A i \in Nat : At(i) \in 0 .. INPUT_BUF_SIZE - 1
  BY <1>1, Remainder DEF At
<1>3. \A i, j \in Nat : i < j /\ j < i + INPUT_BUF_SIZE => At(i) # At(j)
  BY <1>1, Apart DEF At
<1> QED BY <1>2, <1>3

(* It holds at the start.                                                  *)
LEMMA InputInit == Init => InputInv
<1> SUFFICES ASSUME Init PROVE InputInv
  OBVIOUS
<1>1. /\ r = 0 /\ w = 0 /\ e = 0 /\ taken = << >> /\ accepted = << >> /\ agent_buf = << >>
      /\ agent_q = << >> /\ chars = 0 /\ linelen = 0 /\ inReq = FALSE /\ leaked = FALSE
      /\ Len(taken) = 0 /\ Len(accepted) = 0 /\ Len(agent_buf) = 0 /\ Len(agent_q) = 0
  BY DEF Init
<1>2. InputTypes
  <2>1. buf \in [0 .. INPUT_BUF_SIZE - 1 -> Typed] /\ lock = "free" /\ ipc = "idle"
    BY DEF Init, Typed
  <2>2. 0 <= AGENT_BUF_SIZE - 1 /\ 0 <= QMax /\ 0 \in 0 .. MaxChars /\ 0 \in 0 .. MaxLine - 1
    BY ConsoleAssumption
  <2>3. << >> \in Seq(Typed) /\ << >> \in Seq(Seq(Typed))
    BY EmptySeq
  <2> QED BY <1>1, <2>1, <2>2, <2>3 DEF InputTypes
<1>3. ReaderInv
  BY ConsoleAssumption DEF Init, ReaderInv, NoSleepOnInput
<1>4. RingInv /\ Lockstep /\ KeptInv /\ ReqInv
  BY <1>1, ConsoleAssumption DEF RingInv, Lockstep, KeptInv, ReqInv
<1> QED BY <1>2, <1>3, <1>4 DEF InputInv

(* A step that leaves the ring and the line alone.                         *)
LEMMA ReaderKeeps ==
  ASSUME InputInv, UNCHANGED <<world, r, taken>>, InputTypes', ReaderInv'
  PROVE  InputInv'
<1>1. UNCHANGED <<buf, r, w, e, agent_buf, ipc, chars, linelen, inReq, accepted, taken, leaked>>
  BY DEF world, sending
<1>2. RingInv' /\ Lockstep'
  BY <1>1 DEF InputInv, RingInv, Lockstep
<1>3. KeptInv' /\ ReqInv'
  BY <1>1 DEF InputInv, KeptInv, ReqInv
<1> QED BY <1>2, <1>3 DEF InputInv

(* The types of what such a step leaves alone.                             *)
LEMMA ReaderTypes ==
  ASSUME InputInv, UNCHANGED <<world, r, taken>>, lock' \in Readers \cup {"free"},
         agent_q' \in Seq(Seq(Typed)), Len(agent_q') <= QMax
  PROVE  InputTypes'
  BY DEF InputInv, InputTypes, world, sending

(* The parts of consoleread that take no character, and kkill.             *)
LEMMA ReadStep ==
  ASSUME InputInv, NEW p \in Readers,
         \/ ConsoleRead(p) \/ Acquire(p) \/ ReadKilled(p) \/ ReleaseToDrain(p)
         \/ DrainOne(p) \/ DrainEnds(p) \/ Recheck(p) \/ Kill(p)
  PROVE  InputInv'
<1>1. agent_q \in Seq(Seq(Typed)) /\ Len(agent_q) <= QMax /\ lock \in Readers \cup {"free"}
  BY DEF InputInv, InputTypes
<1>2. ReaderInv /\ ReadSize \in Nat \ {0} /\ "free" \notin Readers
  BY ConsoleAssumption DEF InputInv
<1>3. CASE ConsoleRead(p)
  <2>1. ReaderInv'
    BY <1>2, <1>3 DEF ConsoleRead, Step, ReaderInv, NoSleepOnInput, world
  <2> QED BY <1>1, <1>3, <2>1, ReaderKeeps, ReaderTypes DEF ConsoleRead
<1>4. CASE Acquire(p)
  <2>1. ReaderInv'
    BY <1>2, <1>4 DEF Acquire, Step, ReaderInv, NoSleepOnInput, world
  <2> QED BY <1>1, <1>4, <2>1, ReaderKeeps, ReaderTypes DEF Acquire
<1>5. CASE ReadKilled(p)
  <2>1. ReaderInv'
    BY <1>2, <1>5 DEF ReadKilled, Step, ReaderInv, NoSleepOnInput, world
  <2> QED BY <1>1, <1>5, <2>1, ReaderKeeps, ReaderTypes DEF ReadKilled
<1>6. CASE ReleaseToDrain(p)
  <2>1. ReaderInv'
    BY <1>2, <1>6 DEF ReleaseToDrain, Step, ReaderInv, NoSleepOnInput, world
  <2> QED BY <1>1, <1>6, <2>1, ReaderKeeps, ReaderTypes DEF ReleaseToDrain
<1>7. CASE DrainOne(p)
  <2>1. ReaderInv'
    BY <1>2, <1>7 DEF DrainOne, Step, ReaderInv, NoSleepOnInput, world
  <2>2. agent_q' \in Seq(Seq(Typed)) /\ Len(agent_q') <= QMax
    BY <1>1, <1>7, HeadTailProperties, ConsoleAssumption DEF DrainOne
  <2> QED BY <1>1, <1>7, <2>1, <2>2, ReaderKeeps, ReaderTypes DEF DrainOne
<1>8. CASE DrainEnds(p)
  <2>1. ReaderInv'
    BY <1>2, <1>8 DEF DrainEnds, Step, ReaderInv, NoSleepOnInput, world
  <2> QED BY <1>1, <1>8, <2>1, ReaderKeeps, ReaderTypes DEF DrainEnds
<1>9. CASE Recheck(p)
  <2>1. ReaderInv'
    <3>1. CASE r # w
      BY <1>2, <1>9, <3>1 DEF Recheck, Step, ReaderInv, NoSleepOnInput, world
    <3>2. CASE r = w
      BY <1>2, <1>9, <3>2 DEF Recheck, Step, ReaderInv, NoSleepOnInput, world
    <3> QED BY <3>1, <3>2
  <2> QED BY <1>1, <1>9, <2>1, ReaderKeeps, ReaderTypes DEF Recheck
<1>10. CASE Kill(p)
  <2>1. ReaderInv'
    BY <1>2, <1>10 DEF Kill, ReaderInv, NoSleepOnInput, world
  <2> QED BY <1>1, <1>10, <2>1, ReaderKeeps, ReaderTypes DEF Kill
<1> QED BY <1>3, <1>4, <1>5, <1>6, <1>7, <1>8, <1>9, <1>10

(* Somebody else drains a line.                                            *)
LEMMA OtherDrainStep ==
  ASSUME InputInv, OtherDrain
  PROVE  InputInv'
<1>1. agent_q \in Seq(Seq(Typed)) /\ Len(agent_q) <= QMax /\ lock \in Readers \cup {"free"}
  BY DEF InputInv, InputTypes
<1>2. agent_q' \in Seq(Seq(Typed)) /\ Len(agent_q') <= QMax
  BY <1>1, HeadTailProperties, ConsoleAssumption DEF OtherDrain
<1>3. ReaderInv'
  BY DEF OtherDrain, InputInv, ReaderInv, NoSleepOnInput, world
<1> QED BY <1>1, <1>2, <1>3, ReaderKeeps, ReaderTypes DEF OtherDrain

(* A reader takes a character; a ^D that is not the first it finds stays.  *)
LEMMA TakeCharStep ==
  ASSUME InputInv, NEW p \in Readers, NEW copied \in BOOLEAN, TakeChar(p, copied)
  PROVE  InputInv'
<1> DEFINE c == buf[At(r)]
           saved == c = "EOF" /\ n[p] < ReadSize
           done == c \in Ends \/ n[p] = 1 \/ ~copied
<1>1. /\ r # w /\ Step(p, "locked", IF done THEN "user" ELSE "locked")
      /\ r' = IF saved THEN r ELSE r + 1
      /\ taken' = IF saved THEN taken ELSE Append(taken, c)
      /\ n' = [n EXCEPT ![p] = IF done THEN 0 ELSE @ - 1]
      /\ lock' = IF done THEN "free" ELSE p
      /\ UNCHANGED <<world, agent_q, killed>>
  BY DEF TakeChar
<1>2. /\ r \in Nat /\ w \in Nat /\ e \in Nat /\ r < w /\ r + 1 <= w /\ c \in Typed
      /\ taken \in Seq(Typed) /\ accepted \in Seq(Typed) /\ INPUT_BUF_SIZE \in Nat \ {0}
  <2>1. /\ r \in Nat /\ w \in Nat /\ e \in Nat /\ r <= w /\ buf \in [0 .. INPUT_BUF_SIZE - 1 -> Typed]
        /\ taken \in Seq(Typed) /\ accepted \in Seq(Typed)
    BY DEF InputInv, InputTypes, RingInv
  <2>2. At(r) \in 0 .. INPUT_BUF_SIZE - 1
    BY <2>1, Slots
  <2>3. c \in Typed
    BY <2>1, <2>2
  <2> QED BY <1>1, <2>1, <2>3, ConsoleAssumption
<1>3. UNCHANGED <<buf, w, e, agent_buf, ipc, chars, linelen, inReq, accepted, leaked, agent_q>>
  BY <1>1 DEF world, sending
<1>4. \A q \in Readers : rpc'[q] # "asleep" /\ rpc[q] # "asleep"
  BY <1>1, <1>2 DEF Step, InputInv, ReaderInv, NoSleepOnInput
<1>5. n[p] \in 1 .. ReadSize /\ n \in [Readers -> 0 .. ReadSize] /\ ReadSize \in Nat \ {0}
  BY <1>1, ConsoleAssumption DEF Step, InputInv, ReaderInv
<1>6. ReaderInv'
  <2>1. CASE done
    <3>1. n' = [n EXCEPT ![p] = 0] /\ rpc' = [rpc EXCEPT ![p] = "user"] /\ lock' = "free"
      BY <1>1, <2>1 DEF Step
    <3> QED BY <1>1, <1>4, <1>5, <3>1, ConsoleAssumption DEF Step, InputInv, ReaderInv, NoSleepOnInput
  <2>2. CASE ~done
    <3>1. n' = [n EXCEPT ![p] = n[p] - 1] /\ rpc' = [rpc EXCEPT ![p] = "locked"] /\ lock' = p
      BY <1>1, <2>2 DEF Step
    <3>2. n[p] - 1 \in 1 .. ReadSize
      BY <1>5, <2>2
    <3> QED BY <1>1, <1>4, <1>5, <3>1, <3>2, ConsoleAssumption DEF Step, InputInv, ReaderInv, NoSleepOnInput
  <2> QED BY <2>1, <2>2
<1>7. lock' \in Readers \cup {"free"}
  BY <1>1
<1>8. CASE saved
  <2>1. UNCHANGED <<world, r, taken, agent_q>>
    BY <1>1, <1>8
  <2>2. InputTypes'
    BY <1>7, <2>1, ReaderTypes DEF InputInv, InputTypes
  <2> QED BY <1>6, <2>1, <2>2, ReaderKeeps
<1>9. CASE ~saved
  <2>1. r' = r + 1 /\ taken' = Append(taken, c)
    BY <1>1, <1>9
  <2>2. /\ taken' \in Seq(Typed) /\ Len(taken') = Len(taken) + 1
        /\ taken'[Len(taken) + 1] = c
        /\ \A i \in 1 .. Len(taken) : taken'[i] = taken[i]
    BY <1>2, <2>1, AppendProperties
  <2>3. InputTypes'
    BY <1>2, <1>3, <1>7, <2>1, <2>2 DEF InputInv, InputTypes
  <2>4. RingInv'
    BY <1>2, <1>3, <2>1, ConsoleAssumption DEF InputInv, InputTypes, RingInv
  <2>5. KeptInv'
    <3>1. c = accepted[r + 1] /\ Len(taken) = r
      BY <1>2 DEF InputInv, KeptInv
    <3> QED BY <1>2, <1>3, <2>1, <2>2, <3>1 DEF InputInv, KeptInv
  <2>6. Lockstep'
    BY <1>3 DEF InputInv, Lockstep
  <2>7. ReqInv'
    BY <1>2, <1>3 DEF InputInv, ReqInv
  <2> QED BY <1>6, <2>3, <2>4, <2>5, <2>6, <2>7 DEF InputInv
<1> QED BY <1>8, <1>9

(* wakeup(&cons.r) leaves nobody asleep.                                   *)
LEMMA WokenReaders ==
  ASSUME InputInv, rpc' = Woken, UNCHANGED <<n, lock>>
  PROVE  ReaderInv'
<1>1. \A p \in Readers : rpc'[p] = IF rpc[p] = "asleep" THEN "acquire" ELSE rpc[p]
  BY DEF Woken
<1>2. rpc' \in [Readers -> {"user", "acquire", "locked", "drain", "recheck", "asleep", "exited"}]
  BY DEF Woken, InputInv, ReaderInv
<1> QED BY <1>1, <1>2 DEF InputInv, ReaderInv, NoSleepOnInput

(* The line is handed to the agent.                                        *)
LEMMA DispatchStep ==
  ASSUME InputInv, AgentDispatch
  PROVE  InputInv'
<1>1. /\ ipc = "dispatch" /\ ipc' = "finish"
      /\ UNCHANGED <<buf, r, w, e, lock, agent_buf, rpc, n, chars, linelen, inReq, accepted, taken, leaked>>
  BY DEF AgentDispatch, ring, sending
<1>2. agent_q' \in Seq(Seq(Typed)) /\ Len(agent_q') <= QMax
  <2>1. agent_q \in Seq(Seq(Typed)) /\ Len(agent_q) <= QMax /\ agent_buf \in Seq(Typed) /\ QMax \in Nat
    BY ConsoleAssumption DEF InputInv, InputTypes
  <2>2. CASE Len(agent_q) < QMax
    BY <2>1, <2>2, AppendProperties DEF AgentDispatch
  <2>3. CASE ~(Len(agent_q) < QMax)
    BY <2>1, <2>3 DEF AgentDispatch
  <2> QED BY <2>2, <2>3
<1>3. InputTypes'
  BY <1>1, <1>2 DEF InputInv, InputTypes
<1>4. ReaderInv' /\ RingInv' /\ Lockstep'
  BY <1>1 DEF InputInv, ReaderInv, NoSleepOnInput, RingInv, Lockstep
<1>5. KeptInv' /\ ReqInv'
  BY <1>1 DEF InputInv, KeptInv, ReqInv
<1> QED BY <1>3, <1>4, <1>5 DEF InputInv

(* The handler is done with it.                                            *)
LEMMA FinishStep ==
  ASSUME InputInv, FinishReq
  PROVE  InputInv'
<1>1. /\ ipc = "finish" /\ ipc' = "idle" /\ agent_buf' = << >> /\ Len(agent_buf') = 0 /\ rpc' = Woken
      /\ UNCHANGED <<buf, r, w, e, lock, agent_q, n, chars, linelen, inReq, accepted, taken, leaked>>
  BY DEF FinishReq, ring, sending
<1>2. InputTypes'
  <2>1. << >> \in Seq(Typed) /\ 0 <= AGENT_BUF_SIZE - 1
    BY EmptySeq, ConsoleAssumption
  <2> QED BY <1>1, <2>1 DEF InputInv, InputTypes
<1>3. ReaderInv'
  BY <1>1, WokenReaders
<1>4. e = w /\ w \in Nat /\ inReq = FALSE
  BY <1>1 DEF InputInv, InputTypes, RingInv, ReqInv
<1>5. RingInv' /\ Lockstep'
  BY <1>1, <1>4 DEF InputInv, RingInv, Lockstep
<1>6. KeptInv' /\ ReqInv'
  BY <1>1, <1>4 DEF InputInv, KeptInv, ReqInv
<1> QED BY <1>2, <1>3, <1>5, <1>6 DEF InputInv

(* What the arrival of a character does to the history of the line.        *)
LEMMA ArrivesFact ==
  ASSUME InputInv, NEW c \in Typed \cup {"BS", "KILL"}, Arrives(c)
  PROVE  /\ ipc = "idle" /\ chars' = chars + 1 /\ chars' \in 0 .. MaxChars
         /\ linelen' \in 0 .. MaxLine - 1 /\ inReq' \in BOOLEAN
         /\ c \in Ends => linelen' = 0
         /\ c \notin Ends => linelen' = linelen + 1 /\ linelen + 1 < MaxLine
         /\ inReq' => /\ c \notin Ends \cup {"BS", "KILL"}
                      /\ inReq \/ (c = "REQ" /\ linelen = 0 /\ r = w)
<1>1. chars \in 0 .. MaxChars /\ linelen \in 0 .. MaxLine - 1 /\ inReq \in BOOLEAN
  BY DEF InputInv, InputTypes
<1>2. MaxLine \in Nat /\ MaxLine >= 1 /\ MaxChars \in Nat
  BY ConsoleAssumption
<1>3. /\ ipc = "idle" /\ chars' = chars + 1 /\ chars' \in 0 .. MaxChars
      /\ linelen' \in 0 .. MaxLine - 1
      /\ c \in Ends => linelen' = 0
      /\ c \notin Ends => linelen' = linelen + 1 /\ linelen + 1 < MaxLine
  BY <1>1, <1>2 DEF Arrives
<1>4. inReq' \in BOOLEAN /\ (inReq' => /\ c \notin Ends \cup {"BS", "KILL"}
                                       /\ inReq \/ (c = "REQ" /\ linelen = 0 /\ r = w))
  <2>1. CASE c \in {"BS", "KILL"}
    BY <2>1 DEF Arrives, Ends
  <2>2. CASE c = "REQ" /\ linelen = 0
    BY <2>2 DEF Arrives, Ends
  <2>3. CASE c \in Ends
    BY <2>3 DEF Arrives, Ends
  <2>4. CASE c \notin {"BS", "KILL"} /\ ~(c = "REQ" /\ linelen = 0) /\ c \notin Ends
    BY <1>1, <2>4 DEF Arrives
  <2> QED BY <2>1, <2>2, <2>3, <2>4
<1> QED BY <1>3, <1>4

(* A REQ| line that has the ring to itself fits it.                        *)
LEMMA ReqFits ==
  ASSUME InputInv, NEW c \in Typed, Arrives(c), inReq'
  PROVE  r = w /\ e - w = linelen /\ c \notin Ends /\ ~Full /\ ~Completes(c)
<1>1. /\ c \notin Ends /\ linelen + 1 < MaxLine
      /\ inReq \/ (c = "REQ" /\ linelen = 0 /\ r = w)
  BY ArrivesFact
<1>2. /\ r \in Nat /\ w \in Nat /\ e \in Nat /\ linelen \in Nat
      /\ MaxLine \in Nat /\ INPUT_BUF_SIZE \in Nat /\ MaxLine <= INPUT_BUF_SIZE
  BY ConsoleAssumption DEF InputInv, InputTypes
<1>3. r = w /\ e - w = linelen
  BY <1>1, <1>2 DEF InputInv, RingInv, ReqInv
<1> QED BY <1>1, <1>2, <1>3 DEF Full, Completes

(* The indices, as numbers.                                                *)
LEMMA Indices ==
  ASSUME InputInv
  PROVE  /\ r \in Nat /\ w \in Nat /\ e \in Nat /\ chars \in Nat /\ linelen \in Nat
         /\ r <= w /\ w <= e /\ e <= r + INPUT_BUF_SIZE /\ e <= chars
         /\ e # w => e < r + INPUT_BUF_SIZE
         /\ linelen = 0 => e = w
         /\ INPUT_BUF_SIZE \in Nat \ {0} /\ AGENT_BUF_SIZE \in Nat /\ AGENT_BUF_SIZE > 2
         /\ AGENT_BUF_SIZE >= INPUT_BUF_SIZE
  BY ConsoleAssumption DEF InputInv, InputTypes, RingInv

(* A stored character overwrites nothing between r and e.                  *)
LEMMA StoredFact ==
  ASSUME InputInv, NEW c \in Typed, ~Full, buf' = Stored(c)
  PROVE  /\ buf' \in [0 .. INPUT_BUF_SIZE - 1 -> Typed] /\ buf'[At(e)] = c
         /\ \A i \in r .. e - 1 : buf'[At(i)] = buf[At(i)]
<1>1. buf \in [0 .. INPUT_BUF_SIZE - 1 -> Typed] /\ buf' = [buf EXCEPT ![At(e)] = c]
  BY DEF InputInv, InputTypes, Stored
<1>2. At(e) \in 0 .. INPUT_BUF_SIZE - 1
  BY Indices, Slots
<1>3. \A i \in r .. e - 1 : At(i) \in 0 .. INPUT_BUF_SIZE - 1 /\ At(i) # At(e)
  <2> SUFFICES ASSUME NEW i \in r .. e - 1 PROVE At(i) \in 0 .. INPUT_BUF_SIZE - 1 /\ At(i) # At(e)
    OBVIOUS
  <2>1. i \in Nat /\ e \in Nat /\ i < e /\ e < i + INPUT_BUF_SIZE
    BY Indices DEF Full
  <2> QED BY <2>1, Slots
<1> QED BY <1>1, <1>2, <1>3

(* What was given to the readers is still there when a character is stored *)
(* or none is.                                                             *)
LEMMA KeptStored ==
  ASSUME InputInv, UNCHANGED <<r, w, accepted, taken>>,
         \A i \in r .. e - 1 : buf'[At(i)] = buf[At(i)]
  PROVE  KeptInv'
<1>1. \A i \in r .. w - 1 : i \in r .. e - 1
  BY Indices
<1> QED BY <1>1 DEF InputInv, KeptInv

(* The mirror after a character that is to be stored.                      *)
LEMMA MirroredFact ==
  ASSUME InputInv, NEW c \in Typed
  PROVE  /\ agent_buf \in Seq(Typed) /\ Len(agent_buf) \in Nat
         /\ Mirrored(c) \in Seq(Typed) /\ Len(Mirrored(c)) <= AGENT_BUF_SIZE - 1
         /\ \A i \in 1 .. Len(agent_buf) : Mirrored(c)[i] = agent_buf[i]
         /\ Len(agent_buf) < AGENT_BUF_SIZE - 1 =>
              /\ Len(Mirrored(c)) = Len(agent_buf) + 1
              /\ Mirrored(c)[Len(agent_buf) + 1] = c
         /\ Len(Mirrored(c)) >= Len(agent_buf)
<1>1. agent_buf \in Seq(Typed) /\ Len(agent_buf) <= AGENT_BUF_SIZE - 1 /\ Len(agent_buf) \in Nat
  BY LenProperties DEF InputInv, InputTypes
<1>2. CASE Len(agent_buf) < AGENT_BUF_SIZE - 1
  <2>1. Mirrored(c) = Append(agent_buf, c)
    BY <1>2 DEF Mirrored
  <2> QED BY <1>1, <1>2, <2>1, AppendProperties, Indices
<1>3. CASE ~(Len(agent_buf) < AGENT_BUF_SIZE - 1)
  <2>1. Mirrored(c) = agent_buf
    BY <1>3 DEF Mirrored
  <2> QED BY <1>1, <1>3, <2>1
<1> QED BY <1>2, <1>3

(* Readers do not notice what leaves rpc, n, lock, r and w alone.          *)
LEMMA SameReaders ==
  ASSUME InputInv, UNCHANGED <<rpc, n, lock, r, w>>
  PROVE  ReaderInv'
  BY DEF InputInv, ReaderInv, NoSleepOnInput

(* A character is dropped.                                                 *)
LEMMA DropCharStep ==
  ASSUME InputInv, NEW c \in Typed, DropChar(c)
  PROVE  InputInv'
<1>1. /\ Arrives(c) /\ Full
      /\ UNCHANGED <<buf, r, w, e, lock, agent_buf, ipc, agent_q, rpc, n, accepted, taken, leaked>>
  BY DEF DropChar, ring
<1>2. inReq' = FALSE
  BY <1>1, ArrivesFact, ReqFits
<1>3. e = w
  BY <1>1, Indices DEF Full
<1>4. InputTypes'
  BY <1>1, ArrivesFact DEF InputInv, InputTypes
<1>5. RingInv'
  BY <1>1, <1>3, Indices, ArrivesFact DEF InputInv, RingInv
<1>6. Lockstep' /\ ReqInv'
  BY <1>1, <1>2 DEF InputInv, Lockstep, ReqInv
<1> QED BY <1>1, <1>4, <1>5, <1>6, KeptStored, SameReaders DEF InputInv

(* A character is stored and the line goes on.                             *)
LEMMA StoreStep ==
  ASSUME InputInv, NEW c \in Typed, StoreChar(c)
  PROVE  InputInv'
<1>1. /\ Arrives(c) /\ ~Full /\ ~Completes(c) /\ buf' = Stored(c) /\ e' = e + 1 /\ agent_buf' = Mirrored(c)
      /\ UNCHANGED <<r, w, lock, ipc, agent_q, rpc, n, accepted, taken, leaked>>
  BY DEF StoreChar
<1>2. ipc = "idle" /\ Len(agent_buf) = e - w /\ \A i \in 1 .. Len(agent_buf) : agent_buf[i] = buf[At(w + i - 1)]
  BY <1>1, ArrivesFact DEF InputInv, Lockstep
<1>3. c \notin Ends /\ e + 1 < r + INPUT_BUF_SIZE /\ Len(agent_buf) < AGENT_BUF_SIZE - 1
  <2>1. c \notin Ends /\ ~((e + 1) - r = INPUT_BUF_SIZE) /\ e - r < INPUT_BUF_SIZE
    BY <1>1 DEF Completes, Full
  <2>2. e + 1 < r + INPUT_BUF_SIZE
    BY <2>1, Indices
  <2>3. e - w < AGENT_BUF_SIZE - 1
    BY <2>2, Indices
  <2> QED BY <1>2, <2>1, <2>2, <2>3
<1>4. InputTypes'
  BY <1>1, ArrivesFact, StoredFact, MirroredFact, Indices DEF InputInv, InputTypes
<1>5. RingInv'
  <2>1. \A i \in w .. e : buf'[At(i)] \notin Ends
    <3> SUFFICES ASSUME NEW i \in w .. e PROVE buf'[At(i)] \notin Ends
      OBVIOUS
    <3>1. CASE i = e
      BY <1>1, <1>3, <3>1, StoredFact
    <3>2. CASE i # e
      <4>1. i \in w .. e - 1 /\ i \in r .. e - 1
        BY <3>2, Indices
      <4> QED BY <1>1, <4>1, StoredFact DEF InputInv, RingInv
    <3> QED BY <3>1, <3>2
  <2>2. \A i \in w .. (e + 1) - 1 : buf'[At(i)] \notin Ends
    BY <2>1, Indices
  <2>3. r' = r /\ w' = w /\ e' = e + 1 /\ ipc' = "idle" /\ chars' = chars + 1 /\ linelen' # 0
    BY <1>1, <1>2, <1>3, Indices, ArrivesFact
  <2>4. r <= w /\ w <= e + 1 /\ e + 1 <= r + INPUT_BUF_SIZE /\ e + 1 <= chars + 1
    BY <1>3, Indices
  <2> QED BY <1>3, <2>2, <2>3, <2>4 DEF RingInv
<1>6. Lockstep'
  <2>0. agent_buf' = Mirrored(c) /\ Len(Mirrored(c)) = Len(agent_buf) + 1
    BY <1>1, <1>3, MirroredFact
  <2>1. Len(agent_buf') = e + 1 - w /\ Len(agent_buf') = Len(agent_buf) + 1
    BY <1>2, <2>0, Indices
  <2>2. \A i \in 1 .. Len(agent_buf') : agent_buf'[i] = buf'[At(w + i - 1)]
    <3> SUFFICES ASSUME NEW i \in 1 .. Len(agent_buf') PROVE agent_buf'[i] = buf'[At(w + i - 1)]
      OBVIOUS
    <3>1. CASE i = Len(agent_buf) + 1
      <4>1. w + i - 1 = e
        <5>1. PICK m \in Nat : m = Len(agent_buf)
          BY MirroredFact
        <5>2. m = e - w /\ i = m + 1
          BY <1>2, <3>1, <5>1
        <5> QED BY <5>2, Indices
      <4> QED BY <1>1, <1>3, <3>1, <4>1, StoredFact, MirroredFact
    <3>2. CASE i # Len(agent_buf) + 1
      <4>1. i \in 1 .. Len(agent_buf) /\ w + i - 1 \in r .. e - 1
        <5>1. PICK m \in Nat : m = Len(agent_buf)
          BY MirroredFact
        <5>2. i \in 1 .. m + 1 /\ i # m + 1 /\ m = e - w
          BY <1>2, <2>1, <3>2, <5>1
        <5>3. i \in 1 .. m
          BY <5>2
        <5>4. m = e - w
          BY <5>2
        <5>5. \A k \in 1 .. m : w + k - 1 \in r .. e - 1
          BY <5>4, Indices
        <5> QED BY <5>1, <5>3, <5>5
      <4> QED BY <1>1, <1>2, <4>1, StoredFact, MirroredFact
    <3> QED BY <3>1, <3>2
  <2>3. Len(agent_buf)' = e' - w'
    BY <1>1, <2>1, Indices
  <2>4. \A i \in 1 .. Len(agent_buf)' : agent_buf'[i] = buf'[At(w' + i - 1)]
    BY <1>1, <2>2
  <2> QED BY <2>3, <2>4 DEF Lockstep, At
<1>7. ReqInv'
  <2>1. ASSUME inReq' PROVE r = w /\ e - w = linelen /\ linelen' = linelen + 1 /\ agent_buf'[1] = "REQ"
    <3>1. r = w /\ e - w = linelen /\ linelen' = linelen + 1
      BY <1>1, <2>1, ReqFits, ArrivesFact
    <3>2. CASE inReq
      <4>1. 1 \in 1 .. Len(agent_buf) /\ agent_buf[1] = "REQ"
        BY <1>2, <3>1, <3>2, Indices DEF InputInv, ReqInv
      <4> QED BY <1>1, <3>1, <4>1, MirroredFact
    <3>3. CASE ~inReq
      <4>1. c = "REQ" /\ Len(agent_buf) = 0
        BY <1>1, <1>2, <2>1, <3>1, <3>3, ArrivesFact
      <4> QED BY <1>1, <1>3, <3>1, <4>1, MirroredFact
    <3> QED BY <3>2, <3>3
  <2> QED BY <1>1, <1>2, <2>1, Indices DEF InputInv, ReqInv
<1> QED BY <1>1, <1>4, <1>5, <1>6, <1>7, StoredFact, KeptStored, SameReaders DEF InputInv

(* Backspace takes the last character off the line, if it has one.         *)
LEMMA BackspaceStep ==
  ASSUME InputInv, Backspace
  PROVE  InputInv'
<1>1. /\ Arrives("BS")
      /\ UNCHANGED <<buf, r, w, lock, ipc, agent_q, rpc, n, accepted, taken, leaked>>
  BY DEF Backspace
<1>2. ipc = "idle" /\ inReq' = FALSE /\ linelen' = linelen + 1
  BY <1>1, ArrivesFact DEF Ends
<1>3. /\ agent_buf \in Seq(Typed) /\ Len(agent_buf) = e - w /\ Len(agent_buf) <= AGENT_BUF_SIZE - 1
      /\ \A i \in 1 .. Len(agent_buf) : agent_buf[i] = buf[At(w + i - 1)]
  BY <1>2 DEF InputInv, InputTypes, Lockstep
<1>4. /\ e' \in Nat /\ w <= e' /\ e' <= e /\ agent_buf' \in Seq(Typed) /\ Len(agent_buf') = e' - w
      /\ \A i \in 1 .. Len(agent_buf') : agent_buf'[i] = agent_buf[i]
  <2>1. CASE e = w
    BY <1>3, <2>1, Indices DEF Backspace
  <2>2. CASE e # w
    <3>1. PICK m \in Nat : m = Len(agent_buf) /\ m = e - w /\ m > 0
      BY <1>3, <2>2, Indices
    <3>2. agent_buf # << >> /\ agent_buf' = SubSeq(agent_buf, 1, m - 1) /\ e' = e - 1
      <4>1. agent_buf # << >>
        BY <1>3, <3>1, EmptySeq
      <4> QED BY <2>2, <3>1, <4>1 DEF Backspace
    <3>3. /\ agent_buf' \in Seq(Typed) /\ Len(agent_buf') = m - 1
          /\ \A i \in 1 .. m - 1 : agent_buf'[i] = agent_buf[i]
      BY <1>3, <3>1, <3>2
    <3>4. e' \in Nat /\ w <= e' /\ e' <= e /\ Len(agent_buf') = e' - w
      <4>1. m = e - w /\ m > 0
        BY <3>1
      <4>2. e - 1 \in Nat /\ w <= e - 1 /\ e - 1 <= e /\ m - 1 = (e - 1) - w
        BY <4>1, Indices
      <4> QED BY <3>2, <3>3, <4>2
    <3>5. \A i \in 1 .. Len(agent_buf') : agent_buf'[i] = agent_buf[i]
      BY <3>3
    <3> QED BY <3>3, <3>4, <3>5
  <2> QED BY <2>1, <2>2
<1>5. Len(agent_buf') <= AGENT_BUF_SIZE - 1
  BY <1>3, <1>4, Indices
<1>6. InputTypes'
  BY <1>1, <1>4, <1>5, ArrivesFact DEF InputInv, InputTypes
<1>7. RingInv'
  <2>1. \A i \in w .. e' - 1 : i \in w .. e - 1
    <3>1. PICK k \in Nat : k = e' /\ k <= e
      BY <1>4
    <3>2. k <= e
      BY <3>1
    <3>3. \A i \in w .. k - 1 : i \in w .. e - 1
      BY <3>2, Indices
    <3> QED BY <3>1, <3>3
  <2>2. \A i \in w .. e' - 1 : buf'[At(i)] \notin Ends
    BY <1>1, <2>1 DEF InputInv, RingInv
  <2>3. /\ e' <= r + INPUT_BUF_SIZE /\ e' <= chars' /\ linelen' # 0
        /\ e' # w => e' < r + INPUT_BUF_SIZE
    BY <1>1, <1>2, <1>4, Indices, ArrivesFact
  <2> QED BY <1>1, <1>2, <1>4, <2>2, <2>3, Indices DEF RingInv
<1>8. Lockstep'
  <2>1. Len(agent_buf)' = e' - w'
    BY <1>1, <1>4
  <2>2. \A i \in 1 .. Len(agent_buf') : i \in 1 .. Len(agent_buf)
    <3>1. PICK k \in Nat : k = e' /\ k <= e /\ Len(agent_buf') = k - w
      BY <1>4
    <3>2. k <= e /\ Len(agent_buf') = k - w /\ Len(agent_buf) = e - w
      BY <1>3, <3>1
    <3>3. \A i \in 1 .. k - w : i \in 1 .. e - w
      BY <3>2, Indices
    <3> QED BY <3>2, <3>3
  <2>3. \A i \in 1 .. Len(agent_buf)' : agent_buf'[i] = buf'[At(w' + i - 1)]
    BY <1>1, <1>3, <1>4, <2>2
  <2> QED BY <2>1, <2>3 DEF Lockstep, At
<1>9. ReqInv'
  BY <1>1, <1>2 DEF InputInv, ReqInv
<1>10. KeptInv'
  BY <1>1, KeptStored
<1> QED BY <1>1, <1>6, <1>7, <1>8, <1>9, <1>10, SameReaders DEF InputInv

(* The line being typed has no newline, so ^U finds its start at w.        *)
LEMMA KillLineStep ==
  ASSUME InputInv, KillLine
  PROVE  InputInv'
<1>1. /\ Arrives("KILL") /\ e' = LineStart /\ agent_buf' = << >> /\ Len(agent_buf') = 0
      /\ UNCHANGED <<buf, r, w, lock, ipc, agent_q, rpc, n, accepted, taken, leaked>>
  BY DEF KillLine
<1>2. ipc = "idle" /\ inReq' = FALSE /\ linelen' = linelen + 1
  BY <1>1, ArrivesFact DEF Ends
<1>3. e' = w
  <2> DEFINE P(i) == /\ i = w \/ buf[At(i - 1)] = "NL"
                     /\ \A j \in i + 1 .. e : buf[At(j - 1)] # "NL"
  <2>1. \A j \in w + 1 .. e : buf[At(j - 1)] # "NL"
    <3> SUFFICES ASSUME NEW j \in w + 1 .. e PROVE buf[At(j - 1)] # "NL"
      OBVIOUS
    <3>1. j - 1 \in w .. e - 1
      BY Indices
    <3> QED BY <3>1 DEF InputInv, RingInv, Ends
  <2>2. w \in w .. e /\ P(w)
    BY <2>1, Indices
  <2>3. \A i \in w .. e : P(i) => i = w
    <3> SUFFICES ASSUME NEW i \in w .. e, P(i), i # w PROVE FALSE
      OBVIOUS
    <3>1. i \in w + 1 .. e
      BY Indices
    <3> QED BY <2>1, <3>1
  <2>4. LineStart = CHOOSE i \in w .. e : P(i)
    BY DEF LineStart
  <2> HIDE DEF P
  <2> QED BY <1>1, <2>2, <2>3, <2>4
<1>4. InputTypes'
  <2>1. << >> \in Seq(Typed) /\ 0 <= AGENT_BUF_SIZE - 1
    BY EmptySeq, Indices
  <2> QED BY <1>1, <1>3, <2>1, ArrivesFact DEF InputInv, InputTypes
<1>5. RingInv'
  BY <1>1, <1>2, <1>3, Indices, ArrivesFact DEF RingInv
<1>6. Lockstep' /\ ReqInv'
  BY <1>1, <1>2, <1>3, Indices DEF InputInv, Lockstep, ReqInv
<1>7. KeptInv'
  BY <1>1, KeptStored
<1> QED BY <1>1, <1>4, <1>5, <1>6, <1>7, SameReaders DEF InputInv

(* A REQ| line is complete and leaves the ring.                            *)
LEMMA TakeReqStep ==
  ASSUME InputInv, NEW c \in Typed, TakeReq(c)
  PROVE  InputInv'
<1>1. /\ Arrives(c) /\ ~Full /\ Completes(c) /\ buf' = Stored(c) /\ e' = w /\ agent_buf' = Mirrored(c)
      /\ ipc' = "dispatch" /\ UNCHANGED <<r, w, lock, agent_q, rpc, n, accepted, taken, leaked>>
  BY DEF TakeReq
<1>2. inReq' = FALSE
  BY <1>1, ArrivesFact, ReqFits
<1>3. InputTypes'
  BY <1>1, ArrivesFact, StoredFact, MirroredFact DEF InputInv, InputTypes
<1>4. RingInv'
  BY <1>1, Indices, ArrivesFact DEF RingInv
<1>5. Lockstep' /\ ReqInv'
  BY <1>1, <1>2 DEF InputInv, Lockstep, ReqInv
<1> QED BY <1>1, <1>3, <1>4, <1>5, StoredFact, KeptStored, SameReaders DEF InputInv

(* An ordinary line is complete and goes to the readers.                   *)
LEMMA GiveStep ==
  ASSUME InputInv, NEW c \in Typed, GiveLine(c)
  PROVE  InputInv'
<1> DEFINE line == [i \in 1 .. e + 1 - w |-> Stored(c)[At(w + i - 1)]]
<1>1. /\ Arrives(c) /\ ~Full /\ Completes(c) /\ ~IsReq(Mirrored(c))
      /\ buf' = Stored(c) /\ e' = e + 1 /\ w' = e + 1 /\ agent_buf' = << >> /\ Len(agent_buf') = 0
      /\ rpc' = Woken /\ accepted' = accepted \o line /\ leaked' = (leaked \/ inReq)
      /\ UNCHANGED <<r, lock, ipc, agent_q, n, taken>>
  BY DEF GiveLine
<1>2. inReq' = FALSE /\ ipc = "idle"
  BY <1>1, ArrivesFact, ReqFits
<1>3. ~inReq
  <2> SUFFICES ASSUME inReq PROVE FALSE
    OBVIOUS
  <2>1. r = w /\ linelen > 0 /\ e - w = linelen /\ agent_buf[1] = "REQ" /\ Len(agent_buf) = e - w
    BY <1>2 DEF InputInv, ReqInv, Lockstep
  <2>2. 1 \in 1 .. Len(agent_buf)
    BY <2>1, Indices
  <2>3. Mirrored(c)[1] = "REQ"
    BY <2>1, <2>2, MirroredFact
  <2>4. Len(Mirrored(c)) > 1
    <3>1. PICK m \in Nat : m = Len(agent_buf) /\ m > 0
      BY <2>2, MirroredFact
    <3>2. CASE m < AGENT_BUF_SIZE - 1
      BY <3>1, <3>2, MirroredFact
    <3>3. CASE ~(m < AGENT_BUF_SIZE - 1)
      <4>1. m > 1
        BY <3>3, Indices
      <4>2. Mirrored(c) = agent_buf
        BY <3>1, <3>3 DEF Mirrored
      <4> QED BY <3>1, <4>1, <4>2
    <3> QED BY <3>2, <3>3
  <2> QED BY <1>1, <2>3, <2>4 DEF IsReq
<1>4. line \in Seq(Typed) /\ Len(line) = e + 1 - w
  <2>1. \A i \in 1 .. e + 1 - w : Stored(c)[At(w + i - 1)] \in Typed
    <3> SUFFICES ASSUME NEW i \in 1 .. e + 1 - w PROVE Stored(c)[At(w + i - 1)] \in Typed
      OBVIOUS
    <3>1. At(w + i - 1) \in 0 .. INPUT_BUF_SIZE - 1
      BY Indices, Slots
    <3>2. Stored(c) \in [0 .. INPUT_BUF_SIZE - 1 -> Typed]
      BY <1>1, StoredFact
    <3> QED BY <3>1, <3>2
  <2>2. e + 1 - w \in Nat
    BY Indices
  <2> QED BY <2>1, <2>2
<1>5. /\ accepted \in Seq(Typed) /\ taken \in Seq(Typed) /\ Len(taken) = r /\ Len(accepted) = w
      /\ \A i \in 1 .. r : taken[i] = accepted[i]
      /\ \A i \in r .. w - 1 : accepted[i + 1] = buf[At(i)]
  BY DEF InputInv, InputTypes, KeptInv
<1>6. /\ accepted' \in Seq(Typed) /\ Len(accepted') = e + 1
      /\ \A i \in 1 .. w : accepted'[i] = accepted[i]
      /\ \A i \in w .. e : accepted'[i + 1] = line[i + 1 - w]
  <2> HIDE DEF line
  <2>1. /\ accepted' \in Seq(Typed) /\ Len(accepted') = w + (e + 1 - w)
        /\ \A i \in 1 .. w + (e + 1 - w) : accepted'[i] = IF i <= w THEN accepted[i] ELSE line[i - w]
    <3>1. /\ accepted \o line \in Seq(Typed) /\ Len(accepted \o line) = Len(accepted) + Len(line)
          /\ \A i \in 1 .. Len(accepted) + Len(line) :
               (accepted \o line)[i] = IF i <= Len(accepted) THEN accepted[i] ELSE line[i - Len(accepted)]
      BY <1>4, <1>5, ConcatProperties
    <3>2. Len(accepted) = w /\ Len(line) = e + 1 - w /\ accepted' = accepted \o line
      BY <1>1, <1>4, <1>5
    <3> QED BY <3>1, <3>2
  <2>2. w + (e + 1 - w) = e + 1 /\ \A i \in 1 .. w : i \in 1 .. e + 1
    BY Indices
  <2>3. \A i \in w .. e : i + 1 \in 1 .. e + 1 /\ ~(i + 1 <= w)
    BY Indices
  <2>4. \A i \in 1 .. w : accepted'[i] = accepted[i]
    BY <2>1, <2>2
  <2>5. \A i \in w .. e : accepted'[i + 1] = line[i + 1 - w]
    <3> SUFFICES ASSUME NEW i \in w .. e PROVE accepted'[i + 1] = line[i + 1 - w]
      OBVIOUS
    <3>1. i + 1 \in 1 .. w + (e + 1 - w) /\ ~(i + 1 <= w) /\ (i + 1) - w = i + 1 - w
      BY <2>2, <2>3, Indices
    <3>2. accepted'[i + 1] = line[(i + 1) - w]
      BY <2>1, <3>1
    <3> QED BY <3>1, <3>2
  <2> QED BY <2>1, <2>2, <2>4, <2>5
<1>7. \A i \in w .. e : accepted'[i + 1] = buf'[At(i)]
  <2> SUFFICES ASSUME NEW i \in w .. e PROVE accepted'[i + 1] = buf'[At(i)]
    OBVIOUS
  <2>1. i + 1 - w \in 1 .. e + 1 - w /\ w + (i + 1 - w) - 1 = i
    BY Indices
  <2>2. line[i + 1 - w] = Stored(c)[At(i)]
    BY <2>1
  <2> QED BY <1>1, <1>6, <2>2
<1>8. KeptInv'
  <2>1. \A i \in 1 .. r : i \in 1 .. w
    BY Indices
  <2>2. \A i \in r .. e : accepted'[i + 1] = buf'[At(i)]
    <3> SUFFICES ASSUME NEW i \in r .. e PROVE accepted'[i + 1] = buf'[At(i)]
      OBVIOUS
    <3>1. CASE i >= w
      BY <1>7, <3>1, Indices
    <3>2. CASE ~(i >= w)
      <4>1. i \in r .. w - 1 /\ i + 1 \in 1 .. w /\ i \in r .. e - 1
        BY <3>2, Indices
      <4> QED BY <1>1, <1>5, <1>6, <4>1, StoredFact
    <3> QED BY <3>1, <3>2
  <2>3. \A i \in r .. (e + 1) - 1 : i \in r .. e
    BY Indices
  <2> QED BY <1>1, <1>5, <1>6, <2>1, <2>2, <2>3 DEF KeptInv
<1>9. InputTypes'
  <2>1. << >> \in Seq(Typed) /\ 0 <= AGENT_BUF_SIZE - 1 /\ e + 1 \in Nat
    BY EmptySeq, Indices
  <2>2. leaked' \in BOOLEAN
    BY <1>1
  <2> QED BY <1>1, <1>6, <2>1, <2>2, ArrivesFact, StoredFact DEF InputInv, InputTypes
<1>10. RingInv'
  <2>1. /\ r <= e + 1 /\ e + 1 <= r + INPUT_BUF_SIZE /\ e + 1 <= chars + 1
        /\ \A i \in e + 1 .. (e + 1) - 1 : FALSE
    BY <1>1, Indices DEF Full
  <2>2. chars' = chars + 1
    BY <1>1, ArrivesFact
  <2>3. e' = e + 1 /\ w' = e + 1 /\ r' = r /\ ipc' = "idle"
    BY <1>1, <1>2
  <2>4. w' <= e' /\ e' = w'
    BY <2>3, Indices
  <2>5. \A i \in w' .. e' - 1 : FALSE
    BY <2>1, <2>3
  <2> QED BY <2>1, <2>2, <2>3, <2>4, <2>5 DEF RingInv
<1>11. Lockstep'
  <2>1. e' - w' = 0 /\ \A i \in 1 .. 0 : FALSE
    BY <1>1, Indices
  <2> QED BY <1>1, <2>1 DEF Lockstep
<1>12. ReqInv'
  BY <1>1, <1>2, <1>3 DEF InputInv, ReqInv
<1> QED BY <1>1, <1>8, <1>9, <1>10, <1>11, <1>12, WokenReaders DEF InputInv

(* Every step.                                                             *)
LEMMA InputStep == InputInv /\ [Next]_vars => InputInv'
<1> SUFFICES ASSUME InputInv, [Next]_vars PROVE InputInv'
  OBVIOUS
<1>1. CASE UNCHANGED vars
  <2>1. UNCHANGED <<world, r, taken, lock, agent_q, rpc, n>>
    BY <1>1 DEF vars, world, ring, sending
  <2>2. InputTypes' /\ ReaderInv'
    BY <2>1, ReaderTypes DEF InputInv, InputTypes, ReaderInv, NoSleepOnInput, world
  <2> QED BY <2>1, <2>2, ReaderKeeps
<1>2. CASE Next
  <2>1. ConsoleIntr => InputInv'
    BY BackspaceStep, KillLineStep, DropCharStep, StoreStep, GiveStep, TakeReqStep DEF ConsoleIntr
  <2>2. \A p \in Readers : Reading(p) \/ Kill(p) => InputInv'
    BY ReadStep, TakeCharStep DEF Reading
  <2> QED BY <1>2, <2>1, <2>2, DispatchStep, FinishStep, OtherDrainStep DEF Next, IntrRest
<1> QED BY <1>1, <1>2

(* What console.c keeps while the interrupt edits and readers take, for    *)
(* any ring, line length and number of readers: the mirror is the line     *)
(* being typed, readers get what was typed, whole and in order, nobody     *)
(* sleeps on input, and a REQ| line stays hidden.                          *)
THEOREM ConsoleCorrect == Spec => []ConsoleInv
<1>1. Spec => []InputInv
  BY InputInit, InputStep, PTL DEF Spec
<1>2. InputInv => ConsoleInv
  <2> SUFFICES ASSUME InputInv PROVE ConsoleInv
    OBVIOUS
  <2>1. TypeOK
    BY Indices, ConsoleAssumption DEF InputInv, InputTypes, ReaderInv, TypeOK
  <2>2. TakenIsTyped
    <3>1. /\ accepted \in Seq(Typed) /\ taken \in Seq(Typed) /\ Len(taken) = r /\ Len(accepted) = w
          /\ \A i \in 1 .. r : taken[i] = accepted[i]
          /\ \A i \in r .. w - 1 : accepted[i + 1] = buf[At(i)]
      BY DEF InputInv, InputTypes, KeptInv
    <3>2. Unread \in Seq(Typed) /\ Len(Unread) = w - r
      <4>1. \A i \in 1 .. w - r : buf[At(r + i - 1)] \in Typed
        <5> SUFFICES ASSUME NEW i \in 1 .. w - r PROVE buf[At(r + i - 1)] \in Typed
          OBVIOUS
        <5>1. At(r + i - 1) \in 0 .. INPUT_BUF_SIZE - 1
          BY Indices, Slots
        <5> QED BY <5>1 DEF InputInv, InputTypes
      <4>2. w - r \in Nat
        BY Indices
      <4> QED BY <4>1, <4>2 DEF Unread
    <3>3. /\ taken \o Unread \in Seq(Typed) /\ Len(taken \o Unread) = r + (w - r)
          /\ \A i \in 1 .. r + (w - r) : (taken \o Unread)[i] = IF i <= r THEN taken[i] ELSE Unread[i - r]
      BY <3>1, <3>2, ConcatProperties
    <3>4. r + (w - r) = w
      BY Indices
    <3>5. \A i \in 1 .. w : (taken \o Unread)[i] = accepted[i]
      <4> SUFFICES ASSUME NEW i \in 1 .. w PROVE (taken \o Unread)[i] = accepted[i]
        OBVIOUS
      <4>1. CASE i <= r
        BY <3>1, <3>3, <3>4, <4>1, Indices
      <4>2. CASE ~(i <= r)
        <5>1. i - r \in 1 .. w - r /\ r + (i - r) - 1 = i - 1 /\ i - 1 \in r .. w - 1 /\ (i - 1) + 1 = i
          BY <4>2, Indices
        <5>2. Unread[i - r] = buf[At(i - 1)]
          BY <5>1 DEF Unread
        <5> QED BY <3>1, <3>3, <3>4, <4>2, <5>1, <5>2
      <4> QED BY <4>1, <4>2
    <3> HIDE DEF Unread
    <3> QED BY <3>1, <3>3, <3>4, <3>5, SeqEqual DEF TakenIsTyped
  <2> QED BY <2>1, <2>2 DEF ConsoleInv, InputInv, ReaderInv, ReqInv, ReqHidden
<1> QED BY <1>1, <1>2, PTL
=============================================================================

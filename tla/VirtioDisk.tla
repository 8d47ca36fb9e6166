----------------------------- MODULE VirtioDisk -----------------------------
(***************************************************************************)
(* The disk driver of kernel/virtio_disk.c and the device it drives.  Each *)
(* caller of virtio_disk_rw holds the sleeplock of a buffer of its own, so *)
(* a caller stands for its buffer.  A request takes three descriptors; the *)
(* device serves the requests in any order, puts them on the used ring and *)
(* interrupts.                                                             *)
(*                                                                         *)
(* Steps under vdisk_lock are single actions; only virtio_disk_intr, whose *)
(* loop races the device, is split, and holds the lock (serving) between   *)
(* its steps.                                                              *)
(***************************************************************************)
EXTENDS Integers, Sequences, FiniteSets, SequencesExt

CONSTANTS
  Caller,        \* processes that call virtio_disk_rw
  NUM,           \* descriptors
  NoCaller

ASSUME DiskAssumption == NUM \in Nat /\ NUM >= 3 /\ NoCaller \notin Caller

VARIABLES
  free,          \* the free descriptors
  next,          \* descriptor -> the next of its chain, or NUM at the end
  info,          \* head descriptor -> the caller whose buffer it transfers
  bdisk,         \* caller -> b->disk, the device owns the buffer
  avail,         \* heads handed to the device
  used,          \* heads the device has completed, oldest first
  irq, serving,  \* interrupt raised; virtio_disk_intr running
  rw,            \* caller -> where it is in virtio_disk_rw
  idx,           \* caller -> the head of its chain, or NUM
  moved          \* history: callers whose data the device has transferred

diskVars == <<free, next, info, bdisk, avail, used, irq, serving, rw, idx, moved>>

Desc == 0 .. NUM - 1

virtio_disk_init ==
  /\ free = Desc
  /\ next = [d \in Desc |-> NUM]
  /\ info = [d \in Desc |-> NoCaller]
  /\ bdisk = [c \in Caller |-> FALSE]
  /\ avail = {} /\ used = << >>
  /\ irq = FALSE /\ serving = FALSE
  /\ rw = [c \in Caller |-> "idle"]
  /\ idx = [c \in Caller |-> NUM]
  /\ moved = Caller

(* wakeup(&disk.free[0]).                                                  *)
WakeDesc(state) ==
  [c \in Caller |-> IF state[c] = "asleep for descriptors" THEN "alloc" ELSE state[c]]

Call(c) ==
  /\ rw[c] = "idle"
  /\ rw' = [rw EXCEPT ![c] = "alloc"]
  /\ moved' = moved \ {c}
  /\ UNCHANGED <<free, next, info, bdisk, avail, used, irq, serving, idx>>

(* alloc_desc takes the lowest free descriptor, alloc3_desc three.         *)
alloc_desc(S) == Min(S)
alloc3_desc ==
  LET d0 == alloc_desc(free)
      d1 == alloc_desc(free \ {d0})
  IN  <<d0, d1, alloc_desc(free \ {d0, d1})>>

(* virtio_disk_rw: format the chain and hand its head to the device.       *)
Submit(c) ==
  LET d == alloc3_desc IN
  /\ rw[c] = "alloc"
  /\ ~serving
  /\ Cardinality(free) >= 3
  /\ free' = free \ ToSet(d)
  /\ next' = [next EXCEPT ![d[1]] = d[2], ![d[2]] = d[3], ![d[3]] = NUM]
  /\ info' = [info EXCEPT ![d[1]] = c]
  /\ bdisk' = [bdisk EXCEPT ![c] = TRUE]
  /\ idx' = [idx EXCEPT ![c] = d[1]]
  /\ avail' = avail \cup {d[1]}
  /\ rw' = [rw EXCEPT ![c] = "asleep on buffer"]
  /\ UNCHANGED <<used, irq, serving, moved>>

(* Too few: alloc3_desc gives back what it took, and each free_desc wakes  *)
(* the others that wait for descriptors.                                   *)
NoDescriptors(c) ==
  /\ rw[c] = "alloc"
  /\ ~serving
  /\ Cardinality(free) < 3
  /\ rw' = [IF free = {} THEN rw ELSE WakeDesc(rw)
              EXCEPT ![c] = "asleep for descriptors"]
  /\ UNCHANGED <<free, next, info, bdisk, avail, used, irq, serving, idx, moved>>

(* free_chain follows next from the head.                                  *)
ChainShort(d) == {d} \cup ({next[d]} \ {NUM})                   \* mutant
Chain(d) ==
  LET e == next[d] IN
  {d} \cup (IF e = NUM THEN {} ELSE {e} \cup ({next[e]} \ {NUM}))

(* Woken with b->disk clear: free the chain, wake who waits for it.        *)
Complete(c) ==
  /\ rw[c] = "woken"
  /\ ~serving
  /\ IF bdisk[c]
     THEN /\ rw' = [rw EXCEPT ![c] = "asleep on buffer"]
          /\ UNCHANGED <<free, next, info, idx>>
     ELSE /\ info' = [info EXCEPT ![idx[c]] = NoCaller]
          /\ free' = free \cup Chain(idx[c])
          /\ next' = [d \in Desc |-> IF d \in Chain(idx[c]) THEN NUM ELSE next[d]]
          /\ idx' = [idx EXCEPT ![c] = NUM]
          /\ rw' = WakeDesc([rw EXCEPT ![c] = "idle"])
  /\ UNCHANGED <<bdisk, avail, used, irq, serving, moved>>

(* kkill makes a sleeper runnable whatever it sleeps on.                   *)
KillSleeper(c) ==
  /\ rw[c] \in {"asleep for descriptors", "asleep on buffer"}
  /\ rw' = [rw EXCEPT ![c] = IF @ = "asleep on buffer" THEN "woken" ELSE "alloc"]
  /\ UNCHANGED <<free, next, info, bdisk, avail, used, irq, serving, idx, moved>>

(* The device: transfers the data of one chain, in any order, puts it on   *)
(* the used ring and raises its interrupt.                                 *)
DeviceServes(d) ==
  /\ d \in avail
  /\ avail' = avail \ {d}
  /\ used' = Append(used, d)
  /\ irq' = TRUE
  /\ moved' = moved \cup {info[d]}
  /\ UNCHANGED <<free, next, info, bdisk, serving, rw, idx>>

(* virtio_disk_intr: acknowledge, then walk the used ring.                 *)
IntrAck ==
  /\ irq /\ ~serving
  /\ irq' = FALSE /\ serving' = TRUE
  /\ UNCHANGED <<free, next, info, bdisk, avail, used, rw, idx, moved>>

(* One used entry.  The device is assumed to report success: any other     *)
(* status is a panic (virtio_disk.c:316), behind which nothing runs.       *)
IntrNextSilently ==                                             \* mutant
  LET c == info[Head(used)] IN
  /\ serving /\ used # << >>
  /\ used' = Tail(used)
  /\ bdisk' = [bdisk EXCEPT ![c] = FALSE]
  /\ UNCHANGED <<free, next, info, avail, irq, serving, rw, idx, moved>>
IntrNext ==
  LET c == info[Head(used)] IN
  /\ serving /\ used # << >>
  /\ used' = Tail(used)
  /\ bdisk' = [bdisk EXCEPT ![c] = FALSE]
  /\ rw' = [rw EXCEPT ![c] = "woken"]
  /\ UNCHANGED <<free, next, info, avail, irq, serving, idx, moved>>

IntrReturn ==
  /\ serving /\ used = << >>
  /\ serving' = FALSE
  /\ UNCHANGED <<free, next, info, bdisk, avail, used, irq, rw, idx, moved>>

DiskNext ==
  \/ \E c \in Caller :
       Call(c) \/ Submit(c) \/ NoDescriptors(c) \/ Complete(c) \/ KillSleeper(c)
  \/ \E d \in Desc : DeviceServes(d)
  \/ IntrAck \/ IntrNext \/ IntrReturn

(* The device serves what it is given, its interrupts are taken, and a     *)
(* woken process runs and gets the vdisk_lock it spins for.                *)
ServesCaller(c) == \E d \in Desc : info[d] = c /\ DeviceServes(d)
HandlerStep == IntrAck \/ IntrNext \/ IntrReturn
DiskFairness ==
  /\ WF_diskVars(HandlerStep)
  /\ \A c \in Caller : WF_diskVars(ServesCaller(c)) /\ SF_diskVars(Complete(c))

DiskSpec == virtio_disk_init /\ [][DiskNext]_diskVars /\ DiskFairness

-----------------------------------------------------------------------------
(* Types; every head the handler meets belongs to a caller (disk.info).    *)
DiskTypeOK ==
  /\ free \subseteq Desc /\ avail \subseteq Desc /\ used \in Seq(Desc)
  /\ next \in [Desc -> 0 .. NUM] /\ idx \in [Caller -> 0 .. NUM]
  /\ info \in [Desc -> Caller \cup {NoCaller}]
  /\ bdisk \in [Caller -> BOOLEAN] /\ irq \in BOOLEAN /\ serving \in BOOLEAN
  /\ rw \in [Caller -> {"idle", "alloc", "asleep for descriptors",
                        "asleep on buffer", "woken"}]
  /\ moved \subseteq Caller

Busy == {c \in Caller : idx[c] # NUM}

(* Every descriptor is free or in the chain of exactly one request, and a  *)
(* request is in one place: with the device, on the used ring, or done     *)
(* (the panics of free_desc, and rings of NUM entries that never overrun). *)
DescriptorsConserved ==
  /\ \A d \in Desc : d \notin free <=> \E c \in Busy : d \in Chain(idx[c])
  /\ \A c, e \in Busy : c # e => Chain(idx[c]) \cap Chain(idx[e]) = {}
  /\ IsInjective(used) /\ avail \cap ToSet(used) = {}
  /\ \A c \in Busy : bdisk[c] <=> idx[c] \in avail \cup ToSet(used)

(* virtio_disk_rw returns only after the device has moved the data of this *)
(* caller, in whatever order requests complete and whoever is killed while *)
(* it sleeps: the buffer is not given back to its user under the device.   *)
ReturnMeansTransferred ==
  \A c \in Caller : rw[c] = "idle" => c \in moved /\ ~bdisk[c]

(* A completion the handler has not seen still has an interrupt to come:   *)
(* virtio_disk_intr acknowledges before it walks the ring.                 *)
NoLostCompletion == used # << >> => irq \/ serving

(* Nobody waits for descriptors while no request is under way to free some *)
(* (free_desc's wakeup).                                                   *)
DescriptorWaitEnds ==
  (\E c \in Caller : rw[c] = "asleep for descriptors") => Busy # {}

(* A request given to the device returns to its caller.                    *)
RequestReturns == \A c \in Caller : rw[c] = "asleep on buffer" ~> rw[c] = "idle"

(* What virtio_disk.c keeps while the device completes in any order:       *)
(* descriptors are neither lost nor shared, a call returns with its own    *)
(* transfer done, no completion is overlooked, and a caller out of         *)
(* descriptors has someone to wake it.                                     *)
DiskInv == /\ DiskTypeOK /\ DescriptorsConserved /\ ReturnMeansTransferred
           /\ NoLostCompletion /\ DescriptorWaitEnds
=============================================================================

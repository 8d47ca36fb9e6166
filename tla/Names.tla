------------------------------- MODULE Names -------------------------------
(***************************************************************************)
(* Inodes, directories and path names: the inode table, link counts and    *)
(* namex of kernel/fs.c under the system calls of kernel/sysfile.c, with   *)
(* the jail of sys_jail, and the crash after which recovery and ireclaim   *)
(* run.                                                                    *)
(*                                                                         *)
(* A call walks its path one element at a time: namex locks one directory  *)
(* at a time, so other calls fall between any two elements, and between    *)
(* the walk and the work at its end, which is one action because it keeps  *)
(* the directory locked.  The path is chosen element by element.  iput is  *)
(* two steps when it frees the inode.                                      *)
(*                                                                         *)
(* What the calls write reaches the disk when the last outstanding one     *)
(* ends, all of it or nothing (module Log, which implements AtomicDisk).   *)
(* So a crash leaves what the disk held when last no call was outstanding, *)
(* and it is enough to let the machine crash at those moments.             *)
(***************************************************************************)
EXTENDS Integers, Sequences, FiniteSets, FiniteSetsExt, Functions

CONSTANTS
  Agent,         \* process slots; one runs at boot
  NINUM,         \* inode numbers 1 .. NINUM; 1 is ROOTINO
  Name,          \* entry names, besides "." and ".."
  Bounded,       \* whether the three bounds below limit the calls made
  MaxLeak        \* bound: references lost by jailing a process again

ASSUME NamesAssumption ==
  /\ Agent # {} /\ IsFiniteSet(Agent) /\ NINUM \in Nat /\ NINUM > 1
  /\ IsFiniteSet(Name) /\ ".." \notin Name /\ MaxLeak \in Nat

VARIABLES
  fs,            \* the inodes: [type, nlink, ent, up]
  iref,          \* inum -> ref of its table entry, 0 when it has none
  cwd, jail,     \* process -> inum, 0 for none
  fd,            \* process -> inum of its open file, 0 for none
  pc,            \* process -> the system call it is in
  ip,            \* process -> the inode its walk has reached
  held,          \* process -> the inode sys_link keeps, 0 for none
  todo,          \* process -> inodes it has yet to iput
  freed,         \* processes inside iput: inode freed, entry not given up
  panic,         \* "no", or the panic the kernel stopped with
  removed,       \* history: inums of removed directories still referenced
  strays,        \* history: inums linked into a removed directory
  cell,          \* history: process -> the directory it was first jailed in
  slipped,       \* history: inums whose last iput found them being dropped
  leaked         \* history: inum -> references dropped without an iput

mem == <<iref, cwd, jail, fd, pc, ip, held, todo, freed>>
ghosts == <<removed, strays, cell, slipped, leaked>>
namesVars == <<fs, mem, panic, ghosts>>

Inum == 1 .. NINUM
ROOTINO == 1
Linkable == Inum \cup {0}

fsinit ==
  /\ fs = [type  |-> [i \in Inum |-> IF i = ROOTINO THEN "dir" ELSE "free"],
           nlink |-> [i \in Inum |-> IF i = ROOTINO THEN 1 ELSE 0],
           ent   |-> [i \in Inum |-> [n \in Name |-> 0]],
           up    |-> [i \in Inum |-> ROOTINO]]
  /\ iref = [i \in Inum |-> IF i = ROOTINO THEN 1 ELSE 0]
  /\ \E boot \in Agent :
       /\ cwd = [p \in Agent |-> IF p = boot THEN ROOTINO ELSE 0]
       /\ pc = [p \in Agent |-> IF p = boot THEN "user" ELSE "dead"]
  /\ jail = [p \in Agent |-> 0] /\ fd = [p \in Agent |-> 0]
  /\ ip = [p \in Agent |-> 0] /\ held = [p \in Agent |-> 0]
  /\ todo = [p \in Agent |-> << >>]
  /\ freed = {} /\ panic = "no" /\ removed = {} /\ strays = {} /\ slipped = {}
  /\ cell = [p \in Agent |-> 0] /\ leaked = [i \in Inum |-> 0]

(* Bound: no new call once an inode is lost in a removed directory or was  *)
(* not freed; link counts of lost directories would grow for ever.         *)
Explored == Bounded => strays = {} /\ slipped = {}

(* Bound: a process jailed in the root, or while a file is open, is not    *)
(* jailed again ...                                                        *)
JailsAgain(p) ==
  Bounded => /\ jail[p] # ROOTINO /\ \A q \in Agent : fd[q] = 0
             /\ FoldSet(LAMBDA i, k : leaked[i] + k, 0, Inum) < MaxLeak

(* ... and after that nothing is opened or linked, but for new files.      *)
OpensAndLinks == Bounded => \A i \in Inum : leaked[i] = 0

In(p, where) == Explored /\ panic = "no" /\ pc[p] = where
Jailed(p) == jail[p] # 0

(* p goes on in state where with inodes f and refs r, once it has put a    *)
(* and b (0 for none): at once, except one that the iput frees.            *)
FreesLinked(f, r, i) == r[i] = 1 /\ f.type[i] # "free"         \* mutant
Frees(f, r, i) == r[i] = 1 /\ f.type[i] # "free" /\ f.nlink[i] = 0

Kept(f, r, i) == IF i # 0 /\ Frees(f, r, i) THEN <<i>> ELSE << >>

Settle(p, where, f, r, a, b) ==
  LET freeing == Kept(f, r, a) \o Kept(f, r, b) IN
  /\ fs' = f
  /\ iref' = [i \in Inum |-> IF i \in {a, b} /\ ~Frees(f, r, i) THEN r[i] - 1 ELSE r[i]]
  /\ todo' = [todo EXCEPT ![p] = freeing]
  /\ pc' = [pc EXCEPT ![p] = IF where = "end_op" /\ freeing = << >> THEN "user" ELSE where]

(* iget and idup.                                                          *)
Got(i) == [iref EXCEPT ![i] = @ + 1]

-----------------------------------------------------------------------------
(* begin_op, and the directory namex starts from.  Which call it is shows  *)
(* at the end of the walk.                                                 *)
Start(p, absolute) ==
  CASE absolute /\ Jailed(p)  -> jail[p]
    [] absolute /\ ~Jailed(p) -> ROOTINO
    [] ~absolute              -> cwd[p]

BeginCall(p, absolute) ==
  /\ In(p, "user")
  /\ pc' = [pc EXCEPT ![p] = "walk"]
  /\ ip' = [ip EXCEPT ![p] = Start(p, absolute)]
  /\ iref' = Got(Start(p, absolute))
  /\ UNCHANGED <<fs, cwd, jail, fd, held, todo, freed, panic, ghosts>>

(* p is about to ilock the inode its walk has reached; one that is free    *)
(* on disk has no type.                                                    *)
Locks(p) == panic = "no" /\ ip[p] # 0 /\ todo[p] = << >>
ilock(p) == Locks(p) /\ fs.type[ip[p]] # "free"
ilockPanics(p) ==
  /\ Locks(p) /\ fs.type[ip[p]] = "free"
  /\ panic' = "ilock: no type"
  /\ UNCHANGED <<fs, mem, ghosts>>

(* The walk is over, in state where, with a and b to put.                  *)
Over(p, where, f, r, a, b) ==
  Settle(p, where, f, r, a, b) /\ ip' = [ip EXCEPT ![p] = 0]

(* A call that cannot go on: sys_link must undo its nlink++.               *)
Fail(p) == Over(p, IF pc[p] = "link to" THEN "link bad" ELSE "end_op", fs, iref, ip[p], 0)

(* ".." at the root of the jail stays there.                               *)
PinnedNever(p, e) == FALSE                                      \* mutant
Pinned(p, e) == Jailed(p) /\ e = ".." /\ ip[p] = jail[p]

dirlookup(d, e) == IF e = ".." THEN fs.up[d] ELSE fs.ent[d][e]

(* One turn of namex's loop: lock, look up, unlock, put.  (A pinned ".."   *)
(* changes nothing.)                                                       *)
namex(p, e) ==
  LET next == dirlookup(ip[p], e) IN
  /\ ilock(p) /\ ~Pinned(p, e)
  /\ IF fs.type[ip[p]] # "dir" \/ next = 0
     THEN Fail(p)
     ELSE /\ Settle(p, pc[p], fs, Got(next), ip[p], 0)
          /\ ip' = [ip EXCEPT ![p] = next]
  /\ UNCHANGED <<cwd, jail, fd, held, freed, panic, ghosts>>

(* itrunc and type = 0.                                                    *)
Erased(i) ==
  [fs EXCEPT !.type[i] = "free", !.up[i] = ROOTINO, !.ent[i] = [n \in Name |-> 0]]

(* iput that frees: the inode first, then the table entry; another call    *)
(* can take the inum in between.  (Every inode a call puts was locked      *)
(* before by some call, so it is valid.)                                   *)
iput(p) ==
  LET i == Head(todo[p]) IN
  /\ panic = "no" /\ todo[p] # << >>
  /\ IF Frees(fs, iref, i) /\ p \notin freed
     THEN /\ fs' = Erased(i)
          /\ freed' = freed \cup {p}
          /\ removed' = removed \ {i} /\ strays' = strays \ {i}
          /\ UNCHANGED <<iref, todo, pc, slipped>>
     ELSE /\ iref' = [iref EXCEPT ![i] = @ - 1]
          /\ todo' = [todo EXCEPT ![p] = Tail(@)]
          /\ freed' = freed \ {p}
          /\ slipped' = IF p \in freed /\ Frees(fs, iref, i) THEN slipped \cup {i} ELSE slipped
          /\ pc' = [pc EXCEPT ![p] = IF Len(todo[p]) = 1 /\ @ = "end_op"
                                     THEN IF cwd[p] = 0 THEN "dead" ELSE "user" ELSE @]
          /\ UNCHANGED <<fs, removed, strays>>
  /\ UNCHANGED <<cwd, jail, fd, ip, held, panic, cell, leaked>>

-----------------------------------------------------------------------------
(* The work at the end of a walk, on the inode that namei returned or in   *)
(* the directory that nameiparent returned, which p locks.                 *)
At(p, where) == ilock(p) /\ pc[p] = where
AtParent(p, where) == At(p, where) /\ fs.type[ip[p]] = "dir"
(* What is linked into d is linked into no tree.                           *)
Named(d) == \E k \in Inum, n \in Name : fs.ent[k][n] = d
Detached(d) == d \in removed \cup strays \/ (d # ROOTINO /\ ~Named(d))

sys_open(p) ==
  /\ At(p, "walk") /\ fd[p] = 0 /\ OpensAndLinks
  /\ \/ fd' = [fd EXCEPT ![p] = ip[p]] /\ Over(p, "end_op", fs, iref, 0, 0)
     \/ Fail(p) /\ UNCHANGED fd                    \* no file or descriptor
  /\ UNCHANGED <<cwd, jail, held, freed, panic, ghosts>>

(* chdir and jail want a directory and drop the old cwd.                   *)
sys_chdir(p) ==
  /\ At(p, "walk")
  /\ IF fs.type[ip[p]] # "dir"
     THEN Fail(p) /\ UNCHANGED cwd
     ELSE Over(p, "end_op", fs, iref, cwd[p], 0) /\ cwd' = [cwd EXCEPT ![p] = ip[p]]
  /\ UNCHANGED <<jail, fd, held, freed, panic, ghosts>>

sys_jail(p) ==
  /\ AtParent(p, "walk")
  /\ Jailed(p) => JailsAgain(p)
  /\ Over(p, "end_op", fs, Got(ip[p]), cwd[p], 0)
  /\ cwd' = [cwd EXCEPT ![p] = ip[p]]
  /\ jail' = [jail EXCEPT ![p] = ip[p]]
  /\ cell' = [cell EXCEPT ![p] = IF @ = 0 THEN ip[p] ELSE @]
  /\ leaked' = [i \in Inum |-> IF i = jail[p] THEN leaked[i] + 1 ELSE leaked[i]]
  /\ UNCHANGED <<fd, held, freed, panic, removed, strays, slipped>>

(* create of an entry that exists: a file may be opened, the rest fails.   *)
CreateExisting(p, n) ==
  LET next == dirlookup(ip[p], n) IN
  /\ AtParent(p, "walk") /\ next # 0
  /\ \/ /\ fs.type[next] = "file" /\ fd[p] = 0
        /\ fd' = [fd EXCEPT ![p] = next]
        /\ Over(p, "end_op", fs, Got(next), ip[p], 0)
     \/ Over(p, "end_op", fs, Got(next), ip[p], next) /\ UNCHANGED fd
  /\ UNCHANGED <<cwd, jail, held, freed, panic, ghosts>>

ialloc == Min({i \in Inum : fs.type[i] = "free"})

(* The new inode of type t named n in d; a directory's ".." links d.       *)
Made(i, t, d, n) ==
  [type  |-> [fs.type EXCEPT ![i] = t],
   nlink |-> [fs.nlink EXCEPT ![i] = 1, ![d] = IF t = "dir" THEN @ + 1 ELSE @],
   ent   |-> [fs.ent EXCEPT ![i] = [m \in Name |-> 0], ![d][n] = i],
   up    |-> [fs.up EXCEPT ![i] = IF t = "dir" THEN d ELSE ROOTINO]]

(* The inode of a create that found no block for the entry.                *)
Unmade(i, t) == [fs EXCEPT !.type[i] = t, !.nlink[i] = 0]

(* create: ialloc, then the entry; without a block for the entry the inode *)
(* keeps no link and is put again.                                         *)
create(p, t, n) ==
  LET i == ialloc
      d == ip[p]
  IN
  /\ AtParent(p, "walk") /\ dirlookup(d, n) = 0
  /\ \/ Fail(p) /\ UNCHANGED <<fd, strays>>        \* no inode
     \/ /\ \E k \in Inum : fs.type[k] = "free"
        /\ \/ /\ strays' = IF Detached(d) THEN strays \cup {i} ELSE strays
              /\ IF t = "file" /\ fd[p] = 0
                 THEN /\ fd' = [fd EXCEPT ![p] = i]
                      /\ Over(p, "end_op", Made(i, t, d, n), Got(i), d, 0)
                 ELSE /\ Over(p, "end_op", Made(i, t, d, n), Got(i), d, i)
                      /\ UNCHANGED fd
           \/ /\ Over(p, "end_op", Unmade(i, t), Got(i), i, d)
              /\ UNCHANGED <<fd, strays>>
  /\ UNCHANGED <<cwd, jail, held, freed, panic, removed, cell, slipped, leaked>>

isdirempty(i) == \A n \in Name : fs.ent[i][n] = 0

Unlinked(i, d, n) ==
  [fs EXCEPT !.ent[d][n] = 0,
             !.nlink = [fs.nlink EXCEPT ![i] = @ - 1,
                                      ![d] = IF fs.type[i] = "dir" THEN @ - 1 ELSE @]]

sys_unlink(p, n) ==
  LET d == ip[p]
      i == dirlookup(d, n)
  IN
  /\ AtParent(p, "walk")
  /\ IF i = 0
     THEN Fail(p) /\ UNCHANGED <<panic, removed>>
     ELSE /\ panic' = IF fs.nlink[i] < 1 THEN "unlink: nlink < 1" ELSE "no"
          /\ IF fs.type[i] = "dir" /\ ~isdirempty(i)
             THEN Over(p, "end_op", fs, Got(i), i, d) /\ UNCHANGED removed
             ELSE /\ Over(p, "end_op", Unlinked(i, d, n), Got(i), d, i)
                  /\ removed' = IF fs.type[i] = "dir" THEN removed \cup {i} ELSE removed
  /\ UNCHANGED <<cwd, jail, fd, held, freed, strays, cell, slipped, leaked>>

(* k links more, and an entry for one.                                     *)
Relinked(i, k) == [fs EXCEPT !.nlink[i] = @ + k]
Linked(d, n, i) == [fs EXCEPT !.ent[d][n] = i]

(* sys_link: count the link, then walk to the new name's directory.        *)
sys_link(p, absolute) ==
  /\ At(p, "walk") /\ fs.type[ip[p]] # "dir" /\ OpensAndLinks
  /\ fs' = Relinked(ip[p], 1)
  /\ held' = [held EXCEPT ![p] = ip[p]]
  /\ pc' = [pc EXCEPT ![p] = "link to"]
  /\ ip' = [ip EXCEPT ![p] = Start(p, absolute)]
  /\ iref' = Got(Start(p, absolute))
  /\ UNCHANGED <<cwd, jail, fd, todo, freed, panic, ghosts>>

LinkEntry(p, n) ==
  LET d == ip[p] IN
  /\ AtParent(p, "link to")
  /\ \/ /\ dirlookup(d, n) = 0
        /\ strays' = IF Detached(d) THEN strays \cup {held[p]} ELSE strays
        /\ Over(p, "end_op", Linked(d, n, held[p]), iref, d, held[p])
        /\ held' = [held EXCEPT ![p] = 0]
     \/ Fail(p) /\ UNCHANGED <<held, strays>>      \* it exists, or no block
  /\ UNCHANGED <<cwd, jail, fd, freed, panic, removed, cell, slipped, leaked>>

LinkBad(p) ==
  /\ In(p, "link bad") /\ todo[p] = << >>
  /\ Settle(p, "end_op", Relinked(held[p], -1), iref, held[p], 0)
  /\ held' = [held EXCEPT ![p] = 0]
  /\ UNCHANGED <<cwd, jail, fd, ip, freed, panic, ghosts>>

-----------------------------------------------------------------------------
CloseFile(p) ==
  /\ In(p, "user") /\ fd[p] # 0
  /\ fd' = [fd EXCEPT ![p] = 0]
  /\ Settle(p, "end_op", fs, iref, fd[p], 0)
  /\ UNCHANGED <<cwd, jail, ip, held, freed, panic, ghosts>>

(* kfork: the child shares cwd and jail.  Files shared by fork are module  *)
(* Pipe's; here the child has none.                                        *)
ForkAgent(p, q) ==
  /\ In(p, "user") /\ pc[q] = "dead"
  /\ pc' = [pc EXCEPT ![q] = "user"]
  /\ cwd' = [cwd EXCEPT ![q] = cwd[p]]
  /\ jail' = [jail EXCEPT ![q] = jail[p]]
  /\ cell' = [cell EXCEPT ![q] = cell[p]]
  /\ iref' = [i \in Inum |-> iref[i] + Cardinality({k \in {1, 2} : <<cwd[p], jail[p]>>[k] = i})]
  /\ UNCHANGED <<fs, fd, ip, held, todo, freed, panic,
                 removed, strays, slipped, leaked>>

(* kexit, its files closed: put cwd and the jail's root.                   *)
ExitAgent(p) ==
  /\ In(p, "user") /\ fd[p] = 0
  /\ \E q \in Agent \ {p} : pc[q] # "dead"      \* init never exits
  /\ pc' = [pc EXCEPT ![p] = "end_op"]
  /\ todo' = [todo EXCEPT ![p] = IF Jailed(p) THEN <<cwd[p], jail[p]>> ELSE <<cwd[p]>>]
  /\ cwd' = [cwd EXCEPT ![p] = 0] /\ jail' = [jail EXCEPT ![p] = 0]
  /\ cell' = [cell EXCEPT ![p] = 0]
  /\ UNCHANGED <<fs, iref, fd, ip, held, freed, panic, removed, strays, slipped, leaked>>

(* Power is lost; recovery restores the last commit, and fsinit's ireclaim *)
(* frees the inodes nothing names before the first process runs.           *)
Quiet == \A p \in Agent : pc[p] \in {"user", "dead"}
Orphan(d, i) == d.type[i] # "free" /\ d.nlink[i] = 0
ireclaim(d) ==
  [d EXCEPT !.type = [i \in Inum |-> IF Orphan(d, i) THEN "free" ELSE d.type[i]],
            !.ent  = [i \in Inum |-> IF Orphan(d, i) THEN [n \in Name |-> 0] ELSE d.ent[i]],
            !.up   = [i \in Inum |-> IF Orphan(d, i) THEN ROOTINO ELSE d.up[i]]]

Crash ==
  /\ Quiet
  /\ fs' = ireclaim(fs)
  /\ iref' = [i \in Inum |-> IF i = ROOTINO THEN 1 ELSE 0]
  /\ \E boot \in Agent :
       /\ cwd' = [p \in Agent |-> IF p = boot THEN ROOTINO ELSE 0]
       /\ pc' = [p \in Agent |-> IF p = boot THEN "user" ELSE "dead"]
  /\ jail' = [p \in Agent |-> 0] /\ fd' = [p \in Agent |-> 0]
  /\ ip' = [p \in Agent |-> 0] /\ held' = [p \in Agent |-> 0]
  /\ todo' = [p \in Agent |-> << >>]
  /\ freed' = {} /\ panic' = "no" /\ slipped' = {}
  /\ removed' = {i \in removed : ~Orphan(fs, i)}
  /\ cell' = [p \in Agent |-> 0] /\ leaked' = [i \in Inum |-> 0]
  /\ UNCHANGED strays

NamesNext ==
  \/ \E p \in Agent :
       \/ \E e \in Name \cup {".."} : namex(p, e)
       \/ \E n \in Name : CreateExisting(p, n) \/ sys_unlink(p, n) \/ LinkEntry(p, n)
       \/ \E n \in Name, t \in {"dir", "file"} : create(p, t, n)
       \/ \E absolute \in BOOLEAN : BeginCall(p, absolute) \/ sys_link(p, absolute)
       \/ ilockPanics(p) \/ iput(p) \/ sys_open(p) \/ sys_chdir(p) \/ sys_jail(p)
       \/ LinkBad(p) \/ CloseFile(p) \/ ExitAgent(p)
       \/ \E q \in Agent : ForkAgent(p, q)
  \/ Crash

NamesSpec == fsinit /\ [][NamesNext]_namesVars

-----------------------------------------------------------------------------
(* Types; no link count and no reference count goes below zero.            *)
NamesTypeOK ==
  /\ \A i \in Inum : /\ fs.type[i] \in {"free", "dir", "file"} /\ fs.nlink[i] \in Nat
                     /\ fs.up[i] \in Inum /\ \A n \in Name : fs.ent[i][n] \in Linkable
  /\ iref \in [Inum -> Nat] /\ freed \subseteq Agent
  /\ cwd \in [Agent -> Linkable] /\ jail \in [Agent -> Linkable]
  /\ fd \in [Agent -> Linkable] /\ ip \in [Agent -> Linkable] /\ held \in [Agent -> Linkable]

(* What a process points at; no call has more than two inodes to put.      *)
Pointers(p) == <<cwd[p], jail[p], fd[p], ip[p], held[p]>> \o todo[p]
Refs(i) == {x \in Agent \X (1 .. 7) : x[2] <= Len(Pointers(x[1])) /\ Pointers(x[1])[x[2]] = i}

(* The ref of a table entry is the number of pointers to it: working       *)
(* directories, jails, files, walks and pending iputs, through every       *)
(* failure of every call, and what sys_jail lost.                          *)
RefsAreHeld ==
  \A i \in Inum : iref[i] = leaked[i] + Cardinality(Refs(i))

Entries(d, i) == {e \in Inum \X Name : d.type[e[1]] = "dir" /\ d.ent[e[1]][e[2]] = i}
Subdirs(d, i) == {n \in Name : d.ent[i][n] # 0 /\ d.type[d.ent[i][n]] = "dir"}

(* Between calls, and so in every state a crash leaves, nlink is the number *)
(* of names an inode has, plus one for ".." of each directory in it; what  *)
(* has no name is free or still referenced.  Exempt are inodes linked into *)
(* a directory that was removed in the middle of the call, and the inode   *)
(* of slipped.                                                             *)
NlinkCountsNames(d) ==
  \A i \in Inum \ strays :
    d.type[i] # "free" =>
      d.nlink[i] = Cardinality(Entries(d, i)) + Cardinality(Subdirs(d, i))
                   + (IF i = ROOTINO THEN 1 ELSE 0)

LinksConsistent == Quiet => NlinkCountsNames(fs)

(* The last reference to an inode without links frees it (iput), unless a  *)
(* call reused the inum while the last iput was giving up the table entry  *)
(* (or a leaked jail still refers to it).                                  *)
UnlinkedFreedUnlessReused ==
  Quiet => \A i \in Inum :
    fs.type[i] # "free" /\ fs.nlink[i] = 0 => iref[i] > 0 \/ i \in slipped

(* A name leads to an inode that exists; only the ".." of a removed        *)
(* directory can lead to one that is gone, and then ilock panics.          *)
NamesLeadToInodes ==
  /\ panic # "unlink: nlink < 1"
  /\ \A i \in Inum, n \in Name :
       fs.type[i] = "dir" /\ fs.ent[i][n] # 0 => fs.type[fs.ent[i][n]] # "free"
  /\ \A i \in Inum \ (removed \cup strays) : fs.type[i] = "dir" /\ fs.nlink[i] > 0 => fs.type[fs.up[i]] = "dir"

(* The directories from i up to the root.                                  *)
Above(i) ==
  LET up[k \in 0 .. NINUM] == IF k = 0 THEN {i} ELSE up[k - 1] \cup {fs.up[x] : x \in up[k - 1]}
  IN  up[NINUM]

(* A jailed process stays where it was first jailed, also when it jails    *)
(* itself again: its cwd, its root and the directory its walk has reached  *)
(* are that directory or below it, although any of them may be removed     *)
(* meanwhile (namex, sys_jail).  Exempt is what lies two levels or more    *)
(* below it under a directory that was removed, whose own parent may be    *)
(* gone and its inum in use elsewhere.                                     *)
Confined ==
  \A p \in Agent : cell[p] # 0 =>
    \A i \in {cwd[p], jail[p], ip[p]} \ {0} :
      fs.type[i] = "dir" =>
        \/ cell[p] \in Above(i)
        \/ \E d \in Above(i) \cap (removed \cup strays) : cell[p] \notin {d, fs.up[d]}

(* What fs.c and sysfile.c keep through every failure of every call, the   *)
(* race of iput with a new reference, and a crash: counted references and  *)
(* links, names that lead to inodes, and no unlinked inode left behind.    *)
NamesInv == /\ NamesTypeOK /\ RefsAreHeld /\ LinksConsistent
            /\ UnlinkedFreedUnlessReused /\ NamesLeadToInodes
=============================================================================

------------------------------- MODULE Memory -------------------------------
(***************************************************************************)
(* Physical pages and user address spaces: kalloc.c, vm.c, exec.c and the  *)
(* memory side of fork, sbrk, page faults, exit and wait.  An allocation   *)
(* can fail at any point of a call, and every failure path has to give     *)
(* back exactly what the call took.                                        *)
(*                                                                         *)
(* A call is one step.  Calls of different processes share nothing but the *)
(* free list, and taking and returning pages commute, so what another CPU  *)
(* changes meanwhile is how many pages are left: the instance visits every *)
(* number of them.  Pages are counted, not named: a page leaked, freed     *)
(* twice or mapped twice shows as a count that is off.  A page table has   *)
(* the levels of walk(): a root, level-1 and level-0 pages of PTES entries *)
(* each.  Sizes are in units of which PGSIZE make a page; an address is a  *)
(* page number, except in a program header.                                *)
(***************************************************************************)
EXTENDS Integers, SequencesExt

CONSTANTS
  Slot,        \* the process table: proc.h NPROC
  Init1,       \* the slot of the first process
  NPAGE,       \* the pages between end and PHYSTOP
  PTES,        \* entries of a page-table page (512)
  PGSIZE,      \* units in a page
  Grow,        \* bound: the sizes sbrk() is called with to grow
  Shrink,      \* bound: ... and to shrink
  MaxSize,     \* bound: no call grows a process beyond this
  Images       \* bound: the program headers of the files given to exec()

VARIABLES
  free,        \* kmem.freelist: how many pages it holds
  table,       \* per slot: state, trapframe, pagetable, sz, the stack guard
  wrong        \* a panic was reached

memVars == <<free, table, wrong>>

USERSTACK == 1                     \* param.h
TRAMPOLINE == PTES * PTES * PTES - 1
TRAPFRAME == TRAMPOLINE - 1
NoGuard == -1
WORD == 2 * (TRAMPOLINE + 1) * PGSIZE             \* uint64: addresses wrap, beyond MAXVA
PGROUNDUP(sz) == (sz + PGSIZE - 1) \div PGSIZE    \* as a page number

\* A page table: has it a root page, which lower page-table pages, and the
\* permission of every mapped page: "k" not for the user, "r" or "w".
NoTable == [root |-> FALSE, tab |-> {}, leaf |-> <<>>]
Unused == [state |-> "UNUSED", trapframe |-> FALSE, pagetable |-> NoTable,
           sz |-> 0, guard |-> NoGuard]

\* What a call works on: the free list, the table it builds, whether a panic
\* was reached, and whether it has failed.
Work(pt) == [free |-> free, wrong |-> wrong, pt |-> pt, ok |-> TRUE]
Failed(s) == [s EXCEPT !.ok = FALSE]

------------------------------------------------------------------------------
kalloc(s) == IF s.free = 0 THEN Failed(s) ELSE [s EXCEPT !.free = @ - 1]
kfree(s, n) == [s EXCEPT !.free = @ + n]

\* One level of walk(): find the page-table page or allocate it.
Add(t, node) == IF t.ok THEN [t EXCEPT !.pt.tab = @ \cup {node}] ELSE t
Descend(s, node) == IF ~s.ok \/ node \in s.pt.tab THEN s ELSE Add(kalloc(s), node)

\* The page-table pages on the way to va, as one number each.
Level0(va) == va \div PTES
Level1(va) == PTES * PTES + va \div (PTES * PTES)
walk(s, va) == Descend(Descend(s, Level1(va)), Level0(va))

\* mappages() of one page: the callers modelled here never map more.
SetPte(t, va, perm) ==
  IF ~t.ok THEN t
  ELSE IF va \in DOMAIN t.pt.leaf THEN [t EXCEPT !.wrong = TRUE]
  ELSE [t EXCEPT !.pt.leaf = (va :> perm) @@ @]
mappages(s, va, perm) == SetPte(walk(s, va), va, perm)

\* Allocate a page and map it: the body of the loops of uvmalloc() and
\* uvmcopy(), and of vmfault().
OrKfreeNot(t) == t                                              \* mutant
OrKfree(t) == IF t.ok THEN t ELSE kfree(t, 1)
MapFresh(s, va, perm) ==
  IF s.free = 0 THEN Failed(s) ELSE OrKfree(mappages(kalloc(s), va, perm))

uvmunmap(s, vas, do_free) ==
  LET gone == vas \cap DOMAIN s.pt.leaf
      t == [s EXCEPT !.pt.leaf = Restrict(@, DOMAIN @ \ gone)]
  IN IF do_free THEN kfree(t, Cardinality(gone)) ELSE t

freewalk(s) ==
  [kfree(s, 1 + Cardinality(s.pt.tab))
     EXCEPT !.wrong = @ \/ DOMAIN s.pt.leaf # {}, !.pt = NoTable]

uvmfree(s, sz) == freewalk(uvmunmap(s, 0 .. PGROUNDUP(sz) - 1, TRUE))

proc_freepagetable(s, sz) ==
  uvmfree(uvmunmap(s, {TRAMPOLINE, TRAPFRAME}, FALSE), sz)

OrUnmap(two) ==
  IF two.ok THEN two ELSE uvmfree(uvmunmap(two, {TRAMPOLINE}, FALSE), 0)
MapTrapframe(one) ==
  IF one.ok THEN OrUnmap(mappages(one, TRAPFRAME, "k")) ELSE uvmfree(one, 0)
proc_pagetable(s) ==
  IF s.free = 0 THEN Failed(s)
  ELSE MapTrapframe(mappages([kalloc(s) EXCEPT !.pt = [NoTable EXCEPT !.root = TRUE]],
                             TRAMPOLINE, "k"))

\* The loops over pages stop where a page cannot be had; the pages mapped so
\* far are then freed, the page-table pages stay.
Upto(first, last) == [i \in 1 .. last - first + 1 |-> first + i - 1]
OrUndo(t, s) ==
  IF t.ok THEN t ELSE uvmunmap(t, DOMAIN t.pt.leaf \ DOMAIN s.pt.leaf, TRUE)

\* The size uvmalloc() returns is newsz, or oldsz when newsz < oldsz.
uvmalloc(s, oldsz, newsz, perm) ==
  IF newsz < oldsz THEN s
  ELSE OrUndo(FoldLeft(LAMBDA t, va : IF t.ok THEN MapFresh(t, va, perm) ELSE t,
                       s, Upto(PGROUNDUP(oldsz), PGROUNDUP(newsz) - 1)), s)

uvmdealloc(s, oldsz, newsz) ==
  IF newsz >= oldsz THEN s
  ELSE uvmunmap(s, PGROUNDUP(newsz) .. PGROUNDUP(oldsz) - 1, TRUE)

\* Pages the parent has not touched yet are skipped: they stay lazy.
uvmcopy(s, old, sz) ==
  OrUndo(FoldLeft(LAMBDA t, va : IF t.ok /\ va \in DOMAIN old.leaf
                                 THEN MapFresh(t, va, old.leaf[va]) ELSE t,
                  s, Upto(0, PGROUNDUP(sz) - 1)), s)

walkaddr(pt, va) == va \in DOMAIN pt.leaf /\ pt.leaf[va] # "k"
ismapped(pt, va) == va \in DOMAIN pt.leaf

vmfault(s, va, sz) ==
  IF va * PGSIZE >= sz \/ ismapped(s.pt, va) THEN Failed(s)
  ELSE MapFresh(s, va, "w")

------------------------------------------------------------------------------
\* A call's result becomes the state; new is the process's new entry.
Commit(s, p, new) ==
  /\ free' = s.free
  /\ wrong' = s.wrong
  /\ table' = [table EXCEPT ![p] = new]

Runs(p) == table[p].state = "RUNNING" /\ ~wrong
Pt(p) == Work(table[p].pagetable)

\* allocproc(): the trapframe page, then a page table that maps it.
allocproc(s) == IF s.free = 0 THEN Failed(s) ELSE proc_pagetable(kalloc(s))

freePages(t, q) == IF t.pt = NoTable THEN t ELSE proc_freepagetable(t, q.sz)
freeproc(s, q) == freePages(IF q.trapframe THEN kfree(s, 1) ELSE s, q)

memInit ==
  \E s \in {allocproc([free |-> NPAGE, wrong |-> FALSE, pt |-> NoTable, ok |-> TRUE])} :
    /\ free = s.free
    /\ wrong = s.wrong
    /\ table = [p \in Slot |->
                  IF p = Init1
                  THEN [Unused EXCEPT !.state = "RUNNING", !.trapframe = TRUE,
                                      !.pagetable = s.pt]
                  ELSE Unused]

\* kfork(): when allocproc() or uvmcopy() fails, freeproc() takes all back.
\* np->sz is still 0 then: uvmcopy() has unmapped what it had copied.
Forked(p, q, s) ==
  \/ /\ ~s.ok
     /\ Commit(freeproc(s, [Unused EXCEPT !.trapframe = free > 0]), q, Unused)
  \/ /\ s.ok
     /\ Commit(s, q, [table[p] EXCEPT !.pagetable = s.pt])
kfork(p, q) ==
  /\ Runs(p)
  /\ table[q] = Unused
  /\ \E s \in {allocproc(Work(NoTable))} :
     \E t \in {IF s.ok THEN uvmcopy(s, table[p].pagetable, table[p].sz) ELSE s} :
       Forked(p, q, t)

\* sys_sbrk(): eager growth and every shrinking through growproc(), lazy
\* growth by moving sz alone.  TRAPFRAME is beyond MaxSize.
SbrkEager(p, n) ==
  /\ Runs(p)
  /\ table[p].sz + n <= MaxSize
  /\ \E s \in {uvmalloc(Pt(p), table[p].sz, table[p].sz + n, "w")} :
       Commit(s, p, [table[p] EXCEPT !.pagetable = s.pt,
                                     !.sz = IF s.ok THEN @ + n ELSE @])

\* A size below 0 wraps around to a large one, which uvmdealloc() refuses.
SbrkShrink(p, n) ==
  /\ Runs(p)
  /\ \E to \in {IF n > table[p].sz THEN table[p].sz ELSE table[p].sz - n} :
     \E s \in {uvmdealloc(Pt(p), table[p].sz, to)} :
       Commit(s, p, [table[p] EXCEPT !.pagetable = s.pt, !.sz = to,
                       !.guard = IF @ >= PGROUNDUP(to) THEN NoGuard ELSE @])

SbrkLazy(p, n) ==
  /\ Runs(p)
  /\ table[p].sz + n <= MaxSize
  /\ table' = [table EXCEPT ![p].sz = @ + n]
  /\ UNCHANGED <<free, wrong>>

\* usertrap(): a load or store the page table refuses; when vmfault() cannot
\* help, the process is marked killed and exits.
PageFault(p, va) ==
  /\ Runs(p)
  /\ ~walkaddr(table[p].pagetable, va)
  /\ \E s \in {vmfault(Pt(p), va, table[p].sz)} :
       Commit(s, p, [table[p] EXCEPT !.pagetable = s.pt,
                                     !.state = IF s.ok THEN @ ELSE "ZOMBIE"])

\* copyin() and copyout() of a range, page by page, until a page fails; the
\* pages already faulted in stay.  copyinstr() faults no page in.
CopyPage(s, va, sz) == IF ~s.ok \/ walkaddr(s.pt, va) THEN s ELSE vmfault(s, va, sz)
CopyRange(p, va, n) ==
  /\ Runs(p)
  /\ \E s \in {FoldLeft(LAMBDA t, a : CopyPage(t, a, table[p].sz),
                        Pt(p), Upto(va, va + n - 1))} :
       Commit(s, p, [table[p] EXCEPT !.pagetable = s.pt])

\* One program header: what it must look like, grow to its end, then
\* loadseg(), whose reads may fail and which panics on a page that is not
\* there.  l: the work done, and sz.  (A header that cannot be read fails
\* like a malformed one.)
End(h) == (h.vaddr + h.memsz) % WORD
WellFormed(h) == h.memsz >= h.filesz /\ End(h) >= h.vaddr /\ h.vaddr % PGSIZE = 0
SizeWith(l, h) == Max({l.sz, End(h)})
loadseg(t, h) ==
  LET first == h.vaddr \div PGSIZE IN
  [t EXCEPT !.ok = h.reads,
            !.wrong = @ \/ \E va \in first .. first + PGROUNDUP(h.filesz) - 1 : ~walkaddr(t.pt, va)]
AfterGrow(l, h, t) ==
  IF t.ok /\ SizeWith(l, h) > 0 THEN [s |-> loadseg(t, h), sz |-> SizeWith(l, h)]
  ELSE [s |-> Failed(t), sz |-> l.sz]
Segment(l, h) ==
  CASE ~l.s.ok \/ ~h.load -> l
    [] l.s.ok /\ h.load /\ ~WellFormed(h) -> [l EXCEPT !.s = Failed(@)]
    [] l.s.ok /\ h.load /\ WellFormed(h) -> AfterGrow(l, h, uvmalloc(l.s, l.sz, End(h), h.perm))

\* The page below the stack: mapped, but not for the user.
uvmclear(pt, va) == [pt EXCEPT !.leaf[va] = "k"]

\* sys_exec() and kexec(): the new image beside the old one, then the switch.
\* argv holds a page per argument while the call lasts; arguments that do not
\* fit the stack fail it after the image is complete.
Bad(p, s, sz, argc) == Commit(kfree(proc_freepagetable(s, sz), argc), p, table[p])
Stack(p, l, argc, argsFit) ==
  \E base \in {PGROUNDUP(l.sz)} :
  \E s \in {uvmalloc(l.s, base * PGSIZE, (base + USERSTACK + 1) * PGSIZE, "w")} :
    \/ ~s.ok /\ Bad(p, s, base * PGSIZE, argc)
    \/ s.ok /\ ~argsFit /\ Bad(p, s, (base + USERSTACK + 1) * PGSIZE, argc)
    \/ /\ s.ok /\ argsFit
       /\ Commit(kfree(proc_freepagetable([s EXCEPT !.pt = table[p].pagetable], table[p].sz),
                       argc), p,
                 [table[p] EXCEPT !.pagetable = uvmclear(s.pt, base),
                                  !.sz = (base + USERSTACK + 1) * PGSIZE, !.guard = base])
kexec(p, s, headers, argc, argsFit) ==
  \/ ~s.ok /\ Commit(kfree(s, argc), p, table[p])
  \/ /\ s.ok
     /\ \E l \in {FoldLeft(Segment, [s |-> s, sz |-> 0], headers)} :
          \/ ~l.s.ok /\ Bad(p, l.s, l.sz, argc)
          \/ l.s.ok /\ Stack(p, l, argc, argsFit)
sys_exec(p, headers, argc, argsFit) ==
  /\ Runs(p)
  /\ \/ argc > free /\ UNCHANGED memVars                         \* bad
     \/ /\ argc <= free
        /\ \E s \in {proc_pagetable([Work(NoTable) EXCEPT !.free = @ - argc])} :
             kexec(p, s, headers, argc, argsFit)

\* kexit() keeps the memory; the parent's kwait() gives it back.
kexit(p) ==
  /\ Runs(p) /\ p # Init1
  /\ table' = [table EXCEPT ![p].state = "ZOMBIE"]
  /\ UNCHANGED <<free, wrong>>

Reap(p) ==
  /\ table[p].state = "ZOMBIE" /\ p # Init1 /\ ~wrong
  /\ Commit(freeproc(Pt(p), table[p]), p, Unused)

memNext ==
  \E p \in Slot :
    \/ \E q \in Slot : kfork(p, q)
    \/ \E n \in Grow : SbrkEager(p, n) \/ SbrkLazy(p, n)
    \/ \E n \in Shrink : SbrkShrink(p, n)
    \/ \E va \in 0 .. PGROUNDUP(MaxSize) : PageFault(p, va) \/ CopyRange(p, va, 2)
    \/ \E h \in Images, argc \in {0, 1}, fit \in BOOLEAN : sys_exec(p, h, argc, fit)
    \/ kexit(p)
    \/ Reap(p)

memSpec == memInit /\ [][memNext]_memVars

------------------------------------------------------------------------------
(* Types; the free list never gives a page it does not have, and nothing   *)
(* is mapped beyond the trampoline (kalloc, mappages).                     *)
MemTypeOK ==
  /\ free \in 0 .. NPAGE /\ wrong \in BOOLEAN
  /\ \A p \in Slot : /\ table[p].state \in {"UNUSED", "RUNNING", "ZOMBIE"}
                     /\ table[p].sz \in Nat
                     /\ \A va \in DOMAIN table[p].pagetable.leaf :
                          va \in 0 .. TRAMPOLINE /\ table[p].pagetable.leaf[va] \in {"k", "r", "w"}

\* The pages a process holds: its trapframe, its page tables, its memory.
PagesOf(q) ==
  IF q.state = "UNUSED" THEN 0
  ELSE 2 + Cardinality(q.pagetable.tab)
         + Cardinality({va \in DOMAIN q.pagetable.leaf : va < TRAPFRAME})

(***************************************************************************)
(* Whatever fails half-way through fork, exec, sbrk or a page fault, every *)
(* page is free or held by one process: none leaks and none is freed twice *)
(* (kalloc.c:47, vm.c:215, 297, exec.c:140, sysfile.c:505).                *)
(***************************************************************************)
PagesConserved == free + MapThenSumSet(LAMBDA p : PagesOf(table[p]), Slot) = NPAGE

(***************************************************************************)
(* No call reaches "freewalk: leaf", "mappages: remap" or "loadseg:        *)
(* address should exist" (vm.c:164, 273, exec.c:163): the size a process   *)
(* or a half-built image is freed with covers everything mapped for it.    *)
(***************************************************************************)
NoMemoryPanic == ~wrong

(***************************************************************************)
(* The page below the stack stays out of the user's reach as long as the   *)
(* process does not shrink past it: fork copies its permission and a fault *)
(* on it is not answered with fresh memory (exec.c:85, vm.c:458).          *)
(***************************************************************************)
GuardStands ==
  \A p \in Slot : table[p].guard # NoGuard =>
    /\ ismapped(table[p].pagetable, table[p].guard)
    /\ ~walkaddr(table[p].pagetable, table[p].guard)

(* What vm.c, kalloc.c and exec.c keep wherever memory runs out: no page   *)
(* is lost or given out twice, no undo meets a page it panics on, and the  *)
(* guard page under the stack stands.                                      *)
MemInv == MemTypeOK /\ NoMemoryPanic /\ PagesConserved /\ GuardStands
=============================================================================

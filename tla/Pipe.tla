------------------------------- MODULE Pipe -------------------------------
(***************************************************************************)
(* Pipes (kernel/pipe.c) under the file table (kernel/file.c) and the file *)
(* descriptors of several processes (kernel/sysfile.c, and what kfork and  *)
(* kexit do with them).                                                    *)
(*                                                                         *)
(* ftable.lock and pi->lock protect single steps, except that pipewrite    *)
(* keeps pi->lock from byte to byte: killed() is tested before each one,   *)
(* so each byte is a step, and so is falling asleep, which a kill can      *)
(* precede.  nread and nwrite are uints and wrap at UINT, a multiple of    *)
(* PIPESIZE as 2^32 is.                                                    *)
(***************************************************************************)
EXTENDS Integers, Sequences, FiniteSets, FiniteSetsExt

CONSTANTS
  Task,           \* process slots; Parent runs at boot and is not killed
  Parent,
  NOFILE,         \* descriptors of a process
  NFILE,          \* entries of ftable
  Frame,          \* pages kalloc can give to pipes
  PIPESIZE, UINT,
  MaxWrite,       \* the n of a write; a byte is marked with its writer
  NoFile, NoFrame

ASSUME PipeAssumption ==
  /\ IsFiniteSet(Task) /\ Parent \in Task /\ NOFILE \in Nat /\ NFILE \in Nat
  /\ MaxWrite \in Nat
  /\ PIPESIZE \in Nat \ {0} /\ UINT \in Nat /\ UINT > PIPESIZE /\ UINT % PIPESIZE = 0
  /\ NoFile \notin 1 .. NFILE /\ NoFrame \notin Frame

VARIABLES
  ref,        \* file -> f->ref
  end,        \* file -> its pipe's page and whether it is the write end
  ofile,      \* task -> its descriptors
  live,       \* pages that hold a pipe
  pipe,       \* page -> [nread, nwrite, readopen, writeopen, data]
  at,         \* task -> where it is
  on,         \* task -> page of the pipe it reads or writes
  left,       \* task -> bytes it still has to write
  shut,       \* task -> files it has taken out of ofile and must fileclose
  ff,         \* task -> fileclose's copy of the file whose last ref it dropped
  doomed,     \* tasks with p->killed set
  flow,       \* history: page -> bytes written and not yet read
  missed,     \* history: killed after the last test of killed(), before sleep
  cut         \* history: pages a killed writer left without its final wakeup

fdVars == <<ref, end, ofile>>
pipeVars == <<ref, end, ofile, live, pipe, at, on, left, shut, ff, doomed, flow, missed, cut>>

File == 1 .. NFILE
Fd == 0 .. NOFILE - 1
NoEnd == [page |-> NoFrame, writable |-> FALSE]
Fresh == [nread |-> 0, nwrite |-> 0, readopen |-> TRUE, writeopen |-> TRUE,
          data |-> [k \in 0 .. PIPESIZE - 1 |-> Parent]]

fileinit ==
  /\ ref = [f \in File |-> 0] /\ end = [f \in File |-> NoEnd]
  /\ ofile = [t \in Task |-> [d \in Fd |-> NoFile]]
  /\ live = {} /\ pipe = [g \in Frame |-> Fresh]
  /\ at = [t \in Task |-> IF t = Parent THEN "user" ELSE "dead"]
  /\ on = [t \in Task |-> NoFrame] /\ left = [t \in Task |-> 0]
  /\ shut = [t \in Task |-> << >>] /\ ff = [t \in Task |-> NoEnd]
  /\ doomed = {} /\ missed = {} /\ cut = {}
  /\ flow = [g \in Frame |-> << >>]

Goes(t, where) == at' = [at EXCEPT ![t] = where]

(* Nobody holds pi->lock of page g.                                        *)
Unlocked(g) == \A t \in Task : at[t] \in {"writing", "full", "empty"} => on[t] # g

(* wakeup(&pi->nread) and wakeup(&pi->nwrite) on page g.                   *)
WakeReaders(g, where) ==
  [t \in Task |-> IF where[t] = "asleep to read" /\ on[t] = g THEN "read" ELSE where[t]]
WakeWriters(g, where) ==
  [t \in Task |-> IF where[t] = "asleep to write" /\ on[t] = g THEN "write" ELSE where[t]]

(* The counters are uints.                                                 *)
Plus(n, k) == (n + k) % UINT

Empty(pi) == pi.nread = pi.nwrite
Full(pi) == pi.nwrite = Plus(pi.nread, PIPESIZE)

EitherClosed(pi) == ~pi.readopen \/ ~pi.writeopen               \* mutant
BothClosed(pi) == ~pi.readopen /\ ~pi.writeopen

FilesFree  == {f \in File : ref[f] = 0}
FdsFree(t) == {d \in Fd : ofile[t][d] = NoFile}

-----------------------------------------------------------------------------
(* sys_pipe: pipealloc takes two files and a page, or fails and leaves     *)
(* nothing behind; the files are not yet in ofile.                         *)
pipealloc(t, g) ==
  LET rf == Min(FilesFree)
      wf == Min(FilesFree \ {rf})
  IN
  /\ at[t] = "user" /\ t \notin doomed
  /\ Cardinality(FilesFree) >= 2
  /\ g \notin live
  /\ ref' = [ref EXCEPT ![rf] = 1, ![wf] = 1]
  /\ end' = [end EXCEPT ![rf] = [page |-> g, writable |-> FALSE],
                        ![wf] = [page |-> g, writable |-> TRUE]]
  /\ live' = live \cup {g}
  /\ pipe' = [pipe EXCEPT ![g] = Fresh]
  /\ shut' = [shut EXCEPT ![t] = <<rf, wf>>]
  /\ Goes(t, "install")
  /\ UNCHANGED <<ofile, on, left, ff, doomed, flow, missed, cut>>

(* What the failing sys_pipe closes.                                       *)
BothEnds(files) == files

(* The two fdallocs; without two descriptors, or when copyout of the pair  *)
(* fails, the descriptors are cleared again and both files closed.         *)
InstallFds(t) ==
  LET d0 == Min(FdsFree(t))
      d1 == Min(FdsFree(t) \ {d0})
  IN
  /\ at[t] = "install"
  /\ \/ /\ Cardinality(FdsFree(t)) >= 2
        /\ ofile' = [ofile EXCEPT ![t][d0] = shut[t][1], ![t][d1] = shut[t][2]]
        /\ shut' = [shut EXCEPT ![t] = << >>]
        /\ Goes(t, "user")
     \/ /\ shut' = [shut EXCEPT ![t] = BothEnds(@)]
        /\ Goes(t, "close")
        /\ UNCHANGED ofile
  /\ UNCHANGED <<ref, end, live, pipe, on, left, ff, doomed, flow, missed, cut>>

sys_dup(t, d) ==
  /\ at[t] = "user" /\ t \notin doomed
  /\ ofile[t][d] # NoFile /\ FdsFree(t) # {}
  /\ ofile' = [ofile EXCEPT ![t][Min(FdsFree(t))] = ofile[t][d]]
  /\ ref' = [ref EXCEPT ![ofile[t][d]] = @ + 1]
  /\ UNCHANGED <<end, live, pipe, at, on, left, shut, ff, doomed, flow, missed, cut>>

(* kfork: filedup every open file into the child.                          *)
ForkTask(t, u) ==
  /\ at[t] = "user" /\ t \notin doomed /\ at[u] = "dead"
  /\ ofile' = [ofile EXCEPT ![u] = ofile[t]]
  /\ ref' = [f \in File |-> ref[f] + Cardinality({d \in Fd : ofile[t][d] = f})]
  /\ Goes(u, "user")
  /\ UNCHANGED <<end, live, pipe, on, left, shut, ff, doomed, flow, missed, cut>>

sys_close(t, d) ==
  /\ at[t] = "user" /\ t \notin doomed
  /\ ofile[t][d] # NoFile
  /\ ofile' = [ofile EXCEPT ![t][d] = NoFile]
  /\ shut' = [shut EXCEPT ![t] = <<ofile[t][d]>>]
  /\ Goes(t, "close")
  /\ UNCHANGED <<ref, end, live, pipe, on, left, ff, doomed, flow, missed, cut>>

(* kexit closes the descriptors one after the other.                       *)
ExitTask(t) ==
  /\ t # Parent /\ at[t] \in {"user", "exit"}
  /\ IF \E d \in Fd : ofile[t][d] # NoFile
     THEN LET d == Min({e \in Fd : ofile[t][e] # NoFile}) IN
          /\ ofile' = [ofile EXCEPT ![t][d] = NoFile]
          /\ shut' = [shut EXCEPT ![t] = <<ofile[t][d]>>]
          /\ Goes(t, "exit close")
          /\ UNCHANGED <<doomed, missed>>
     ELSE /\ Goes(t, "dead")
          /\ doomed' = doomed \ {t} /\ missed' = missed \ {t}
          /\ UNCHANGED <<ofile, shut>>
  /\ UNCHANGED <<ref, end, live, pipe, on, left, ff, flow, cut>>

(* Where a close goes when it has nothing left to do.                      *)
Closed(t, where) ==
  [where EXCEPT ![t] = IF shut'[t] # << >> \/ ff'[t] # NoEnd THEN @
                       ELSE IF @ = "close" THEN "user" ELSE "exit"]

(* fileclose under ftable.lock: the last reference empties the entry, which *)
(* can be reused at once, and leaves the pipe end to close.                *)
fileclose(t) ==
  LET f == Head(shut[t]) IN
  /\ at[t] \in {"close", "exit close"} /\ shut[t] # << >> /\ ff[t] = NoEnd
  /\ ref' = [ref EXCEPT ![f] = @ - 1]
  /\ IF ref[f] > 1
     THEN UNCHANGED <<end, ff>>
     ELSE /\ ff' = [ff EXCEPT ![t] = end[f]]
          /\ end' = [end EXCEPT ![f] = NoEnd]
  /\ shut' = [shut EXCEPT ![t] = Tail(@)]
  /\ at' = Closed(t, at)
  /\ UNCHANGED <<ofile, live, pipe, on, left, doomed, flow, missed, cut>>

pipeclose(t) ==
  LET g  == ff[t].page
      pi == IF ff[t].writable THEN [pipe[g] EXCEPT !.writeopen = FALSE]
                              ELSE [pipe[g] EXCEPT !.readopen = FALSE]
      gone == BothClosed(pi)
  IN
  /\ ff[t] # NoEnd /\ Unlocked(g)
  /\ pipe' = [pipe EXCEPT ![g] = IF gone THEN Fresh ELSE pi]
  /\ live' = IF gone THEN live \ {g} ELSE live
  /\ flow' = IF gone THEN [flow EXCEPT ![g] = << >>] ELSE flow
  /\ cut' = IF gone \/ ff[t].writable THEN cut \ {g} ELSE cut
  /\ ff' = [ff EXCEPT ![t] = NoEnd] /\ UNCHANGED shut
  /\ at' = Closed(t, IF ff[t].writable THEN WakeReaders(g, at) ELSE WakeWriters(g, at))
  /\ UNCHANGED <<ref, end, ofile, on, left, doomed, missed>>

-----------------------------------------------------------------------------
(* sys_read and sys_write on a descriptor of the right end (the other is   *)
(* refused by f->readable and f->writable).                                *)
sys_read(t, d) ==
  /\ at[t] = "user" /\ t \notin doomed
  /\ ofile[t][d] # NoFile /\ ~end[ofile[t][d]].writable
  /\ on' = [on EXCEPT ![t] = end[ofile[t][d]].page]
  /\ Goes(t, "read")
  /\ UNCHANGED <<ref, end, ofile, live, pipe, left, shut, ff, doomed, flow, missed, cut>>

sys_write(t, d) ==
  /\ at[t] = "user" /\ t \notin doomed
  /\ ofile[t][d] # NoFile /\ end[ofile[t][d]].writable
  /\ on' = [on EXCEPT ![t] = end[ofile[t][d]].page]
  /\ left' = [left EXCEPT ![t] = MaxWrite]
  /\ Goes(t, "write")
  /\ UNCHANGED <<ref, end, ofile, live, pipe, shut, ff, doomed, flow, missed, cut>>

Return(t) == [at EXCEPT ![t] = "user"]

(* t holds pi->lock in pipewrite, or takes it: at the call, or on waking.  *)
WriteLock(t) == at[t] = "writing" \/ (at[t] = "write" /\ Unlocked(on[t]))

(* One turn of pipewrite's loop with the lock held.  A writer that is      *)
(* killed, or has no reader, returns without waking the readers.           *)
pipewrite(t) ==
  LET g == on[t]
      pi == pipe[g]
      gives == left[t] < MaxWrite
  IN
  /\ WriteLock(t) /\ left[t] > 0
  /\ \/ /\ ~pi.readopen \/ t \in doomed
        /\ at' = Return(t)
        /\ on' = [on EXCEPT ![t] = NoFrame] /\ left' = [left EXCEPT ![t] = 0]
        /\ cut' = IF pi.readopen /\ gives THEN cut \cup {g} ELSE cut
        /\ UNCHANGED <<pipe, flow>>
     \/ /\ pi.readopen /\ t \notin doomed /\ Full(pi)
        /\ at' = WakeReaders(g, [at EXCEPT ![t] = "full"])
        /\ cut' = cut \ {g}
        /\ UNCHANGED <<pipe, flow, on, left>>
     \/ /\ pi.readopen /\ t \notin doomed /\ ~Full(pi)
        /\ pipe' = [pipe EXCEPT ![g].data[pi.nwrite % PIPESIZE] = t,
                                ![g].nwrite = Plus(@, 1)]
        /\ flow' = [flow EXCEPT ![g] = Append(@, t)]
        /\ left' = [left EXCEPT ![t] = @ - 1]
        /\ Goes(t, "writing")
        /\ UNCHANGED <<on, cut>>
  /\ UNCHANGED <<ref, end, ofile, live, shut, ff, doomed, missed>>

(* All written, or copyin failed: wake the readers and return.             *)
WriteReturns(t) ==
  /\ WriteLock(t)
  /\ left[t] = 0 \/ (pipe[on[t]].readopen /\ t \notin doomed /\ ~Full(pipe[on[t]]))
  /\ at' = WakeReaders(on[t], Return(t))
  /\ cut' = cut \ {on[t]}
  /\ on' = [on EXCEPT ![t] = NoFrame] /\ left' = [left EXCEPT ![t] = 0]
  /\ UNCHANGED <<ref, end, ofile, live, pipe, shut, ff, doomed, flow, missed>>

(* sleep, which releases pi->lock.                                         *)
PipeSleep(t) ==
  /\ at[t] \in {"full", "empty"}
  /\ Goes(t, IF at[t] = "full" THEN "asleep to write" ELSE "asleep to read")
  /\ UNCHANGED <<ref, end, ofile, live, pipe, on, left, shut, ff, doomed, flow, missed, cut>>

(* piperead: wait for a byte or the last writer's close, then take up to n *)
(* bytes (fewer when copyout fails) and wake the writers.                  *)
piperead(t) ==
  LET g == on[t]
      pi == pipe[g]
  IN
  /\ at[t] = "read" /\ Unlocked(g)
  /\ IF Empty(pi) /\ pi.writeopen
     THEN IF t \in doomed
          THEN /\ at' = Return(t)
               /\ on' = [on EXCEPT ![t] = NoFrame]
               /\ UNCHANGED <<pipe, flow>>
          ELSE Goes(t, "empty") /\ UNCHANGED <<on, pipe, flow>>
     ELSE /\ \E n \in 0 .. Len(flow[g]) :
               /\ pipe' = [pipe EXCEPT ![g].nread = Plus(@, n)]
               /\ flow' = [flow EXCEPT ![g] = SubSeq(@, n + 1, Len(@))]
          /\ at' = WakeWriters(g, Return(t))
          /\ on' = [on EXCEPT ![t] = NoFrame]
  /\ UNCHANGED <<ref, end, ofile, live, left, shut, ff, doomed, missed, cut>>

(* kkill: a sleeper becomes runnable; one about to sleep does not notice.  *)
KillTask(t) ==
  /\ at[t] # "dead" /\ t # Parent /\ t \notin doomed
  /\ doomed' = doomed \cup {t}
  /\ missed' = IF at[t] \in {"full", "empty"} THEN missed \cup {t} ELSE missed
  /\ Goes(t, CASE at[t] = "asleep to write" -> "write"
               [] at[t] = "asleep to read" -> "read"
               [] OTHER -> at[t])
  /\ UNCHANGED <<ref, end, ofile, live, pipe, on, left, shut, ff, flow, cut>>

PipeNext == \E t \in Task :
  \/ InstallFds(t) \/ ExitTask(t) \/ fileclose(t) \/ pipeclose(t)
  \/ pipewrite(t) \/ WriteReturns(t)
  \/ PipeSleep(t) \/ piperead(t) \/ KillTask(t)
  \/ \E d \in Fd : sys_dup(t, d) \/ sys_close(t, d) \/ sys_read(t, d) \/ sys_write(t, d)
  \/ \E u \in Task \ {t} : ForkTask(t, u)
  \/ \E g \in Frame : pipealloc(t, g)

PipeSpec == fileinit /\ [][PipeNext]_pipeVars

-----------------------------------------------------------------------------
(* Types; the counters stay uints, and a reference count stays within what *)
(* the descriptors can make of it.                                         *)
PipeTypeOK ==
  /\ ref \in [File -> 0 .. Cardinality(Task) * NOFILE + 1]
  /\ ofile \in [Task -> [Fd -> File \cup {NoFile}]]
  /\ live \subseteq Frame /\ on \in [Task -> Frame \cup {NoFrame}]
  /\ left \in [Task -> 0 .. MaxWrite]
  /\ \A g \in Frame : pipe[g].nread \in 0 .. UINT - 1 /\ pipe[g].nwrite \in 0 .. UINT - 1
  /\ doomed \subseteq Task /\ missed \subseteq doomed /\ cut \subseteq live

(* The descriptors of file f, and the closes of f that are still to come,  *)
(* as pairs of a task and an index.                                        *)
Descriptors(f) == {x \in Task \X Fd : ofile[x[1]][x[2]] = f}
Closes(f) == {x \in Task \X {1, 2} : x[2] <= Len(shut[x[1]]) /\ shut[x[1]][x[2]] = f}

(* f->ref counts the descriptors of all processes and the closes that have *)
(* not reached it, through dup, fork, exit and every failure of pipe().    *)
RefCountsDescriptors ==
  \A f \in File : ref[f] = Cardinality(Descriptors(f)) + Cardinality(Closes(f))

(* The ends of page g that a file or an unfinished fileclose still holds.  *)
EndsHeld(g) ==
  {end[f].writable : f \in {e \in File : ref[e] > 0 /\ end[e].page = g}}
  \cup {ff[t].writable : t \in {u \in Task : ff[u].page = g}}

(* A pipe's page is kept exactly as long as one of its ends is held, each  *)
(* end reads as open exactly while it is held, and nobody is inside        *)
(* piperead or pipewrite on a page that was freed (and perhaps reused).    *)
PageLivesWithItsEnds ==
  /\ \A g \in Frame :
       /\ g \in live <=> EndsHeld(g) # {}
       /\ g \in live => /\ pipe[g].readopen <=> FALSE \in EndsHeld(g)
                        /\ pipe[g].writeopen <=> TRUE \in EndsHeld(g)
  /\ \A t \in Task : on[t] # NoFrame => on[t] \in live

(* The ring holds the bytes written and not yet read, in order, across the *)
(* wrap of the indices and of the uint counters.                           *)
RingIsFifo ==
  \A g \in live :
    flow[g] = [k \in 1 .. (pipe[g].nwrite + UINT - pipe[g].nread) % UINT |->
                 pipe[g].data[(pipe[g].nread + k - 1) % PIPESIZE]]

(* A writer sleeps only on a full pipe that has a reader, and a reader     *)
(* only on an empty pipe that has a writer (once the writer at work lets   *)
(* go of the lock), unless a killed writer left bytes behind without       *)
(* waking the readers; a killed process sleeps only when the kill fell     *)
(* between its test of killed() and sleep.                                 *)
SleepIsJustified ==
  \A t \in Task :
    /\ at[t] = "asleep to write" => Full(pipe[on[t]]) /\ pipe[on[t]].readopen
    /\ at[t] = "asleep to read" =>
         /\ pipe[on[t]].writeopen
         /\ Unlocked(on[t]) => Empty(pipe[on[t]]) \/ on[t] \in cut
    /\ at[t] \in {"asleep to write", "asleep to read"} /\ t \in doomed => t \in missed

(* What pipe.c and file.c keep while ends are duplicated, inherited and    *)
(* closed by any process at any time: ref counts descriptors, the page     *)
(* lives as long as an end, bytes come out as they went in, and a sleeper  *)
(* has a reason to sleep.                                                  *)
PipeInv == /\ PipeTypeOK /\ RefCountsDescriptors /\ PageLivesWithItsEnds
           /\ RingIsFifo /\ SleepIsJustified
=============================================================================

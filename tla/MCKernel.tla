------------------------------ MODULE MCKernel -------------------------------
(***************************************************************************)
(* What the kernel takes and gives back: log space, buffers, open files    *)
(* and pipes, memory pages, spinlocks and interrupts.  Each part is        *)
(* specified over what the one below promises, not over its variables (the *)
(* log over a disk of atomic block writes, the buffer cache over           *)
(* virtio_disk_rw), so no two share state and one run takes them in turn:  *)
(* a behaviour is one of the part chosen by `part', the others stay where  *)
(* they start.                                                             *)
(***************************************************************************)
EXTENDS Log, BufCache, Pipe, Memory, Hart

VARIABLE part

KernelInit ==
  /\ part \in {"log", "bio", "pipe", "memory", "hart"}
  /\ LogInit /\ binit /\ fileinit /\ memInit /\ HartInit
  /\ part # "log" => home = [b \in Block |-> logged[1]]

KernelNext ==
  /\ \/ part = "log" /\ LogNext /\ UNCHANGED <<bufVars, pipeVars, memVars, hartVars>>
     \/ part = "bio" /\ BufNext /\ UNCHANGED <<logVars, pipeVars, memVars, hartVars>>
     \/ part = "pipe" /\ PipeNext /\ UNCHANGED <<logVars, bufVars, memVars, hartVars>>
     \/ part = "memory" /\ memNext /\ UNCHANGED <<logVars, bufVars, pipeVars, hartVars>>
     \/ part = "hart" /\ HartNext /\ UNCHANGED <<logVars, bufVars, pipeVars, memVars>>
  /\ UNCHANGED part

KernelSpec ==
  KernelInit /\ [][KernelNext]_<<part, logVars, bufVars, pipeVars, memVars, hartVars>>

(* Programs: segments in order and adjacent, one of them cut short by a    *)
(* bad read; segments out of order, with a header that is not to be        *)
(* loaded; and, after a good segment, each kind of malformed header.       *)
Code == [vaddr |-> 0, memsz |-> 2, filesz |-> 2, perm |-> "r", load |-> TRUE, reads |-> TRUE]
Programs ==
  {<<Code, [Code EXCEPT !.vaddr = 2, !.memsz = 1, !.filesz = 1, !.perm = "w", !.reads = FALSE]>>,
   <<[Code EXCEPT !.vaddr = 2, !.memsz = 1, !.filesz = 1, !.perm = "w"],
     [Code EXCEPT !.filesz = 3, !.load = FALSE],
     [Code EXCEPT !.memsz = 1, !.filesz = 1]>>,
   <<Code, [Code EXCEPT !.vaddr = 2, !.filesz = 3]>>,
   <<Code, [Code EXCEPT !.vaddr = WORD - 2]>>,
   <<Code, [Code EXCEPT !.vaddr = 3]>>}
=============================================================================

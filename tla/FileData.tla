------------------------------ MODULE FileData ------------------------------
(***************************************************************************)
(* The contents of files: block allocation, bmap, readi, writei and itrunc *)
(* of kernel/fs.c, fileread of kernel/file.c, and its filewrite, which     *)
(* cuts a write into transactions the log can hold.  Descriptors of one    *)
(* open file share its offset.                                             *)
(*                                                                         *)
(* Cells of a block hold bytes, or block numbers in an indirect block, so  *)
(* NINDIRECT = BSIZE.  A byte is named by its inode and its offset: what   *)
(* is written over a byte is not told apart from it, nor what a failing    *)
(* copyin leaves in the block it reached.  A chunk of filewrite keeps its  *)
(* inode locked and is a step per block: writers of other inodes take      *)
(* blocks in between.                                                      *)
(***************************************************************************)
EXTENDS Integers, FiniteSets, FiniteSetsExt

CONSTANTS
  Writer,          \* processes
  Inode,           \* inode numbers
  NBLOCK,          \* data blocks 1 .. NBLOCK
  BSIZE, NDIRECT,
  TxBlocks,        \* MAXOPBLOCKS: blocks one transaction may write
  UWRAP,           \* uint arithmetic wraps here
  Lengths          \* bytes a write asks for

ASSUME FileDataAssumption ==
  /\ NBLOCK \in Nat /\ BSIZE \in Nat \ {0} /\ NDIRECT \in Nat
  /\ TxBlocks \in Nat /\ TxBlocks >= 4
  /\ Inode \subseteq Nat \ {0} /\ Lengths \subseteq Nat \ {0}
  /\ UWRAP \in Nat /\ UWRAP > (NDIRECT + BSIZE) * BSIZE
  /\ UWRAP > ((TxBlocks - 4) \div 2) * BSIZE

VARIABLES
  bitmap,          \* blocks marked in use
  cells,           \* block -> contents
  addrs,           \* inode -> NDIRECT blocks and the indirect one; 0 is none
  size,            \* inode -> ip->size
  offset,          \* inode -> f->off of the open file on it
  wr,              \* writer -> its filewrite: [at, ip, left, n, off, tot]
  touched,         \* writer -> blocks its transaction has written
  told             \* history: inode -> bytes reported written

dataVars == <<bitmap, cells, addrs, size, offset, wr, touched, told>>

DataBlock == 1 .. NBLOCK
NINDIRECT == BSIZE
MAXFILE == NDIRECT + NINDIRECT
Zeroed == [k \in 0 .. BSIZE - 1 |-> 0]
Stale == [k \in 0 .. BSIZE - 1 |-> 1]     \* what a free block may still hold
Idle == [at |-> "idle", ip |-> 0, left |-> 0, n |-> 0, off |-> 0, tot |-> 0]
Least(a, b) == IF a < b THEN a ELSE b

(* The image as mkfs leaves it, before it adds files.                      *)
DataInit ==
  /\ bitmap = {} /\ cells = [b \in DataBlock |-> Zeroed]
  /\ addrs = [i \in Inode |-> [k \in 0 .. NDIRECT |-> 0]]
  /\ size = [i \in Inode |-> 0] /\ offset = [i \in Inode |-> 0]
  /\ wr = [w \in Writer |-> Idle] /\ touched = [w \in Writer |-> {}]
  /\ told = [i \in Inode |-> 0]

(* ilock is held from the start of a chunk to its end.                     *)
Unheld(i) == \A w \in Writer : wr[w].ip = i => wr[w].at = "next"

-----------------------------------------------------------------------------
(* The disk as one step of bmap sees it: [used, cells, addrs], and the     *)
(* blocks it logged.                                                       *)
Disk == [used |-> bitmap, cells |-> cells, addrs |-> addrs, log |-> {}]

(* balloc: the first free block, zeroed; 0 when the disk is full.          *)
NextFree(d) == IF DataBlock \subseteq d.used THEN 0 ELSE Min(DataBlock \ d.used)
Allocated(d, b) ==
  [d EXCEPT !.used = @ \cup {b}, !.cells[b] = Zeroed,
            !.log = @ \cup {<<"bitmap", b>>, <<"block", b>>}]

(* bmap(ip, bn): [addr, d], the block of bn and the disk afterwards.       *)
DirectMap(d, i, k) ==
  LET b == NextFree(d) IN
  CASE d.addrs[i][k] # 0 -> [addr |-> d.addrs[i][k], d |-> d]
    [] d.addrs[i][k] = 0 /\ b = 0 -> [addr |-> 0, d |-> d]
    [] d.addrs[i][k] = 0 /\ b # 0 ->
         [addr |-> b, d |-> [Allocated(d, b) EXCEPT !.addrs[i][k] = b]]

IndirectMap(d, t, k) ==
  LET b == NextFree(d) IN
  CASE d.cells[t][k] # 0 -> [addr |-> d.cells[t][k], d |-> d]
    [] d.cells[t][k] = 0 /\ b = 0 -> [addr |-> 0, d |-> d]
    [] d.cells[t][k] = 0 /\ b # 0 ->
         [addr |-> b, d |-> [Allocated(d, b) EXCEPT !.cells[t][k] = b,
                                                    !.log = @ \cup {<<"block", t>>}]]

bmap(d, i, bn) ==
  IF bn < NDIRECT THEN DirectMap(d, i, bn)
  ELSE LET top == DirectMap(d, i, NDIRECT) IN
       IF top.addr = 0 THEN top ELSE IndirectMap(top.d, top.addr, bn - NDIRECT)

-----------------------------------------------------------------------------
(* The longest chunk: room for inode, indirect block, bitmap blocks and 2  *)
(* blocks of slop for non-aligned writes.                                  *)
ChunkMax == ((TxBlocks - 1 - 1 - 2) \div 2) * BSIZE

(* filewrite of n bytes through the open file on i.                        *)
filewrite(w, i, n) ==
  /\ wr[w] = Idle
  /\ wr' = [wr EXCEPT ![w] = [Idle EXCEPT !.at = "next", !.ip = i, !.left = n]]
  /\ UNCHANGED <<bitmap, cells, addrs, size, offset, touched, told>>

(* begin_op, ilock and writei's checks, in uint arithmetic.                *)
Refused(off, n, sz) ==
  off > sz \/ (off + n) % UWRAP < off \/ (off + n) % UWRAP > MAXFILE * BSIZE

BeginChunk(w) ==
  LET j == wr[w]
      n == Least(j.left, ChunkMax)
  IN
  /\ j.at = "next" /\ Unheld(j.ip)
  /\ wr' = [wr EXCEPT ![w] = IF Refused(offset[j.ip], n, size[j.ip]) THEN Idle
              ELSE [j EXCEPT !.at = "loop", !.n = n, !.off = offset[j.ip], !.tot = 0]]
  /\ UNCHANGED <<bitmap, cells, addrs, size, offset, touched, told>>

ByteOf(i, o) == 100 * i + o

(* One turn of writei's loop: map the block, copy m bytes into it, log it. *)
(* The loop ends when the disk is full or when copyin fails.               *)
WriteBlock(w) ==
  LET j == wr[w]
      m == Least(j.n - j.tot, BSIZE - (j.off % BSIZE))
      r == bmap(Disk, j.ip, j.off \div BSIZE)
  IN
  /\ j.at = "loop" /\ j.tot < j.n
  /\ bitmap' = r.d.used /\ addrs' = r.d.addrs
  /\ \/ /\ r.addr # 0
        /\ cells' = [r.d.cells EXCEPT ![r.addr] = [c \in 0 .. BSIZE - 1 |->
                       LET o == j.off - (j.off % BSIZE) + c IN
                       IF o \in j.off .. j.off + m - 1 THEN ByteOf(j.ip, o) ELSE @[c]]]
        /\ wr' = [wr EXCEPT ![w].off = @ + m, ![w].tot = @ + m]
        /\ touched' = [touched EXCEPT ![w] = @ \cup r.d.log \cup {<<"block", r.addr>>}]
     \/ /\ cells' = r.d.cells
        /\ wr' = [wr EXCEPT ![w].at = "end"]
        /\ touched' = [touched EXCEPT ![w] = @ \cup r.d.log]
  /\ UNCHANGED <<size, offset, told>>

(* writei's end: the size, and iupdate.  filewrite advances the shared     *)
(* offset under the lock and goes on unless the chunk was cut short.       *)
Grown(off, sz) == IF off > sz THEN off ELSE sz

EndChunk(w) ==
  LET j == wr[w] IN
  /\ j.at = "end" \/ (j.at = "loop" /\ j.tot = j.n)
  /\ size' = [size EXCEPT ![j.ip] = Grown(j.off, @)]
  /\ offset' = [offset EXCEPT ![j.ip] = @ + j.tot]
  /\ wr' = [wr EXCEPT ![w] = IF j.tot # j.n \/ j.left = j.tot THEN Idle
                             ELSE [j EXCEPT !.at = "next", !.left = @ - j.tot]]
  /\ touched' = [touched EXCEPT ![w] = {}]
  /\ told' = [told EXCEPT ![j.ip] = Grown(offset[j.ip] + j.tot, @)]
  /\ UNCHANGED <<bitmap, cells, addrs>>

(* itrunc: every direct block, every block of the indirect one and itself. *)
Mapped(i) ==
  LET t == addrs[i][NDIRECT] IN
  {addrs[i][k] : k \in 0 .. NDIRECT} \cup (IF t = 0 THEN {} ELSE {cells[t][k] : k \in 0 .. BSIZE - 1})

FreedDirect(i) == {addrs[i][k] : k \in 0 .. NDIRECT}            \* mutant
Freed(i) == Mapped(i)

itrunc(i) ==
  /\ Unheld(i)
  /\ bitmap' = bitmap \ Freed(i)
  /\ addrs' = [addrs EXCEPT ![i] = [k \in 0 .. NDIRECT |-> 0]]
  /\ size' = [size EXCEPT ![i] = 0]
  /\ cells' = [b \in DataBlock |-> IF b \in Freed(i) THEN Stale ELSE cells[b]]
  /\ told' = [told EXCEPT ![i] = 0]
  /\ UNCHANGED <<offset, wr, touched>>

(* readi of n bytes at off, where every block is mapped.                   *)
ReadLen(i, off, n) ==
  IF off > size[i] \/ (off + n) % UWRAP < off THEN 0 ELSE Least(n, size[i] - off)
readi(i, off, n) ==
  [k \in 0 .. ReadLen(i, off, n) - 1 |->
     cells[bmap(Disk, i, (off + k) \div BSIZE).addr][(off + k) % BSIZE]]

(* fileread advances the shared offset, also between two chunks of another *)
(* process's write.  (A copyout that fails leaves it.)                     *)
fileread(i, n) ==
  /\ Unheld(i)
  /\ offset' = [offset EXCEPT ![i] = @ + ReadLen(i, @, n)]
  /\ UNCHANGED <<bitmap, cells, addrs, size, wr, touched, told>>

(* The file is closed and opened again: the new open file starts at 0.     *)
Reopen(i) ==
  /\ \A w \in Writer : wr[w].ip # i
  /\ offset[i] > 0
  /\ offset' = [offset EXCEPT ![i] = 0]
  /\ UNCHANGED <<bitmap, cells, addrs, size, wr, touched, told>>

DataNext ==
  \/ \E w \in Writer : BeginChunk(w) \/ WriteBlock(w) \/ EndChunk(w)
  \/ \E w \in Writer, i \in Inode, n \in Lengths : filewrite(w, i, n)
  \/ \E i \in Inode, n \in Lengths : fileread(i, n)
  \/ \E i \in Inode : itrunc(i) \/ Reopen(i)

DataSpec == DataInit /\ [][DataNext]_dataVars

-----------------------------------------------------------------------------
(* Types, and bmap's panic: no block past the indirect ones is asked for.  *)
DataTypeOK ==
  /\ bitmap \subseteq DataBlock
  /\ \A i \in Inode : /\ addrs[i] \in [0 .. NDIRECT -> DataBlock \cup {0}]
                      /\ size[i] \in 0 .. MAXFILE * BSIZE
                      /\ offset[i] \in 0 .. MAXFILE * BSIZE
  /\ \A w \in Writer : wr[w].at = "loop" /\ wr[w].tot < wr[w].n => wr[w].off \div BSIZE < MAXFILE

Mine(i) == Mapped(i) \ {0}

(* A block is marked in use exactly if one inode has it, in one place:     *)
(* none is leaked or freed twice ("freeing free block") when the disk      *)
(* fills up half way through a write or an indirect block, or another file *)
(* takes blocks in between, or blocks are used again.                      *)
BlocksOwnedOnce ==
  /\ bitmap = UNION {Mine(i) : i \in Inode}
  /\ \A i, k \in Inode : i # k => Mine(i) \cap Mine(k) = {}
  /\ \A i \in Inode, a, b \in 0 .. NDIRECT : a # b /\ addrs[i][a] # 0 => addrs[i][a] # addrs[i][b]

(* A read gives as many bytes as were reported written, each the one of    *)
(* its file and offset: none of another file, of a block's former life, of *)
(* the indirect block or of a hole; a write cut short by a full disk       *)
(* counts as far as it was reported.                                       *)
ReadsBackWrites ==
  \A i \in {k \in Inode : Unheld(k)} :
    /\ size[i] = told[i]
    /\ \A off \in 0 .. size[i], n \in {1, BSIZE + 1, UWRAP - 1} :
         \A k \in DOMAIN readi(i, off, n) : readi(i, off, n)[k] = ByteOf(i, off + k)

(* A transaction of filewrite writes no more blocks than begin_op reserved *)
(* for it, the inode's included, however the write is aligned.             *)
WriteFitsInLog == \A w \in Writer : Cardinality(touched[w]) + 1 <= TxBlocks

(* What writei, bmap and itrunc keep on a disk that fills up: a block has  *)
(* one owner, a file reads back what was written, and no chunk of a write  *)
(* outgrows the transaction filewrite made it fit.                         *)
DataInv == DataTypeOK /\ BlocksOwnedOnce /\ ReadsBackWrites /\ WriteFitsInLog
=============================================================================

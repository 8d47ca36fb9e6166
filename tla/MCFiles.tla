------------------------------ MODULE MCFiles --------------------------------
(***************************************************************************)
(* The two halves of kernel/fs.c: names, links and references of inodes,   *)
(* and the blocks of their contents.  A transaction of the log makes each  *)
(* half's operations atomic and neither reads the other's state, so one    *)
(* run takes them in turn: a behaviour is one of the half chosen by        *)
(* `half', the other stays where it starts.                                *)
(***************************************************************************)
EXTENDS Names, FileData, TLC

VARIABLE half

FilesInit == half \in {"names", "data"} /\ fsinit /\ DataInit

FilesNext ==
  /\ \/ half = "names" /\ NamesNext /\ UNCHANGED dataVars
     \/ half = "data" /\ DataNext /\ UNCHANGED namesVars
  /\ UNCHANGED half

FilesSpec == FilesInit /\ [][FilesNext]_<<half, namesVars, dataVars>>

(* Processes are interchangeable.                                          *)
Agents == Permutations(Agent)
=============================================================================

------------------------------ MODULE MCConsole ------------------------------
(***************************************************************************)
(* The console and the shell that reads it: a ring of three characters, of *)
(* which REQ| is one, and the lines the shell is given.  The shell is      *)
(* specified over the lines it gets, not over the ring, so one run takes   *)
(* the two in turn: a behaviour is one of the part chosen by `part', under *)
(* that part's fairness, and the other stays where it starts.              *)
(***************************************************************************)
EXTENDS Console, Shell

VARIABLE part

TerminalInit == part \in {"console", "shell"} /\ Init /\ shInit

TerminalNext ==
  /\ \/ part = "console" /\ Next /\ UNCHANGED shVars
     \/ part = "shell" /\ shNext /\ UNCHANGED vars
  /\ UNCHANGED part

TerminalSpec ==
  /\ TerminalInit /\ [][TerminalNext]_<<part, vars, shVars>>
  /\ WF_vars(part = "console" /\ IntrRest)
  /\ \A p \in Readers : WF_vars(part = "console" /\ Reading(p))
  /\ WF_shVars(part = "shell" /\ shStep)

TwoReaders == {"sh", "cat"}

(* Every line of at most four tokens; pipelines of three and four stages,  *)
(* blocks in front of a pipe, and redirected stages.                       *)
Lines ==
  UNION {[1 .. len -> Token] : len \in 0 .. 4} \cup
  {<<"a", "|", "a", "|", "a">>, <<"a", "|", "a", "|", "a", "|", "a">>,
   <<"(", "a", "&", ")", "|", "a">>, <<"(", "a", ";", "a", ")", "|", "a">>,
   <<"(", "a", "|", "a", ")", "|", "a">>, <<"a", ">", "a", "|", "a", "<", "a">>}
=============================================================================

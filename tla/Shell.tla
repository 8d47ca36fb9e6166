------------------------------- MODULE Shell ---------------------------------
(***************************************************************************)
(* The shell user/sh.c: it parses a line and runs it with fork, pipe, dup, *)
(* close and wait.  The parser works on tokens: a word is "a" whatever it  *)
(* says, ">>" is "+".  A command that was exec'd either waits for the end  *)
(* of its input (a filter) or exits by itself.                             *)
(*                                                                         *)
(* Each process has a descriptor table; the lowest free entry is taken, as *)
(* in fdalloc.  A pipe is named after the process that made it: runcmd     *)
(* makes at most one and exits.  What a process does to its own table      *)
(* between two forks is one step.  init reaps orphans at once.             *)
(***************************************************************************)
EXTENDS Integers, Sequences, FiniteSets, SequencesExt

CONSTANTS
  ShLines,   \* the lines that may be typed, as token sequences
  MAXARGS,   \* room for arguments of a command, and the end mark
  ShTable,   \* processes that fit the process table
  ShTyped    \* bound: lines typed

ASSUME ShellAssumption ==
  MAXARGS \in Nat \ {0} /\ ShTable \in Nat /\ ShTyped \in Nat

VARIABLES
  line,      \* the line typed last
  typed,     \* how many were
  sh,        \* process -> what it is doing, its parent and its descriptors
  made,      \* processes made so far, the shell being the first
  broken     \* fork or pipe failed at some point

shVars == <<line, typed, sh, made, broken>>

-----------------------------------------------------------------------------
(* Parsing.  A parser goes from the tokens ahead, or from what was parsed  *)
(* and is still ahead, to [cmd, rest]; panic() exits, so it leaves nothing *)
(* ahead and no command.                                                   *)
Token  == {"a", "|", "(", ")", ";", "&", "<", ">", "+"}
Tokens == Seq(Token)
panic  == [cmd |-> [type |-> "PANIC"], rest |-> <<>>]

execcmd(argc)        == [type |-> "EXEC", argc |-> argc]
redircmd(c, tok)     == [type |-> "REDIR", cmd |-> c, mode |-> tok,
                         fd |-> IF tok = "<" THEN 0 ELSE 1]
pipecmd(left, right) == [type |-> "PIPE", left |-> left, right |-> right]
listcmd(left, right) == [type |-> "LIST", left |-> left, right |-> right]
backcmd(c)           == [type |-> "BACK", cmd |-> c]

peek(s, toks) == s # <<>> /\ Head(s) \in toks
Got(c, s)     == [cmd |-> c, rest |-> s]

RECURSIVE parseline(_), parsepipe(_), parseredirs(_), Arguments(_)

parseredirs(got) ==
  IF ~ peek(got.rest, {"<", ">", "+"}) THEN got
  ELSE IF ~ peek(Tail(got.rest), {"a"}) THEN panic
  ELSE parseredirs(Got(redircmd(got.cmd, Head(got.rest)), Tail(Tail(got.rest))))

\* An argument goes to the command inside the redirections around it.
RECURSIVE WithArgument(_), Argc(_)
WithArgument(c) == IF c.type = "REDIR" THEN [c EXCEPT !.cmd = WithArgument(@)]
                   ELSE [c EXCEPT !.argc = @ + 1]
Argc(c) == IF c.type = "REDIR" THEN Argc(c.cmd) ELSE c.argc

Arguments(got) ==
  IF got.rest = <<>> \/ peek(got.rest, {"|", ")", "&", ";"}) THEN got
  ELSE IF Head(got.rest) # "a" \/ Argc(got.cmd) + 1 >= MAXARGS THEN panic
  ELSE Arguments(parseredirs(Got(WithArgument(got.cmd), Tail(got.rest))))

EndBlock(got) == IF ~ peek(got.rest, {")"}) THEN panic
                 ELSE parseredirs(Got(got.cmd, Tail(got.rest)))

parseexec(s) == IF peek(s, {"("}) THEN EndBlock(parseline(Tail(s)))
                ELSE Arguments(parseredirs(Got(execcmd(0), s)))

Joined(Op(_, _), got, more) == Got(Op(got.cmd, more.cmd), more.rest)

\* Mutant: the right side of "|" is a whole line.
PipeTailLine(got) == IF ~ peek(got.rest, {"|"}) THEN got
                     ELSE Joined(pipecmd, got, parseline(Tail(got.rest)))

PipeTail(got) == IF ~ peek(got.rest, {"|"}) THEN got
                 ELSE Joined(pipecmd, got, parsepipe(Tail(got.rest)))

parsepipe(s) == PipeTail(parseexec(s))

RECURSIVE LineTail(_)
LineTail(got) ==
  IF peek(got.rest, {"&"}) THEN LineTail(Got(backcmd(got.cmd), Tail(got.rest)))
  ELSE IF peek(got.rest, {";"}) THEN Joined(listcmd, got, parseline(Tail(got.rest)))
  ELSE got

parseline(s) == LineTail(parsepipe(s))

\* panic() anywhere ends the child that parses.
RECURSIVE Invalid(_)
Invalid(c) ==
  \/ c.type = "PANIC"
  \/ c.type \in {"REDIR", "BACK"} /\ Invalid(c.cmd)
  \/ c.type \in {"PIPE", "LIST"} /\ (Invalid(c.left) \/ Invalid(c.right))

Checked(got) == IF got.rest # <<>> \/ Invalid(got.cmd) THEN panic.cmd ELSE got.cmd
parsecmd(s)  == Checked(parseline(s))

-----------------------------------------------------------------------------
(* Running.                                                                *)
NOFD   == <<"none">>
NoFds  == [d \in 0 .. 4 |-> NOFD]
Free(fds) == CHOOSE d \in DOMAIN fds :
               fds[d] = NOFD /\ \A c \in DOMAIN fds : fds[c] = NOFD => d <= c
Opened(fds, what) == [fds EXCEPT ![Free(fds)] = what]
Shut(fds, ds)     == [d \in DOMAIN fds |-> IF d \in ds THEN NOFD ELSE fds[d]]

\* main() opens the console until three descriptors are open.
shInit ==
  /\ line = <<>> /\ typed = 0 /\ made = 1 /\ broken = FALSE
  /\ sh = [q \in {1} |->
            [parent |-> 0, at |-> "prompt", cmd |-> execcmd(0), p |-> <<0, 0>>, back |-> FALSE,
             fds |-> [d \in 0 .. 4 |-> IF d \in 0 .. 2 THEN <<"console">> ELSE NOFD]]]

\* exit(): descriptors are closed, init takes the children and reaps its own.
Exited(s, p) ==
  LET kids == {q \in DOMAIN s : s[q].parent = p}
      gone == {q \in kids : s[q].at = "zombie"} \cup {q \in {p} : s[p].parent = 0}
  IN  [q \in DOMAIN s \ gone |->
         IF q = p THEN [s[q] EXCEPT !.at = "zombie", !.fds = NoFds]
         ELSE IF q \in kids THEN [s[q] EXCEPT !.parent = 0] ELSE s[q]]

Exit1(p) == sh' = Exited(sh, p) /\ UNCHANGED <<line, typed, made>>
Goes(p, q) == sh' = [sh EXCEPT ![p] = q] /\ UNCHANGED <<line, typed, made, broken>>

TableFull == Cardinality(DOMAIN sh) >= ShTable

\* fork1(): p goes on at `then', its child starts at `at' with command c.
fork1(p, then, at, c, back) ==
  /\ ~ TableFull
  /\ made' = made + 1
  /\ sh' = [q \in DOMAIN sh \cup {made'} |->
              IF q = made'
              THEN [sh[p] EXCEPT !.parent = p, !.at = at, !.cmd = c, !.back = @ \/ back]
              ELSE IF q = p THEN [sh[p] EXCEPT !.at = then] ELSE sh[q]]
  /\ UNCHANGED broken

IsAt(p, where) == p \in DOMAIN sh /\ sh[p].at = where
Runs(p, type) == IsAt(p, "run") /\ sh[p].cmd.type = type

\* The child parses before it touches anything, so it starts with the tree.
\* A blank line is skipped; so is cd, a chdir of the shell itself.
getcmd(p) ==
  /\ IsAt(p, "prompt") /\ typed < ShTyped /\ typed' = typed + 1
  /\ \E l \in ShLines :
       /\ line' = l
       /\ IF l = <<>> THEN UNCHANGED <<sh, made, broken>>
          ELSE fork1(p, "wait line", "run", parsecmd(l), FALSE)

RunPanic(p) == Runs(p, "PANIC") /\ Exit1(p) /\ UNCHANGED broken

\* A program may wait for the end of its input or not; exec may fail.
RunExec(p, kind) ==
  /\ Runs(p, "EXEC")
  /\ IF sh[p].cmd.argc = 0 \/ kind = "missing" THEN Exit1(p) /\ UNCHANGED broken
     ELSE Goes(p, [sh[p] EXCEPT !.at = kind])

RunRedir(p, opens) ==
  /\ Runs(p, "REDIR")
  /\ LET c == sh[p].cmd
     IN  IF opens
         THEN Goes(p, [sh[p] EXCEPT !.cmd = c.cmd,
                                    !.fds = Opened(Shut(@, {c.fd}), <<"file", c.mode>>)])
         ELSE Exit1(p) /\ UNCHANGED broken

RunList(p) ==
  /\ Runs(p, "LIST") /\ fork1(p, "wait left", "run", sh[p].cmd.left, FALSE)
  /\ UNCHANGED <<line, typed>>

RunBack(p) ==
  /\ Runs(p, "BACK") /\ fork1(p, "exit", "run", sh[p].cmd.cmd, TRUE)
  /\ UNCHANGED <<line, typed>>

RunPipe(p, works) ==
  /\ Runs(p, "PIPE")
  /\ LET fds  == sh[p].fds
         both == Opened(Opened(fds, <<"r", p>>), <<"w", p>>)
     IN  IF works
         THEN Goes(p, [sh[p] EXCEPT !.at = "fork left", !.fds = both,
                         !.p = <<Free(fds), Free(Opened(fds, <<"r", p>>))>>])
         ELSE Exit1(p) /\ broken' = TRUE

ForkLeft(p) ==
  /\ IsAt(p, "fork left") /\ fork1(p, "fork right", "left", sh[p].cmd.left, FALSE)
  /\ UNCHANGED <<line, typed>>

ForkRight(p) ==
  /\ IsAt(p, "fork right") /\ fork1(p, "close", "right", sh[p].cmd.right, FALSE)
  /\ UNCHANGED <<line, typed>>

\* fork1() panics; the shell itself has room, its last line being done.
ForkPanic(p) ==
  /\ TableFull
  /\ IsAt(p, "fork left") \/ IsAt(p, "fork right") \/ Runs(p, "LIST") \/ Runs(p, "BACK")
  /\ Exit1(p) /\ broken' = TRUE

\* Mutant: the end that was dup'd stays open too.
PlumbedTwice(q, d, i) == Shut(Opened(Shut(q.fds, {d}), q.fds[q.p[i]]), {q.p[3 - i]})

\* close(d); dup(p[i]); close(p[0]); close(p[1]).
Plumbed(q, d, i) == Shut(Opened(Shut(q.fds, {d}), q.fds[q.p[i]]), {q.p[1], q.p[2]})

Plumb(p) ==
  \/ IsAt(p, "left") /\ Goes(p, [sh[p] EXCEPT !.at = "run", !.fds = Plumbed(sh[p], 1, 2)])
  \/ IsAt(p, "right") /\ Goes(p, [sh[p] EXCEPT !.at = "run", !.fds = Plumbed(sh[p], 0, 1)])

\* Mutant: the parent keeps the write end open.
ClosePipeReadEnd(p) ==
  /\ IsAt(p, "close")
  /\ Goes(p, [sh[p] EXCEPT !.at = "wait one", !.fds = Shut(@, {sh[p].p[1]})])

ClosePipe(p) ==
  /\ IsAt(p, "close")
  /\ Goes(p, [sh[p] EXCEPT !.at = "wait one", !.fds = Shut(@, {sh[p].p[1], sh[p].p[2]})])

\* What follows each wait(0), which always has a child to wait for; the
\* process exits after the second one of a pipe.
NextOf(q) ==
  CASE q.at = "wait line" -> [q EXCEPT !.at = "prompt"]
    [] q.at = "wait left" -> [q EXCEPT !.at = "run", !.cmd = q.cmd.right]
    [] q.at = "wait one"  -> [q EXCEPT !.at = "wait two"]
    [] q.at = "wait two"  -> [q EXCEPT !.at = "exit"]

Wait(p) ==
  /\ p \in DOMAIN sh /\ sh[p].at \in {"wait line", "wait left", "wait one", "wait two"}
  /\ LET kids == {q \in DOMAIN sh : sh[q].parent = p}
     IN  \E z \in kids :
           /\ sh[z].at = "zombie"
           /\ sh' = [q \in DOMAIN sh \ {z} |-> IF q = p THEN NextOf(sh[p]) ELSE sh[q]]
  /\ UNCHANGED <<line, typed, made, broken>>

\* piperead returns 0 once no process has the write end open.
Eof(p) == LET in == sh[p].fds[0]
          IN  in[1] = "r" => \A q \in DOMAIN sh : \A d \in DOMAIN sh[q].fds :
                               sh[q].fds[d] # <<"w", in[2]>>

Finish(p) ==
  /\ IsAt(p, "exit") \/ IsAt(p, "program") \/ (IsAt(p, "filter") /\ Eof(p))
  /\ Exit1(p) /\ UNCHANGED broken

Steps(p) ==
  \/ RunPanic(p) \/ \E kind \in {"program", "filter", "missing"} : RunExec(p, kind)
  \/ \E ok \in BOOLEAN : RunRedir(p, ok) \/ RunPipe(p, ok)
  \/ RunList(p) \/ RunBack(p) \/ ForkLeft(p) \/ ForkRight(p) \/ ForkPanic(p)
  \/ Plumb(p) \/ ClosePipe(p) \/ Wait(p) \/ Finish(p)

shNext == \E p \in 1 .. made : Steps(p) \/ getcmd(p)

\* Some process of the line takes a step whenever one can: each line makes
\* finitely many, so which one does not matter.
shStep == \E p \in 1 .. made : Steps(p)
shSpec == shInit /\ [][shNext]_shVars /\ WF_shVars(shStep)

-----------------------------------------------------------------------------
(* Types; the process table does not overflow (fork1).                     *)
ShTypeOK ==
  /\ typed \in 0 .. ShTyped /\ made \in Nat
  /\ DOMAIN sh \subseteq 1 .. made /\ Cardinality(DOMAIN sh) <= ShTable
  /\ \A p \in DOMAIN sh : sh[p].parent \in 0 .. made /\ DOMAIN sh[p].fds = 0 .. 4

(* A command is exec'd with descriptors 0, 1 and 2 and no other, reading   *)
(* from no write end and writing to no read end: an end that leaked into   *)
(* another stage (sh.c:101-116) would keep a pipe open for ever.           *)
OnlyStdDescriptors ==
  \A p \in DOMAIN sh : sh[p].at \in {"program", "filter"} =>
    /\ {d \in DOMAIN sh[p].fds : sh[p].fds[d] # NOFD} = 0 .. 2
    /\ sh[p].fds[0][1] # "w" /\ sh[p].fds[1][1] # "r" /\ sh[p].fds[2] = <<"console">>

(* When the shell prompts again, what is left of the line was started with *)
(* "&", unless fork or pipe failed: each wait(0) gets the child it is for  *)
(* (sh.c:97, 121, 174).                                                    *)
PromptMeansDone ==
  IsAt(1, "prompt") /\ ~ broken => \A p \in DOMAIN sh : p = 1 \/ sh[p].back

(* A line typed leads back to the prompt: each filter sees the end of its  *)
(* input and each wait finds a child that has exited.                      *)
LineEnds == IsAt(1, "wait line") ~> (IsAt(1, "prompt") \/ broken)

-----------------------------------------------------------------------------
(* The grammar, by cutting the line at its top-level operators: ";" first, *)
(* then a final "&", then "|"; a block is what is between its parentheses. *)
Depth(s, i) == Cardinality({j \in 1 .. i : s[j] = "("}) - Cardinality({j \in 1 .. i : s[j] = ")"})
Cuts(s, tok) == {i \in 1 .. Len(s) : s[i] = tok /\ Depth(s, i) = 0}
FirstOf(S) == CHOOSE i \in S : \A j \in S : i <= j
Before(s, i) == SubSeq(s, 1, i - 1)
After(s, i)  == SubSeq(s, i + 1, Len(s))
Redirect == {"<", ">", "+"}

\* s is words and redirections; the file of one is the word after it.
Files(s) == {i \in 2 .. Len(s) : s[i] = "a" /\ s[i - 1] \in Redirect}
WellFormed(s) == /\ \A i \in 1 .. Len(s) : s[i] \in Redirect \cup {"a"}
                 /\ \A i \in 1 .. Len(s) : s[i] \in Redirect => i + 1 \in Files(s)
Around(c, s) == FoldLeft(redircmd, c, SelectSeq(s, LAMBDA t : t \in Redirect))
Words(s) == Cardinality({i \in 1 .. Len(s) : s[i] = "a"}) - Cardinality(Files(s))

RECURSIVE Grammar(_)
Grammar(s) ==
  LET closes == Cuts(s, ")")
      block  == FirstOf(closes)
  IN  IF Cuts(s, ";") # {} THEN LET i == FirstOf(Cuts(s, ";"))
                                IN  listcmd(Grammar(Before(s, i)), Grammar(After(s, i)))
      ELSE IF s # <<>> /\ Last(s) = "&" THEN backcmd(Grammar(Front(s)))
      ELSE IF Cuts(s, "&") # {} THEN panic.cmd
      ELSE IF Cuts(s, "|") # {} THEN LET i == FirstOf(Cuts(s, "|"))
                                     IN  pipecmd(Grammar(Before(s, i)), Grammar(After(s, i)))
      ELSE IF s # <<>> /\ s[1] = "(" /\ closes # {}
           THEN IF WellFormed(After(s, block)) /\ Words(After(s, block)) = 0
                THEN Around(Grammar(SubSeq(s, 2, block - 1)), After(s, block))
                ELSE panic.cmd
      ELSE IF WellFormed(s) /\ Words(s) < MAXARGS THEN Around(execcmd(Words(s)), s)
      ELSE panic.cmd

(* The recursive descent of sh.c builds the tree the grammar gives the     *)
(* line and refuses the lines it gives none.                               *)
ParsesByGrammar ==
  LET g == Grammar(line) IN parsecmd(line) = IF Invalid(g) THEN panic.cmd ELSE g

(* What sh.c keeps while it runs a line: commands inherit their three      *)
(* descriptors only, and the prompt means that the line is done.           *)
ShellInv == ShTypeOK /\ OnlyStdDescriptors /\ PromptMeansDone
=============================================================================

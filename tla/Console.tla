------------------------------- MODULE Console -------------------------------
(***************************************************************************)
(* The console input of kernel/console.c.  The UART interrupt edits the    *)
(* line being typed in a ring buffer and mirrors it in agent_buf; a        *)
(* finished line goes to consoleread, unless it begins with REQ| : then it *)
(* is rewound out of the ring and handed to agent_dispatch, with cons.lock *)
(* released meanwhile.  consoleread drains the agent queue before it       *)
(* sleeps, also with cons.lock released.                                   *)
(*                                                                         *)
(* The four bytes REQ| are one character here; the only UART has one       *)
(* interrupt handler at a time.  Its echo is in Uart.                      *)
(***************************************************************************)
EXTENDS Integers, Sequences

CONSTANTS
  Readers,         \* processes that read the console
  INPUT_BUF_SIZE,
  AGENT_BUF_SIZE,
  QMax,            \* lines agent_q holds
  ReadSize,        \* n of a read() call
  MaxLine,         \* longest line the host sends, its newline included
  MaxChars         \* bound: characters that arrive

ASSUME ConsoleAssumption ==
  /\ INPUT_BUF_SIZE \in Nat \ {0}
  /\ AGENT_BUF_SIZE \in Nat /\ AGENT_BUF_SIZE >= INPUT_BUF_SIZE
  /\ QMax \in Nat /\ ReadSize \in Nat \ {0} /\ MaxChars \in Nat
  /\ MaxLine \in 1 .. INPUT_BUF_SIZE
  /\ AGENT_BUF_SIZE > 2          \* room for REQ| and for what it asks
  /\ "free" \notin Readers

VARIABLES
  buf, r, w, e,   \* struct cons
  lock,           \* holder of cons.lock: "free", "intr" or a reader
  agent_buf,      \* the mirror, as a sequence: agent_len is its length
  ipc,            \* where the interrupt handler is
  agent_q,        \* the lines handed to agent_dispatch
  rpc,            \* where each reader is in consoleread
  n,              \* how many more bytes it wants
  killed,
  chars,          \* number of characters that have arrived
  linelen, inReq, \* history: of the line the host is sending; inReq: it is a
                  \* REQ| line that began with no unread input in the ring
  accepted,       \* history: characters of the lines given to consoleread
  taken,          \* history: characters that consoleread consumed
  leaked          \* history: a piece of such a line was given to consoleread

ring    == <<buf, r, w, e>>
sending == <<chars, linelen, inReq>>
vars == <<ring, lock, agent_buf, ipc, agent_q, rpc, n, killed, sending,
          accepted, taken, leaked>>

Ends  == {"NL", "EOF"}
At(i) == i % INPUT_BUF_SIZE

Init ==
  /\ buf = [i \in 0 .. INPUT_BUF_SIZE - 1 |-> "x"]
  /\ r = 0 /\ w = 0 /\ e = 0
  /\ lock = "free"
  /\ agent_buf = << >>
  /\ ipc = "idle"
  /\ agent_q = << >>
  /\ rpc = [p \in Readers |-> "user"]
  /\ n = [p \in Readers |-> 0]
  /\ killed = [p \in Readers |-> FALSE]
  /\ chars = 0 /\ linelen = 0 /\ inReq = FALSE
  /\ accepted = << >>
  /\ taken = << >>
  /\ leaked = FALSE

(* wakeup(&cons.r) *)
Woken == [p \in Readers |-> IF rpc[p] = "asleep" THEN "acquire" ELSE rpc[p]]

-----------------------------------------------------------------------------
(* A character c arrives on the line; a host line is never over MaxLine.   *)
Arrives(c) ==
  /\ ipc = "idle"
  /\ lock = "free"
  /\ chars < MaxChars
  /\ linelen + 1 < MaxLine \/ c \in Ends
  /\ chars' = chars + 1
  /\ linelen' = IF c \in Ends THEN 0 ELSE linelen + 1
  /\ inReq' = CASE c \in {"BS", "KILL"} -> FALSE
                [] c = "REQ" /\ linelen = 0 -> r = w
                [] c \in Ends -> FALSE
                [] OTHER -> inReq

(* Mutant: backspace does not shorten the mirror.                          *)
BackspaceCons ==
  /\ Arrives("BS")
  /\ e' = IF e # w THEN e - 1 ELSE e
  /\ UNCHANGED <<buf, r, w, lock, agent_buf, ipc, agent_q, rpc, n, killed,
                 accepted, taken, leaked>>

(* Backspace takes a character off the ring and off the mirror.            *)
Backspace ==
  /\ Arrives("BS")
  /\ IF e # w
     THEN /\ e' = e - 1
          /\ agent_buf' = IF agent_buf = << >> THEN agent_buf
                          ELSE SubSeq(agent_buf, 1, Len(agent_buf) - 1)
     ELSE UNCHANGED <<e, agent_buf>>
  /\ UNCHANGED <<buf, r, w, lock, ipc, agent_q, rpc, n, killed,
                 accepted, taken, leaked>>

(* ^U rewinds to the last newline, or to w, and empties the mirror.        *)
LineStart == CHOOSE i \in w .. e :
               /\ i = w \/ buf[At(i - 1)] = "NL"
               /\ \A j \in i + 1 .. e : buf[At(j - 1)] # "NL"
KillLine ==
  /\ Arrives("KILL")
  /\ e' = LineStart
  /\ agent_buf' = << >>
  /\ UNCHANGED <<buf, r, w, lock, ipc, agent_q, rpc, n, killed,
                 accepted, taken, leaked>>

(* Any other character is dropped when the ring is full.                   *)
Typed == {"REQ", "x", "NL", "EOF"}

Full == ~ (e - r < INPUT_BUF_SIZE)

DropChar(c) ==
  /\ Arrives(c)
  /\ Full
  /\ UNCHANGED <<ring, lock, agent_buf, ipc, agent_q, rpc, n, killed,
                 accepted, taken, leaked>>

(* Otherwise it is stored in the ring and in the mirror.                   *)
Stored(c)  == [buf EXCEPT ![At(e)] = c]
Mirrored(c) == IF Len(agent_buf) < AGENT_BUF_SIZE - 1 THEN Append(agent_buf, c)
               ELSE agent_buf
Completes(c) == c \in Ends \/ (e + 1) - r = INPUT_BUF_SIZE

IsReq(line) == Len(line) > 1 /\ line[1] = "REQ"

StoreChar(c) ==
  /\ Arrives(c)
  /\ ~Full
  /\ ~Completes(c)
  /\ buf' = Stored(c)
  /\ e' = e + 1
  /\ agent_buf' = Mirrored(c)
  /\ UNCHANGED <<r, w, lock, ipc, agent_q, rpc, n, killed, accepted, taken, leaked>>

(* Mutant: w is moved without waking the readers.                          *)
GiveLineSilently(c) ==
  /\ Arrives(c)
  /\ ~Full
  /\ Completes(c)
  /\ ~IsReq(Mirrored(c))
  /\ buf' = Stored(c)
  /\ e' = e + 1
  /\ w' = e + 1
  /\ agent_buf' = << >>
  /\ accepted' = accepted \o [i \in 1 .. e + 1 - w |-> Stored(c)[At(w + i - 1)]]
  /\ leaked' = (leaked \/ inReq)
  /\ UNCHANGED <<r, lock, ipc, agent_q, rpc, n, killed, taken>>

(* The line is complete and an ordinary one: give it to the readers.       *)
GiveLine(c) ==
  /\ Arrives(c)
  /\ ~Full
  /\ Completes(c)
  /\ ~IsReq(Mirrored(c))
  /\ buf' = Stored(c)
  /\ e' = e + 1
  /\ w' = e + 1
  /\ agent_buf' = << >>
  /\ rpc' = Woken
  /\ accepted' = accepted \o [i \in 1 .. e + 1 - w |-> Stored(c)[At(w + i - 1)]]
  /\ leaked' = (leaked \/ inReq)
  /\ UNCHANGED <<r, lock, ipc, agent_q, n, killed, taken>>

(* The line is complete and a REQ| one: rewind the ring, release cons.lock *)
(* ...                                                                     *)
TakeReq(c) ==
  /\ Arrives(c)
  /\ ~Full
  /\ Completes(c)
  /\ IsReq(Mirrored(c))
  /\ buf' = Stored(c)
  /\ e' = w
  /\ agent_buf' = Mirrored(c)
  /\ ipc' = "dispatch"
  /\ UNCHANGED <<r, w, lock, agent_q, rpc, n, killed, accepted, taken, leaked>>

(* ... enqueue the line, or drop it if the queue is full ...               *)
AgentDispatch ==
  /\ ipc = "dispatch"
  /\ agent_q' = IF Len(agent_q) < QMax THEN Append(agent_q, agent_buf) ELSE agent_q
  /\ ipc' = "finish"
  /\ UNCHANGED <<ring, lock, agent_buf, rpc, n, killed, sending, accepted, taken, leaked>>

(* ... take cons.lock again, and wake the readers so that one drains.      *)
FinishReq ==
  /\ ipc = "finish"
  /\ lock = "free"
  /\ agent_buf' = << >>
  /\ rpc' = Woken
  /\ ipc' = "idle"
  /\ UNCHANGED <<ring, lock, agent_q, n, killed, sending, accepted, taken, leaked>>

-----------------------------------------------------------------------------
Step(p, from, to) == rpc[p] = from /\ rpc' = [rpc EXCEPT ![p] = to]
world == <<buf, w, e, agent_buf, ipc, sending, accepted, leaked>>

(* read() is called.                                                       *)
ConsoleRead(p) ==
  /\ ~killed[p]
  /\ Step(p, "user", "acquire")
  /\ n' = [n EXCEPT ![p] = ReadSize]
  /\ UNCHANGED <<world, r, lock, agent_q, killed, taken>>

(* acquire(&cons.lock), also when sleep() returns.                         *)
Acquire(p) ==
  /\ lock = "free"
  /\ Step(p, "acquire", "locked")
  /\ lock' = p
  /\ UNCHANGED <<world, r, agent_q, n, killed, taken>>

(* Input is there: copy one byte; a newline or the last byte ends the      *)
(* read, and so does ^D, which stays for the next read unless it is first, *)
(* and a byte that either_copyout() cannot deliver, which is lost.         *)
TakeChar(p, copied) ==
  LET c == buf[At(r)]
      saved == c = "EOF" /\ n[p] < ReadSize
      done == c \in Ends \/ n[p] = 1 \/ ~copied
  IN
  /\ r # w
  /\ Step(p, "locked", IF done THEN "user" ELSE "locked")
  /\ r' = IF saved THEN r ELSE r + 1
  /\ taken' = IF saved THEN taken ELSE Append(taken, c)
  /\ n' = [n EXCEPT ![p] = IF done THEN 0 ELSE @ - 1]
  /\ lock' = IF done THEN "free" ELSE p
  /\ UNCHANGED <<world, agent_q, killed>>

(* No input, and the process was killed: return -1.                        *)
ReadKilled(p) ==
  /\ r = w
  /\ killed[p]
  /\ Step(p, "locked", "exited")
  /\ n' = [n EXCEPT ![p] = 0]
  /\ lock' = "free"
  /\ UNCHANGED <<world, r, agent_q, killed, taken>>

(* No input: release cons.lock and drain the agent queue ...               *)
ReleaseToDrain(p) ==
  /\ r = w
  /\ ~killed[p]
  /\ Step(p, "locked", "drain")
  /\ lock' = "free"
  /\ UNCHANGED <<world, r, agent_q, n, killed, taken>>

DrainOne(p) ==
  /\ agent_q # << >>
  /\ Step(p, "drain", "drain")
  /\ agent_q' = Tail(agent_q)
  /\ UNCHANGED <<world, r, lock, n, killed, taken>>

DrainEnds(p) ==
  /\ agent_q = << >>
  /\ Step(p, "drain", "recheck")
  /\ UNCHANGED <<world, r, lock, agent_q, n, killed, taken>>

(* ... take cons.lock again; go on if there is input now, else sleep(),    *)
(* which gives cons.lock up only when the process is SLEEPING.             *)
Recheck(p) ==
  /\ lock = "free"
  /\ Step(p, "recheck", IF r # w THEN "locked" ELSE "asleep")
  /\ lock' = IF r # w THEN p ELSE "free"
  /\ UNCHANGED <<world, r, agent_q, n, killed, taken>>

(* kkill: a sleeper is made runnable.                                      *)
Kill(p) ==
  /\ ~killed[p]
  /\ rpc[p] # "exited"
  /\ killed' = [killed EXCEPT ![p] = TRUE]
  /\ rpc' = [rpc EXCEPT ![p] = CASE rpc[p] = "asleep" -> "acquire"
                                 [] rpc[p] = "user"   -> "exited"
                                 [] OTHER             -> rpc[p]]
  /\ UNCHANGED <<world, r, lock, agent_q, n, taken>>

(* Some other process traps and drains a line.                             *)
OtherDrain ==
  /\ agent_q # << >>
  /\ agent_q' = Tail(agent_q)
  /\ UNCHANGED <<world, r, lock, rpc, n, killed, taken>>

-----------------------------------------------------------------------------
ConsoleIntr ==
  \/ Backspace \/ KillLine
  \/ \E c \in Typed : DropChar(c) \/ StoreChar(c) \/ GiveLine(c) \/ TakeReq(c)
IntrRest == AgentDispatch \/ FinishReq
Reading(p) ==
  \/ ConsoleRead(p) \/ Acquire(p) \/ ReadKilled(p)
  \/ \E copied \in BOOLEAN : TakeChar(p, copied)
  \/ ReleaseToDrain(p) \/ DrainOne(p) \/ DrainEnds(p) \/ Recheck(p)

Next == ConsoleIntr \/ IntrRest \/ OtherDrain
        \/ \E p \in Readers : Reading(p) \/ Kill(p)

Spec == Init /\ [][Next]_vars

(* An interrupt handler that has begun goes on; a reader runs, and reads   *)
(* again (a shell).  cons.lock is fair.                                    *)
FairSpec == Spec /\ WF_vars(IntrRest) /\ \A p \in Readers : WF_vars(Reading(p))

-----------------------------------------------------------------------------
Unread == [i \in 1 .. w - r |-> buf[At(r + i - 1)]]

(* Types; the three indices stay in order and within one ring.             *)
TypeOK ==
  /\ buf \in [0 .. INPUT_BUF_SIZE - 1 -> Typed]
  /\ r \in 0 .. MaxChars /\ w \in r .. MaxChars /\ e \in w .. r + INPUT_BUF_SIZE
  /\ lock \in Readers \cup {"free"}
  /\ agent_buf \in Seq(Typed) /\ Len(agent_buf) <= AGENT_BUF_SIZE - 1
  /\ ipc \in {"idle", "dispatch", "finish"}
  /\ Len(agent_q) <= QMax
  /\ rpc \in [Readers -> {"user", "acquire", "locked", "drain", "recheck",
                          "asleep", "exited"}]
  /\ n \in [Readers -> 0 .. ReadSize]

(* The mirror agrees with the line being edited, as the comment on         *)
(* agent_buf promises, through every edit, overflow and kill; otherwise a  *)
(* line could be judged by what it no longer says.                         *)
Lockstep ==
  ipc = "idle" =>
    /\ Len(agent_buf) = e - w
    /\ \A i \in 1 .. Len(agent_buf) : agent_buf[i] = buf[At(w + i - 1)]

(* Readers take the ordinary lines, whole and in order: what was consumed, *)
(* followed by what is still in the ring, is what was given to them; no    *)
(* unread byte is overwritten however slow the readers are.                *)
TakenIsTyped == taken \o Unread = accepted

(* A reader never sleeps on input, a saved ^D included.                    *)
NoSleepOnInput == \A p \in Readers : rpc[p] = "asleep" => r = w

(* Input given to the readers is read in the end, unless they are killed.  *)
InputIsRead == r # w ~> (r = w \/ \E p \in Readers : killed[p])

(* consoleread never sees any of a REQ| line, however it is split by line  *)
(* editing, kills and slow readers, as the comment in consoleintr says: so *)
(* it is for a line that begins with no unread input in the ring.  (Unread *)
(* input shortens the ring, and a longer line is then cut in two.)         *)
ReqHidden == ~leaked

(* What console.c keeps while the interrupt edits and readers take: the    *)
(* mirror equals the line, readers get what was typed, nobody sleeps on    *)
(* input, and a REQ| line stays hidden.                                    *)
ConsoleInv == TypeOK /\ Lockstep /\ TakenIsTyped /\ NoSleepOnInput /\ ReqHidden
=============================================================================

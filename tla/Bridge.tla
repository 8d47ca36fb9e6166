------------------------------- MODULE Bridge -------------------------------
(***************************************************************************)
(* The host side, agent.py: the REPL thread runs one question at a time    *)
(* (handle), the reader thread hands on what xv6 prints, and both talk to  *)
(* the kernel and to agentd over one serial line that carries no request   *)
(* numbers.  A cache call waits 4 s for "the" RESP| line; a tool call      *)
(* sends the command and then a PRINT of a numbered marker, and takes what *)
(* is printed before the marker as the tool's output.  Either wait can     *)
(* time out while the answer is still on its way.                          *)
(*                                                                         *)
(* The right answer of a question is the question itself; the kernel's     *)
(* cache is exact here (module Cache has the semantic match), lines are    *)
(* routed in order (AgentQueue shows when they are not), the user types    *)
(* Asked questions, and what the model replies is any choice.              *)
(***************************************************************************)
EXTENDS Integers, Sequences, SequencesExt

CONSTANTS
  Question,    \* what the user may ask
  Known,       \* ... and what an earlier session has had cached
  NoReply,     \* Python's None
  AGENTQ,      \* how many commands the kernel's queue for agentd holds
  MAX_STEPS,   \* model calls per question (agent.py MAX_STEPS)
  Asked,       \* bound: questions typed
  LateTools    \* bound: how many tool calls begin with an earlier one's lines
               \* still on their way

ASSUME BridgeAssumption ==
  /\ AGENTQ \in Nat /\ MAX_STEPS \in Nat
  /\ NoReply \notin Question
  /\ \A kind \in {"HIT", "MISS", "OK", "ERR"}, q \in Question \cup {NoReply} :
       NoReply # [kind |-> kind, q |-> q, id |-> -1]

VARIABLES
  down, up,    \* the serial line: lines to xv6, lines xv6 printed
  queue,       \* the kernel's agentq, drained by agentd
  kcache,      \* the kernel's cache: question -> answer or NoReply
  slot,        \* _resp_line and _resp_event
  capture,     \* capturing and capture_buf
  seq,         \* _seq, the marker number
  host,        \* the REPL thread: pc, question, steps, used_impure, call
  asks,        \* questions typed so far
  stale,       \* history: when the current call began, lines of an earlier
               \* one were still on their way; or it timed out, or a command
               \* was dropped
  wrong,       \* history: an answer shown was not the one to its question,
               \* although its call was not stale
  mixed        \* history: an observation was not its own tool's output,
               \* although its call was not stale

bridgeVars == <<down, up, queue, kcache, slot, capture, seq, host, asks, wrong, stale, mixed>>

Idle == [pc |-> "idle", q |-> NoReply, n |-> 0, impure |-> FALSE, call |-> "none"]

BridgeInit ==
  /\ down = <<>> /\ up = <<>> /\ queue = <<>>
  /\ kcache = [q \in Question |-> IF q \in Known THEN q ELSE NoReply]
  /\ slot = [line |-> NoReply, event |-> FALSE]
  /\ capture = [on |-> FALSE, buf |-> <<>>]
  /\ seq = 0
  /\ host = Idle
  /\ asks = 0 /\ wrong = FALSE /\ stale = FALSE /\ mixed = FALSE

\* Lines on the wire: a cache call, or a command with its number.
Get(q) == [kind |-> "CACHE_GET", q |-> q, id |-> -1]
Set(q) == [kind |-> "CACHE_SET", q |-> q, id |-> -1]
Tool(id) == [kind |-> "TOOL", q |-> NoReply, id |-> id]
Marker(id) == [kind |-> "MARKER", q |-> NoReply, id |-> id]
Resp(kind, q) == [kind |-> kind, q |-> q, id |-> -1]

------------------------------------------------------------------------------
\* xv6: the line discipline and the handlers print one RESP| line per cache
\* call; a command goes to agentd's queue, or is dropped when that is full.
\* cache_set() may refuse (RESP|ERR).
HandleCacheGet ==
  /\ down # <<>> /\ Head(down).kind = "CACHE_GET"
  /\ LET q == Head(down).q IN
     up' = Append(up, IF kcache[q] = NoReply THEN Resp("MISS", NoReply)
                      ELSE Resp("HIT", kcache[q]))
  /\ down' = Tail(down)
  /\ UNCHANGED <<queue, kcache, slot, capture, seq, host, asks, wrong, stale, mixed>>

HandleCacheSet(ok) ==
  /\ down # <<>> /\ Head(down).kind = "CACHE_SET"
  /\ kcache' = IF ok THEN [kcache EXCEPT ![Head(down).q] = Head(down).q] ELSE kcache
  /\ up' = Append(up, Resp(IF ok THEN "OK" ELSE "ERR", NoReply))
  /\ down' = Tail(down)
  /\ UNCHANGED <<queue, slot, capture, seq, host, asks, wrong, stale, mixed>>

ForwardCommand ==
  /\ down # <<>> /\ Head(down).kind \in {"TOOL", "MARKER"}
  /\ queue' = IF Len(queue) < AGENTQ THEN Append(queue, Head(down)) ELSE queue
  /\ stale' = (stale \/ Len(queue) = AGENTQ)
  /\ down' = Tail(down)
  /\ UNCHANGED <<up, kcache, slot, capture, seq, host, asks, wrong, mixed>>

\* agentd: main()'s loop, execute(): one command at a time, its output printed
\* before the next command is received.
Execute ==
  /\ queue # <<>>
  /\ up' = Append(up, Head(queue))
  /\ queue' = Tail(queue)
  /\ UNCHANGED <<down, kcache, slot, capture, seq, host, asks, wrong, stale, mixed>>

\* The reader thread: everything printed is captured while capturing, and a
\* RESP| line is handed to whoever waits in _cache_rpc().
Reader ==
  /\ up # <<>>
  /\ capture' = IF capture.on THEN [capture EXCEPT !.buf = Append(@, Head(up))] ELSE capture
  /\ slot' = IF Head(up).id = -1 THEN [line |-> Head(up), event |-> TRUE] ELSE slot
  /\ up' = Tail(up)
  /\ UNCHANGED <<down, queue, kcache, seq, host, asks, wrong, stale, mixed>>

------------------------------------------------------------------------------
\* repl() and handle(): the question, first looked up in the kernel's cache;
\* a question over the wire limit skips the lookup.
At(pc) == host.pc = pc
Goto(pc) == host' = [host EXCEPT !.pc = pc]

AskQuestion(q, fits) ==
  /\ At("idle") /\ asks < Asked
  /\ asks' = asks + 1
  /\ host' = [Idle EXCEPT !.q = q, !.pc = IF fits THEN "rpc" ELSE "model", !.call = "GET"]
  /\ UNCHANGED <<down, up, queue, kcache, slot, capture, seq, wrong, stale, mixed>>

\* History: something of an earlier call, other than its marker, is still on
\* its way.
Leftover(line) == line.kind = "MARKER" /\ line.id < seq
Lingers == \E wire \in {down, queue, up} : \E i \in 1 .. Len(wire) : ~Leftover(wire[i])

\* _cache_rpc(): clear the slot, send, wait.
ClearedNot == slot                                             \* mutant
Cleared == [line |-> NoReply, event |-> FALSE]
RpcClear ==
  /\ At("rpc")
  /\ slot' = Cleared
  /\ stale' = Lingers
  /\ Goto("send")
  /\ UNCHANGED <<down, up, queue, kcache, capture, seq, asks, wrong, mixed>>

RpcSend ==
  /\ At("send")
  /\ down' = Append(down, IF host.call = "GET" THEN Get(host.q) ELSE Set(host.q))
  /\ Goto("wait")
  /\ UNCHANGED <<up, queue, kcache, slot, capture, seq, asks, wrong, stale, mixed>>

\* A lookup that hits shows the answer and ends the question, any other reply
\* sends it to the model; the reply to a store is ignored.
AfterRpc(line) ==
  IF host.call = "SET"
  THEN host' = Idle /\ wrong' = wrong
  ELSE IF line # NoReply /\ line.kind = "HIT"
  THEN host' = Idle /\ wrong' = (wrong \/ (~stale /\ line.q # host.q))
  ELSE Goto("model") /\ wrong' = wrong

RpcReply ==
  /\ At("wait") /\ slot.event
  /\ AfterRpc(slot.line)
  /\ UNCHANGED <<down, up, queue, kcache, slot, capture, seq, asks, stale, mixed>>

RpcTimeout ==
  /\ At("wait") /\ ~slot.event
  /\ AfterRpc(NoReply)
  /\ stale' = TRUE
  /\ UNCHANGED <<down, up, queue, kcache, slot, capture, seq, asks, mixed>>

\* The model's reply: an answer, a tool call, or nothing usable.  An answer is
\* stored when no impure tool ran and it fits the wire.
ModelAnswers(fits) ==
  /\ At("model") /\ host.n < MAX_STEPS
  /\ host' = IF host.impure \/ ~fits THEN Idle ELSE [host EXCEPT !.pc = "rpc", !.call = "SET"]
  /\ UNCHANGED <<down, up, queue, kcache, slot, capture, seq, asks, wrong, stale, mixed>>

\* No usable reply, or a tool that is unknown or too long for the wire, which
\* counts as one that ran.
ModelUnusable(refused) ==
  /\ At("model") /\ host.n < MAX_STEPS
  /\ host' = [host EXCEPT !.n = @ + 1, !.impure = @ \/ refused]
  /\ UNCHANGED <<down, up, queue, kcache, slot, capture, seq, asks, wrong, stale, mixed>>

ModelGivesUp ==
  /\ At("model") /\ host.n = MAX_STEPS
  /\ host' = Idle
  /\ UNCHANGED <<down, up, queue, kcache, slot, capture, seq, asks, wrong, stale, mixed>>

\* run_tool(): start capturing, send the command and its marker.
RunTool(impure) ==
  /\ At("model") /\ host.n < MAX_STEPS /\ (Lingers => seq < LateTools)
  /\ capture' = [on |-> TRUE, buf |-> <<>>]
  /\ down' = down \o <<Tool(seq), Marker(seq)>>
  /\ seq' = seq + 1
  /\ stale' = Lingers
  /\ host' = [host EXCEPT !.pc = "marker", !.n = @ + 1, !.impure = @ \/ impure]
  /\ UNCHANGED <<up, queue, kcache, slot, asks, wrong, mixed>>

\* The observation is what was captured before this call's own marker.
MarkerOf == Marker(seq - 1)
IsOutput(line) == line.kind # "MARKER"
Marked == MarkerOf \in ToSet(capture.buf)
OwnOutput(end) ==
  \E p \in 1 .. end - 1 :
    /\ capture.buf[p] = Tool(seq - 1)
    /\ \A i \in 1 .. end - 1 : IsOutput(capture.buf[i]) => i = p
ToolObserved ==
  /\ host.pc \in {"marker", "retried"} /\ Marked
  /\ LET end == CHOOSE i \in 1 .. Len(capture.buf) :
                  capture.buf[i] = MarkerOf /\ \A j \in 1 .. i - 1 : capture.buf[j] # MarkerOf
     IN mixed' = (mixed \/ (~stale /\ ~OwnOutput(end)))
  /\ capture' = [on |-> FALSE, buf |-> <<>>]
  /\ Goto("model")
  /\ UNCHANGED <<down, up, queue, kcache, slot, seq, asks, wrong, stale>>

\* 24 s without the marker: the marker alone is sent once more; 12 s later the
\* tool call is given up.
MarkerRetry ==
  /\ At("marker") /\ ~Marked
  /\ down' = Append(down, MarkerOf)
  /\ Goto("retried")
  /\ UNCHANGED <<up, queue, kcache, slot, capture, seq, asks, wrong, stale, mixed>>

ToolTimeoutNever == FALSE /\ UNCHANGED bridgeVars                \* mutant
ToolTimeout ==
  /\ At("retried") /\ ~Marked
  /\ capture' = [on |-> FALSE, buf |-> <<>>]
  /\ stale' = TRUE
  /\ Goto("model")
  /\ UNCHANGED <<down, up, queue, kcache, slot, seq, asks, wrong, mixed>>

HostStep ==
  \/ RpcClear \/ RpcSend \/ RpcReply \/ RpcTimeout
  \/ \E fits \in BOOLEAN : ModelAnswers(fits)
  \/ ModelGivesUp
  \/ \E impure \in BOOLEAN : RunTool(impure) \/ ModelUnusable(impure)
  \/ ToolObserved \/ MarkerRetry \/ ToolTimeout

BridgeNext ==
  \/ \E q \in Question, fits \in BOOLEAN : AskQuestion(q, fits)
  \/ HostStep
  \/ HandleCacheGet \/ \E ok \in BOOLEAN : HandleCacheSet(ok)
  \/ ForwardCommand \/ Execute \/ Reader

\* Every wait of the REPL thread has a timeout and the model's client returns.
BridgeSpec == BridgeInit /\ [][BridgeNext]_bridgeVars /\ WF_bridgeVars(HostStep)

------------------------------------------------------------------------------
(* Types; agentq stays within its size and an event comes with its line    *)
(* (forward_to_agentd, the reader thread).                                 *)
BridgeTypeOK ==
  /\ kcache \in [Question -> Question \cup {NoReply}]
  /\ slot.event => slot.line # NoReply
  /\ Len(queue) <= AGENTQ
  /\ host.n \in 0 .. MAX_STEPS
  /\ host.pc \in {"idle", "rpc", "send", "wait", "model", "marker", "retried"}

(***************************************************************************)
(* The user is shown the answer to the question asked: the RESP| line      *)
(* _cache_rpc() returns is the one its own request caused (agent.py:972),  *)
(* also after earlier waits timed out and their replies came late, unless  *)
(* one of them was still on its way when the slot was cleared.             *)
(***************************************************************************)
AnswersMatchUnlessLate == ~wrong

(***************************************************************************)
(* An observation holds this tool's output, all of it and no other's       *)
(* (agent.py:774), also after earlier calls were given up, unless output   *)
(* of theirs was still on its way when this one began or agentq dropped a  *)
(* command; the marker of an earlier call that was sent twice may stand    *)
(* before it.                                                              *)
(***************************************************************************)
ObservationIsOwn == ~mixed

(***************************************************************************)
(* Every question comes to an end: a hit, an answer, or MAX_STEPS model    *)
(* calls, whatever the kernel and agentd do (agent.py:1029).               *)
(***************************************************************************)
QuestionEnds == (host.pc # "idle") ~> (host.pc = "idle")

(* What the host may rely on whenever nothing of an earlier call is still  *)
(* on its way and nothing is dropped: an answer is to the question asked,  *)
(* an observation is this tool's output (agent.py:774, 972).               *)
BridgeInv == BridgeTypeOK /\ AnswersMatchUnlessLate /\ ObservationIsOwn
=============================================================================

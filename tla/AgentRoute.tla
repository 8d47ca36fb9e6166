------------------------------ MODULE AgentRoute ------------------------------
(***************************************************************************)
(* What kernel/agentcmd.c does with a wire line once a drainer holds it:   *)
(* ASK and LLM_RESP around the single pending prompt, the CACHE_GET and    *)
(* CACHE_SET calls of the host, and the deny list in front of every other  *)
(* command.  Each handler runs in process context and can be preempted, or *)
(* run beside another drainer, between the steps written here.             *)
(*                                                                         *)
(* The queues are those of module AgentQueue, reduced to a bounded FIFO    *)
(* and to a runtime that may be full.  The response cache is reduced to    *)
(* the entries ever stored: a lookup finds one of them, or nothing (it was *)
(* evicted, or is dissimilar); module Cache has the detail.                *)
(***************************************************************************)
EXTENDS Integers, Sequences, FiniteSets

CONSTANTS
  Drainers,     \* process contexts that call agent_drain
  Commands,     \* names of wire commands that agentd executes
  Chatty,       \* the ones without a side effect: CHAT and PRINT
  Prompts,      \* the user's questions
  LongPrompts,  \* prompts that do not fit key[256] of handle_llm_resp
  NoKey,        \* an empty prompt, or pending_len = 0
  DefaultDeny,  \* deny_default
  DenyMax,      \* DENY_MAX
  Cap,          \* lines agent_q holds
  MaxLines,     \* bound: lines sent to the kernel
  Admin         \* whether the deny list is edited in this run

ASSUME AgentRouteAssumption ==
  /\ Chatty \subseteq Commands
  /\ LongPrompts \subseteq Prompts
  /\ NoKey \notin Prompts
  /\ DefaultDeny \subseteq Commands
  /\ IsFiniteSet(DefaultDeny) /\ DenyMax \in Nat /\ Cardinality(DefaultDeny) <= DenyMax
  /\ Cap \in Nat /\ MaxLines \in Nat
  /\ Admin \in BOOLEAN

VARIABLES
  sent,      \* lines sent so far; the number of a line is its identity
  queue,     \* agent_q
  dpc,       \* where each drainer is in agent_dispatch_now
  local,     \* the line it holds
  out,       \* the wire payload it is about to forward
  key,       \* key[] of handle_llm_resp
  pending,   \* pending_prompt, NoKey when pending_len is 0
  cache,     \* entries stored under each prompt
  denylist,  \* denylist.names
  llmReqs,   \* LLM_REQ lines the host has not answered
  asked,     \* history: ASK lines that printed LLM_REQ
  reached,   \* history: commands that reached the runtime
  refused,   \* history: lines that ended in the kernel
  overlapped, \* history: a question came while another was open
  barred     \* history: queued commands on the deny list ever since they came

handlers == <<dpc, local, out, key>>
question == <<pending, overlapped>>
vars == <<sent, queue, handlers, pending, cache, denylist, llmReqs, asked,
          reached, refused, overlapped, barred>>

Ids     == 1 .. MaxLines
Keys    == Prompts \cup {NoKey}
Ops     == {"CMD", "ASK", "LLM_RESP", "CACHE_GET", "CACHE_SET"}
NoCmd   == "none"
(* "of" is the prompt the host was answering: history, no kernel code sees *)
(* it.                                                                     *)
Line    == [id : Ids, op : Ops, key : Keys, cmd : Commands \cup {NoCmd}]
NoLine  == [id |-> 0, op |-> "CMD", key |-> NoKey, cmd |-> NoCmd]
Entry   == [cmd : Commands, of : Keys]
Payload == [id : Ids, cmd : Commands, via : {"CMD", "answer"}]
NoWire  == [id |-> 0, cmd |-> NoCmd, via |-> "CMD"]

Init ==
  /\ sent = 0
  /\ queue = << >>
  /\ dpc = [d \in Drainers |-> "loop"]
  /\ local = [d \in Drainers |-> NoLine]
  /\ out = [d \in Drainers |-> NoWire]
  /\ key = [d \in Drainers |-> NoKey]
  /\ pending = NoKey
  /\ cache = [k \in Prompts |-> {}]
  /\ denylist = DefaultDeny
  /\ llmReqs = {}
  /\ asked = {}
  /\ reached = {}
  /\ refused = {}
  /\ overlapped = FALSE
  /\ barred = {}

(* agent_dispatch: enqueue, or drop when agent_q is full.                  *)
Enqueue(l) ==
  /\ sent < MaxLines
  /\ sent' = sent + 1
  /\ IF Len(queue) < Cap
     THEN /\ queue' = Append(queue, l)
          /\ UNCHANGED refused
     ELSE /\ refused' = refused \cup {l.id}
          /\ UNCHANGED queue
  /\ barred' = IF l.op = "CMD" /\ l.cmd \in denylist /\ Len(queue) < Cap
               THEN barred \cup {<<l.id, l.cmd>>} ELSE barred

(* The host sends a command, a question or a cache call.                   *)
HostSend(op, k, c) ==
  /\ Enqueue([id |-> sent + 1, op |-> op, key |-> k, cmd |-> c])
  /\ UNCHANGED <<handlers, question, cache, denylist, llmReqs, asked, reached>>

(* agent.py _handle_llm_req: one thread per LLM_REQ line calls the model   *)
(* and sends its answer, a wire command, as LLM_RESP.                      *)
HostRespond(q, c) ==
  /\ llmReqs' = llmReqs \ {q}
  /\ Enqueue([id |-> sent + 1, op |-> "LLM_RESP", key |-> q[2], cmd |-> c])
  /\ UNCHANGED <<handlers, question, cache, denylist, asked, reached>>

-----------------------------------------------------------------------------
Goto(d, label) == dpc' = [dpc EXCEPT ![d] = label]

(* The handler is done with its line.                                      *)
Finish(d) ==
  /\ Goto(d, "loop")
  /\ local' = [local EXCEPT ![d] = NoLine]
  /\ out' = [out EXCEPT ![d] = NoWire]
  /\ key' = [key EXCEPT ![d] = NoKey]
  /\ barred' = {b \in barred : b[1] # local[d].id}

(* sys_dispatch: a user process that is not an agent routes a line itself, *)
(* without the queue.                                                      *)
SysDispatch(d, op, k, c) ==
  /\ dpc[d] = "loop"
  /\ sent < MaxLines
  /\ sent' = sent + 1
  /\ local' = [local EXCEPT ![d] = [id |-> sent + 1, op |-> op, key |-> k, cmd |-> c]]
  /\ Goto(d, op)
  /\ barred' = IF op = "CMD" /\ c \in denylist
               THEN barred \cup {<<sent + 1, c>>} ELSE barred
  /\ UNCHANGED <<queue, out, key, question, cache, denylist, llmReqs,
                 asked, reached, refused>>

(* agent_drain_locked: take a line; agent_dispatch_now picks its handler.  *)
Dequeue(d) ==
  /\ dpc[d] = "loop"
  /\ queue # << >>
  /\ local' = [local EXCEPT ![d] = Head(queue)]
  /\ queue' = Tail(queue)
  /\ Goto(d, Head(queue).op)
  /\ UNCHANGED <<sent, out, key, question, cache, denylist, llmReqs,
                 asked, reached, refused, barred>>

(* Have the payload p forwarded next.                                      *)
ForwardNext(d, c, via) ==
  /\ out' = [out EXCEPT ![d] = [id |-> local[d].id, cmd |-> c, via |-> via]]
  /\ Goto(d, "forward")

(* handle_ask, and handle_cache_get and handle_cache_set, given nothing.   *)
EmptyArgument(d) ==
  /\ dpc[d] \in {"ASK", "CACHE_GET", "CACHE_SET"}
  /\ local[d].key = NoKey
  /\ refused' = refused \cup {local[d].id}
  /\ Finish(d)
  /\ UNCHANGED <<sent, queue, question, cache, denylist, llmReqs, asked, reached>>

(* handle_ask, 1): an exact hit is forwarded as it is.                     *)
AskExactHit(d, e) ==
  /\ dpc[d] = "ASK"
  /\ local[d].key # NoKey
  /\ e \in cache[local[d].key]
  /\ ForwardNext(d, e.cmd, "answer")
  /\ UNCHANGED <<sent, queue, local, key, question, cache, denylist, llmReqs,
                 asked, reached, refused, barred>>

AskExactMiss(d) ==
  /\ dpc[d] = "ASK"
  /\ local[d].key # NoKey
  /\ Goto(d, "semantic")
  /\ UNCHANGED <<sent, queue, local, out, key, question, cache, denylist, llmReqs,
                 asked, reached, refused, barred>>

(* handle_ask, 2): a similar prompt's answer, if it is only talk.          *)
AskSemanticHit(d, e) ==
  /\ dpc[d] = "semantic"
  /\ e.cmd \in Chatty
  /\ ForwardNext(d, e.cmd, "answer")
  /\ UNCHANGED <<sent, queue, local, key, question, cache, denylist, llmReqs,
                 asked, reached, refused, barred>>

(* A question is open from here until the kernel takes up its answer.      *)
Open == \/ llmReqs # {}
        \/ \E n \in DOMAIN queue : queue[n].op = "LLM_RESP"
        \/ \E d \in Drainers : dpc[d] \in {"print", "LLM_RESP"}

(* Mutant: a semantic hit with a side effect ends the handler.             *)
AskMissDropped(d) ==
  /\ dpc[d] = "semantic"
  /\ Finish(d)
  /\ UNCHANGED <<sent, queue, question, cache, denylist, llmReqs,
                 asked, reached, refused>>

(* Mutant: the prompt is cut to a prefix that other prompts have too.      *)
AskMissCut(d) ==
  /\ dpc[d] = "semantic"
  /\ pending' \in Prompts
  /\ overlapped' = (overlapped \/ Open)
  /\ Goto(d, "print")
  /\ UNCHANGED <<sent, queue, local, out, key, cache, denylist, llmReqs,
                 asked, reached, refused, barred>>

(* handle_ask, 3): remember the prompt ...                                 *)
AskMiss(d) ==
  /\ dpc[d] = "semantic"
  /\ pending' = local[d].key
  /\ overlapped' = (overlapped \/ Open)
  /\ Goto(d, "print")
  /\ UNCHANGED <<sent, queue, local, out, key, cache, denylist, llmReqs,
                 asked, reached, refused, barred>>

(* ... and ask the host.                                                   *)
AskPrint(d) ==
  /\ dpc[d] = "print"
  /\ llmReqs' = llmReqs \cup {<<local[d].id, local[d].key>>}
  /\ asked' = asked \cup {local[d].id}
  /\ Finish(d)
  /\ UNCHANGED <<sent, queue, question, cache, denylist, reached, refused>>

(* handle_llm_resp: snapshot the pending prompt under pending_lock ...     *)
RespSnapshot(d) ==
  /\ dpc[d] = "LLM_RESP"
  /\ key' = [key EXCEPT ![d] = IF pending \in LongPrompts THEN NoKey ELSE pending]
  /\ pending' = NoKey
  /\ UNCHANGED overlapped
  /\ Goto(d, "store")
  /\ UNCHANGED <<sent, queue, local, out, cache, denylist, llmReqs,
                 asked, reached, refused, barred>>

(* ... then cache the response under it, and forward the response without  *)
(* asking the deny list.                                                   *)
RespStore(d) ==
  /\ dpc[d] = "store"
  /\ cache' = IF key[d] = NoKey THEN cache
              ELSE [cache EXCEPT ![key[d]] =
                      @ \cup {[cmd |-> local[d].cmd, of |-> local[d].key]}]
  /\ ForwardNext(d, local[d].cmd, "answer")
  /\ UNCHANGED <<sent, queue, local, key, question, denylist, llmReqs,
                 asked, reached, refused, barred>>

(* handle_cache_get: print RESP|HIT or RESP|MISS.                          *)
CacheGet(d) ==
  /\ dpc[d] = "CACHE_GET"
  /\ local[d].key # NoKey
  /\ refused' = refused \cup {local[d].id}
  /\ Finish(d)
  /\ UNCHANGED <<sent, queue, question, cache, denylist, llmReqs, asked, reached>>

(* handle_cache_set: the host names key and value itself.                  *)
CacheSet(d) ==
  /\ dpc[d] = "CACHE_SET"
  /\ local[d].key # NoKey
  /\ cache' = [cache EXCEPT ![local[d].key] =
                 @ \cup {[cmd |-> local[d].cmd, of |-> local[d].key]}]
  /\ refused' = refused \cup {local[d].id}
  /\ Finish(d)
  /\ UNCHANGED <<sent, queue, question, denylist, llmReqs, asked, reached>>

(* agent_dispatch_now: the command is on the deny list.                    *)
Deny(d) ==
  /\ dpc[d] = "CMD"
  /\ local[d].cmd \in denylist
  /\ refused' = refused \cup {local[d].id}
  /\ Finish(d)
  /\ UNCHANGED <<sent, queue, question, cache, denylist, llmReqs, asked, reached>>

(* Mutant: the command is forwarded without asking the deny list.          *)
AllowUnchecked(d) ==
  /\ dpc[d] = "CMD"
  /\ ForwardNext(d, local[d].cmd, "CMD")
  /\ UNCHANGED <<sent, queue, local, key, question, cache, denylist, llmReqs,
                 asked, reached, refused, barred>>

(* agent_dispatch_now: it is not.                                          *)
Allow(d) ==
  /\ dpc[d] = "CMD"
  /\ local[d].cmd \notin denylist
  /\ ForwardNext(d, local[d].cmd, "CMD")
  /\ UNCHANGED <<sent, queue, local, key, question, cache, denylist, llmReqs,
                 asked, reached, refused, barred>>

(* forward_wire_to_agentd: the command reaches agentq ...                  *)
Forward(d) ==
  /\ dpc[d] = "forward"
  /\ reached' = reached \cup {[id |-> out[d].id, cmd |-> out[d].cmd, via |-> out[d].via,
                               barred |-> <<out[d].id, out[d].cmd>> \in barred]}
  /\ Finish(d)
  /\ UNCHANGED <<sent, queue, question, cache, denylist, llmReqs, asked, refused>>

(* ... or agentq is full and it is dropped.                                *)
ForwardDrop(d) ==
  /\ dpc[d] = "forward"
  /\ refused' = refused \cup {out[d].id}
  /\ Finish(d)
  /\ UNCHANGED <<sent, queue, question, cache, denylist, llmReqs, asked, reached>>

-----------------------------------------------------------------------------
(* sys_set_deny, called by a process that is not an agent.                 *)
SetDeny(new) ==
  /\ Admin
  /\ denylist' = new
  /\ barred' = {b \in barred : b[2] \in new}
  /\ UNCHANGED <<sent, queue, handlers, question, cache, llmReqs, asked, reached, refused>>

(* deny_add refuses when the list is full; deny_remove, deny_reset and     *)
(* deny_clear do not fail.                                                 *)
DenyAdd(c)    == c \notin denylist /\ Cardinality(denylist) < DenyMax
                   /\ SetDeny(denylist \cup {c})
DenyRemove(c) == c \in denylist /\ SetDeny(denylist \ {c})
DenyReset     == denylist # DefaultDeny /\ SetDeny(DefaultDeny)
DenyClear     == denylist # {} /\ SetDeny({})

-----------------------------------------------------------------------------
(* agent_dispatch_now, once a process has a line.                          *)
Handling(d) ==
  \/ EmptyArgument(d)
  \/ AskExactMiss(d) \/ AskMiss(d) \/ AskPrint(d)
  \/ \E k \in Prompts : \E e \in cache[k] : AskExactHit(d, e) \/ AskSemanticHit(d, e)
  \/ RespSnapshot(d) \/ RespStore(d)
  \/ CacheGet(d) \/ CacheSet(d)
  \/ Deny(d) \/ Allow(d) \/ Forward(d) \/ ForwardDrop(d)
Handle(d) == Dequeue(d) \/ Handling(d)

Host ==
  \/ \E c \in Commands : HostSend("CMD", NoKey, c)
  \/ \E k \in Keys : HostSend("ASK", k, NoCmd) \/ HostSend("CACHE_GET", k, NoCmd)
  \/ \E k \in Keys, c \in Commands : HostSend("CACHE_SET", k, c)
  \/ \E d \in Drainers :
       \/ \E c \in Commands : SysDispatch(d, "CMD", NoKey, c)
       \/ \E k \in Prompts : SysDispatch(d, "ASK", k, NoCmd)
  \/ \E q \in llmReqs, c \in Commands : HostRespond(q, c)

Next ==
  \/ Host
  \/ \E d \in Drainers : Handle(d)
  \/ \E c \in Commands : DenyAdd(c) \/ DenyRemove(c)
  \/ DenyReset
  \/ DenyClear

Spec == Init /\ [][Next]_vars

(* A process that holds a line runs on.  None owes a drain: agent_drain is *)
(* called at the end of a trap from user space and in consoleread only.    *)
FairSpec == Spec /\ \A d \in Drainers : WF_vars(Handling(d))

-----------------------------------------------------------------------------
(* Types of the queue, the handlers, the pending prompt and the lists.     *)
TypeOK ==
  /\ sent \in 0 .. MaxLines
  /\ queue \in Seq(Line) /\ Len(queue) <= Cap
  /\ dpc \in [Drainers -> Ops \cup {"loop", "semantic", "print", "store", "forward"}]
  /\ local \in [Drainers -> Line \cup {NoLine}]
  /\ out \in [Drainers -> Payload \cup {NoWire}]
  /\ key \in [Drainers -> Keys]
  /\ pending \in Keys
  /\ cache \in [Prompts -> SUBSET Entry]
  /\ denylist \subseteq Commands
  /\ Cardinality(denylist) <= DenyMax
  /\ llmReqs \subseteq Ids \X Prompts
  /\ asked \subseteq Ids
  /\ refused \subseteq Ids
  /\ overlapped \in BOOLEAN
  /\ \A x \in reached : x.id \in Ids /\ x.cmd \in Commands
  /\ \A b \in barred : b[1] \in Ids /\ b[2] \in Commands

(* A command that is on the deny list all the time from its arrival to the *)
(* moment it would be forwarded never reaches the runtime by the command   *)
(* path, whatever edits of the list and drainers run beside it.            *)
DeniedCommandStopped == \A x \in reached : x.via = "CMD" => ~x.barred

(* A response is cached under the prompt it answers, and so what a cache   *)
(* hit replays is an answer to the question asked.                         *)
CachedUnderItsPrompt == \A k \in Prompts : \A e \in cache[k] : e.of = k

(* It holds as long as no question is put while another is open.           *)
CachedUnlessOverlapped == overlapped \/ CachedUnderItsPrompt

(* A line that a process has taken up, from the queue or by sys_dispatch,  *)
(* is served: a command or an answer reaches the runtime, a question does  *)
(* or is put to the host, or the line ends in the kernel (a cache call, a  *)
(* denied or empty one, or agentq is full).  No handler gives up a line on *)
(* the way, whatever the other handlers do to the prompt and the lists.    *)
LineIsServed ==
  \A i \in Ids :
    (\E d \in Drainers : local[d].id = i)
      ~> (i \in asked \cup refused \/ \E x \in reached : x.id = i)
=============================================================================

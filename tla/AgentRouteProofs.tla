--------------------------- MODULE AgentRouteProofs ---------------------------
(***************************************************************************)
(* Proofs about the routing of wire lines in agentcmd.c, for any number of *)
(* drainers, commands, prompts and lines: a command that stays on the deny *)
(* list never reaches the runtime by the command path, and a response is   *)
(* cached under the prompt it answers unless two questions overlapped.     *)
(***************************************************************************)
EXTENDS AgentRoute, FiniteSetTheorems, TLAPS

Labels == Ops \cup {"loop", "semantic", "print", "store", "forward"}

(* The arguments the host and agentd give each operation.                  *)
WellFormed(l) ==
  /\ l.op \in {"CMD", "LLM_RESP", "CACHE_SET"} => l.cmd \in Commands
  /\ l.op = "LLM_RESP" => l.key \in Prompts

-----------------------------------------------------------------------------
(* The inductive invariant, in parts.                                      *)

(* The queue holds well-formed lines that were sent.                       *)
QueueInv == \A n \in DOMAIN queue : WellFormed(queue[n]) /\ queue[n].id <= sent

(* What a handler has in its hands where.                                  *)
Holds(d) ==
  /\ local[d].id <= sent /\ out[d].id <= sent
  /\ dpc[d] \in Ops => local[d] \in Line /\ local[d].op = dpc[d] /\ WellFormed(local[d])
  /\ dpc[d] \in {"semantic", "print"} => local[d] \in Line /\ local[d].key \in Prompts
  /\ dpc[d] = "store" => local[d] \in Line /\ local[d].cmd \in Commands
  /\ dpc[d] = "forward" => out[d] \in Payload
HandlerInv == \A d \in Drainers : Holds(d)

(* Whatever is barred is on the list; what is about to be forwarded by the *)
(* command path was found off the list once, and so is not barred.         *)
BarInv ==
  /\ \A b \in barred : b[1] <= sent /\ b[2] \in denylist
  /\ \A d \in Drainers : dpc[d] = "forward" /\ out[d].via = "CMD" =>
       <<out[d].id, out[d].cmd>> \notin barred

(* While no questions overlapped: every open question is the pending one   *)
(* (or the prompt was taken), and the key copied for a response is its own.*)
OpenInv ==
  ~ overlapped =>
    /\ pending # NoKey =>
         /\ \A q \in llmReqs : q[2] = pending
         /\ \A n \in DOMAIN queue : queue[n].op = "LLM_RESP" => queue[n].key = pending
         /\ \A d \in Drainers : dpc[d] \in {"print", "LLM_RESP"} => local[d].key = pending
    /\ \A d \in Drainers : dpc[d] = "store" => key[d] \in {NoKey, local[d].key}
    /\ CachedUnderItsPrompt

RouteInv == /\ TypeOK /\ IsFiniteSet(denylist) /\ QueueInv /\ HandlerInv /\ BarInv
            /\ DeniedCommandStopped /\ OpenInv

-----------------------------------------------------------------------------
(* What the assumption says of line numbers and keys.                      *)
LEMMA Constants ==
  /\ Ids \subseteq Nat /\ NoKey \notin Prompts /\ Prompts \subseteq Keys /\ Cap \in Nat /\ MaxLines \in Nat
  /\ NoLine.id = 0 /\ NoWire.id = 0
  BY AgentRouteAssumption DEF Ids, Keys, NoLine, NoWire

(* The invariant holds at boot.                                            *)
LEMMA InitInv == Init => RouteInv
<1> SUFFICES ASSUME Init PROVE RouteInv
  OBVIOUS
<1>1. 0 \in 0 .. MaxLines /\ 0 <= Cap /\ Len(<< >>) = 0 /\ << >> \in Seq(Line)
  BY Constants
<1>2. TypeOK /\ IsFiniteSet(denylist)
  BY <1>1, AgentRouteAssumption DEF Init, TypeOK, Keys
<1>3. QueueInv /\ HandlerInv /\ BarInv /\ DeniedCommandStopped
  BY Constants DEF Init, QueueInv, HandlerInv, Holds, BarInv, DeniedCommandStopped, Ops
<1>4. OpenInv
  BY DEF Init, OpenInv, CachedUnderItsPrompt
<1> QED BY <1>2, <1>3, <1>4 DEF RouteInv

(* What the parts of the invariant need of a step of drainer d that leaves *)
(* the queue and the deny list alone.                                      *)
LEMMA DrainerStep ==
  ASSUME RouteInv, NEW d \in Drainers,
         UNCHANGED <<sent, queue, denylist>>, barred' \subseteq barred,
         dpc' \in [Drainers -> Labels], local' \in [Drainers -> Line \cup {NoLine}],
         out' \in [Drainers -> Payload \cup {NoWire}], key' \in [Drainers -> Keys],
         \A c \in Drainers \ {d} : /\ dpc'[c] = dpc[c] /\ local'[c] = local[c]
                                   /\ out'[c] = out[c] /\ key'[c] = key[c],
         Holds(d)',
         dpc'[d] = "forward" /\ out'[d].via = "CMD" => <<out'[d].id, out'[d].cmd>> \notin barred',
         pending' \in Keys, cache' \in [Prompts -> SUBSET Entry], llmReqs' \subseteq Ids \X Prompts,
         asked' \subseteq Ids, refused' \subseteq Ids, overlapped' \in BOOLEAN,
         \A x \in reached' : x.id \in Ids /\ x.cmd \in Commands,
         DeniedCommandStopped', OpenInv'
  PROVE  RouteInv'
<1> USE DEF RouteInv
<1>1. TypeOK'
  BY DEF TypeOK, Labels
<1>2. QueueInv' /\ IsFiniteSet(denylist')
  BY DEF QueueInv
<1>3. HandlerInv'
  BY DEF HandlerInv, Holds
<1>4. BarInv'
  BY DEF BarInv
<1> QED BY <1>1, <1>2, <1>3, <1>4

(* A handler that goes on to forward a payload: a cached answer, a new     *)
(* answer, or a command found off the deny list.                           *)
LEMMA ForwardNextStep ==
  ASSUME RouteInv, NEW d \in Drainers, NEW c \in Commands, NEW via \in {"CMD", "answer"},
         ForwardNext(d, c, via), dpc[d] \in Ops \cup {"semantic", "store"},
         UNCHANGED <<sent, queue, local, key, question, denylist, llmReqs, asked, reached, refused, barred>>,
         via = "CMD" => c \notin denylist,
         cache' \in [Prompts -> SUBSET Entry],
         ~ overlapped /\ CachedUnderItsPrompt => CachedUnderItsPrompt'
  PROVE  RouteInv'
<1> USE DEF RouteInv
<1> DEFINE w == [id |-> local[d].id, cmd |-> c, via |-> via]
<1>1. /\ out' = [out EXCEPT ![d] = w] /\ dpc' = [dpc EXCEPT ![d] = "forward"]
      /\ pending' = pending /\ overlapped' = overlapped
  BY DEF ForwardNext, Goto, question
<1>2. local[d] \in Line /\ local[d].id \in Ids /\ local[d].id <= sent
  BY DEF HandlerInv, Holds, Line
<1>3. w \in Payload /\ w.id = local[d].id /\ w.cmd = c /\ w.via = via
  BY <1>2 DEF Payload
<1> HIDE DEF w
<1>4. /\ dpc' \in [Drainers -> Labels] /\ local' \in [Drainers -> Line \cup {NoLine}]
      /\ out' \in [Drainers -> Payload \cup {NoWire}] /\ key' \in [Drainers -> Keys]
      /\ \A e \in Drainers \ {d} : /\ dpc'[e] = dpc[e] /\ local'[e] = local[e]
                                   /\ out'[e] = out[e] /\ key'[e] = key[e]
      /\ dpc'[d] = "forward" /\ out'[d] = w /\ local'[d] = local[d]
  BY <1>1, <1>3 DEF TypeOK, Labels
<1>5. Holds(d)'
  BY <1>2, <1>3, <1>4 DEF Holds, Ops
<1>6. out'[d].via = "CMD" => <<out'[d].id, out'[d].cmd>> \notin barred'
  <2>1. ASSUME via = "CMD" PROVE <<w.id, w.cmd>> \notin barred
    <3>1. \A b \in barred : b[2] \in denylist
      BY DEF BarInv
    <3> QED BY <2>1, <3>1, <1>3
  <2> QED BY <2>1, <1>3, <1>4
<1>7. /\ pending' \in Keys /\ llmReqs' \subseteq Ids \X Prompts /\ asked' \subseteq Ids
      /\ refused' \subseteq Ids /\ overlapped' \in BOOLEAN
      /\ \A x \in reached' : x.id \in Ids /\ x.cmd \in Commands
  BY <1>1 DEF TypeOK
<1>8. DeniedCommandStopped'
  BY DEF DeniedCommandStopped
<1>9. OpenInv'
  BY <1>1, <1>4 DEF OpenInv
<1> QED BY <1>4, <1>5, <1>6, <1>7, <1>8, <1>9, DrainerStep

(* ASK finds an answer in the cache, exact or similar, and forwards it.    *)
LEMMA HitStep ==
  ASSUME RouteInv, NEW d \in Drainers, NEW k \in Prompts, NEW e \in cache[k],
         AskExactHit(d, e) \/ AskSemanticHit(d, e)
  PROVE  RouteInv'
<1>1. e.cmd \in Commands
  BY DEF RouteInv, TypeOK, Entry
<1>2. /\ ForwardNext(d, e.cmd, "answer") /\ dpc[d] \in Ops \cup {"semantic", "store"}
      /\ UNCHANGED <<sent, queue, local, key, question, cache, denylist, llmReqs, asked, reached, refused, barred>>
  BY DEF AskExactHit, AskSemanticHit, Ops
<1>3. cache' \in [Prompts -> SUBSET Entry] /\ (CachedUnderItsPrompt => CachedUnderItsPrompt')
  BY <1>2 DEF RouteInv, TypeOK, CachedUnderItsPrompt
<1> QED BY <1>1, <1>2, <1>3, ForwardNextStep

(* A command found off the deny list goes on to the runtime.               *)
LEMMA AllowStep ==
  ASSUME RouteInv, NEW d \in Drainers, Allow(d)
  PROVE  RouteInv'
<1>1. /\ ForwardNext(d, local[d].cmd, "CMD") /\ dpc[d] = "CMD" /\ local[d].cmd \notin denylist
      /\ UNCHANGED <<sent, queue, local, key, question, cache, denylist, llmReqs, asked, reached, refused, barred>>
  BY DEF Allow
<1>2. dpc[d] \in Ops /\ local[d].cmd \in Commands
  BY <1>1 DEF RouteInv, HandlerInv, Holds, WellFormed, Ops
<1>3. cache' \in [Prompts -> SUBSET Entry] /\ (CachedUnderItsPrompt => CachedUnderItsPrompt')
  BY <1>1 DEF RouteInv, TypeOK, CachedUnderItsPrompt
<1> QED BY <1>1, <1>2, <1>3, ForwardNextStep

(* The response is stored under the key copied from the pending prompt.    *)
LEMMA StoreStep ==
  ASSUME RouteInv, NEW d \in Drainers, RespStore(d)
  PROVE  RouteInv'
<1>1. /\ ForwardNext(d, local[d].cmd, "answer") /\ dpc[d] = "store"
      /\ UNCHANGED <<sent, queue, local, key, question, denylist, llmReqs, asked, reached, refused, barred>>
  BY DEF RespStore
<1>2. local[d] \in Line /\ local[d].cmd \in Commands /\ local[d].key \in Keys
  BY <1>1 DEF RouteInv, HandlerInv, Holds, Line
<1> DEFINE en == [cmd |-> local[d].cmd, of |-> local[d].key]
<1>3. en \in Entry /\ en.of = local[d].key
  BY <1>2 DEF Entry
<1>4. cache' = IF key[d] = NoKey THEN cache
               ELSE [cache EXCEPT ![key[d]] = cache[key[d]] \cup {en}]
  BY DEF RespStore
<1> HIDE DEF en
<1>5. key[d] \in Prompts \cup {NoKey} /\ cache \in [Prompts -> SUBSET Entry]
  BY DEF RouteInv, TypeOK, Keys
<1>6. cache' \in [Prompts -> SUBSET Entry]
  BY <1>3, <1>4, <1>5
<1>7. ASSUME ~ overlapped, CachedUnderItsPrompt PROVE CachedUnderItsPrompt'
  <2>1. key[d] \in {NoKey, local[d].key}
    BY <1>1, <1>7 DEF RouteInv, OpenInv
  <2>2. ASSUME NEW k \in Prompts, NEW e \in cache'[k] PROVE e.of = k
    <3>1. CASE key[d] # NoKey /\ k = key[d]
      <4>1. cache'[k] = cache[k] \cup {en}
        BY <3>1, <1>4, <1>5
      <4> QED BY <4>1, <3>1, <2>1, <2>2, <1>3, <1>7 DEF CachedUnderItsPrompt
    <3>2. CASE ~ (key[d] # NoKey /\ k = key[d])
      <4>1. cache'[k] = cache[k]
        BY <3>2, <1>4, <1>5
      <4> QED BY <4>1, <2>2, <1>7 DEF CachedUnderItsPrompt
    <3> QED BY <3>1, <3>2
  <2> QED BY <2>2 DEF CachedUnderItsPrompt
<1> QED BY <1>1, <1>2, <1>6, <1>7, ForwardNextStep

(* handle_ask finds no exact hit, and then none at all: the prompt becomes *)
(* the pending one.                                                        *)
LEMMA AskStep ==
  ASSUME RouteInv, NEW d \in Drainers, AskExactMiss(d) \/ AskMiss(d)
  PROVE  RouteInv'
<1> USE DEF RouteInv
<1>1. /\ UNCHANGED <<sent, queue, local, out, key, cache, denylist, llmReqs, asked, reached, refused, barred>>
      /\ dpc[d] \in {"ASK", "semantic"} /\ dpc' = [dpc EXCEPT ![d] = dpc'[d]]
      /\ dpc'[d] \in {"semantic", "print"}
  BY DEF AskExactMiss, AskMiss, Goto, TypeOK
<1>2. local[d] \in Line /\ local[d].key \in Prompts
  BY DEF AskExactMiss, AskMiss, HandlerInv, Holds, Line, Keys, Ops
<1>3. /\ dpc' \in [Drainers -> Labels] /\ local' \in [Drainers -> Line \cup {NoLine}]
      /\ out' \in [Drainers -> Payload \cup {NoWire}] /\ key' \in [Drainers -> Keys]
      /\ \A e \in Drainers \ {d} : /\ dpc'[e] = dpc[e] /\ local'[e] = local[e]
                                   /\ out'[e] = out[e] /\ key'[e] = key[e]
  BY <1>1 DEF TypeOK, Labels
<1>4. Holds(d)'
  BY <1>1, <1>2 DEF HandlerInv, Holds, Ops
<1>5. pending' \in Keys /\ overlapped' \in BOOLEAN
  BY <1>2, Constants DEF AskExactMiss, AskMiss, TypeOK, question, Open
<1>6. /\ cache' \in [Prompts -> SUBSET Entry] /\ llmReqs' \subseteq Ids \X Prompts /\ asked' \subseteq Ids
      /\ refused' \subseteq Ids /\ barred' \subseteq barred
      /\ \A x \in reached' : x.id \in Ids /\ x.cmd \in Commands
  BY <1>1 DEF TypeOK
<1>7. DeniedCommandStopped'
  BY <1>1 DEF DeniedCommandStopped
<1>8. OpenInv'
  <2>1. CASE AskExactMiss(d)
    <3>1. pending' = pending /\ overlapped' = overlapped /\ dpc'[d] = "semantic"
      BY <2>1 DEF AskExactMiss, Goto, question, TypeOK
    <3> QED BY <3>1, <1>1, <1>3 DEF OpenInv, CachedUnderItsPrompt
  <2>2. CASE AskMiss(d) /\ ~ overlapped'
    <3>1. ~ overlapped /\ ~ Open /\ pending' = local[d].key
      BY <2>2 DEF AskMiss
    <3>2. /\ \A q \in llmReqs' : q[2] = pending'
          /\ \A n \in DOMAIN queue' : queue'[n].op = "LLM_RESP" => queue'[n].key = pending'
      BY <1>1, <3>1 DEF Open
    <3>3. \A e \in Drainers : dpc'[e] \in {"print", "LLM_RESP"} => local'[e].key = pending'
      BY <1>1, <1>3, <3>1 DEF Open
    <3>4. \A e \in Drainers : dpc'[e] = "store" => key'[e] \in {NoKey, local'[e].key}
      BY <1>1, <1>3, <3>1 DEF OpenInv
    <3>5. CachedUnderItsPrompt'
      BY <1>1, <3>1 DEF OpenInv, CachedUnderItsPrompt
    <3> QED BY <3>2, <3>3, <3>4, <3>5 DEF OpenInv
  <2>3. CASE overlapped'
    BY <2>3 DEF OpenInv
  <2> QED BY <2>1, <2>2, <2>3
<1>9. dpc'[d] # "forward"
  BY <1>1
<1> QED BY <1>1, <1>3, <1>4, <1>5, <1>6, <1>7, <1>8, <1>9, DrainerStep

(* handle_llm_resp takes the pending prompt.                               *)
LEMMA SnapshotStep ==
  ASSUME RouteInv, NEW d \in Drainers, RespSnapshot(d)
  PROVE  RouteInv'
<1> USE DEF RouteInv
<1>1. /\ dpc[d] = "LLM_RESP" /\ dpc' = [dpc EXCEPT ![d] = "store"] /\ pending' = NoKey
      /\ key' = [key EXCEPT ![d] = IF pending \in LongPrompts THEN NoKey ELSE pending]
      /\ UNCHANGED <<overlapped, sent, queue, local, out, cache, denylist, llmReqs, asked, reached, refused, barred>>
  BY DEF RespSnapshot, Goto
<1>2. local[d] \in Line /\ local[d].cmd \in Commands
  BY <1>1 DEF HandlerInv, Holds, Ops, WellFormed
<1>3. NoKey \in Keys
  BY DEF Keys
<1>4. /\ dpc' \in [Drainers -> Labels] /\ local' \in [Drainers -> Line \cup {NoLine}]
      /\ out' \in [Drainers -> Payload \cup {NoWire}] /\ key' \in [Drainers -> Keys]
      /\ \A e \in Drainers \ {d} : /\ dpc'[e] = dpc[e] /\ local'[e] = local[e]
                                   /\ out'[e] = out[e] /\ key'[e] = key[e]
      /\ dpc'[d] = "store" /\ key'[d] \in {NoKey, pending}
  BY <1>1, <1>3 DEF TypeOK, Labels
<1>5. Holds(d)'
  BY <1>1, <1>2, <1>4 DEF HandlerInv, Holds, Ops
<1>6. /\ cache' \in [Prompts -> SUBSET Entry] /\ llmReqs' \subseteq Ids \X Prompts /\ asked' \subseteq Ids
      /\ refused' \subseteq Ids /\ barred' \subseteq barred /\ pending' \in Keys /\ overlapped' \in BOOLEAN
      /\ \A x \in reached' : x.id \in Ids /\ x.cmd \in Commands
  BY <1>1, <1>3 DEF TypeOK
<1>7. DeniedCommandStopped'
  BY <1>1 DEF DeniedCommandStopped
<1>8. OpenInv'
  <2> SUFFICES ASSUME ~ overlapped
               PROVE  /\ \A e \in Drainers : dpc'[e] = "store" => key'[e] \in {NoKey, local'[e].key}
                      /\ CachedUnderItsPrompt'
    BY <1>1 DEF OpenInv
  <2>1. key'[d] \in {NoKey, local'[d].key}
    BY <1>1, <1>4 DEF OpenInv
  <2>2. \A e \in Drainers : dpc'[e] = "store" => key'[e] \in {NoKey, local'[e].key}
    BY <1>1, <1>4, <2>1 DEF OpenInv
  <2>3. CachedUnderItsPrompt'
    BY <1>1 DEF OpenInv, CachedUnderItsPrompt
  <2> QED BY <2>2, <2>3
<1> QED BY <1>1, <1>4, <1>5, <1>6, <1>7, <1>8, DrainerStep

(* A handler that is done with its line.                                   *)
LEMMA FinishStep ==
  ASSUME RouteInv, NEW d \in Drainers, Finish(d),
         UNCHANGED <<sent, queue, question, denylist>>,
         cache' \in [Prompts -> SUBSET Entry], llmReqs' \subseteq Ids \X Prompts,
         asked' \subseteq Ids, refused' \subseteq Ids,
         \A x \in reached' : x.id \in Ids /\ x.cmd \in Commands,
         DeniedCommandStopped',
         CachedUnderItsPrompt => CachedUnderItsPrompt',
         \A q \in llmReqs' : q \in llmReqs \/ (dpc[d] = "print" /\ q[2] = local[d].key)
  PROVE  RouteInv'
<1> USE DEF RouteInv
<1>1. /\ dpc' = [dpc EXCEPT ![d] = "loop"] /\ local' = [local EXCEPT ![d] = NoLine]
      /\ out' = [out EXCEPT ![d] = NoWire] /\ key' = [key EXCEPT ![d] = NoKey]
      /\ barred' \subseteq barred /\ pending' = pending /\ overlapped' = overlapped
  BY DEF Finish, Goto, question
<1>2. NoKey \in Keys
  BY DEF Keys
<1>3. /\ dpc' \in [Drainers -> Labels] /\ local' \in [Drainers -> Line \cup {NoLine}]
      /\ out' \in [Drainers -> Payload \cup {NoWire}] /\ key' \in [Drainers -> Keys]
      /\ \A e \in Drainers \ {d} : /\ dpc'[e] = dpc[e] /\ local'[e] = local[e]
                                   /\ out'[e] = out[e] /\ key'[e] = key[e]
      /\ dpc'[d] = "loop" /\ local'[d] = NoLine /\ out'[d] = NoWire
  BY <1>1, <1>2 DEF TypeOK, Labels
<1>4. Holds(d)'
  <2>1. 0 <= sent /\ sent' = sent
    BY Constants DEF TypeOK
  <2> QED BY <1>3, <2>1, Constants DEF Holds, Ops
<1>5. pending' \in Keys /\ overlapped' \in BOOLEAN
  BY <1>1 DEF TypeOK
<1>6. OpenInv'
  <2> SUFFICES ASSUME ~ overlapped PROVE OpenInv'
    BY <1>1 DEF OpenInv
  <2>1. CachedUnderItsPrompt' /\ \A e \in Drainers : dpc'[e] = "store" => key'[e] \in {NoKey, local'[e].key}
    BY <1>3 DEF OpenInv
  <2>2. ASSUME pending # NoKey
        PROVE  /\ \A q \in llmReqs' : q[2] = pending
               /\ \A n \in DOMAIN queue : queue[n].op = "LLM_RESP" => queue[n].key = pending
               /\ \A e \in Drainers : dpc'[e] \in {"print", "LLM_RESP"} => local'[e].key = pending
    BY <2>2, <1>3 DEF OpenInv
  <2> QED BY <1>1, <2>1, <2>2 DEF OpenInv
<1>7. dpc'[d] # "forward"
  BY <1>3
<1> QED BY <1>1, <1>3, <1>4, <1>5, <1>6, <1>7, DrainerStep

(* The lines that end in the kernel: refused, denied, or dropped.          *)
LEMMA EndStep ==
  ASSUME RouteInv, NEW d \in Drainers,
         EmptyArgument(d) \/ CacheGet(d) \/ Deny(d) \/ ForwardDrop(d)
  PROVE  RouteInv'
<1>1. /\ Finish(d) /\ UNCHANGED <<sent, queue, question, cache, denylist, llmReqs, asked, reached>>
      /\ dpc[d] \in Ops \cup {"forward"}
      /\ refused' = refused \cup {IF dpc[d] = "forward" THEN out[d].id ELSE local[d].id}
  BY DEF EmptyArgument, CacheGet, Deny, ForwardDrop, Ops
<1>2. (IF dpc[d] = "forward" THEN out[d].id ELSE local[d].id) \in Ids
  BY <1>1 DEF RouteInv, HandlerInv, Holds, Line, Payload
<1>3. /\ cache' \in [Prompts -> SUBSET Entry] /\ llmReqs' \subseteq Ids \X Prompts
      /\ asked' \subseteq Ids /\ refused' \subseteq Ids
      /\ \A x \in reached' : x.id \in Ids /\ x.cmd \in Commands
  BY <1>1, <1>2 DEF RouteInv, TypeOK
<1>4. /\ DeniedCommandStopped' /\ (CachedUnderItsPrompt => CachedUnderItsPrompt')
      /\ \A q \in llmReqs' : q \in llmReqs \/ (dpc[d] = "print" /\ q[2] = local[d].key)
  BY <1>1 DEF RouteInv, DeniedCommandStopped, CachedUnderItsPrompt
<1> QED BY <1>1, <1>3, <1>4, FinishStep

(* ASK that missed prints the request for the host's model.                *)
LEMMA PrintStep ==
  ASSUME RouteInv, NEW d \in Drainers, AskPrint(d)
  PROVE  RouteInv'
<1>1. /\ Finish(d) /\ UNCHANGED <<sent, queue, question, cache, denylist, reached, refused>>
      /\ dpc[d] = "print" /\ asked' = asked \cup {local[d].id}
      /\ llmReqs' = llmReqs \cup {<<local[d].id, local[d].key>>}
  BY DEF AskPrint
<1>2. local[d].id \in Ids /\ local[d].key \in Prompts
  BY <1>1 DEF RouteInv, HandlerInv, Holds, Line
<1>3. /\ cache' \in [Prompts -> SUBSET Entry] /\ llmReqs' \subseteq Ids \X Prompts
      /\ asked' \subseteq Ids /\ refused' \subseteq Ids
      /\ \A x \in reached' : x.id \in Ids /\ x.cmd \in Commands
  BY <1>1, <1>2 DEF RouteInv, TypeOK
<1>4. /\ DeniedCommandStopped' /\ (CachedUnderItsPrompt => CachedUnderItsPrompt')
      /\ \A q \in llmReqs' : q \in llmReqs \/ (dpc[d] = "print" /\ q[2] = local[d].key)
  BY <1>1 DEF RouteInv, DeniedCommandStopped, CachedUnderItsPrompt
<1> QED BY <1>1, <1>3, <1>4, FinishStep

(* CACHE_SET stores an answer under the prompt it names.                   *)
LEMMA CacheSetStep ==
  ASSUME RouteInv, NEW d \in Drainers, CacheSet(d)
  PROVE  RouteInv'
<1> DEFINE en == [cmd |-> local[d].cmd, of |-> local[d].key]
<1>1. /\ Finish(d) /\ UNCHANGED <<sent, queue, question, denylist, llmReqs, asked, reached>>
      /\ dpc[d] = "CACHE_SET" /\ local[d].key # NoKey /\ refused' = refused \cup {local[d].id}
      /\ cache' = [cache EXCEPT ![local[d].key] = cache[local[d].key] \cup {en}]
  BY DEF CacheSet
<1>2. local[d].id \in Ids /\ local[d].key \in Prompts /\ local[d].cmd \in Commands
  BY <1>1 DEF RouteInv, HandlerInv, Holds, Line, Ops, Keys, WellFormed
<1>3. en \in Entry /\ en.of = local[d].key
  BY <1>2, Constants DEF Entry
<1> HIDE DEF en
<1>4. /\ cache' \in [Prompts -> SUBSET Entry] /\ llmReqs' \subseteq Ids \X Prompts
      /\ asked' \subseteq Ids /\ refused' \subseteq Ids
      /\ \A x \in reached' : x.id \in Ids /\ x.cmd \in Commands
  BY <1>1, <1>2, <1>3 DEF RouteInv, TypeOK
<1>5. /\ DeniedCommandStopped'
      /\ \A q \in llmReqs' : q \in llmReqs \/ (dpc[d] = "print" /\ q[2] = local[d].key)
  BY <1>1 DEF RouteInv, DeniedCommandStopped
<1>6. ASSUME CachedUnderItsPrompt PROVE CachedUnderItsPrompt'
  <2>1. \A k \in Prompts : cache'[k] = IF k = local[d].key THEN cache[k] \cup {en} ELSE cache[k]
    BY <1>1, <1>2 DEF RouteInv, TypeOK
  <2> QED BY <2>1, <1>3, <1>6 DEF CachedUnderItsPrompt
<1> QED BY <1>1, <1>4, <1>5, <1>6, FinishStep

(* A command reaches the runtime: by the command path only if not barred.  *)
LEMMA ForwardStep ==
  ASSUME RouteInv, NEW d \in Drainers, Forward(d)
  PROVE  RouteInv'
<1> DEFINE x0 == [id |-> out[d].id, cmd |-> out[d].cmd, via |-> out[d].via,
                  barred |-> <<out[d].id, out[d].cmd>> \in barred]
<1>1. /\ Finish(d) /\ UNCHANGED <<sent, queue, question, cache, denylist, llmReqs, asked, refused>>
      /\ dpc[d] = "forward" /\ reached' = reached \cup {x0}
  BY DEF Forward
<1>2. out[d].id \in Ids /\ out[d].cmd \in Commands
  BY <1>1 DEF RouteInv, HandlerInv, Holds, Payload
<1>3. x0.id = out[d].id /\ x0.cmd = out[d].cmd /\ x0.via = out[d].via
  OBVIOUS
<1>4. x0.via = "CMD" => ~ x0.barred
  <2>1. x0.barred <=> <<out[d].id, out[d].cmd>> \in barred
    OBVIOUS
  <2>2. out[d].via = "CMD" => <<out[d].id, out[d].cmd>> \notin barred
    BY <1>1 DEF RouteInv, BarInv
  <2> HIDE DEF x0
  <2> QED BY <1>3, <2>1, <2>2
<1> HIDE DEF x0
<1>5. /\ cache' \in [Prompts -> SUBSET Entry] /\ llmReqs' \subseteq Ids \X Prompts
      /\ asked' \subseteq Ids /\ refused' \subseteq Ids
      /\ \A x \in reached' : x.id \in Ids /\ x.cmd \in Commands
  BY <1>1, <1>2, <1>3 DEF RouteInv, TypeOK
<1>6. DeniedCommandStopped'
  BY <1>1, <1>4 DEF RouteInv, DeniedCommandStopped
<1>7. /\ CachedUnderItsPrompt => CachedUnderItsPrompt'
      /\ \A q \in llmReqs' : q \in llmReqs \/ (dpc[d] = "print" /\ q[2] = local[d].key)
  BY <1>1 DEF CachedUnderItsPrompt
<1> QED BY <1>1, <1>5, <1>6, <1>7, FinishStep

(* What a queue holds after a line is added or taken.                      *)
LEMMA Appended ==
  ASSUME NEW S, NEW s \in Seq(S), NEW x \in S
  PROVE  /\ Append(s, x) \in Seq(S) /\ Len(Append(s, x)) = Len(s) + 1 /\ Len(s) \in Nat
         /\ \A n \in DOMAIN Append(s, x) : (n \in DOMAIN s /\ Append(s, x)[n] = s[n]) \/ Append(s, x)[n] = x
<1>1. /\ Append(s, x) \in Seq(S) /\ Len(Append(s, x)) = Len(s) + 1 /\ Len(s) \in Nat
      /\ \A n \in 1 .. Len(s) : Append(s, x)[n] = s[n]
      /\ Append(s, x)[Len(s) + 1] = x
      /\ DOMAIN s = 1 .. Len(s) /\ DOMAIN Append(s, x) = 1 .. Len(s) + 1
  OBVIOUS
<1>2. \A n \in 1 .. Len(s) + 1 : n \in 1 .. Len(s) \/ n = Len(s) + 1
  BY <1>1
<1> QED BY <1>1, <1>2

(* What a queue gives when a line is taken, and what it then holds.        *)
LEMMA Taken ==
  ASSUME NEW S, NEW s \in Seq(S), s # << >>
  PROVE  /\ Tail(s) \in Seq(S) /\ Len(Tail(s)) <= Len(s) /\ 1 \in DOMAIN s /\ Head(s) = s[1] /\ Head(s) \in S
         /\ \A n \in DOMAIN Tail(s) : n + 1 \in DOMAIN s /\ Tail(s)[n] = s[n + 1]
<1>1. /\ Tail(s) \in Seq(S) /\ Len(Tail(s)) = Len(s) - 1 /\ Len(s) \in Nat /\ Len(s) >= 1
      /\ \A n \in 1 .. Len(s) - 1 : Tail(s)[n] = s[n + 1]
      /\ DOMAIN s = 1 .. Len(s) /\ DOMAIN Tail(s) = 1 .. Len(s) - 1 /\ Head(s) = s[1]
  OBVIOUS
<1>2. 1 \in 1 .. Len(s) /\ \A n \in 1 .. Len(s) - 1 : n + 1 \in 1 .. Len(s)
  BY <1>1
<1> QED BY <1>1, <1>2

(* agent_dispatch: a line enters the queue, or is dropped at the door.     *)
LEMMA EnqueueStep ==
  ASSUME RouteInv, NEW l \in Line, l.id = sent + 1, WellFormed(l), Enqueue(l),
         llmReqs' \subseteq llmReqs,
         l.op = "LLM_RESP" /\ ~ overlapped /\ pending # NoKey => l.key = pending,
         UNCHANGED <<handlers, question, cache, denylist, asked, reached>>
  PROVE  RouteInv'
<1> USE DEF RouteInv
<1>1. /\ UNCHANGED <<dpc, local, out, key, pending, overlapped, cache, denylist, asked, reached>>
      /\ sent' = sent + 1 /\ sent < MaxLines
      /\ \/ Len(queue) < Cap /\ queue' = Append(queue, l) /\ refused' = refused
         \/ queue' = queue /\ refused' = refused \cup {l.id}
      /\ barred' = barred \/ (l.cmd \in denylist /\ barred' = barred \cup {<<l.id, l.cmd>>})
  BY DEF Enqueue, handlers, question
<1>2. sent \in Nat /\ sent' \in 0 .. MaxLines /\ l.id \in Ids /\ l.id <= sent'
  <2>1. sent \in 0 .. MaxLines
    BY DEF TypeOK
  <2> QED BY <1>1, <2>1, Constants DEF Ids
<1>3. /\ queue' \in Seq(Line) /\ Len(queue') <= Cap
      /\ \A n \in DOMAIN queue' : (n \in DOMAIN queue /\ queue'[n] = queue[n]) \/ queue'[n] = l
  <2>1. queue \in Seq(Line) /\ Len(queue) <= Cap
    BY DEF TypeOK
  <2>2. CASE queue' = queue
    BY <2>1, <2>2
  <2>3. CASE Len(queue) < Cap /\ queue' = Append(queue, l)
    <3>1. /\ Append(queue, l) \in Seq(Line) /\ Len(Append(queue, l)) = Len(queue) + 1 /\ Len(queue) \in Nat
          /\ \A n \in DOMAIN Append(queue, l) :
               (n \in DOMAIN queue /\ Append(queue, l)[n] = queue[n]) \/ Append(queue, l)[n] = l
      BY <2>1, Appended
    <3>2. Len(queue) + 1 <= Cap
      BY <2>3, <3>1, Constants
    <3> QED BY <2>3, <3>1, <3>2
  <2> QED BY <1>1, <2>2, <2>3
<1>4. barred' \subseteq barred \cup {<<l.id, l.cmd>>} /\ \A b \in barred' : b[1] \in Ids /\ b[2] \in Commands
  <2>1. barred' \subseteq barred \cup {<<l.id, l.cmd>>} /\ (barred' # barred => l.cmd \in denylist)
    BY <1>1
  <2> QED BY <1>2, <2>1 DEF TypeOK
<1>5. TypeOK' /\ IsFiniteSet(denylist')
  <2>1. refused' \subseteq Ids /\ llmReqs' \subseteq Ids \X Prompts
    BY <1>1, <1>2 DEF TypeOK
  <2> QED BY <1>1, <1>2, <1>3, <1>4, <2>1 DEF TypeOK
<1>6. \A i \in Ids \cup {0} : i <= sent => i <= sent' /\ i # sent + 1
  BY <1>1, <1>2, Constants
<1>7. QueueInv'
  <2> SUFFICES ASSUME NEW n \in DOMAIN queue' PROVE WellFormed(queue'[n]) /\ queue'[n].id <= sent'
    BY DEF QueueInv, WellFormed
  <2>1. CASE queue'[n] = l
    BY <2>1, <1>2
  <2>2. CASE n \in DOMAIN queue /\ queue'[n] = queue[n]
    <3>1. queue[n].id \in Ids /\ queue[n].id <= sent /\ WellFormed(queue[n])
      <4>1. \A s \in Seq(Line) : \A m \in DOMAIN s : s[m] \in Line
        OBVIOUS
      <4>2. queue[n] \in Line
        BY <2>2, <4>1 DEF TypeOK
      <4> QED BY <2>2, <4>2 DEF QueueInv, Line
    <3> QED BY <2>2, <3>1, <1>6
  <2> QED BY <2>1, <2>2, <1>3
<1>8. \A d \in Drainers : /\ local[d].id \in Ids \cup {0} /\ out[d].id \in Ids \cup {0}
                          /\ local[d].id <= sent /\ out[d].id <= sent
  BY Constants DEF TypeOK, Line, Payload, HandlerInv, Holds
<1>9. HandlerInv'
  BY <1>1, <1>6, <1>8 DEF HandlerInv, Holds, WellFormed
<1>10. BarInv'
  <2>1. ASSUME NEW b \in barred' PROVE b[1] <= sent' /\ b[2] \in denylist'
    <3>1. CASE b \in barred
      BY <3>1, <1>1, <1>6 DEF BarInv, TypeOK
    <3>2. CASE b \notin barred
      BY <3>2, <2>1, <1>1, <1>2
    <3> QED BY <3>1, <3>2
  <2>2. ASSUME NEW d \in Drainers, dpc[d] = "forward", out[d].via = "CMD"
        PROVE  <<out[d].id, out[d].cmd>> \notin barred'
    <3>1. <<out[d].id, out[d].cmd>> \notin barred
      BY <2>2 DEF BarInv
    <3>2. out[d].id # l.id
      BY <1>6, <1>8
    <3> QED BY <3>1, <3>2, <1>4
  <2> QED BY <1>1, <2>1, <2>2 DEF BarInv
<1>11. DeniedCommandStopped'
  BY <1>1 DEF DeniedCommandStopped
<1>12. OpenInv'
  <2> SUFFICES ASSUME ~ overlapped PROVE OpenInv'
    BY <1>1 DEF OpenInv
  <2>1. CachedUnderItsPrompt' /\ \A e \in Drainers : dpc'[e] = "store" => key'[e] \in {NoKey, local'[e].key}
    BY <1>1 DEF OpenInv, CachedUnderItsPrompt
  <2>2. ASSUME pending # NoKey
        PROVE  /\ \A q \in llmReqs' : q[2] = pending
               /\ \A n \in DOMAIN queue' : queue'[n].op = "LLM_RESP" => queue'[n].key = pending
               /\ \A e \in Drainers : dpc'[e] \in {"print", "LLM_RESP"} => local'[e].key = pending
    BY <2>2, <1>1, <1>3 DEF OpenInv
  <2> QED BY <1>1, <2>1, <2>2 DEF OpenInv
<1> QED BY <1>5, <1>7, <1>9, <1>10, <1>11, <1>12

(* The host sends a line.                                                  *)
LEMMA SendStep ==
  ASSUME RouteInv, NEW op \in {"CMD", "ASK", "CACHE_GET", "CACHE_SET"}, NEW k \in Keys, NEW c \in Commands \cup {NoCmd},
         op \in {"CMD", "CACHE_SET"} => c \in Commands, HostSend(op, k, c)
  PROVE  RouteInv'
<1> DEFINE l == [id |-> sent + 1, op |-> op, key |-> k, cmd |-> c]
<1>1. Enqueue(l) /\ UNCHANGED <<handlers, question, cache, denylist, llmReqs, asked, reached>>
  BY DEF HostSend
<1>2. sent + 1 \in Ids
  <2>1. sent \in 0 .. MaxLines /\ sent < MaxLines
    BY <1>1 DEF RouteInv, TypeOK, Enqueue
  <2> QED BY <2>1, Constants DEF Ids
<1>3. l \in Line /\ l.id = sent + 1 /\ l.op = op /\ l.op # "LLM_RESP" /\ WellFormed(l)
  BY <1>2 DEF Line, Ops, WellFormed
<1> HIDE DEF l
<1> QED BY <1>1, <1>3, EnqueueStep

(* The host answers an open question.                                      *)
LEMMA RespondStep ==
  ASSUME RouteInv, NEW q \in llmReqs, NEW c \in Commands, HostRespond(q, c)
  PROVE  RouteInv'
<1> DEFINE l == [id |-> sent + 1, op |-> "LLM_RESP", key |-> q[2], cmd |-> c]
<1>1. Enqueue(l) /\ llmReqs' \subseteq llmReqs /\ UNCHANGED <<handlers, question, cache, denylist, asked, reached>>
  BY DEF HostRespond
<1>2. sent + 1 \in Ids
  <2>1. sent \in 0 .. MaxLines /\ sent < MaxLines
    BY <1>1 DEF RouteInv, TypeOK, Enqueue
  <2> QED BY <2>1, Constants DEF Ids
<1>3. q[2] \in Prompts
  BY DEF RouteInv, TypeOK
<1>4. l \in Line /\ l.id = sent + 1 /\ l.key = q[2] /\ WellFormed(l)
  BY <1>2, <1>3 DEF Line, Ops, WellFormed, Keys
<1>5. ~ overlapped /\ pending # NoKey => q[2] = pending
  BY DEF RouteInv, OpenInv
<1> HIDE DEF l
<1> QED BY <1>1, <1>4, <1>5, EnqueueStep

(* sys_dispatch: a process routes a line of its own.                       *)
LEMMA DispatchStep ==
  ASSUME RouteInv, NEW d \in Drainers, NEW op \in {"CMD", "ASK"}, NEW k \in Keys, NEW c \in Commands \cup {NoCmd},
         op = "CMD" => c \in Commands, SysDispatch(d, op, k, c)
  PROVE  RouteInv'
<1> USE DEF RouteInv
<1> DEFINE l == [id |-> sent + 1, op |-> op, key |-> k, cmd |-> c]
<1>1. /\ dpc[d] = "loop" /\ sent < MaxLines /\ sent' = sent + 1
      /\ local' = [local EXCEPT ![d] = l] /\ dpc' = [dpc EXCEPT ![d] = op]
      /\ UNCHANGED <<queue, out, key, pending, overlapped, cache, denylist, llmReqs, asked, reached, refused>>
      /\ barred' = barred \/ (c \in denylist /\ barred' = barred \cup {<<sent + 1, c>>})
  BY DEF SysDispatch, Goto, question
<1>2. sent \in Nat /\ sent' \in 0 .. MaxLines /\ sent + 1 \in Ids /\ sent + 1 <= sent'
  <2>1. sent \in 0 .. MaxLines
    BY DEF TypeOK
  <2> QED BY <1>1, <2>1, Constants DEF Ids
<1>3. l \in Line /\ l.id = sent + 1 /\ l.op = op /\ WellFormed(l)
  BY <1>2 DEF Line, Ops, WellFormed
<1> HIDE DEF l
<1>4. /\ \A e \in Drainers : local'[e] = IF e = d THEN l ELSE local[e]
      /\ \A e \in Drainers : dpc'[e] = IF e = d THEN op ELSE dpc[e]
  BY <1>1 DEF TypeOK
<1>5. barred' \subseteq barred \cup {<<sent + 1, c>>} /\ (barred' # barred => c \in denylist)
  BY <1>1
<1>6. TypeOK' /\ IsFiniteSet(denylist')
  <2>1. /\ dpc' \in [Drainers -> Ops \cup {"loop", "semantic", "print", "store", "forward"}]
        /\ local' \in [Drainers -> Line \cup {NoLine}]
    BY <1>1, <1>3 DEF TypeOK, Ops
  <2>2. \A b \in barred' : b[1] \in Ids /\ b[2] \in Commands
    BY <1>2, <1>5 DEF TypeOK
  <2> QED BY <1>1, <1>2, <2>1, <2>2 DEF TypeOK
<1>7. \A i \in Ids \cup {0} : i <= sent => i <= sent' /\ i # sent + 1
  BY <1>1, <1>2, Constants
<1>8. QueueInv'
  <2> SUFFICES ASSUME NEW n \in DOMAIN queue PROVE WellFormed(queue[n]) /\ queue[n].id <= sent'
    BY <1>1 DEF QueueInv, WellFormed
  <2>1. \A s \in Seq(Line) : \A m \in DOMAIN s : s[m] \in Line
    OBVIOUS
  <2>2. queue[n].id \in Ids
    BY <2>1 DEF TypeOK, Line
  <2> QED BY <2>2, <1>7 DEF QueueInv
<1>9. \A e \in Drainers : /\ local[e].id \in Ids \cup {0} /\ out[e].id \in Ids \cup {0}
                          /\ local[e].id <= sent /\ out[e].id <= sent
  BY Constants DEF TypeOK, Line, Payload, HandlerInv, Holds
<1>10. HandlerInv'
  <2> SUFFICES ASSUME NEW e \in Drainers PROVE Holds(e)'
    BY DEF HandlerInv
  <2>1. CASE e = d
    BY <2>1, <1>1, <1>2, <1>3, <1>4, <1>7, <1>9 DEF Holds, WellFormed
  <2>2. CASE e # d
    BY <2>2, <1>1, <1>4, <1>7, <1>9 DEF HandlerInv, Holds, WellFormed
  <2> QED BY <2>1, <2>2
<1>11. BarInv'
  <2>1. ASSUME NEW b \in barred' PROVE b[1] <= sent' /\ b[2] \in denylist'
    <3>1. CASE b \in barred
      BY <3>1, <1>1, <1>7 DEF BarInv, TypeOK
    <3>2. CASE b \notin barred
      BY <3>2, <2>1, <1>1, <1>2, <1>5
    <3> QED BY <3>1, <3>2
  <2>2. ASSUME NEW e \in Drainers, dpc'[e] = "forward", out[e].via = "CMD"
        PROVE  <<out[e].id, out[e].cmd>> \notin barred'
    <3>1. <<out[e].id, out[e].cmd>> \notin barred
      BY <2>2, <1>4 DEF BarInv
    <3>2. out[e].id # sent + 1
      BY <1>7, <1>9
    <3> QED BY <3>1, <3>2, <1>5
  <2> QED BY <1>1, <2>1, <2>2 DEF BarInv
<1>12. DeniedCommandStopped'
  BY <1>1 DEF DeniedCommandStopped
<1>13. OpenInv'
  BY <1>1, <1>4 DEF OpenInv, CachedUnderItsPrompt
<1> QED BY <1>6, <1>8, <1>10, <1>11, <1>12, <1>13

(* agent_drain_locked takes the oldest line.                               *)
LEMMA DequeueStep ==
  ASSUME RouteInv, NEW d \in Drainers, Dequeue(d)
  PROVE  RouteInv'
<1> USE DEF RouteInv
<1>1. PICK l \in Line : l = Head(queue) /\ WellFormed(l) /\ l.id <= sent /\ l = queue[1] /\ 1 \in DOMAIN queue
  BY Taken DEF Dequeue, TypeOK, QueueInv
<1>2. /\ dpc[d] = "loop" /\ queue # << >> /\ queue' = Tail(queue)
      /\ local' = [local EXCEPT ![d] = l] /\ dpc' = [dpc EXCEPT ![d] = l.op]
      /\ UNCHANGED <<sent, out, key, pending, overlapped, cache, denylist, llmReqs, asked, reached, refused, barred>>
  BY <1>1 DEF Dequeue, Goto, question
<1>3. /\ Tail(queue) \in Seq(Line) /\ Len(Tail(queue)) <= Len(queue)
      /\ \A n \in DOMAIN Tail(queue) : n + 1 \in DOMAIN queue /\ Tail(queue)[n] = queue[n + 1]
  BY <1>2, Taken DEF TypeOK
<1>4. /\ \A e \in Drainers : local'[e] = IF e = d THEN l ELSE local[e]
      /\ \A e \in Drainers : dpc'[e] = IF e = d THEN l.op ELSE dpc[e]
      /\ l.op \in Ops
  BY <1>1, <1>2 DEF TypeOK, Line
<1>5. TypeOK' /\ IsFiniteSet(denylist')
  <2>1. /\ dpc' \in [Drainers -> Ops \cup {"loop", "semantic", "print", "store", "forward"}]
        /\ local' \in [Drainers -> Line \cup {NoLine}]
    BY <1>1, <1>2, <1>4 DEF TypeOK
  <2>2. Len(Tail(queue)) <= Cap
    <3>1. Len(Tail(queue)) \in Nat /\ Len(queue) \in Nat /\ Len(queue) <= Cap
      BY <1>3 DEF TypeOK
    <3> QED BY <3>1, <1>3, Constants
  <2> QED BY <1>2, <1>3, <2>1, <2>2 DEF TypeOK
<1>6. QueueInv'
  BY <1>2, <1>3 DEF QueueInv, WellFormed
<1>7. HandlerInv'
  <2> SUFFICES ASSUME NEW e \in Drainers PROVE Holds(e)'
    BY DEF HandlerInv
  <2>1. CASE e = d
    BY <2>1, <1>1, <1>2, <1>4 DEF HandlerInv, Holds, WellFormed, Ops
  <2>2. CASE e # d
    BY <2>2, <1>2, <1>4 DEF HandlerInv, Holds, WellFormed
  <2> QED BY <2>1, <2>2
<1>8. BarInv'
  BY <1>2, <1>4 DEF BarInv, Ops
<1>9. DeniedCommandStopped'
  BY <1>2 DEF DeniedCommandStopped
<1>10. OpenInv'
  <2> SUFFICES ASSUME ~ overlapped PROVE OpenInv'
    BY <1>2 DEF OpenInv
  <2>1. CachedUnderItsPrompt' /\ \A e \in Drainers : dpc'[e] = "store" => key'[e] \in {NoKey, local'[e].key}
    BY <1>2, <1>4 DEF OpenInv, CachedUnderItsPrompt, Ops
  <2>2. ASSUME pending # NoKey
        PROVE  /\ \A q \in llmReqs' : q[2] = pending
               /\ \A n \in DOMAIN queue' : queue'[n].op = "LLM_RESP" => queue'[n].key = pending
               /\ \A e \in Drainers : dpc'[e] \in {"print", "LLM_RESP"} => local'[e].key = pending
    <3>1. /\ \A q \in llmReqs : q[2] = pending
          /\ \A n \in DOMAIN queue : queue[n].op = "LLM_RESP" => queue[n].key = pending
          /\ \A e \in Drainers : dpc[e] \in {"print", "LLM_RESP"} => local[e].key = pending
      BY <2>2 DEF OpenInv
    <3>2. \A n \in DOMAIN queue' : queue'[n].op = "LLM_RESP" => queue'[n].key = pending
      BY <3>1, <1>2, <1>3
    <3>3. \A e \in Drainers : dpc'[e] \in {"print", "LLM_RESP"} => local'[e].key = pending
      <4>1. l.op \in {"print", "LLM_RESP"} => l.key = pending
        BY <3>1, <1>1, <1>4 DEF Ops
      <4> QED BY <4>1, <3>1, <1>4
    <3> QED BY <3>1, <3>2, <3>3, <1>2
  <2> QED BY <1>2, <2>1, <2>2 DEF OpenInv
<1> QED BY <1>5, <1>6, <1>7, <1>8, <1>9, <1>10

(* sys_set_deny: the list stays within DENY_MAX.                           *)
LEMMA DenyStep ==
  ASSUME RouteInv, NEW new \in SUBSET Commands, IsFiniteSet(new), Cardinality(new) <= DenyMax, SetDeny(new)
  PROVE  RouteInv'
<1> USE DEF RouteInv
<1>1. /\ denylist' = new /\ barred' = {b \in barred : b[2] \in new}
      /\ UNCHANGED <<sent, queue, dpc, local, out, key, pending, overlapped, cache, llmReqs, asked, reached, refused>>
  BY DEF SetDeny, handlers, question
<1>2. TypeOK' /\ IsFiniteSet(denylist')
  BY <1>1 DEF TypeOK
<1>3. QueueInv' /\ HandlerInv' /\ BarInv'
  BY <1>1 DEF QueueInv, HandlerInv, Holds, BarInv, WellFormed
<1>4. DeniedCommandStopped' /\ OpenInv'
  BY <1>1 DEF DeniedCommandStopped, OpenInv, CachedUnderItsPrompt
<1> QED BY <1>2, <1>3, <1>4

(* set_deny adds, removes, resets or clears.                               *)
LEMMA EditStep ==
  ASSUME RouteInv, (\E c \in Commands : DenyAdd(c) \/ DenyRemove(c)) \/ DenyReset \/ DenyClear
  PROVE  RouteInv'
<1>1. /\ denylist \subseteq Commands /\ IsFiniteSet(denylist) /\ Cardinality(denylist) <= DenyMax
      /\ Cardinality(denylist) \in Nat /\ DenyMax \in Nat
  BY AgentRouteAssumption, FS_CardinalityType DEF RouteInv, TypeOK
<1>2. ASSUME NEW c \in Commands, DenyAdd(c) PROVE RouteInv'
  <2>1. IsFiniteSet(denylist \cup {c}) /\ Cardinality(denylist \cup {c}) = Cardinality(denylist) + 1
    BY <1>1, <1>2, FS_AddElement DEF DenyAdd
  <2>2. Cardinality(denylist \cup {c}) <= DenyMax
    BY <1>1, <1>2, <2>1 DEF DenyAdd
  <2> QED BY <1>1, <1>2, <2>1, <2>2, DenyStep DEF DenyAdd
<1>3. ASSUME NEW c \in Commands, DenyRemove(c) PROVE RouteInv'
  <2>1. /\ IsFiniteSet(denylist \ {c}) /\ Cardinality(denylist \ {c}) = Cardinality(denylist) - 1
    BY <1>1, <1>3, FS_RemoveElement DEF DenyRemove
  <2>2. Cardinality(denylist \ {c}) <= DenyMax
    BY <1>1, <2>1
  <2> QED BY <1>1, <1>3, <2>1, <2>2, DenyStep DEF DenyRemove
<1>4. CASE DenyReset
  BY <1>4, AgentRouteAssumption, DenyStep DEF DenyReset
<1>5. CASE DenyClear
  <2>1. IsFiniteSet({}) /\ Cardinality({}) <= DenyMax
    BY <1>1, FS_EmptySet
  <2> QED BY <1>5, <2>1, DenyStep DEF DenyClear
<1> QED BY <1>2, <1>3, <1>4, <1>5

(* Every step keeps the invariant.                                         *)
LEMMA StepInv == RouteInv /\ [Next]_vars => RouteInv'
<1> SUFFICES ASSUME RouteInv, [Next]_vars PROVE RouteInv'
  OBVIOUS
<1>1. CASE Host
  <2>1. NoKey \in Keys /\ NoCmd \in Commands \cup {NoCmd} /\ Prompts \subseteq Keys
    BY DEF Keys
  <2>2. ASSUME NEW c \in Commands, HostSend("CMD", NoKey, c) PROVE RouteInv'
    BY <2>1, <2>2, SendStep
  <2>3. ASSUME NEW k \in Keys, HostSend("ASK", k, NoCmd) \/ HostSend("CACHE_GET", k, NoCmd) PROVE RouteInv'
    BY <2>1, <2>3, SendStep
  <2>4. ASSUME NEW k \in Keys, NEW c \in Commands, HostSend("CACHE_SET", k, c) PROVE RouteInv'
    BY <2>4, SendStep
  <2>5. ASSUME NEW d \in Drainers, NEW c \in Commands, SysDispatch(d, "CMD", NoKey, c) PROVE RouteInv'
    BY <2>1, <2>5, DispatchStep
  <2>6. ASSUME NEW d \in Drainers, NEW k \in Prompts, SysDispatch(d, "ASK", k, NoCmd) PROVE RouteInv'
    BY <2>1, <2>6, DispatchStep
  <2>7. ASSUME NEW q \in llmReqs, NEW c \in Commands, HostRespond(q, c) PROVE RouteInv'
    BY <2>7, RespondStep
  <2> QED BY <1>1, <2>2, <2>3, <2>4, <2>5, <2>6, <2>7 DEF Host
<1>2. ASSUME NEW d \in Drainers, Handle(d) PROVE RouteInv'
  <2>1. CASE Dequeue(d)
    BY <2>1, DequeueStep
  <2>2. CASE EmptyArgument(d) \/ CacheGet(d) \/ Deny(d) \/ ForwardDrop(d)
    BY <2>2, EndStep
  <2>3. CASE AskExactMiss(d) \/ AskMiss(d)
    BY <2>3, AskStep
  <2>4. CASE AskPrint(d)
    BY <2>4, PrintStep
  <2>5. ASSUME NEW k \in Prompts, NEW e \in cache[k], AskExactHit(d, e) \/ AskSemanticHit(d, e) PROVE RouteInv'
    BY <2>5, HitStep
  <2>6. CASE RespSnapshot(d)
    BY <2>6, SnapshotStep
  <2>7. CASE RespStore(d)
    BY <2>7, StoreStep
  <2>8. CASE CacheSet(d)
    BY <2>8, CacheSetStep
  <2>9. CASE Allow(d)
    BY <2>9, AllowStep
  <2>10. CASE Forward(d)
    BY <2>10, ForwardStep
  <2> QED BY <1>2, <2>1, <2>2, <2>3, <2>4, <2>5, <2>6, <2>7, <2>8, <2>9, <2>10 DEF Handle, Handling
<1>3. CASE (\E c \in Commands : DenyAdd(c) \/ DenyRemove(c)) \/ DenyReset \/ DenyClear
  BY <1>3, EditStep
<1>4. CASE UNCHANGED vars
  <2>1. UNCHANGED <<sent, queue, dpc, local, out, key, pending, cache, denylist, llmReqs, asked, reached,
                    refused, overlapped, barred>>
    BY <1>4 DEF vars, handlers
  <2>2. TypeOK' /\ IsFiniteSet(denylist')
    BY <2>1 DEF RouteInv, TypeOK
  <2>3. QueueInv' /\ HandlerInv' /\ BarInv'
    BY <2>1 DEF RouteInv, QueueInv, HandlerInv, Holds, BarInv, WellFormed
  <2>4. DeniedCommandStopped' /\ OpenInv'
    BY <2>1 DEF RouteInv, DeniedCommandStopped, OpenInv, CachedUnderItsPrompt
  <2> QED BY <2>2, <2>3, <2>4 DEF RouteInv
<1> QED BY <1>1, <1>2, <1>3, <1>4 DEF Next

(* Every reachable state satisfies the invariant.                          *)
LEMMA Invariance == Spec => []RouteInv
<1>1. Init => RouteInv
  BY InitInv
<1>2. RouteInv /\ [Next]_vars => RouteInv'
  BY StepInv
<1> QED BY <1>1, <1>2, PTL DEF Spec

-----------------------------------------------------------------------------
(* agentcmd.c keeps its types: the queue, what each handler holds, the     *)
(* pending prompt, and a deny list that never grows beyond DENY_MAX.       *)
THEOREM TypeCorrect == Spec => []TypeOK
<1>1. RouteInv => TypeOK
  BY DEF RouteInv
<1> QED BY <1>1, Invariance, PTL

(* A command on the deny list all the time from its arrival to the moment  *)
(* agent_dispatch_now would forward it never reaches the runtime by the    *)
(* command path, whoever else drains, dispatches or edits the list.        *)
THEOREM DenyCorrect == Spec => []DeniedCommandStopped
<1>1. RouteInv => DeniedCommandStopped
  BY DEF RouteInv
<1> QED BY <1>1, Invariance, PTL

(* handle_llm_resp caches a response under the prompt it answers, as long  *)
(* as no question was put to the host while another was open: the single   *)
(* pending prompt is enough for questions that do not overlap.             *)
THEOREM PendingCorrect == Spec => []CachedUnlessOverlapped
<1>1. RouteInv => CachedUnlessOverlapped
  BY DEF RouteInv, OpenInv, CachedUnlessOverlapped
<1> QED BY <1>1, Invariance, PTL

=============================================================================

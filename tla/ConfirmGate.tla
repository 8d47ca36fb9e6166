----------------------------- MODULE ConfirmGate -----------------------------
(***************************************************************************)
(* What confirm-escape promises to the rest of the kernel, without locks,  *)
(* sleeping, clocks or wires: one call at a time stands at the gate; it is *)
(* turned away at any moment, or let through by spending a y that the host *)
(* user has given to a prompt of the calling process.                      *)
(***************************************************************************)
CONSTANTS Pids, NoPid, Numbers

VARIABLES
  gated,   \* the process at the gate, or NoPid
  given,   \* the prompts <<pid, n>> the user has answered y
  spent    \* those whose y has been used

gateVars == <<gated, given, spent>>

Init == gated = NoPid /\ given = {} /\ spent = {}

Ask(p) ==
  /\ gated = NoPid
  /\ gated' = p
  /\ UNCHANGED <<given, spent>>

TurnAway ==
  /\ gated # NoPid
  /\ gated' = NoPid
  /\ UNCHANGED <<given, spent>>

SayYes(p, n) ==
  /\ given' = given \cup {<<p, n>>}
  /\ UNCHANGED <<gated, spent>>

LetThrough(n) ==
  /\ gated # NoPid
  /\ <<gated, n>> \in given \ spent
  /\ spent' = spent \cup {<<gated, n>>}
  /\ gated' = NoPid
  /\ UNCHANGED given

Next ==
  \/ \E p \in Pids : Ask(p)
  \/ TurnAway
  \/ \E p \in Pids, n \in Numbers : SayYes(p, n)
  \/ \E n \in Numbers : LetThrough(n)

Spec == Init /\ [][Next]_gateVars
=============================================================================

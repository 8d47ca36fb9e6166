----------------------------- MODULE MCAgentRoute -----------------------------
(* Two prompts, one chatty and one side-effect command, up to two drainers. *)
EXTENDS AgentRoute
MCDrainers    == {"d1", "d2"}
MCCommands    == {"CHAT", "KILL"}
MCChatty      == {"CHAT"}
MCPrompts     == {"p", "q"}
MCDefaultDeny == {"KILL"}
MCLong        == {}
MCOneLong     == {"q"}
=============================================================================

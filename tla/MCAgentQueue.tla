----------------------------- MODULE MCAgentQueue -----------------------------
(* Rings of two usable slots each, so that four lines wrap both around and *)
(* overflow both.                                                          *)
EXTENDS AgentQueue
TwoDrainers == {"d1", "d2"}
=============================================================================

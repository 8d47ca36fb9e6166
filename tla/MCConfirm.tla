------------------------------ MODULE MCConfirm ------------------------------
(* Two agents, two gated calls each, two contexts that deliver replies.    *)
EXTENDS Confirm
MCAgents   == {1, 2}
MCHandlers == {"irq", "drain"}
=============================================================================

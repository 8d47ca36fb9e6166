------------------------------- MODULE MCCache -------------------------------
(* Two slots and three keys, so that sets evict; two of the keys are       *)
(* similar.  The jailed caller and the free one have a file each.          *)
EXTENDS Cache
TwoProcs  == {"p1", "p2"}
MCKeys    == {"a", "b", "c"}
MCSigned  == {"a", "b"}
MCScore   == [k \in MCKeys |-> [m \in MCKeys |-> IF {k, m} \subseteq MCSigned
                                                 THEN 2 ELSE 0]]
SplitRoots == [p \in {"p1", "p2"} |-> IF p = "p1" THEN "/" ELSE "/agentbox"]
=============================================================================

------------------------------- MODULE MCSched -------------------------------
(* Two interchangeable harts; two nice values, the weaker charged twice as *)
(* much as the stronger; a bonus of one stronger tick.                     *)
EXTENDS Sched, TLC
MCPriorities == {-5, 10}
MCInit       == -5
MCVDelta     == [i \in MCPriorities |-> IF i < 0 THEN 1 ELSE 2]
Harts        == Permutations(CPU)
=============================================================================

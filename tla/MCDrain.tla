------------------------------ MODULE MCDrain -------------------------------
(* An instance of Drain for TLC: two drains and an uncordon of one node, and *)
(* two pods that can be evicted.                                            *)
EXTENDS Drain

CONSTANTS n, p1, p2, d1, d2, u

MCNode == {n}
MCPod == {p1, p2}
MCDrains == {d1, d2}
MCUncordons == {u}
MCNodeOf == [h \in Handler |-> n]
=============================================================================

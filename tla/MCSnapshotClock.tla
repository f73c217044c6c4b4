-------------------------- MODULE MCSnapshotClock --------------------------
(* Instances of SnapshotClock for TLC. *)
EXTENDS SnapshotClock

CONSTANTS c1, c2, c3, l1, l2, l3, p1

MCCommitters == {c1, c2, c3}
MCLeases == {l1, l2, l3}
MCPruners == {p1}


Symmetry == Permutations(MCCommitters) \cup Permutations(MCLeases)

=============================================================================

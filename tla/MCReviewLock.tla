---------------------------- MODULE MCReviewLock ----------------------------
(* Instances of ReviewLock for TLC: each run has a process of its own. *)
EXTENDS ReviewLock, TLC

CONSTANTS r1, r2, r3, m1

ThreeRuns == {r1, r2, r3}
TwoRuns == {r1, r2}
MCPid == [r \in Runs |-> r]

Symmetry == Permutations(Runs)

=============================================================================

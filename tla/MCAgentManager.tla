--------------------------- MODULE MCAgentManager ---------------------------
(* An instance of AgentManager for TLC: a batch of two agents and one of one. *)
EXTENDS AgentManager, TLC

CONSTANTS a1, a2, b1, s1, s2, A, B,
          MaxQueue    \* bound: payloads a forwarder has not read

MCBatchOf == (a1 :> A) @@ (a2 :> A) @@ (b1 :> B)

\* Either one session, or no task that was aborted in the middle of a poll and no
\* step after a wait has found that no agent remains.
Explored ==
    /\ \A s \in Sessions : Len(queue[s]) <= MaxQueue
    /\ \/ \E s \in Sessions : place[s] = "unused"
       \/ aborted = {} /\ told = {}

Symmetry == Permutations({a1, a2}) \union Permutations(Sessions)

=============================================================================

---------------------------- MODULE MCTurnRetry ----------------------------
(* Instances of TurnRetry for TLC. *)
EXTENDS TurnRetry, TLC

CONSTANTS w1, w3, a1, a2, a3

MCWorks == {w1, w3}
MCCustom == {w3}
MCAccounts == {a1, a2, a3}
MCChatGpt == {a1, a2}

AllFailures == FailureKinds

=============================================================================

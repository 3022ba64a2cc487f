---------------------------- MODULE MCReadiness ----------------------------
(* Instances of Readiness for TLC: two callers and two waiters.            *)
EXTENDS Readiness, TLC
CONSTANTS c1, c2, w1, w2
MCCallers == {c1, c2}
MCWaiters == {w1, w2}
=============================================================================

------------------------------ MODULE MCAutoDrive ------------------------------
(* Auto Drive on a small instance.  The bounds are on what the code lets grow.   *)
(* Past the first step that the handlers have no defence against, the first      *)
(* launch is explored in full, a later one to its first countdown and with       *)
(* little under way at a time.                                                   *)
EXTENDS AutoDrive

CONSTANTS
    MaxLaunches,      \* launches, the automatic ones included
    MaxSeq,           \* decisions of one coordinator after its seed
    MaxAttempts,      \* transient failures in a row
    MaxCountdowns,    \* countdown ids of one launch
    MaxTimers,        \* countdown threads, and restart timers, at a time
    MaxTurns,         \* turns of the session, waiting ones included
    MaxEvents,        \* events the TUI has not handled
    MaxQueue          \* commands, conversations and cancelled threads

Bounded ==
    /\ launch <= MaxLaunches /\ countdown <= MaxCountdowns /\ attempts <= MaxAttempts
    /\ Cardinality(timers) <= MaxTimers /\ Cardinality(restarts) <= MaxTimers
    /\ coord.seq <= MaxSeq /\ coord.convs <= MaxQueue /\ Len(cmds) <= MaxQueue
    /\ Cardinality(late) <= MaxQueue
    /\ Len(events) <= MaxEvents /\ Len(turns) <= MaxTurns

Quiet ==
    /\ countdown <= 1 /\ Cardinality(late) + Len(turns) + Len(events) <= 1
    /\ Cardinality(timers) + Cardinality(restarts) <= 2

Explored == Bounded /\ (disturbed => launch = 1 \/ Quiet)

=============================================================================

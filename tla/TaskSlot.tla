------------------------------ MODULE TaskSlot ------------------------------
(***************************************************************************)
(* What current_task promises, whatever runs in it: a session holds one    *)
(* task at a time, a task holds one slot once, and a task is stopped only  *)
(* as it leaves its slot, by whoever takes it out.                         *)
(***************************************************************************)
CONSTANTS Tasks, Sessions, None

VARIABLES slot,     \* the task each session holds
          past,     \* the tasks that have left their slot
          stopped   \* the tasks that were stopped

vars == <<slot, past, stopped>>

Init ==
  /\ slot = [s \in Sessions |-> None]
  /\ past = {} /\ stopped = {}

Holders == {slot[s] : s \in Sessions} \ {None}

\* The holder leaves: of its own accord, or stopped.
Vacate(s) ==
  /\ past' = past \cup ({slot[s]} \ {None})
  /\ \/ stopped' = stopped
     \/ slot[s] # None /\ stopped' = stopped \cup {slot[s]}

Leave(s) ==
  /\ slot[s] # None
  /\ Vacate(s)
  /\ slot' = [slot EXCEPT ![s] = None]

Install(s, t) ==
  /\ t \notin Holders /\ t \notin past
  /\ Vacate(s)
  /\ slot' = [slot EXCEPT ![s] = t]

Next == \E s \in Sessions : Leave(s) \/ \E t \in Tasks : Install(s, t)

Spec == Init /\ [][Next]_vars
=============================================================================

-------------------------- MODULE SessionTurnsProofs --------------------------
(* Theorems about SessionTurns, for any number of submissions, wake-ups,     *)
(* sessions and turns, and any set of operations.                            *)
EXTENDS SessionTurns, TLAPS

\* The domains the operations draw from.
LEMMA Domains ==
  /\ Submissions \subseteq Tasks /\ Wakes \subseteq Tasks
  /\ Submissions \subseteq Nat /\ 1 \in Sessions
  /\ None \notin Tasks
  BY BoundsAssumption DEF Submissions, Wakes, Tasks, Sessions, None

LEMMA InitType == Init => TypeOK
<1> SUFFICES ASSUME Init PROVE TypeOK
  OBVIOUS
<1> USE Domains DEF Init
<1>1. LoopOK
  BY BoundsAssumption DEF LoopOK
<1>2. StateOK
  BY BoundsAssumption DEF StateOK
<1>3. TaskOK
  BY BoundsAssumption DEF TaskOK, Labels, Kinds
<1>4. AsyncOK
  BY DEF AsyncOK
<1>5. SeenOK
  BY DEF SeenOK
<1> QED
  BY <1>1, <1>2, <1>3, <1>4, <1>5 DEF TypeOK

\* A session's queue grows by one element.
LEMMA AppendType ==
  ASSUME NEW S, NEW f \in [Sessions -> Seq(S)], NEW s \in Sessions, NEW x \in S
  PROVE  [f EXCEPT ![s] = Append(@, x)] \in [Sessions -> Seq(S)]
<1>1. Append(f[s], x) \in Seq(S)
  OBVIOUS
<1> QED
  BY <1>1

\* Spawning a task keeps the types of what it touches.
LEMMA SpawnType ==
  ASSUME TypeOK, NEW t \in Tasks, NEW k \in Kinds, NEW s \in Sessions, Spawn(t, k, s)
  PROVE  /\ pc' \in [Tasks -> Labels] /\ kind' \in [Tasks -> Kinds]
         /\ home' \in [Tasks -> Sessions] /\ installing' \subseteq Tasks
  BY DEF Spawn, TypeOK, TaskOK, Labels, Interruptible

LEMMA AbortableType ==
  ASSUME TypeOK, NEW s \in Sessions
  PROVE  Abortable(current[s]) \subseteq Tasks
  BY DEF Abortable, TypeOK, StateOK

LEMMA AbortTasksType ==
  ASSUME TypeOK, NEW T \in SUBSET Tasks, AbortTasks(T)
  PROVE  killed' \subseteq Tasks /\ exiting' \subseteq Tasks /\ reporting' \subseteq Tasks
  BY DEF AbortTasks, TypeOK, TaskOK, AsyncOK

LEMMA AbortType ==
  ASSUME TypeOK, NEW s \in Sessions, Abort(s)
  PROVE  /\ killed' \subseteq Tasks /\ exiting' \subseteq Tasks /\ reporting' \subseteq Tasks
         /\ current' \in [Sessions -> Tasks \cup {None}]
         /\ approvals' \in [Sessions -> SUBSET Tasks]
         /\ UNCHANGED <<queue, pending, compacts>>
<1>1. killed' \subseteq Tasks /\ exiting' \subseteq Tasks /\ reporting' \subseteq Tasks
  BY AbortableType, AbortTasksType DEF Abort
<1> QED
  BY <1>1 DEF Abort, TypeOK, StateOK

LEMMA RemoveTaskType ==
  ASSUME TypeOK, NEW t \in Tasks, RemoveTask(t)
  PROVE  current' \in [Sessions -> Tasks \cup {None}]
  BY DEF RemoveTask, TypeOK, StateOK

\* A part of the state that a step leaves alone keeps its type.
LEMMA SameType ==
  ASSUME TypeOK
  PROVE  /\ UNCHANGED loopVars => LoopOK'
         /\ UNCHANGED stateVars => StateOK'
         /\ UNCHANGED taskVars => TaskOK'
         /\ UNCHANGED asyncVars => AsyncOK'
         /\ UNCHANGED seenVars => SeenOK'
<1> USE DEF TypeOK
<1>1. UNCHANGED loopVars => LoopOK'
  BY DEF loopVars, LoopOK
<1>2. UNCHANGED stateVars => StateOK'
  BY DEF stateVars, StateOK
<1>3. UNCHANGED taskVars => TaskOK'
  BY DEF taskVars, TaskOK
<1>4. UNCHANGED asyncVars => AsyncOK'
  BY DEF asyncVars, AsyncOK
<1>5. UNCHANGED seenVars => SeenOK'
  BY DEF seenVars, SeenOK
<1> QED
  BY <1>1, <1>2, <1>3, <1>4, <1>5

\* The loop goes on, with a submission or a task in hand.
LEMMA NowType ==
  ASSUME TypeOK, NEW at \in {"ready", "queue", "compact", "closed"},
         NEW id \in Tasks \cup {None}, at \in {"queue", "compact"} => id \in Submissions,
         Now(at, id)
  PROVE  /\ loop' \in [at : {"ready", "queue", "compact", "closed"}, id : Tasks \cup {None}]
         /\ loop'.at \in {"queue", "compact"} => loop'.id \in Submissions
  BY DEF Now

LEMMA TakeType ==
  ASSUME TypeOK, NEW op, NEW i \in Submissions, Take(op, i)
  PROVE  /\ sess \in Sessions /\ sess' \in Sessions
         /\ nextSub' \in 1 .. MaxSubmissions + 1
         /\ nextWake' \in MaxSubmissions + 1 .. MaxSubmissions + MaxWakes + 1
  BY BoundsAssumption DEF Take, TypeOK, LoopOK

LEMMA SetTaskType ==
  ASSUME TypeOK, NEW t \in Tasks, SetTask(t)
  PROVE  TypeOK'
<1> USE DEF TypeOK
<1>1. home[t] \in Sessions
  BY DEF TaskOK
<1>2. killed' \subseteq Tasks /\ exiting' \subseteq Tasks /\ reporting' \subseteq Tasks
  BY <1>1, AbortableType, AbortTasksType DEF SetTask
<1>3. LoopOK' /\ SeenOK'
  BY SameType DEF SetTask
<1>4. StateOK'
  BY <1>1 DEF SetTask, StateOK
<1>5. TaskOK'
  BY <1>2 DEF SetTask, TaskOK
<1>6. AsyncOK'
  BY <1>2 DEF SetTask, AsyncOK
<1> QED
  BY <1>3, <1>4, <1>5, <1>6

-----------------------------------------------------------------------------
(* The submission loop.                                                    *)

LEMMA RestartType ==
  ASSUME TypeOK, NEW op, NEW i \in Submissions, NEW k \in Kinds, Take(op, i), Restart(i, k)
  PROVE  TypeOK'
<1> USE Domains DEF TypeOK, Restart
<1>1. LoopOK'
  BY TakeType, NowType DEF LoopOK
<1>2. SeenOK'
  BY SameType
<1>3. StateOK'
  BY TakeType, AbortType DEF StateOK
<1>4. TaskOK'
  BY TakeType, AbortType, SpawnType DEF TaskOK
<1>5. AsyncOK'
  BY TakeType, AbortType DEF AsyncOK
<1> QED
  BY <1>1, <1>2, <1>3, <1>4, <1>5

\* The operations that start a task, or something else if there is one.
LEMMA SpawnOrNotType ==
  ASSUME TypeOK, NEW t \in Tasks, NEW k \in Kinds, NEW s \in Sessions,
         \/ UNCHANGED taskVars
         \/ Spawn(t, k, s) /\ UNCHANGED <<killed, snap, back, auto, given, extra>>
  PROVE  TaskOK'
<1>1. CASE UNCHANGED taskVars
  BY <1>1, SameType
<1>2. CASE Spawn(t, k, s) /\ UNCHANGED <<killed, snap, back, auto, given, extra>>
  BY <1>2, SpawnType DEF TypeOK, TaskOK
<1> QED
  BY <1>1, <1>2

LEMMA QueueUserInputType ==
  ASSUME TypeOK, NEW i \in Submissions, QueueUserInput(i)
  PROVE  TypeOK'
<1> USE Domains DEF TypeOK, QueueUserInput
<1>1. LoopOK'
  BY TakeType, NowType DEF LoopOK
<1>2. StateOK' /\ AsyncOK' /\ SeenOK'
  BY SameType
<1>3. "regular" \in Kinds
  BY DEF Kinds
<1>4. TaskOK'
  BY <1>3, TakeType, SpawnOrNotType
<1> QED
  BY <1>1, <1>2, <1>4

LEMMA CompactType ==
  ASSUME TypeOK, NEW i \in Submissions, Compact(i)
  PROVE  TypeOK'
<1>1. Take("Compact", i) /\ sess \in Sessions
  BY TakeType DEF Compact
<1>2. LoopOK'
  BY <1>1, Domains, TakeType, NowType DEF Compact, LoopOK
<1>3. AsyncOK' /\ SeenOK'
  BY SameType DEF Compact
<1>4. pending' \in [Sessions -> Seq(Messages)]
  <2>1. pending \in [Sessions -> Seq(Messages)] /\ i \in Messages
    BY Domains DEF TypeOK, StateOK, Messages
  <2>2. pending' = pending \/ pending' = [pending EXCEPT ![sess] = Append(@, i)]
    BY DEF Compact
  <2>3. [pending EXCEPT ![sess] = Append(@, i)] \in [Sessions -> Seq(Messages)]
    BY <1>1, <2>1, AppendType
  <2> QED
    BY <2>1, <2>2, <2>3
<1>5. StateOK'
  BY <1>4 DEF Compact, TypeOK, StateOK
<1>6. TaskOK'
  <2>1. CASE current[sess] # None
    BY <2>1, SameType DEF Compact
  <2>2. CASE current[sess] = None
    <3>1. Spawn(i, "compact", sess) /\ UNCHANGED <<killed, snap, back, auto, given, extra>>
      BY <2>2 DEF Compact
    <3> QED
      BY <1>1, <3>1, Domains, SpawnOrNotType DEF Kinds
  <2> QED
    BY <2>1, <2>2
<1> QED
  BY <1>2, <1>3, <1>5, <1>6 DEF TypeOK

LEMMA InterruptType ==
  ASSUME TypeOK, NEW i \in Submissions, Interrupt(i) \/ Shutdown(i)
  PROVE  TypeOK'
<1>1. sess \in Sessions
  BY TakeType DEF Interrupt, Shutdown
<1>2. LoopOK'
  BY Domains, TakeType, NowType DEF Interrupt, Shutdown, LoopOK
<1>3. StateOK' /\ TaskOK' /\ SeenOK'
  BY SameType DEF Interrupt, Shutdown
<1>4. interrupts' = interrupts \cup {<<i, sess>>}
  BY DEF Interrupt, Shutdown
<1>5. AsyncOK'
  BY <1>1, <1>4 DEF Interrupt, Shutdown, TypeOK, AsyncOK
<1> QED
  BY <1>2, <1>3, <1>5 DEF TypeOK

\* One more compaction, and the oldest out when there is no room.
LEMMA PushedType ==
  ASSUME NEW seq \in Seq(Submissions), Len(seq) <= MaxPendingCompacts, NEW i \in Submissions
  PROVE  /\ Pushed(seq, i) \in Seq(Submissions)
         /\ Len(Pushed(seq, i)) <= MaxPendingCompacts
<1>1. CASE Len(seq) >= MaxPendingCompacts
  <2>1. Tail(seq) \in Seq(Submissions) /\ Len(Tail(seq)) = Len(seq) - 1
    BY <1>1, BoundsAssumption
  <2> QED
    BY <1>1, <2>1, BoundsAssumption DEF Pushed
<1>2. CASE ~(Len(seq) >= MaxPendingCompacts)
  BY <1>2, BoundsAssumption DEF Pushed
<1> QED
  BY <1>1, <1>2

LEMMA PushType == ASSUME TypeOK, QueuePush \/ CompactPush PROVE TypeOK'
<1> USE Domains DEF TypeOK
<1>1. sess \in Sessions /\ loop.id \in Submissions
  BY DEF QueuePush, CompactPush, LoopOK
<1>2. LoopOK'
  BY NowType DEF QueuePush, CompactPush, LoopOK
<1>3. TaskOK' /\ AsyncOK'
  BY SameType DEF QueuePush, CompactPush
<1>4. StateOK' /\ SeenOK'
  <2>1. CASE QueuePush
    <3>1. queue' \in [Sessions -> Seq(Submissions)]
      BY <1>1, <2>1, AppendType DEF QueuePush, StateOK
    <3> QED
      BY <1>1, <2>1, <3>1 DEF QueuePush, StateOK, SeenOK
  <2>2. CASE CompactPush
    <3>1. SeenOK'
      BY <2>2, SameType DEF CompactPush
    <3>2. compacts' = [compacts EXCEPT ![sess] = Pushed(compacts[sess], loop.id)]
      BY <2>2 DEF CompactPush
    <3>3. /\ compacts' \in [Sessions -> Seq(Submissions)]
          /\ \A s \in Sessions : Len(compacts'[s]) <= MaxPendingCompacts
      BY <1>1, <3>2, PushedType DEF StateOK
    <3> QED
      BY <2>2, <3>1, <3>3 DEF CompactPush, StateOK
  <2> QED
    BY <2>1, <2>2
<1> QED
  BY <1>2, <1>3, <1>4

LEMMA AbortingType ==
  ASSUME TypeOK,
         \/ \E i \in Submissions, s \in Sessions : AbortLater(i, s)
         \/ \E t \in Tasks : Approve(t) \/ ApproveAbort(t)
         \/ ConfigureSession
  PROVE  TypeOK'
<1> USE Domains DEF TypeOK, loopVars, taskVars, asyncVars, seenVars
<1>1. sess \in Sessions
  BY DEF LoopOK
<1>2. ASSUME NEW i \in Submissions, NEW s \in Sessions, AbortLater(i, s) PROVE TypeOK'
  BY <1>2, AbortType DEF AbortLater, LoopOK, StateOK, TaskOK, AsyncOK, SeenOK
<1>3. ASSUME NEW t \in Tasks, Approve(t) PROVE TypeOK'
  BY <1>1, <1>3 DEF Approve, LoopOK, StateOK, TaskOK, AsyncOK, SeenOK
<1>4. ASSUME NEW t \in Tasks, ApproveAbort(t) PROVE TypeOK'
  BY <1>1, <1>4, AbortType DEF ApproveAbort, LoopOK, StateOK, TaskOK, AsyncOK, SeenOK
<1>5. CASE ConfigureSession
  <2>1. sess + 1 \in Sessions
    BY <1>1, <1>5, BoundsAssumption DEF ConfigureSession, Sessions
  <2> QED
    BY <1>1, <1>5, <2>1, AbortType
    DEF ConfigureSession, Now, LoopOK, StateOK, TaskOK, AsyncOK, SeenOK
<1> QED
  BY <1>2, <1>3, <1>4, <1>5

-----------------------------------------------------------------------------
(* Wake-ups.                                                               *)

LEMMA EnqueueType ==
  ASSUME TypeOK, NEW w \in Wakes, NEW s \in Sessions, Enqueue(w, s)
  PROVE  StateOK' /\ TaskOK'
<1>1. w \in Tasks /\ w \in Messages
  BY Domains DEF Messages
<1>2. pending' \in [Sessions -> Seq(Messages)]
  BY <1>1, AppendType DEF Enqueue, TypeOK, StateOK
<1>3. StateOK'
  BY <1>2 DEF Enqueue, TypeOK, StateOK
<1>4. TaskOK'
  <2>1. CASE current[s] # None
    BY <2>1, SameType DEF Enqueue
  <2>2. CASE current[s] = None
    <3>1. Spawn(w, "pending", s) /\ UNCHANGED <<killed, snap, back, auto, given, extra>>
      BY <2>2 DEF Enqueue
    <3> QED
      BY <1>1, <3>1, SpawnOrNotType DEF Kinds
  <2> QED
    BY <2>1, <2>2
<1> QED
  BY <1>3, <1>4

LEMMA TakeWakeType ==
  ASSUME TypeOK, NEW w \in Wakes, TakeWake(w)
  PROVE  nextWake' \in MaxSubmissions + 1 .. MaxSubmissions + MaxWakes + 1
  BY BoundsAssumption DEF TakeWake, TypeOK, LoopOK

LEMMA WakeType ==
  ASSUME TypeOK, NEW w \in Wakes, AddPendingInputDeveloper(w) \/ AgentWake(w)
  PROVE  TypeOK'
<1>1. sess \in Sessions
  BY DEF TypeOK, LoopOK
<1>2. CASE AddPendingInputDeveloper(w)
  <2>1. LoopOK'
    BY <1>2, Domains, TakeWakeType, NowType DEF AddPendingInputDeveloper, TypeOK, LoopOK
  <2>2. AsyncOK' /\ SeenOK'
    BY <1>2, SameType DEF AddPendingInputDeveloper
  <2> QED
    BY <1>1, <1>2, <2>1, <2>2, EnqueueType DEF AddPendingInputDeveloper, TypeOK
<1>3. CASE AgentWake(w)
  <2>1. LoopOK'
    BY <1>3, TakeWakeType DEF AgentWake, TypeOK, LoopOK
  <2>2. AsyncOK' /\ SeenOK'
    BY <1>3, Domains, SameType DEF AgentWake, TypeOK, AsyncOK
  <2> QED
    BY <1>3, <2>1, <2>2, Domains, EnqueueType DEF AgentWake, TypeOK
<1> QED
  BY <1>2, <1>3

LEMMA BridgeType ==
  ASSUME TypeOK, NEW s \in Sessions, BridgeStart(s) \/ \E w \in Wakes : BridgeRecord(w, s)
  PROVE  TypeOK'
<1>1. CASE BridgeStart(s)
  <2>1. bridge[s].id \in Tasks /\ "pending" \in Kinds
    BY <1>1 DEF BridgeStart, TypeOK, AsyncOK, Kinds
  <2>2. TaskOK'
    <3>1. CASE current[s] # None
      BY <1>1, <3>1, SameType DEF BridgeStart
    <3>2. CASE current[s] = None
      BY <1>1, <2>1, <3>2, SpawnOrNotType DEF BridgeStart
    <3> QED
      BY <3>1, <3>2
  <2>3. LoopOK' /\ StateOK' /\ SeenOK'
    BY <1>1, SameType DEF BridgeStart
  <2>4. AsyncOK'
    BY <1>1 DEF BridgeStart, TypeOK, AsyncOK
  <2> QED
    BY <2>2, <2>3, <2>4 DEF TypeOK
<1>2. ASSUME NEW w \in Wakes, BridgeRecord(w, s) PROVE TypeOK'
  <2>1. LoopOK'
    BY <1>2, TakeWakeType DEF BridgeRecord, TypeOK, LoopOK
  <2>2. TaskOK' /\ SeenOK'
    BY <1>2, SameType DEF BridgeRecord
  <2>3. StateOK'
    BY <1>2, Domains DEF BridgeRecord, TypeOK, StateOK
  <2>4. AsyncOK'
    BY <1>2, Domains DEF BridgeRecord, TypeOK, AsyncOK
  <2> QED
    BY <2>1, <2>2, <2>3, <2>4 DEF TypeOK
<1> QED
  BY <1>1, <1>2

-----------------------------------------------------------------------------
(* The life of a task.                                                     *)

LEMMA GotoType ==
  ASSUME TypeOK, NEW t \in Tasks, NEW label \in Labels, Goto(t, label)
  PROVE  pc' \in [Tasks -> Labels]
  BY DEF Goto, TypeOK, TaskOK

LEMMA RecordType ==
  ASSUME TypeOK, NEW t \in Tasks, NEW M \in SUBSET Tasks, Record(t, M)
  PROVE  history' \in [Sessions -> SUBSET Tasks]
  BY DEF Record, TypeOK, StateOK, TaskOK

\* A step of run_agent that moves one task on and leaves the rest of the task
\* state, the loop and the detached tasks alone.
LEMMA BodyType ==
  ASSUME TypeOK, NEW t \in Tasks, NEW label \in Labels, Goto(t, label), UnchangedBody,
         UNCHANGED <<snap, back, given>>,
         UNCHANGED auto \/ auto' \in [Tasks -> {"may", "due", "ran"}]
  PROVE  LoopOK' /\ TaskOK' /\ AsyncOK'
<1>1. TaskOK'
  BY GotoType DEF UnchangedBody, TypeOK, TaskOK
<1> QED
  BY <1>1, SameType DEF UnchangedBody

LEMMA BeginType ==
  ASSUME TypeOK, NEW t \in Tasks, Begin(t)
  PROVE  TypeOK'
<1>1. LoopOK' /\ TaskOK' /\ AsyncOK'
  BY BodyType DEF Begin, Labels
<1>2. StateOK'
  BY RecordType DEF Begin, TypeOK, StateOK
<1> QED
  BY <1>1, <1>2, SameType DEF Begin, TypeOK

\* What a task drains are messages; all but the tool outputs are recorded.
LEMMA GotType ==
  ASSUME TypeOK, NEW t \in Tasks
  PROVE  Got(t) \subseteq Messages
<1>1. pending[home[t]] \in Seq(Messages) /\ queue[home[t]] \in Seq(Submissions)
  BY DEF TypeOK, StateOK, TaskOK
<1>2. Submissions \subseteq Messages
  BY Domains DEF Messages
<1> QED
  BY <1>1, <1>2 DEF Got, Items

LEMMA DrainType ==
  ASSUME TypeOK, NEW t \in Tasks, Drain(t)
  PROVE  TypeOK'
<1> DEFINE s == home[t]
           nothing == At(t, "first") /\ kind[t] = "pending" /\ Got(t) = {}
           first == IF pending[s] # <<>> THEN Head(pending[s]) ELSE Head(queue[s])
           recorded == IF At(t, "loop") THEN Got(t)
                       ELSE IF kind[t] = "pending" THEN {first} ELSE {}
<1>1. s \in Sessions /\ pending[s] \in Seq(Messages) /\ queue[s] \in Seq(Submissions)
  BY DEF TypeOK, StateOK, TaskOK
<1>2. Got(t) \subseteq Messages
  BY GotType
<1>3. ~nothing => recorded \subseteq Messages
  <2>1. CASE At(t, "loop")
    BY <1>2, <2>1
  <2>2. CASE At(t, "first") /\ kind[t] = "pending" /\ ~nothing
    <3>1. pending[s] # <<>> \/ queue[s] # <<>>
      <4> SUFFICES ASSUME pending[s] = <<>>, queue[s] = <<>> PROVE FALSE
        OBVIOUS
      <4>1. Got(t) = {}
        BY DEF Got, Items
      <4> QED
        BY <2>2, <4>1
    <3>2. Submissions \subseteq Messages
      BY Domains DEF Messages
    <3>3. first \in Messages
      BY <1>1, <3>1, <3>2
    <3> QED
      BY <2>2, <3>3 DEF At
  <2>3. CASE At(t, "first") /\ kind[t] # "pending"
    BY <2>3 DEF At
  <2> QED
    BY <2>1, <2>2, <2>3 DEF Drain, At
<1>4. (IF nothing THEN {} ELSE recorded \ {ToolOutput}) \subseteq Tasks
  BY <1>3 DEF Messages
<1>5. Record(t, IF nothing THEN {} ELSE recorded \ {ToolOutput})
  BY DEF Drain
<1>6. history' \in [Sessions -> SUBSET Tasks]
  BY <1>4, <1>5, RecordType
<1>7. StateOK'
  <2>1. <<>> \in Seq(Messages) /\ <<>> \in Seq(Submissions)
    OBVIOUS
  <2>2. pending' \in [Sessions -> Seq(Messages)]
    BY <1>1, <2>1 DEF Drain, TypeOK, StateOK
  <2>3. queue' \in [Sessions -> Seq(Submissions)]
    BY <1>1, <2>1 DEF Drain, QueueAfter, TypeOK, StateOK
  <2> QED
    BY <1>6, <2>2, <2>3 DEF Drain, TypeOK, StateOK
<1>8. TaskOK'
  <2>1. pc' \in [Tasks -> Labels]
    BY GotoType DEF Drain, Labels
  <2>2. given' \in [Tasks -> SUBSET Messages]
    BY <1>2 DEF Drain, TypeOK, TaskOK
  <2> QED
    BY <2>1, <2>2 DEF Drain, UnchangedBody, TypeOK, TaskOK
<1> QED
  BY <1>7, <1>8, SameType DEF Drain, UnchangedBody, TypeOK

\* Steps that only move the task on.
LEMMA MoveType ==
  ASSUME TypeOK, NEW t \in Tasks,
         Answered(t) \/ Resume(t) \/ CompactionFails(t) \/ CompactReport(t) \/ Die(t)
  PROVE  TypeOK'
<1>1. PICK label \in Labels :
        Goto(t, label) /\ UnchangedBody /\ UNCHANGED <<snap, back, given>>
  <2>1. back[t] \in Labels
    BY DEF TypeOK, TaskOK, Labels, Interruptible
  <2> QED
    BY <2>1 DEF Answered, Resume, CompactionFails, CompactReport, Die, Labels, Interruptible
<1>2. LoopOK' /\ TaskOK' /\ AsyncOK'
  <2>1. UNCHANGED auto \/ auto' \in [Tasks -> {"may", "due", "ran"}]
    BY DEF Answered, Resume, CompactionFails, CompactReport, Die, TypeOK, TaskOK
  <2> QED
    BY <1>1, <2>1, BodyType
<1>3. StateOK' /\ SeenOK'
  BY SameType DEF Answered, Resume, CompactionFails, CompactReport, Die
<1> QED
  BY <1>2, <1>3 DEF TypeOK

LEMMA CalledToolsType ==
  ASSUME TypeOK, NEW t \in Tasks, CalledTools(t)
  PROVE  TypeOK'
<1>1. home[t] \in Sessions /\ ToolOutput \in Messages
  BY DEF TypeOK, TaskOK, Messages
<1>2. pending' \in [Sessions -> Seq(Messages)]
  <2>1. pending \in [Sessions -> Seq(Messages)]
    BY DEF TypeOK, StateOK
  <2>2. [pending EXCEPT ![home[t]] = Append(@, ToolOutput)] \in [Sessions -> Seq(Messages)]
    BY <1>1, <2>1, AppendType
  <2> QED
    BY <2>1, <2>2 DEF CalledTools
<1>3. StateOK'
  BY <1>2 DEF CalledTools, TypeOK, StateOK
<1>4. TaskOK'
  <2>1. pc' \in [Tasks -> Labels]
    BY GotoType DEF CalledTools, Labels
  <2>2. extra' \in 0 .. MaxExtraTurns
    BY BoundsAssumption DEF CalledTools, TypeOK, TaskOK
  <2> QED
    BY <2>1, <2>2 DEF CalledTools, TypeOK, TaskOK
<1> QED
  BY <1>3, <1>4, SameType DEF CalledTools, TypeOK

LEMMA PromptType ==
  ASSUME TypeOK, NEW t \in Tasks, Ask(t) \/ Register(t)
  PROVE  TypeOK'
<1>1. LoopOK' /\ TaskOK' /\ AsyncOK'
  BY BodyType DEF Ask, Register, Labels, Interruptible
<1>2. CASE Ask(t)
  <2>1. SeenOK'
    BY <1>2 DEF Ask, TypeOK, SeenOK
  <2> QED
    BY <1>1, <1>2, <2>1, SameType DEF Ask, TypeOK
<1>3. CASE Register(t)
  <2>1. StateOK'
    BY <1>3 DEF Register, TypeOK, StateOK, TaskOK
  <2> QED
    BY <1>1, <1>3, <2>1, SameType DEF Register, TypeOK
<1> QED
  BY <1>2, <1>3

\* Steps that record in, or replace, the history.
LEMMA HistoryType ==
  ASSUME TypeOK, NEW t \in Tasks,
         ReviewExit(t) \/ Replace(t) \/ RemoteAnswer(t) \/ Rebuild(t)
  PROVE  TypeOK'
<1>1. PICK label \in Labels :
        Goto(t, label) /\ UnchangedBody /\ UNCHANGED <<snap, back, given>>
  <2>1. AfterReplace(t) \in Labels
    BY DEF AfterReplace, TypeOK, TaskOK, Labels, Interruptible
  <2> QED
    BY <2>1 DEF ReviewExit, Replace, RemoteAnswer, Rebuild, Labels, Interruptible
<1>2. LoopOK' /\ TaskOK' /\ AsyncOK'
  <2>1. UNCHANGED auto \/ auto' \in [Tasks -> {"may", "due", "ran"}]
    BY DEF ReviewExit, Replace, RemoteAnswer, Rebuild, TypeOK, TaskOK
  <2> QED
    BY <1>1, <2>1, BodyType
<1>3. history' \in [Sessions -> SUBSET Tasks]
  <2>1. CASE ReviewExit(t)
    BY <2>1, RecordType DEF ReviewExit
  <2>2. CASE ~ReviewExit(t)
    <3>1. snap[t] \in SUBSET Tasks /\ history \in [Sessions -> SUBSET Tasks]
      BY DEF TypeOK, TaskOK, StateOK
    <3>2. history' = [history EXCEPT ![home[t]] = snap[t]]
      BY <2>2 DEF Replace, RemoteAnswer, Rebuild
    <3> QED
      BY <3>1, <3>2
  <2> QED
    BY <2>1, <2>2
<1>4. StateOK'
  BY <1>3 DEF ReviewExit, Replace, RemoteAnswer, Rebuild, TypeOK, StateOK
<1>5. SeenOK'
  BY DEF ReviewExit, Replace, RemoteAnswer, Rebuild, seenVars, TypeOK, SeenOK
<1> QED
  BY <1>2, <1>4, <1>5 DEF TypeOK

\* Steps that leave the slot.
LEMMA LeaveType ==
  ASSUME TypeOK, NEW t \in Tasks, Remove(t) \/ LocalAnswer(t) \/ RemoteClear(t)
  PROVE  TypeOK'
<1>1. LoopOK' /\ TaskOK' /\ AsyncOK'
  BY BodyType DEF Remove, LocalAnswer, RemoteClear, Labels, Interruptible
<1>2. current' \in [Sessions -> Tasks \cup {None}]
  <2>1. RemoveTask(t) \/ UNCHANGED current
    BY DEF Remove, LocalAnswer, RemoteClear
  <2> QED
    BY <2>1, RemoveTaskType DEF TypeOK, StateOK
<1>3. StateOK'
  BY <1>2 DEF Remove, LocalAnswer, RemoteClear, TypeOK, StateOK
<1> QED
  BY <1>1, <1>3, SameType DEF Remove, LocalAnswer, RemoteClear, TypeOK

LEMMA HandOffType ==
  ASSUME TypeOK, NEW t \in Tasks, StartCompact(t) \/ StartQueued(t)
  PROVE  TypeOK'
<1> DEFINE s == home[t]
<1>1. s \in Sessions /\ compacts[s] \in Seq(Submissions) /\ queue[s] \in Seq(Submissions)
  BY DEF TypeOK, StateOK, TaskOK
<1>2. CASE StartCompact(t)
  <2>1. CASE compacts[s] = <<>>
    <3>1. TaskOK'
      BY <1>2, <2>1, GotoType DEF StartCompact, Labels, TypeOK, TaskOK
    <3>2. StateOK'
      BY <1>2, <2>1 DEF StartCompact, TypeOK, StateOK
    <3> QED
      BY <1>2, <3>1, <3>2, SameType DEF StartCompact, TypeOK
  <2>2. CASE compacts[s] # <<>>
    <3> DEFINE c == Head(compacts[s])
    <3>1. c \in Tasks /\ Tail(compacts[s]) \in Seq(Submissions)
          /\ Len(Tail(compacts[s])) = Len(compacts[s]) - 1
      <4>1. ASSUME NEW q \in Seq(Submissions), q # <<>>
            PROVE  /\ Head(q) \in Submissions /\ Tail(q) \in Seq(Submissions)
                   /\ Len(Tail(q)) = Len(q) - 1
        BY <4>1
      <4> QED
        BY <1>1, <2>2, <4>1, Domains
    <3>2. TaskOK'
      <4>1. pc' = [pc EXCEPT ![t] = "done", ![c] = "new"]
        BY <1>2, <2>2 DEF StartCompact
      <4>2. pc' \in [Tasks -> Labels]
        BY <4>1 DEF TypeOK, TaskOK, Labels, Interruptible
      <4>3. /\ kind' \in [Tasks -> Kinds] /\ home' \in [Tasks -> Sessions]
            /\ installing' \subseteq Tasks
        BY <1>1, <1>2, <2>2, <3>1 DEF StartCompact, TypeOK, TaskOK, Kinds
      <4> QED
        BY <1>2, <4>2, <4>3 DEF StartCompact, TypeOK, TaskOK
    <3>3. compacts' = [compacts EXCEPT ![s] = Tail(@)]
      BY <1>2, <2>2 DEF StartCompact
    <3>4. /\ compacts' \in [Sessions -> Seq(Submissions)]
          /\ \A r \in Sessions : Len(compacts'[r]) <= MaxPendingCompacts
      <4>1. compacts' \in [Sessions -> Seq(Submissions)]
        BY <1>1, <3>1, <3>3 DEF TypeOK, StateOK
      <4>2. ASSUME NEW r \in Sessions PROVE Len(compacts'[r]) <= MaxPendingCompacts
        <5>1. compacts[r] \in Seq(Submissions) /\ Len(compacts[r]) <= MaxPendingCompacts
          BY DEF TypeOK, StateOK
        <5>2. Len(compacts[r]) \in Nat
          BY <5>1
        <5>3. compacts'[r] = IF r = s THEN Tail(compacts[s]) ELSE compacts[r]
          BY <3>3 DEF TypeOK, StateOK
        <5>4. CASE r = s
          BY <3>1, <5>1, <5>2, <5>3, <5>4, BoundsAssumption
        <5>5. CASE r # s
          BY <5>1, <5>3, <5>5
        <5> QED
          BY <5>4, <5>5
      <4> QED
        BY <4>1, <4>2
    <3>5. StateOK'
      BY <1>2, <3>4 DEF StartCompact, TypeOK, StateOK
    <3> QED
      BY <1>2, <3>2, <3>5, SameType DEF StartCompact, TypeOK
  <2> QED
    BY <2>1, <2>2
<1>3. CASE StartQueued(t)
  <2>1. TaskOK'
    BY <1>3, GotoType DEF StartQueued, Labels, TypeOK, TaskOK
  <2>2. StateOK' /\ AsyncOK'
    <3>1. CASE queue[s] = <<>>
      BY <1>3, <3>1 DEF StartQueued, TypeOK, StateOK, AsyncOK
    <3>2. CASE queue[s] # <<>>
      <4>1. Head(queue[s]) \in Submissions /\ Tail(queue[s]) \in Seq(Submissions)
        BY <1>1, <3>2
      <4>2. /\ queue' = [queue EXCEPT ![s] = Tail(@)]
            /\ starting' = starting \cup {<<Head(queue[s]), s>>}
        BY <1>3, <3>2 DEF StartQueued, QueuePopped
      <4>3. queue' \in [Sessions -> Seq(Submissions)] /\ starting' \subseteq Submissions \X Sessions
        BY <1>1, <4>1, <4>2 DEF TypeOK, StateOK, AsyncOK
      <4> QED
        BY <1>3, <4>3 DEF StartQueued, TypeOK, StateOK, AsyncOK
    <3> QED
      BY <3>1, <3>2
  <2> QED
    BY <1>3, <2>1, <2>2, SameType DEF StartQueued, TypeOK
<1> QED
  BY <1>2, <1>3

LEMMA CompactionType ==
  ASSUME TypeOK, NEW t \in Tasks,
         \/ CompactTask(t) \/ CompactInline(t) \/ CompactFirst(t)
         \/ Snapshot(t) \/ Emergency(t)
  PROVE  TypeOK'
<1>1. home[t] \in Sessions /\ history[home[t]] \subseteq Tasks
  BY DEF TypeOK, TaskOK, StateOK
<1>2. ASSUME NEW next \in {"loop", "turn", "reporting"}, BeginCompaction(t, next),
             auto' \in [Tasks -> {"may", "due", "ran"}]
      PROVE  TypeOK'
  <2>1. pc' \in [Tasks -> Labels]
    BY <1>2, GotoType DEF BeginCompaction, Labels, Interruptible
  <2>2. TaskOK'
    BY <1>1, <1>2, <2>1 DEF BeginCompaction, UnchangedBody, TypeOK, TaskOK
  <2> QED
    BY <1>2, <2>2, SameType DEF BeginCompaction, UnchangedBody, TypeOK
<1>3. CASE CompactTask(t) \/ CompactFirst(t)
  BY <1>2, <1>3 DEF CompactTask, CompactFirst, TypeOK, TaskOK
<1>4. CASE CompactInline(t)
  BY <1>2, <1>4 DEF CompactInline, TypeOK, TaskOK
<1>5. CASE Snapshot(t)
  <2>1. pc' \in [Tasks -> Labels]
    BY <1>5, GotoType DEF Snapshot, Labels
  <2>2. TaskOK'
    BY <1>1, <1>5, <2>1 DEF Snapshot, UnchangedBody, TypeOK, TaskOK
  <2> QED
    BY <1>5, <2>2, SameType DEF Snapshot, UnchangedBody, TypeOK
<1>6. CASE Emergency(t)
  <2>1. pc' \in [Tasks -> Labels]
    BY <1>6, GotoType DEF Emergency, AfterReplace, TypeOK, TaskOK, Labels, Interruptible
  <2>2. TaskOK'
    BY <1>6, <2>1 DEF Emergency, UnchangedBody, TypeOK, TaskOK
  <2>3. StateOK'
    BY <1>6 DEF Emergency, TypeOK, StateOK
  <2> QED
    BY <1>6, <2>2, <2>3, SameType DEF Emergency, UnchangedBody, TypeOK
<1> QED
  BY <1>3, <1>4, <1>5, <1>6

\* Detached tasks.
LEMMA DetachedType ==
  ASSUME TypeOK,
         \/ \E i \in Submissions, s \in Sessions : RunQueued(i, s)
         \/ \E t \in Tasks : ExitAborted(t) \/ ReportAborted(t)
  PROVE  TypeOK'
<1>1. ASSUME NEW i \in Submissions, NEW s \in Sessions, RunQueued(i, s) PROVE TypeOK'
  <2>1. TaskOK'
    BY <1>1, Domains, SpawnType DEF RunQueued, Kinds, TypeOK, TaskOK
  <2>2. AsyncOK'
    BY <1>1 DEF RunQueued, TypeOK, AsyncOK
  <2> QED
    BY <1>1, <2>1, <2>2, SameType DEF RunQueued, TypeOK
<1>2. ASSUME NEW t \in Tasks, ExitAborted(t) PROVE TypeOK'
  <2>1. StateOK'
    BY <1>2, RecordType DEF ExitAborted, TypeOK, StateOK
  <2>2. AsyncOK' /\ SeenOK'
    BY <1>2 DEF ExitAborted, TypeOK, AsyncOK, SeenOK
  <2> QED
    BY <1>2, <2>1, <2>2, SameType DEF ExitAborted, TypeOK
<1>3. ASSUME NEW t \in Tasks, ReportAborted(t) PROVE TypeOK'
  <2>1. AsyncOK' /\ SeenOK'
    BY <1>3 DEF ReportAborted, TypeOK, AsyncOK, SeenOK
  <2> QED
    BY <1>3, <2>1, SameType DEF ReportAborted, TypeOK
<1> QED
  BY <1>1, <1>2, <1>3

LEMMA StepType == TypeOK /\ [Next]_vars => TypeOK'
<1> SUFFICES ASSUME TypeOK, [Next]_vars PROVE TypeOK'
  OBVIOUS
<1>1. CASE ClientStep
  <2>1. ASSUME NEW i \in Submissions, UserInput(i) \/ EmptyUserInput(i) \/ Review(i)
        PROVE  TypeOK'
    BY <2>1, RestartType DEF UserInput, EmptyUserInput, Review, Kinds
  <2> QED
    BY <1>1, <2>1, QueueUserInputType, CompactType, InterruptType, AbortingType DEF ClientStep
<1>2. CASE WakeStep
  BY <1>2, WakeType, BridgeType DEF WakeStep
<1>3. CASE AsyncStep
  BY <1>3, PushType, AbortingType, BridgeType, SetTaskType, MoveType, DetachedType DEF AsyncStep
<1>4. ASSUME NEW t \in Tasks, TurnStep(t) PROVE TypeOK'
  BY <1>4, BeginType, DrainType, MoveType, CalledToolsType, PromptType, HistoryType, LeaveType,
     HandOffType DEF TurnStep
<1>5. ASSUME NEW t \in Tasks, CompactionStep(t) PROVE TypeOK'
  BY <1>5, CompactionType, LeaveType, HistoryType, MoveType DEF CompactionStep
<1>6. CASE UNCHANGED vars
  BY <1>6, SameType DEF vars, TypeOK
<1> QED
  BY <1>1, <1>2, <1>3, <1>4, <1>5, <1>6 DEF Next, TaskStep

\* The state of the loop, of each session, of each task and of the detached
\* tasks stays well formed, and pending_manual_compacts within its cap, under
\* every interleaving of client, tasks and detached tasks.
THEOREM TypeCorrect == Spec => []TypeOK
  BY InitType, StepType, PTL DEF Spec

-----------------------------------------------------------------------------
(* No task runs unattended.                                                *)

\* A compact task never enters the loop of run_agent, and ends once its
\* history is replaced: what makes NoOrphan inductive.
CompactShape ==
  \A t \in Tasks : kind[t] = "compact" =>
    /\ pc[t] \in {"new", "compacting", "cleared", "snapped", "replaced", "reporting",
                  "done", "dead"}
    /\ pc[t] \in {"compacting", "cleared", "snapped"} => back[t] = "reporting"

Inv == TypeOK /\ CompactShape /\ NoOrphan

LEMMA InitInv == Init => Inv
<1> SUFFICES ASSUME Init PROVE Inv
  OBVIOUS
<1>1. TypeOK
  BY InitType
<1>2. CompactShape /\ NoOrphan
  BY DEF Init, CompactShape, NoOrphan, Live
<1> QED
  BY <1>1, <1>2 DEF Inv

\* What NoOrphan asks of a task, when the slots and the aborts are already
\* those of the next state: the fact that the ends of an abort and of a spawn
\* meet in.
Attended ==
  \A u \in Tasks :
    Live(u) /\ u \notin killed' =>
      u \in installing \/ current'[home[u]] = u \/ Leaving(u)

\* An abort stops whom it takes out of the slot.
LEMMA AbortAttended ==
  ASSUME Inv, NEW s \in Sessions, Abort(s)
  PROVE  Attended
<1> USE DEF Inv
<1> SUFFICES ASSUME NEW u \in Tasks, Live(u), u \notin killed'
             PROVE  u \in installing \/ current'[home[u]] = u \/ Leaving(u)
  BY DEF Attended
<1>1. killed' = killed \cup Abortable(current[s])
      /\ current' = [current EXCEPT ![s] = None]
  BY DEF Abort, AbortTasks
<1>2. u # current[s]
  BY <1>1, Domains DEF Abortable, Live
<1>3. u \in installing \/ current[home[u]] = u \/ Leaving(u)
  BY <1>1 DEF NoOrphan
<1>4. home[u] \in Sessions /\ current \in [Sessions -> Tasks \cup {None}]
  BY DEF TypeOK, StateOK, TaskOK
<1> QED
  BY <1>1, <1>2, <1>3, <1>4

\* Nobody is stopped and no slot changes hands.
LEMMA SameAttended == ASSUME Inv, UNCHANGED <<killed, current>> PROVE Attended
  BY DEF Inv, NoOrphan, Attended

\* A step that spawns nobody and moves nobody.
LEMMA StillInv ==
  ASSUME Inv, TypeOK', Attended, UNCHANGED <<pc, kind, home, installing, back>>
  PROVE  Inv'
<1>1. CompactShape'
  BY DEF Inv, CompactShape
<1>2. NoOrphan'
  BY DEF Attended, NoOrphan, Live, Finished, Leaving
<1> QED
  BY <1>1, <1>2 DEF Inv

\* A spawned task is on its way to its slot, the others stay where they are.
LEMMA SpawnInv ==
  ASSUME Inv, TypeOK', Attended, NEW t \in Tasks, NEW k \in Kinds, NEW s \in Sessions,
         Spawn(t, k, s), UNCHANGED back
  PROVE  Inv'
<1> USE DEF Inv
<1>1. /\ pc' = [pc EXCEPT ![t] = "new"] /\ kind' = [kind EXCEPT ![t] = k]
      /\ home' = [home EXCEPT ![t] = s] /\ installing' = installing \cup {t}
  BY DEF Spawn
<1>2. /\ pc'[t] = "new" /\ t \in installing'
      /\ \A u \in Tasks \ {t} : pc'[u] = pc[u] /\ kind'[u] = kind[u] /\ home'[u] = home[u]
  BY <1>1 DEF TypeOK, TaskOK
<1>3. CompactShape'
  BY <1>2 DEF CompactShape
<1>4. NoOrphan'
  <2> SUFFICES ASSUME NEW u \in Tasks, Live(u)', u \notin killed'
               PROVE  u \in installing' \/ current'[home'[u]] = u \/ Leaving(u)'
    BY DEF NoOrphan
  <2>1. CASE u = t
    BY <1>2, <2>1
  <2>2. CASE u # t
    BY <1>1, <1>2, <2>2 DEF Attended, Live, Finished, Leaving
  <2> QED
    BY <2>1, <2>2
<1> QED
  BY <1>3, <1>4

\* Where a task may go: a compact task keeps its shape, and a task that has
\* left its slot is not back in the loop.
Sound(t, label) ==
  /\ pc[t] # "none" /\ ~Finished(t)
  /\ kind[t] = "compact" =>
       /\ label \in {"compacting", "cleared", "snapped", "replaced", "reporting", "done", "dead"}
       /\ label \in {"compacting", "cleared", "snapped"} => back'[t] = "reporting"
  /\ Leaving(t) =>
       \/ label \in {"done", "dead", "complete", "handoff", "reporting"}
       \/ label \in {"cleared", "snapped"} /\ kind[t] = "compact"

\* A step that moves one task.
LEMMA MoveInv ==
  ASSUME Inv, TypeOK', Attended, NEW t \in Tasks, NEW label \in Labels,
         Goto(t, label), Sound(t, label), UNCHANGED <<kind, home, installing>>,
         \A u \in Tasks \ {t} : back'[u] = back[u]
  PROVE  Inv'
<1> USE DEF Inv
<1>1. pc'[t] = label /\ \A u \in Tasks \ {t} : pc'[u] = pc[u]
  BY DEF Goto, TypeOK, TaskOK
<1>2. CompactShape'
  BY <1>1 DEF CompactShape, Sound
<1>3. NoOrphan'
  <2> SUFFICES ASSUME NEW u \in Tasks, Live(u)', u \notin killed'
               PROVE  u \in installing \/ current'[home[u]] = u \/ Leaving(u)'
    BY DEF NoOrphan
  <2>1. CASE u = t
    BY <1>1, <2>1 DEF Attended, Sound, Live, Finished, Leaving
  <2>2. CASE u # t
    BY <1>1, <2>2 DEF Attended, Live, Finished, Leaving
  <2> QED
    BY <2>1, <2>2
<1> QED
  BY <1>2, <1>3


\* Slots change hands: the holder that is taken out is stopped.
LEMMA SetTaskInv == ASSUME Inv, NEW t \in Tasks, SetTask(t) PROVE Inv'
<1> USE DEF Inv
<1>1. TypeOK'
  BY SetTaskType
<1>2. /\ killed' = killed \cup Abortable(current[home[t]])
      /\ current' = [current EXCEPT ![home[t]] = t]
      /\ installing' = installing \ {t}
      /\ UNCHANGED <<pc, kind, home, back>>
  BY DEF SetTask, AbortTasks
<1>3. home \in [Tasks -> Sessions] /\ current \in [Sessions -> Tasks \cup {None}]
  BY DEF TypeOK, StateOK, TaskOK
<1>4. NoOrphan'
  <2> SUFFICES ASSUME NEW u \in Tasks, Live(u)', u \notin killed'
               PROVE  u \in installing' \/ current'[home'[u]] = u \/ Leaving(u)'
    BY DEF NoOrphan
  <2>1. Live(u) /\ u \notin killed
    BY <1>2 DEF Live, Finished
  <2>2. u # current[home[t]]
    BY <1>2, <2>1, Domains DEF Abortable, Live
  <2>3. u \in installing \/ current[home[u]] = u \/ Leaving(u)
    BY <2>1 DEF NoOrphan
  <2>4. Leaving(u)' = Leaving(u)
    BY <1>2 DEF Leaving
  <2> QED
    BY <1>2, <1>3, <2>2, <2>3, <2>4
<1>5. CompactShape'
  BY <1>2 DEF CompactShape
<1> QED
  BY <1>1, <1>4, <1>5

LEMMA RemoveAttended ==
  ASSUME Inv, NEW t \in Tasks, RemoveTask(t), UNCHANGED killed
  PROVE  \A u \in Tasks \ {t} :
           Live(u) /\ u \notin killed' =>
             u \in installing \/ current'[home[u]] = u \/ Leaving(u)
<1>1. home \in [Tasks -> Sessions] /\ current \in [Sessions -> Tasks \cup {None}]
  BY DEF Inv, TypeOK, StateOK, TaskOK
<1> QED
  BY <1>1 DEF RemoveTask, Inv, NoOrphan

\* The task that clears its slot is leaving it.
LEMMA LeaveInv ==
  ASSUME Inv, NEW t \in Tasks, Remove(t) \/ LocalAnswer(t) \/ RemoteClear(t)
  PROVE  Inv'
<1> USE DEF Inv
<1>1. TypeOK'
  BY LeaveType
<1>2. PICK label \in {"complete", "cleared", "reporting"} :
        /\ Goto(t, label) /\ UNCHANGED <<kind, home, installing, killed, back>>
        /\ \/ RemoveTask(t) /\ (label = "cleared" => kind[t] = "compact")
           \/ UNCHANGED current /\ kind[t] # "compact" /\ label = "cleared"
        /\ pc[t] \in {"remove", "compacting", "replaced"}
        /\ pc[t] = "remove" => label = "complete"
        /\ pc[t] = "compacting" => label = "cleared"
        /\ pc[t] = "replaced" => label = "reporting"
  BY DEF Remove, LocalAnswer, RemoteClear, UnchangedBody, At
<1>3. CASE UNCHANGED current /\ kind[t] # "compact" /\ label = "cleared"
  <2>1. Sound(t, label) /\ label \in Labels
    BY <1>2, <1>3 DEF Sound, Leaving, Finished, Labels
  <2> QED
    BY <1>1, <1>2, <1>3, <2>1, SameAttended, MoveInv
<1>4. CASE RemoveTask(t) /\ (label = "cleared" => kind[t] = "compact")
  <2>1. pc'[t] = label /\ \A u \in Tasks \ {t} : pc'[u] = pc[u]
    BY <1>2 DEF Goto, TypeOK, TaskOK
  <2>2. CompactShape'
    BY <1>2, <2>1 DEF CompactShape
  <2>3. NoOrphan'
    <3> SUFFICES ASSUME NEW u \in Tasks, Live(u)', u \notin killed'
                 PROVE  u \in installing' \/ current'[home'[u]] = u \/ Leaving(u)'
      BY DEF NoOrphan
    <3>1. CASE u = t
      BY <1>2, <1>4, <2>1, <3>1 DEF Leaving
    <3>2. CASE u # t
      BY <1>2, <1>4, <2>1, <3>2, RemoveAttended DEF Live, Finished, Leaving
    <3> QED
      BY <3>1, <3>2
  <2> QED
    BY <1>1, <2>2, <2>3
<1> QED
  BY <1>2, <1>3, <1>4

\* Steps of run_agent and of a compaction that touch no slot.
LEMMA TurnMoveInv ==
  ASSUME Inv, NEW t \in Tasks,
         \/ Begin(t) \/ Drain(t) \/ Answered(t) \/ CalledTools(t) \/ Ask(t) \/ Register(t)
         \/ Resume(t) \/ ReviewExit(t) \/ StartQueued(t) \/ Rebuild(t) \/ Die(t)
  PROVE  Inv'
<1> USE DEF Inv
<1>1. TypeOK'
  BY BeginType, DrainType, MoveType, CalledToolsType, PromptType, HistoryType, HandOffType
<1>2. UNCHANGED <<kind, home, installing, killed, back, current>>
  BY DEF Begin, Drain, Answered, CalledTools, Ask, Register, Resume, ReviewExit, StartQueued,
         Rebuild, Die, UnchangedBody, stateVars
<1>3. PICK label \in Labels : Goto(t, label) /\ Sound(t, label)
  <2>1. CASE Begin(t)
    BY <2>1 DEF Begin, At, Sound, Leaving, Finished, Labels
  <2>2. CASE Drain(t)
    <3>1. PICK label \in {"remove", "turn"} : Goto(t, label)
      BY <2>2 DEF Drain
    <3>2. pc[t] \in {"first", "loop"}
      BY <2>2 DEF Drain
    <3> QED
      BY <3>1, <3>2 DEF CompactShape, Sound, Leaving, Finished, Labels, Interruptible
  <2>3. CASE Answered(t) \/ CalledTools(t) \/ Ask(t)
    <3>1. pc[t] = "turn" /\ kind[t] # "compact"
      BY <2>3 DEF Answered, CalledTools, Ask, Requesting, At, CompactShape
    <3>2. PICK label \in {"exit", "remove", "loop", "asking"} : Goto(t, label)
      BY <2>3 DEF Answered, CalledTools, Ask
    <3> QED
      BY <3>1, <3>2 DEF Sound, Leaving, Finished, Labels, Interruptible
  <2>4. CASE Register(t) \/ Resume(t) \/ ReviewExit(t) \/ Rebuild(t)
    <3>1. pc[t] \in {"asking", "waiting", "exit", "rebuilding"} /\ kind[t] # "compact"
      BY <2>4 DEF Register, Resume, ReviewExit, Rebuild, At, CompactShape
    <3>2. PICK label \in {"waiting", "turn", "remove"} : Goto(t, label)
      BY <2>4 DEF Register, Resume, ReviewExit, Rebuild
    <3> QED
      BY <3>1, <3>2 DEF Sound, Leaving, Finished, Labels, Interruptible
  <2>5. CASE StartQueued(t)
    BY <2>5 DEF StartQueued, At, Sound, Finished, Labels
  <2>6. CASE Die(t)
    <3>1. pc[t] \in Interruptible /\ Goto(t, "dead")
      BY <2>6 DEF Die
    <3> QED
      BY <3>1 DEF Sound, Finished, Interruptible, Labels
  <2> QED
    BY <2>1, <2>2, <2>3, <2>4, <2>5, <2>6
<1> QED
  BY <1>1, <1>2, <1>3, SameAttended, MoveInv

LEMMA CompactionMoveInv ==
  ASSUME Inv, NEW t \in Tasks,
         \/ CompactTask(t) \/ CompactInline(t) \/ CompactFirst(t)
         \/ Snapshot(t) \/ Replace(t) \/ RemoteAnswer(t) \/ CompactionFails(t)
         \/ Emergency(t) \/ CompactReport(t)
  PROVE  Inv'
<1> USE DEF Inv
<1>1. TypeOK'
  BY CompactionType, HistoryType, MoveType
<1>2. UNCHANGED <<kind, home, installing, killed, current>>
  BY DEF CompactTask, CompactInline, CompactFirst, BeginCompaction, Snapshot, Replace, RemoteAnswer,
         CompactionFails, Emergency, CompactReport, UnchangedBody, stateVars
<1>3. back \in [Tasks -> {"loop", "turn", "reporting"}]
  BY DEF TypeOK, TaskOK
<1>4. /\ \E label \in Labels : Goto(t, label) /\ Sound(t, label)
      /\ \A u \in Tasks \ {t} : back'[u] = back[u]
  <2>1. CASE CompactTask(t) \/ CompactInline(t) \/ CompactFirst(t)
    <3>1. PICK next \in {"loop", "turn", "reporting"} :
            /\ Goto(t, "compacting") /\ back' = [back EXCEPT ![t] = next]
            /\ \/ pc[t] = "new" /\ next = "reporting"
               \/ pc[t] = "turn"
      BY <2>1 DEF CompactTask, CompactInline, CompactFirst, BeginCompaction, Requesting, At
    <3>2. back'[t] = next /\ \A u \in Tasks \ {t} : back'[u] = back[u]
      BY <1>3, <3>1
    <3>3. kind[t] = "compact" => next = "reporting"
      BY <3>1 DEF CompactShape
    <3> QED
      BY <3>1, <3>2, <3>3 DEF Sound, Leaving, Finished, Labels, Interruptible
  <2>2. CASE Snapshot(t) \/ CompactReport(t)
    <3>1. UNCHANGED back
      BY <2>2 DEF Snapshot, CompactReport
    <3>2. \/ pc[t] = "cleared" /\ Goto(t, "snapped")
          \/ pc[t] = "reporting" /\ Goto(t, "done")
      BY <2>2 DEF Snapshot, CompactReport, At
    <3> QED
      BY <3>1, <3>2 DEF CompactShape, Sound, Leaving, Finished, Labels, Interruptible
  <2>3. CASE Replace(t) \/ RemoteAnswer(t) \/ CompactionFails(t) \/ Emergency(t)
    <3>1. UNCHANGED back
      BY <2>3 DEF Replace, RemoteAnswer, CompactionFails, Emergency
    <3>2. back[t] \in {"loop", "turn", "reporting"}
      BY <1>3
    <3>3. PICK label : Goto(t, label) /\ label \in {"replaced", AfterReplace(t), back[t]}
      BY <2>3 DEF Replace, RemoteAnswer, CompactionFails, Emergency
    <3>4. pc[t] \in {"compacting", "snapped"} /\ (pc[t] = "compacting" \/ label = AfterReplace(t))
      <4>1. CASE Replace(t)
        <5>1. pc[t] = "snapped" /\ Goto(t, AfterReplace(t))
          BY <4>1 DEF Replace, At
        <5> QED
          BY <3>3, <5>1 DEF Goto, TypeOK, TaskOK
      <4>2. CASE RemoteAnswer(t) \/ CompactionFails(t) \/ Emergency(t)
        BY <4>2 DEF RemoteAnswer, CompactionFails, Emergency, At
      <4> QED
        BY <2>3, <4>1, <4>2
    <3>5. label \in {"replaced", "rebuilding", "loop", "turn", "reporting"}
      BY <3>2, <3>3 DEF AfterReplace
    <3>6. kind[t] = "compact" =>
            \/ label = "reporting"
            \/ label = "replaced" /\ pc[t] = "compacting"
      <4>1. kind[t] = "compact" => back[t] = "reporting" /\ AfterReplace(t) = "reporting"
        BY <3>4 DEF AfterReplace, CompactShape
      <4> QED
        BY <3>3, <3>4, <4>1
    <3>7. Sound(t, label)
      BY <3>1, <3>4, <3>5, <3>6 DEF Sound, Leaving, Finished
    <3> QED
      BY <3>1, <3>3, <3>5, <3>7 DEF Labels, Interruptible
  <2> QED
    BY <2>1, <2>2, <2>3
<1> QED
  BY <1>1, <1>2, <1>4, SameAttended, MoveInv

LEMMA StartCompactInv == ASSUME Inv, NEW t \in Tasks, StartCompact(t) PROVE Inv'
<1> USE DEF Inv
<1> DEFINE s == home[t]
           c == Head(compacts[s])
<1>1. TypeOK' /\ Attended /\ UNCHANGED back
  BY HandOffType, SameAttended DEF StartCompact
<1>2. CASE compacts[s] = <<>>
  <2>1. Goto(t, "handoff") /\ UNCHANGED <<kind, home, installing>> /\ pc[t] = "complete"
    BY <1>2 DEF StartCompact, At
  <2>2. Sound(t, "handoff") /\ "handoff" \in Labels
    BY <2>1 DEF CompactShape, Sound, Finished, Labels
  <2> QED
    BY <1>1, <2>1, <2>2, MoveInv
<1>3. CASE compacts[s] # <<>>
  <2>1. c \in Tasks
    <3>1. compacts[s] \in Seq(Submissions)
      BY DEF TypeOK, StateOK, TaskOK
    <3>2. ASSUME NEW q \in Seq(Submissions), q # <<>> PROVE Head(q) \in Submissions
      BY <3>2
    <3> QED
      BY <1>3, <3>1, <3>2, Domains
  <2>2. /\ pc' = [pc EXCEPT ![t] = "done", ![c] = "new"]
        /\ kind' = [kind EXCEPT ![c] = "compact"]
        /\ home' = [home EXCEPT ![c] = s]
        /\ installing' = installing \cup {c}
    BY <1>3 DEF StartCompact
  <2>3. /\ pc'[c] = "new" /\ c \in installing'
        /\ t # c => pc'[t] = "done"
        /\ \A u \in Tasks \ {t, c} : pc'[u] = pc[u]
        /\ \A u \in Tasks \ {c} : kind'[u] = kind[u] /\ home'[u] = home[u]
    BY <2>1, <2>2 DEF TypeOK, TaskOK
  <2>4. CompactShape'
    BY <1>1, <2>3 DEF CompactShape
  <2>5. NoOrphan'
    <3> SUFFICES ASSUME NEW u \in Tasks, Live(u)', u \notin killed'
                 PROVE  u \in installing' \/ current'[home'[u]] = u \/ Leaving(u)'
      BY DEF NoOrphan
    <3>1. CASE u = c
      BY <2>3, <3>1
    <3>2. CASE u # c
      <4>1. u # t
        BY <2>3, <3>2 DEF Live, Finished
      <4> QED
        BY <1>1, <2>2, <2>3, <3>2, <4>1 DEF Attended, Live, Finished, Leaving
    <3> QED
      BY <3>1, <3>2
  <2> QED
    BY <1>1, <2>4, <2>5
<1> QED
  BY <1>2, <1>3

\* The operations of the client.
LEMMA ClientInv == ASSUME Inv, ClientStep PROVE Inv'
<1> USE DEF Inv
<1>1. TypeOK'
  BY StepType DEF Next
<1>2. sess \in Sessions
  BY DEF TypeOK, LoopOK
<1>3. ASSUME NEW i \in Submissions, UserInput(i) \/ EmptyUserInput(i) \/ Review(i)
      PROVE  Inv'
  <2>1. PICK k \in Kinds : Restart(i, k)
    BY <1>3 DEF UserInput, EmptyUserInput, Review, Kinds
  <2>2. Abort(sess) /\ Spawn(i, k, sess) /\ UNCHANGED back
    BY <2>1 DEF Restart
  <2> QED
    BY <1>1, <1>2, <2>2, AbortAttended, SpawnInv, Domains
<1>4. ASSUME NEW i \in Submissions, QueueUserInput(i) \/ Compact(i) PROVE Inv'
  <2>1. UNCHANGED <<killed, current, back>>
    BY <1>4 DEF QueueUserInput, Compact, taskVars, stateVars
  <2>2. \/ UNCHANGED taskVars
        \/ \E k \in Kinds : Spawn(i, k, sess)
    BY <1>4 DEF QueueUserInput, Compact, Kinds
  <2> QED
    BY <1>1, <1>2, <2>1, <2>2, SameAttended, SpawnInv, StillInv, Domains DEF taskVars
<1>5. ASSUME NEW i \in Submissions, Interrupt(i) \/ Shutdown(i) PROVE Inv'
  <2>1. UNCHANGED <<stateVars, taskVars>>
    BY <1>5 DEF Interrupt, Shutdown
  <2> QED
    BY <1>1, <2>1, SameAttended, StillInv DEF stateVars, taskVars
<1>6. CASE ConfigureSession
  <2>1. Abort(sess) /\ UNCHANGED <<pc, kind, home, installing, back>>
    BY <1>6 DEF ConfigureSession
  <2> QED
    BY <1>1, <1>2, <2>1, AbortAttended, StillInv
<1>7. ASSUME NEW t \in Tasks, Approve(t) \/ ApproveAbort(t) PROVE Inv'
  <2>1. UNCHANGED <<pc, kind, home, installing, back>>
    BY <1>7 DEF Approve, ApproveAbort, taskVars
  <2>2. Abort(sess) \/ UNCHANGED <<killed, current>>
    BY <1>7 DEF Approve, ApproveAbort, taskVars
  <2> QED
    BY <1>1, <1>2, <2>1, <2>2, AbortAttended, SameAttended, StillInv
<1> QED
  BY <1>3, <1>4, <1>5, <1>6, <1>7 DEF ClientStep

\* Messages from inside the program.
LEMMA WakeInv == ASSUME Inv, WakeStep \/ \E s \in Sessions : BridgeStart(s) PROVE Inv'
<1> USE DEF Inv
<1>1. TypeOK'
  BY StepType DEF Next, AsyncStep
<1>2. UNCHANGED <<killed, current, back>>
  BY DEF WakeStep, AddPendingInputDeveloper, AgentWake, BridgeRecord, BridgeStart, Enqueue,
         taskVars, stateVars
<1>3. \/ UNCHANGED taskVars
      \/ \E t \in Tasks, s \in Sessions : Spawn(t, "pending", s)
  <2>1. sess \in Sessions /\ 1 \in Sessions
    BY Domains DEF TypeOK, LoopOK
  <2>2. ASSUME NEW w \in Wakes, AddPendingInputDeveloper(w) \/ AgentWake(w)
        PROVE  UNCHANGED taskVars \/ \E t \in Tasks, s \in Sessions : Spawn(t, "pending", s)
    BY <2>1, <2>2, Domains DEF AddPendingInputDeveloper, AgentWake, Enqueue
  <2>3. ASSUME NEW w \in Wakes, NEW s \in Sessions, BridgeRecord(w, s)
        PROVE  UNCHANGED taskVars
    BY <2>3 DEF BridgeRecord
  <2>4. ASSUME NEW s \in Sessions, BridgeStart(s)
        PROVE  UNCHANGED taskVars \/ \E t \in Tasks : Spawn(t, "pending", s)
    BY <2>4 DEF BridgeStart, TypeOK, AsyncOK
  <2> QED
    BY <2>2, <2>3, <2>4 DEF WakeStep
<1> QED
  BY <1>1, <1>2, <1>3, SameAttended, SpawnInv, StillInv DEF taskVars, Kinds

\* Detached tasks, and the second halves of the operations.
LEMMA DetachedInv ==
  ASSUME Inv,
         \/ QueuePush \/ CompactPush
         \/ \E i \in Submissions, s \in Sessions : AbortLater(i, s) \/ RunQueued(i, s)
         \/ \E t \in Tasks : ExitAborted(t) \/ ReportAborted(t)
  PROVE  Inv'
<1> USE DEF Inv
<1>1. TypeOK'
  BY StepType DEF Next, AsyncStep
<1>2. CASE QueuePush \/ CompactPush
  <2>1. UNCHANGED <<current, taskVars>>
    BY <1>2 DEF QueuePush, CompactPush
  <2> QED
    BY <1>1, <2>1, SameAttended, StillInv DEF taskVars
<1>3. ASSUME NEW i \in Submissions, NEW s \in Sessions, AbortLater(i, s) PROVE Inv'
  <2>1. Abort(s) /\ UNCHANGED <<pc, kind, home, installing, back>>
    BY <1>3 DEF AbortLater
  <2> QED
    BY <1>1, <2>1, AbortAttended, StillInv
<1>4. ASSUME NEW i \in Submissions, NEW s \in Sessions, RunQueued(i, s) PROVE Inv'
  <2>1. Spawn(i, "regular", s) /\ UNCHANGED <<stateVars, killed, back>>
    BY <1>4 DEF RunQueued
  <2> QED
    BY <1>1, <2>1, SameAttended, SpawnInv, Domains DEF stateVars, Kinds
<1>5. ASSUME NEW t \in Tasks, ExitAborted(t) \/ ReportAborted(t) PROVE Inv'
  <2>1. UNCHANGED <<current, taskVars>>
    BY <1>5 DEF ExitAborted, ReportAborted, stateVars
  <2> QED
    BY <1>1, <2>1, SameAttended, StillInv DEF taskVars
<1> QED
  BY <1>2, <1>3, <1>4, <1>5

LEMMA StepInv == Inv /\ [Next]_vars => Inv'
<1> SUFFICES ASSUME Inv, [Next]_vars PROVE Inv'
  OBVIOUS
<1>1. CASE ClientStep
  BY <1>1, ClientInv
<1>2. CASE WakeStep
  BY <1>2, WakeInv
<1>3. CASE AsyncStep
  BY <1>3, DetachedInv, WakeInv, SetTaskInv, TurnMoveInv DEF AsyncStep
<1>4. ASSUME NEW t \in Tasks, TurnStep(t) PROVE Inv'
  BY <1>4, TurnMoveInv, LeaveInv, StartCompactInv DEF TurnStep
<1>5. ASSUME NEW t \in Tasks, CompactionStep(t) PROVE Inv'
  BY <1>5, CompactionMoveInv, LeaveInv, TurnMoveInv DEF CompactionStep
<1>6. CASE UNCHANGED vars
  <2>1. UNCHANGED <<stateVars, taskVars>>
    BY <1>6 DEF vars
  <2> QED
    BY <1>6, <2>1, SameAttended, StillInv, StepType DEF stateVars, taskVars, Inv
<1> QED
  BY <1>1, <1>2, <1>3, <1>4, <1>5, <1>6 DEF Next, TaskStep

\* A task that runs, and was not aborted, is in the slot of its session or on
\* its way in or out: whatever the client, the bridge, the forwarder and the
\* detached tasks do, an interrupt can still reach it.
THEOREM NoOrphanHolds == Spec => []NoOrphan
<1>1. Inv => NoOrphan
  BY DEF Inv
<1> QED
  BY <1>1, InitInv, StepInv, PTL DEF Spec

=============================================================================

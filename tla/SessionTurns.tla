---------------------------- MODULE SessionTurns ----------------------------
(***************************************************************************)
(* The session and turn engine of code-rs/core/src/codex: the submission   *)
(* loop, the task slot of a Session, the agent tasks it spawns (a user     *)
(* turn, a pending-only turn, a review, a compaction), the queues that     *)
(* feed them, and the detached tokio tasks that act on the session later.  *)
(*                                                                         *)
(* Session::state is one mutex: a step of this module is one critical      *)
(* section, together with the local code around it that nobody else can    *)
(* observe.  A task that is aborted keeps running until its poll returns   *)
(* Pending; the steps that wait for the outside world are closed to it.    *)
(*                                                                         *)
(* A submission is named by its number, which is also the sub_id of the    *)
(* task it starts and the name of the message it carries.  A wake-up (an   *)
(* internal developer message) is named by the internal sub_id of the      *)
(* pending-only turn it may start.                                         *)
(***************************************************************************)
EXTENDS Naturals, Sequences, FiniteSets

CONSTANTS Ops,                \* the operations, and the optional behaviours, of a run
          MaxSubmissions,     \* bound on numbered submissions
          MaxWakes,           \* bound on developer messages and bridge events
          MaxSessions,        \* bound on ConfigureSession, plus one
          MaxExtraTurns,      \* bound on turns with tool calls
          MaxPendingCompacts  \* MAX_PENDING_MANUAL_COMPACTS

ASSUME BoundsAssumption ==
  /\ MaxSubmissions \in Nat /\ MaxWakes \in Nat /\ MaxExtraTurns \in Nat
  /\ MaxSessions \in Nat \ {0} /\ MaxPendingCompacts \in Nat \ {0}

Submissions == 1 .. MaxSubmissions
Wakes == MaxSubmissions + 1 .. MaxSubmissions + MaxWakes
Tasks == Submissions \cup Wakes
Sessions == 1 .. MaxSessions
None == 0
ToolOutput == 0               \* any tool output in pending_input
Messages == Tasks \cup {ToolOutput}

VARIABLES
  \* the submission loop
  sess,        \* the session the loop talks to
  loop,        \* where it is, and the last task it spawned (or the submission in hand)
  nextSub, nextWake,
  \* Session::state, one per configured session
  current,     \* current_task
  queue,       \* pending_user_input
  pending,     \* pending_input
  compacts,    \* pending_manual_compacts
  approvals,   \* pending_approvals, by the task that asked
  history,     \* the messages the conversation history covers
  \* agent tasks
  pc, kind, home,
  installing,  \* spawned, set_task still to come
  killed,      \* AbortHandle::abort was called
  snap,        \* the history a compaction works from
  back,        \* where a task goes on after a compaction
  auto,        \* an automatic compaction of its turn: it "may" come, is "due"
               \* before the next request, or "ran" since the last tool calls
  given,       \* the messages each task has drained from the queues
  extra,       \* turns with tool calls so far
  \* detached tokio tasks, and the actors outside the loop
  interrupts,  \* <<submission, session>>: abort() to come
  starting,    \* <<queued submission, session>>: spawn and set_task to come
  exiting, reporting,  \* aborted tasks: exit_review_mode, then TurnAborted, to come
  forwarder,   \* the last task the agent-status forwarder spawned
  bridge,      \* per session, the bridge listener
  \* what the client has seen
  asked,       \* the approval prompt of each task: "no", "shown" or "answered"
  queued,      \* submissions that went through pending_user_input
  exited,      \* reviews reported with ExitedReviewMode
  aborted      \* tasks reported with TurnAborted

loopVars == <<sess, loop, nextSub, nextWake>>
stateVars == <<current, queue, pending, compacts, approvals, history>>
taskVars == <<pc, kind, home, installing, killed, snap, back, auto, given, extra>>
asyncVars == <<interrupts, starting, exiting, reporting, forwarder, bridge>>
seenVars == <<asked, queued, exited, aborted>>
vars == <<loopVars, stateVars, taskVars, asyncVars, seenVars>>

Init ==
  /\ sess = 1 /\ loop = [at |-> "ready", id |-> None]
  /\ nextSub = 1 /\ nextWake = MaxSubmissions + 1
  /\ current = [s \in Sessions |-> None]
  /\ queue = [s \in Sessions |-> <<>>]
  /\ pending = [s \in Sessions |-> <<>>]
  /\ compacts = [s \in Sessions |-> <<>>]
  /\ approvals = [s \in Sessions |-> {}]
  /\ history = [s \in Sessions |-> {}]
  /\ pc = [t \in Tasks |-> "none"]
  /\ kind = [t \in Tasks |-> "none"]
  /\ home = [t \in Tasks |-> 1]
  /\ installing = {} /\ killed = {}
  /\ snap = [t \in Tasks |-> {}] /\ back = [t \in Tasks |-> "loop"]
  /\ auto = [t \in Tasks |-> "may"]
  /\ given = [t \in Tasks |-> {}]
  /\ extra = 0
  /\ interrupts = {} /\ starting = {} /\ exiting = {} /\ reporting = {}
  /\ forwarder = None
  /\ bridge = [s \in Sessions |-> [at |-> "idle", id |-> None]]
  /\ asked = [t \in Tasks |-> "no"]
  /\ queued = {} /\ exited = {} /\ aborted = {}

Items(seq) == {seq[i] : i \in DOMAIN seq}

-----------------------------------------------------------------------------
(* The task slot.                                                          *)

Finished(t) == pc[t] \in {"done", "dead"}

\* AgentTask::abort stops a task that has not finished ...
Abortable(t) == IF t = None \/ Finished(t) THEN {} ELSE {t}

\* ... and leaves it to a detached task to report that, after leaving review
\* mode if it was a review.  Variant: no exit.
AbortTasksAlike(T) ==
  /\ killed' = killed \cup T
  /\ reporting' = reporting \cup T
  /\ UNCHANGED exiting

AbortTasks(T) ==
  /\ killed' = killed \cup T
  /\ exiting' = exiting \cup {t \in T : kind[t] = "review"}
  /\ reporting' = reporting \cup {t \in T : kind[t] # "review"}

\* Variant: abort clears pending_input.
AbortClearsPending(s) ==
  /\ AbortTasks(Abortable(current[s]))
  /\ current' = [current EXCEPT ![s] = None]
  /\ approvals' = [approvals EXCEPT ![s] = {}]
  /\ pending' = [pending EXCEPT ![s] = <<>>]
  /\ UNCHANGED <<queue, compacts>>

\* Session::abort leaves pending_input, pending_user_input and
\* pending_manual_compacts alone.
Abort(s) ==
  /\ AbortTasks(Abortable(current[s]))
  /\ current' = [current EXCEPT ![s] = None]
  /\ approvals' = [approvals EXCEPT ![s] = {}]
  /\ UNCHANGED <<queue, pending, compacts>>

\* AgentTask::{spawn, compact, review}: the task can run at once; set_task follows.
Spawn(t, k, s) ==
  /\ pc' = [pc EXCEPT ![t] = "new"]
  /\ kind' = [kind EXCEPT ![t] = k]
  /\ home' = [home EXCEPT ![t] = s]
  /\ installing' = installing \cup {t}

SetTask(t) ==
  LET s == home[t] IN
  /\ t \in installing
  /\ installing' = installing \ {t}
  /\ AbortTasks(Abortable(current[s]))
  /\ current' = [current EXCEPT ![s] = t]
  /\ UNCHANGED <<loopVars, queue, pending, compacts, approvals, history, pc, kind, home,
                 snap, back, auto, given, extra, interrupts, starting, forwarder, bridge, seenVars>>

\* Only its own task (the variant: whatever the slot holds).
RemoveAnyTask(t) == current' = [current EXCEPT ![home[t]] = None]
RemoveTask(t) ==
  current' = [current EXCEPT ![home[t]] = IF @ = t THEN None ELSE @]

-----------------------------------------------------------------------------
(* The submission loop: one operation after the other.                     *)

Ready == loop.at = "ready" /\ loop.id \notin installing

\* Takes the next submission, in the order the client numbered them.
Take(op, i) ==
  /\ Ready /\ op \in Ops
  /\ nextSub <= MaxSubmissions /\ i = nextSub /\ nextSub' = nextSub + 1
  /\ UNCHANGED <<sess, nextWake>>

Now(at, id) == loop' = [at |-> at, id |-> id]

\* Spawning cannot disturb, or be disturbed by, what happens between the
\* abort and the spawn: the two are one step here.
Restart(i, k) ==
  /\ Abort(sess)
  /\ Spawn(i, k, sess)
  /\ Now("ready", i)
  /\ UNCHANGED <<history, snap, back, auto, given, extra, interrupts, starting, forwarder, bridge,
                 seenVars>>

UserInput(i) == Take("UserInput", i) /\ Restart(i, "regular")

\* Op::UserInput whose items are empty.
EmptyUserInput(i) == Take("EmptyUserInput", i) /\ Restart(i, "empty")

Review(i) == Take("Review", i) /\ Restart(i, "review")

\* has_running_task() decides; the push is another critical section.
QueueUserInput(i) ==
  /\ Take("QueueUserInput", i)
  /\ IF current[sess] # None
       THEN Now("queue", i) /\ UNCHANGED taskVars
       ELSE /\ Spawn(i, "regular", sess) /\ Now("ready", i)
            /\ UNCHANGED <<killed, snap, back, auto, given, extra>>
  /\ UNCHANGED <<stateVars, asyncVars, seenVars>>

QueuePush ==
  /\ loop.at = "queue"
  /\ queue' = [queue EXCEPT ![sess] = Append(@, loop.id)]
  /\ queued' = queued \cup {loop.id}
  /\ Now("ready", None)
  /\ UNCHANGED <<sess, nextSub, nextWake, current, pending, compacts, approvals, history,
                 taskVars, asyncVars, asked, exited, aborted>>

\* inject_input decides; with a task running, the prompt goes to it and the
\* request is queued as well, in another critical section.
Compact(i) ==
  /\ Take("Compact", i)
  /\ IF current[sess] # None
       THEN /\ pending' = [pending EXCEPT ![sess] = Append(@, i)]
            /\ Now("compact", i)
            /\ UNCHANGED taskVars
       ELSE /\ Spawn(i, "compact", sess) /\ Now("ready", i)
            /\ UNCHANGED <<pending, killed, snap, back, auto, given, extra>>
  /\ UNCHANGED <<current, queue, compacts, approvals, history, asyncVars, seenVars>>

\* enqueue_manual_compact drops the oldest request when the queue is full.
PushedUncapped(seq, i) == Append(seq, i)
Pushed(seq, i) == Append(IF Len(seq) >= MaxPendingCompacts THEN Tail(seq) ELSE seq, i)

CompactPush ==
  /\ loop.at = "compact"
  /\ compacts' = [compacts EXCEPT ![sess] = Pushed(@, loop.id)]
  /\ Now("ready", None)
  /\ UNCHANGED <<sess, nextSub, nextWake, current, queue, pending, approvals, history,
                 taskVars, asyncVars, seenVars>>

\* The abort runs in a detached task.
Interrupt(i) ==
  /\ Take("Interrupt", i)
  /\ interrupts' = interrupts \cup {<<i, sess>>}
  /\ Now("ready", None)
  /\ UNCHANGED <<stateVars, taskVars, starting, exiting, reporting, forwarder, bridge, seenVars>>

\* As Interrupt, and the loop ends.
Shutdown(i) ==
  /\ Take("Shutdown", i)
  /\ interrupts' = interrupts \cup {<<i, sess>>}
  /\ Now("closed", None)
  /\ UNCHANGED <<stateVars, taskVars, starting, exiting, reporting, forwarder, bridge, seenVars>>

AbortLater(i, s) ==
  /\ <<i, s>> \in interrupts
  /\ interrupts' = interrupts \ {<<i, s>>}
  /\ Abort(s)
  /\ UNCHANGED <<loopVars, history, pc, kind, home, installing, snap, back, auto, given, extra,
                 starting, forwarder, bridge, seenVars>>

\* ExecApproval or PatchApproval with a decision other than Abort: the waiter's
\* oneshot is taken out of pending_approvals and resolved, if it is there.
Approve(t) ==
  /\ Ready /\ asked[t] = "shown"
  /\ asked' = [asked EXCEPT ![t] = "answered"]
  /\ approvals' = [approvals EXCEPT ![sess] = @ \ {t}]
  /\ UNCHANGED <<loopVars, current, queue, pending, compacts, history, taskVars, asyncVars,
                 queued, exited, aborted>>

ApproveAbort(t) ==
  /\ Ready /\ asked[t] = "shown"
  /\ asked' = [asked EXCEPT ![t] = "answered"]
  /\ Abort(sess)
  /\ UNCHANGED <<loopVars, history, pc, kind, home, installing, snap, back, auto, given, extra,
                 interrupts, starting, forwarder, bridge, queued, exited, aborted>>

\* ConfigureSession: the old session is aborted, partial_clone copies the
\* history (and none of the queues), and the loop turns to the new session.
ConfigureSession ==
  /\ Ready /\ "ConfigureSession" \in Ops /\ sess < MaxSessions
  /\ Abort(sess)
  /\ sess' = sess + 1
  /\ history' = [history EXCEPT ![sess + 1] = history[sess]]
  /\ Now("ready", None)
  /\ UNCHANGED <<nextSub, nextWake, pc, kind, home, installing, snap, back, auto, given, extra,
                 interrupts, starting, forwarder, bridge, seenVars>>

-----------------------------------------------------------------------------
(* Messages from inside the program.                                       *)

TakeWake(w) ==
  /\ nextWake <= MaxSubmissions + MaxWakes
  /\ w = nextWake /\ nextWake' = nextWake + 1

\* enqueue_out_of_turn_item pushes the message and tells, in the same critical
\* section, whether a turn must be started for it.
Enqueue(w, s) ==
  /\ pending' = [pending EXCEPT ![s] = Append(@, w)]
  /\ IF current[s] = None
       THEN Spawn(w, "pending", s) /\ UNCHANGED <<killed, snap, back, auto, given, extra>>
       ELSE UNCHANGED taskVars
  /\ UNCHANGED <<current, queue, compacts, approvals, history>>

AddPendingInputDeveloper(w) ==
  /\ Ready /\ "AddPendingInputDeveloper" \in Ops
  /\ TakeWake(w) /\ UNCHANGED <<sess, nextSub>>
  /\ Enqueue(w, sess)
  /\ Now("ready", IF current[sess] = None THEN w ELSE None)
  /\ UNCHANGED <<asyncVars, seenVars>>

\* The agent-status forwarder is started once, for the first session, and
\* wakes it when a batch of agents has finished.
AgentWake(w) ==
  /\ "AgentWake" \in Ops /\ forwarder \notin installing
  /\ TakeWake(w) /\ UNCHANGED <<sess, loop, nextSub>>
  /\ Enqueue(w, 1)
  /\ forwarder' = IF current[1] = None THEN w ELSE forwarder
  /\ UNCHANGED <<interrupts, starting, exiting, reporting, bridge, seenVars>>

\* flush_batch with an error event: the message is recorded in the history...
BridgeRecord(w, s) ==
  /\ "Bridge" \in Ops /\ s <= sess
  /\ bridge[s].at = "idle" /\ bridge[s].id \notin installing
  /\ TakeWake(w) /\ UNCHANGED <<sess, loop, nextSub>>
  /\ history' = [history EXCEPT ![s] = @ \cup {w}]
  /\ bridge' = [bridge EXCEPT ![s] = [at |-> "check", id |-> w]]
  /\ UNCHANGED <<current, queue, pending, compacts, approvals, taskVars,
                 interrupts, starting, exiting, reporting, forwarder, seenVars>>

\* ... and start_pending_only_turn_if_idle starts a turn if there is none.
BridgeStart(s) ==
  /\ bridge[s].at = "check"
  /\ bridge' = [bridge EXCEPT ![s].at = "idle"]
  /\ IF current[s] = None
       THEN /\ Spawn(bridge[s].id, "pending", s)
            /\ UNCHANGED <<killed, snap, back, auto, given, extra>>
       ELSE UNCHANGED taskVars
  /\ UNCHANGED <<loopVars, stateVars, interrupts, starting, exiting, reporting, forwarder,
                 seenVars>>

-----------------------------------------------------------------------------
(* run_agent: an agent task, from its first poll to its last.              *)

At(t, label) == pc[t] = label
Goto(t, label) == pc' = [pc EXCEPT ![t] = label]
Record(t, M) == history' = [history EXCEPT ![home[t]] = @ \cup M]
UnchangedBody == UNCHANGED <<kind, home, installing, killed, extra, loopVars, asyncVars>>

\* The submission's message is recorded, except a review's, which has a
\* history of its own.  No input at all: run_agent returns, and nothing else.
Begin(t) ==
  /\ At(t, "new") /\ kind[t] # "compact"
  /\ Goto(t, IF kind[t] = "empty" THEN "done" ELSE "first")
  /\ Record(t, IF kind[t] = "regular" THEN {t} ELSE {})
  /\ UnchangedBody
  /\ UNCHANGED <<current, queue, pending, compacts, approvals, snap, back, auto, given, seenVars>>

\* get_pending_input_filtered, what run_agent records of it, and the branches
\* before the request.  A review copies the queued user input and leaves it.
Got(t) == Items(pending[home[t]]) \cup Items(queue[home[t]])

\* pending_user_input afterwards.  Variant: always copied.
CopiedQueue(t) == queue
QueueAfter(t) == IF kind[t] = "review" THEN queue ELSE [queue EXCEPT ![home[t]] = <<>>]

Drain(t) ==
  LET s == home[t]
      nothing == At(t, "first") /\ kind[t] = "pending" /\ Got(t) = {}
      first == IF pending[s] # <<>> THEN Head(pending[s]) ELSE Head(queue[s])
      recorded == IF At(t, "loop") THEN Got(t)
                  ELSE IF kind[t] = "pending" THEN {first} ELSE {}
  IN
  /\ pc[t] \in {"first", "loop"}
  /\ pending' = [pending EXCEPT ![s] = <<>>]
  /\ queue' = QueueAfter(t)
  /\ given' = [given EXCEPT ![t] = @ \cup Got(t)]
  /\ Goto(t, IF nothing THEN "remove" ELSE "turn")
  /\ Record(t, IF nothing THEN {} ELSE recorded \ {ToolOutput})
  /\ UnchangedBody
  /\ UNCHANGED <<current, compacts, approvals, snap, back, auto, seenVars>>

\* run_turn: the request is out, and is answered unless the task is aborted.
Requesting(t) == At(t, "turn") /\ t \notin killed /\ auto[t] # "due"

\* The model's answer is a final message, or an error that is not retried.
Answered(t) ==
  /\ Requesting(t)
  /\ Goto(t, IF kind[t] = "review" THEN "exit" ELSE "remove")
  /\ UnchangedBody
  /\ UNCHANGED <<stateVars, snap, back, auto, given, seenVars>>

\* The answer holds tool calls: their outputs become pending input, and with
\* the token limit reached the next request waits for a compaction.
Compactable(t) == kind[t] # "review" /\ "AutoCompact" \in Ops

CalledTools(t) ==
  /\ Requesting(t)
  /\ extra < MaxExtraTurns /\ extra' = extra + 1
  /\ pending' = IF kind[t] = "review" THEN pending
                ELSE [pending EXCEPT ![home[t]] = Append(@, ToolOutput)]
  /\ \/ auto' = [auto EXCEPT ![t] = "may"]
     \/ Compactable(t) /\ auto' = [auto EXCEPT ![t] = "due"]
  /\ Goto(t, "loop")
  /\ UNCHANGED <<current, queue, compacts, approvals, history, kind, home, installing,
                 killed, snap, back, given, loopVars, asyncVars, seenVars>>

\* request_command_approval: the client sees the prompt ...
Ask(t) ==
  /\ Requesting(t) /\ asked[t] = "no" /\ "Approve" \in Ops
  /\ asked' = [asked EXCEPT ![t] = "shown"]
  /\ Goto(t, "asking")
  /\ UnchangedBody
  /\ UNCHANGED <<stateVars, snap, back, auto, given, queued, exited, aborted>>

\* ... before the task has entered pending_approvals.
Register(t) ==
  /\ At(t, "asking")
  /\ approvals' = [approvals EXCEPT ![home[t]] = @ \cup {t}]
  /\ Goto(t, "waiting")
  /\ UnchangedBody
  /\ UNCHANGED <<current, queue, pending, compacts, history, snap, back, auto, given, seenVars>>

\* The oneshot is resolved, or dropped by abort.
Resume(t) ==
  /\ At(t, "waiting") /\ t \notin killed /\ t \notin approvals[home[t]]
  /\ Goto(t, "turn")
  /\ UnchangedBody
  /\ UNCHANGED <<stateVars, snap, back, auto, given, seenVars>>

ReviewExit(t) ==
  /\ At(t, "exit")
  /\ exited' = exited \cup {t}
  /\ Record(t, {t})
  /\ Goto(t, "remove")
  /\ UnchangedBody
  /\ UNCHANGED <<current, queue, pending, compacts, approvals, snap, back, auto, given,
                 asked, queued, aborted>>

Remove(t) ==
  /\ At(t, "remove")
  /\ RemoveTask(t)
  /\ Goto(t, "complete")
  /\ UnchangedBody
  /\ UNCHANGED <<queue, pending, compacts, approvals, history, snap, back, auto, given, seenVars>>

\* After TaskComplete: a manual compaction that waits goes first ...
StartCompact(t) ==
  LET s == home[t] IN
  /\ At(t, "complete")
  /\ IF compacts[s] = <<>>
       THEN /\ Goto(t, "handoff")
            /\ UNCHANGED <<compacts, kind, home, installing>>
       ELSE LET c == Head(compacts[s]) IN
            /\ compacts' = [compacts EXCEPT ![s] = Tail(@)]
            /\ pc' = [pc EXCEPT ![t] = "done", ![c] = "new"]
            /\ kind' = [kind EXCEPT ![c] = "compact"]
            /\ home' = [home EXCEPT ![c] = s]
            /\ installing' = installing \cup {c}
  /\ UNCHANGED <<current, queue, pending, approvals, history, killed, snap, back, auto, given,
                 extra, loopVars, asyncVars, seenVars>>

\* ... and only without one a queued user input is taken.  (The variant leaves
\* it in the queue.)
QueuePeeked(s) == queue
QueuePopped(s) == [queue EXCEPT ![s] = Tail(@)]

StartQueued(t) ==
  LET s == home[t] IN
  /\ At(t, "handoff")
  /\ Goto(t, "done")
  /\ IF queue[s] = <<>>
       THEN UNCHANGED <<queue, starting>>
       ELSE /\ queue' = QueuePopped(s)
            /\ starting' = starting \cup {<<Head(queue[s]), s>>}
  /\ UNCHANGED <<current, pending, compacts, approvals, history, kind, home, installing,
                 killed, snap, back, auto, given, extra, loopVars, interrupts, exiting, reporting,
                 forwarder, bridge, seenVars>>

RunQueued(q, s) ==
  /\ <<q, s>> \in starting
  /\ starting' = starting \ {<<q, s>>}
  /\ Spawn(q, "regular", s)
  /\ UNCHANGED <<loopVars, stateVars, killed, snap, back, auto, given, extra, interrupts,
                 exiting, reporting, forwarder, bridge, seenVars>>

-----------------------------------------------------------------------------
(* Compaction: of a task of its own, or inline in a turn.                  *)

\* A compaction reads the history it will have summarised.
BeginCompaction(t, next) ==
  /\ Goto(t, "compacting")
  /\ snap' = [snap EXCEPT ![t] = history[home[t]]]
  /\ back' = [back EXCEPT ![t] = next]
  /\ UnchangedBody
  /\ UNCHANGED <<stateVars, given, seenVars>>

CompactTask(t) ==
  /\ At(t, "new") /\ kind[t] = "compact"
  /\ BeginCompaction(t, "reporting") /\ UNCHANGED auto

\* The token limit is reached with a final message: the loop goes round once
\* more, after a compaction, unless one ran already.  (The variant forgets
\* that it did.)
CompactAgain(t) ==
  /\ Requesting(t) /\ Compactable(t)
  /\ BeginCompaction(t, "loop") /\ auto' = [auto EXCEPT ![t] = "ran"]

CompactInline(t) ==
  /\ Requesting(t) /\ Compactable(t) /\ auto[t] = "may"
  /\ BeginCompaction(t, "loop") /\ auto' = [auto EXCEPT ![t] = "ran"]

\* It was reached with tool calls.
CompactFirst(t) ==
  /\ At(t, "turn") /\ auto[t] = "due"
  /\ BeginCompaction(t, "turn") /\ UNCHANGED auto

\* Local: a compact task leaves the slot first, then the history is read
\* again, then replaced.
LocalAnswer(t) ==
  /\ At(t, "compacting") /\ t \notin killed
  /\ IF kind[t] = "compact" THEN RemoveTask(t) ELSE UNCHANGED current
  /\ Goto(t, "cleared")
  /\ UnchangedBody
  /\ UNCHANGED <<queue, pending, compacts, approvals, history, snap, back, auto, given, seenVars>>

Snapshot(t) ==
  /\ At(t, "cleared")
  /\ snap' = [snap EXCEPT ![t] = history[home[t]]]
  /\ Goto(t, "snapped")
  /\ UnchangedBody
  /\ UNCHANGED <<stateVars, back, auto, given, seenVars>>

\* Before a request the caller replaces the history once more.
AfterReplace(t) == IF back[t] = "turn" THEN "rebuilding" ELSE back[t]

Replace(t) ==
  /\ At(t, "snapped")
  /\ history' = [history EXCEPT ![home[t]] = snap[t]]
  /\ Goto(t, AfterReplace(t))
  /\ UnchangedBody
  /\ UNCHANGED <<current, queue, pending, compacts, approvals, snap, back, auto, given, seenVars>>

\* Remote: the history read at the start is what is put back; a compact task
\* leaves the slot afterwards.
RemoteAnswer(t) ==
  /\ At(t, "compacting") /\ t \notin killed
  /\ history' = [history EXCEPT ![home[t]] = snap[t]]
  /\ Goto(t, IF kind[t] = "compact" THEN "replaced" ELSE AfterReplace(t))
  /\ UnchangedBody
  /\ UNCHANGED <<current, queue, pending, compacts, approvals, snap, back, auto, given, seenVars>>

RemoteClear(t) ==
  /\ At(t, "replaced")
  /\ RemoveTask(t)
  /\ Goto(t, "reporting")
  /\ UnchangedBody
  /\ UNCHANGED <<queue, pending, compacts, approvals, history, snap, back, auto, given, seenVars>>

Rebuild(t) ==
  /\ At(t, "rebuilding")
  /\ history' = [history EXCEPT ![home[t]] = snap[t]]
  /\ auto' = [auto EXCEPT ![t] = "ran"]
  /\ Goto(t, "turn")
  /\ UnchangedBody
  /\ UNCHANGED <<current, queue, pending, compacts, approvals, snap, back, given, seenVars>>

\* Retries are used up: nothing is replaced and no slot is cleared.
CompactionFails(t) ==
  /\ At(t, "compacting") /\ t \notin killed
  /\ Goto(t, back[t])
  /\ auto' = [auto EXCEPT ![t] = IF @ = "due" THEN "may" ELSE @]
  /\ UnchangedBody
  /\ UNCHANGED <<stateVars, snap, back, given, seenVars>>

\* Local only: the history does not fit even alone, and is reset.
Emergency(t) ==
  /\ At(t, "compacting") /\ t \notin killed
  /\ history' = [history EXCEPT ![home[t]] = {}]
  /\ snap' = [snap EXCEPT ![t] = {}]
  /\ Goto(t, AfterReplace(t))
  /\ UnchangedBody
  /\ UNCHANGED <<current, queue, pending, compacts, approvals, back, auto, given, seenVars>>

\* TaskComplete of a compact task; no hand-off follows it.
CompactReport(t) ==
  /\ At(t, "reporting")
  /\ Goto(t, "done")
  /\ UnchangedBody
  /\ UNCHANGED <<stateVars, snap, back, auto, given, seenVars>>

-----------------------------------------------------------------------------
(* The end of an aborted task, and what it leaves to a detached task.      *)

\* The variant blocks, without an await, on an approval.
UninterruptiblePrompt == {"new", "first", "loop", "turn", "asking", "exit",
                          "compacting", "replaced", "rebuilding", "reporting"}
Interruptible == {"new", "first", "loop", "turn", "asking", "waiting", "exit",
                  "compacting", "replaced", "rebuilding", "reporting"}

Die(t) ==
  /\ t \in killed /\ pc[t] \in Interruptible
  /\ Goto(t, "dead")
  /\ UnchangedBody
  /\ UNCHANGED <<stateVars, snap, back, auto, given, seenVars>>

ExitAborted(t) ==
  /\ t \in exiting
  /\ exiting' = exiting \ {t} /\ reporting' = reporting \cup {t}
  /\ exited' = exited \cup {t}
  /\ Record(t, {t})
  /\ UNCHANGED <<loopVars, current, queue, pending, compacts, approvals, taskVars,
                 interrupts, starting, forwarder, bridge, asked, queued, aborted>>

ReportAborted(t) ==
  /\ t \in reporting
  /\ reporting' = reporting \ {t}
  /\ aborted' = aborted \cup {t}
  /\ UNCHANGED <<loopVars, stateVars, taskVars, interrupts, starting, exiting, forwarder,
                 bridge, asked, queued, exited>>

-----------------------------------------------------------------------------
ClientStep ==
  \/ \E i \in Submissions :
       \/ UserInput(i) \/ EmptyUserInput(i) \/ QueueUserInput(i)
       \/ Compact(i) \/ Review(i) \/ Interrupt(i) \/ Shutdown(i)
  \/ ConfigureSession
  \/ \E t \in Tasks : Approve(t) \/ ApproveAbort(t)

WakeStep ==
  \E w \in Wakes :
    \/ AddPendingInputDeveloper(w) \/ AgentWake(w)
    \/ \E s \in Sessions : BridgeRecord(w, s)

TurnStep(t) ==
  \/ Begin(t) \/ Drain(t) \/ Answered(t) \/ CalledTools(t)
  \/ Ask(t) \/ Register(t) \/ Resume(t)
  \/ ReviewExit(t) \/ Remove(t) \/ StartCompact(t) \/ StartQueued(t)

CompactionStep(t) ==
  \/ CompactTask(t) \/ CompactInline(t) \/ CompactFirst(t)
  \/ LocalAnswer(t) \/ Snapshot(t) \/ Replace(t)
  \/ RemoteAnswer(t) \/ RemoteClear(t) \/ Rebuild(t)
  \/ CompactionFails(t) \/ Emergency(t) \/ CompactReport(t)

TaskStep(t) == TurnStep(t) \/ CompactionStep(t)

AsyncStep ==
  \/ QueuePush \/ CompactPush
  \/ \E i \in Submissions, s \in Sessions : AbortLater(i, s) \/ RunQueued(i, s)
  \/ \E s \in Sessions : BridgeStart(s)
  \/ \E t \in Tasks : SetTask(t) \/ Die(t) \/ ExitAborted(t) \/ ReportAborted(t)

Next == ClientStep \/ WakeStep \/ AsyncStep \/ \E t \in Tasks : TaskStep(t)

\* The runtime polls what can run, and the model answers in the end (a stream
\* has an idle timeout and a bounded number of retries).  The client owes no
\* operation, and nobody owes a wake-up.
Fairness ==
  /\ WF_vars(QueuePush) /\ WF_vars(CompactPush)
  /\ \A i \in Submissions, s \in Sessions : WF_vars(AbortLater(i, s)) /\ WF_vars(RunQueued(i, s))
  /\ \A s \in Sessions : WF_vars(BridgeStart(s))
  /\ \A t \in Tasks : /\ WF_vars(SetTask(t)) /\ WF_vars(TaskStep(t)) /\ WF_vars(Die(t))
                      /\ WF_vars(ExitAborted(t)) /\ WF_vars(ReportAborted(t))

Spec == Init /\ [][Next]_vars /\ Fairness

-----------------------------------------------------------------------------
(* Properties.                                                             *)

Labels == {"none", "done", "dead", "first", "loop", "turn", "remove", "complete", "handoff",
           "cleared", "snapped"} \cup Interruptible

Kinds == {"none", "regular", "empty", "pending", "review", "compact"}

LoopOK ==
  /\ sess \in Sessions
  /\ loop \in [at : {"ready", "queue", "compact", "closed"}, id : Tasks \cup {None}]
  /\ loop.at \in {"queue", "compact"} => loop.id \in Submissions
  /\ nextSub \in 1 .. MaxSubmissions + 1
  /\ nextWake \in MaxSubmissions + 1 .. MaxSubmissions + MaxWakes + 1

StateOK ==
  /\ current \in [Sessions -> Tasks \cup {None}]
  /\ queue \in [Sessions -> Seq(Submissions)]
  /\ pending \in [Sessions -> Seq(Messages)]
  /\ compacts \in [Sessions -> Seq(Submissions)]
  /\ \A s \in Sessions : Len(compacts[s]) <= MaxPendingCompacts
  /\ approvals \in [Sessions -> SUBSET Tasks]
  /\ history \in [Sessions -> SUBSET Tasks]

TaskOK ==
  /\ pc \in [Tasks -> Labels]
  /\ kind \in [Tasks -> Kinds]
  /\ home \in [Tasks -> Sessions]
  /\ installing \subseteq Tasks /\ killed \subseteq Tasks
  /\ snap \in [Tasks -> SUBSET Tasks]
  /\ back \in [Tasks -> {"loop", "turn", "reporting"}]
  /\ auto \in [Tasks -> {"may", "due", "ran"}]
  /\ given \in [Tasks -> SUBSET Messages]
  /\ extra \in 0 .. MaxExtraTurns

AsyncOK ==
  /\ interrupts \subseteq Submissions \X Sessions
  /\ starting \subseteq Submissions \X Sessions
  /\ exiting \subseteq Tasks /\ reporting \subseteq Tasks
  /\ forwarder \in Tasks \cup {None}
  /\ bridge \in [Sessions -> [at : {"idle", "check"}, id : Tasks \cup {None}]]
  /\ \A s \in Sessions : bridge[s].at = "check" => bridge[s].id \in Tasks

SeenOK ==
  /\ asked \in [Tasks -> {"no", "shown", "answered"}]
  /\ queued \subseteq Submissions
  /\ exited \subseteq Tasks /\ aborted \subseteq Tasks

\* Every variable has its type, a push in hand is a submission, and the queue
\* of compactions keeps to MAX_PENDING_MANUAL_COMPACTS.
TypeOK == LoopOK /\ StateOK /\ TaskOK /\ AsyncOK /\ SeenOK

Live(t) == pc[t] # "none" /\ ~Finished(t)

\* A task that has given up its slot and is about to end.
Leaving(t) ==
  \/ pc[t] \in {"complete", "handoff", "reporting"}
  \/ pc[t] \in {"cleared", "snapped"} /\ kind[t] = "compact"

\* No task runs unattended: one that was not aborted holds the slot of its
\* session, is about to be put there, or has left it of its own accord.
NoOrphan ==
  \A t \in Tasks :
    Live(t) /\ t \notin killed =>
      t \in installing \/ current[home[t]] = t \/ Leaving(t)

Occurrences(q, x) ==
  UNION {{<<s, i>> : i \in {j \in DOMAIN q[s] : q[s][j] = x}} : s \in Sessions}

\* A queued submission is in exactly one place, and is carried out once: it
\* waits in the queue, is about to start, has started as a task, or was drained
\* into one running turn.  (A review only reads the queue.)
QueuedOnce ==
  \A q \in queued :
    1 = Cardinality(Occurrences(queue, q))
        + Cardinality({s \in Sessions : <<q, s>> \in starting})
        + Cardinality({t \in Tasks : q \in given[t] /\ kind[t] # "review"})
        + (IF pc[q] = "none" THEN 0 ELSE 1)

\* A message from inside the program survives every abort: it stays in
\* pending_input until one task, and no other, takes it (the comment in
\* Session::abort); a bridge event goes to the history instead.
WakesConserved ==
  \A w \in Wakes :
    LET places == Cardinality(Occurrences(pending, w))
                  + Cardinality({t \in Tasks : w \in given[t]})
    IN w < nextWake => \/ places = 1
                       \/ places = 0 /\ \E s \in Sessions : w \in history[s]

\* The tasks that have had the slot: spawned, installed, and no longer there.
Retired ==
  {t \in Tasks : pc[t] # "none" /\ t \notin installing /\ \A s \in Sessions : current[s] # t}

Slot == INSTANCE TaskSlot WITH slot <- current, past <- Retired, stopped <- killed

\* current_task is a task slot: a task is installed once, stopped only as it
\* leaves the slot, and never comes back.
SlotRefined == Slot!Spec

\* An interrupt stops the task it finds running, whatever that task is doing, and the
\* client hears of it.
InterruptStops ==
  \A i \in Submissions, s \in Sessions, t \in Tasks :
    (<<i, s>> \in interrupts /\ current[s] = t)
      ~> (Finished(t) /\ (t \in killed => t \in aborted))

\* Compactions do not keep a turn going: with tool calls bounded, and nobody
\* to ask, every task ends (the guard against repeated compaction in run_agent).
TurnEnds ==
  \A t \in Tasks : Live(t) ~> (Finished(t) \/ asked[t] # "no")

\* A review that was started leaves review mode, by its answer, an error or an
\* abort, unless it waits for the client; one that is aborted leaves it always.
ReviewExits ==
  \A t \in Tasks :
    /\ (kind[t] = "review") ~> (t \in exited \/ asked[t] # "no")
    /\ (kind[t] = "review" /\ t \in killed) ~> (t \in exited)

-----------------------------------------------------------------------------
(* What a comment says, and the code does not do.                          *)

\* "a race that can kill the newly spawned agent": an interrupt never stops a
\* task that was submitted after it.
FreshTaskSurvivesInterrupt ==
  [][\A i \in Submissions, s \in Sessions :
       AbortLater(i, s) =>
         \A t \in (killed' \ killed) \cap Submissions : kind[t] = "regular" => t < i]_vars

=============================================================================

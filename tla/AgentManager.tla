---------------------------- MODULE AgentManager ----------------------------
(***************************************************************************)
(* Sub-agents: the process-wide AGENT_MANAGER of core/src/agent_tool.rs, the *)
(* tasks that run the agents, the forwarder that turns its status payloads  *)
(* into wakes of a session, and the sequential form of the `agent wait`     *)
(* tool (core/src/codex/streaming.rs).                                      *)
(*                                                                         *)
(* A step is a section that holds the manager's write lock (or, for a wait, *)
(* one turn of its polling loop).  JoinHandle::abort stops a task at its    *)
(* next suspension: a task that is being polled at that moment on another   *)
(* worker thread still gets through whatever sections of the lock it finds  *)
(* free, and a task that is not never runs again.                           *)
(*                                                                         *)
(* A payload is reduced to the batches it shows complete: those are all the *)
(* forwarder tells apart, and a payload that shows none wakes nobody.  The  *)
(* agents of a batch are created in one section (handle_run_agent).         *)
(***************************************************************************)
EXTENDS Integers, Sequences, FiniteSets, SequencesExt

CONSTANTS
    Agents, Batches,
    BatchOf,          \* the batch an agent is created in
    Sessions,         \* Session objects
    NoSession,
    MaxTracked,       \* MAX_TRACKED_TERMINAL_AGENTS
    MaxStatus,        \* MAX_STATUS_TERMINAL_AGENTS
    MaxWakes          \* MAX_AGENT_COMPLETION_WAKE_BATCHES

ASSUME BatchAssumption == BatchOf \in [Agents -> Batches]
ASSUME FiniteAssumption == IsFiniteSet(Agents) /\ IsFiniteSet(Batches)
ASSUME SessionAssumption == NoSession \notin Sessions
ASSUME LimitAssumption ==
    /\ MaxTracked \in Nat /\ MaxStatus \in Nat \ {0} /\ MaxStatus <= MaxTracked
    /\ MaxWakes \in Nat \ {0}

VARIABLES
    status,           \* AgentStatus, or not created
    task,             \* the task that runs execute_agent
    handles,          \* agents whose JoinHandle the manager keeps
    aborted,          \* agents whose task was aborted while it was being polled
    ended,            \* live terminal agents by completed_at
    archived,         \* archived_terminal_agents
    listener,         \* the session whose forwarder reads the payloads
    queue,            \* payloads sent to each session's forwarder
    place,            \* whether a session is still the one its loop serves
    woken,            \* agent_completion_wake_batches in order
    seen,             \* seen_completed_agents_by_batch of each session
    heard,            \* history: a session was woken for a batch
    quiet,            \* history: no payload has shown that the batch ended
    told,             \* history: waits that said no agent remains
    forgotten         \* history: agents cleared from the archive

agentVars == <<status, task, handles, aborted, ended, archived>>
sendVars == <<listener, queue, quiet>>
wakeVars == <<woken, heard>>
waitVars == <<seen, told, forgotten>>
vars == <<agentVars, sendVars, place, wakeVars, waitVars>>

-----------------------------------------------------------------------------

Active == {"pending", "running"}
Terminal == {"completed", "failed", "cancelled"}
Tasks == {"none", "spawned", "working", "gone"}

Members(b) == {a \in Agents : BatchOf[a] = b}

\* In AgentManager.agents, and in either map (get_agent, list_agents).
Live(a) == status[a] \in Active \/ a \in ToSet(ended)
Known(a) == Live(a) \/ a \in archived

Newest(s, n) == IF Len(s) <= n THEN s ELSE SubSeq(s, Len(s) - n + 1, Len(s))
Without(s, a) ==
    IF a \in ToSet(s) THEN RemoveAt(s, CHOOSE i \in DOMAIN s : s[i] = a) ELSE s

Init ==
    /\ status = [a \in Agents |-> "none"]
    /\ task = [a \in Agents |-> "none"]
    /\ handles = {} /\ aborted = {}
    /\ ended = <<>> /\ archived = {}
    /\ listener = NoSession
    /\ queue = [s \in Sessions |-> <<>>]
    /\ place = [s \in Sessions |-> "unused"]
    /\ woken = [s \in Sessions |-> <<>>]
    /\ heard = {} /\ quiet = {} /\ seen = {} /\ told = {}
    /\ forgotten = {}

-----------------------------------------------------------------------------
(* The manager. *)

\* The variant keeps the terminal agents that ended first.
VisibleOldest == IF Len(ended) <= MaxStatus THEN ended
                 ELSE SubSeq(ended, 1, MaxStatus)

\* visible_agents_for_status lists every active agent and these.
Visible == Newest(ended, MaxStatus)

\* The variant looks for one agent of the batch that has ended.
PayloadOfAny == {b \in Batches : \E a \in Members(b) : a \in ToSet(Visible)}

\* What a payload says: agent_completion_wake_messages needs a terminal agent
\* of the batch and no other.
Payload == {b \in Batches :
                /\ \E a \in Members(b) : a \in ToSet(Visible)
                /\ \A a \in Members(b) : status[a] \notin Active}

\* send_agent_status_update, of the state the section has reached, where the
\* batches `closed` have just ended.
Sends(closed) ==
    LET payload == Payload'
    IN  /\ queue' = IF listener = NoSession \/ payload = {} THEN queue
                    ELSE [queue EXCEPT ![listener] = Append(@, payload)]
        /\ quiet' = (quiet \union closed) \ payload

\* The variant prunes one agent too late.
PrunedLate(terminal) ==
    /\ ended' = Newest(terminal, MaxTracked + 1)
    /\ archived' = archived \union (ToSet(terminal) \ ToSet(ended'))

\* finalize_terminal_agent and prune_terminal_agents: the oldest go to the
\* archive.
Pruned(terminal) ==
    /\ ended' = Newest(terminal, MaxTracked)
    /\ archived' = archived \union (ToSet(terminal) \ ToSet(ended'))

\* create_agent_internal for each agent of a batch.
Creates(b) ==
    /\ Members(b) # {}
    /\ \E s \in Sessions : place[s] = "live"
    /\ \A a \in Members(b) : status[a] = "none"
    /\ status' = [a \in Agents |->
                     IF a \in Members(b) THEN "pending" ELSE status[a]]
    /\ task' = [a \in Agents |->
                   IF a \in Members(b) THEN "spawned" ELSE task[a]]
    /\ handles' = handles \union Members(b)
    /\ UNCHANGED <<aborted, ended, archived, listener, place, wakeVars, waitVars>>
    /\ Sends({})

\* Where a task is after its next section: an aborted one ends there, or goes on
\* to the next if nothing has suspended it.
Onwards(a, where) ==
    \E at \in {where} \union {gone \in {"gone"} : a \in aborted} :
        task' = [task EXCEPT ![a] = at]

\* execute_agent up to the release of the lock.
Starts(a) ==
    /\ task[a] = "spawned"
    /\ Onwards(a, IF Known(a) THEN "working" ELSE "gone")
    /\ IF Live(a) THEN /\ status' = [status EXCEPT ![a] = "running"]
                       /\ ended' = Without(ended, a)
                  ELSE UNCHANGED <<status, ended>>
    /\ UNCHANGED <<handles, aborted, archived, listener, place, wakeVars, waitVars>>
    /\ IF Known(a) THEN Sends({}) ELSE UNCHANGED <<queue, quiet>>

\* add_progress while the agent works.
Progresses(a) ==
    /\ task[a] = "working"
    /\ Onwards(a, "working")
    /\ UNCHANGED <<status, handles, aborted, ended, archived, listener, place,
                   wakeVars, waitVars>>
    /\ IF Live(a) THEN Sends({}) ELSE UNCHANGED <<queue, quiet>>

\* update_agent_result.
Ends(a, result) ==
    /\ task[a] = "working"
    /\ task' = [task EXCEPT ![a] = "gone"]
    /\ UNCHANGED <<aborted, listener, place, wakeVars, waitVars>>
    /\ IF Live(a)
       THEN /\ status' = [status EXCEPT ![a] = result]
            /\ Pruned(Append(Without(ended, a), a))
            /\ handles' = handles \ {a}
            /\ Sends({})
       ELSE UNCHANGED <<status, ended, archived, handles, queue, quiet>>

\* The variant drops the handle, which lets the task run on.
DropsHandles(S) ==
    /\ handles' = handles \ S
    /\ UNCHANGED <<task, aborted>>

\* handle.abort(); any of the tasks may be in the middle of a poll.
AbortsTasks(S) ==
    /\ handles' = handles \ S
    /\ \E polled \in SUBSET {a \in S \intersect handles : task[a] # "gone"} :
           /\ aborted' = aborted \union polled
           /\ task' = [a \in Agents |->
                          IF a \in (S \intersect handles) \ polled THEN "gone"
                          ELSE task[a]]

\* The agents S end in some order with this status.
Ended(S, result) ==
    /\ status' = [a \in Agents |-> IF a \in S THEN result ELSE status[a]]
    /\ \E s \in SetToSeqs(S) : Pruned(ended \o s)

\* Batches that S was the last of.
Closes(S) == {b \in Batches : /\ Members(b) \intersect S # {}
                              /\ \A a \in Members(b) : status'[a] \notin Active}

\* The variant cancels every agent in the live map.
CancellableLive == {a \in Agents : Live(a)}

\* cancel_agent does nothing for an agent without a handle.
Cancellable == handles

\* cancel_agent and cancel_batch for the agents a client or the model names:
\* the manager sends nothing, and Op::CancelAgents only tells the client.
Cancels(S) ==
    /\ S # {} /\ S \subseteq Cancellable
    /\ AbortsTasks(S)
    /\ Ended(S, "cancelled")
    /\ quiet' = quiet \union Closes(S)
    /\ UNCHANGED <<listener, queue, place, wakeVars, waitVars>>

\* A sweep of the watchdog over the agents that were inactive for too long.
TimesOut(S) ==
    /\ S # {} /\ \A a \in S : status[a] \in Active
    /\ AbortsTasks(S)
    /\ Ended(S, "failed")
    /\ UNCHANGED <<listener, place, wakeVars, waitVars>>
    /\ Sends(Closes(S))

-----------------------------------------------------------------------------
(* Sessions. *)

\* A submission loop configures its first session: set_event_sender.
Opens(s) ==
    /\ place[s] = "unused"
    /\ place' = [place EXCEPT ![s] = "live"]
    /\ listener' = s
    /\ archived' = {}
    /\ forgotten' = forgotten \union archived
    /\ UNCHANGED <<status, task, handles, aborted, ended, queue, quiet,
                   wakeVars, seen, told>>

\* It configures another: agent_manager_initialized keeps the forwarder, which
\* holds the session it was made for.
Reconfigures(s, new) ==
    /\ place[s] = "live" /\ place[new] = "unused"
    /\ place' = [place EXCEPT ![s] = "replaced", ![new] = "live"]
    /\ UNCHANGED <<agentVars, sendVars, wakeVars, waitVars>>

\* Batches of a payload that have not been announced to the session.
Newly(s, payload) == payload \ ToSet(woken[s])

\* The forwarder takes a payload: agent_completion_wake_messages and
\* enqueue_agent_completion_wake.
Forwards(s) ==
    /\ queue[s] # <<>>
    /\ queue' = [queue EXCEPT ![s] = Tail(@)]
    /\ LET new == Newly(s, Head(queue[s]))
       IN  /\ \E q \in SetToSeqs(new) :
                  woken' = [woken EXCEPT ![s] = Newest(@ \o q, MaxWakes)]
           /\ heard' = heard \union ({s} \X new)
    /\ UNCHANGED <<agentVars, listener, quiet, place, waitVars>>

-----------------------------------------------------------------------------
(* wait with return_all = false. *)

\* The variant asks the live agents only.
ListedLive(b) == {a \in Members(b) : Live(a)}

\* list_agents of a batch.
Listed(b) == {a \in Members(b) : Known(a)}

\* One look at the batch: it returns an agent the session has not been given,
\* or says that none remains.  The other forms of wait, and this one while
\* agents are at work, when it times out or is interrupted, change nothing.  That
\* the agent's directory cannot be created, after it was marked, is left out.
Looks(s, b) ==
    LET done == {a \in Listed(b) : status[a] \in Terminal}
        unseen == {a \in done : <<s, a>> \notin seen}
    IN  /\ place[s] = "live"
        /\ \/ \E a \in unseen : /\ seen' = seen \union {<<s, a>>}
                                /\ UNCHANGED told
           \/ /\ unseen = {} /\ done # {} /\ done = Listed(b)
              /\ told' = told \union {<<s, b>>}
              /\ UNCHANGED seen
        /\ UNCHANGED <<agentVars, sendVars, place, wakeVars, forgotten>>

-----------------------------------------------------------------------------

Next ==
    \/ \E b \in Batches : Creates(b)
    \/ \E a \in Agents : Starts(a) \/ Progresses(a)
    \/ \E a \in Agents, result \in {"completed", "failed"} : Ends(a, result)
    \/ \E S \in SUBSET Agents : Cancels(S) \/ TimesOut(S)
    \/ \E s \in Sessions : Opens(s) \/ Forwards(s)
    \/ \E s, new \in Sessions : Reconfigures(s, new)
    \/ \E s \in Sessions, b \in Batches : Looks(s, b)

Spec == Init /\ [][Next]_vars

-----------------------------------------------------------------------------
(* Properties. *)

\* Type correctness, with the bound of the live map.
TypeOK ==
    /\ status \in [Agents -> {"none"} \union Active \union Terminal]
    /\ task \in [Agents -> Tasks]
    /\ handles \subseteq Agents /\ aborted \subseteq Agents
    /\ ended \in Seq(Agents) /\ Len(ended) <= MaxTracked
    /\ archived \subseteq Agents /\ forgotten \subseteq Agents
    /\ listener \in Sessions \union {NoSession}
    /\ queue \in [Sessions -> Seq(SUBSET Batches)]
    /\ place \in [Sessions -> {"unused", "live", "replaced"}]
    /\ woken \in [Sessions -> Seq(Batches)]
    /\ heard \subseteq Sessions \X Batches /\ quiet \subseteq Batches
    /\ seen \subseteq Sessions \X Agents /\ told \subseteq Sessions \X Batches

\* What an agent ended as stays (a wait may have told the model), except that a
\* task that was aborted while it was being polled may still write its status.
OutcomeStays ==
    [][\A a \in Agents : status[a] \in Terminal /\ a \notin aborted
                             => status'[a] = status[a]]_vars

\* A cancellation reaches every agent that is still at work: the manager has
\* the handle of each active one (but for those it has aborted already), and
\* of no other.
ActiveCanBeStopped ==
    \A a \in Agents : /\ a \in handles => status[a] \in Active
                      /\ status[a] \in Active => a \in handles \union aborted

HasEnded(b) == Members(b) # {} /\ \A a \in Members(b) : status[a] \in Terminal
Shown(s, b) == \E i \in DOMAIN queue[s] : b \in queue[s][i]

\* A batch that has ended is announced: a session was woken for it or a payload
\* on its way to a forwarder shows it, however many agents the payload leaves
\* out and the live map has pruned.  `quiet` has the batches whose last agents
\* were cancelled, and those a sweep closed beyond the payload's limit.
Announced ==
    \A b \in Batches : HasEnded(b) /\ b \notin quiet
                          => \E s \in Sessions : <<s, b>> \in heard \/ Shown(s, b)

\* No session is told that a batch has completed while an agent of it is at
\* work, however old the payload, unless its task was aborted in a poll.
NoEarlyWake ==
    \A b \in Batches, s \in Sessions :
        <<s, b>> \in heard \/ Shown(s, b)
            => \A a \in Members(b) : status[a] \in Terminal \/ a \in aborted

\* `no_agents_remaining` is the truth: each agent of the batch was returned to
\* that session by a wait of its own, the archived ones too, unless a new
\* conversation in the process has cleared the archive.
NothingSkipped ==
    \A s \in Sessions, b \in Batches : <<s, b>> \in told
        => \A a \in Members(b) : <<s, a>> \in seen \/ a \in forgotten

=============================================================================

------------------------------ MODULE AutoDrive ------------------------------
(***************************************************************************)
(* Auto Drive: the controller (code-auto-drive-core/src/controller.rs) with *)
(* the handlers of the TUI that drive it (tui/src/chatwidget.rs), the       *)
(* coordinator thread that decides what the CLI does next                   *)
(* (auto_coordinator.rs), the countdown and restart timers, and the turns   *)
(* of the session.                                                          *)
(*                                                                         *)
(* The handlers run one at a time on the TUI's thread.  The coordinator, the*)
(* timers and the session reach it by events that carry no run: a countdown *)
(* has an id, a restart a token, a decision a sequence number, and all three*)
(* start again with each launch.  `launch` in timers, events and turns is   *)
(* history: it tells the properties where something came from.              *)
(***************************************************************************)
EXTENDS Naturals, Sequences, FiniteSets

VARIABLES
    phase,            \* AutoRunPhase
    mode,             \* continue_mode
    launch,           \* how often prepare_launch ran
    handle,           \* auto_handle is Some
    prompt,           \* current_cli_prompt: the decision it came with
    countdown,        \* countdown_id
    token,            \* restart_token
    attempts,         \* transient_restart_attempts
    pending,          \* pending_restart: that of the current token and attempts
    checking,         \* pending_stop_message is Some
    timers,           \* countdown threads that have not sent their last tick
    restarts,         \* restart timers that have not fired
    coord,            \* the thread behind the handle
    cmds,             \* its command channel
    late,             \* threads cancelled in the middle of a request
    events,           \* coordinator events in the TUI's channel
    turns,            \* turns of the session: the first runs
    disturbed         \* history: something came that the handlers cannot place

clock == <<timers, restarts>>
thread == <<coord, cmds, late, events>>
control == <<handle, prompt, countdown, token, attempts, pending, checking>>
vars == <<phase, mode, launch, control, clock, thread, turns, disturbed>>

-----------------------------------------------------------------------------

\* Idle and AwaitingGoalEntry are "off", AwaitingCoordinator is "ready" (it is
\* only entered with a prompt), AwaitingDiagnostics is "waiting".
Phases == {"off", "active", "paused", "ready", "waiting", "review", "recovery"}
Modes == {"timed", "manual"}
Kinds == {"plan", "continue", "success", "transient", "fatal"}
Replies == {"command", "words", "error"}
NoPrompt == [launch |-> 0, seq |-> 0]

Active == phase # "off"
Event(l, s, k) == [launch |-> l, seq |-> s, kind |-> k]
Command(c, s) == [do |-> c, seq |-> s]
Turn(k) == [launch |-> launch, kind |-> k]

\* A coordinator after its planning seed: decision 0 is sent and not yet acked.
Seeded == [at |-> "idle", seq |-> 0, unacked |-> TRUE, convs |-> 0]

Init ==
    /\ phase = "off" /\ mode \in Modes
    /\ launch = 0
    /\ handle = FALSE
    /\ prompt = NoPrompt
    /\ countdown = 0 /\ token = 0 /\ attempts = 0
    /\ pending = FALSE /\ checking = FALSE
    /\ timers = {} /\ restarts = {}
    /\ coord = Seeded /\ cmds = <<>> /\ late = {} /\ events = <<>>
    /\ turns = <<>>
    /\ disturbed = FALSE

-----------------------------------------------------------------------------
(* What the handlers share *)

\* The variant that keeps an idle thread as well.
RetiredIdle ==
    IF handle
    THEN late \union {[launch |-> launch, seq |-> coord.seq, at |-> coord.at,
                       prompts |-> 0]}
    ELSE late

\* The user prompts the coordinator has not received.
Asked == Cardinality({i \in 1 .. Len(cmds) : cmds[i].do = "user"})

\* CancelCoordinator: the token is cancelled and Stop is sent behind what is in
\* the channel.  A request that is already over, or a user prompt, is still
\* answered.
Retired ==
    LET Thread(at, rest) == [launch |-> launch, seq |-> coord.seq, at |-> at,
                             prompts |-> rest]
    IN  late \union (IF handle /\ coord.at \in {"deciding", "replying"}
                     THEN {Thread(coord.at, Asked)} ELSE {})
             \union (IF handle /\ coord.at = "idle" /\ Asked # 0
                     THEN {Thread("replying", Asked - 1)} ELSE {})

Cancels ==
    /\ handle' = FALSE
    /\ late' = Retired
    /\ coord' = Seeded /\ cmds' = <<>>

\* auto_stop: the controller is reset; ids and tokens start again.
Stops ==
    /\ phase' = "off"
    /\ Cancels
    /\ prompt' = NoPrompt
    /\ countdown' = 0 /\ token' = 0 /\ attempts' = 0
    /\ pending' = FALSE /\ checking' = FALSE
    /\ UNCHANGED <<clock, launch>>

\* pause_for_transient_failure
Pauses(failed) ==
    /\ phase' = "recovery"
    /\ Cancels
    /\ prompt' = NoPrompt
    /\ attempts' = failed + 1
    /\ token' = token + 1
    /\ pending' = TRUE
    /\ restarts' = restarts \union
         {[launch |-> launch, token |-> token + 1, attempt |-> failed + 1]}
    /\ UNCHANGED <<countdown, checking, timers, launch>>

\* auto_dispatch_cli_prompt
Dispatches(k) ==
    /\ phase' = "waiting"
    /\ turns' = Append(turns, Turn(k))

\* The variant that keeps the countdown's id.
NextCountdownSame == countdown

\* A new countdown: earlier ticks must not count for it.
NextCountdown == countdown + 1

\* The variant that starts the thread with the id before it is raised.
ArmedTooEarly(m, p) ==
    IF m = "timed"
    THEN timers \union {[launch |-> launch, id |-> countdown, prompt |-> p]}
    ELSE timers

\* StartCountdown: a thread that ticks down to 0, none in manual mode.
Armed(m, p) ==
    IF m = "timed"
    THEN timers \union {[launch |-> launch, id |-> NextCountdown, prompt |-> p]}
    ELSE timers

\* schedule_cli_prompt, but for the phase
Schedules(p) ==
    /\ prompt' = p
    /\ countdown' = NextCountdown
    /\ timers' = Armed(mode, p)

CanSend == handle /\ coord.at # "gone"

\* auto_send_conversation and auto_send_conversation_force: nothing happens
\* without a handle; a thread that is gone stops the run.
SendsConversation ==
    \/ /\ ~handle
       /\ phase' = "active"
       /\ UNCHANGED <<launch, control, clock, coord, cmds, late>>
    \/ /\ CanSend
       /\ phase' = "waiting"
       /\ prompt' = NoPrompt
       /\ cmds' = Append(cmds, Command("update", 0))
       /\ UNCHANGED <<launch, handle, countdown, token, attempts, pending,
                      checking, clock, coord, late>>
    \/ handle /\ ~CanSend /\ Stops

-----------------------------------------------------------------------------
(* Launch and restart *)

\* prepare_launch and launch_succeeded; start_auto_coordinator sends the seed.
\* The reset keeps pending_stop_message.
Launched(kept) ==
    /\ launch' = launch + 1
    /\ phase' = "waiting"
    /\ handle' = TRUE
    /\ prompt' = NoPrompt
    /\ countdown' = 0 /\ token' = 0 /\ attempts' = kept
    /\ pending' = FALSE
    /\ coord' = Seeded /\ cmds' = <<>>
    /\ events' = Append(events, Event(launch + 1, 0, "plan"))

\* launch_failed: the thread could not be started.
LaunchFails(kept) ==
    /\ phase' = "off"
    /\ prompt' = NoPrompt
    /\ countdown' = 0 /\ token' = 0 /\ attempts' = kept
    /\ pending' = FALSE
    /\ handle' = FALSE
    /\ coord' = Seeded /\ cmds' = <<>>
    /\ UNCHANGED <<launch, events>>

\* `/auto <goal>`: a run that is active is stopped first.
UserLaunches ==
    /\ \/ Launched(0)
       \/ LaunchFails(0)
    /\ checking' = (checking /\ ~Active)
    /\ late' = Retired
    /\ UNCHANGED <<mode, clock, turns, disturbed>>

\* The restart that fires is the one the last failure announced.
IsPending(r) == pending /\ r.token = token /\ r.attempt = attempts

\* auto_handle_restart: the attempts outlive the relaunch.
RestartFires(r) ==
    /\ restarts' = restarts \ {r}
    /\ IF phase = "recovery" /\ IsPending(r)
       THEN /\ Launched(attempts) \/ LaunchFails(attempts)
            /\ disturbed' = (disturbed \/ r.launch # launch)
       ELSE /\ UNCHANGED <<phase, launch, handle, prompt, countdown, token,
                           attempts, pending, coord, cmds, events, disturbed>>
    /\ UNCHANGED <<mode, checking, timers, late, turns>>

-----------------------------------------------------------------------------
(* The prompt and its countdown *)

\* auto_submit_prompt with a prompt
Submits ==
    /\ Dispatches("prompt")
    /\ UNCHANGED <<launch, control, restarts, thread>>

\* The variant that compares the id alone.
TickCountsById(t) == Active /\ t.id = countdown

\* handle_countdown_tick compares the id and the phase; the decision number it
\* compares as well is its own, as auto_handle_countdown hands it over.
TickCounts(t) == phase = "ready" /\ t.id = countdown

\* The last tick
TickFires(t) ==
    /\ timers' = timers \ {t}
    /\ IF TickCounts(t)
       THEN Submits /\ disturbed' = (disturbed \/ t.launch # launch)
       ELSE UNCHANGED <<phase, launch, control, restarts, thread, turns, disturbed>>
    /\ UNCHANGED <<mode>>

\* Enter or space on the prepared prompt
UserConfirms ==
    /\ phase = "ready"
    /\ Submits
    /\ UNCHANGED <<mode, timers, disturbed>>

\* auto_pause_for_manual_edit
UserEdits ==
    /\ phase = "ready"
    /\ phase' = "paused"
    /\ countdown' = NextCountdown
    /\ UNCHANGED <<mode, launch, handle, prompt, token, attempts, pending,
                   checking, clock, thread, turns, disturbed>>

\* update_continue_mode: a prompt that is shown gets a countdown of its own.
UserChoosesMode(m) ==
    /\ m # mode /\ mode' = m
    /\ IF phase = "ready"
       THEN /\ countdown' = NextCountdown
            /\ timers' = Armed(m, prompt)
       ELSE UNCHANGED <<countdown, timers>>
    /\ UNCHANGED <<phase, launch, handle, prompt, token, attempts, pending,
                   checking, restarts, thread, turns, disturbed>>

\* Esc where no prompt is shown, `/auto` with no goal, a new chat; some of them
\* interrupt the turn that runs.
UserStops ==
    /\ Active
    /\ Stops
    /\ turns' \in {turns} \union (IF turns = <<>> THEN {} ELSE {Tail(turns)})
    /\ UNCHANGED <<mode, events, disturbed>>

\* submit_user_message with coordinator_routing: a message goes to the
\* coordinator if there is one, or else to the session.
UserSpeaks ==
    /\ phase # "ready"
    /\ \/ /\ Active /\ CanSend
          /\ phase' = "waiting"
          /\ cmds' = Append(cmds, Command("user", 0))
          /\ UNCHANGED turns
       \/ /\ ~(Active /\ CanSend)
          /\ phase' = IF phase = "paused" THEN "waiting" ELSE phase
          /\ turns' = Append(turns, [launch |-> 0, kind |-> "prompt"])
          /\ UNCHANGED cmds
    /\ UNCHANGED <<mode, launch, control, clock, coord, late, events, disturbed>>

-----------------------------------------------------------------------------
(* The coordinator thread: run_auto_loop *)

\* With nothing to ack and a conversation at hand, it asks its model.
CoordinatorThinks ==
    /\ handle /\ coord.at = "idle" /\ ~coord.unacked /\ coord.convs > 0
    /\ coord' = [coord EXCEPT !.at = "deciding", !.convs = @ - 1]
    /\ UNCHANGED <<phase, mode, launch, control, clock, cmds, late, events,
                   turns, disturbed>>

\* Every decision waits for its ack; a failed one is the thread's last.
CoordinatorDecides(k) ==
    /\ handle /\ coord.at = "deciding"
    /\ coord' = [coord EXCEPT !.at = IF k \in {"transient", "fatal"}
                                     THEN "gone" ELSE "idle",
                              !.seq = @ + 1, !.unacked = TRUE]
    /\ events' = Append(events, Event(launch, coord.seq + 1, k))
    /\ UNCHANGED <<phase, mode, launch, control, clock, cmds, late, turns, disturbed>>

\* The variant that takes no ack for a later decision.
AckCountsLate(c) == c.seq > coord.seq

\* An ack for another decision is ignored.
AckCounts(c) == c.seq = coord.seq

\* recv, which is reached only when there is nothing to think about
CoordinatorReceives ==
    /\ handle /\ coord.at = "idle" /\ cmds # <<>>
    /\ coord.unacked \/ coord.convs = 0
    /\ cmds' = Tail(cmds)
    /\ coord' = CASE Head(cmds).do = "update" -> [coord EXCEPT !.convs = @ + 1]
                  [] Head(cmds).do = "user" -> [coord EXCEPT !.at = "replying"]
                  [] Head(cmds).do = "ack" ->
                       [coord EXCEPT !.unacked = @ /\ ~AckCounts(Head(cmds))]
    /\ UNCHANGED <<phase, mode, launch, control, clock, late, events, turns,
                   disturbed>>

\* HandleUserPrompt: an answered prompt leaves a conversation to decide about.
CoordinatorReplies(k) ==
    /\ handle /\ coord.at = "replying"
    /\ coord' = [coord EXCEPT !.at = "idle", !.convs = IF k = "error" THEN @ ELSE @ + 1]
    /\ events' = Append(events, Event(launch, coord.seq, k))
    /\ UNCHANGED <<phase, mode, launch, control, clock, cmds, late, turns, disturbed>>

\* A user prompt that a cancelled thread finds before the Stop.
NextPrompt(th, s) ==
    IF th.prompts = 0 THEN {}
    ELSE {[launch |-> th.launch, seq |-> s, at |-> "replying",
           prompts |-> th.prompts - 1]}

\* A cancelled thread goes on.  Its decision may be out already, and then it
\* reads its channel.  A user prompt is answered in any case, with the
\* cancellation as the error; with a conversation to decide about it stops.
LateThreadGoesOn(th) ==
    LET others == late \ {th}
    IN  /\ \/ th.at = "deciding" /\ late' = others /\ UNCHANGED events
           \/ /\ th.at = "deciding"
              /\ \E k \in Kinds \ {"plan"} :
                    /\ events' = Append(events, Event(th.launch, th.seq + 1, k))
                    /\ late' = others \union (IF k \in {"transient", "fatal"} THEN {}
                                             ELSE NextPrompt(th, th.seq + 1))
           \/ /\ th.at = "replying"
              /\ \E k \in Replies :
                    events' = Append(events, Event(th.launch, th.seq, k))
              /\ late' \in {others, others \union NextPrompt(th, th.seq)}
        /\ UNCHANGED <<phase, mode, launch, control, clock, coord, cmds, turns,
                       disturbed>>

-----------------------------------------------------------------------------
(* The TUI handles what the coordinator sent *)

\* The event comes from the thread behind the handle.
Ours(e) == handle /\ e.launch = launch

\* AckDecision goes to whatever thread the handle leads to.
Acked(e) == IF CanSend THEN Append(cmds, Command("ack", e.seq)) ELSE cmds

\* auto_handle_decision, once Auto Drive is active
Decided(e) ==
    LET p == [launch |-> e.launch, seq |-> e.seq]
    IN  \/ /\ e.kind = "plan"
           /\ Dispatches("prompt")
           /\ prompt' = p
           /\ attempts' = 0 /\ pending' = FALSE
           /\ cmds' = Acked(e)
           /\ UNCHANGED <<launch, handle, countdown, token, checking, clock, coord,
                          late>>
        \/ /\ e.kind = "continue"
           /\ Schedules(p)
           /\ phase' = "ready"
           /\ attempts' = 0 /\ pending' = FALSE
           /\ cmds' = Acked(e)
           /\ UNCHANGED <<launch, handle, token, checking, restarts, coord, late,
                          turns>>
        \/ /\ e.kind = "success"
           /\ checking' = TRUE
           /\ Schedules(p)
           /\ Dispatches("check")
           /\ attempts' = 0 /\ pending' = FALSE
           /\ cmds' = Acked(e)
           /\ UNCHANGED <<launch, handle, token, restarts, coord, late>>
        \/ e.kind = "transient" /\ Pauses(attempts) /\ UNCHANGED turns
        \/ e.kind = "fatal" /\ Stops /\ UNCHANGED turns

DecisionArrives ==
    /\ events # <<>> /\ Head(events).kind \in Kinds
    /\ events' = Tail(events)
    /\ IF Active
       THEN /\ Decided(Head(events))
            /\ disturbed' = (disturbed \/ ~Ours(Head(events)))
       ELSE UNCHANGED <<phase, launch, control, clock, coord, cmds, late, turns,
                        disturbed>>
    /\ UNCHANGED <<mode>>

\* auto_handle_user_reply: a command is submitted, anything else makes Auto
\* Drive active, whatever it was.
ReplyArrives ==
    /\ events # <<>> /\ Head(events).kind \in Replies
    /\ events' = Tail(events)
    /\ IF Head(events).kind = "command"
       THEN /\ turns' = Append(turns, [launch |-> Head(events).launch,
                                       kind |-> "prompt"])
            /\ phase' = IF phase = "paused" THEN "waiting" ELSE phase
       ELSE /\ phase' = "active"
            /\ UNCHANGED turns
    /\ disturbed' = TRUE
    /\ UNCHANGED <<mode, launch, control, clock, coord, cmds, late>>

-----------------------------------------------------------------------------
(* The session's turns *)

Reviewing == turns # <<>> /\ Head(turns).kind = "review"

\* What auto_on_assistant_final does in AwaitingDiagnostics.  During a review the
\* review lock is tried; a run that gets it waits, one that does not goes on.
Continues ==
    \/ /\ Reviewing
       /\ phase' = "review"
       /\ UNCHANGED <<launch, control, clock, coord, cmds, late>>
    \/ SendsConversation

\* A final answer, the last of its turn or not.  The answer to the completion
\* check stops the run or sends it on; any other text cannot be parsed and stops
\* it as well.
Answered(t) ==
    \/ checking /\ Stops
    \/ /\ checking /\ t.kind = "check"
       /\ checking' = FALSE
       /\ \/ /\ CanSend
             /\ phase' = "waiting" /\ prompt' = NoPrompt
             /\ cmds' = Append(cmds, Command("update", 0))
          \/ /\ ~handle /\ phase' = "active"
             /\ UNCHANGED <<cmds, prompt>>
       /\ UNCHANGED <<launch, handle, countdown, token, attempts, pending, clock,
                      coord, late>>
    \/ ~checking /\ phase = "waiting" /\ Continues
    \/ /\ ~checking /\ phase # "waiting"
       /\ UNCHANGED <<phase, launch, control, clock, coord, cmds, late>>

\* History: the answer of another run's turn is taken, or one nobody waits for.
Misplaced(t) == IF phase = "waiting" THEN t.launch # launch ELSE checking

TurnAnswers(over) ==
    /\ turns # <<>>
    /\ Answered(Head(turns))
    /\ turns' = IF over /\ ~Reviewing THEN Tail(turns) ELSE turns
    /\ disturbed' = (disturbed \/ Misplaced(Head(turns)) \/ ~over \/ Reviewing)
    /\ UNCHANGED <<mode, events>>

\* on_error: an active run waits and starts again.
TurnFails ==
    /\ turns # <<>> /\ ~Reviewing
    /\ turns' = Tail(turns)
    /\ IF Active THEN Pauses(attempts)
       ELSE UNCHANGED <<phase, launch, control, clock, coord, cmds, late>>
    /\ UNCHANGED <<mode, events, disturbed>>

\* EnteredReviewMode: the review takes the place of the turn that ran.  The lock
\* is busy whenever /review of this TUI holds it.
ReviewBegins ==
    /\ ~Reviewing
    /\ turns' = <<[launch |-> 0, kind |-> "review"]>>
                  \o (IF turns = <<>> THEN <<>> ELSE Tail(turns))
    /\ phase' \in (IF Active THEN {"review", "active"} ELSE {phase})
    /\ disturbed' = (disturbed \/ Active)
    /\ UNCHANGED <<mode, launch, control, clock, thread>>

\* ExitedReviewMode and maybe_resume_auto_after_review
ReviewEnds ==
    /\ Reviewing
    /\ turns' = Tail(turns)
    /\ IF phase = "review" THEN SendsConversation
       ELSE UNCHANGED <<phase, launch, control, clock, coord, cmds, late>>
    /\ UNCHANGED <<mode, events, disturbed>>

-----------------------------------------------------------------------------

UserNext ==
    \/ UserLaunches \/ UserConfirms \/ UserEdits \/ UserStops \/ UserSpeaks
    \/ \E m \in Modes : UserChoosesMode(m)

ClockNext ==
    \/ \E t \in timers : TickFires(t)
    \/ \E r \in restarts : RestartFires(r)

CoordinatorNext ==
    \/ CoordinatorThinks \/ CoordinatorReceives
    \/ \E k \in Kinds \ {"plan"} : CoordinatorDecides(k)
    \/ \E k \in Replies : CoordinatorReplies(k)
    \/ \E th \in late : LateThreadGoesOn(th)

SessionNext ==
    \/ TurnAnswers(TRUE) \/ TurnAnswers(FALSE) \/ TurnFails
    \/ ReviewBegins \/ ReviewEnds

Next ==
    \/ UserNext \/ ClockNext \/ CoordinatorNext \/ SessionNext
    \/ DecisionArrives \/ ReplyArrives

Spec == Init /\ [][Next]_vars

-----------------------------------------------------------------------------
(* Properties *)

\* The shape of the state.
TypeOK ==
    /\ phase \in Phases /\ mode \in Modes
    /\ launch \in Nat
    /\ handle \in BOOLEAN
    /\ prompt \in [launch : Nat, seq : Nat]
    /\ countdown \in Nat
    /\ token \in Nat /\ attempts \in Nat
    /\ pending \in BOOLEAN /\ checking \in BOOLEAN
    /\ timers \subseteq [launch : Nat, id : Nat, prompt : [launch : Nat, seq : Nat]]
    /\ restarts \subseteq [launch : Nat, token : Nat, attempt : Nat]
    /\ coord \in [at : {"idle", "deciding", "replying", "gone"},
                  seq : Nat, unacked : BOOLEAN, convs : Nat]
    /\ cmds \in Seq([do : {"update", "user", "ack"}, seq : Nat])
    /\ late \subseteq [launch : Nat, seq : Nat, at : {"deciding", "replying"},
                     prompts : Nat]
    /\ events \in Seq([launch : Nat, seq : Nat, kind : Kinds \union Replies])
    /\ turns \in Seq([launch : Nat, kind : {"prompt", "check", "review"}])
    /\ disturbed \in BOOLEAN

\* While the run has its coordinator, a countdown of this run that can still
\* submit was started for the prompt that is shown, and only in a countdown mode:
\* editing, a new decision, a change of mode and a resubmission leave the older
\* threads without effect, whatever decision, reply, answer or review comes in
\* between, of this run or of another.  Two cases are outside, as the code has
\* nothing against them: a tick of an earlier launch with the same id, and a
\* stopped run, whose ids start again, that a late reply makes active.
OwnCountdown ==
    handle => \A t \in timers :
        t.launch = launch /\ t.id = countdown /\ phase = "ready"
          => t.prompt = prompt /\ mode = "timed"

\* A prompt in countdown mode has a countdown that counts, and a recovery has the
\* restart it announced: whatever fires late, a timer that was started for this
\* state is still there to end it.
TimersArmed ==
    /\ phase = "ready" /\ mode = "timed" => \E t \in timers : t.id = countdown
    /\ phase = "recovery" => \E r \in restarts : IsPending(r)

\* `disturbed` tells that something came the handlers have no defence against: an
\* event, a timer or a turn of another run; an answer to a completion check nobody
\* waits for; a review of an active run, whose own lock attempt can find the lock
\* taken; an answer before its turn is over, which sends the conversation on too
\* early; the coordinator's reply to a user.

\* An undisturbed run that is active has its coordinator, or waits for the restart
\* that will give it one.
Driven ==
    Active /\ ~disturbed => handle \/ phase = "recovery"

\* The coordinator will do something by itself: it has its last decision acked, or
\* will, and a conversation to decide about; or a user prompt to answer.
CoordinatorBusy ==
    LET Told(what(_)) == \E i \in 1 .. Len(cmds) : what(cmds[i])
        IsAck(c) == c.do = "ack" /\ c.seq = coord.seq
        IsUpdate(c) == c.do = "update"
        IsPrompt(c) == c.do = "user"
    IN  /\ handle
        /\ \/ coord.at \in {"deciding", "replying"}
           \/ coord.at = "idle" /\ Told(IsPrompt)
           \/ /\ coord.at = "idle"
              /\ ~coord.unacked \/ Told(IsAck)
              /\ coord.convs > 0 \/ Told(IsUpdate)

\* Something of this run is on its way to the TUI.
EventDue == \E i \in 1 .. Len(events) : events[i].launch = launch

\* An undisturbed run that waits is never left with nobody to go on: the session
\* has a turn, the coordinator is busy, or an event of it is due.
SomeoneActs ==
    ~disturbed /\ phase \in {"waiting", "active", "review"} =>
        turns # <<>> \/ CoordinatorBusy \/ EventDue

\* At most one turn of the session works on a prompt of an undisturbed run.
OnePromptAtATime ==
    Active /\ ~disturbed =>
        \A i, j \in 1 .. Len(turns) :
            turns[i].launch = launch /\ turns[j].launch = launch => i = j

=============================================================================

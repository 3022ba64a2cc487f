# TLA+ models of magik's session engine and the parts around it

`code-rs/` is a terminal coding agent: a client (TUI, `exec`, app server) puts
submissions on a queue, a session engine runs *turns* against a language model,
runs the tools the model calls, and sends events back. This directory models the
parts whose correctness rests on the order in which tokio tasks, threads,
processes, locks and messages meet. All paths below are relative to `src/`;
`core/` is `code-rs/core/src/`.

## 1. Inventory

Each component: its state, its operations, what is hard, and what makes it
correct. "→" names the module.

| component | state | operations | hard part | correct when | |
|---|---|---|---|---|---|
| **Session and turn engine** `core/codex/{streaming,session}.rs` | `State` under one mutex: `current_task`, `pending_input`, `pending_user_input`, `pending_manual_compacts`, `pending_approvals`, `history`; one tokio task per turn | the `Op`s of `submission_loop`; `run_agent` (drain, request, hand off); `AgentTask::{spawn,compact,review,abort}` | check and act in different critical sections; aborts and starts left to detached tasks; a task runs before it is in its slot; sessions replaced under their users | no turn unattended; a queued input carried out once; no internal message lost; an interrupt stops the turn and is reported; a review leaves review mode | → `SessionTurns`, `TaskSlot` |
| **Compaction** `core/codex/{compact,compact_remote}.rs` | the history it read; the slot, if it is a task | `perform_compaction`, remote variant, inline before a request or after an answer | history read, model asked, history replaced: three critical sections | ends; the turn goes on once; the model still knows what the tools returned | → `SessionTurns` (when), `TurnRetry` (what it keeps of a turn's tool calls) |
| **Bridge client** `core/bridge_client.rs` | batch of dev-bridge events | `flush_batch` records and starts a pending-only turn | holds a session that may have been replaced | its turn is attended; the event stays in the history | → `SessionTurns` (`BridgeRecord`, `BridgeStart`) |
| **Readiness flag** `code-rs/utils/readiness` | atomic flag, token counter, token set (mutex), watch channel | `subscribe`, `mark_ready`, `wait_ready` | unlocked checks, lock timeouts, wrapping counter, late subscription to the channel | authorised once; no token once ready; waiters wake | → `Readiness` |
| **Turn retries and scratchpad** `core/codex/streaming.rs` 2119–2700, `session.rs` 809–871 | `TurnScratchpad` of one attempt; the request input of the attempt | `run_turn`, `try_run_turn`, scratchpad injection, recording in `run_agent` | a stream that breaks after some tools ran; five kinds of fallback that each restart something else | what ran stays known to the model; no output without its call; every path uses something up | → `TurnRetry` |
| **Account switching** `core/account_switching.rs`, `core/client.rs` | accounts already limited in this turn and in this request; the session's account override | `select_next_account_id`, `switch_active_account_on_rate_limit` | a switch resets the retry budget; two loops switch on the same answer | ends; an API key only when all ChatGPT accounts are limited | → `TurnRetry` |
| **Review lock and epoch** `core/review_coord.rs`, `code-rs/exec/src/lib.rs` | a lock file with a pid, an epoch file, shared by processes | `try_acquire_lock`, drop, `clear_stale_lock_if_dead`, `bump_snapshot_epoch`; the review → fix → review loop of `code exec` | check and remove by path; a crash between create and write; unlocked read-modify-write; recycled pids | one reviewer at a time; a bump between baseline and check is noticed | → `ReviewLock` |
| **Auto Drive controller** `code-auto-drive-core/src/controller.rs`, handlers in `tui/src/chatwidget.rs` | `AutoRunPhase`, `countdown_id`, `restart_token`, `transient_restart_attempts`, the prompt, `pending_stop_message` | launch, decision, countdown tick, restart, pause, edit, review, stop | ticks, restarts, decisions and turns armed for an earlier state arrive late | a countdown submits its own prompt; no run waits for nobody; one prompt at a time | → `AutoDrive` |
| **Auto Drive coordinator** `auto_coordinator.rs` | its conversation queue, the last unacked decision | decision loop, `Ack`, user prompts, cancellation | cancelled in the middle of a request | it goes on once acked; nothing is decided twice | → `AutoDrive` (`coord`, `cmds`, `late`) |
| **Agent manager** `core/agent_tool.rs`, forwarder in `streaming.rs` | agents by id: status, task handle; archive of ended ones; payload channel; wake batches per session | create, the sections of a task, cancel, watchdog sweep, prune, forward, `agent wait` | a result after a cancel; payloads older than the manager; pruning before the wake; process-wide state used by several sessions | outcomes are final; a batch is announced once it has ended and not before; every agent at work can be stopped | → `AgentManager` |
| **Background execution** `core/codex/streaming.rs` 5576–5793, 6613–6698, 9391–9672 | `background_execs`: `notify`, `result_cell`, `backgrounded`, `suppress_event`, `task_handle` per command | the shell call, its detached runner, `wait`, `kill` | a notice that is suppressed by a call that then goes away; an exit racing a kill; turns aborted at each await | what runs can be waited for and killed; no end is lost; outputs are not mixed up | → `BackgroundExec` |
| Exec sessions `core/{exec_command,unified_exec}` | PTY sessions | — | — | — | not modelled: nothing but their own tests calls them |
| Conversation history, rollout, context timeline, message history | lists and append-only files | record, replace, replay | one writer each | — | not modelled: data more than control |
| Housekeeping, retention, ghost commits, diff tracker, patch harness, apply-patch, exec policy | files | one pass each | — | — | not modelled: sequential, I/O or text |
| Model client, MCP connections, browser, login, cloud tasks | remote peers | requests | the network | — | not modelled; what the models take from the model client is in section 6 |
| TUI, `exec`, `cli`, SDK, app server | a client each | submit, show | — | — | the TUI's Auto Drive handlers and the review stages of `exec` are modelled; otherwise the environment of `SessionTurns`, which may submit anything at any time |
| `codex-rs/` | — | — | — | — | upstream mirror, kept for reference |

How they interact: the client owns two channels to `submission_loop`; the loop
owns the session and spawns agent tasks; agent tasks, the bridge listener, the
agent-status forwarder and detached `tokio::spawn` blocks share the session's
mutex-guarded `State` with the loop. A turn (`SessionTurns`) makes requests
(`TurnRetry`), and runs shell commands (`BackgroundExec`) and agents
(`AgentManager`), whose ends come back to it as wake-ups: a message in
`pending_input`, or a turn of their own (`AgentWake` in `SessionTurns`). Auto Drive
sits in the client and turns what the coordinator decides into submissions; its
`turns` are the session's, seen from outside. The review lock is shared by
processes. The hazards of each part, at their lines, are listed in `PROJECT.json`.

## 2. Plan

Order of work, the most important first, and where it stands:

1. **`SessionTurns`** with the abstract **`TaskSlot`**: done; every safety property
   and the refinement proved, `WakesConserved` where nothing is compacted.
2. **`Readiness`**: done; every safety property proved.
3. **`TurnRetry`**: done; every safety property proved.
4. **`ReviewLock`**: done; both safety properties proved.
5. **`AutoDrive`**: done; every safety property proved.
6. **`AgentManager`**: done; every safety property proved.
7. **`BackgroundExec`**: done; every safety property proved.
8. For each liveness property, the safety it stands on: proved (section 5).
9. Left: more of the code: the coordinator's retries, the 401 path of the account
   switch, the exec sessions once something calls them.

## 3. The modules

### `SessionTurns.tla`

`State` is one mutex, so **one step is one critical section**, with the local
code around it that no other task can observe. A submission is its number, which
is also its `sub_id`, the task it starts and the message it carries. A wake-up
(developer message, agent-completion wake, bridge event) is numbered too.

| variable | code |
|---|---|
| `sess`, `loop` | the session `submission_loop` holds, and whether it is between the two critical sections of an operation |
| `current`, `queue`, `pending`, `compacts`, `approvals`, `history` | `State::{current_task, pending_user_input, pending_input, pending_manual_compacts, pending_approvals, history}`, one per configured session |
| `pc`, `kind`, `home` | an agent task: where it is in `run_agent` or a compaction, its `AgentTaskKind`, its session |
| `installing` | spawned, `set_task` still to come |
| `killed` | `AbortHandle::abort` was called; the task ends at its next await |
| `auto`, `back`, `snap` | automatic compaction of a turn, where a compaction returns to, the history it works from |
| `interrupts`, `starting`, `exiting`, `reporting` | detached tasks: the abort of `Op::Interrupt`, the start of the next queued input, `exit_review_mode` and `TurnAborted` of an aborted task |
| `forwarder`, `bridge` | the agent-status forwarder and the bridge listeners |
| `asked`, `exited`, `aborted`, `queued`, `given` | what the client has seen; history variables of the properties |

Actions are named for the code: `UserInput`, `QueueUserInput` + `QueuePush` (the
check and the push are two critical sections), `Compact` + `CompactPush`,
`Interrupt` + `AbortLater`, `Review`, `Approve`, `ApproveAbort`,
`ConfigureSession`, `Shutdown`; `Begin`, `Drain`, `Answered`, `CalledTools`,
`Ask`, `Register`, `Resume`, `ReviewExit`, `Remove`, `StartCompact`,
`StartQueued` + `RunQueued` for `run_agent`; `CompactTask`, `CompactInline`,
`CompactFirst`, `LocalAnswer`, `Snapshot`, `Replace`, `RemoteAnswer`,
`RemoteClear`, `Rebuild`, `CompactionFails`, `Emergency`, `CompactReport` for
compaction; `Die`, `ExitAborted`, `ReportAborted` for what follows an abort.

Choices a reader of the code may ask about:

- `Session::abort` takes the task under the lock and calls `AgentTask::abort`
  after it. The two are one step: what the task does in between it could have
  done before, and nobody else holds the task.
- A spawned task may run before `set_task` installs it: `installing` keeps the
  two apart. The check and the spawn are one step, since a task that has not
  been polled has no effect.
- `AbortHandle::abort` takes effect at an await. The labels a killed task can end
  at are `Interruptible`; between them it runs on, which is why an aborted turn
  can still leave its slot or hand off.
- Whether the token limit is reached, and what the model answers, is a free
  choice. Wakes that come as a batch are one message each.
- A request that fails is a step like an answer: `run_agent` reports the error
  and leaves by the same path.

Operations of the session that only read, or only change configuration
(list, search, history lookups, `Undo`, status), are left out.

### `TaskSlot.tla`

What `current_task` promises: a task is installed once; it leaves the slot by
itself or is stopped as it leaves; it never comes back. `SlotRefined` is
`TaskSlot!Spec` with `slot <- current`, `past <- Retired`, `stopped <- killed`.

### `Readiness.tla`

One step is what a task does between two points where others can see or change
the flag: `subscribe` is `SubscribeBegin` (unlocked check, `fetch_add`) and
`SubscribeInsert` (recheck and insertion under the mutex); `mark_ready` is
`MarkBegin`, `MarkReady`, `Broadcast`; `wait_ready` is `WaitBegin`,
`WaitSubscribe`, `WaitReturn`. `LockTimeout` is the one-second limit on the
mutex. Tokens wrap at `TokenSpan`, 2^32 in the code. A watch channel stores a
value only while it has a receiver; that is what `tokio::sync::watch` does on
`send`, and the model follows it.

### `TurnRetry.tla`

One task from the side of its requests. A step is what the code does on one
answer of the provider or one expired timer; nothing else writes these variables.

| variable | code |
|---|---|
| `phase` | the await the task is at: `client.stream`, the response, the back-off, the wait for the network or for the limit to reset |
| `retries`, `didCompact`, `didContextFallback`, `didUsageFallback`, `model` | the locals of `run_turn` |
| `history`, `tail`, `input`, `attempt` | the session's history, `pending_input_tail`, `run_turn`'s input, `attempt_input` |
| `scratch`, `output` | `turn_scratchpad`; what `try_run_turn` has processed so far |
| `tried`, `clientTried` | the two `RateLimitSwitchState`s: of `run_turn` and of one `client.stream` |
| `account`, `pinned` | the active account, and whether `session_account_override` names one |
| `quota`, `exhausted` | the provider's side; what the stored snapshots say |
| `proactive` | `did_proactive_compact_this_iteration` of `run_agent` |
| `ranHere`, `recorded` | history variables: what this `run_turn` ran and has not thrown away; what finished ones returned and no compaction has left out |
| `forgets` | history variable: how many compactions have left outcomes out |

A request is abstracted to what it tells the model of its tool calls: the calls,
the outputs, and what a summary told. A call is named by the work it asks for
(`Works`); `Custom` are asked for with a custom tool call, which the code treats
differently in two places. `ClientSwitches` is the switch inside
`client.stream` on a 429. `Completed_Ends`, `Completed_GoesOn`,
`Completed_CompactsFirst` (at the head of the loop, before the request with the
responses) and `Completed_CompactsAfter` (after an answer without tool calls) are
what `run_agent` does with a turn that returns. A compaction (`Compacted`) leaves a
history that tells any part of what it read: all of it; less, when the oldest items
were dropped to make its own request fit; nothing, when no request fits and the history
is reset to the initial context and a warning (`compact.rs:421-485`). `Rebuilt` puts the
pending outputs back into what it left. `LimitSwitches`, `LimitFallsBack`, `LimitWaits` are the
arms of `UsageLimitReached`; `Overflow_Compacts` and `Overflow_Larger` those of the
context overflow; `Drop_Retries`, `Drop_WaitsForNetwork`, `Drop_Fails` the common
arm. `NextAccounts` is `select_next_account_id` without its ranking: any account
it may return.

### `ReviewLock.tla`

Processes that share two files. One step is one file operation: `LooksAtLock`
(read), `ProbesPid` (`kill(pid, 0)`), `RemovesStale` (remove by path),
`TryAcquire` (`create_new`), `WritesInfo`, the drop of a guard; `BumpReads`,
`BumpTruncates`, `BumpWrites` for an epoch bump, of a run or of a git mutation
elsewhere (`Mutators`). `pc` is where a `code exec` run is in its loop of review
(`Starts`, `CapturesEpoch`, `ReviewEnds`, `Judges`) and fix (`FixIsDue`,
`FixEnds`, which finds the follow-up stale or not, and `SkipsFollowup`, when the
snapshot has not changed since the last review). `Dies` may come between any two
steps and takes a whole process id down; `Returns` gives the id out again. `overtaken` and `overlapped` are history
variables that tell the two cases the code has no defence against (section 6);
the properties hold up to them.

### `AutoDrive.tla`

The TUI's handlers run one at a time, so a step is a handler; the coordinator is
a thread with a command channel (`coord`, `cmds`), and its events (`events`),
countdown threads (`timers`), restart timers (`restarts`) and turns (`turns`)
reach the handlers in any interleaving. A cancelled coordinator that is in the
middle of a request (`late`) still sends its decision and answers the user prompts
it finds in its channel before the stop.

| variable | code |
|---|---|
| `phase`, `mode` | `AutoRunPhase`, `continue_mode` (a countdown, or manual) |
| `handle`, `prompt` | `auto_handle`, `current_cli_prompt` |
| `countdown`, `token`, `attempts`, `pending` | `countdown_id`, `restart_token`, `transient_restart_attempts`, `pending_restart` |
| `checking` | `pending_stop_message`: a completion check is under way |
| `launch`, `disturbed` | history: which run things belong to; that something came which the handlers cannot tell from their own |

Ids, tokens and sequence numbers start again with each launch, and nothing that
travels carries the run, so what is left of one run can match the next
(section 7). `disturbed` records it and the properties about progress,
`SomeoneActs` and `OnePromptAtATime`, hold up to there. `TimersArmed` needs no such
condition. `OwnCountdown` needs that the run has its coordinator (`handle`), and is
about the ticks of this launch: it holds whatever late decision, reply, answer or
review comes in between. Two cases are outside it, against which the code has nothing:
a tick of an earlier launch whose id counts again, and a stopped run, whose ids have
started again, that a late reply makes active.

### `AgentManager.tla`

A step is a section that holds the manager's write lock, or one turn of a wait's
polling loop. An agent is `pending`, `running` or ended; its task is `spawned`,
`working` or `gone`; `JoinHandle::abort` ends a task at its next suspension, so a
task that is being polled at that moment (`aborted`) gets through the sections
whose lock it finds free, as many as there are.
`ended` is the live map's ended agents by `completed_at`, `archived` the pruned ones.
A payload (`queue`) is reduced to the batches it shows complete: the
forwarder tells nothing else apart. `woken` and `seen` are per session. `Creates`,
`Starts`, `Progresses`, `Ends`, `Cancels`, `TimesOut` (the watchdog) are the
manager's; `Opens` and `Reconfigures` are the sessions that come and go around it;
`Forwards` and `Looks` the forwarder and the wait.

### `BackgroundExec.tla`

| variable | code |
|---|---|
| `entry`, `held`, `result` | `background_execs`, `task_handle`, `result_cell` |
| `backgrounded`, `suppressed` | the flags of those names, which outlive the entry |
| `runner`, `killed` | the detached runner of a command, and whether it was aborted |
| `at`, `job`, `saw`, `woken`, `calledOff` | the turn's tool call: where it is, for which command, and what it saw or was told |
| `heard`, `mixed`, `lost`, `muted`, `joined`, `abandoned`, `orphaned` | history |

A turn carries out one tool call at a time; runners are tasks of their own. A step
is a section of the state lock, a read or write of a flag, or what lies between
two awaits. `AbortTurn` ends a call at one of its awaits, which drops the guard of
a wait; `Dies` ends an aborted runner at one of its own; `Crash` is a panic, which
`handle_wait` looks for. The channels a runner sends to are unbounded, so its
sends never wait.

## 4. The runs

The `MC…` modules instantiate the modules. A session may stop anywhere (nobody has
to submit anything), so the configurations turn deadlock checking off; what must
happen is stated as liveness, or, in `AutoDrive`, as the invariant that somebody
is left to act.

| run | instance | shows |
|---|---|---|
| `session_turns` | 3 submissions of UserInput, empty UserInput, QueueUserInput, Compact, Review, Interrupt, Shutdown; one turn with tool calls; room for one manual compaction | `TypeOK`, `NoOrphan`, `QueuedOnce` |
| `session_review` | 3 of QueueUserInput, Review, Interrupt | `ReviewExits` |
| `session_reconfigure` | 2 of UserInput, QueueUserInput, with one reconfiguration and one wake of any kind | `WakesConserved`, `SlotRefined` |
| `session_liveness` | 2 of QueueUserInput, Interrupt, with approvals, inline compactions and tool calls | `InterruptStops`, `TurnEnds` |
| `readiness` | 2 callers, 2 waiters, 4 tokens | `TypeOK`, `NoTokenOnceReady`, `SingleAuthoriser`, `RegisteredWaiterWakes` |
| `turn_retry` | 2 tool calls, one of them custom; 2 ChatGPT accounts, one with an invalid sign-in on record, and an API key; one account that may be limited from the start; one retry, one compaction that leaves outcomes out, every kind of failure | `TypeOK`, `ProgressKept`, `RecordedStaysKnown`, `OutputsHaveCalls`, `ApiKeyOnlyIfAllLimited`, `TurnEnds` |
| `review_lock` | 2 runs whose process ids may return, one other mutation, 2 bumps, one re-review | `TypeOK`, `OneHolder`, `FollowupIsCurrent` |
| `auto_drive` | 2 launches, one decision after the seed, one transient failure, 2 countdowns, 2 turns, 2 events at a time | `TypeOK`, `OwnCountdown`, `TimersArmed`, `SomeoneActs`, `OnePromptAtATime` |
| `agents` | a batch of 2 agents and one of 1, 2 sessions, caps of 2, 1 and 1 | `TypeOK`, `ActiveCanBeStopped`, `Announced`, `NoEarlyWake`, `NothingSkipped`, `OutcomeStays` |
| `background_exec` | 2 commands, any number of calls | `TypeOK`, `OwnOutput`, `RunningIsReachable`, `SuppressedForItsCall`, `UnheardIsKept`, `KilledStaysKilled`, `CallsEnd`, `EndIsHeard` |
| `interrupted_command` | one command | violated: a command runs on when the turn that awaits it is interrupted |
| `late_interrupt` | smallest | violated: an interrupt never stops a turn submitted after it |

The last two are expected violations: each contradicts a comment of the code,
quoted in `PROJECT.json` under `findings`. Other divergences met on the way are in
section 7.

What the properties mean, beyond the comments above them:

- `NoOrphan`: a live task that was not aborted is in its session's slot, about to
  be put there, or has left it at its own end. Otherwise no interrupt could reach
  it. Three actors matter: the task, the loop, a detached start.
- `QueuedOnce`: an input that went through `pending_user_input` is in exactly one
  of the queue, a start on its way, a task of its own, or one turn that took it.
- `WakesConserved`: an internal message waits in `pending_input` or was taken by
  exactly one task, whatever is aborted; a bridge event is in a history.
- `SlotRefined`: see `TaskSlot`; checked across a reconfiguration.
- `InterruptStops`, `ReviewExits`, `TurnEnds`: what must happen. `TurnEnds` of the
  session rests on the guard `did_proactive_compact_this_iteration` of
  `run_agent`; without it a turn whose history stays too large compacts for ever.
  `TurnEnds` of `TurnRetry` is the same question for `run_turn`: the retry budget is
  reset by fallbacks, switches and waits, and each of those must be used up.
- `ProgressKept`, `RecordedStaysKnown`, `OutputsHaveCalls`: what a tool returned is
  in every later request until a path that says so throws it away, and a request
  is one the provider accepts. A compaction may leave out any of what was recorded,
  and `RecordedStaysKnown` does not say otherwise. It says that nothing but a compaction
  takes an outcome away, and that a compaction does not take the function and shell
  outputs that are pending, whatever else it leaves out: they are put back into the
  request made from it.
- `OneHolder` holds up to `overtaken`, `FollowupIsCurrent` up to `overlapped` and while
  the file is whole: crashes, recycled ids and half-written lock files do not break
  them, the unlocked check-and-remove and read-modify-write do. `FollowupIsCurrent` is
  about the decision: a bump that began after the baseline of the fix and ended before
  the fix did stops the follow-up. A follow-up has a baseline of its own, which a bump
  between the decision and it becomes part of.
- `OwnCountdown`, `TimersArmed`: in spite of late ticks and of replies, decisions and
  reviews that nobody waited for, a countdown of this run submits the prompt on the
  screen as long as the run has its coordinator, and a state that waits for a timer has
  it. What the ticks of an earlier run do to this one is in section 7.
  `SomeoneActs`: a run that waits is never left with nobody to go on.
- `Announced`, `NoEarlyWake`: a batch is announced once it has ended, not before,
  although payloads are bounded, late, and pruned. `NothingSkipped`: "no agents
  remaining" is said only when each was returned.
- `UnheardIsKept`, `EndIsHeard`, `SuppressedForItsCall`: however calls end, a command's
  end is heard or can still be asked for, and no notice stays suppressed by a call
  that is gone.

Every property of a passing run has a mutant in `PROJECT.json`: a variant of one
definition, written next to it ("variant" in the comments), that breaks it.

### Bounds

- `MaxSubmissions` 3: the interleavings that matter are of a turn that ends, an
  operation that checked it, and one more operation or detached start.
- `MaxWakes` 1: one message and who takes it.
- `MaxSessions` 2: the replaced session and its successor.
- `MaxExtraTurns` 1: one turn with tool calls gives every branch of the loop (a
  first iteration, a later one, a compaction between them).
- `MaxPendingCompacts` 1 (64 in the code): the cap is reached with two requests.
- `TokenSpan` 4 (2^32): the counter wraps with four subscriptions.
- `TurnRetry`: `MaxRetries` 1 (5 in the code) reaches the spent budget after one
  drop; `MaxOutages` 1, since connectivity failures are not bounded by the code; two
  works give one that is recorded and one that is lost, of either kind of call.
  `MaxForgets` 1: each compaction that leaves outcomes out lets the model ask for them
  again, and the code does not bound how many there are in a task. `LimitedAtStart` is one
  account and `PinnedAtStart` is `{FALSE}`: a switch pins the account, so the pinned
  task is what follows the first one.
- `ReviewLock`: two runs and a mutation are the actors of every race here (a
  stale check and an acquirer, two bumps, a bump and a reader); `MaxEpoch` 2 bumps.
- `AutoDrive`: the second launch is what late timers and events of the first can
  hit. `MCAutoDrive!Explored` bounds what grows. Past the first disturbing step
  the first launch is followed in full, and a later one up to its first countdown and
  with one event, turn or late thread at a time (`Quiet`): `OwnCountdown` and
  `TimersArmed`, which do not speak of `disturbed`, are explored there too.
- `AgentManager`: `MaxTracked` 2, `MaxStatus` 1, `MaxWakes` 1 make pruning, the limit
  of a payload and the limit of remembered batches bite with three agents;
  `MaxQueue` 1 payload unread; two sessions are explored without tasks aborted in a
  poll, one session with them.
- `BackgroundExec`: two commands are what it takes for one to be given the other's
  output; calls are not bounded.

Symmetry is used where the members are alike and no liveness is checked: runs in
`review_lock`, the agents of a batch and the sessions in `agents`.

### Fairness

- `SessionTurns`, `Readiness`: weak fairness on every step the tokio runtime
  schedules: a detached task, the second half of an operation, `set_task`, and the
  next step of a task that can run. A step that waits for the model is fair because
  requests end (below). No fairness on what the user, the agents or the bridge do; an
  approval prompt may stay open, and `TurnEnds` and `ReviewExits` say so. Strong
  fairness is not needed: no step competes for the mutex for ever.
- `TurnRetry`: weak fairness of the provider as a whole (a stream has
  `stream_idle_timeout`, a request fails or succeeds) and of the timers (a sleep ends, the
  connectivity probe is repeated until it succeeds).
- `BackgroundExec`: weak fairness of the call's steps, of its deadline and of each
  runner's steps. None on the process, which may run for ever, nor on the user or
  on new calls: `CallsEnd` holds all the same, because the ten seconds, the deadline
  and the abort of the runner each end a call.
- `ReviewLock`, `AutoDrive`, `AgentManager` check safety only: processes may be killed
  for good, the user need not act, and agents may never end.

## 5. The proofs

tlapm checks eight modules of proofs, for every value of the constants that meets
the modules' assumptions (each named, and evaluated by TLC in the runs).

- `SessionTurnsProofs`: `TypeCorrect` (with the cap on manual compactions) and
  `NoOrphanHolds`. `NoOrphan` alone is not inductive: a compaction that leaves the
  slot before it ends is covered by `Leaving` only if it is a compact task, and it
  becomes a `reporting` one only if `back` says so. `CompactShape` ties the label,
  the kind and `back` together, and `Inv == TypeOK /\ CompactShape /\ NoOrphan` is
  inductive: whoever empties or overwrites a slot aborts its holder
  (`AbortAttended`); whoever is spawned is `installing` (`SpawnInv`); other moves
  keep the slot (`MoveInv`) or give it up into a label of `Leaving` (`LeaveInv`).
- `SessionQueuesProofs`: what else a session promises.
  - `TicketHolds`: a submission or a wake-up is a ticket that is at one place at a
    time, and only numbers that the client has used are anywhere. `QueuedOnceHolds`
    follows: queues hold no number twice, and what leaves one goes to one taker.
  - `SlotIsTaskSlot` rests on `SlotInv`: a task that is in a slot is not `installing`
    there, no two slots hold one task, and a task that left is not spawned again
    because its number is not fresh.
  - `WakesStayTold`: what was pushed onto `pending_input` stays there or with its one
    taker, always. `WakesConserved` also speaks of the history, and a compaction
    replaces the history (`compact.rs:361`), so what was recorded between its snapshot
    and its write is lost. So `WakesConservedHolds` assumes that the operations that
    can start a compaction are not used, as the run does, and `OnlyCompactionForgets`
    says, without an assumption, that no other step breaks it.
  - `AbortsAreReported`, `ReviewsAreLeft`, `InterruptsHold` from `AbortInv`: an aborted
    task is at one of three stations (`exiting`, `reporting`, `aborted`), a review
    that is over has left review mode or is about to, and the task an interrupt was
    sent for stays in its slot until the interrupt arrives or the task leaves.
  - `TurnsAreUsedUp`: no turn goes round `run_agent` for ever. Each step of a task ends
    it, or uses up a tool call of the session, its prompt, a compaction or a label, and
    gives back only what comes later in that list. It needs `DueShape` (a compaction
    that is due leads back to the request by way of the labels that settle it) and the
    guard `did_proactive_compact_this_iteration`: a compaction at the limit allows no
    other until a tool is called. `MaxExtraTurns` bounds the tool calls, which the
    code leaves to the model.
- `ReadinessProofs`: the four safety properties are inductive together with
  `SendersRaised` (whoever is about to broadcast has raised the flag). The step that
  matters is `MarkReady`: a token that is still subscribed means that nobody was
  authorised before. `NoLostWakeUp`: a waiter whose wake-up is under way keeps both its
  registration and the wake-up until it returns.
- `TurnRetryProofs`: `ProgressIsKept`, `RecordedIsKept`, `OutputsArePaired` and
  `ApiKeyIsLastResort`, by induction on `IInv`: a request always has a scratchpad
  (`HasScratch`); the history, `run_turn`'s input and the attempt each hold what was
  recorded and not left out by a compaction, and the two requests also what is pending
  (`EverywhereRecorded`), with the calls of their outputs (`EverywherePaired`).
  `RecordedIsKept` needs nothing of what a compaction tells: `recorded` is cut to it, and
  that the pending outputs are in the rebuilt request follows from `Rebuilt` and
  from the calls that the previous input holds. The API key case needs `SwitchPins`: without an override no
  switch took place, so an account in `tried` is the one that has just refused.
  `EveryRoundUsesUp` is the argument that `run_turn` cannot go round for ever: every
  step of a task brings down a lexicographic rank. The task ends; or a compaction
  leaves outcomes out (`forgets`); or more is recorded; or the one proactive compaction
  of an iteration is used; or a limit is learnt or an outage overcome (`UsesLimit`); or a fallback
  that is used once is used (`UsesFallback`); or a try (`UsesTry`); or the attempt goes
  on (`Advances`). A component may reset only those after it. The rank has no
  infinite descent for finitely many tools, accounts, outages and compactions that
  forget; the code does not bound the last two, `MaxOutages` and `MaxForgets` do.
- `ReviewLockProofs`: `OneAtATime` from `HolderOwns` (until a check overtakes a live
  run, whoever holds a guard created the file that is there, and there is one file),
  and `EpochHolds` (`EpochInv`: one bump at a time, which read the current epoch;
  baselines are at most the epoch, those of `touched` runs less). `BumpsAreNoticed`
  and `FollowupsAreCurrent` follow from it, the latter with `OnlyFixEnds`: nothing but
  the end of a fix, which compares the epoch, turns a fix into a follow-up.
- `AutoDriveProofs`: `TimersAreArmed`, `RunsAreDriven`, and `CountdownIsOwn`, which needs
  that no timer of this launch is ahead of `countdown` while the run has its coordinator
  (`NoneAhead`), and nothing about `disturbed`. `SomeoneAlwaysActs`
  from `GoingInv`: what each phase waits for is a turn of the run, its coordinator at
  work, or an event in the queue that it will hear. `OnePromptIsOut` from `TokenInv`:
  an undisturbed run has one token, held by a prompt, a turn, the coordinator or an
  event, and each step hands it on.
- `AgentManagerProofs`: `ActiveAreStoppable` and `OutcomesStay` from `Owned`
  (`ActiveCanBeStopped`, and whose task may still write), and `WakesAreNotEarly` from
  `BatchesAreWhole` (a batch is created in one section), which makes a payload that
  shows a batch complete stay true. `EndsAreAnnounced`: a batch that has ended was heard
  of, or is in a payload that somebody listens to (`SomebodyListens`, `Carries`), also
  through the pruning of what was told. `WaitsSkipNothing` from `AllAccounted`: what a
  wait has not returned is still in the manager or was forgotten by pruning.
- `BackgroundExecProofs`: `OutputsAreOwn` (the call's entry stays while it is at
  work, so neither tool falls back on another), `RunningAreReachable` and `UnheardAreKept`
  (from `KnownInv`: a live call's command has an entry, and one lemma per step that takes
  an entry away), `SuppressedByItsCall` and `KilledStay` (a joined runner is over).
  `EndsAreSettled`: an end of which a notice is due stays due until it is heard, muted
  by a call, or its command killed. `CallsGoOn`: a call only goes on, but for the poll
  of a wait that is not called off yet; a kill joins only a runner that it has aborted.

Only model-checked: the liveness properties, since fairness and `ENABLED` are out of
the prover's reach, as are the well-founded inductions they end with. The safety each
stands on is proved, in theorems that are in no run:

| liveness, checked by TLC | what it stands on, proved |
|---|---|
| `SessionTurns!ReviewExits` | `ReviewsAreLeft`, `AbortsAreReported` |
| `SessionTurns!InterruptStops` | `InterruptsHold` |
| `SessionTurns!TurnEnds` | `TurnsAreUsedUp` |
| `TurnRetry!TurnEnds` | `EveryRoundUsesUp` |
| `Readiness!RegisteredWaiterWakes` | `NoLostWakeUp` |
| `BackgroundExec!EndIsHeard` | `EndsAreSettled` |
| `BackgroundExec!CallsEnd` | `CallsGoOn` |

Their invariants and action properties were model-checked on the instances of section 4
before they were proved. Also proved and in no run: `NoEarlyReturn`, `RunsAreDriven`,
`BumpsAreNoticed`, `TicketHolds`, `WakesStayTold`, `OnlyCompactionForgets`.

## 6. What is not modelled, and what the models take for granted

- The model API answers or fails: every request ends. `client.rs` times out idle
  streams and `run_turn` bounds the retries.
- The contents of messages, prompts, tool calls, summaries and decisions.
- Operations that only read, or only change configuration.
- The components of section 1 marked so. They are sequential code on text or files,
  clients of remote services, or, for the exec sessions, code that nothing calls.
- The terminal interface beyond Auto Drive, by far the largest part of the sources: it
  renders, and its inputs are the submissions `SessionTurns` allows at any time.

Left out of the modelled parts:

- `TurnRetry`: the switch on a 401 and its hints, account changes by other
  processes, reviews (a review keeps its own history and does not compact), the hint made of
  partial text; the order of items (a request is a set). What a compaction keeps of the
  calls and outputs themselves counts as told by its summary. Its own retries and
  waits are part of its step. `TurnEnds` is about tasks that ask for finitely many tools.
- `ReviewLock`: `CODE_REVIEW_LOCK_LEASE=1` and I/O errors, with which `exec` goes on
  without the lock; a base snapshot that is missing, with which the follow-up stage does
  nothing and keeps its guard; the TUI's callers; the cleanup of worktrees.
- `AutoDrive`: runs started from the history, `coordinator_routing = false`, blocking
  auto-resolve, Ctrl-C on the turn alone, ticks before the last one, slash commands in
  replies, the retries inside one decision, the queue's cap, empty prompts.
- `AgentManager`: what an agent executes and its worktree; the wait for one agent; agents
  of automatic reviews; `MAX_WAIT_TRACKED` caps; payloads that show no batch complete;
  two payloads sent by one section count as one. A wait marks an agent as returned
  before it creates the agent's directory: if that fails, the outcome was not given out
  and no later wait returns it (`streaming.rs:8229`), outside `NothingSkipped`.
- `BackgroundExec`: approvals, patches, what hooks do, output streams and events,
  sandboxes, calls for unknown ids (they change nothing), the last poll of an aborted
  turn while its successor already runs.

## 7. Met while modelling, and not kept as runs

Each of these is a behaviour the model has, where a comment, a document or a message of
the code says or suggests otherwise. Most are why a property has the exceptions
it has.

**Session** (`core/codex/`)

- `Op::QueueUserInput` checks `has_running_task` and pushes in two critical
  sections (`streaming.rs:898`): an input pushed after the turn's last look at the
  queue waits until another turn runs. The next queued input is started by a
  detached task (`streaming.rs:2108`) whose `set_task` aborts a turn that started
  meanwhile, where `protocol.rs:173` says "without interrupting the current turn".
- A review is given queued user input (comment at `streaming.rs:1720`).
- A manual compaction queued as the turn ends does not run, although the client is told
  it is queued (`streaming.rs:1229`).
- A pending-only turn with nothing to do may end before `set_task`; the finished task
  stays in the slot (`session.rs:897`, doc at `session.rs:1108`).
- An approval answered before its waiter is registered is lost (`session.rs:1175`;
  upstream, `codex-rs/core/src/codex.rs:2292`, registers first), and an aborted task's
  waiter stays registered.
- A compaction replaces the history it read, with what was recorded since
  (`compact.rs:361`, doc at `compact.rs:217`).
- What a turn drains in its first iteration goes to one request and not to the
  history, except the first item of a pending-only turn (`streaming.rs:1759`
  takes it for recorded).
- A review aborted inside its own `exit_review_mode` leaves review mode twice
  (`streaming.rs:136`).
- After `ConfigureSession`, a detached start, the bridge and the agent forwarder
  may still install a turn in the session that was replaced.

**Readiness** (`code-rs/utils/readiness/src/lib.rs`)

- A waiter that subscribes to the channel after the broadcast, when the channel had no
  receiver, waits for ever (line 145, doc at line 38).
- The counter hands out the reserved token 0 when it wraps.

**Turn retries and accounts**

- When a retry succeeds, only the last attempt's items are recorded
  (`streaming.rs:2275`; the comment at 2144 says "so we don't lose progress"): what
  earlier attempts ran was in the request and is not in the history.
- A switch or a wait on `UsageLimitReached` overwrites the scratchpad unread
  (`streaming.rs:2376`), and the fallback to another model starts from the turn's input:
  the tools of the broken attempt may run again.
- Activating an account sets `session_account_override` (`auth.rs:601`), and later
  switches require that there is none: a second limit is waited for although another
  account is free (`config.rs:456` describes the option; the TUI pins its account at
  start, `tui/src/app/init.rs:46`).
- A custom tool call is drained and recorded without its call, its output with it. So a
  compaction that does not tell it loses the pending output: there is no call to put it
  back with (`streaming.rs:2985`).
- A compaction whose request fits only without the oldest items, or not at all, forgets
  what it dropped, in the last case everything (`compact.rs:421-485`), and the turn goes on
  from what is left. One that runs at the head of the loop clears `pending_input_tail`
  (`streaming.rs:1801`): if the request made from it overflows as well, the compaction that
  follows has nothing to put back.
- What an overflow compaction puts back is in the request and not in the history
  (`streaming.rs:2520`), so the next iteration does not know it.

**Review lock** (`core/review_coord.rs`)

- A stale-lock check removes by path what it looked at earlier: it can remove the lock of
  a live run, also with one clearer only (lines 187–197, doc at 185).
- A crash between the creation of the file and its contents leaves a lock no check
  clears. Two bumps at once, or a bump that reads a truncated file, lose one.
- A mutation between `ExitedReviewMode` and the fix's `TaskComplete` becomes part of
  the new baseline and is not noticed.

**Auto Drive** (`tui/src/chatwidget.rs`, `code-auto-drive-core/`)

- Ticks, restart timers and decisions of an earlier run match the next one, whose ids
  start again; in manual mode a late tick submits the prompt (`docs/auto-drive.md:33`,
  `chatwidget.rs:19847`).
- A stopped run is active again when a late reply to a user prompt arrives
  (`chatwidget.rs:19576`, `docs/auto-drive.md:36`).
- A late decision or a review in `TransientRecovery` leaves the run waiting for
  nobody; `pending_stop_message` survives a pause, a relaunch and a failed launch.
- A final answer in the middle of a turn sends the conversation on early. The user's own
  `/review` holds the guard that `on_begin_review` then fails to take
  (`controller.rs:389`): that review gates nothing.

**Agents** (`core/agent_tool.rs`, `core/codex/streaming.rs`)

- The forwarder keeps the first session after a reconfiguration
  (`streaming.rs:156`, 828–859; `CHANGELOG.md:296`): the new one is not woken.
- A batch whose last agents are cancelled wakes nobody (`quiet`). A task that is aborted
  in the middle of a poll may overwrite `Cancelled`. Another conversation in the process
  takes over the listener and clears the archive.
- Evicting a batch from the wait tracking can evict one still in use
  (`streaming.rs:10137`, comment at `session.rs:155`).

**Background commands** (`core/codex/streaming.rs`)

- A command that ends before `notified()` is created, or between the ten seconds and
  the flag `backgrounded`, is reported as running in the background, "You'll be
  notified" (line 9659), and never announced; a wait still returns its output. The same
  holds for a command whose turn was interrupted, and for a wait called off just as the
  runner judges the notice.
- A wait that reads the result before it suppresses the notice may tell the end twice.
- A kill that races the exit writes "cancelled" over the real result and sends a second
  end event. A kill aborted while it joins leaves no result and no handle: a wait polls
  to its deadline, and another kill settles it.
- A reconfiguration drops `background_execs`; the commands run on, and are announced to
  whichever session is current.

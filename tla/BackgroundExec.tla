--------------------------- MODULE BackgroundExec ---------------------------
(***************************************************************************)
(* Shell commands of a turn: a command that takes longer than ten seconds   *)
(* goes on in the background, and the `wait` and `kill` tools come back to   *)
(* it (handle_container_exec_with_params, handle_wait and handle_kill in     *)
(* core/src/codex/streaming.rs).                                            *)
(*                                                                         *)
(* Two kinds of tasks share the registry background_execs: the turn, which   *)
(* carries out one tool call at a time, and a detached runner for each       *)
(* command.  A step is a section of the state lock, a read or write of one   *)
(* of the flags they share, or what lies between two awaits.  A turn that is *)
(* aborted ends at an await of its call, and a runner at one of its own.     *)
(***************************************************************************)

CONSTANTS Jobs, NoJob

ASSUME JobAssumption == NoJob \notin Jobs

VARIABLES
    entry,            \* call ids with a BackgroundExecState in background_execs
    held,             \* those of them whose task_handle is there
    result,           \* result_cell
    backgrounded,     \* commands whose flag `backgrounded` is set
    suppressed,       \* commands whose flag suppress_event is set
    runner,           \* where the runner of a command is
    killed,           \* commands whose runner was aborted
    at, job,          \* the tool call of the turn: where it is, and its command
    saw,              \* what the call found in its first section of the lock
    woken,            \* the command's notify_waiters reached the shell call
    calledOff,        \* the wait is past its deadline, interrupted or nudged
    heard,            \* history: the model was told how the command ended
    mixed,            \* history: the model was given another command's output
    lost,             \* history: a turn was aborted after it had taken the output
    muted,            \* history: no notice, as a call for the command suppressed it
    joined,           \* history: a kill for the command waited for its runner
    abandoned,        \* history: the turn was aborted while it awaited the command
    orphaned          \* history: the session that knew the command was replaced

cells == <<entry, held, result, backgrounded, suppressed>>
runners == <<runner, killed>>
call == <<at, job, saw, woken, calledOff>>
history == <<heard, mixed, lost, muted, joined, abandoned, orphaned>>
vars == <<cells, runners, call, history>>

-----------------------------------------------------------------------------

ShellLabels == {"spawned", "subscribing", "foreground", "yielding", "hooks"}
WaitLabels == {"muting", "checking", "asleep", "leaving", "taking"}
KillLabels == {"stopping", "joining", "cancelling"}

\* The awaits at which an aborted turn ends: notified() with its timeout, the hooks
\* after a command, the select! of a wait, the join of a kill.
Awaits == {"idle", "foreground", "hooks", "asleep", "joining"}

\* A runner ends where it is aborted only while it awaits the process or its hooks.
Stoppable == {"running", "hooking"}
Ended == {"over", "dead"}

Init ==
    /\ entry = {} /\ held = {} /\ backgrounded = {} /\ suppressed = {}
    /\ result = [j \in Jobs |-> "none"]
    /\ runner = [j \in Jobs |-> "off"]
    /\ killed = {}
    /\ at = "idle" /\ job = NoJob /\ saw = FALSE
    /\ woken = FALSE /\ calledOff = FALSE
    /\ heard = {} /\ mixed = FALSE /\ lost = {} /\ muted = {}
    /\ joined = {} /\ abandoned = {} /\ orphaned = {}

Goto(label) == at' = label /\ UNCHANGED <<job, saw, woken, calledOff>>
Return ==
    /\ at' = "idle" /\ job' = NoJob /\ saw' = FALSE
    /\ woken' = FALSE /\ calledOff' = FALSE

\* The entry a call takes its output from: its own, else any that has a result, else none.
Sources ==
    LET done == {j \in entry : result[j] # "none"}
    IN  IF job \in entry THEN {{job}} ELSE IF done = {} THEN {{}} ELSE {{j} : j \in done}

TakeOutputKeepingHandle ==
    \E source \in Sources :
        /\ entry' = entry \ source /\ UNCHANGED held
        /\ mixed' = (mixed \/ ~(source \subseteq {job}))

TakeOutput ==
    \E source \in Sources :
        /\ entry' = entry \ source /\ held' = held \ source
        /\ mixed' = (mixed \/ ~(source \subseteq {job}))

-----------------------------------------------------------------------------
(* A shell call. *)

\* The entry is registered and the runner spawned.
RunShell(j) ==
    /\ at = "idle" /\ runner[j] = "off"
    /\ entry' = entry \union {j}
    /\ runner' = [runner EXCEPT ![j] = "running"]
    /\ at' = "spawned" /\ job' = j
    /\ UNCHANGED <<held, result, backgrounded, suppressed, killed, saw, woken, calledOff, history>>

HoldHandle ==
    /\ at = "spawned"
    /\ held' = IF job \in entry THEN held \union {job} ELSE held
    /\ Goto("subscribing")
    /\ UNCHANGED <<entry, result, backgrounded, suppressed, runners, history>>

\* From here on notify_waiters reaches the call, which a runner that is quicker misses.
Subscribe ==
    /\ at = "subscribing"
    /\ Goto("foreground")
    /\ UNCHANGED <<cells, runners, history>>

\* The command ended within ten seconds: its entry goes and its output is returned,
\* after the hooks.
TakeForeground ==
    /\ at = "foreground" /\ woken
    /\ TakeOutput
    /\ Goto("hooks")
    /\ UNCHANGED <<result, backgrounded, suppressed, runners, heard, lost, muted, joined, abandoned, orphaned>>

ReturnForeground ==
    /\ at = "hooks"
    /\ heard' = heard \union {job}
    /\ Return
    /\ UNCHANGED <<cells, runners, mixed, lost, muted, joined, abandoned, orphaned>>

\* Ten seconds are over ...
TimesOut ==
    /\ at = "foreground" /\ ~woken
    /\ Goto("yielding")
    /\ UNCHANGED <<cells, runners, history>>

YieldForgetting ==
    /\ at = "yielding"
    /\ backgrounded' = backgrounded \union {job}
    /\ entry' = entry \ {job} /\ held' = held \ {job}
    /\ Return
    /\ UNCHANGED <<result, suppressed, runners, history>>

\* ... and the model reads that the command runs in the background.
Yield ==
    /\ at = "yielding"
    /\ backgrounded' = backgrounded \union {job}
    /\ Return
    /\ UNCHANGED <<entry, held, result, suppressed, runners, history>>

-----------------------------------------------------------------------------
(* The runner of a command. *)

\* The process ends, by itself or at its own timeout, and its output is stored.
Exit(j) ==
    /\ runner[j] = "running"
    /\ runner' = [runner EXCEPT ![j] = "stored"]
    /\ result' = [result EXCEPT ![j] = "output"]
    /\ UNCHANGED <<entry, held, backgrounded, suppressed, killed, call, history>>

\* The hooks of a background command are the runner's to run.
AfterExit(j) ==
    /\ runner[j] = "stored"
    /\ runner' = [runner EXCEPT ![j] = IF j \in backgrounded THEN "hooking" ELSE "judging"]
    /\ UNCHANGED <<cells, killed, call, history>>

HooksEnd(j) ==
    /\ runner[j] = "hooking"
    /\ runner' = [runner EXCEPT ![j] = "judging"]
    /\ UNCHANGED <<cells, killed, call, history>>

JudgeCleaningUp(j) ==
    /\ runner[j] = "judging"
    /\ runner' = [runner EXCEPT ![j] = "over"]
    /\ entry' = entry \ {j} /\ held' = held \ {j}
    /\ heard' = IF j \in backgrounded \ suppressed THEN heard \union {j} ELSE heard
    /\ woken' = (woken \/ (at = "foreground" /\ job = j))
    /\ UNCHANGED <<result, backgrounded, suppressed, killed, at, job, saw, calledOff, mixed, lost, muted, joined, abandoned, orphaned>>

\* A notice to the model, unless the command never was in the background or a call
\* suppresses it; then everyone who waits is woken.
Judge(j) ==
    /\ runner[j] = "judging"
    /\ runner' = [runner EXCEPT ![j] = "over"]
    /\ heard' = IF j \in backgrounded \ suppressed THEN heard \union {j} ELSE heard
    /\ muted' = IF j \in suppressed /\ job = j THEN muted \union {j} ELSE muted
    /\ woken' = (woken \/ (at = "foreground" /\ job = j))
    /\ UNCHANGED <<cells, killed, at, job, saw, calledOff, mixed, lost, joined, abandoned, orphaned>>

\* An aborted runner ends at its await; the process is killed with it.
Dies(j) ==
    /\ j \in killed /\ runner[j] \in Stoppable
    /\ runner' = [runner EXCEPT ![j] = "dead"]
    /\ UNCHANGED <<cells, killed, call, history>>

\* A panic: handle_wait looks for a runner that is over and left no result.
Crash(j) ==
    /\ runner[j] = "running"
    /\ runner' = [runner EXCEPT ![j] = "dead"]
    /\ UNCHANGED <<cells, killed, call, history>>

-----------------------------------------------------------------------------
(* `wait`.  With no entry it returns at once, which changes nothing. *)

WaitBegin(j) ==
    /\ at = "idle" /\ j \in entry
    /\ at' = "muting" /\ job' = j /\ saw' = (result[j] # "none")
    /\ UNCHANGED <<cells, runners, woken, calledOff, history>>

\* WaitSuppressGuard::new, after the look at the result.
Mute ==
    /\ at = "muting"
    /\ suppressed' = suppressed \union {job}
    /\ Goto(IF saw THEN "taking" ELSE "checking")
    /\ UNCHANGED <<entry, held, result, backgrounded, runners, history>>

\* The deadline, a user message, an abort of the session, or the time budget.
CallOff ==
    /\ at \in {"checking", "asleep"} /\ ~calledOff
    /\ calledOff' = TRUE
    /\ UNCHANGED <<cells, runners, at, job, saw, woken, history>>

\* The runner is over and left no result.
Crashed == job \in held /\ runner[job] \in Ended /\ result[job] = "none"

\* One turn of the loop.
CheckDone ==
    /\ at = "checking" /\ job \in entry /\ result[job] # "none"
    /\ Goto("taking")
    /\ UNCHANGED <<cells, runners, history>>

CheckCrashed ==
    /\ at = "checking" /\ Crashed
    /\ entry' = entry \ {job} /\ held' = held \ {job}
    /\ heard' = heard \union {job}
    /\ Goto("leaving")
    /\ UNCHANGED <<result, backgrounded, suppressed, runners, mixed, lost, muted, joined, abandoned, orphaned>>

CheckRunning ==
    /\ at = "checking" /\ ~Crashed /\ (job \in entry => result[job] = "none")
    /\ Goto(IF calledOff \/ job \notin entry THEN "leaving" ELSE "asleep")
    /\ UNCHANGED <<cells, runners, history>>

\* A notification, or the poll every 200 ms.
WakeUp ==
    /\ at = "asleep"
    /\ Goto("checking")
    /\ UNCHANGED <<cells, runners, history>>

\* The guard is disarmed: what the wait returns needs no notice.
TakeWaited ==
    /\ at = "taking"
    /\ TakeOutput
    /\ heard' = heard \union {job}
    /\ Return
    /\ UNCHANGED <<result, backgrounded, suppressed, runners, lost, muted, joined, abandoned, orphaned>>

LeaveMuted ==
    /\ at = "leaving"
    /\ Return
    /\ UNCHANGED <<cells, runners, history>>

\* Any other end drops the guard, which clears the flag.
Leave ==
    /\ at = "leaving"
    /\ suppressed' = suppressed \ {job}
    /\ Return
    /\ UNCHANGED <<entry, held, result, backgrounded, runners, history>>

-----------------------------------------------------------------------------
(* `kill`. *)

KillBeginForgetting(j) ==
    /\ at = "idle" /\ j \in entry
    /\ held' = held \ {j}
    /\ \/ /\ result[j] # "none"
          /\ entry' = entry \ {j}
          /\ UNCHANGED call
       \/ /\ result[j] = "none"
          /\ at' = "stopping" /\ job' = j /\ saw' = (j \in held)
          /\ UNCHANGED <<entry, woken, calledOff>>
    /\ UNCHANGED <<result, backgrounded, suppressed, runners, history>>

\* The handle is taken whether or not the command is done, which ends the call.
KillBegin(j) ==
    /\ at = "idle" /\ j \in entry
    /\ held' = held \ {j}
    /\ \/ /\ result[j] # "none"
          /\ UNCHANGED call
       \/ /\ result[j] = "none"
          /\ at' = "stopping" /\ job' = j /\ saw' = (j \in held)
          /\ UNCHANGED <<woken, calledOff>>
    /\ UNCHANGED <<entry, result, backgrounded, suppressed, runners, history>>

StopWithoutAbort ==
    /\ at = "stopping"
    /\ suppressed' = suppressed \union {job}
    /\ Goto(IF saw THEN "joining" ELSE "cancelling")
    /\ UNCHANGED <<entry, held, result, backgrounded, runners, history>>

Stop ==
    /\ at = "stopping"
    /\ suppressed' = suppressed \union {job}
    /\ killed' = IF saw THEN killed \union {job} ELSE killed
    /\ Goto(IF saw THEN "joining" ELSE "cancelling")
    /\ UNCHANGED <<entry, held, result, backgrounded, runner, history>>

JoinsAtOnce == TRUE

\* handle.await: the runner is over one way or the other.
Joins == runner[job] \in Ended

Join ==
    /\ at = "joining" /\ Joins
    /\ joined' = joined \union {job}
    /\ Goto("cancelling")
    /\ UNCHANGED <<cells, runners, heard, mixed, lost, muted, abandoned, orphaned>>

\* The result is written over whatever the cell holds.
Cancel ==
    /\ at = "cancelling"
    /\ result' = [result EXCEPT ![job] = "cancelled"]
    /\ heard' = heard \union {job}
    /\ Return
    /\ UNCHANGED <<entry, held, backgrounded, suppressed, runners, mixed, lost, muted, joined, abandoned, orphaned>>

-----------------------------------------------------------------------------
(* What happens to the turn. *)

StillMuted == suppressed

\* The flag a dropped call leaves: the guard of a wait clears it.
Unmuted == IF at = "asleep" THEN suppressed \ {job} ELSE suppressed

Drops ==
    /\ suppressed' = Unmuted
    /\ abandoned' = IF at = "foreground" THEN abandoned \union {job} ELSE abandoned
    /\ lost' = IF at = "hooks" THEN lost \union {job} ELSE lost
    /\ Return

\* Interrupted: the call is dropped at its await; its runner is not.
AbortTurn ==
    /\ at \in Awaits \ {"idle"}
    /\ Drops
    /\ UNCHANGED <<entry, held, result, backgrounded, runners, heard, mixed, muted, joined, orphaned>>

\* A session takes the place of this one, with an empty background_execs.
Reconfigure ==
    /\ at \in Awaits
    /\ Drops
    /\ entry' = {} /\ held' = {}
    /\ orphaned' = orphaned \union entry
    /\ UNCHANGED <<result, backgrounded, runners, heard, mixed, muted, joined>>

-----------------------------------------------------------------------------

\* The steps of a call that need nobody else, the ten seconds and the deadline included.
TurnStep ==
    \/ HoldHandle \/ Subscribe \/ TakeForeground \/ ReturnForeground \/ TimesOut \/ Yield
    \/ Mute \/ CheckDone \/ CheckCrashed \/ CheckRunning \/ WakeUp \/ TakeWaited \/ Leave
    \/ Stop \/ Join \/ Cancel

RunnerStep(j) == AfterExit(j) \/ HooksEnd(j) \/ Judge(j) \/ Dies(j)

Next ==
    \/ TurnStep \/ CallOff \/ AbortTurn \/ Reconfigure
    \/ \E j \in Jobs :
         RunShell(j) \/ Exit(j) \/ Crash(j) \/ RunnerStep(j) \/ WaitBegin(j) \/ KillBegin(j)

Spec == Init /\ [][Next]_vars

\* A process need not end, and nobody need call, abort or reconfigure.
Fairness ==
    /\ WF_vars(TurnStep) /\ WF_vars(CallOff)
    /\ \A j \in Jobs : WF_vars(RunnerStep(j))

FairSpec == Spec /\ Fairness

-----------------------------------------------------------------------------

TypeOK ==
    /\ entry \subseteq Jobs /\ held \subseteq entry
    /\ backgrounded \subseteq Jobs /\ suppressed \subseteq Jobs /\ killed \subseteq Jobs
    /\ result \in [Jobs -> {"none", "output", "cancelled"}]
    /\ runner \in [Jobs -> {"off", "running", "stored", "hooking", "judging"} \union Ended]
    /\ at \in {"idle"} \union ShellLabels \union WaitLabels \union KillLabels
    /\ job \in Jobs \union {NoJob} /\ (at = "idle" <=> job = NoJob)
    /\ saw \in BOOLEAN /\ woken \in BOOLEAN /\ calledOff \in BOOLEAN /\ mixed \in BOOLEAN
    /\ heard \subseteq Jobs /\ lost \subseteq Jobs /\ muted \subseteq Jobs
    /\ joined \subseteq Jobs /\ abandoned \subseteq Jobs /\ orphaned \subseteq Jobs

\* A command's output is never given as another's, although both tools fall back on
\* any finished command when their own has no entry.
OwnOutput == ~mixed

\* A command that runs can be waited for and killed, whatever became of the turn that
\* started it: its entry is there, and its handle, or the call that will put or use it.
RunningIsReachable ==
    \A j \in Jobs :
        (runner[j] = "running" /\ j \notin killed \union orphaned)
        => /\ j \in entry
           /\ j \in held \/ (job = j /\ at \in {"spawned", "stopping"})

\* The notice of a command's end stays suppressed only while a wait or a kill for it is
\* at work, once the model has heard of its end, or once it was killed: the guard of a
\* wait gives it back at every other end, an abort included.
SuppressedForItsCall ==
    \A j \in suppressed : job = j \/ j \in heard \union killed

\* An end the model has not heard of can be waited for by the next call: the entry is there with
\* its result, or with the handle by which a wait finds a runner that left none, unless
\* the turn that took it was aborted, the session was replaced, or a kill was dropped.
UnheardIsKept ==
    \A j \in Jobs :
        (runner[j] \in Ended /\ job # j /\ j \notin heard \union lost \union orphaned)
        => j \in entry /\ (result[j] # "none" \/ j \in held \union killed)

\* Once a kill that waited for the runner has put its result, that is the result: no
\* output of the command comes after it.
KilledStaysKilled ==
    [][\A j \in joined : result[j] = "cancelled" => result'[j] = "cancelled"]_vars

\* Every call returns, also when the process never ends.
CallsEnd == at # "idle" ~> at = "idle"

\* The model hears of a command that ends in the background, by the notice or from the
\* call that suppressed it, unless that call went away or the command was killed.
EndIsHeard ==
    \A j \in Jobs :
        (j \in backgrounded /\ runner[j] = "stored") ~> (j \in heard \union muted \union killed)

\* What exec.rs says of KillOnDrop: a command is killed when the turn that awaits it is
\* interrupted.
InterruptStopsCommand == \A j \in abandoned : runner[j] = "running" => j \in killed
=============================================================================

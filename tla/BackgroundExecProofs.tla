------------------------ MODULE BackgroundExecProofs ------------------------
(* Proofs about BackgroundExec, for any number of commands. *)
EXTENDS BackgroundExec, Naturals, TLAPS

-----------------------------------------------------------------------------
(* Types *)

LEMMA TypeInit == Init => TypeOK
BY JobAssumption DEF Init, TypeOK

\* A source is a set of registered commands; what is taken leaves the registry.
LEMMA TakenType ==
    ASSUME TypeOK, TakeOutput
    PROVE  entry' \subseteq Jobs /\ held' \subseteq entry' /\ mixed' \in BOOLEAN
BY DEF TypeOK, TakeOutput

LEMMA ShellType ==
    ASSUME TypeOK,
           \/ \E j \in Jobs : RunShell(j)
           \/ HoldHandle \/ Subscribe \/ TakeForeground \/ ReturnForeground \/ TimesOut \/ Yield
    PROVE  TypeOK'
<1>1. ASSUME NEW j \in Jobs, RunShell(j) PROVE TypeOK'
  BY <1>1, JobAssumption DEF RunShell, TypeOK, history, ShellLabels, Ended
<1>2. CASE HoldHandle
  BY <1>2 DEF HoldHandle, Goto, TypeOK, runners, history, ShellLabels
<1>3. CASE Subscribe \/ TimesOut
  BY <1>3 DEF Subscribe, TimesOut, Goto, TypeOK, cells, runners, history, ShellLabels
<1>4. CASE TakeForeground
  BY <1>4, TakenType DEF TakeForeground, Goto, TypeOK, runners, ShellLabels
<1>5. CASE ReturnForeground
  BY <1>5 DEF ReturnForeground, Return, TypeOK, cells, runners
<1>6. CASE Yield
  BY <1>6 DEF Yield, Return, TypeOK, runners, history
<1>7. QED
  BY <1>1, <1>2, <1>3, <1>4, <1>5, <1>6

LEMMA RunnerType ==
    ASSUME TypeOK, NEW j \in Jobs, Exit(j) \/ Crash(j) \/ RunnerStep(j)
    PROVE  TypeOK'
<1>1. CASE Exit(j)
  BY <1>1 DEF Exit, TypeOK, call, history
<1>2. CASE Judge(j)
  BY <1>2 DEF Judge, TypeOK, cells, Ended
<1>3. CASE Crash(j) \/ AfterExit(j) \/ HooksEnd(j) \/ Dies(j)
  BY <1>3 DEF Crash, AfterExit, HooksEnd, Dies, TypeOK, cells, call, history, Ended
<1>4. QED
  BY <1>1, <1>2, <1>3 DEF RunnerStep

LEMMA WaitType ==
    ASSUME TypeOK,
           \/ \E j \in Jobs : WaitBegin(j)
           \/ Mute \/ CallOff \/ CheckDone \/ CheckCrashed \/ CheckRunning \/ WakeUp
           \/ TakeWaited \/ Leave
    PROVE  TypeOK'
<1>1. ASSUME NEW j \in Jobs, WaitBegin(j) PROVE TypeOK'
  BY <1>1, JobAssumption DEF WaitBegin, TypeOK, cells, runners, history, WaitLabels
<1>2. CASE Mute
  BY <1>2 DEF Mute, Goto, TypeOK, runners, history, WaitLabels
<1>3. CASE CallOff \/ CheckDone \/ CheckRunning \/ WakeUp
  BY <1>3 DEF CallOff, CheckDone, CheckRunning, WakeUp, Goto, TypeOK, cells, runners, history,
              WaitLabels
<1>4. CASE CheckCrashed
  BY <1>4 DEF CheckCrashed, Goto, TypeOK, runners, WaitLabels
<1>5. CASE TakeWaited
  BY <1>5, TakenType DEF TakeWaited, Return, TypeOK, runners, WaitLabels
<1>6. CASE Leave
  BY <1>6 DEF Leave, Return, TypeOK, runners, history
<1>7. QED
  BY <1>1, <1>2, <1>3, <1>4, <1>5, <1>6

LEMMA KillType ==
    ASSUME TypeOK, (\E j \in Jobs : KillBegin(j)) \/ Stop \/ Join \/ Cancel
    PROVE  TypeOK'
<1>1. ASSUME NEW j \in Jobs, KillBegin(j) PROVE TypeOK'
  <2>1. entry' = entry /\ held' = held \ {j}
    BY <1>1 DEF KillBegin
  <2>2. CASE UNCHANGED call
    BY <1>1, <2>1, <2>2 DEF KillBegin, TypeOK, runners, call, history
  <2>3. CASE at' = "stopping" /\ job' = j /\ saw' = (j \in held) /\ UNCHANGED <<woken, calledOff>>
    BY <1>1, <2>1, <2>3, JobAssumption DEF KillBegin, TypeOK, runners, history, KillLabels
  <2>4. QED
    BY <1>1, <2>2, <2>3 DEF KillBegin
<1>2. CASE Stop
  BY <1>2 DEF Stop, Goto, TypeOK, history, KillLabels
<1>3. CASE Join
  BY <1>3 DEF Join, Goto, TypeOK, cells, runners, KillLabels
<1>4. CASE Cancel
  BY <1>4 DEF Cancel, Return, TypeOK, runners, KillLabels
<1>5. QED
  BY <1>1, <1>2, <1>3, <1>4

LEMMA TurnType ==
    ASSUME TypeOK, AbortTurn \/ Reconfigure
    PROVE  TypeOK'
<1>1. suppressed' \subseteq Jobs /\ abandoned' \subseteq Jobs /\ lost' \subseteq Jobs
  BY DEF AbortTurn, Reconfigure, Drops, Unmuted, TypeOK
<1>2. at' = "idle" /\ job' = NoJob /\ saw' = FALSE /\ woken' = FALSE /\ calledOff' = FALSE
  BY DEF AbortTurn, Reconfigure, Drops, Return
<1>3. CASE AbortTurn
  BY <1>1, <1>2, <1>3 DEF AbortTurn, TypeOK, runners
<1>4. CASE Reconfigure
  BY <1>1, <1>2, <1>4 DEF Reconfigure, TypeOK, runners
<1>5. QED
  BY <1>3, <1>4

LEMMA StepType == TypeOK /\ [Next]_vars => TypeOK'
<1> SUFFICES ASSUME TypeOK, [Next]_vars
             PROVE  TypeOK'
  OBVIOUS
<1>1. CASE UNCHANGED vars
  BY <1>1 DEF TypeOK, vars, cells, runners, call, history
<1>2. CASE Next
  BY <1>2, ShellType, RunnerType, WaitType, KillType, TurnType DEF Next, TurnStep
<1>3. QED
  BY <1>1, <1>2

\* The registry, the runners and the turn's call stay well typed, for any commands.
THEOREM TypeCorrect == Spec => []TypeOK
<1>1. QED
  BY TypeInit, StepType, PTL DEF Spec

-----------------------------------------------------------------------------
(* What the registry knows of a runner *)

\* A call keeps its entry until it takes it.
CallKnown == at \notin {"idle", "hooks", "leaving"} => job \in entry

\* A command that was not started is not known; one whose process ended has a result.
ResultsFollow ==
    \A j \in Jobs :
        /\ runner[j] = "off" => j \notin entry /\ result[j] = "none"
        /\ runner[j] \in {"stored", "hooking", "judging", "over"} => result[j] # "none"
        /\ runner[j] = "running" /\ result[j] # "none" => j \in killed \union orphaned

\* What the steps of a call have found stays so until the next.
CallSteps ==
    /\ at = "taking" \/ (at = "muting" /\ saw) => result[job] # "none"
    /\ woken => at \in {"foreground", "hooks"} /\ runner[job] = "over"
    /\ at = "joining" => job \in killed
    /\ at = "cancelling" /\ runner[job] = "running" => job \in killed \union orphaned

Settled(j) == j \in killed \union orphaned \union heard \union lost

\* A runner that died without a result is found by its handle.
DeadIsFound ==
    \A j \in Jobs :
        (runner[j] = "dead" /\ result[j] = "none" /\ ~Settled(j))
        => j \in held \/ (job = j /\ at \in {"spawned", "stopping"})

\* A kill that had no handle to take comes after one that had it, or a new session.
KillFound ==
    (at = "stopping" /\ ~saw)
    => /\ runner[job] = "running" => job \in killed \union orphaned
       /\ runner[job] = "dead" /\ result[job] = "none" => Settled(job)

\* The entry stays until the model has heard of the end.
EntryStays ==
    \A j \in Jobs :
        (runner[j] # "off" /\ j \notin heard \union lost \union orphaned
            /\ ~(job = j /\ at = "hooks"))
        => j \in entry

KnownInv ==
    /\ TypeOK /\ CallKnown /\ ResultsFollow /\ CallSteps
    /\ RunningIsReachable /\ DeadIsFound /\ KillFound /\ EntryStays

LEMMA KnownInit == Init => KnownInv
<1>1. Init => TypeOK
  BY TypeInit
<1>2. QED
  BY <1>1, JobAssumption
     DEF Init, KnownInv, CallKnown, ResultsFollow, CallSteps, RunningIsReachable,
         DeadIsFound, KillFound, EntryStays, Ended

\* A call takes its own entry.
LEMMA TakesOwn ==
    ASSUME TypeOK, CallKnown, TakeOutput, at \notin {"idle", "hooks", "leaving"}
    PROVE  entry' = entry \ {job} /\ held' = held \ {job} /\ mixed' = mixed
<1>1. Sources = {{job}}
  BY DEF CallKnown, Sources
<1>2. QED
  BY <1>1 DEF TakeOutput, TypeOK

LEMMA ShellKnown ==
    ASSUME KnownInv, TypeOK',
           \/ \E j \in Jobs : RunShell(j)
           \/ HoldHandle \/ Subscribe \/ TakeForeground \/ ReturnForeground \/ TimesOut \/ Yield
    PROVE  KnownInv'
<1> USE DEF KnownInv, TypeOK, CallKnown, ResultsFollow, CallSteps, RunningIsReachable,
            DeadIsFound, KillFound, EntryStays, Settled
<1>1. ASSUME NEW j \in Jobs, RunShell(j) PROVE KnownInv'
  BY <1>1, JobAssumption DEF RunShell, history
<1>2. CASE HoldHandle
  BY <1>2 DEF HoldHandle, Goto, runners, history
<1>3. CASE Subscribe \/ TimesOut
  BY <1>3 DEF Subscribe, TimesOut, Goto, cells, runners, history
<1>4. CASE TakeForeground
  BY <1>4, TakesOwn DEF TakeForeground, Goto, runners
<1>5. CASE ReturnForeground
  BY <1>5 DEF ReturnForeground, Return, cells, runners
<1>6. CASE Yield
  BY <1>6 DEF Yield, Return, runners, history
<1>7. QED
  BY <1>1, <1>2, <1>3, <1>4, <1>5, <1>6

LEMMA RunnerKnown ==
    ASSUME KnownInv, TypeOK', NEW j \in Jobs, Exit(j) \/ Crash(j) \/ RunnerStep(j)
    PROVE  KnownInv'
<1> USE DEF KnownInv, TypeOK, CallKnown, ResultsFollow, CallSteps, RunningIsReachable,
            DeadIsFound, KillFound, EntryStays, Settled
<1>1. CASE Exit(j)
  BY <1>1 DEF Exit, call, history
<1>2. CASE Judge(j)
  BY <1>2 DEF Judge, cells
<1>3. CASE Crash(j)
  BY <1>3 DEF Crash, cells, call, history
<1>4. CASE AfterExit(j)
  BY <1>4 DEF AfterExit, cells, call, history
<1>5. CASE HooksEnd(j)
  BY <1>5 DEF HooksEnd, cells, call, history
<1>6. CASE Dies(j)
  BY <1>6 DEF Dies, Stoppable, cells, call, history
<1>7. QED
  BY <1>1, <1>2, <1>3, <1>4, <1>5, <1>6 DEF RunnerStep

LEMMA WaitKnown ==
    ASSUME KnownInv, TypeOK',
           \/ \E j \in Jobs : WaitBegin(j)
           \/ Mute \/ CallOff \/ CheckDone \/ CheckCrashed \/ CheckRunning \/ WakeUp
           \/ TakeWaited \/ Leave
    PROVE  KnownInv'
<1> USE DEF KnownInv, TypeOK, CallKnown, ResultsFollow, CallSteps, RunningIsReachable,
            DeadIsFound, KillFound, EntryStays, Settled
<1>1. ASSUME NEW j \in Jobs, WaitBegin(j) PROVE KnownInv'
  BY <1>1, JobAssumption DEF WaitBegin, cells, runners, history
<1>2. CASE Mute
  BY <1>2 DEF Mute, Goto, runners, history
<1>3. CASE CallOff \/ CheckDone \/ CheckRunning \/ WakeUp
  BY <1>3 DEF CallOff, CheckDone, CheckRunning, WakeUp, Goto, cells, runners, history
<1>4. CASE CheckCrashed
  BY <1>4 DEF CheckCrashed, Crashed, Goto, runners, Ended
<1>5. CASE TakeWaited
  BY <1>5, TakesOwn DEF TakeWaited, Return, runners
<1>6. CASE Leave
  BY <1>6 DEF Leave, Return, runners, history
<1>7. QED
  BY <1>1, <1>2, <1>3, <1>4, <1>5, <1>6

LEMMA KillKnown ==
    ASSUME KnownInv, TypeOK', (\E j \in Jobs : KillBegin(j)) \/ Stop \/ Join \/ Cancel
    PROVE  KnownInv'
<1> USE DEF KnownInv, TypeOK, CallKnown, ResultsFollow, CallSteps, RunningIsReachable,
            DeadIsFound, KillFound, EntryStays, Settled
<1>1. ASSUME NEW j \in Jobs, KillBegin(j) PROVE KnownInv'
  BY <1>1, JobAssumption DEF KillBegin, runners, call, history
<1>2. CASE Stop
  BY <1>2 DEF Stop, Goto, history
<1>3. CASE Join
  BY <1>3 DEF Join, Joins, Goto, cells, runners, Ended
<1>4. CASE Cancel
  BY <1>4 DEF Cancel, Return, runners
<1>5. QED
  BY <1>1, <1>2, <1>3, <1>4

LEMMA TurnKnown ==
    ASSUME KnownInv, TypeOK', AbortTurn \/ Reconfigure
    PROVE  KnownInv'
<1> USE DEF KnownInv, TypeOK, CallKnown, ResultsFollow, CallSteps, RunningIsReachable,
            DeadIsFound, KillFound, EntryStays, Settled
<1>1. CASE AbortTurn
  BY <1>1 DEF AbortTurn, Awaits, Drops, Return, runners
<1>2. CASE Reconfigure
  BY <1>2 DEF Reconfigure, Awaits, Drops, Return, runners
<1>3. QED
  BY <1>1, <1>2

LEMMA StepKnown == KnownInv /\ [Next]_vars => KnownInv'
<1> SUFFICES ASSUME KnownInv, [Next]_vars
             PROVE  KnownInv'
  OBVIOUS
<1>1. TypeOK'
  BY StepType DEF KnownInv
<1>2. CASE UNCHANGED vars
  BY <1>2, <1>1
     DEF KnownInv, CallKnown, ResultsFollow, CallSteps, RunningIsReachable, DeadIsFound,
         KillFound, EntryStays, Settled, vars, cells, runners, call, history
<1>3. CASE Next
  BY <1>1, <1>3, ShellKnown, RunnerKnown, WaitKnown, KillKnown, TurnKnown DEF Next, TurnStep
<1>4. QED
  BY <1>2, <1>3

LEMMA KnownAlways == Spec => []KnownInv
<1>1. QED
  BY KnownInit, StepKnown, PTL DEF Spec

\* Every command that runs can be waited for and killed, the foreground command of a
\* turn that was aborted included.
THEOREM RunningAreReachable == Spec => []RunningIsReachable
<1>1. KnownInv => RunningIsReachable
  BY DEF KnownInv
<1>2. QED
  BY <1>1, KnownAlways, PTL

\* The end of a command the model has not heard of is there for its next wait.
THEOREM UnheardAreKept == Spec => []UnheardIsKept
<1>1. KnownInv => UnheardIsKept
  <2> SUFFICES ASSUME KnownInv, NEW j \in Jobs, runner[j] \in Ended, job # j,
                      j \notin heard \union lost \union orphaned
               PROVE  j \in entry /\ (result[j] # "none" \/ j \in held \union killed)
    BY DEF UnheardIsKept
  <2>1. j \in entry
    BY DEF KnownInv, EntryStays, Ended
  <2>2. runner[j] = "over" => result[j] # "none"
    BY DEF KnownInv, ResultsFollow
  <2>3. runner[j] = "dead" /\ result[j] = "none" => j \in held \union killed
    BY DEF KnownInv, DeadIsFound, Settled
  <2>4. QED
    BY <2>1, <2>2, <2>3 DEF Ended
<1>2. QED
  BY <1>1, KnownAlways, PTL

-----------------------------------------------------------------------------
(* Outputs, notices and kills *)

LEMMA MixedStays ==
    ASSUME KnownInv, [Next]_vars
    PROVE  mixed' = mixed
<1>1. CASE TakeForeground \/ TakeWaited
  BY <1>1, TakesOwn DEF TakeForeground, TakeWaited, KnownInv
<1>2. CASE UNCHANGED mixed
  BY <1>2
<1>3. CASE AbortTurn \/ Reconfigure
  BY <1>3 DEF AbortTurn, Reconfigure
<1>4. QED
  BY <1>1, <1>2, <1>3
     DEF Next, TurnStep, vars, history, RunShell, Exit, Crash, RunnerStep, AfterExit, HooksEnd,
         Judge, Dies, WaitBegin, KillBegin, HoldHandle, Subscribe, ReturnForeground, TimesOut,
         Yield, Mute, CallOff, CheckDone, CheckCrashed, CheckRunning, WakeUp, Leave, Stop, Join,
         Cancel

\* The model is never given a command's output as another's.
THEOREM OutputsAreOwn == Spec => []OwnOutput
<1>1. Init => OwnOutput
  BY DEF Init, OwnOutput
<1>2. KnownInv /\ OwnOutput /\ [Next]_vars => OwnOutput'
  BY MixedStays DEF OwnOutput
<1>3. QED
  BY <1>1, <1>2, KnownAlways, PTL DEF Spec

\* A call that has muted a command is at work on it; its name, its end or its kill
\* outlasts the call.
MutedFor ==
    \A j \in suppressed :
        \/ j \in heard \union killed
        \/ job = j /\ at \in {"checking", "asleep", "leaving", "taking", "joining", "cancelling"}

MutedInv == KnownInv /\ MutedFor

LEMMA StepMuted == MutedInv /\ [Next]_vars => MutedInv'
<1> SUFFICES ASSUME MutedInv, [Next]_vars
             PROVE  MutedInv'
  OBVIOUS
<1>1. KnownInv'
  BY StepKnown DEF MutedInv
<1>2. MutedFor'
  <2> USE DEF MutedInv, MutedFor, KnownInv, TypeOK
  <2>1. CASE UNCHANGED vars
    BY <2>1 DEF vars, cells, runners, call, history
  <2>2. ASSUME NEW j \in Jobs, RunShell(j) \/ WaitBegin(j) \/ KillBegin(j) PROVE MutedFor'
    BY <2>2 DEF RunShell, WaitBegin, KillBegin, cells, runners, call, history
  <2>3. ASSUME NEW j \in Jobs, Exit(j) \/ Crash(j) \/ RunnerStep(j) PROVE MutedFor'
    BY <2>3 DEF Exit, Crash, RunnerStep, AfterExit, HooksEnd, Judge, Dies, cells, call, history
  <2>4. CASE HoldHandle \/ Subscribe \/ TakeForeground \/ TimesOut
    BY <2>4 DEF HoldHandle, Subscribe, TakeForeground, TimesOut, Goto, cells, runners, history
  <2>5. CASE ReturnForeground \/ Yield
    BY <2>5 DEF ReturnForeground, Yield, Return, cells, runners, history
  <2>6. CASE Mute
    BY <2>6 DEF Mute, Goto, runners, history
  <2>7. CASE CallOff \/ CheckDone \/ CheckCrashed \/ CheckRunning \/ WakeUp
    BY <2>7 DEF CallOff, CheckDone, CheckCrashed, CheckRunning, WakeUp, Goto, cells, runners,
                history
  <2>8. CASE TakeWaited \/ Leave
    BY <2>8 DEF TakeWaited, Leave, Return, runners, history
  <2>9. CASE Stop \/ Join
    BY <2>9 DEF Stop, Join, Goto, cells, runners, history
  <2>10. CASE Cancel
    BY <2>10 DEF Cancel, Return, runners
  <2>11. CASE AbortTurn \/ Reconfigure
    BY <2>11 DEF AbortTurn, Reconfigure, Drops, Unmuted, Return, Awaits, runners, CallSteps
  <2>12. QED
    BY <2>1, <2>2, <2>3, <2>4, <2>5, <2>6, <2>7, <2>8, <2>9, <2>10, <2>11 DEF Next, TurnStep
<1>3. QED
  BY <1>1, <1>2 DEF MutedInv

\* A notice stays suppressed only by a call at work on the command, or when the model
\* knows the end or killed the command itself.
THEOREM SuppressedByItsCall == Spec => []SuppressedForItsCall
<1>1. Init => MutedInv
  BY KnownInit DEF MutedInv, MutedFor, Init
<1>2. MutedInv => SuppressedForItsCall
  BY DEF MutedInv, MutedFor, SuppressedForItsCall
<1>3. QED
  BY <1>1, <1>2, StepMuted, PTL DEF Spec

\* A runner a kill has waited for is over.
JoinedAreOver == \A j \in joined : runner[j] \in Ended

LEMMA ResultsOfRunners ==
    ASSUME TypeOK, [Next]_vars, NEW j \in Jobs, runner[j] \in Ended
    PROVE  runner'[j] \in Ended /\ (result[j] = "cancelled" => result'[j] = "cancelled")
<1>1. CASE UNCHANGED <<runner, result>>
  BY <1>1
<1>2. ASSUME NEW k \in Jobs, RunShell(k) \/ Exit(k) \/ Crash(k) \/ RunnerStep(k)
      PROVE  runner'[j] \in Ended /\ (result[j] = "cancelled" => result'[j] = "cancelled")
  <2>1. runner[k] \notin Ended
    BY <1>2 DEF RunShell, Exit, Crash, RunnerStep, AfterExit, HooksEnd, Judge, Dies, Ended,
                Stoppable
  <2>2. result'[j] = result[j] /\ runner'[j] = runner[j]
    BY <1>2, <2>1
       DEF RunShell, Exit, Crash, RunnerStep, AfterExit, HooksEnd, Judge, Dies, TypeOK, cells
  <2>3. QED
    BY <2>2
<1>3. CASE Cancel
  BY <1>3 DEF Cancel, TypeOK, runners
<1>4. QED
  BY <1>1, <1>2, <1>3
     DEF Next, TurnStep, vars, cells, runners, WaitBegin, KillBegin, HoldHandle, Subscribe,
         TakeForeground, ReturnForeground, TimesOut, Yield, Mute, CallOff, CheckDone, CheckCrashed,
         CheckRunning, WakeUp, TakeWaited, Leave, Stop, Join, AbortTurn, Reconfigure

LEMMA StepJoined == TypeOK /\ JoinedAreOver /\ [Next]_vars => JoinedAreOver'
<1> SUFFICES ASSUME TypeOK, JoinedAreOver, [Next]_vars
             PROVE  JoinedAreOver'
  OBVIOUS
<1>1. CASE UNCHANGED joined
  BY <1>1, ResultsOfRunners DEF JoinedAreOver, TypeOK
<1>2. CASE Join
  BY <1>2 DEF Join, Joins, JoinedAreOver, runners
<1>3. QED
  BY <1>1, <1>2
     DEF Next, TurnStep, vars, history, RunShell, Exit, Crash, RunnerStep, AfterExit, HooksEnd,
         Judge, Dies, WaitBegin, KillBegin, HoldHandle, Subscribe, TakeForeground,
         ReturnForeground, TimesOut, Yield, Mute, CallOff, CheckDone, CheckCrashed, CheckRunning,
         WakeUp, TakeWaited, Leave, Stop, Cancel, AbortTurn, Reconfigure

\* No output of a command comes after a kill that waited for its runner.
THEOREM KilledStay == Spec => KilledStaysKilled
<1>1. Init => JoinedAreOver
  BY DEF Init, JoinedAreOver
<1>2. TypeOK /\ JoinedAreOver /\ [Next]_vars
      => [\A j \in joined : result[j] = "cancelled" => result'[j] = "cancelled"]_vars
  BY ResultsOfRunners DEF JoinedAreOver, TypeOK
<1>3. QED
  BY <1>1, <1>2, StepJoined, TypeCorrect, PTL DEF Spec, KilledStaysKilled

-----------------------------------------------------------------------------
\* The end of a command in the background is in its runner's hands.
Due(j) == j \in backgrounded /\ runner[j] \in {"stored", "hooking", "judging"}
Accounted(j) == j \in heard \union muted \union killed

\* A runner settles the end it has stored before it is over: with a notice, or
\* with the call that suppresses it.
EndIsAccounted == \A j \in Jobs : Due(j) => Due(j)' \/ Accounted(j)'

\* A runner on its own: only the notice it withholds needs SuppressedForItsCall.
LEMMA RunnerSettles ==
    ASSUME TypeOK, SuppressedForItsCall, NEW j \in Jobs, Due(j), RunnerStep(j)
    PROVE  Due(j)' \/ Accounted(j)'
<1> USE DEF Due, Accounted
<1>1. CASE AfterExit(j)
  BY <1>1 DEF AfterExit, TypeOK, cells
<1>2. CASE HooksEnd(j)
  BY <1>2 DEF HooksEnd, TypeOK, cells
<1>3. CASE Judge(j)
  <2>1. CASE j \notin suppressed
    BY <1>3, <2>1 DEF Judge
  <2>2. CASE j \in suppressed
    BY <1>3, <2>2 DEF Judge, SuppressedForItsCall
  <2>3. QED
    BY <2>1, <2>2
<1>4. CASE Dies(j)
  BY <1>4 DEF Dies
<1>5. QED
  BY <1>1, <1>2, <1>3, <1>4 DEF RunnerStep

\* The end of a command in the background is never dropped on its way to the
\* model, whoever waits, kills, aborts or reconfigures meanwhile: EndIsHeard
\* adds that its runner is scheduled.
THEOREM EndsAreSettled == Spec => [][EndIsAccounted]_vars
<1>1. TypeOK /\ SuppressedForItsCall /\ Next => EndIsAccounted
  <2> SUFFICES ASSUME TypeOK, SuppressedForItsCall, Next, NEW j \in Jobs, Due(j)
               PROVE  Due(j)' \/ Accounted(j)'
    BY DEF EndIsAccounted
  <2>1. CASE RunnerStep(j)
    BY <2>1, RunnerSettles
  <2>2. ASSUME NEW k \in Jobs, k # j, RunnerStep(k) PROVE Due(j)'
    BY <2>2 DEF RunnerStep, AfterExit, HooksEnd, Judge, Dies, Due, TypeOK, cells
  <2>3. ASSUME NEW k \in Jobs, RunShell(k) \/ Exit(k) \/ Crash(k) PROVE Due(j)'
    BY <2>3 DEF RunShell, Exit, Crash, Due, TypeOK, cells
  <2>4. CASE UNCHANGED runner /\ backgrounded \subseteq backgrounded'
    BY <2>4 DEF Due
  <2>5. QED
    BY <2>1, <2>2, <2>3, <2>4
       DEF Next, TurnStep, cells, runners, WaitBegin, KillBegin, HoldHandle, Subscribe,
           TakeForeground, ReturnForeground, TimesOut, Yield, Mute, CallOff, CheckDone,
           CheckCrashed, CheckRunning, WakeUp, TakeWaited, Leave, Stop, Join, Cancel, AbortTurn,
           Reconfigure
<1>2. TypeOK /\ SuppressedForItsCall /\ [Next]_vars => [EndIsAccounted]_vars
  BY <1>1
<1>3. QED
  BY <1>2, TypeCorrect, SuppressedByItsCall, PTL DEF Spec
-----------------------------------------------------------------------------
(* Calls end *)

\* The labels in the order a call goes through them.  A wait goes to and fro
\* between its look and its sleep until it is called off.
CallRank ==
    CASE at \in {"spawned", "muting", "stopping"} -> 1
      [] at \in {"subscribing", "joining"} -> 2
      [] at \in {"foreground", "cancelling"} -> 3
      [] at \in {"asleep", "checking"} /\ ~calledOff -> 3
      [] at = "asleep" /\ calledOff -> 4
      [] at = "checking" /\ calledOff -> 5
      [] at = "idle" -> 7
      [] OTHER -> 6

\* A call returns, goes on, or is a wait that looks and sleeps: not once it is
\* called off.  Whatever is not its own step leaves it where it is.
CallGoesOn ==
    at # "idle" =>
        \/ at' = "idle"
        \/ /\ job' = job /\ (calledOff => calledOff')
           /\ \/ CallRank < CallRank'
              \/ at' = at /\ CallRank' = CallRank
              \/ ~calledOff /\ {at, at'} = {"asleep", "checking"}

\* Where a call waits for somebody else it has somebody to wait for: a kill joins a
\* runner that it has aborted.
JoinEnds == at = "joining" => job \in killed

LEMMA CallStepAdvances ==
    ASSUME TypeOK, TurnStep
    PROVE  at # "idle" /\ CallGoesOn
<1> USE DEF TypeOK, CallGoesOn, CallRank, Goto
<1>1. CASE HoldHandle \/ Subscribe \/ TakeForeground \/ TimesOut
  BY <1>1 DEF HoldHandle, Subscribe, TakeForeground, TimesOut
<1>2. CASE ReturnForeground \/ Yield \/ TakeWaited \/ Leave \/ Cancel
  BY <1>2 DEF ReturnForeground, Yield, TakeWaited, Leave, Cancel, Return
<1>3. CASE Mute \/ Stop \/ Join
  BY <1>3 DEF Mute, Stop, Join
<1>4. CASE CheckDone \/ CheckCrashed
  BY <1>4 DEF CheckDone, CheckCrashed
<1>5. CASE CheckRunning
  BY <1>5 DEF CheckRunning
<1>6. CASE WakeUp
  BY <1>6 DEF WakeUp
<1>7. QED
  BY <1>1, <1>2, <1>3, <1>4, <1>5, <1>6 DEF TurnStep

\* No call goes round for ever: a shell call and a kill only go on, a wait that is
\* called off does not sleep again, and a kill joins only a runner it has aborted.
\* CallsEnd adds that the deadline comes and that what can go on is scheduled.
THEOREM CallsGoOn == Spec => [][CallGoesOn]_vars /\ []JoinEnds
<1>1. TypeOK /\ Next => CallGoesOn
  <2> SUFFICES ASSUME TypeOK, Next PROVE CallGoesOn
    OBVIOUS
  <2>1. CASE TurnStep
    BY <2>1, CallStepAdvances
  <2>2. CASE CallOff
    BY <2>2 DEF CallOff, CallGoesOn, CallRank, TypeOK
  <2>3. CASE AbortTurn \/ Reconfigure
    BY <2>3 DEF AbortTurn, Reconfigure, Drops, Return, CallGoesOn
  <2>4. ASSUME NEW j \in Jobs, RunShell(j) \/ WaitBegin(j) \/ KillBegin(j) PROVE CallGoesOn
    BY <2>4 DEF RunShell, WaitBegin, KillBegin, CallGoesOn
  <2>5. ASSUME NEW j \in Jobs, Exit(j) \/ Crash(j) \/ RunnerStep(j) PROVE CallGoesOn
    <3>1. UNCHANGED <<at, job, calledOff>>
      BY <2>5 DEF Exit, Crash, RunnerStep, AfterExit, HooksEnd, Judge, Dies, call
    <3>2. QED
      BY <3>1 DEF CallGoesOn, CallRank
  <2>6. QED
    BY <2>1, <2>2, <2>3, <2>4, <2>5 DEF Next
<1>2. TypeOK /\ [Next]_vars => [CallGoesOn]_vars
  BY <1>1
<1>3. KnownInv => JoinEnds
  BY DEF KnownInv, CallSteps, JoinEnds
<1>4. QED
  BY <1>2, <1>3, TypeCorrect, KnownAlways, PTL DEF Spec
=============================================================================

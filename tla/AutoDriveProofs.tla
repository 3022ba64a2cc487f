---------------------------- MODULE AutoDriveProofs ----------------------------
(* Proofs about AutoDrive, for runs, queues and timers of any number.             *)
EXTENDS AutoDrive, FiniteSetTheorems, TLAPS

-----------------------------------------------------------------------------
(* The timers a state waits for are there: TimersArmed is inductive *)

\* What arms the timers does not change; the phase stays, or waits for no timer.
LEMMA TimersStay ==
    ASSUME TimersArmed,
           UNCHANGED <<mode, control, clock>>,
           phase' = phase \/ phase' \notin {"ready", "recovery"}
    PROVE  TimersArmed'
BY DEF TimersArmed, IsPending, control, clock

LEMMA NoTimerNeeded ==
    ASSUME phase' \notin {"ready", "recovery"}
    PROVE  TimersArmed'
BY DEF TimersArmed

\* A pause announces the restart it waits for.
LEMMA PauseArms ==
    ASSUME NEW n, Pauses(n)
    PROVE  TimersArmed'
<1> DEFINE r == [launch |-> launch, token |-> token + 1, attempt |-> n + 1]
<1>1. phase' = "recovery"
  BY DEF Pauses
<1>2. r \in restarts'
  BY DEF Pauses
<1>3. pending' = TRUE /\ token' = token + 1 /\ attempts' = n + 1
  BY DEF Pauses
<1>4. pending' /\ r.token = token' /\ r.attempt = attempts'
  BY <1>3
<1> HIDE DEF r
<1>5. QED
  BY <1>1, <1>2, <1>4 DEF TimersArmed, IsPending

\* A prompt that is scheduled in countdown mode has its countdown.
LEMMA ScheduleArms ==
    ASSUME NEW p, Schedules(p), UNCHANGED mode, phase' # "recovery"
    PROVE  TimersArmed'
<1> DEFINE t == [launch |-> launch, id |-> NextCountdown, prompt |-> p]
<1>1. countdown' = NextCountdown
  BY DEF Schedules
<1>2. mode = "timed" => t \in timers'
  BY DEF Schedules, Armed
<1>3. QED
  BY <1>1, <1>2 DEF TimersArmed

LEMMA ConversationArms ==
    ASSUME TimersArmed, SendsConversation
    PROVE  TimersArmed'
<1>1. phase' \in {"active", "waiting", "off"}
  BY DEF SendsConversation, Stops
<1>2. QED
  BY <1>1, NoTimerNeeded

LEMMA UserArms ==
    ASSUME TimersArmed, UserNext
    PROVE  TimersArmed'
<1>1. CASE UserLaunches
  BY <1>1, NoTimerNeeded DEF UserLaunches, Launched, LaunchFails
<1>2. CASE UserConfirms
  BY <1>2, NoTimerNeeded DEF UserConfirms, Submits, Dispatches
<1>3. CASE UserEdits
  BY <1>3, NoTimerNeeded DEF UserEdits
<1>4. CASE UserStops
  BY <1>4, NoTimerNeeded DEF UserStops, Stops
<1>5. CASE UserSpeaks
  <2>1. UNCHANGED <<mode, control, clock>>
    BY <1>5 DEF UserSpeaks
  <2>2. phase' = phase \/ phase' = "waiting"
    BY <1>5 DEF UserSpeaks
  <2>3. QED
    BY <2>1, <2>2, TimersStay
<1>6. ASSUME NEW m \in Modes, UserChoosesMode(m) PROVE TimersArmed'
  <2>1. CASE phase = "ready"
    <3> DEFINE t == [launch |-> launch, id |-> NextCountdown, prompt |-> prompt]
    <3>1. phase' = "ready" /\ mode' = m /\ countdown' = NextCountdown
      BY <1>6, <2>1 DEF UserChoosesMode
    <3>2. m = "timed" => t \in timers'
      BY <1>6, <2>1 DEF UserChoosesMode, Armed
    <3>3. QED
      BY <3>1, <3>2 DEF TimersArmed
  <2>2. CASE phase # "ready"
    <3>1. UNCHANGED <<phase, restarts, pending, token, attempts>>
      BY <1>6 DEF UserChoosesMode
    <3>2. QED
      BY <2>2, <3>1 DEF TimersArmed, IsPending
  <2>3. QED
    BY <2>1, <2>2
<1>7. QED
  BY <1>1, <1>2, <1>3, <1>4, <1>5, <1>6 DEF UserNext

LEMMA ClockArms ==
    ASSUME TimersArmed, ClockNext
    PROVE  TimersArmed'
<1>1. ASSUME NEW t \in timers, TickFires(t) PROVE TimersArmed'
  <2>1. CASE TickCounts(t)
    BY <1>1, <2>1, NoTimerNeeded DEF TickFires, Submits, Dispatches
  <2>2. CASE ~TickCounts(t)
    <3>1. timers' = timers \ {t} /\ UNCHANGED <<phase, mode, control, restarts>>
      BY <1>1, <2>2 DEF TickFires
    <3>2. phase = "ready" => t.id # countdown
      BY <2>2 DEF TickCounts
    <3>3. QED
      BY <3>1, <3>2 DEF TimersArmed, IsPending, control
  <2>3. QED
    BY <2>1, <2>2
<1>2. ASSUME NEW r \in restarts, RestartFires(r) PROVE TimersArmed'
  <2>1. CASE phase = "recovery" /\ IsPending(r)
    BY <1>2, <2>1, NoTimerNeeded DEF RestartFires, Launched, LaunchFails
  <2>2. CASE ~(phase = "recovery" /\ IsPending(r))
    <3>1. /\ restarts' = restarts \ {r}
          /\ UNCHANGED <<phase, mode, timers, countdown, token, attempts, pending>>
      BY <1>2, <2>2 DEF RestartFires
    <3>2. QED
      BY <2>2, <3>1 DEF TimersArmed, IsPending
  <2>3. QED
    BY <2>1, <2>2
<1>3. QED
  BY <1>1, <1>2 DEF ClockNext

\* The coordinator's thread touches its own state and the events.
LEMMA CoordinatorIsApart ==
    CoordinatorNext => UNCHANGED <<phase, mode, launch, control, clock, turns,
                                   disturbed>>
BY DEF CoordinatorNext, CoordinatorThinks, CoordinatorReceives, CoordinatorDecides,
       CoordinatorReplies, LateThreadGoesOn

LEMMA DecisionArms ==
    ASSUME TimersArmed, DecisionArrives
    PROVE  TimersArmed'
<1>0. UNCHANGED mode
  BY DEF DecisionArrives
<1>1. CASE ~Active
  BY <1>1, NoTimerNeeded DEF DecisionArrives, Active
<1>2. CASE Active
  <2> DEFINE e == Head(events)
             p == [launch |-> e.launch, seq |-> e.seq]
  <2>1. Decided(e)
    BY <1>2 DEF DecisionArrives
  <2>2. CASE phase' = "waiting"
    BY <2>2, NoTimerNeeded
  <2>3. CASE Schedules(p) /\ phase' = "ready"
    BY <2>3, <1>0, ScheduleArms
  <2>4. CASE Pauses(attempts)
    BY <2>4, PauseArms
  <2>5. CASE Stops
    BY <2>5, NoTimerNeeded DEF Stops
  <2>6. QED
    BY <2>1, <2>2, <2>3, <2>4, <2>5 DEF Decided, Dispatches
<1>3. QED
  BY <1>1, <1>2

LEMMA ReplyArms ==
    ASSUME TimersArmed, ReplyArrives
    PROVE  TimersArmed'
<1>1. UNCHANGED <<mode, control, clock>>
  BY DEF ReplyArrives
<1>2. phase' = phase \/ phase' \in {"waiting", "active"}
  BY DEF ReplyArrives
<1>3. QED
  BY <1>1, <1>2, TimersStay

LEMMA SessionArms ==
    ASSUME TimersArmed, SessionNext
    PROVE  TimersArmed'
<1>1. ASSUME NEW over \in BOOLEAN, TurnAnswers(over) PROVE TimersArmed'
  <2> DEFINE t == Head(turns)
  <2>0. Answered(t) /\ UNCHANGED mode
    BY <1>1 DEF TurnAnswers
  <2>1. CASE Stops
    BY <2>1, NoTimerNeeded DEF Stops
  <2>2. CASE phase' \in {"waiting", "active", "review"}
    BY <2>2, NoTimerNeeded
  <2>3. CASE SendsConversation
    BY <2>3, ConversationArms
  <2>4. CASE UNCHANGED <<phase, control, clock>>
    BY <2>0, <2>4, TimersStay
  <2>5. QED
    BY <2>0, <2>1, <2>2, <2>3, <2>4 DEF Answered, Continues
<1>2. CASE TurnFails
  <2>1. CASE Active
    BY <1>2, <2>1, PauseArms DEF TurnFails
  <2>2. CASE ~Active
    BY <1>2, <2>2, NoTimerNeeded DEF TurnFails, Active
  <2>3. QED
    BY <2>1, <2>2
<1>3. CASE ReviewBegins
  <2>1. phase' \in {"review", "active", "off"}
    BY <1>3 DEF ReviewBegins, Active
  <2>2. QED
    BY <2>1, NoTimerNeeded
<1>4. CASE ReviewEnds
  <2>1. CASE phase = "review"
    BY <1>4, <2>1, ConversationArms DEF ReviewEnds
  <2>2. CASE phase # "review"
    <3>1. UNCHANGED <<phase, mode, control, clock>>
      BY <1>4, <2>2 DEF ReviewEnds
    <3>2. QED
      BY <3>1, TimersStay
  <2>3. QED
    BY <2>1, <2>2
<1>5. QED
  BY <1>1, <1>2, <1>3, <1>4 DEF SessionNext

LEMMA StepArms ==
    ASSUME TimersArmed, [Next]_vars
    PROVE  TimersArmed'
<1>1. CASE CoordinatorNext
  <2>1. UNCHANGED <<phase, mode, control, clock>>
    BY <1>1, CoordinatorIsApart
  <2>2. QED
    BY <2>1, TimersStay
<1>2. CASE UNCHANGED vars
  <2>1. UNCHANGED <<phase, mode, control, clock>>
    BY <1>2 DEF vars
  <2>2. QED
    BY <2>1, TimersStay
<1>3. QED
  BY <1>1, <1>2, UserArms, ClockArms, DecisionArms, ReplyArms, SessionArms DEF Next

\* A prompt in countdown mode has a countdown that counts, a recovery the restart
\* it announced: whatever fires late, is sent late or is pressed in between, the
\* run is not left waiting for a timer nobody started.
THEOREM TimersAreArmed == Spec => []TimersArmed
<1>1. Init => TimersArmed
  BY DEF Init, TimersArmed
<1>2. TimersArmed /\ [Next]_vars => TimersArmed'
  BY StepArms
<1> QED
  BY <1>1, <1>2, PTL DEF Spec

-----------------------------------------------------------------------------
(* An undisturbed run has its coordinator: Driven is inductive *)

\* Nothing to show in a step that ends disturbed, off or in recovery, or that has
\* a coordinator at its end.
LEMMA DrivenAnyway ==
    ASSUME disturbed' \/ phase' \in {"off", "recovery"} \/ handle'
    PROVE  Driven'
BY DEF Driven, Active

\* A step that leaves the coordinator and starts from a run that has one.
LEMMA DrivenStill ==
    ASSUME Driven, disturbed => disturbed', handle' = handle,
           Active' => Active, phase = "recovery" => phase' \in {"recovery", "off"}
    PROVE  Driven'
BY DEF Driven, Active

LEMMA ConversationDriven ==
    ASSUME Driven, SendsConversation, phase \notin {"off", "recovery"},
           disturbed => disturbed'
    PROVE  Driven'
<1>1. CASE disturbed \/ phase' = "off"
  BY <1>1, DrivenAnyway
<1>2. CASE ~disturbed /\ phase' # "off"
  <2>1. handle
    BY <1>2 DEF Driven, Active
  <2>2. handle' = handle
    BY <2>1, <1>2 DEF SendsConversation, Stops
  <2>3. handle'
    BY <2>1, <2>2
  <2>4. QED
    BY <2>3, DrivenAnyway
<1>3. QED
  BY <1>1, <1>2

LEMMA UserDriven ==
    ASSUME Driven, UserNext
    PROVE  Driven'
<1>1. CASE UserLaunches
  <2>1. phase' = "off" \/ handle'
    BY <1>1 DEF UserLaunches, Launched, LaunchFails
  <2>2. QED
    BY <2>1, DrivenAnyway
<1>2. CASE UserConfirms
  <2>1. phase = "ready" /\ UNCHANGED <<handle, disturbed>>
    BY <1>2 DEF UserConfirms, Submits, control
  <2>2. QED
    BY <2>1, DrivenStill DEF Active
<1>3. CASE UserEdits
  <2>1. phase = "ready" /\ UNCHANGED <<handle, disturbed>>
    BY <1>3 DEF UserEdits
  <2>2. QED
    BY <2>1, DrivenStill DEF Active
<1>4. CASE UserStops
  BY <1>4, DrivenAnyway DEF UserStops, Stops
<1>5. CASE UserSpeaks
  <2>1. UNCHANGED <<handle, disturbed>>
    BY <1>5 DEF UserSpeaks, control
  <2>2. CASE handle
    BY <2>1, <2>2, DrivenAnyway
  <2>3. CASE ~handle
    <3>1. phase' = IF phase = "paused" THEN "waiting" ELSE phase
      BY <1>5, <2>3 DEF UserSpeaks, CanSend
    <3>2. QED
      BY <2>1, <3>1, DrivenStill DEF Active
  <2>4. QED
    BY <2>2, <2>3
<1>6. ASSUME NEW m \in Modes, UserChoosesMode(m) PROVE Driven'
  <2>1. UNCHANGED <<phase, handle, disturbed>>
    BY <1>6 DEF UserChoosesMode
  <2>2. QED
    BY <2>1, DrivenStill DEF Active
<1>7. QED
  BY <1>1, <1>2, <1>3, <1>4, <1>5, <1>6 DEF UserNext

LEMMA ClockDriven ==
    ASSUME Driven, ClockNext
    PROVE  Driven'
<1>1. ASSUME NEW t \in timers, TickFires(t) PROVE Driven'
  <2>1. CASE TickCounts(t)
    <3>1. phase = "ready" /\ handle' = handle /\ (disturbed => disturbed')
      BY <1>1, <2>1 DEF TickFires, TickCounts, Submits, control
    <3>2. QED
      BY <3>1, DrivenStill DEF Active
  <2>2. CASE ~TickCounts(t)
    <3>1. UNCHANGED <<phase, handle, disturbed>>
      BY <1>1, <2>2 DEF TickFires, control
    <3>2. QED
      BY <3>1, DrivenStill DEF Active
  <2>3. QED
    BY <2>1, <2>2
<1>2. ASSUME NEW r \in restarts, RestartFires(r) PROVE Driven'
  <2>1. CASE phase = "recovery" /\ IsPending(r)
    <3>1. phase' = "off" \/ handle'
      BY <1>2, <2>1 DEF RestartFires, Launched, LaunchFails
    <3>2. QED
      BY <3>1, DrivenAnyway
  <2>2. CASE ~(phase = "recovery" /\ IsPending(r))
    <3>1. UNCHANGED <<phase, handle, disturbed>>
      BY <1>2, <2>2 DEF RestartFires
    <3>2. QED
      BY <3>1, DrivenStill DEF Active
  <2>3. QED
    BY <2>1, <2>2
<1>3. QED
  BY <1>1, <1>2 DEF ClockNext

LEMMA DecisionDriven ==
    ASSUME Driven, DecisionArrives
    PROVE  Driven'
<1>1. CASE ~Active
  BY <1>1, DrivenAnyway DEF DecisionArrives, Active
<1>2. CASE Active
  <2> DEFINE e == Head(events)
  <2>1. Decided(e) /\ disturbed' = (disturbed \/ ~Ours(e))
    BY <1>2 DEF DecisionArrives
  <2>2. CASE ~handle
    BY <2>1, <2>2, DrivenAnyway DEF Ours
  <2>3. CASE handle /\ handle' = handle
    BY <2>3, DrivenAnyway
  <2>4. CASE phase' \in {"off", "recovery"}
    BY <2>4, DrivenAnyway
  <2>5. QED
    BY <2>1, <2>2, <2>3, <2>4 DEF Decided, Pauses, Stops
<1>3. QED
  BY <1>1, <1>2

LEMMA AnswerDriven ==
    ASSUME Driven, NEW over \in BOOLEAN, TurnAnswers(over)
    PROVE  Driven'
<1> DEFINE t == Head(turns)
<1>1. Answered(t) /\ disturbed' = (disturbed \/ Misplaced(t) \/ ~over \/ Reviewing)
  BY DEF TurnAnswers
<1>2. CASE phase' = "off" \/ disturbed'
  BY <1>2, DrivenAnyway
<1>3. CASE phase' # "off" /\ ~disturbed'
  <2>1. ~disturbed /\ ~Misplaced(t) /\ ~Reviewing
    BY <1>1, <1>3
  <2>2. CASE phase = "waiting"
    <3>1. handle
      BY <2>1, <2>2 DEF Driven, Active
    <3>2. handle' = handle
      BY <1>1, <1>3, <2>1, <2>2, <3>1 DEF Answered, Continues, SendsConversation, Stops, control
    <3>3. handle'
      BY <3>1, <3>2
    <3>4. QED
      BY <3>3, DrivenAnyway
  <2>3. CASE phase # "waiting"
    <3>1. ~checking
      BY <2>1, <2>3 DEF Misplaced
    <3>2. UNCHANGED <<phase, control>>
      BY <1>1, <2>3, <3>1 DEF Answered
    <3>3. handle' = handle /\ phase' = phase
      BY <3>2 DEF control
    <3>4. QED
      BY <3>3, <2>1, DrivenStill DEF Active
  <2>4. QED
    BY <2>2, <2>3
<1>4. QED
  BY <1>2, <1>3

LEMMA SessionDriven ==
    ASSUME Driven, SessionNext
    PROVE  Driven'
<1>1. CASE TurnFails
  <2>1. CASE Active
    BY <1>1, <2>1, DrivenAnyway DEF TurnFails, Pauses
  <2>2. CASE ~Active
    <3>1. phase' = "off"
      BY <1>1, <2>2 DEF TurnFails, Active
    <3>2. QED
      BY <3>1, DrivenAnyway
  <2>3. QED
    BY <2>1, <2>2
<1>2. CASE ReviewBegins
  <2>1. disturbed' \/ phase' = "off"
    BY <1>2 DEF ReviewBegins, Active
  <2>2. QED
    BY <2>1, DrivenAnyway
<1>3. CASE ReviewEnds
  <2>1. disturbed' = disturbed
    BY <1>3 DEF ReviewEnds
  <2>2. CASE phase = "review"
    BY <1>3, <2>1, <2>2, ConversationDriven DEF ReviewEnds
  <2>3. CASE phase # "review"
    <3>1. UNCHANGED <<phase, handle>>
      BY <1>3, <2>3 DEF ReviewEnds, control
    <3>2. QED
      BY <2>1, <3>1, DrivenStill DEF Active
  <2>4. QED
    BY <2>2, <2>3
<1>4. QED
  BY <1>1, <1>2, <1>3, AnswerDriven DEF SessionNext

LEMMA StepDriven ==
    ASSUME Driven, [Next]_vars
    PROVE  Driven'
<1>1. CASE CoordinatorNext
  <2>1. UNCHANGED <<phase, handle, disturbed>>
    BY <1>1, CoordinatorIsApart DEF control
  <2>2. QED
    BY <2>1, DrivenStill DEF Active
<1>2. CASE ReplyArrives
  BY <1>2, DrivenAnyway DEF ReplyArrives
<1>3. CASE UNCHANGED vars
  <2>1. UNCHANGED <<phase, handle, disturbed>>
    BY <1>3 DEF vars, control
  <2>2. QED
    BY <2>1, DrivenStill DEF Active
<1>4. QED
  BY <1>1, <1>2, <1>3, UserDriven, ClockDriven, DecisionDriven, SessionDriven DEF Next

\* A run that nothing disturbed is active only with the coordinator behind its
\* handle, or on the way to the restart that gives it one.
THEOREM RunsAreDriven == Spec => []Driven
<1>1. Init => Driven
  BY DEF Init, Driven, Active
<1>2. Driven /\ [Next]_vars => Driven'
  BY StepDriven
<1> QED
  BY <1>1, <1>2, PTL DEF Spec

-----------------------------------------------------------------------------
(* The shape of the state *)

Prompts == [launch : Nat, seq : Nat]
Countdowns == [launch : Nat, id : Nat, prompt : Prompts]
Restarts == [launch : Nat, token : Nat, attempt : Nat]
Coords == [at : {"idle", "deciding", "replying", "gone"},
           seq : Nat, unacked : BOOLEAN, convs : Nat]
CommandSet == [do : {"update", "user", "ack"}, seq : Nat]
LateThreads == [launch : Nat, seq : Nat, at : {"deciding", "replying"},
                prompts : Nat]
EventSet == [launch : Nat, seq : Nat, kind : Kinds \union Replies]
TurnSet == [launch : Nat, kind : {"prompt", "check", "review"}]

\* The type invariant, in four parts the actions disturb separately.
ControlOK ==
    /\ phase \in Phases /\ mode \in Modes
    /\ launch \in Nat /\ handle \in BOOLEAN /\ prompt \in Prompts
    /\ countdown \in Nat /\ token \in Nat /\ attempts \in Nat
    /\ pending \in BOOLEAN /\ checking \in BOOLEAN /\ disturbed \in BOOLEAN
ClockOK == timers \subseteq Countdowns /\ restarts \subseteq Restarts
ThreadOK ==
    /\ coord \in Coords /\ cmds \in Seq(CommandSet)
    /\ late \subseteq LateThreads /\ events \in Seq(EventSet)
TurnsOK == turns \in Seq(TurnSet)

LEMMA TypeParts == TypeOK <=> ControlOK /\ ClockOK /\ ThreadOK /\ TurnsOK
BY DEF TypeOK, ControlOK, ClockOK, ThreadOK, TurnsOK, Prompts, Countdowns, Restarts,
       Coords, CommandSet, LateThreads, EventSet, TurnSet

LEMMA TypePartsNext == TypeOK' <=> ControlOK' /\ ClockOK' /\ ThreadOK' /\ TurnsOK'
BY DEF TypeOK, ControlOK, ClockOK, ThreadOK, TurnsOK, Prompts, Countdowns, Restarts,
       Coords, CommandSet, LateThreads, EventSet, TurnSet

\* What Head and Tail keep.
LEMMA SeqFacts ==
    ASSUME NEW S, NEW s \in Seq(S), s # <<>>
    PROVE  Head(s) \in S /\ Tail(s) \in Seq(S)
OBVIOUS

\* What the coordinator's updates keep.
LEMMA CoordUpdates ==
    ASSUME NEW c \in Coords, NEW n \in Nat, NEW u \in BOOLEAN,
           NEW at \in {"idle", "deciding", "replying", "gone"}
    PROVE  /\ [c EXCEPT !.convs = n] \in Coords
           /\ [c EXCEPT !.at = at] \in Coords
           /\ [c EXCEPT !.unacked = u] \in Coords
           /\ [c EXCEPT !.at = at, !.convs = n] \in Coords
           /\ [c EXCEPT !.at = at, !.seq = n, !.unacked = TRUE] \in Coords
BY DEF Coords

LEMMA SeededType == Seeded \in Coords
BY DEF Seeded, Coords

LEMMA AskedType ==
    ASSUME ThreadOK
    PROVE  Asked \in Nat
<1> DEFINE n == Len(cmds)
           asked == {i \in 1 .. n : cmds[i].do = "user"}
<1>1. n \in Int
  BY DEF ThreadOK
<1>2. IsFiniteSet(1 .. n) /\ asked \in SUBSET (1 .. n)
  BY <1>1, FS_Interval
<1>3. Cardinality(asked) \in Nat
  BY <1>2, FS_Subset, FS_CardinalityType
<1> QED
  BY <1>3 DEF Asked

LEMMA RetiredType ==
    ASSUME ControlOK, ThreadOK
    PROVE  Retired \subseteq LateThreads
<1> DEFINE thr(at, rest) == [launch |-> launch, seq |-> coord.seq, at |-> at,
                             prompts |-> rest]
<1>1. \A at \in {"deciding", "replying"}, rest \in Nat : thr(at, rest) \in LateThreads
  BY DEF ControlOK, ThreadOK, LateThreads, Coords
<1>2. Asked \in Nat /\ (Asked # 0 => Asked - 1 \in Nat)
  BY AskedType
<1>3. late \subseteq LateThreads /\ coord.at \in {"idle", "deciding", "replying", "gone"}
  BY DEF ThreadOK, Coords
<1>4. \/ Retired = late
      \/ Asked # 0 /\ Retired = late \union {thr("replying", Asked - 1)}
      \/ /\ coord.at \in {"deciding", "replying"}
         /\ Retired = late \union {thr(coord.at, Asked)}
  BY <1>3 DEF Retired
<1> HIDE DEF thr
<1> QED
  BY <1>1, <1>2, <1>3, <1>4

\* A cancelled thread that goes on is the same one, further on.
LEMMA LateGoesOn ==
    ASSUME late \subseteq LateThreads, NEW th \in late, LateThreadGoesOn(th)
    PROVE  /\ late' \subseteq LateThreads
           /\ \A x \in late' : x \in late \/ x.launch = th.launch
<1>1. th \in LateThreads /\ th.seq \in Nat /\ th.seq + 1 \in Nat
  BY DEF LateThreads
<1>2. ASSUME NEW n \in Nat
      PROVE  \A x \in NextPrompt(th, n) : x \in LateThreads /\ x.launch = th.launch
  <2> DEFINE next == [launch |-> th.launch, seq |-> n, at |-> "replying",
                      prompts |-> th.prompts - 1]
  <2>1. th.prompts \in Nat
    BY <1>1 DEF LateThreads
  <2>2. th.prompts # 0 => th.prompts - 1 \in Nat
    BY ONLY <2>1
  <2>3. NextPrompt(th, n) = {} \/ (th.prompts # 0 /\ NextPrompt(th, n) = {next})
    BY DEF NextPrompt
  <2>4. th.prompts # 0 => next \in LateThreads /\ next.launch = th.launch
    BY <1>1, <2>2 DEF LateThreads
  <2> HIDE DEF next
  <2>5. QED
    BY <2>3, <2>4
<1>3. \/ late' \subseteq late
      \/ \E n \in Nat : late' = (late \ {th}) \union NextPrompt(th, n)
  <2>1. \/ late' \subseteq late
        \/ late' = (late \ {th}) \union NextPrompt(th, th.seq)
        \/ late' = (late \ {th}) \union NextPrompt(th, th.seq + 1)
    BY DEF LateThreadGoesOn
  <2> QED
    BY <1>1, <2>1
<1> QED
  BY <1>2, <1>3

LEMMA CancelsType ==
    ASSUME ControlOK, ThreadOK, Cancels
    PROVE  handle' = FALSE /\ (events' \in Seq(EventSet) => ThreadOK')
BY RetiredType, SeededType DEF Cancels, ThreadOK

LEMMA StopsType ==
    ASSUME ControlOK, ClockOK, ThreadOK, Stops, mode' = mode,
           disturbed' \in BOOLEAN, events' \in Seq(EventSet)
    PROVE  ControlOK' /\ ClockOK' /\ ThreadOK'
<1>1. ThreadOK' /\ handle' = FALSE
  BY CancelsType DEF Stops
<1>2. ControlOK'
  BY <1>1 DEF Stops, ControlOK, Phases, Prompts, NoPrompt
<1>3. ClockOK'
  BY DEF Stops, ClockOK, clock
<1>4. QED
  BY <1>1, <1>2, <1>3

LEMMA PausesType ==
    ASSUME ControlOK, ClockOK, ThreadOK, Pauses(attempts), mode' = mode,
           disturbed' \in BOOLEAN, events' \in Seq(EventSet)
    PROVE  ControlOK' /\ ClockOK' /\ ThreadOK'
<1>1. ThreadOK' /\ handle' = FALSE
  BY CancelsType DEF Pauses
<1>0. token + 1 \in Nat /\ attempts + 1 \in Nat
  BY DEF ControlOK
<1>2. ControlOK'
  <2>1. attempts' \in Nat /\ token' \in Nat
    BY ONLY <1>0, Pauses(attempts) DEF Pauses
  <2>2. UNCHANGED <<countdown, checking, launch>> /\ pending' = TRUE
    BY DEF Pauses
  <2>3. phase' \in Phases /\ prompt' \in Prompts
    BY DEF Pauses, Phases, Prompts, NoPrompt
  <2>4. QED
    BY <1>1, <2>1, <2>2, <2>3 DEF ControlOK
<1>3. [launch |-> launch, token |-> token + 1, attempt |-> attempts + 1] \in Restarts
  BY DEF ControlOK, Restarts
<1>4. ClockOK'
  BY <1>3 DEF Pauses, ClockOK
<1>5. QED
  BY <1>1, <1>2, <1>4

LEMMA SchedulesType ==
    ASSUME ControlOK, ClockOK, NEW p \in Prompts, Schedules(p)
    PROVE  /\ prompt' \in Prompts /\ countdown' \in Nat
           /\ timers' \subseteq Countdowns
BY DEF Schedules, Armed, NextCountdown, ControlOK, ClockOK, Countdowns

LEMMA DispatchesType ==
    ASSUME ControlOK, TurnsOK, NEW k \in {"prompt", "check"}, Dispatches(k)
    PROVE  TurnsOK' /\ phase' \in Phases
<1>1. Turn(k) \in TurnSet
  BY DEF Turn, TurnSet, ControlOK
<1>2. QED
  BY <1>1 DEF Dispatches, TurnsOK, Phases

\* A command for the coordinator.
LEMMA CommandType ==
    ASSUME ThreadOK, NEW c \in {"update", "user", "ack"}, NEW n \in Nat
    PROVE  Append(cmds, Command(c, n)) \in Seq(CommandSet)
<1>1. Command(c, n) \in CommandSet
  BY DEF Command, CommandSet
<1>2. QED
  BY <1>1 DEF ThreadOK

LEMMA EventType ==
    ASSUME ThreadOK, NEW l \in Nat, NEW n \in Nat, NEW k \in Kinds \union Replies
    PROVE  Append(events, Event(l, n, k)) \in Seq(EventSet)
<1>1. Event(l, n, k) \in EventSet
  BY DEF Event, EventSet
<1>2. QED
  BY <1>1 DEF ThreadOK

LEMMA ConversationType ==
    ASSUME ControlOK, ClockOK, ThreadOK, SendsConversation, mode' = mode,
           disturbed' \in BOOLEAN, events' = events
    PROVE  ControlOK' /\ ClockOK' /\ ThreadOK'
<1>1. CASE Stops
  BY <1>1, StopsType DEF ThreadOK
<1>2. CASE ~Stops
  <2>1. ControlOK'
    BY <1>2 DEF SendsConversation, ControlOK, Phases, Prompts, NoPrompt, control
  <2>2. ClockOK'
    BY <1>2 DEF SendsConversation, ClockOK, clock
  <2>3. UNCHANGED <<coord, late>>
    BY <1>2 DEF SendsConversation
  <2>4. cmds' \in Seq(CommandSet)
    BY <1>2, CommandType DEF SendsConversation, ThreadOK
  <2>5. QED
    BY <2>1, <2>2, <2>3, <2>4 DEF ThreadOK
<1>3. QED
  BY <1>1, <1>2

LEMMA LaunchType ==
    ASSUME ControlOK, ThreadOK, NEW n \in Nat, Launched(n) \/ LaunchFails(n)
    PROVE  /\ phase' \in Phases /\ launch' \in Nat /\ handle' \in BOOLEAN
           /\ prompt' \in Prompts /\ countdown' \in Nat /\ token' \in Nat
           /\ attempts' \in Nat /\ pending' \in BOOLEAN
           /\ coord' \in Coords /\ cmds' \in Seq(CommandSet)
           /\ events' \in Seq(EventSet)
<1>1. CASE Launched(n)
  <2>1. launch + 1 \in Nat /\ "plan" \in Kinds \union Replies
    BY DEF Kinds, ControlOK
  <2>2. Append(events, Event(launch + 1, 0, "plan")) \in Seq(EventSet)
    BY <2>1, EventType
  <2>3. events' \in Seq(EventSet) /\ launch' \in Nat
    BY <1>1, <2>1, <2>2 DEF Launched
  <2>4. coord' \in Coords /\ cmds' \in Seq(CommandSet)
    BY <1>1, SeededType DEF Launched
  <2>5. phase' \in Phases /\ prompt' \in Prompts
    BY <1>1 DEF Launched, Phases, Prompts, NoPrompt
  <2>6. handle' = TRUE /\ pending' = FALSE
    BY <1>1 DEF Launched
  <2>7. countdown' \in Nat /\ token' \in Nat /\ attempts' \in Nat
    BY <1>1 DEF Launched
  <2>8. QED
    BY <2>3, <2>4, <2>5, <2>6, <2>7
<1>2. CASE LaunchFails(n)
  <2>1. phase' \in Phases /\ prompt' \in Prompts
    BY <1>2 DEF LaunchFails, Phases, Prompts, NoPrompt
  <2>2. coord' \in Coords /\ cmds' \in Seq(CommandSet)
    BY <1>2, SeededType DEF LaunchFails
  <2>3. events' \in Seq(EventSet) /\ launch' \in Nat
    BY <1>2 DEF LaunchFails, ThreadOK, ControlOK
  <2>4. countdown' \in Nat /\ token' \in Nat /\ attempts' \in Nat
    BY <1>2 DEF LaunchFails
  <2>5. handle' = FALSE /\ pending' = FALSE
    BY <1>2 DEF LaunchFails
  <2>6. QED
    BY <2>1, <2>2, <2>3, <2>4, <2>5
<1>3. QED
  BY <1>1, <1>2

LEMMA UserType ==
    ASSUME TypeOK, UserNext
    PROVE  TypeOK'
<1> USE TypeParts, TypePartsNext
<1>1. CASE UserLaunches
  <2>1. Launched(0) \/ LaunchFails(0)
    BY <1>1 DEF UserLaunches
  <2>2. ControlOK'
    BY <1>1, <2>1, LaunchType DEF UserLaunches, ControlOK
  <2>3. ThreadOK'
    BY <1>1, <2>1, LaunchType, RetiredType DEF UserLaunches, ThreadOK
  <2>4. ClockOK' /\ TurnsOK'
    BY <1>1 DEF UserLaunches, ClockOK, TurnsOK, clock
  <2>5. QED
    BY <2>2, <2>3, <2>4
<1>2. CASE UserConfirms
  <2>1. Dispatches("prompt") /\ UNCHANGED <<mode, disturbed, timers, launch, control,
                                            restarts, thread>>
    BY <1>2 DEF UserConfirms, Submits
  <2>2. TurnsOK' /\ phase' \in Phases
    BY <2>1, DispatchesType
  <2>3. ControlOK' /\ ClockOK' /\ ThreadOK'
    BY <2>1, <2>2 DEF ControlOK, ClockOK, ThreadOK, control, thread
  <2>4. QED
    BY <2>2, <2>3
<1>3. CASE UserEdits
  <2>1. ControlOK'
    BY <1>3 DEF UserEdits, ControlOK, Phases, NextCountdown
  <2>2. ClockOK' /\ ThreadOK' /\ TurnsOK'
    BY <1>3 DEF UserEdits, ClockOK, ThreadOK, TurnsOK, clock, thread
  <2>3. QED
    BY <2>1, <2>2
<1>4. CASE UserStops
  <2>1. Stops /\ UNCHANGED <<mode, events, disturbed>>
    BY <1>4 DEF UserStops
  <2>2. ControlOK' /\ ClockOK' /\ ThreadOK'
    BY <2>1, StopsType DEF ControlOK, ThreadOK
  <2>3. turns' = turns \/ (turns # <<>> /\ turns' = Tail(turns))
    BY <1>4 DEF UserStops
  <2>4. TurnsOK'
    BY <2>3, SeqFacts DEF TurnsOK
  <2>5. QED
    BY <2>2, <2>4
<1>5. CASE UserSpeaks
  <2>1. ControlOK'
    BY <1>5 DEF UserSpeaks, ControlOK, Phases, control
  <2>2. ClockOK'
    BY <1>5 DEF UserSpeaks, ClockOK, clock
  <2>3. cmds' \in Seq(CommandSet)
    BY <1>5, CommandType DEF UserSpeaks, ThreadOK
  <2>4. ThreadOK'
    BY <1>5, <2>3 DEF UserSpeaks, ThreadOK
  <2>5. [launch |-> 0, kind |-> "prompt"] \in TurnSet
    BY DEF TurnSet
  <2>6. TurnsOK'
    BY <1>5, <2>5 DEF UserSpeaks, TurnsOK
  <2>7. QED
    BY <2>1, <2>2, <2>4, <2>6
<1>6. ASSUME NEW m \in Modes, UserChoosesMode(m) PROVE TypeOK'
  <2>1. ControlOK'
    BY <1>6 DEF UserChoosesMode, ControlOK, NextCountdown
  <2>2. ClockOK'
    BY <1>6 DEF UserChoosesMode, Armed, NextCountdown, ClockOK, ControlOK, Countdowns
  <2>3. ThreadOK' /\ TurnsOK'
    BY <1>6 DEF UserChoosesMode, ThreadOK, TurnsOK, thread
  <2>4. QED
    BY <2>1, <2>2, <2>3
<1>7. QED
  BY <1>1, <1>2, <1>3, <1>4, <1>5, <1>6 DEF UserNext

LEMMA ClockType ==
    ASSUME TypeOK, ClockNext
    PROVE  TypeOK'
<1> USE TypeParts, TypePartsNext
<1>1. ASSUME NEW t \in timers, TickFires(t) PROVE TypeOK'
  <2>1. timers' \subseteq Countdowns /\ UNCHANGED <<mode, launch, control, restarts, thread>>
    BY <1>1 DEF TickFires, Submits, ClockOK
  <2>2. phase' \in Phases /\ TurnsOK'
    BY <1>1, DispatchesType DEF TickFires, Submits, ControlOK, TurnsOK
  <2>3. disturbed' \in BOOLEAN
    BY <1>1 DEF TickFires, ControlOK
  <2>4. ControlOK'
    BY <2>1, <2>2, <2>3 DEF ControlOK, control
  <2>5. ClockOK' /\ ThreadOK'
    BY <2>1 DEF ClockOK, ThreadOK, thread
  <2>6. QED
    BY <2>2, <2>4, <2>5
<1>2. ASSUME NEW r \in restarts, RestartFires(r) PROVE TypeOK'
  <2>1. UNCHANGED <<mode, checking, timers, late, turns>> /\ restarts' \subseteq restarts
    BY <1>2 DEF RestartFires
  <2>2. disturbed' \in BOOLEAN
    BY <1>2 DEF RestartFires, ControlOK
  <2>3. CASE phase = "recovery" /\ IsPending(r)
    <3>1. Launched(attempts) \/ LaunchFails(attempts)
      BY <1>2, <2>3 DEF RestartFires
    <3>2. attempts \in Nat
      BY DEF ControlOK
    <3>3. ControlOK' /\ ThreadOK'
      BY <2>1, <2>2, <3>1, <3>2, LaunchType DEF ControlOK, ThreadOK
    <3>4. QED
      BY <2>1, <3>3 DEF ClockOK, TurnsOK
  <2>4. CASE ~(phase = "recovery" /\ IsPending(r))
    <3>1. UNCHANGED <<phase, launch, handle, prompt, countdown, token, attempts,
                      pending, coord, cmds, events, disturbed>>
      BY <1>2, <2>4 DEF RestartFires
    <3>2. QED
      BY <2>1, <3>1 DEF ControlOK, ThreadOK, ClockOK, TurnsOK
  <2>5. QED
    BY <2>3, <2>4
<1>3. QED
  BY <1>1, <1>2 DEF ClockNext

LEMMA CoordinatorType ==
    ASSUME TypeOK, CoordinatorNext
    PROVE  TypeOK'
<1> USE TypeParts, TypePartsNext
<1>1. ControlOK' /\ ClockOK' /\ TurnsOK'
  BY CoordinatorIsApart DEF ControlOK, ClockOK, TurnsOK, control, clock
<1>2. coord' \in Coords
  <2>1. coord \in Coords
    BY DEF ThreadOK
  <2>0. coord.convs \in Nat /\ coord.convs + 1 \in Nat /\ coord.seq + 1 \in Nat
        /\ (coord.convs > 0 => coord.convs - 1 \in Nat)
    BY <2>1 DEF Coords
  <2>2. CASE CoordinatorThinks
    <3>1. /\ coord' = [coord EXCEPT !.at = "deciding", !.convs = coord.convs - 1]
          /\ coord.convs > 0
      BY <2>2 DEF CoordinatorThinks
    <3>2. QED
      BY ONLY <2>0, <2>1, <3>1, CoordUpdates
  <2>3. CASE CoordinatorReceives
    <3>1. \/ coord' = [coord EXCEPT !.convs = coord.convs + 1]
          \/ coord' = [coord EXCEPT !.at = "replying"]
          \/ coord' = [coord EXCEPT !.unacked = coord.unacked /\ ~AckCounts(Head(cmds))]
      <4>1. cmds # <<>>
        BY <2>3 DEF CoordinatorReceives
      <4>2. Head(cmds) \in CommandSet
        BY <4>1, SeqFacts DEF ThreadOK
      <4>3. Head(cmds).do \in {"update", "user", "ack"}
        BY ONLY <4>2 DEF CommandSet
      <4>4. coord' = CASE Head(cmds).do = "update" -> [coord EXCEPT !.convs = @ + 1]
                       [] Head(cmds).do = "user" -> [coord EXCEPT !.at = "replying"]
                       [] Head(cmds).do = "ack" ->
                            [coord EXCEPT !.unacked = @ /\ ~AckCounts(Head(cmds))]
        BY <2>3 DEF CoordinatorReceives
      <4>5. QED
        BY ONLY <4>3, <4>4
    <3>2. (coord.unacked /\ ~AckCounts(Head(cmds))) \in BOOLEAN
      OBVIOUS
    <3>3. QED
      BY ONLY <2>0, <2>1, <3>1, <3>2, CoordUpdates
  <2>4. ASSUME NEW k \in Kinds, CoordinatorDecides(k) PROVE coord' \in Coords
    <3>1. PICK s \in {"gone", "idle"} :
            coord' = [coord EXCEPT !.at = s, !.seq = coord.seq + 1, !.unacked = TRUE]
      BY <2>4 DEF CoordinatorDecides
    <3>2. QED
      BY ONLY <2>0, <2>1, <3>1, CoordUpdates
  <2>5. ASSUME NEW k \in Replies, CoordinatorReplies(k) PROVE coord' \in Coords
    <3>1. PICK n \in {coord.convs, coord.convs + 1} :
            coord' = [coord EXCEPT !.at = "idle", !.convs = n]
      BY <2>5 DEF CoordinatorReplies
    <3>2. QED
      BY ONLY <2>0, <2>1, <3>1, CoordUpdates
  <2>6. ASSUME NEW th \in late, LateThreadGoesOn(th) PROVE coord' \in Coords
    BY <2>1, <2>6 DEF LateThreadGoesOn
  <2>7. QED
    BY <2>2, <2>3, <2>4, <2>5, <2>6 DEF CoordinatorNext
<1>3. cmds' \in Seq(CommandSet) /\ late' \subseteq LateThreads
  <2>1. cmds' = cmds \/ (cmds # <<>> /\ cmds' = Tail(cmds))
    BY DEF CoordinatorNext, CoordinatorThinks, CoordinatorReceives,
           CoordinatorDecides, CoordinatorReplies, LateThreadGoesOn
  <2>2. cmds \in Seq(CommandSet) /\ late \subseteq LateThreads
    BY DEF ThreadOK
  <2>3. late' = late \/ \E th \in late : LateThreadGoesOn(th)
    BY DEF CoordinatorNext, CoordinatorThinks, CoordinatorReceives,
           CoordinatorDecides, CoordinatorReplies
  <2>4. late' \subseteq LateThreads
    BY <2>2, <2>3, LateGoesOn
  <2>5. cmds # <<>> => Tail(cmds) \in Seq(CommandSet)
    BY <2>2, SeqFacts
  <2>6. QED
    BY ONLY <2>1, <2>2, <2>4, <2>5
<1>4. events' \in Seq(EventSet)
  <2>1. coord.seq \in Nat /\ coord.seq + 1 \in Nat /\ launch \in Nat
    BY DEF ThreadOK, Coords, ControlOK
  <2>2. CASE events' = events
    BY <2>2 DEF ThreadOK
  <2>3. ASSUME NEW k \in Kinds, CoordinatorDecides(k) PROVE events' \in Seq(EventSet)
    BY <2>1, <2>3, EventType DEF CoordinatorDecides
  <2>4. ASSUME NEW k \in Replies, CoordinatorReplies(k) PROVE events' \in Seq(EventSet)
    BY <2>1, <2>4, EventType DEF CoordinatorReplies
  <2>5. ASSUME NEW th \in late, LateThreadGoesOn(th) PROVE events' \in Seq(EventSet)
    <3>1. th.launch \in Nat /\ th.seq \in Nat /\ th.seq + 1 \in Nat
      BY DEF ThreadOK, LateThreads
    <3>2. QED
      BY <2>2, <2>5, <3>1, EventType DEF LateThreadGoesOn
  <2>6. QED
    BY <2>2, <2>3, <2>4, <2>5 DEF CoordinatorNext, CoordinatorThinks, CoordinatorReceives
<1>5. QED
  BY <1>1, <1>2, <1>3, <1>4 DEF ThreadOK

\* The event at the head of the queue, and what is left of the queue.
LEMMA EventHead ==
    ASSUME ThreadOK, events # <<>>
    PROVE  /\ Head(events).launch \in Nat /\ Head(events).seq \in Nat
           /\ Tail(events) \in Seq(EventSet)
<1>1. Head(events) \in EventSet /\ Tail(events) \in Seq(EventSet)
  BY SeqFacts DEF ThreadOK
<1>2. QED
  BY <1>1 DEF EventSet

LEMMA DecisionType ==
    ASSUME TypeOK, DecisionArrives
    PROVE  TypeOK'
<1> USE TypeParts, TypePartsNext
<1> DEFINE e == Head(events)
           p == [launch |-> e.launch, seq |-> e.seq]
<1>1. events # <<>> /\ events' = Tail(events) /\ mode' = mode
  BY DEF DecisionArrives
<1>2. e.launch \in Nat /\ e.seq \in Nat /\ events' \in Seq(EventSet)
  BY <1>1, EventHead
<1>3. p \in Prompts
  BY <1>2 DEF Prompts
<1>4. disturbed' \in BOOLEAN
  BY DEF DecisionArrives, ControlOK
<1>5. CASE ~Active
  <2>1. UNCHANGED <<phase, launch, control, clock, coord, cmds, late, turns>>
    BY <1>5 DEF DecisionArrives
  <2>2. QED
    BY <2>1, <1>1, <1>2, <1>4 DEF ControlOK, ClockOK, ThreadOK, TurnsOK, control, clock
<1>6. CASE Active
  <2>0. Decided(e)
    BY <1>6 DEF DecisionArrives
  <2>1. Acked(e) \in Seq(CommandSet)
    BY <1>2, CommandType DEF Acked, ThreadOK
  <2> HIDE DEF e, p
  <2>2. ASSUME NEW k \in {"prompt", "check"}, Dispatches(k), prompt' = p,
               attempts' = 0, pending' = FALSE, cmds' = Acked(e),
               countdown' \in Nat, timers' \subseteq Countdowns, checking' \in BOOLEAN,
               UNCHANGED <<launch, handle, token, restarts, coord, late>>
        PROVE  TypeOK'
    <3>1. TurnsOK' /\ phase' \in Phases
      BY <2>2, DispatchesType
    <3>2. ControlOK'
      BY <1>1, <1>3, <1>4, <2>2, <3>1 DEF ControlOK
    <3>3. ClockOK' /\ ThreadOK'
      BY <1>2, <2>1, <2>2 DEF ClockOK, ThreadOK
    <3>4. QED
      BY <3>1, <3>2, <3>3
  <2>3. CASE e.kind = "plan"
    <3>1. /\ Dispatches("prompt") /\ prompt' = p /\ attempts' = 0 /\ pending' = FALSE
          /\ cmds' = Acked(e)
          /\ UNCHANGED <<launch, handle, countdown, token, checking, clock, coord, late>>
      BY <2>0, <2>3 DEF Decided, p
    <3>2. UNCHANGED <<timers, restarts>>
      BY <3>1 DEF clock
    <3>3. countdown' \in Nat /\ timers' \subseteq Countdowns /\ checking' \in BOOLEAN
      BY <3>1, <3>2 DEF ControlOK, ClockOK
    <3>4. QED
      BY <2>2, <3>1, <3>2, <3>3
  <2>4. CASE e.kind = "continue"
    <3>1. /\ Schedules(p) /\ phase' = "ready" /\ attempts' = 0 /\ pending' = FALSE
          /\ cmds' = Acked(e)
          /\ UNCHANGED <<launch, handle, token, checking, restarts, coord, late, turns>>
      BY <2>0, <2>4 DEF Decided, p
    <3>2. prompt' \in Prompts /\ countdown' \in Nat /\ timers' \subseteq Countdowns
      BY <1>3, <3>1, SchedulesType
    <3>3. ControlOK'
      BY <1>1, <1>4, <3>1, <3>2 DEF ControlOK, Phases
    <3>4. ClockOK' /\ ThreadOK' /\ TurnsOK'
      BY <1>2, <2>1, <3>1, <3>2 DEF ClockOK, ThreadOK, TurnsOK
    <3>5. QED
      BY <3>3, <3>4
  <2>5. CASE e.kind = "success"
    <3>1. /\ checking' = TRUE /\ Schedules(p) /\ Dispatches("check")
          /\ attempts' = 0 /\ pending' = FALSE /\ cmds' = Acked(e)
          /\ UNCHANGED <<launch, handle, token, restarts, coord, late>>
      BY <2>0, <2>5 DEF Decided, p
    <3>2. countdown' \in Nat /\ timers' \subseteq Countdowns
      BY <1>3, <3>1, SchedulesType
    <3>3. prompt' = p
      BY <3>1 DEF Schedules
    <3>4. QED
      BY <2>2, <3>1, <3>2, <3>3
  <2>6. CASE Pauses(attempts) /\ UNCHANGED turns
    <3>1. ControlOK' /\ ClockOK' /\ ThreadOK'
      BY <1>1, <1>2, <1>4, <2>6, PausesType
    <3>2. QED
      BY <2>6, <3>1 DEF TurnsOK
  <2>7. CASE Stops /\ UNCHANGED turns
    <3>1. ControlOK' /\ ClockOK' /\ ThreadOK'
      BY <1>1, <1>2, <1>4, <2>7, StopsType
    <3>2. QED
      BY <2>7, <3>1 DEF TurnsOK
  <2>8. QED
    BY <2>0, <2>3, <2>4, <2>5, <2>6, <2>7 DEF Decided
<1>7. QED
  BY <1>5, <1>6

LEMMA ReplyType ==
    ASSUME TypeOK, ReplyArrives
    PROVE  TypeOK'
<1> USE TypeParts, TypePartsNext
<1>1. events # <<>> /\ events' = Tail(events) /\ disturbed' = TRUE
      /\ UNCHANGED <<mode, launch, control, clock, coord, cmds, late>>
  BY DEF ReplyArrives
<1>2. events' \in Seq(EventSet) /\ Head(events).launch \in Nat
  BY <1>1, EventHead
<1>3. phase' \in Phases
  BY DEF ReplyArrives, Phases, ControlOK
<1>4. TurnsOK'
  <2>1. [launch |-> Head(events).launch, kind |-> "prompt"] \in TurnSet
    BY <1>2 DEF TurnSet
  <2>2. turns' = turns \/ turns' = Append(turns, [launch |-> Head(events).launch,
                                                 kind |-> "prompt"])
    BY DEF ReplyArrives
  <2>3. QED
    BY <2>1, <2>2 DEF TurnsOK
<1>5. ControlOK'
  BY <1>1, <1>3 DEF ControlOK, control
<1>6. ClockOK' /\ ThreadOK'
  BY <1>1, <1>2 DEF ClockOK, ThreadOK, clock
<1>7. QED
  BY <1>4, <1>5, <1>6

LEMMA AnswerType ==
    ASSUME TypeOK, NEW over \in BOOLEAN, TurnAnswers(over)
    PROVE  TypeOK'
<1> USE TypeParts, TypePartsNext
<1> DEFINE t == Head(turns)
<1>1. Answered(t) /\ UNCHANGED <<mode, events>> /\ turns # <<>>
  BY DEF TurnAnswers
<1>2. TurnsOK'
  <2>1. turns' = turns \/ turns' = Tail(turns)
    BY DEF TurnAnswers
  <2>2. turns \in Seq(TurnSet)
    BY DEF TurnsOK
  <2>3. Tail(turns) \in Seq(TurnSet)
    BY <1>1, <2>2, SeqFacts
  <2>4. QED
    BY <2>1, <2>2, <2>3 DEF TurnsOK
<1>3. disturbed' \in BOOLEAN
  BY DEF TurnAnswers
<1>4. events' \in Seq(EventSet)
  BY <1>1 DEF ThreadOK
<1>5. CASE Stops
  BY <1>1, <1>2, <1>3, <1>4, <1>5, StopsType
<1>6. CASE SendsConversation
  BY <1>1, <1>2, <1>3, <1>6, ConversationType
<1>7. CASE UNCHANGED <<launch, control, clock, coord, cmds, late>> /\ phase' \in Phases
  <2>1. ControlOK'
    BY <1>1, <1>3, <1>7 DEF ControlOK, control
  <2>2. ClockOK' /\ ThreadOK'
    BY <1>1, <1>7 DEF ClockOK, ThreadOK, clock
  <2>3. QED
    BY <1>2, <2>1, <2>2
<1>8. CASE checking /\ t.kind = "check" /\ ~Stops
  <2>1. /\ checking' = FALSE /\ phase' \in {"waiting", "active"}
        /\ UNCHANGED <<launch, handle, countdown, token, attempts, pending, clock,
                       coord, late>>
        /\ prompt' \in {prompt, NoPrompt}
        /\ cmds' \in {cmds, Append(cmds, Command("update", 0))}
    BY <1>1, <1>8 DEF Answered
  <2>2. ControlOK'
    <3>1. prompt' \in Prompts
      BY <2>1 DEF ControlOK, Prompts, NoPrompt
    <3>2. phase' \in Phases /\ mode' = mode
      BY <1>1, <2>1 DEF Phases
    <3>3. UNCHANGED <<launch, handle, countdown, token, attempts, pending>>
      BY <2>1
    <3>4. QED
      BY <1>3, <2>1, <3>1, <3>2, <3>3 DEF ControlOK
  <2>3. cmds' \in Seq(CommandSet)
    BY <2>1, CommandType DEF ThreadOK
  <2>4. ClockOK' /\ ThreadOK'
    BY <1>1, <2>1, <2>3 DEF ClockOK, ThreadOK, clock
  <2>5. QED
    BY <1>2, <2>2, <2>4
<1>9. QED
  BY <1>1, <1>5, <1>6, <1>7, <1>8 DEF Answered, Continues, Phases, ControlOK

LEMMA SessionType ==
    ASSUME TypeOK, SessionNext
    PROVE  TypeOK'
<1> USE TypeParts, TypePartsNext
<1>0. turns \in Seq(TurnSet) /\ (turns # <<>> => Tail(turns) \in Seq(TurnSet))
  BY SeqFacts DEF TurnsOK
<1>1. CASE TurnFails
  <2>1. TurnsOK' /\ UNCHANGED <<mode, events, disturbed>>
    BY <1>0, <1>1 DEF TurnFails, TurnsOK
  <2>2. disturbed' \in BOOLEAN /\ events' \in Seq(EventSet)
    BY <2>1 DEF ControlOK, ThreadOK
  <2>3. CASE Active
    BY <1>1, <2>1, <2>2, <2>3, PausesType DEF TurnFails
  <2>4. CASE ~Active
    <3>1. UNCHANGED <<phase, launch, control, clock, coord, cmds, late>>
      BY <1>1, <2>4 DEF TurnFails
    <3>2. QED
      BY <2>1, <3>1 DEF ControlOK, ClockOK, ThreadOK, control, clock
  <2>5. QED
    BY <2>3, <2>4
<1>2. CASE ReviewBegins
  <2>1. [launch |-> 0, kind |-> "review"] \in TurnSet
    BY DEF TurnSet
  <2>2. (IF turns = <<>> THEN <<>> ELSE Tail(turns)) \in Seq(TurnSet)
    BY <1>0
  <2>3. turns' = <<[launch |-> 0, kind |-> "review"]>>
                   \o (IF turns = <<>> THEN <<>> ELSE Tail(turns))
    BY <1>2 DEF ReviewBegins
  <2>4. TurnsOK'
    BY ONLY <2>1, <2>2, <2>3 DEF TurnsOK
  <2>5. phase' \in Phases /\ disturbed' \in BOOLEAN
    BY <1>2 DEF ReviewBegins, Phases, ControlOK
  <2>6. UNCHANGED <<mode, launch, control, clock, thread>>
    BY <1>2 DEF ReviewBegins
  <2>7. ControlOK' /\ ClockOK' /\ ThreadOK'
    BY <2>5, <2>6 DEF ControlOK, ClockOK, ThreadOK, control, clock, thread
  <2>8. QED
    BY <2>4, <2>7
<1>3. CASE ReviewEnds
  <2>1. TurnsOK' /\ UNCHANGED <<mode, events, disturbed>>
    BY <1>0, <1>3 DEF ReviewEnds, Reviewing, TurnsOK
  <2>2. disturbed' \in BOOLEAN
    BY <2>1 DEF ControlOK
  <2>3. CASE phase = "review"
    BY <1>3, <2>1, <2>2, <2>3, ConversationType DEF ReviewEnds
  <2>4. CASE phase # "review"
    <3>1. UNCHANGED <<phase, launch, control, clock, coord, cmds, late>>
      BY <1>3, <2>4 DEF ReviewEnds
    <3>2. QED
      BY <2>1, <3>1 DEF ControlOK, ClockOK, ThreadOK, control, clock
  <2>5. QED
    BY <2>3, <2>4
<1>4. QED
  BY <1>1, <1>2, <1>3, AnswerType DEF SessionNext

LEMMA StepType ==
    ASSUME TypeOK, [Next]_vars
    PROVE  TypeOK'
<1>1. CASE UNCHANGED vars
  BY <1>1 DEF TypeOK, vars, control, clock, thread
<1>2. QED
  BY <1>1, UserType, ClockType, CoordinatorType, DecisionType, ReplyType, SessionType
  DEF Next

LEMMA TypeInit ==
    ASSUME Init
    PROVE  TypeOK
<1>1. ControlOK
  BY DEF Init, ControlOK, Phases, Prompts, NoPrompt
<1>2. ClockOK /\ TurnsOK
  BY DEF Init, ClockOK, TurnsOK
<1>3. ThreadOK
  BY SeededType DEF Init, ThreadOK
<1>4. QED
  BY <1>1, <1>2, <1>3, TypeParts

\* The state has its shape in every behaviour.
THEOREM TypeCorrect == Spec => []TypeOK
<1>1. Init => TypeOK
  BY TypeInit
<1>2. TypeOK /\ [Next]_vars => TypeOK'
  BY StepType
<1> QED
  BY <1>1, <1>2, PTL DEF Spec

-----------------------------------------------------------------------------
(* A countdown that counts is the prompt's own *)

\* No countdown thread is of a later launch, and while the run has its
\* coordinator, which it loses with its ids, none of its own has an id that is
\* still to come.
NoneAhead ==
    /\ \A t \in timers : t.launch <= launch
    /\ handle => \A t \in timers : t.launch = launch => t.id <= countdown

CountdownInv == TypeOK /\ NoneAhead /\ OwnCountdown

TimerType == TypeOK => /\ launch \in Nat /\ countdown \in Nat
                       /\ \A t \in timers : t.launch \in Nat /\ t.id \in Nat
LEMMA TimersTyped == TimerType
BY DEF TimerType, TypeOK

\* Nothing new: no new thread, and the coordinator is the same or gone.
LEMMA NoNewTimer ==
    ASSUME CountdownInv, timers' \subseteq timers, launch' = launch,
           \/ ~handle'
           \/ /\ handle /\ countdown' = countdown
              /\ phase' = "ready" => phase = "ready" /\ UNCHANGED <<mode, prompt>>
    PROVE  NoneAhead' /\ OwnCountdown'
BY DEF CountdownInv, NoneAhead, OwnCountdown

\* A launch is ahead of every thread.
LEMMA LaunchLeavesThreads ==
    ASSUME CountdownInv, timers' \subseteq timers, launch' = launch + 1
    PROVE  NoneAhead' /\ OwnCountdown'
<1>1. \A t \in timers' : t.launch < launch'
  BY TimersTyped DEF TimerType, CountdownInv, NoneAhead
<1>2. \A t \in timers' : t.launch <= launch' /\ t.launch # launch'
  <2> TAKE t \in timers'
  <2>1. t.launch \in Nat /\ launch' \in Nat /\ t.launch < launch'
    BY <1>1, TimersTyped DEF TimerType, CountdownInv
  <2>2. QED
    BY ONLY <2>1
<1>3. QED
  BY <1>2 DEF NoneAhead, OwnCountdown

\* A new countdown of an active run leaves its older threads behind.
LEMMA NewCountdown ==
    ASSUME CountdownInv, NEW m \in Modes, NEW p, mode' = m \/ phase' # "ready",
           launch' = launch, handle' => handle, countdown' = NextCountdown,
           timers' = Armed(m, p), prompt' = p \/ phase' # "ready"
    PROVE  NoneAhead' /\ OwnCountdown'
<1> DEFINE new == [launch |-> launch, id |-> NextCountdown, prompt |-> p]
<1>1. launch \in Nat /\ countdown \in Nat
  BY TimersTyped DEF TimerType, CountdownInv
<1>2. new.launch = launch /\ new.id = NextCountdown /\ new.prompt = p
  OBVIOUS
<1>3. \A t \in timers' : t \in timers \/ (t = new /\ m = "timed")
  BY DEF Armed
<1>4. ASSUME NEW t \in timers
      PROVE  /\ t.launch <= launch
             /\ handle' /\ t.launch = launch =>
                  t.id <= NextCountdown /\ t.id # NextCountdown
  <2>1. t.launch \in Nat /\ t.id \in Nat /\ t.launch <= launch
    BY TimersTyped DEF TimerType, CountdownInv, NoneAhead
  <2>2. handle' /\ t.launch = launch => t.id <= countdown
    BY DEF CountdownInv, NoneAhead
  <2>3. t.id <= countdown => t.id <= NextCountdown /\ t.id # NextCountdown
    BY ONLY <1>1, <2>1 DEF NextCountdown
  <2>4. QED
    BY <2>1, <2>2, <2>3
<1>5. new.launch <= launch /\ new.id <= NextCountdown
  BY ONLY <1>1, <1>2 DEF NextCountdown
<1> HIDE DEF new
<1>6. NoneAhead'
  BY <1>2, <1>3, <1>4, <1>5 DEF NoneAhead
<1>7. OwnCountdown'
  BY <1>2, <1>3, <1>4 DEF OwnCountdown
<1>8. QED
  BY <1>6, <1>7

LEMMA ConversationCounts ==
    ASSUME CountdownInv, SendsConversation
    PROVE  NoneAhead' /\ OwnCountdown'
<1>1. timers' = timers /\ launch' = launch
  BY DEF SendsConversation, Stops, clock
<1>2. ~handle' \/ (handle /\ countdown' = countdown /\ phase' # "ready")
  BY DEF SendsConversation, Stops, Cancels, CanSend, control
<1>3. QED
  BY <1>1, <1>2, NoNewTimer

LEMMA UserCounts ==
    ASSUME CountdownInv, UserNext
    PROVE  NoneAhead' /\ OwnCountdown'
<1>0. handle \in BOOLEAN
  BY DEF CountdownInv, TypeOK
<1>1. CASE UserLaunches
  <2>1. timers' = timers
    BY <1>1 DEF UserLaunches, clock
  <2>2. launch' = launch + 1 \/ (launch' = launch /\ ~handle')
    BY <1>1 DEF UserLaunches, Launched, LaunchFails
  <2>3. QED
    BY <2>1, <2>2, NoNewTimer, LaunchLeavesThreads
<1>2. CASE UserConfirms
  <2>1. phase' = "waiting" /\ UNCHANGED <<timers, launch, handle, countdown>>
    BY <1>2 DEF UserConfirms, Submits, Dispatches, control
  <2>2. QED
    BY <1>0, <2>1, NoNewTimer
<1>3. CASE UserEdits
  <2>1. /\ phase' = "paused" /\ countdown' = NextCountdown
        /\ UNCHANGED <<timers, launch, handle>>
    BY <1>3 DEF UserEdits, clock
  <2>2. timers' = Armed("manual", prompt) /\ "manual" \in Modes
    BY <2>1 DEF Armed, Modes
  <2>3. QED
    BY <2>1, <2>2, NewCountdown
<1>4. CASE UserStops
  <2>1. ~handle' /\ UNCHANGED <<timers, launch>>
    BY <1>4 DEF UserStops, Stops, Cancels, clock
  <2>2. QED
    BY <2>1, NoNewTimer
<1>5. CASE UserSpeaks
  <2>1. UNCHANGED <<mode, launch, timers, handle, countdown, prompt>>
    BY <1>5 DEF UserSpeaks, control, clock
  <2>2. phase' = phase \/ phase' = "waiting"
    BY <1>5 DEF UserSpeaks
  <2>3. QED
    BY <1>0, <2>1, <2>2, NoNewTimer
<1>6. ASSUME NEW m \in Modes, UserChoosesMode(m) PROVE NoneAhead' /\ OwnCountdown'
  <2>1. mode' = m /\ UNCHANGED <<phase, launch, handle, prompt>>
    BY <1>6 DEF UserChoosesMode
  <2>2. CASE phase = "ready"
    <3>1. countdown' = NextCountdown /\ timers' = Armed(m, prompt)
      BY <1>6, <2>2 DEF UserChoosesMode
    <3>2. QED
      BY <2>1, <2>2, <3>1, NewCountdown
  <2>3. CASE phase # "ready"
    <3>1. UNCHANGED <<countdown, timers>>
      BY <1>6, <2>3 DEF UserChoosesMode
    <3>2. QED
      BY <1>0, <2>1, <2>3, <3>1, NoNewTimer
  <2>4. QED
    BY <2>2, <2>3
<1>7. QED
  BY <1>1, <1>2, <1>3, <1>4, <1>5, <1>6 DEF UserNext

LEMMA ClockCounts ==
    ASSUME CountdownInv, ClockNext
    PROVE  NoneAhead' /\ OwnCountdown'
<1>0. handle \in BOOLEAN
  BY DEF CountdownInv, TypeOK
<1>1. ASSUME NEW t \in timers, TickFires(t) PROVE NoneAhead' /\ OwnCountdown'
  <2>1. timers' \subseteq timers /\ UNCHANGED <<mode, launch, handle, countdown, prompt>>
    BY <1>1 DEF TickFires, Submits, control
  <2>2. phase' = phase \/ phase' = "waiting"
    BY <1>1 DEF TickFires, Submits, Dispatches
  <2>3. QED
    BY <1>0, <2>1, <2>2, NoNewTimer
<1>2. ASSUME NEW r \in restarts, RestartFires(r) PROVE NoneAhead' /\ OwnCountdown'
  <2>1. timers' = timers /\ mode' = mode
    BY <1>2 DEF RestartFires
  <2>2. \/ launch' = launch + 1
        \/ launch' = launch /\ ~handle'
        \/ UNCHANGED <<phase, launch, handle, prompt, countdown>>
    BY <1>2 DEF RestartFires, Launched, LaunchFails
  <2>3. QED
    BY <1>0, <2>1, <2>2, NoNewTimer, LaunchLeavesThreads
<1>3. QED
  BY <1>1, <1>2 DEF ClockNext

\* Whatever decision arrives, of whatever run.
LEMMA DecisionCounts ==
    ASSUME CountdownInv, DecisionArrives
    PROVE  NoneAhead' /\ OwnCountdown'
<1>0. mode' = mode /\ handle \in BOOLEAN
  BY DEF DecisionArrives, CountdownInv, TypeOK
<1>1. CASE ~Active
  <2>1. UNCHANGED <<phase, launch, handle, countdown, prompt, timers>>
    BY <1>1 DEF DecisionArrives, control, clock
  <2>2. QED
    BY <1>0, <2>1, NoNewTimer
<1>2. CASE Active
  <2> DEFINE e == Head(events)
             p == [launch |-> e.launch, seq |-> e.seq]
  <2>0. Decided(e)
    BY <1>2 DEF DecisionArrives
  <2>1. launch' = launch /\ (handle' => handle)
    BY <1>0, <2>0 DEF Decided, Pauses, Stops, Cancels
  <2>2. CASE Schedules(p)
    <3>1. countdown' = NextCountdown /\ timers' = Armed(mode, p) /\ prompt' = p
      BY <2>2 DEF Schedules
    <3>2. mode \in Modes
      BY DEF CountdownInv, TypeOK
    <3>3. QED
      BY <1>0, <2>1, <3>1, <3>2, NewCountdown
  <2>3. CASE ~handle' /\ timers' = timers
    BY <2>1, <2>3, NoNewTimer
  <2>4. CASE phase' = "waiting" /\ UNCHANGED <<timers, handle, countdown>>
    BY <1>0, <2>1, <2>4, NoNewTimer
  <2>5. QED
    BY <2>0, <2>2, <2>3, <2>4 DEF Decided, Dispatches, Pauses, Stops, Cancels, clock
<1>3. QED
  BY <1>1, <1>2

LEMMA SessionCounts ==
    ASSUME CountdownInv, SessionNext
    PROVE  NoneAhead' /\ OwnCountdown'
<1>0. handle \in BOOLEAN
  BY DEF CountdownInv, TypeOK
<1>1. ASSUME NEW over \in BOOLEAN, TurnAnswers(over) PROVE NoneAhead' /\ OwnCountdown'
  <2> DEFINE t == Head(turns)
  <2>1. Answered(t) /\ mode' = mode
    BY <1>1 DEF TurnAnswers
  <2>2. timers' = timers /\ launch' = launch
    BY <2>1 DEF Answered, Continues, SendsConversation, Stops, clock
  <2>3. \/ ~handle'
        \/ UNCHANGED <<handle, countdown>> /\ phase' # "ready"
        \/ UNCHANGED <<phase, handle, countdown, prompt>>
    BY <2>1 DEF Answered, Continues, SendsConversation, Stops, Cancels, control
  <2>4. QED
    BY <1>0, <2>1, <2>2, <2>3, NoNewTimer
<1>2. CASE TurnFails
  <2>1. UNCHANGED <<mode, timers, launch>>
    BY <1>2 DEF TurnFails, Pauses, clock
  <2>2. ~handle' \/ UNCHANGED <<phase, handle, countdown, prompt>>
    BY <1>2 DEF TurnFails, Pauses, Cancels, control
  <2>3. QED
    BY <1>0, <2>1, <2>2, NoNewTimer
<1>3. CASE ReviewBegins
  <2>1. UNCHANGED <<mode, timers, launch, handle, countdown, prompt>>
    BY <1>3 DEF ReviewBegins, control, clock
  <2>2. phase' = phase \/ phase' \in {"review", "active"}
    BY <1>3 DEF ReviewBegins
  <2>3. QED
    BY <1>0, <2>1, <2>2, NoNewTimer
<1>4. CASE ReviewEnds
  <2>1. CASE phase = "review"
    BY <1>4, <2>1, ConversationCounts DEF ReviewEnds
  <2>2. CASE phase # "review"
    <3>1. UNCHANGED <<phase, mode, launch, handle, countdown, prompt, timers>>
      BY <1>4, <2>2 DEF ReviewEnds, control, clock
    <3>2. QED
      BY <1>0, <3>1, NoNewTimer
  <2>3. QED
    BY <2>1, <2>2
<1>5. QED
  BY <1>1, <1>2, <1>3, <1>4 DEF SessionNext

LEMMA StepCounts ==
    ASSUME CountdownInv, [Next]_vars
    PROVE  CountdownInv'
<1>0. handle \in BOOLEAN
  BY DEF CountdownInv, TypeOK
<1>1. TypeOK'
  BY StepType DEF CountdownInv
<1>2. CASE UNCHANGED <<phase, mode, launch, control, clock, disturbed>>
  <2>1. UNCHANGED <<phase, mode, launch, handle, countdown, prompt, timers>>
    BY <1>2 DEF control, clock
  <2>2. NoneAhead' /\ OwnCountdown'
    BY <1>0, <2>1, NoNewTimer
  <2>3. QED
    BY <1>1, <2>2 DEF CountdownInv
<1>3. CASE CoordinatorNext
  BY <1>2, <1>3, CoordinatorIsApart
<1>4. CASE UNCHANGED vars
  BY <1>2, <1>4 DEF vars
<1>5. CASE ReplyArrives
  <2>1. UNCHANGED <<mode, launch, handle, countdown, prompt, timers>>
    BY <1>5 DEF ReplyArrives, control, clock
  <2>2. phase' = phase \/ phase' \in {"waiting", "active"}
    BY <1>5 DEF ReplyArrives
  <2>3. NoneAhead' /\ OwnCountdown'
    BY <1>0, <2>1, <2>2, NoNewTimer
  <2>4. QED
    BY <1>1, <2>3 DEF CountdownInv
<1>6. CASE UserNext \/ ClockNext \/ DecisionArrives \/ SessionNext
  <2>1. NoneAhead' /\ OwnCountdown'
    BY <1>6, UserCounts, ClockCounts, DecisionCounts, SessionCounts
  <2>2. QED
    BY <1>1, <2>1 DEF CountdownInv
<1>7. QED
  BY <1>3, <1>4, <1>5, <1>6 DEF Next

\* While the run has its coordinator, a countdown of this run that still counts
\* was started for the prompt that is shown and in countdown mode: no thread of
\* an earlier prompt, mode or edit can submit it, whatever events, replies,
\* reviews and ticks, of this run or another, came in between.
THEOREM CountdownIsOwn == Spec => []OwnCountdown
<1>1. Init => CountdownInv
  <2>1. Init => TypeOK
    BY TypeInit
  <2>2. Init => NoneAhead /\ OwnCountdown
    BY DEF Init, NoneAhead, OwnCountdown
  <2>3. QED
    BY <2>1, <2>2 DEF CountdownInv
<1>2. CountdownInv /\ [Next]_vars => CountdownInv'
  BY StepCounts
<1>3. CountdownInv => OwnCountdown
  BY DEF CountdownInv
<1> QED
  BY <1>1, <1>2, <1>3, PTL DEF Spec


-----------------------------------------------------------------------------
(* Queues as sequences *)

In(x, seq) == \E i \in 1 .. Len(seq) : seq[i] = x

LEMMA AppendAt ==
    ASSUME NEW S, NEW seq \in Seq(S), NEW y \in S
    PROVE  /\ Append(seq, y) \in Seq(S)
           /\ Len(seq) \in Nat /\ Len(Append(seq, y)) = Len(seq) + 1
           /\ \A i \in 1 .. Len(seq) + 1 :
                Append(seq, y)[i] = IF i = Len(seq) + 1 THEN y ELSE seq[i]
OBVIOUS

LEMMA TailAt ==
    ASSUME NEW S, NEW seq \in Seq(S), seq # <<>>
    PROVE  /\ Tail(seq) \in Seq(S) /\ Head(seq) \in S
           /\ Len(seq) \in Nat /\ Len(seq) >= 1 /\ Len(Tail(seq)) = Len(seq) - 1
           /\ Head(seq) = seq[1]
           /\ \A i \in 1 .. Len(seq) - 1 : Tail(seq)[i] = seq[i + 1]
OBVIOUS

LEMMA InAppend ==
    ASSUME NEW S, NEW seq \in Seq(S), NEW y \in S, NEW x
    PROVE  In(x, Append(seq, y)) <=> In(x, seq) \/ x = y
<1> DEFINE longer == Append(seq, y)
           n == Len(seq)
<1>1. /\ n \in Nat /\ Len(longer) = n + 1
      /\ \A i \in 1 .. n + 1 : longer[i] = IF i = n + 1 THEN y ELSE seq[i]
  BY AppendAt
<1> HIDE DEF longer, n
<1>2. 1 .. n + 1 = (1 .. n) \union {n + 1} /\ n + 1 \notin 1 .. n
  BY <1>1
<1>3. In(x, longer) <=> x = y \/ \E i \in 1 .. n : seq[i] = x
  BY <1>1, <1>2 DEF In
<1>4. QED
  BY <1>3 DEF In, longer, n

LEMMA InTail ==
    ASSUME NEW S, NEW seq \in Seq(S), seq # <<>>, NEW x
    PROVE  In(x, seq) <=> x = Head(seq) \/ In(x, Tail(seq))
<1> DEFINE rest == Tail(seq)
           first == Head(seq)
           n == Len(seq)
<1>1. /\ n \in Nat /\ n >= 1 /\ Len(rest) = n - 1 /\ first = seq[1]
      /\ \A i \in 1 .. n - 1 : rest[i] = seq[i + 1]
  BY TailAt
<1> HIDE DEF rest, first, n
<1>2. \A i \in 1 .. n : i = 1 \/ (i - 1 \in 1 .. n - 1 /\ rest[i - 1] = seq[i])
  BY <1>1
<1>3. \A i \in 1 .. n - 1 : i + 1 \in 1 .. n
  BY <1>1
<1>4. 1 \in 1 .. n
  BY <1>1
<1>5. ASSUME In(x, rest) PROVE \E i \in 1 .. n : seq[i] = x
  BY <1>1, <1>3, <1>5 DEF In
<1>6. ASSUME NEW i \in 1 .. n, seq[i] = x PROVE x = first \/ In(x, rest)
  BY <1>1, <1>2, <1>6 DEF In
<1>7. QED
  BY <1>1, <1>4, <1>5, <1>6 DEF In, rest, first, n

LEMMA InEmpty == \A x : ~In(x, <<>>)
BY DEF In

-----------------------------------------------------------------------------
(* Nothing comes from a later launch *)

\* Turns, events and cancelled threads are of this launch or an earlier one; the
\* thread behind the handle has not been cancelled; a review is of no launch.
Past ==
    /\ \A t \in TurnSet : In(t, turns) =>
         t.launch <= launch /\ (t.kind = "review" => t.launch = 0)
    /\ \A e \in EventSet : In(e, events) => e.launch <= launch
    /\ \A th \in late : th.launch <= launch /\ (handle => th.launch < launch)
    /\ handle => Active
    /\ Active /\ ~disturbed => launch > 0

PastInv == TypeOK /\ Past

LEMMA PastTyped ==
    ASSUME TypeOK
    PROVE  /\ launch \in Nat /\ handle \in BOOLEAN
           /\ events \in Seq(EventSet) /\ turns \in Seq(TurnSet) /\ cmds \in Seq(CommandSet)
           /\ coord \in Coords
           /\ \A e \in EventSet : e.launch \in Nat
           /\ \A t \in TurnSet : t.launch \in Nat
           /\ \A th \in late : th.launch \in Nat
<1>1. ControlOK /\ ThreadOK /\ TurnsOK
  BY TypeParts
<1>2. \A e \in EventSet : e.launch \in Nat
  BY DEF EventSet
<1>3. \A t \in TurnSet : t.launch \in Nat
  BY DEF TurnSet
<1>4. \A th \in late : th.launch \in Nat
  BY <1>1 DEF ThreadOK, LateThreads
<1>5. QED
  BY <1>1, <1>2, <1>3, <1>4 DEF ControlOK, ThreadOK, TurnsOK

\* What a step may add to each queue.
NewTurn(t) ==
    \/ t.launch = launch /\ t.kind # "review"
    \/ t.launch = 0
    \/ t.kind # "review" /\ \E e \in EventSet : In(e, events) /\ t.launch = e.launch

TurnsGrow ==
    \A t \in TurnSet : In(t, turns') => In(t, turns) \/ NewTurn(t)

NewEvent(e) == e.launch = launch' \/ \E th \in late : e.launch = th.launch

EventsGrow ==
    \A e \in EventSet : In(e, events') => In(e, events) \/ NewEvent(e)

\* A thread of before, or the one behind the handle.
Kept ==
    \/ late' = late
    \/ \A th \in late' : \E x \in late : th.launch = x.launch
LateGrows ==
    \A th \in late' : (\E x \in late : th.launch = x.launch)
                      \/ (th.launch = launch /\ handle)

\* The handle at the end is that of the same run, or of a new one.
SameRun == launch' = launch /\ Kept /\ (handle' => handle)
NewRun == launch' = launch + 1
NoRun == launch' = launch /\ ~handle'

LEMMA PastStill ==
    ASSUME PastInv, TurnsGrow, EventsGrow, LateGrows, SameRun \/ NewRun \/ NoRun,
           handle' => phase' # "off", disturbed => disturbed',
           Active \/ phase' = "off" \/ disturbed' \/ NewRun
    PROVE  Past'
<1>1. /\ launch \in Nat /\ launch' \in Nat /\ launch <= launch' /\ (NewRun => launch < launch')
      /\ \A e \in EventSet : e.launch \in Nat
      /\ \A t \in TurnSet : t.launch \in Nat
      /\ \A th \in late : th.launch \in Nat
  BY PastTyped DEF PastInv, SameRun, Kept, NewRun, NoRun
<1>2. ASSUME NEW e \in EventSet, In(e, events') PROVE e.launch <= launch'
  <2>1. CASE In(e, events)
    <3>1. e.launch <= launch
      BY <2>1 DEF PastInv, Past
    <3>2. QED
      BY <1>1, <3>1
  <2>2. ASSUME NEW th \in late, e.launch = th.launch PROVE e.launch <= launch'
    <3>1. th.launch <= launch
      BY DEF PastInv, Past
    <3>2. QED
      BY <1>1, <2>2, <3>1
  <2>3. QED
    BY <1>1, <1>2, <2>1, <2>2 DEF EventsGrow, NewEvent
<1>3. ASSUME NEW t \in TurnSet, In(t, turns')
      PROVE  t.launch <= launch' /\ (t.kind = "review" => t.launch = 0)
  <2>1. CASE In(t, turns)
    <3>1. t.launch <= launch /\ (t.kind = "review" => t.launch = 0)
      BY <2>1 DEF PastInv, Past
    <3>2. QED
      BY <1>1, <3>1
  <2>2. ASSUME NEW e \in EventSet, In(e, events), t.launch = e.launch PROVE t.launch <= launch'
    <3>1. e.launch <= launch
      BY <2>2 DEF PastInv, Past
    <3>2. QED
      BY <1>1, <2>2, <3>1
  <2>3. QED
    BY <1>1, <1>3, <2>1, <2>2 DEF TurnsGrow, NewTurn
<1>4. ASSUME NEW th \in late'
      PROVE  th.launch <= launch' /\ (handle' => th.launch < launch')
  <2>0. \A x \in late : x.launch <= launch /\ (handle => x.launch < launch)
    BY DEF PastInv, Past
  <2>1. (\E x \in late : th.launch = x.launch) \/ (th.launch = launch /\ handle)
    BY DEF LateGrows
  <2>2. (\E x \in late : th.launch = x.launch)
          => th.launch <= launch /\ (handle => th.launch < launch)
    BY <2>0
  <2>3. th.launch \in Nat /\ th.launch <= launch
    BY <1>1, <2>1, <2>2
  <2>4. CASE NewRun
    BY <1>1, <2>3, <2>4
  <2>5. CASE NoRun
    BY <1>1, <2>3, <2>5 DEF NoRun
  <2>6. CASE SameRun
    <3>1. \E x \in late : th.launch = x.launch
      BY <2>6 DEF SameRun, Kept
    <3>2. QED
      BY <2>2, <2>3, <2>6, <3>1 DEF SameRun, Kept
  <2>7. QED
    BY <2>4, <2>5, <2>6
<1>5. phase' # "off" /\ ~disturbed' => launch' > 0
  BY <1>1 DEF PastInv, Past, NewRun
<1>6. QED
  BY <1>2, <1>3, <1>4, <1>5 DEF Past, Active

LEMMA TurnsGrowBy ==
    ASSUME TypeOK,
           \/ turns' = turns
           \/ turns # <<>> /\ turns' = Tail(turns)
           \/ \E t \in TurnSet : NewTurn(t) /\ turns' = Append(turns, t)
    PROVE  TurnsGrow
<1>1. turns \in Seq(TurnSet)
  BY PastTyped
<1>2. CASE turns' = turns
  BY <1>2 DEF TurnsGrow
<1>3. CASE turns # <<>> /\ turns' = Tail(turns)
  BY <1>1, <1>3, InTail DEF TurnsGrow
<1>4. ASSUME NEW t \in TurnSet, NewTurn(t), turns' = Append(turns, t) PROVE TurnsGrow
  BY <1>1, <1>4, InAppend DEF TurnsGrow
<1>5. QED
  BY <1>2, <1>3, <1>4

LEMMA EventsGrowBy ==
    ASSUME TypeOK,
           \/ events' = events
           \/ events # <<>> /\ events' = Tail(events)
           \/ \E e \in EventSet : NewEvent(e) /\ events' = Append(events, e)
    PROVE  EventsGrow
<1>1. events \in Seq(EventSet)
  BY PastTyped
<1>2. CASE events' = events
  BY <1>2 DEF EventsGrow
<1>3. CASE events # <<>> /\ events' = Tail(events)
  BY <1>1, <1>3, InTail DEF EventsGrow
<1>4. ASSUME NEW e \in EventSet, NewEvent(e), events' = Append(events, e) PROVE EventsGrow
  BY <1>1, <1>4, InAppend DEF EventsGrow
<1>5. QED
  BY <1>2, <1>3, <1>4

LEMMA LateGrowsBy ==
    ASSUME Kept \/ late' = Retired
    PROVE  LateGrows
<1> DEFINE gone(at, n) == [launch |-> launch, seq |-> coord.seq, at |-> at,
                           prompts |-> n]
<1>1. \A at, n : gone(at, n).launch = launch
  OBVIOUS
<1>2. \/ Retired = late
      \/ handle /\ Retired = late \union {gone("replying", Asked - 1)}
      \/ handle /\ Retired = late \union {gone(coord.at, Asked)}
  BY DEF Retired
<1> HIDE DEF gone
<1>3. QED
  BY <1>1, <1>2 DEF LateGrows, Kept

\* Ends of runs: stops, pauses and the conversation that finds no thread.
LEMMA StopsPast ==
    ASSUME Stops \/ \E n : Pauses(n)
    PROVE  LateGrows /\ NoRun /\ Active' = (phase' # "off")
<1>1. late' = Retired /\ ~handle' /\ launch' = launch
  BY DEF Stops, Pauses, Cancels
<1>2. QED
  BY <1>1, LateGrowsBy DEF NoRun, Active

LEMMA ConversationPast ==
    ASSUME Past, SendsConversation, Active
    PROVE  LateGrows /\ (SameRun \/ NoRun) /\ (handle' => phase' # "off")
<1>1. CASE Stops
  BY <1>1, StopsPast DEF Stops, Cancels
<1>2. CASE ~Stops
  BY <1>2, LateGrowsBy DEF SendsConversation, SameRun, Kept, control
<1>3. QED
  BY <1>1, <1>2

LEMMA LaunchPast ==
    ASSUME NEW n, Launched(n) \/ LaunchFails(n), TypeOK
    PROVE  /\ NewRun \/ NoRun
           /\ handle' => phase' # "off"
           /\ phase' = "off" \/ NewRun
           /\ EventsGrow
<1>1. CASE Launched(n)
  <2> DEFINE e == Event(launch + 1, 0, "plan")
  <2>1. e \in EventSet /\ e.launch = launch + 1
    BY PastTyped DEF Event, EventSet, Kinds
  <2>2. events' = Append(events, e) /\ launch' = launch + 1 /\ phase' = "waiting"
    BY <1>1 DEF Launched
  <2> HIDE DEF e
  <2>3. EventsGrow
    BY <2>1, <2>2, EventsGrowBy DEF NewEvent
  <2>4. QED
    BY <2>2, <2>3 DEF NewRun
<1>2. CASE LaunchFails(n)
  BY <1>2, EventsGrowBy DEF LaunchFails, NoRun
<1>3. QED
  BY <1>1, <1>2

LEMMA OwnTurnNew ==
    ASSUME TypeOK, NEW k \in {"prompt", "check"}
    PROVE  Turn(k) \in TurnSet /\ Turn(k).launch = launch /\ NewTurn(Turn(k))
BY PastTyped DEF Turn, TurnSet, NewTurn

LEMMA UserPast ==
    ASSUME PastInv, UserNext
    PROVE  Past'
<1>0. TypeOK /\ Past
  BY DEF PastInv
<1> DEFINE still == /\ disturbed => disturbed'
                    /\ handle' => phase' # "off"
                    /\ Active \/ phase' = "off" \/ disturbed' \/ NewRun
<1>1. CASE UserLaunches
  <2>1. /\ Launched(0) \/ LaunchFails(0)
        /\ late' = Retired /\ turns' = turns /\ disturbed' = disturbed
    BY <1>1 DEF UserLaunches
  <2>2. still /\ EventsGrow /\ (NewRun \/ NoRun)
    BY <1>0, <2>1, LaunchPast
  <2>3. TurnsGrow /\ LateGrows
    BY <1>0, <2>1, TurnsGrowBy, LateGrowsBy
  <2>4. QED
    BY <2>2, <2>3, PastStill
<1>2. CASE UserConfirms
  <2>1. turns' = Append(turns, Turn("prompt")) /\ phase = "ready" /\ phase' = "waiting"
    BY <1>2 DEF UserConfirms, Submits, Dispatches
  <2>2. TurnsGrow
    BY <1>0, <2>1, OwnTurnNew, TurnsGrowBy
  <2>3. UNCHANGED <<launch, handle, late, events, disturbed>>
    BY <1>2 DEF UserConfirms, Submits, control, thread
  <2>4. EventsGrow /\ LateGrows /\ SameRun /\ still
    BY <1>0, <2>1, <2>3, EventsGrowBy, LateGrowsBy DEF SameRun, Kept, Active
  <2>5. QED
    BY <2>2, <2>4, PastStill
<1>3. CASE UserEdits
  <2>1. /\ phase = "ready" /\ phase' = "paused"
        /\ UNCHANGED <<launch, handle, late, events, turns, disturbed>>
    BY <1>3 DEF UserEdits, thread
  <2>2. TurnsGrow /\ EventsGrow /\ LateGrows /\ SameRun /\ still
    BY <1>0, <2>1, TurnsGrowBy, EventsGrowBy, LateGrowsBy DEF SameRun, Kept, Active
  <2>3. QED
    BY <2>2, PastStill
<1>4. CASE UserStops
  <2>1. Stops /\ phase' = "off" /\ UNCHANGED <<events, disturbed>>
    BY <1>4 DEF UserStops, Stops
  <2>2. turns' = turns \/ (turns # <<>> /\ turns' = Tail(turns))
    BY <1>4 DEF UserStops
  <2>3. TurnsGrow /\ EventsGrow /\ LateGrows /\ NoRun /\ still
    BY <1>0, <2>1, <2>2, TurnsGrowBy, EventsGrowBy, StopsPast DEF NoRun
  <2>4. QED
    BY <2>3, PastStill
<1>5. CASE UserSpeaks
  <2> DEFINE t == [launch |-> 0, kind |-> "prompt"]
  <2>1. UNCHANGED <<launch, handle, late, events, disturbed>>
    BY <1>5 DEF UserSpeaks, control
  <2>2. turns' = turns \/ turns' = Append(turns, t)
    BY <1>5 DEF UserSpeaks
  <2>3. t \in TurnSet /\ t.launch = 0
    BY DEF TurnSet
  <2> HIDE DEF t
  <2>4. TurnsGrow
    BY <1>0, <2>2, <2>3, TurnsGrowBy DEF NewTurn
  <2>5. phase' = "waiting" \/ phase' = phase
    BY <1>5 DEF UserSpeaks
  <2>6. phase = "off" => phase' = "off"
    BY <1>5 DEF UserSpeaks, Active
  <2>7. EventsGrow /\ LateGrows /\ SameRun /\ still
    BY <1>0, <2>1, <2>5, <2>6, EventsGrowBy, LateGrowsBy DEF SameRun, Kept, Active, Past
  <2>8. QED
    BY <2>4, <2>7, PastStill
<1>6. ASSUME NEW m \in Modes, UserChoosesMode(m) PROVE Past'
  <2>1. UNCHANGED <<phase, launch, handle, late, events, turns, disturbed>>
    BY <1>6 DEF UserChoosesMode, thread
  <2>2. QED
    BY <1>0, <2>1 DEF Past, Active
<1>7. QED
  BY <1>1, <1>2, <1>3, <1>4, <1>5, <1>6 DEF UserNext

LEMMA ClockPast ==
    ASSUME PastInv, ClockNext
    PROVE  Past'
<1>0. TypeOK /\ Past
  BY DEF PastInv
<1>1. ASSUME NEW t \in timers, TickFires(t) PROVE Past'
  <2>1. CASE TickCounts(t)
    <3>1. turns' = Append(turns, Turn("prompt")) /\ phase = "ready" /\ phase' = "waiting"
      BY <1>1, <2>1 DEF TickFires, TickCounts, Submits, Dispatches
    <3>2. TurnsGrow
      BY <1>0, <3>1, OwnTurnNew, TurnsGrowBy
    <3>3. UNCHANGED <<launch, handle, late, events>> /\ (disturbed => disturbed')
      BY <1>1, <2>1 DEF TickFires, Submits, control, thread
    <3>4. EventsGrow /\ LateGrows /\ SameRun
      BY <1>0, <3>3, EventsGrowBy, LateGrowsBy DEF SameRun, Kept
    <3>5. QED
      BY <3>1, <3>2, <3>3, <3>4, PastStill DEF Active
  <2>2. CASE ~TickCounts(t)
    <3>1. UNCHANGED <<phase, launch, handle, late, events, turns, disturbed>>
      BY <1>1, <2>2 DEF TickFires, control, thread
    <3>2. QED
      BY <1>0, <3>1 DEF Past, Active
  <2>3. QED
    BY <2>1, <2>2
<1>2. ASSUME NEW r \in restarts, RestartFires(r) PROVE Past'
  <2>1. CASE phase = "recovery" /\ IsPending(r)
    <3>1. /\ Launched(attempts) \/ LaunchFails(attempts)
          /\ disturbed => disturbed'
          /\ UNCHANGED <<late, turns>>
      BY <1>2, <2>1 DEF RestartFires
    <3>2. TurnsGrow /\ LateGrows
      BY <1>0, <3>1, TurnsGrowBy, LateGrowsBy DEF Kept
    <3>3. QED
      BY <1>0, <3>1, <3>2, LaunchPast, PastStill
  <2>2. CASE ~(phase = "recovery" /\ IsPending(r))
    <3>1. UNCHANGED <<phase, launch, handle, late, events, turns, disturbed>>
      BY <1>2, <2>2 DEF RestartFires
    <3>2. QED
      BY <1>0, <3>1 DEF Past, Active
  <2>3. QED
    BY <2>1, <2>2
<1>3. QED
  BY <1>1, <1>2 DEF ClockNext

LEMMA CoordinatorPast ==
    ASSUME PastInv, CoordinatorNext
    PROVE  Past'
<1>0. TypeOK /\ Past
  BY DEF PastInv
<1>1. UNCHANGED <<phase, launch, handle, turns, disturbed>>
  BY CoordinatorIsApart DEF control
<1>2. TurnsGrow /\ (handle => Active)
  BY <1>0, <1>1, TurnsGrowBy DEF Past
<1>3. ASSUME CoordinatorThinks \/ CoordinatorReceives PROVE late' = late /\ EventsGrow
  BY <1>0, <1>3, EventsGrowBy DEF CoordinatorThinks, CoordinatorReceives
<1>4. ASSUME NEW k, (k \in Kinds /\ CoordinatorDecides(k)) \/ (k \in Replies /\ CoordinatorReplies(k))
      PROVE  late' = late /\ EventsGrow
  <2>1. PICK s \in Nat : events' = Append(events, Event(launch, s, k))
    <3>1. coord.seq \in Nat /\ coord.seq + 1 \in Nat
      BY <1>0, PastTyped DEF Coords
    <3>2. QED
      BY <1>4, <3>1 DEF CoordinatorDecides, CoordinatorReplies
  <2> DEFINE e == Event(launch, s, k)
  <2>2. e \in EventSet /\ e.launch = launch
    BY <1>0, <1>4, PastTyped DEF Event, EventSet
  <2> HIDE DEF e
  <2>3. NewEvent(e) /\ events' = Append(events, e)
    BY <1>1, <2>1, <2>2 DEF NewEvent, e
  <2>4. EventsGrow
    BY <1>0, <2>2, <2>3, EventsGrowBy
  <2>5. QED
    BY <1>4, <2>4 DEF CoordinatorDecides, CoordinatorReplies
<1>5. ASSUME NEW th \in late, LateThreadGoesOn(th) PROVE Kept /\ EventsGrow
  <2>0. Kept
    BY <1>0, <1>5, TypeParts, LateGoesOn DEF ThreadOK, Kept
  <2>1. th.launch \in Nat /\ th.seq \in Nat /\ th.seq + 1 \in Nat
    <3>1. th \in LateThreads
      BY <1>0, TypeParts DEF ThreadOK
    <3>2. QED
      BY <3>1 DEF LateThreads
  <2>2. \/ events' = events
        \/ \E s \in Nat, k \in Kinds \union Replies :
             events' = Append(events, Event(th.launch, s, k))
    BY <1>5, <2>1 DEF LateThreadGoesOn
  <2>3. ASSUME NEW s \in Nat, NEW k \in Kinds \union Replies,
               events' = Append(events, Event(th.launch, s, k))
        PROVE  EventsGrow
    <3> DEFINE e == Event(th.launch, s, k)
    <3>1. e \in EventSet /\ e.launch = th.launch
      BY <2>1 DEF Event, EventSet
    <3> HIDE DEF e
    <3>2. NewEvent(e) /\ events' = Append(events, e)
      BY <2>3, <3>1 DEF NewEvent, e
    <3>3. QED
      BY <1>0, <3>1, <3>2, EventsGrowBy
  <2>4. QED
    BY <1>0, <2>0, <2>2, <2>3, EventsGrowBy
<1>6. Kept /\ EventsGrow
  BY <1>3, <1>4, <1>5 DEF CoordinatorNext, Kept
<1>7. LateGrows /\ SameRun
  BY <1>1, <1>6, LateGrowsBy DEF SameRun, Kept
<1>8. QED
  BY <1>1, <1>2, <1>6, <1>7, PastStill DEF Active

LEMMA DecisionPast ==
    ASSUME PastInv, DecisionArrives
    PROVE  Past'
<1>0. TypeOK /\ Past
  BY DEF PastInv
<1>1. EventsGrow
  BY <1>0, EventsGrowBy DEF DecisionArrives
<1>2. CASE ~Active
  <2>1. UNCHANGED <<phase, launch, handle, late, turns, disturbed>>
    BY <1>2 DEF DecisionArrives, control
  <2>2. TurnsGrow /\ LateGrows /\ SameRun
    BY <1>0, <2>1, TurnsGrowBy, LateGrowsBy DEF SameRun, Kept
  <2>3. QED
    BY <1>0, <1>1, <1>2, <2>1, <2>2, PastStill DEF Past, Active
<1>3. CASE Active
  <2> DEFINE e == Head(events)
  <2>1. Decided(e) /\ (disturbed => disturbed')
    BY <1>3 DEF DecisionArrives
  <2> HIDE DEF e
  <2>2. \/ turns' = turns
        \/ \E k \in {"prompt", "check"} : turns' = Append(turns, Turn(k))
    BY <2>1 DEF Decided, Dispatches
  <2>3. TurnsGrow
    BY <1>0, <2>2, OwnTurnNew, TurnsGrowBy
  <2>4. CASE UNCHANGED <<launch, handle, late>> /\ phase' # "off"
    <3>1. LateGrows /\ SameRun
      BY <2>4, LateGrowsBy DEF SameRun, Kept
    <3>2. QED
      BY <1>1, <1>3, <2>1, <2>3, <2>4, <3>1, PastStill
  <2>5. CASE Stops \/ \E n : Pauses(n)
    BY <1>1, <1>3, <2>1, <2>3, <2>5, StopsPast, PastStill DEF NoRun
  <2>6. QED
    BY <2>1, <2>4, <2>5 DEF Decided, Dispatches
<1>4. QED
  BY <1>2, <1>3

LEMMA ReplyPast ==
    ASSUME PastInv, ReplyArrives
    PROVE  Past'
<1>0. TypeOK /\ Past
  BY DEF PastInv
<1> DEFINE e == Head(events)
           t == [launch |-> e.launch, kind |-> "prompt"]
<1>1. events \in Seq(EventSet) /\ events # <<>> /\ events' = Tail(events)
  BY <1>0, PastTyped DEF ReplyArrives
<1>2. e \in EventSet /\ In(e, events)
  BY <1>1, InTail, TailAt
<1>3. turns' = turns \/ turns' = Append(turns, t)
  BY DEF ReplyArrives
<1>4. disturbed' /\ UNCHANGED <<launch, handle, late>>
  BY DEF ReplyArrives, control
<1>5. phase' # "off" \/ phase' = phase
  BY DEF ReplyArrives
<1> HIDE DEF e
<1>6. t \in TurnSet /\ t.launch = e.launch /\ t.kind # "review"
  <2>1. e.launch \in Nat
    BY <1>2 DEF EventSet
  <2>2. QED
    BY <2>1 DEF TurnSet
<1> HIDE DEF t
<1>7. TurnsGrow
  BY <1>0, <1>2, <1>3, <1>6, TurnsGrowBy DEF NewTurn
<1>8. EventsGrow /\ LateGrows /\ SameRun
  BY <1>0, <1>1, <1>4, EventsGrowBy, LateGrowsBy DEF SameRun, Kept
<1>9. QED
  BY <1>0, <1>4, <1>5, <1>7, <1>8, PastStill DEF Past, Active

\* What every answer leaves of the run.
LEMMA AnswerPast ==
    ASSUME Past, NEW t, Answered(t)
    PROVE  /\ LateGrows /\ (SameRun \/ NoRun)
           /\ handle' => phase' # "off"
           /\ ~Active => phase' = "off" \/ (checking /\ t.kind = "check")
<1>1. CASE Stops
  BY <1>1, StopsPast DEF Stops, Cancels
<1>2. CASE SendsConversation /\ phase = "waiting"
  <2>1. Active
    BY <1>2 DEF Active
  <2>2. QED
    BY <1>2, <2>1, ConversationPast
<1>3. CASE UNCHANGED <<launch, handle, late>> /\ (phase' = phase \/ phase' \in {"review", "active", "waiting"})
  <2>1. LateGrows /\ SameRun
    BY <1>3, LateGrowsBy DEF SameRun, Kept
  <2>2. (handle' => phase' # "off")
    BY <1>3 DEF Past, Active
  <2>3. QED
    BY <1>3, <2>1, <2>2 DEF Active, Answered, Continues, Stops
<1>4. QED
  BY <1>1, <1>2, <1>3 DEF Answered, Continues, control

LEMMA SessionPast ==
    ASSUME PastInv, SessionNext
    PROVE  Past'
<1>0. TypeOK /\ Past
  BY DEF PastInv
<1>1. ASSUME NEW over \in BOOLEAN, TurnAnswers(over) PROVE Past'
  <2> DEFINE t == Head(turns)
  <2>1. /\ Answered(t) /\ UNCHANGED events
        /\ disturbed' = (disturbed \/ Misplaced(t) \/ ~over \/ Reviewing)
        /\ turns # <<>> /\ turns' \in {turns, Tail(turns)}
    BY <1>1 DEF TurnAnswers
  <2> HIDE DEF t
  <2>2. ~Active => phase' = "off" \/ disturbed'
    BY <1>0, <2>1, AnswerPast DEF Misplaced, Active
  <2>3. EventsGrow /\ TurnsGrow
    BY <1>0, <2>1, EventsGrowBy, TurnsGrowBy
  <2>4. QED
    BY <1>0, <2>1, <2>2, <2>3, AnswerPast, PastStill
<1>2. CASE TurnFails
  <2>1. /\ turns # <<>> /\ turns' = Tail(turns) /\ UNCHANGED <<events, disturbed>>
        /\ IF Active THEN Pauses(attempts) ELSE UNCHANGED <<phase, launch, handle, late>>
    BY <1>2 DEF TurnFails, control
  <2>2. EventsGrow /\ TurnsGrow
    BY <1>0, <2>1, EventsGrowBy, TurnsGrowBy
  <2>3. CASE Active
    BY <2>1, <2>2, <2>3, StopsPast, PastStill DEF NoRun
  <2>4. CASE ~Active
    <3>1. LateGrows /\ SameRun
      BY <2>1, <2>4, LateGrowsBy DEF SameRun, Kept
    <3>2. QED
      BY <1>0, <2>1, <2>2, <2>4, <3>1, PastStill DEF Past, Active
  <2>5. QED
    BY <2>3, <2>4
<1>3. CASE ReviewBegins
  <2> DEFINE t == [launch |-> 0, kind |-> "review"]
  <2>1. /\ UNCHANGED <<launch, handle, late, events>> /\ (disturbed => disturbed')
        /\ ~Active => phase' = phase
        /\ phase' \in {"review", "active", phase}
        /\ Active => disturbed'
    BY <1>3 DEF ReviewBegins, control, thread
  <2>2. EventsGrow /\ LateGrows /\ SameRun
    BY <1>0, <2>1, EventsGrowBy, LateGrowsBy DEF SameRun, Kept
  <2>3. t \in TurnSet /\ t.launch = 0
    BY DEF TurnSet
  <2>4. TurnsGrow
    <3>1. turns \in Seq(TurnSet) /\ turns' = <<t>> \o (IF turns = <<>> THEN <<>> ELSE Tail(turns))
      BY <1>0, <1>3, PastTyped DEF ReviewBegins
    <3> HIDE DEF t
    <3>2. CASE turns = <<>>
      <4>1. turns' = Append(turns, t)
        BY <3>1, <3>2
      <4>2. QED
        BY <1>0, <2>3, <4>1, TurnsGrowBy DEF NewTurn
    <3>3. CASE turns # <<>>
      <4>1. Tail(turns) \in Seq(TurnSet) /\ turns' = <<t>> \o Tail(turns)
        BY <3>1, <3>3, TailAt
      <4>2. turns' \in Seq(TurnSet) /\ turns' # <<>> /\ Head(turns') = t /\ Tail(turns') = Tail(turns)
        BY <2>3, <4>1
      <4>3. \A x : In(x, turns') => x = t \/ In(x, Tail(turns))
        BY <4>2, InTail
      <4>4. \A x : In(x, Tail(turns)) => In(x, turns)
        BY <3>1, <3>3, InTail
      <4>5. QED
        BY <2>3, <4>3, <4>4 DEF TurnsGrow, NewTurn
    <3>4. QED
      BY <3>2, <3>3
  <2>5. QED
    BY <1>0, <2>1, <2>2, <2>4, PastStill DEF Past, Active
<1>4. CASE ReviewEnds
  <2>1. turns # <<>> /\ turns' = Tail(turns) /\ UNCHANGED <<events, disturbed>>
    BY <1>4 DEF ReviewEnds, Reviewing
  <2>2. EventsGrow /\ TurnsGrow
    BY <1>0, <2>1, EventsGrowBy, TurnsGrowBy
  <2>3. CASE phase = "review"
    <3>1. SendsConversation /\ Active
      BY <1>4, <2>3 DEF ReviewEnds, Active
    <3>2. QED
      BY <1>0, <2>1, <2>2, <3>1, ConversationPast, PastStill
  <2>4. CASE phase # "review"
    <3>1. UNCHANGED <<phase, launch, handle, late>>
      BY <1>4, <2>4 DEF ReviewEnds, control
    <3>2. LateGrows /\ SameRun
      BY <3>1, LateGrowsBy DEF SameRun, Kept
    <3>3. QED
      BY <1>0, <2>1, <2>2, <3>1, <3>2, PastStill DEF Past, Active
  <2>5. QED
    BY <2>3, <2>4
<1>5. QED
  BY <1>1, <1>2, <1>3, <1>4 DEF SessionNext

LEMMA StepPast ==
    ASSUME PastInv, [Next]_vars
    PROVE  PastInv'
<1>1. TypeOK'
  BY StepType DEF PastInv
<1>2. ASSUME UNCHANGED vars PROVE Past'
  BY <1>2 DEF PastInv, Past, Active, vars, control, thread
<1>3. Past'
  BY <1>2, UserPast, ClockPast, CoordinatorPast, DecisionPast, ReplyPast, SessionPast DEF Next
<1>4. QED
  BY <1>1, <1>3 DEF PastInv

LEMMA InitPast ==
    ASSUME Init
    PROVE  PastInv
BY TypeInit, InEmpty DEF Init, PastInv, Past, Active

-----------------------------------------------------------------------------
(* An undisturbed run, step by step *)

\* The TUI has sent the run on its way: it does not lose track of it.
Plain == ~disturbed => phase \notin {"active", "review"}

Stray == [launch |-> 0, kind |-> "prompt"]
Popped == turns # <<>> /\ turns' = Tail(turns)
Apart == UNCHANGED <<coord, cmds, events>>

\* A new run, whatever was before.
RunLaunches ==
    /\ launch' = launch + 1 /\ handle' /\ phase' = "waiting"
    /\ coord' = Seeded /\ cmds' = <<>>
    /\ events' = Append(events, Event(launch + 1, 0, "plan"))
    /\ turns' = turns

\* The run fails, or has failed and waits.
RunRecovers ==
    /\ phase' = "recovery" /\ ~handle' /\ launch' = launch /\ Active
    /\ turns' = turns \/ Popped \/ turns' = Append(turns, Stray)

\* Otherwise it has, and keeps, its coordinator.
Steady == launch' = launch /\ handle /\ handle' /\ Active

\* A decision of this run arrives and becomes a turn or a prompt to confirm.
RunDecides ==
    /\ events # <<>> /\ events' = Tail(events)
    /\ LET e == Head(events)
       IN  /\ e.launch = launch /\ e.kind \in {"plan", "continue", "success"}
           /\ cmds' = Acked(e)
    /\ coord' = coord
    /\ \/ phase' = "ready" /\ turns' = turns
       \/ \E k \in {"prompt", "check"} : Dispatches(k)

RunSubmits == phase = "ready" /\ Dispatches("prompt") /\ Apart

RunEdits == phase = "ready" /\ phase' = "paused" /\ turns' = turns /\ Apart

\* A message of the user: for the coordinator, or past it.
RunHears ==
    /\ phase # "ready" /\ CanSend /\ phase' = "waiting"
    /\ cmds' = Append(cmds, Command("user", 0))
    /\ UNCHANGED <<coord, events, turns>>

RunStrays ==
    /\ phase # "ready" /\ ~CanSend /\ phase' \in {phase, "waiting"}
    /\ turns' = Append(turns, Stray)
    /\ Apart

\* The answer to its turn goes to the coordinator; other turns end unheard.
RunGoesOn ==
    /\ phase = "waiting" /\ CanSend /\ phase' = "waiting"
    /\ Popped /\ Head(turns).launch = launch
    /\ cmds' = Append(cmds, Command("update", 0))
    /\ UNCHANGED <<coord, events>>

RunForgets ==
    /\ phase # "waiting" \/ Head(turns).launch # launch
    /\ phase' = phase /\ Popped /\ Apart

\* The coordinator and the cancelled threads work.
RunThinks ==
    /\ \/ CoordinatorThinks \/ CoordinatorReceives
       \/ \E k \in Kinds \ {"plan"} : CoordinatorDecides(k)
       \/ \E k \in Replies : CoordinatorReplies(k)
       \/ \E th \in late : LateThreadGoesOn(th)
    /\ UNCHANGED <<phase, turns>>

RunIdles == UNCHANGED <<phase, turns>> /\ Apart

RunStep ==
    \/ RunLaunches \/ RunRecovers
    \/ /\ Steady
       /\ \/ RunDecides \/ RunSubmits \/ RunEdits \/ RunHears \/ RunStrays
          \/ RunGoesOn \/ RunForgets \/ RunThinks \/ RunIdles

PlainInv == PastInv /\ Driven /\ Plain

\* Nothing happens to the run.
LEMMA RunStays ==
    ASSUME PlainInv, UNCHANGED <<phase, launch, handle, coord, cmds, events, turns, disturbed>>,
           Active', ~disturbed'
    PROVE  RunStep
<1>1. Active /\ (handle \/ phase = "recovery")
  BY DEF PlainInv, Driven, Active
<1>2. handle \in BOOLEAN
  BY PastTyped DEF PlainInv, PastInv
<1>3. QED
  BY <1>1, <1>2 DEF RunStep, RunRecovers, Steady, RunIdles, Apart

LEMMA LaunchStep ==
    ASSUME NEW n, Launched(n) \/ LaunchFails(n), turns' = turns, Active'
    PROVE  RunLaunches
BY DEF Launched, LaunchFails, RunLaunches, Active

LEMMA UserStep ==
    ASSUME PlainInv, UserNext, Active', ~disturbed'
    PROVE  RunStep
<1>0. ~disturbed
  BY DEF UserNext, UserLaunches, UserConfirms, UserEdits, UserStops, UserSpeaks, UserChoosesMode
<1>1. /\ Active => handle \/ phase = "recovery"
      /\ phase # "recovery" /\ Active => handle
  BY <1>0 DEF PlainInv, Driven
<1>2. CASE UserLaunches
  BY <1>2, LaunchStep DEF UserLaunches, RunStep
<1>3. CASE UserConfirms
  BY <1>1, <1>3 DEF UserConfirms, Submits, RunStep, Steady, RunSubmits, Apart, Active, control,
                    thread
<1>4. CASE UserEdits
  BY <1>1, <1>4 DEF UserEdits, RunStep, Steady, RunEdits, Apart, Active, thread
<1>5. CASE UserStops
  BY <1>5 DEF UserStops, Stops, Active
<1>6. CASE UserSpeaks
  <2>1. UNCHANGED <<launch, handle, coord, events>> /\ phase # "ready"
    BY <1>6 DEF UserSpeaks, control
  <2>2. CASE Active /\ CanSend
    BY <1>6, <2>1, <2>2 DEF UserSpeaks, CanSend, RunStep, Steady, RunHears
  <2>3. CASE ~(Active /\ CanSend)
    <3>1. /\ phase' = IF phase = "paused" THEN "waiting" ELSE phase
          /\ turns' = Append(turns, Stray) /\ UNCHANGED cmds
      BY <1>6, <2>3 DEF UserSpeaks, Stray
    <3>2. Active /\ ~CanSend
      BY <2>3, <3>1 DEF Active
    <3>3. CASE handle
      BY <2>1, <3>1, <3>2, <3>3 DEF RunStep, Steady, RunStrays, Apart
    <3>4. CASE ~handle
      BY <1>1, <2>1, <3>1, <3>2, <3>4 DEF RunStep, RunRecovers
    <3>5. QED
      BY <3>3, <3>4
  <2>4. QED
    BY <2>2, <2>3
<1>7. ASSUME NEW m \in Modes, UserChoosesMode(m) PROVE RunStep
  BY <1>7, RunStays DEF UserChoosesMode, thread
<1>8. QED
  BY <1>2, <1>3, <1>4, <1>5, <1>6, <1>7 DEF UserNext

LEMMA ClockStep ==
    ASSUME PlainInv, ClockNext, Active', ~disturbed'
    PROVE  RunStep
<1>1. ASSUME NEW t \in timers, TickFires(t) PROVE RunStep
  <2>1. CASE TickCounts(t)
    <3>1. phase = "ready" /\ Submits /\ ~disturbed
      BY <1>1, <2>1 DEF TickFires, TickCounts
    <3>2. handle /\ Active
      BY <3>1 DEF PlainInv, Driven, Active
    <3>3. QED
      BY <3>1, <3>2 DEF Submits, RunStep, Steady, RunSubmits, Apart, control, thread
  <2>2. CASE ~TickCounts(t)
    BY <1>1, <2>2, RunStays DEF TickFires, control, thread
  <2>3. QED
    BY <2>1, <2>2
<1>2. ASSUME NEW r \in restarts, RestartFires(r) PROVE RunStep
  <2>1. CASE phase = "recovery" /\ IsPending(r)
    BY <1>2, <2>1, LaunchStep DEF RestartFires, RunStep
  <2>2. CASE ~(phase = "recovery" /\ IsPending(r))
    BY <1>2, <2>2, RunStays DEF RestartFires
  <2>3. QED
    BY <2>1, <2>2
<1>3. QED
  BY <1>1, <1>2 DEF ClockNext

LEMMA CoordinatorStep ==
    ASSUME PlainInv, CoordinatorNext, Active', ~disturbed'
    PROVE  RunStep
<1>1. UNCHANGED <<phase, launch, handle, turns, disturbed>>
  BY CoordinatorIsApart DEF control
<1>2. Active /\ (handle \/ phase = "recovery")
  BY <1>1 DEF PlainInv, Driven, Active
<1>3. CASE handle
  <2>1. RunThinks
    BY <1>1 DEF CoordinatorNext, RunThinks
  <2>2. QED
    BY <1>1, <1>2, <1>3, <2>1 DEF RunStep, Steady
<1>4. CASE ~handle
  BY <1>1, <1>2, <1>4 DEF RunStep, RunRecovers
<1>5. QED
  BY <1>3, <1>4

LEMMA DecisionStep ==
    ASSUME PlainInv, DecisionArrives, Active', ~disturbed'
    PROVE  RunStep
<1> DEFINE e == Head(events)
<1>1. Active
  BY DEF DecisionArrives, Active
<1>2. /\ events # <<>> /\ events' = Tail(events)
      /\ Decided(e) /\ Ours(e)
  BY <1>1 DEF DecisionArrives
<1>3. handle /\ e.launch = launch
  BY <1>2 DEF Ours
<1>4. CASE Pauses(attempts) /\ turns' = turns
  BY <1>1, <1>4 DEF RunStep, RunRecovers, Pauses, Cancels
<1>5. CASE Stops
  BY <1>5 DEF Stops, Active
<1>6. CASE e.kind \in {"plan", "continue", "success"}
  <2>1. cmds' = Acked(e) /\ UNCHANGED <<launch, handle, coord>>
    BY <1>2, <1>6 DEF Decided
  <2>2. \/ phase' = "ready" /\ turns' = turns
        \/ \E k \in {"prompt", "check"} : Dispatches(k)
    BY <1>2, <1>6 DEF Decided
  <2>3. RunDecides
    BY <1>2, <1>3, <1>6, <2>1, <2>2 DEF RunDecides
  <2>4. QED
    BY <1>1, <1>3, <2>1, <2>3 DEF RunStep, Steady
<1>7. QED
  BY <1>2, <1>4, <1>5, <1>6 DEF Decided

LEMMA AnswerStep ==
    ASSUME PlainInv, NEW over \in BOOLEAN, TurnAnswers(over), Active', ~disturbed'
    PROVE  RunStep
<1> DEFINE t == Head(turns)
<1>1. /\ turns # <<>> /\ turns' = Tail(turns) /\ UNCHANGED events
      /\ Answered(t) /\ ~Misplaced(t) /\ ~Reviewing /\ ~disturbed
  BY DEF TurnAnswers
<1>2. ~Stops
  BY DEF Stops, Active
<1>3. CASE phase = "waiting"
  <2>1. t.launch = launch /\ handle /\ Active
    BY <1>1, <1>3 DEF Misplaced, PlainInv, Driven, Active
  <2>2. /\ CanSend /\ phase' = "waiting" /\ cmds' = Append(cmds, Command("update", 0))
        /\ UNCHANGED <<launch, handle, coord>>
    BY <1>1, <1>2, <1>3, <2>1 DEF Answered, Continues, SendsConversation
  <2>3. RunGoesOn
    BY <1>1, <1>3, <2>1, <2>2 DEF RunGoesOn, Popped
  <2>4. QED
    BY <2>1, <2>2, <2>3 DEF RunStep, Steady
<1>4. CASE phase # "waiting"
  <2>1. ~checking
    BY <1>1, <1>4 DEF Misplaced
  <2>2. UNCHANGED <<phase, launch, handle, coord, cmds>>
    BY <1>1, <1>4, <2>1 DEF Answered, control
  <2>3. Active /\ (handle \/ phase = "recovery")
    BY <1>1, <2>2 DEF PlainInv, Driven, Active
  <2>4. CASE handle
    BY <1>1, <1>4, <2>2, <2>3, <2>4 DEF RunStep, Steady, RunForgets, Popped, Apart
  <2>5. CASE ~handle
    BY <1>1, <2>2, <2>3, <2>5 DEF RunStep, RunRecovers, Popped
  <2>6. QED
    BY <2>4, <2>5
<1>5. QED
  BY <1>3, <1>4

LEMMA SessionStep ==
    ASSUME PlainInv, SessionNext, Active', ~disturbed'
    PROVE  RunStep
<1>1. CASE TurnFails
  <2>1. Active /\ Popped /\ Pauses(attempts)
    BY <1>1 DEF TurnFails, Popped, Active
  <2>2. QED
    BY <2>1 DEF Pauses, Cancels, RunStep, RunRecovers
<1>2. CASE ReviewBegins
  BY <1>2 DEF ReviewBegins, Active
<1>3. CASE ReviewEnds
  <2>1. /\ Reviewing /\ Popped /\ ~disturbed
        /\ phase = "review" => FALSE
    BY <1>3 DEF ReviewEnds, Reviewing, Popped, PlainInv, Plain
  <2>2. UNCHANGED <<phase, launch, handle, coord, cmds, events>>
    BY <1>3, <2>1 DEF ReviewEnds, control
  <2>3. Active /\ (handle \/ phase = "recovery")
    BY <2>1, <2>2 DEF PlainInv, Driven, Active
  <2>4. Head(turns).launch # launch
    <3>1. turns \in Seq(TurnSet) /\ turns # <<>> /\ launch \in Nat
      BY <2>1, PastTyped DEF PlainInv, PastInv, Popped
    <3>2. Head(turns) \in TurnSet /\ In(Head(turns), turns)
      BY <3>1, InTail, TailAt
    <3>3. Head(turns).launch = 0
      BY <2>1, <3>2 DEF Reviewing, PlainInv, PastInv, Past
    <3>4. launch > 0
      BY <2>1, <2>3 DEF PlainInv, PastInv, Past
    <3>5. QED
      BY <3>1, <3>3, <3>4
  <2>5. CASE handle
    BY <2>1, <2>2, <2>3, <2>4, <2>5 DEF RunStep, Steady, RunForgets, Apart
  <2>6. CASE ~handle
    BY <2>1, <2>2, <2>3, <2>6 DEF RunStep, RunRecovers
  <2>7. QED
    BY <2>5, <2>6
<1>4. QED
  BY <1>1, <1>2, <1>3, AnswerStep DEF SessionNext

LEMMA EveryStep ==
    ASSUME PlainInv, [Next]_vars, Active', ~disturbed'
    PROVE  RunStep
<1>1. ~ReplyArrives
  BY DEF ReplyArrives
<1>2. ASSUME UNCHANGED vars PROVE RunStep
  BY <1>2, RunStays DEF vars, control, thread
<1>3. QED
  BY <1>1, <1>2, UserStep, ClockStep, CoordinatorStep, DecisionStep, SessionStep DEF Next

\* What the handlers have no defence against is not forgotten.
LEMMA DisturbedForGood ==
    ASSUME [Next]_vars, ~disturbed'
    PROVE  ~disturbed
<1>1. ASSUME UserNext PROVE ~disturbed
  BY <1>1 DEF UserNext, UserLaunches, UserConfirms, UserEdits, UserStops, UserSpeaks,
              UserChoosesMode
<1>2. ASSUME ClockNext PROVE ~disturbed
  BY <1>2 DEF ClockNext, TickFires, RestartFires
<1>3. ASSUME SessionNext PROVE ~disturbed
  BY <1>3 DEF SessionNext, TurnAnswers, TurnFails, ReviewBegins, ReviewEnds
<1>4. ASSUME DecisionArrives PROVE ~disturbed
  BY <1>4 DEF DecisionArrives
<1>5. ~ReplyArrives
  BY DEF ReplyArrives
<1>6. ASSUME UNCHANGED vars PROVE ~disturbed
  BY <1>6 DEF vars
<1>7. QED
  BY <1>1, <1>2, <1>3, <1>4, <1>5, <1>6, CoordinatorIsApart DEF Next

LEMMA StepPlain ==
    ASSUME PlainInv, [Next]_vars
    PROVE  PlainInv'
<1>1. PastInv' /\ Driven'
  BY StepPast, StepDriven DEF PlainInv
<1>2. ASSUME ~disturbed', Active' PROVE phase' \notin {"active", "review"}
  <2>1. RunStep
    BY <1>2, EveryStep
  <2>2. ~disturbed
    BY <1>2, DisturbedForGood
  <2>3. QED
    BY <2>1, <2>2 DEF RunStep, RunLaunches, RunRecovers, RunDecides, RunSubmits, RunEdits, RunHears,
       RunStrays, RunGoesOn, RunForgets, RunThinks, RunIdles, Dispatches, PlainInv, Plain
<1>3. Plain'
  BY <1>2 DEF Plain, Active
<1>4. QED
  BY <1>1, <1>3 DEF PlainInv

LEMMA InitPlain ==
    ASSUME Init
    PROVE  PlainInv
BY InitPast DEF Init, PlainInv, Plain, Driven, Active

-----------------------------------------------------------------------------
(* Somebody goes on with the run *)

HasAck(s) == \E c \in CommandSet : In(c, cmds) /\ c.do = "ack" /\ c.seq = s
HasCommand(d) == \E c \in CommandSet : In(c, cmds) /\ c.do = d

OwnDue == \E e \in EventSet : In(e, events) /\ e.launch = launch
DecisionDue ==
    \E e \in EventSet : In(e, events) /\ e.launch = launch /\ e.kind \in Kinds /\ e.seq = coord.seq
FailureDue ==
    \E e \in EventSet : In(e, events) /\ e.launch = launch /\ e.kind \in {"transient", "fatal"}

OwnTurn == \E t \in TurnSet : In(t, turns) /\ t.launch = launch

\* CoordinatorBusy in these words.
Busy ==
    /\ handle
    /\ \/ coord.at \in {"deciding", "replying"}
       \/ coord.at = "idle" /\ HasCommand("user")
       \/ /\ coord.at = "idle"
          /\ ~coord.unacked \/ HasAck(coord.seq)
          /\ coord.convs > 0 \/ HasCommand("update")

LEMMA BusyMeans ==
    ASSUME TypeOK
    PROVE  /\ Busy => CoordinatorBusy
           /\ OwnDue => EventDue
           /\ OwnTurn => turns # <<>>
<1>1. /\ events \in Seq(EventSet) /\ turns \in Seq(TurnSet) /\ cmds \in Seq(CommandSet)
  BY PastTyped
<1>2. OwnDue => EventDue
  BY DEF OwnDue, EventDue, In
<1>3. OwnTurn => turns # <<>>
  BY InEmpty DEF OwnTurn
<1>4. /\ \A d : HasCommand(d) => \E i \in 1 .. Len(cmds) : cmds[i].do = d
      /\ \A s : HasAck(s) => \E i \in 1 .. Len(cmds) : cmds[i].do = "ack" /\ cmds[i].seq = s
  BY DEF HasCommand, HasAck, In
<1>5. Busy => CoordinatorBusy
  BY <1>4 DEF Busy, CoordinatorBusy
<1>6. QED
  BY <1>2, <1>3, <1>5

\* A coordinator that is gone has said so; one that waits for its ack will get it,
\* or its decision is still to come; and a run that waits waits for its turn, for
\* a coordinator that works or for an event.
Going ==
    Active /\ ~disturbed /\ handle =>
        /\ coord.at = "gone" => FailureDue
        /\ coord.at # "gone" /\ coord.unacked => HasAck(coord.seq) \/ DecisionDue
        /\ phase = "waiting" => OwnTurn \/ Busy \/ OwnDue

GoingInv == PlainInv /\ Going

\* What a step may do to the queues.
LEMMA QueuesKeep ==
    ASSUME TypeOK
    PROVE  /\ \A x : events' = events /\ In(x, events) => In(x, events')
           /\ \A e \in EventSet : events' = Append(events, e) =>
                In(e, events') /\ \A x : In(x, events) => In(x, events')
           /\ events # <<>> /\ events' = Tail(events) =>
                \A x : In(x, events) => x = Head(events) \/ In(x, events')
           /\ \A c \in CommandSet : cmds' = Append(cmds, c) =>
                In(c, cmds') /\ \A x : In(x, cmds) => In(x, cmds')
           /\ cmds # <<>> /\ cmds' = Tail(cmds) =>
                \A x : In(x, cmds) => x = Head(cmds) \/ In(x, cmds')
           /\ \A t \in TurnSet : turns' = Append(turns, t) =>
                In(t, turns') /\ \A x : In(x, turns) => In(x, turns')
           /\ turns # <<>> /\ turns' = Tail(turns) =>
                \A x : In(x, turns) => x = Head(turns) \/ In(x, turns')
<1>1. /\ events \in Seq(EventSet) /\ turns \in Seq(TurnSet) /\ cmds \in Seq(CommandSet)
  BY PastTyped
<1>2. ASSUME NEW S, NEW q \in Seq(S)
      PROVE  /\ \A a \in S : In(a, Append(q, a)) /\ \A x : In(x, q) => In(x, Append(q, a))
             /\ q # <<>> => \A x : In(x, q) => x = Head(q) \/ In(x, Tail(q))
  BY InAppend, InTail
<1>3. /\ \A e \in EventSet :
             In(e, Append(events, e)) /\ \A x : In(x, events) => In(x, Append(events, e))
      /\ events # <<>> => \A x : In(x, events) => x = Head(events) \/ In(x, Tail(events))
  BY <1>1, <1>2
<1>4. /\ \A c \in CommandSet :
             In(c, Append(cmds, c)) /\ \A x : In(x, cmds) => In(x, Append(cmds, c))
      /\ cmds # <<>> => \A x : In(x, cmds) => x = Head(cmds) \/ In(x, Tail(cmds))
  BY <1>1, <1>2
<1>5. /\ \A t \in TurnSet :
             In(t, Append(turns, t)) /\ \A x : In(x, turns) => In(x, Append(turns, t))
      /\ turns # <<>> => \A x : In(x, turns) => x = Head(turns) \/ In(x, Tail(turns))
  BY <1>1, <1>2
<1>6. QED
  BY <1>3, <1>4, <1>5

LEMMA OwnTurnStarts ==
    ASSUME TypeOK, NEW k \in {"prompt", "check"}, Dispatches(k), launch' = launch
    PROVE  OwnTurn' /\ phase' = "waiting"
BY OwnTurnNew, QueuesKeep DEF Dispatches, OwnTurn

LEMMA CommandNew ==
    ASSUME NEW d \in {"update", "user", "ack"}, NEW s \in Nat
    PROVE  Command(d, s) \in CommandSet /\ Command(d, s).do = d /\ Command(d, s).seq = s
BY DEF Command, CommandSet

LEMMA LaunchGoes ==
    ASSUME TypeOK, RunLaunches
    PROVE  Going'
<1> DEFINE e == Event(launch + 1, 0, "plan")
<1>1. e \in EventSet /\ e.launch = launch' /\ e.kind \in Kinds /\ e.seq = 0
  BY PastTyped DEF RunLaunches, Event, EventSet, Kinds
<1>2. events' = Append(events, e) /\ coord' = Seeded
  BY DEF RunLaunches
<1> HIDE DEF e
<1>3. In(e, events')
  BY <1>1, <1>2, QueuesKeep
<1>4. coord'.at = "idle" /\ coord'.seq = 0
  BY <1>2 DEF Seeded
<1>5. DecisionDue' /\ OwnDue'
  BY <1>1, <1>3, <1>4 DEF DecisionDue, OwnDue
<1>6. QED
  BY <1>4, <1>5 DEF Going

LEMMA DecideGoes ==
    ASSUME GoingInv, ~disturbed, Steady, RunDecides
    PROVE  Going'
<1>0. TypeOK /\ Going
  BY DEF GoingInv, PlainInv, PastInv
<1> DEFINE e == Head(events)
<1>1. /\ events # <<>> /\ events' = Tail(events) /\ events \in Seq(EventSet)
      /\ e.kind \in {"plan", "continue", "success"} /\ cmds' = Acked(e)
      /\ UNCHANGED <<coord, launch, handle>> /\ handle /\ Active
  BY <1>0, PastTyped DEF RunDecides, Steady
<1>2. e \in EventSet
  BY <1>1, TailAt
<1> HIDE DEF e
<1>3. \A x : In(x, events) => x = e \/ In(x, events')
  BY <1>0, <1>1, QueuesKeep DEF e
<1>4. coord.at = "gone" => FailureDue'
  BY <1>0, <1>1, <1>3 DEF Going, FailureDue
<1>5. ASSUME coord.at # "gone", coord.unacked PROVE HasAck(coord.seq)' \/ DecisionDue'
  <2>1. e.seq \in Nat
    BY <1>2 DEF EventSet
  <2>2. Command("ack", e.seq) \in CommandSet /\ cmds' = Append(cmds, Command("ack", e.seq))
    BY <1>1, <1>5, <2>1, CommandNew DEF Acked, CanSend
  <2>3. CASE HasAck(coord.seq)
    BY <1>0, <1>1, <2>2, <2>3, QueuesKeep DEF HasAck
  <2>4. CASE DecisionDue
    <3>1. PICK d \in EventSet : In(d, events) /\ d.launch = launch /\ d.kind \in Kinds
                                /\ d.seq = coord.seq
      BY <2>4 DEF DecisionDue
    <3>2. CASE d = e
      <4>1. Command("ack", e.seq).do = "ack" /\ Command("ack", e.seq).seq = coord.seq
        BY <2>1, <3>1, <3>2, CommandNew
      <4>2. In(Command("ack", e.seq), cmds')
        BY <1>0, <2>2, QueuesKeep
      <4>3. QED
        BY <1>1, <2>2, <4>1, <4>2 DEF HasAck
    <3>3. CASE d # e
      BY <1>1, <1>3, <3>1, <3>3 DEF DecisionDue
    <3>4. QED
      BY <3>2, <3>3
  <2>5. QED
    BY <1>0, <1>1, <1>5, <2>3, <2>4 DEF Going
<1>6. phase' = "waiting" => OwnTurn'
  BY <1>0, <1>1, OwnTurnStarts DEF RunDecides
<1>7. QED
  BY <1>1, <1>4, <1>5, <1>6 DEF Going

\* Steps that leave the coordinator and the events alone.
LEMMA ApartGoes ==
    ASSUME GoingInv, ~disturbed, Steady, UNCHANGED <<coord, events>>,
           \A c \in CommandSet : In(c, cmds) => In(c, cmds'),
           phase' = "waiting" => OwnTurn' \/ Busy' \/ OwnDue'
    PROVE  Going'
<1>1. Going /\ Active /\ handle /\ UNCHANGED <<coord, events, launch, handle>>
  BY DEF GoingInv, Steady
<1>2. FailureDue' = FailureDue /\ DecisionDue' = DecisionDue
  BY <1>1 DEF FailureDue, DecisionDue
<1>3. HasAck(coord.seq) => HasAck(coord.seq)'
  BY <1>1 DEF HasAck
<1>4. QED
  BY <1>1, <1>2, <1>3 DEF Going

LEMMA PromptGoes ==
    ASSUME GoingInv, ~disturbed, Steady, RunSubmits \/ RunEdits \/ RunIdles
    PROVE  Going'
<1>1. TypeOK /\ Going /\ UNCHANGED <<launch, handle>> /\ handle /\ Active
  BY DEF GoingInv, PlainInv, PastInv, Steady
<1>2. UNCHANGED <<coord, cmds, events>>
  BY DEF RunSubmits, RunEdits, RunIdles, Apart
<1>3. CASE RunSubmits
  <2>1. OwnTurn'
    BY <1>1, <1>3, OwnTurnStarts DEF RunSubmits
  <2>2. QED
    BY <1>2, <2>1, ApartGoes
<1>4. CASE RunEdits
  BY <1>2, <1>4, ApartGoes DEF RunEdits
<1>5. CASE RunIdles
  <2>1. UNCHANGED <<phase, turns>>
    BY <1>5 DEF RunIdles
  <2>2. Going'
    BY <1>1, <1>2, <2>1 DEF Going, Active, FailureDue, DecisionDue, HasAck, OwnTurn, OwnDue, Busy,
       HasCommand
  <2>3. QED
    BY <2>2
<1>6. QED
  BY <1>3, <1>4, <1>5

LEMMA MessageGoes ==
    ASSUME GoingInv, ~disturbed, Steady, RunHears \/ RunStrays \/ RunGoesOn \/ RunForgets
    PROVE  Going'
<1>1. TypeOK /\ Going /\ UNCHANGED <<launch, handle, coord, events>> /\ handle /\ Active
      /\ coord.at \in {"idle", "deciding", "replying", "gone"}
  BY PastTyped
  DEF GoingInv, PlainInv, PastInv, Steady, RunHears, RunStrays, RunGoesOn, RunForgets, Apart, Coords
<1>2. ASSUME NEW d \in {"user", "update"}, cmds' = Append(cmds, Command(d, 0))
      PROVE  /\ \A c \in CommandSet : In(c, cmds) => In(c, cmds')
             /\ HasCommand(d)'
  <2>1. Command(d, 0) \in CommandSet /\ Command(d, 0).do = d
    BY CommandNew
  <2>2. QED
    BY <1>1, <1>2, <2>1, QueuesKeep DEF HasCommand
<1>3. CASE RunHears
  <2>1. HasCommand("user")' /\ coord.at # "gone"
        /\ \A c \in CommandSet : In(c, cmds) => In(c, cmds')
    BY <1>2, <1>3 DEF RunHears, CanSend
  <2>2. Busy'
    BY <1>1, <2>1 DEF Busy
  <2>3. QED
    BY <1>1, <2>1, <2>2, ApartGoes
<1>4. CASE RunStrays
  <2>1. coord.at = "gone" /\ UNCHANGED cmds
    BY <1>1, <1>4 DEF RunStrays, CanSend, Apart
  <2>2. OwnDue'
    BY <1>1, <2>1 DEF Going, FailureDue, OwnDue
  <2>3. QED
    BY <1>1, <2>1, <2>2, ApartGoes
<1>5. CASE RunGoesOn
  <2>1. HasCommand("update")' /\ coord.at # "gone"
        /\ \A c \in CommandSet : In(c, cmds) => In(c, cmds')
    BY <1>2, <1>5 DEF RunGoesOn, CanSend
  <2>2. ~coord.unacked \/ HasAck(coord.seq)' \/ OwnDue'
    BY <1>1, <2>1 DEF Going, HasAck, DecisionDue, OwnDue
  <2>3. Busy' \/ OwnDue'
    BY <1>1, <2>1, <2>2 DEF Busy
  <2>4. QED
    BY <1>1, <2>1, <2>3, ApartGoes
<1>6. CASE RunForgets
  <2>1. UNCHANGED <<phase, cmds>> /\ Popped
        /\ (phase = "waiting" => Head(turns).launch # launch)
    BY <1>6 DEF RunForgets, Apart
  <2>2. phase = "waiting" /\ OwnTurn => OwnTurn'
    BY <1>1, <2>1, QueuesKeep DEF OwnTurn, Popped
  <2>3. UNCHANGED <<Busy, OwnDue>>
    BY <1>1, <2>1 DEF Busy, OwnDue, HasCommand, HasAck
  <2>4. phase' = "waiting" => OwnTurn' \/ Busy' \/ OwnDue'
    BY <1>1, <2>1, <2>2, <2>3 DEF Going
  <2>5. QED
    BY <1>1, <2>1, <2>4, ApartGoes
<1>7. QED
  BY <1>3, <1>4, <1>5, <1>6

\* The thread at work.
LEMMA ThinkGoes ==
    ASSUME GoingInv, ~disturbed, Steady, RunThinks
    PROVE  Going'
<1>1. /\ TypeOK /\ Going /\ UNCHANGED <<launch, handle, phase, turns>> /\ handle /\ Active
      /\ coord \in Coords /\ events \in Seq(EventSet) /\ cmds \in Seq(CommandSet)
      /\ launch \in Nat
  BY PastTyped DEF GoingInv, PlainInv, PastInv, Steady, RunThinks
<1>2. coord.at \in {"idle", "deciding", "replying", "gone"} /\ coord.seq \in Nat
      /\ coord.convs \in Nat
  BY <1>1 DEF Coords
<1>3. OwnTurn' = OwnTurn
  BY <1>1 DEF OwnTurn
<1>4. CASE CoordinatorThinks
  <2>1. coord'.at = "deciding" /\ coord'.unacked = coord.unacked /\ ~coord.unacked
    BY <1>1, <1>4 DEF CoordinatorThinks, Coords
  <2>2. QED
    BY <1>1, <2>1 DEF Going, Busy
<1>5. CASE CoordinatorReceives
  <2> DEFINE c == Head(cmds)
  <2>1. /\ cmds # <<>> /\ cmds' = Tail(cmds) /\ coord.at = "idle" /\ UNCHANGED events
        /\ c \in CommandSet
    BY <1>1, <1>5, TailAt DEF CoordinatorReceives
  <2>2. /\ coord' = CASE c.do = "update" -> [coord EXCEPT !.convs = @ + 1]
                      [] c.do = "user" -> [coord EXCEPT !.at = "replying"]
                      [] c.do = "ack" -> [coord EXCEPT !.unacked = @ /\ ~AckCounts(c)]
    BY <1>5 DEF CoordinatorReceives
  <2>3. c.do \in {"update", "user", "ack"}
    BY <2>1 DEF CommandSet
  <2>4. \A x \in CommandSet : In(x, cmds) => x = c \/ In(x, cmds')
    BY <1>1, <2>1, QueuesKeep
  <2> HIDE DEF c
  <2>5. OwnDue' = OwnDue
    BY <1>1, <2>1 DEF OwnDue
  <2>6. coord'.seq = coord.seq => DecisionDue' = DecisionDue
    BY <1>1, <2>1 DEF DecisionDue
  <2>7. CASE c.do = "update"
    <3>1. coord' = [coord EXCEPT !.convs = @ + 1]
      BY <2>2, <2>7
    <3>2. /\ coord'.at = "idle" /\ coord'.unacked = coord.unacked /\ coord'.seq = coord.seq
          /\ coord'.convs > 0
      BY <1>1, <1>2, <2>1, <3>1 DEF Coords
    <3>3. /\ HasAck(coord.seq) => HasAck(coord.seq)'
          /\ HasCommand("user") => HasCommand("user")'
      BY <2>4, <2>7, <3>2 DEF HasAck, HasCommand
    <3>4. Busy => Busy'
      BY <1>1, <2>1, <3>2, <3>3 DEF Busy
    <3>5. QED
      BY <1>1, <1>3, <2>1, <2>5, <2>6, <3>2, <3>3, <3>4 DEF Going
  <2>8. CASE c.do = "user"
    <3>1. coord' = [coord EXCEPT !.at = "replying"]
      BY <2>2, <2>8
    <3>2. /\ coord'.at = "replying" /\ coord'.unacked = coord.unacked /\ coord'.seq = coord.seq
      BY <1>1, <2>1, <3>1 DEF Coords
    <3>3. HasAck(coord.seq) => HasAck(coord.seq)'
      BY <2>4, <2>8, <3>2 DEF HasAck
    <3>4. QED
      BY <1>1, <2>1, <2>6, <3>2, <3>3 DEF Going, Busy
  <2>9. CASE c.do = "ack"
    <3>1. coord' = [coord EXCEPT !.unacked = @ /\ ~AckCounts(c)]
      BY <2>2, <2>9
    <3>2. /\ coord'.at = "idle" /\ coord'.seq = coord.seq /\ coord'.convs = coord.convs
          /\ coord'.unacked = (coord.unacked /\ ~AckCounts(c))
      BY <1>1, <2>1, <3>1 DEF Coords
    <3>3. /\ coord'.unacked /\ HasAck(coord.seq) => HasAck(coord.seq)'
          /\ HasCommand("user") => HasCommand("user")'
          /\ HasCommand("update") => HasCommand("update")'
      BY <2>4, <2>9, <3>2 DEF HasAck, HasCommand, AckCounts
    <3>4. Busy => Busy'
      BY <1>1, <2>1, <3>2, <3>3 DEF Busy
    <3>5. QED
      BY <1>1, <1>3, <2>1, <2>5, <2>6, <3>2, <3>3, <3>4 DEF Going
  <2>10. QED
    BY <2>3, <2>7, <2>8, <2>9
<1>6. ASSUME NEW k \in Kinds \ {"plan"}, CoordinatorDecides(k) PROVE Going'
  <2> DEFINE e == Event(launch, coord.seq + 1, k)
  <2>1. e \in EventSet /\ e.launch = launch /\ e.kind = k /\ e.seq = coord.seq + 1
    BY <1>1, <1>2 DEF Event, EventSet
  <2>2. events' = Append(events, e)
    BY <1>6 DEF CoordinatorDecides
  <2> HIDE DEF e
  <2>3. In(e, events')
    BY <1>1, <2>1, <2>2, QueuesKeep
  <2>4. /\ coord'.at = "gone" => k \in {"transient", "fatal"}
        /\ coord'.seq = coord.seq + 1
    BY <1>1, <1>6 DEF CoordinatorDecides, Coords
  <2>5. (coord'.at = "gone" => FailureDue') /\ DecisionDue' /\ OwnDue'
    BY <1>1, <2>1, <2>3, <2>4 DEF FailureDue, DecisionDue, OwnDue
  <2>6. QED
    BY <2>5 DEF Going
<1>7. ASSUME NEW k \in Replies, CoordinatorReplies(k) PROVE Going'
  <2> DEFINE e == Event(launch, coord.seq, k)
  <2>1. e \in EventSet /\ e.launch = launch
    BY <1>1, <1>2 DEF Event, EventSet
  <2>2. events' = Append(events, e) /\ cmds' = cmds /\ coord.at = "replying"
    BY <1>7 DEF CoordinatorReplies
  <2> HIDE DEF e
  <2>3. In(e, events') /\ \A x : In(x, events) => In(x, events')
    BY <1>1, <2>1, <2>2, QueuesKeep
  <2>4. coord'.at = "idle" /\ coord'.seq = coord.seq /\ coord'.unacked = coord.unacked
    BY <1>1, <1>7 DEF CoordinatorReplies, Coords
  <2>5. /\ DecisionDue => DecisionDue'
        /\ HasAck(coord.seq) => HasAck(coord.seq)'
        /\ OwnDue'
    BY <1>1, <2>1, <2>2, <2>3, <2>4 DEF DecisionDue, HasAck, OwnDue
  <2>6. QED
    BY <1>1, <2>2, <2>4, <2>5 DEF Going
<1>8. ASSUME NEW th \in late, LateThreadGoesOn(th) PROVE Going'
  <2>1. \A x : In(x, events) => In(x, events')
    <3>1. th.launch \in Nat /\ th.seq \in Nat /\ th.seq + 1 \in Nat
      <4>1. th \in LateThreads
        BY <1>1, TypeParts DEF ThreadOK
      <4>2. QED
        BY <4>1 DEF LateThreads
    <3>2. \/ events' = events
          \/ \E s \in Nat, k \in Kinds \union Replies :
               events' = Append(events, Event(th.launch, s, k))
      BY <1>8, <3>1 DEF LateThreadGoesOn
    <3>3. ASSUME NEW s \in Nat, NEW k \in Kinds \union Replies
          PROVE  Event(th.launch, s, k) \in EventSet
      BY <3>1 DEF Event, EventSet
    <3>4. QED
      BY <1>1, <3>2, <3>3, QueuesKeep
  <2>2. UNCHANGED <<coord, cmds>>
    BY <1>8 DEF LateThreadGoesOn
  <2>3. /\ FailureDue => FailureDue'
        /\ DecisionDue => DecisionDue'
        /\ OwnDue => OwnDue'
        /\ HasAck(coord.seq)' = HasAck(coord.seq)
        /\ Busy' = Busy
    BY <1>1, <2>1, <2>2 DEF FailureDue, DecisionDue, OwnDue, HasAck, Busy, HasCommand
  <2>4. QED
    BY <1>1, <1>3, <2>2, <2>3 DEF Going
<1>9. QED
  BY <1>4, <1>5, <1>6, <1>7, <1>8 DEF RunThinks

LEMMA StepGoes ==
    ASSUME GoingInv, [Next]_vars
    PROVE  GoingInv'
<1>1. PlainInv'
  BY StepPlain DEF GoingInv
<1>2. ASSUME Active', ~disturbed', handle' PROVE Going'
  <2>1. RunStep /\ ~disturbed
    BY <1>2, EveryStep, DisturbedForGood DEF GoingInv
  <2>2. TypeOK
    BY DEF GoingInv, PlainInv, PastInv
  <2>3. ~RunRecovers
    BY <1>2 DEF RunRecovers
  <2>4. QED
    BY <2>1, <2>2, <2>3, LaunchGoes, DecideGoes, PromptGoes, MessageGoes, ThinkGoes DEF RunStep
<1>3. Going'
  BY <1>2 DEF Going
<1>4. QED
  BY <1>1, <1>3 DEF GoingInv

LEMMA GoingActs ==
    ASSUME GoingInv
    PROVE  SomeoneActs
<1>1. TypeOK
  BY DEF GoingInv, PlainInv, PastInv
<1>2. ASSUME ~disturbed, phase = "waiting" PROVE OwnTurn \/ Busy \/ OwnDue
  BY <1>2 DEF GoingInv, PlainInv, Driven, Going, Active
<1>3. ~disturbed => phase \notin {"active", "review"}
  BY DEF GoingInv, PlainInv, Plain
<1>4. QED
  BY <1>1, <1>2, <1>3, BusyMeans DEF SomeoneActs

\* A run that nothing disturbed and that waits is never left to itself: its turn
\* runs, its coordinator has work, or an event of it is on its way to the TUI.
THEOREM SomeoneAlwaysActs == Spec => []SomeoneActs
<1>1. Init => GoingInv
  BY InitPlain DEF Init, GoingInv, Going, Active
<1>2. GoingInv /\ [Next]_vars => GoingInv'
  BY StepGoes
<1>3. GoingInv => SomeoneActs
  BY GoingActs
<1> QED
  BY <1>1, <1>2, <1>3, PTL DEF Spec

-----------------------------------------------------------------------------
(* One prompt at a time *)

\* What a run works on is in one place: a turn that runs for it, a prompt that is
\* shown, a decision that is on its way, or a conversation that the coordinator is
\* asked to decide about.  What comes after an answer to the user or an event of
\* another run does not count: that event disturbs the run before it gets there.
Ahead(e) == e.launch = launch /\ e.kind \in Kinds
AheadTo(n) == \A i \in 1 .. n : Ahead(events[i])
Clean == AheadTo(Len(events))

Stages == {"turn", "event", "prompt", "thought", "talk", "update"}

Holds(a, i) ==
    \/ a = "turn" /\ i \in 1 .. Len(turns) /\ turns[i].launch = launch
    \/ /\ handle
       /\ \/ a = "event" /\ i \in 1 .. Len(events) /\ AheadTo(i)
          \/ a = "prompt" /\ i = 0 /\ phase \in {"ready", "paused"}
          \/ /\ Clean
             /\ \/ a = "thought" /\ i = 0 /\ coord.at = "deciding"
                \/ a = "talk" /\ i \in 1 .. coord.convs
                \/ a = "update" /\ i \in 1 .. Len(cmds) /\ cmds[i].do = "update"

OneToken ==
    \A a, b \in Stages, i, j \in Nat : Holds(a, i) /\ Holds(b, j) => a = b /\ i = j

TokenInv == PlainInv /\ (Active /\ ~disturbed => OneToken)

\* The stages that need a clean channel.
LEMMA TokenStays ==
    ASSUME UNCHANGED <<handle, phase, coord>>, Clean' => Clean
    PROVE  /\ \A i \in Nat : Holds("prompt", i)' => Holds("prompt", i)
           /\ \A i \in Nat : Holds("thought", i)' => Holds("thought", i)
           /\ \A i \in Nat : Holds("talk", i)' => Holds("talk", i)
           /\ cmds' = cmds => \A i \in Nat : Holds("update", i)' => Holds("update", i)
BY DEF Holds

LEMMA TurnAppended ==
    ASSUME TypeOK, UNCHANGED launch, NEW t \in TurnSet, turns' = Append(turns, t)
    PROVE  /\ Len(turns) \in Nat
           /\ \A i \in Nat : Holds("turn", i)' =>
                Holds("turn", i) \/ (i = Len(turns) + 1 /\ t.launch = launch)
<1>1. turns \in Seq(TurnSet)
  BY PastTyped
<1>2. /\ Len(turns) \in Nat /\ Len(turns') = Len(turns) + 1
      /\ \A i \in 1 .. Len(turns) + 1 :
           turns'[i] = IF i = Len(turns) + 1 THEN t ELSE turns[i]
  BY <1>1, AppendAt
<1>3. QED
  BY <1>2 DEF Holds

LEMMA TurnPopped ==
    ASSUME TypeOK, UNCHANGED launch, Popped
    PROVE  /\ \A i \in Nat : Holds("turn", i)' => i # 0 /\ Holds("turn", i + 1)
           /\ Head(turns).launch = launch => Holds("turn", 1)
<1>1. turns \in Seq(TurnSet)
  BY PastTyped
<1>2. /\ Len(turns) \in Nat /\ Len(turns) >= 1 /\ Len(turns') = Len(turns) - 1
      /\ Head(turns) = turns[1]
      /\ \A i \in 1 .. Len(turns) - 1 : turns'[i] = turns[i + 1]
  BY <1>1, TailAt DEF Popped
<1>3. QED
  BY <1>2 DEF Holds

LEMMA TurnsSame ==
    ASSUME UNCHANGED <<launch, turns>>
    PROVE  \A i \in Nat : Holds("turn", i)' => Holds("turn", i)
BY DEF Holds

LEMMA EventsSame ==
    ASSUME UNCHANGED <<launch, handle, events>>
    PROVE  /\ \A i \in Nat : Holds("event", i)' => Holds("event", i)
           /\ Clean' => Clean
BY DEF Holds, Clean, AheadTo, Ahead

LEMMA EventAppended ==
    ASSUME TypeOK, UNCHANGED <<launch, handle>>, NEW e \in EventSet, events' = Append(events, e)
    PROVE  /\ Len(events) \in Nat
           /\ \A i \in Nat : Holds("event", i)' =>
                Holds("event", i) \/ (i = Len(events) + 1 /\ Clean /\ Ahead(e))
           /\ Clean' => Clean /\ Ahead(e)
<1>1. events \in Seq(EventSet)
  BY PastTyped
<1>2. /\ Len(events) \in Nat /\ Len(events') = Len(events) + 1
      /\ \A i \in 1 .. Len(events) + 1 :
           events'[i] = IF i = Len(events) + 1 THEN e ELSE events[i]
  BY <1>1, AppendAt
<1>0. PICK n \in Nat : n = Len(events)
  BY <1>2
<1>3. ASSUME NEW i \in 1 .. n + 1, AheadTo(i)'
      PROVE  IF i = n + 1 THEN Clean /\ Ahead(e) ELSE AheadTo(i)
  <2>1. \A j \in 1 .. i : j \in 1 .. n + 1 /\ Ahead(events'[j])
    BY <1>0, <1>2, <1>3 DEF AheadTo, Ahead
  <2>2. CASE i = n + 1
    <3>1. events'[n + 1] = e /\ Ahead(e)
      BY <1>0, <1>2, <2>1, <2>2
    <3>2. \A j \in 1 .. n : Ahead(events[j])
      BY <1>0, <1>2, <2>1, <2>2
    <3>3. QED
      BY <1>0, <2>2, <3>1, <3>2 DEF Clean, AheadTo
  <2>3. CASE i # n + 1
    BY <1>0, <1>2, <2>1, <2>3 DEF AheadTo
  <2>4. QED
    BY <2>2, <2>3
<1>4. Clean' => AheadTo(n + 1)'
  BY <1>0, <1>2 DEF Clean, AheadTo
<1>5. Clean' => Clean /\ Ahead(e)
  BY <1>0, <1>3, <1>4
<1>6. ASSUME NEW i \in Nat, Holds("event", i)'
      PROVE  Holds("event", i) \/ (i = n + 1 /\ Clean /\ Ahead(e))
  <2>1. handle /\ i \in 1 .. n + 1 /\ AheadTo(i)'
    BY <1>0, <1>2, <1>6 DEF Holds
  <2>2. QED
    BY <1>0, <1>2, <1>3, <2>1 DEF Holds
<1>7. QED
  BY <1>0, <1>2, <1>5, <1>6

LEMMA EventTaken ==
    ASSUME TypeOK, UNCHANGED <<launch, handle>>, events # <<>>, events' = Tail(events),
           Ahead(Head(events))
    PROVE  /\ \A i \in Nat : Holds("event", i)' => i # 0 /\ Holds("event", i + 1)
           /\ handle => Holds("event", 1)
           /\ Clean' => Clean
<1>1. events \in Seq(EventSet)
  BY PastTyped
<1>0. PICK n : n = Len(events)
  OBVIOUS
<1>2. /\ n \in Nat /\ n >= 1 /\ Len(events') = n - 1
      /\ Head(events) = events[1]
      /\ \A i \in 1 .. n - 1 : events'[i] = events[i + 1]
  BY <1>0, <1>1, TailAt
<1>3. ASSUME NEW i \in Nat, i <= n - 1, AheadTo(i)'
      PROVE  AheadTo(i + 1)
  <2>1. \A j \in 1 .. i : Ahead(events[j + 1])
    <3>1. ASSUME NEW j \in 1 .. i PROVE Ahead(events[j + 1])
      <4>1. j \in 1 .. n - 1 /\ Ahead(events'[j])
        BY <1>2, <1>3 DEF AheadTo, Ahead
      <4>2. QED
        BY <1>2, <4>1
    <3>2. QED
      BY <3>1
  <2>2. ASSUME NEW j \in 1 .. i + 1 PROVE Ahead(events[j])
    <3>1. CASE j = 1
      BY <1>2, <3>1
    <3>2. CASE j # 1
      <4>1. j - 1 \in 1 .. i /\ (j - 1) + 1 = j
        BY <3>2
      <4>2. QED
        BY <2>1, <4>1
    <3>3. QED
      BY <3>1, <3>2
  <2>3. QED
    BY <2>2 DEF AheadTo
<1>4. Clean' => Clean
  <2>1. Clean' => AheadTo(n - 1)'
    BY <1>2 DEF Clean, AheadTo
  <2>2. n - 1 \in Nat /\ n - 1 <= n - 1 /\ (n - 1) + 1 = n
    BY <1>2
  <2>3. Clean' => AheadTo(n)
    BY <1>3, <2>1, <2>2
  <2>4. QED
    BY <1>0, <2>3 DEF Clean
<1>5. \A i \in Nat : Holds("event", i)' => i # 0 /\ Holds("event", i + 1)
  <2>1. ASSUME NEW i \in Nat, Holds("event", i)' PROVE i # 0 /\ Holds("event", i + 1)
    <3>1. handle /\ i \in 1 .. n - 1 /\ AheadTo(i)'
      BY <1>2, <2>1 DEF Holds
    <3>2. i # 0 /\ i + 1 \in 1 .. n /\ AheadTo(i + 1)
      BY <1>2, <1>3, <3>1
    <3>3. QED
      BY <1>0, <3>1, <3>2 DEF Holds
  <2>2. QED
    BY <2>1
<1>6. handle => Holds("event", 1)
  <2>1. 1 \in 1 .. n /\ \A j \in 1 .. 1 : j = 1
    BY <1>2
  <2>2. AheadTo(1)
    BY <1>2, <2>1 DEF AheadTo
  <2>3. QED
    BY <1>0, <2>1, <2>2 DEF Holds
<1>7. QED
  BY <1>4, <1>5, <1>6

LEMMA CommandAppended ==
    ASSUME TypeOK, UNCHANGED handle, Clean' => Clean,
           NEW c \in CommandSet, cmds' = Append(cmds, c)
    PROVE  /\ Len(cmds) \in Nat
           /\ \A i \in Nat : Holds("update", i)' =>
                Holds("update", i) \/ (i = Len(cmds) + 1 /\ c.do = "update")
<1>1. cmds \in Seq(CommandSet)
  BY PastTyped
<1>2. /\ Len(cmds) \in Nat /\ Len(cmds') = Len(cmds) + 1
      /\ \A i \in 1 .. Len(cmds) + 1 :
           cmds'[i] = IF i = Len(cmds) + 1 THEN c ELSE cmds[i]
  BY <1>1, AppendAt
<1>3. QED
  BY <1>2 DEF Holds

LEMMA CommandTaken ==
    ASSUME TypeOK, UNCHANGED handle, Clean' => Clean, cmds # <<>>, cmds' = Tail(cmds)
    PROVE  /\ \A i \in Nat : Holds("update", i)' => i # 0 /\ Holds("update", i + 1)
           /\ handle /\ Clean /\ Head(cmds).do = "update" => Holds("update", 1)
<1>1. cmds \in Seq(CommandSet)
  BY PastTyped
<1>2. /\ Len(cmds) \in Nat /\ Len(cmds) >= 1 /\ Len(cmds') = Len(cmds) - 1
      /\ Head(cmds) = cmds[1]
      /\ \A i \in 1 .. Len(cmds) - 1 : cmds'[i] = cmds[i + 1]
  BY <1>1, TailAt
<1>3. QED
  BY <1>2 DEF Holds

\* Two holders would be two holders before.
LEMMA LaunchToken ==
    ASSUME PlainInv, RunLaunches
    PROVE  OneToken'
<1>1. /\ TypeOK /\ Past /\ launch \in Nat /\ launch' = launch + 1 /\ turns' = turns
      /\ events \in Seq(EventSet) /\ turns \in Seq(TurnSet)
      /\ phase' = "waiting" /\ cmds' = <<>> /\ coord'.at = "idle" /\ coord'.convs = 0
  BY PastTyped DEF PlainInv, PastInv, RunLaunches, Seeded
<1>2. \A t \in TurnSet : In(t, turns) => t.launch # launch'
  BY <1>1, PastTyped DEF Past
<1>3. \A i \in 1 .. Len(turns) : turns[i] \in TurnSet /\ In(turns[i], turns)
  BY <1>1 DEF In
<1>4. \A i \in Nat : ~Holds("turn", i)'
  BY <1>1, <1>2, <1>3 DEF Holds
<1>5. \A e \in EventSet : In(e, events) => e.launch # launch'
  BY <1>1, PastTyped DEF Past
<1>6. \A i \in 1 .. Len(events) : events[i] \in EventSet /\ In(events[i], events)
  BY <1>1 DEF In
<1> DEFINE e == Event(launch + 1, 0, "plan")
<1>7. e \in EventSet
  BY <1>1 DEF Event, EventSet, Kinds
<1>8. /\ Len(events) \in Nat /\ Len(events') = Len(events) + 1
      /\ \A i \in 1 .. Len(events) + 1 :
           events'[i] = IF i = Len(events) + 1 THEN e ELSE events[i]
  BY <1>1, <1>7, AppendAt DEF RunLaunches
<1>9. ASSUME NEW i \in Nat, Holds("event", i)' PROVE i = 1
  <2>1. i \in 1 .. Len(events) + 1 /\ events'[1].launch = launch'
    BY <1>8, <1>9 DEF Holds, AheadTo, Ahead
  <2>2. Len(events) >= 1 => events'[1] = events[1] /\ 1 \in 1 .. Len(events)
    BY <1>8
  <2>3. ~(Len(events) >= 1)
    BY <1>5, <1>6, <2>1, <2>2
  <2>4. QED
    BY <1>8, <2>1, <2>3
<1>10. \A i \in Nat : /\ ~Holds("prompt", i)' /\ ~Holds("thought", i)'
                      /\ ~Holds("talk", i)' /\ ~Holds("update", i)'
  BY <1>1 DEF Holds
<1>11. QED
  BY <1>4, <1>9, <1>10 DEF OneToken, Stages

LEMMA RecoverToken ==
    ASSUME PlainInv, OneToken, Active, ~disturbed, RunRecovers
    PROVE  OneToken'
<1>1. TypeOK /\ Past /\ launch \in Nat /\ launch' = launch /\ launch > 0 /\ ~handle'
  BY PastTyped DEF PlainInv, PastInv, Past, RunRecovers
<1>2. \A i \in Nat, a \in Stages : Holds(a, i)' => a = "turn"
  BY <1>1 DEF Holds, Stages
<1>3. CASE turns' = turns
  BY <1>1, <1>2, <1>3, TurnsSame DEF OneToken, Stages
<1>4. CASE Popped
  BY <1>1, <1>2, <1>4, TurnPopped DEF OneToken, Stages
<1>5. CASE turns' = Append(turns, Stray)
  <2>1. Stray \in TurnSet /\ Stray.launch = 0
    BY DEF Stray, TurnSet
  <2>2. \A i \in Nat : Holds("turn", i)' => Holds("turn", i)
    BY <1>1, <1>5, <2>1, TurnAppended
  <2>3. QED
    BY <1>2, <2>2 DEF OneToken, Stages
<1>6. QED
  BY <1>3, <1>4, <1>5 DEF RunRecovers

LEMMA DecideToken ==
    ASSUME PlainInv, OneToken, Steady, RunDecides
    PROVE  OneToken'
<1>1. /\ TypeOK /\ UNCHANGED <<launch, handle, coord>> /\ handle
      /\ events # <<>> /\ events' = Tail(events) /\ cmds' = Acked(Head(events))
      /\ events \in Seq(EventSet) /\ launch \in Nat
  BY PastTyped DEF PlainInv, PastInv, Steady, RunDecides
<1>2. Ahead(Head(events)) /\ Head(events).seq \in Nat
  <2>1. Head(events) \in EventSet
    BY <1>1, TailAt
  <2>2. QED
    BY <2>1 DEF RunDecides, Ahead, Kinds, EventSet
<1>3. /\ \A i \in Nat : Holds("event", i)' => i # 0 /\ Holds("event", i + 1)
      /\ Holds("event", 1)
      /\ Clean' => Clean
  BY <1>1, <1>2, EventTaken
<1>4. /\ \A i \in Nat : Holds("thought", i)' => Holds("thought", i)
      /\ \A i \in Nat : Holds("talk", i)' => Holds("talk", i)
  BY <1>1, <1>3 DEF Holds
<1>5. \A i \in Nat : Holds("update", i)' => Holds("update", i)
  <2>1. CASE cmds' = cmds
    BY <1>1, <1>3, <2>1 DEF Holds
  <2>2. CASE cmds' = Append(cmds, Command("ack", Head(events).seq))
    <3>1. /\ Command("ack", Head(events).seq) \in CommandSet
          /\ Command("ack", Head(events).seq).do = "ack"
      BY <1>2, CommandNew
    <3>2. QED
      BY <1>1, <1>3, <2>2, <3>1, CommandAppended
  <2>3. QED
    BY <1>1, <2>1, <2>2 DEF Acked
<1>6. CASE phase' = "ready" /\ turns' = turns
  <2>1. \A i \in Nat : Holds("prompt", i)' => i = 0
    BY DEF Holds
  <2>2. QED
    BY <1>1, <1>3, <1>4, <1>5, <1>6, <2>1, TurnsSame DEF OneToken, Stages
<1>7. ASSUME NEW k \in {"prompt", "check"}, Dispatches(k) PROVE OneToken'
  <2>1. \A i \in Nat : ~Holds("prompt", i)'
    BY <1>7 DEF Holds, Dispatches
  <2>2. Turn(k) \in TurnSet /\ turns' = Append(turns, Turn(k))
    BY <1>1, <1>7 DEF Turn, TurnSet, Dispatches
  <2>3. /\ Len(turns) \in Nat
        /\ \A i \in Nat : Holds("turn", i)' => Holds("turn", i) \/ i = Len(turns) + 1
    BY <1>1, <2>2, TurnAppended
  <2>4. QED
    BY <1>3, <1>4, <1>5, <2>1, <2>3 DEF OneToken, Stages
<1>8. QED
  BY <1>6, <1>7 DEF RunDecides

LEMMA PromptToken ==
    ASSUME PlainInv, OneToken, Steady, RunSubmits \/ RunEdits \/ RunIdles
    PROVE  OneToken'
<1>1. TypeOK /\ UNCHANGED <<launch, handle, coord, cmds, events>> /\ handle /\ launch \in Nat
  BY PastTyped DEF PlainInv, PastInv, Steady, RunSubmits, RunEdits, RunIdles, Apart
<1>2. /\ \A i \in Nat : Holds("event", i)' => Holds("event", i)
      /\ Clean' => Clean
  BY <1>1, EventsSame
<1>3. /\ \A i \in Nat : Holds("thought", i)' => Holds("thought", i)
      /\ \A i \in Nat : Holds("talk", i)' => Holds("talk", i)
      /\ \A i \in Nat : Holds("update", i)' => Holds("update", i)
  BY <1>1, <1>2 DEF Holds
<1>4. CASE RunSubmits
  <2>1. Holds("prompt", 0) /\ \A i \in Nat : ~Holds("prompt", i)'
    BY <1>1, <1>4 DEF Holds, RunSubmits, Dispatches
  <2>2. Turn("prompt") \in TurnSet /\ turns' = Append(turns, Turn("prompt"))
    BY <1>1, <1>4 DEF Turn, TurnSet, RunSubmits, Dispatches
  <2>3. /\ Len(turns) \in Nat
        /\ \A i \in Nat : Holds("turn", i)' => Holds("turn", i) \/ i = Len(turns) + 1
    BY <1>1, <2>2, TurnAppended
  <2>4. QED
    BY <1>2, <1>3, <2>1, <2>3 DEF OneToken, Stages
<1>5. CASE RunEdits \/ RunIdles
  <2>1. \A i \in Nat : Holds("prompt", i)' => Holds("prompt", i)
    BY <1>1, <1>5 DEF Holds, RunEdits, RunIdles
  <2>2. \A i \in Nat : Holds("turn", i)' => Holds("turn", i)
    BY <1>1, <1>5, TurnsSame DEF RunEdits, RunIdles
  <2>3. QED
    BY <1>2, <1>3, <2>1, <2>2 DEF OneToken, Stages
<1>6. QED
  BY <1>4, <1>5

LEMMA MessageToken ==
    ASSUME PlainInv, OneToken, ~disturbed, Steady, RunHears \/ RunStrays \/ RunGoesOn \/ RunForgets
    PROVE  OneToken'
<1>1. /\ TypeOK /\ UNCHANGED <<launch, handle, coord, events>> /\ handle
      /\ launch \in Nat /\ launch > 0
  BY PastTyped DEF PlainInv, PastInv, Past, Steady, RunHears, RunStrays, RunGoesOn, RunForgets,
                   Apart
<1>2. /\ \A i \in Nat : Holds("event", i)' => Holds("event", i)
      /\ Clean' => Clean
  BY <1>1, EventsSame
<1>3. /\ \A i \in Nat : Holds("thought", i)' => Holds("thought", i)
      /\ \A i \in Nat : Holds("talk", i)' => Holds("talk", i)
  BY <1>1, <1>2 DEF Holds
<1>4. \A i \in Nat : Holds("prompt", i)' => Holds("prompt", i)
  BY <1>1 DEF Holds, RunHears, RunStrays, RunGoesOn, RunForgets
<1>5. cmds' = cmds => \A i \in Nat : Holds("update", i)' => Holds("update", i)
  BY <1>1, <1>2 DEF Holds
<1>6. CASE RunHears
  <2>1. cmds' = Append(cmds, Command("user", 0)) /\ turns' = turns
    BY <1>6 DEF RunHears
  <2>2. Command("user", 0) \in CommandSet /\ Command("user", 0).do = "user"
    BY CommandNew
  <2>3. \A i \in Nat : Holds("update", i)' => Holds("update", i)
    BY <1>1, <1>2, <2>1, <2>2, CommandAppended
  <2>4. QED
    BY <1>1, <1>2, <1>3, <1>4, <2>1, <2>3, TurnsSame DEF OneToken, Stages
<1>7. CASE RunStrays
  <2>1. Stray \in TurnSet /\ Stray.launch = 0
    BY DEF Stray, TurnSet
  <2>2. \A i \in Nat : Holds("turn", i)' => Holds("turn", i)
    BY <1>1, <1>7, <2>1, TurnAppended DEF RunStrays
  <2>3. QED
    BY <1>2, <1>3, <1>4, <1>5, <1>7, <2>2 DEF OneToken, Stages, RunStrays, Apart
<1>8. CASE RunGoesOn
  <2>1. cmds' = Append(cmds, Command("update", 0)) /\ Popped /\ Head(turns).launch = launch
    BY <1>8 DEF RunGoesOn
  <2>2. Command("update", 0) \in CommandSet
    BY CommandNew
  <2>3. /\ Len(cmds) \in Nat
        /\ \A i \in Nat : Holds("update", i)' => Holds("update", i) \/ i = Len(cmds) + 1
    BY <1>1, <1>2, <2>1, <2>2, CommandAppended
  <2>4. /\ \A i \in Nat : Holds("turn", i)' => i # 0 /\ Holds("turn", i + 1)
        /\ Holds("turn", 1)
    BY <1>1, <2>1, TurnPopped
  <2>5. QED
    BY <1>2, <1>3, <1>4, <2>3, <2>4 DEF OneToken, Stages
<1>9. CASE RunForgets
  <2>1. \A i \in Nat : Holds("turn", i)' => i # 0 /\ Holds("turn", i + 1)
    BY <1>1, <1>9, TurnPopped DEF RunForgets
  <2>2. QED
    BY <1>2, <1>3, <1>4, <1>5, <1>9, <2>1 DEF OneToken, Stages, RunForgets, Apart
<1>10. QED
  BY <1>6, <1>7, <1>8, <1>9

\* An event that does not count ends the clean part of the channel.
LEMMA OtherEventToken ==
    ASSUME TypeOK, OneToken, UNCHANGED <<launch, handle, phase, turns>>,
           NEW e \in EventSet, ~Ahead(e), events' = Append(events, e)
    PROVE  OneToken'
<1>1. ~Clean' /\ \A i \in Nat : Holds("event", i)' => Holds("event", i)
  BY EventAppended
<1>2. \A i \in Nat : /\ ~Holds("thought", i)' /\ ~Holds("talk", i)' /\ ~Holds("update", i)'
                     /\ Holds("prompt", i)' => Holds("prompt", i)
  BY <1>1 DEF Holds
<1>3. QED
  BY <1>1, <1>2, TurnsSame DEF OneToken, Stages

LEMMA ThinkToken ==
    ASSUME PlainInv, OneToken, Steady, RunThinks
    PROVE  OneToken'
<1>1. /\ TypeOK /\ Past /\ UNCHANGED <<launch, handle, phase, turns>> /\ handle
      /\ coord \in Coords /\ cmds \in Seq(CommandSet) /\ launch \in Nat
  BY PastTyped DEF PlainInv, PastInv, Steady, RunThinks
<1>2. /\ coord.seq \in Nat /\ coord.convs \in Nat
      /\ coord.at \in {"idle", "deciding", "replying", "gone"}
  BY <1>1 DEF Coords
<1>3. /\ \A i \in Nat : Holds("prompt", i)' => Holds("prompt", i)
      /\ \A i \in Nat : Holds("turn", i)' => Holds("turn", i)
  BY <1>1, TurnsSame DEF Holds
<1>4. CASE CoordinatorThinks
  <2>1. /\ coord'.at = "deciding" /\ coord'.convs = coord.convs - 1 /\ coord.convs > 0
        /\ UNCHANGED <<cmds, events>>
    BY <1>1, <1>4 DEF CoordinatorThinks, Coords
  <2>2. /\ \A i \in Nat : Holds("event", i)' => Holds("event", i)
        /\ Clean' => Clean
    BY <1>1, <2>1, EventsSame
  <2>3. /\ \A i \in Nat : Holds("update", i)' => Holds("update", i)
        /\ \A i \in Nat : Holds("talk", i)' => Holds("talk", i) /\ i # coord.convs
        /\ \A i \in Nat : Holds("thought", i)' => i = 0 /\ Holds("talk", coord.convs)
    BY <1>1, <1>2, <2>1, <2>2 DEF Holds
  <2>4. QED
    BY <1>2, <1>3, <2>2, <2>3 DEF OneToken, Stages
<1>5. CASE CoordinatorReceives
  <2> DEFINE c == Head(cmds)
  <2>1. /\ cmds # <<>> /\ cmds' = Tail(cmds) /\ coord.at = "idle" /\ UNCHANGED events
        /\ c \in CommandSet
    BY <1>1, <1>5, TailAt DEF CoordinatorReceives
  <2>2. /\ coord' = CASE c.do = "update" -> [coord EXCEPT !.convs = @ + 1]
                      [] c.do = "user" -> [coord EXCEPT !.at = "replying"]
                      [] c.do = "ack" -> [coord EXCEPT !.unacked = @ /\ ~AckCounts(c)]
    BY <1>5 DEF CoordinatorReceives
  <2>3. c.do \in {"update", "user", "ack"}
    BY <2>1 DEF CommandSet
  <2>4. /\ \A i \in Nat : Holds("event", i)' => Holds("event", i)
        /\ Clean' => Clean
    BY <1>1, <2>1, EventsSame
  <2>5. /\ \A i \in Nat : Holds("update", i)' => i # 0 /\ Holds("update", i + 1)
        /\ Clean /\ c.do = "update" => Holds("update", 1)
    BY <1>1, <2>1, <2>4, CommandTaken
  <2> HIDE DEF c
  <2>6. CASE c.do = "update"
    <3>1. coord' = [coord EXCEPT !.convs = @ + 1]
      BY <2>2, <2>6
    <3>2. coord'.at = "idle" /\ coord'.convs = coord.convs + 1
      BY <1>1, <2>1, <3>1 DEF Coords
    <3>3. /\ \A i \in Nat : ~Holds("thought", i)'
          /\ \A i \in Nat : Holds("talk", i)' =>
               Holds("talk", i) \/ (i = coord.convs + 1 /\ Holds("update", 1))
      BY <1>2, <2>4, <2>5, <2>6, <3>2 DEF Holds
    <3>4. QED
      BY <1>2, <1>3, <2>4, <2>5, <3>3 DEF OneToken, Stages
  <2>7. CASE c.do # "update"
    <3>1. coord'.convs = coord.convs /\ coord'.at # "deciding"
      BY <1>1, <2>1, <2>2, <2>3, <2>7 DEF Coords
    <3>2. /\ \A i \in Nat : ~Holds("thought", i)'
          /\ \A i \in Nat : Holds("talk", i)' => Holds("talk", i)
      BY <1>1, <2>4, <3>1 DEF Holds
    <3>3. QED
      BY <1>3, <2>4, <2>5, <3>2 DEF OneToken, Stages
  <2>8. QED
    BY <2>6, <2>7
<1>6. ASSUME NEW k \in Kinds \ {"plan"}, CoordinatorDecides(k) PROVE OneToken'
  <2> DEFINE e == Event(launch, coord.seq + 1, k)
  <2>1. e \in EventSet
    BY <1>1, <1>2 DEF Event, EventSet
  <2>2. events' = Append(events, e) /\ coord.at = "deciding" /\ cmds' = cmds
    BY <1>6 DEF CoordinatorDecides
  <2>3. coord'.at # "deciding" /\ coord'.convs = coord.convs
    BY <1>1, <1>6 DEF CoordinatorDecides, Coords
  <2> HIDE DEF e
  <2>4. /\ Len(events) \in Nat
        /\ \A i \in Nat : Holds("event", i)' => Holds("event", i) \/ (i = Len(events) + 1 /\ Clean)
        /\ Clean' => Clean
    BY <1>1, <2>1, <2>2, EventAppended
  <2>5. /\ \A i \in Nat : ~Holds("thought", i)'
        /\ \A i \in Nat : Holds("talk", i)' => Holds("talk", i)
        /\ \A i \in Nat : Holds("update", i)' => Holds("update", i)
        /\ Clean => Holds("thought", 0)
    BY <1>1, <2>2, <2>3, <2>4 DEF Holds
  <2>6. QED
    BY <1>3, <2>4, <2>5 DEF OneToken, Stages
<1>7. ASSUME NEW k \in Replies, CoordinatorReplies(k) PROVE OneToken'
  <2> DEFINE e == Event(launch, coord.seq, k)
  <2>1. e \in EventSet /\ ~Ahead(e)
    BY <1>1, <1>2 DEF Event, EventSet, Ahead, Kinds, Replies
  <2>2. events' = Append(events, e)
    BY <1>7 DEF CoordinatorReplies
  <2>3. QED
    BY <1>1, <2>1, <2>2, OtherEventToken
<1>8. ASSUME NEW th \in late, LateThreadGoesOn(th) PROVE OneToken'
  <2>1. th.launch \in Nat /\ th.seq \in Nat /\ th.launch # launch
    <3>1. th \in LateThreads
      BY <1>1, TypeParts DEF ThreadOK
    <3>2. th.launch \in Nat /\ th.seq \in Nat
      BY <3>1 DEF LateThreads
    <3>3. QED
      BY <1>1, <3>2 DEF Past
  <2>2. \/ events' = events
        \/ \E s \in Nat, k \in Kinds \union Replies :
             events' = Append(events, Event(th.launch, s, k))
    BY <1>8, <2>1 DEF LateThreadGoesOn
  <2>3. CASE events' = events
    <3>1. UNCHANGED <<coord, cmds>>
      BY <1>8 DEF LateThreadGoesOn
    <3>2. QED
      BY <1>1, <1>3, <2>3, <3>1, EventsSame, TokenStays DEF OneToken, Stages
  <2>4. ASSUME NEW s \in Nat, NEW k \in Kinds \union Replies,
               events' = Append(events, Event(th.launch, s, k))
        PROVE  OneToken'
    <3>1. Event(th.launch, s, k) \in EventSet /\ ~Ahead(Event(th.launch, s, k))
      BY <2>1 DEF Event, EventSet, Ahead
    <3>2. QED
      BY <1>1, <2>4, <3>1, OtherEventToken
  <2>5. QED
    BY <2>2, <2>3, <2>4
<1>9. QED
  BY <1>4, <1>5, <1>6, <1>7, <1>8 DEF RunThinks

LEMMA StepToken ==
    ASSUME TokenInv, [Next]_vars
    PROVE  TokenInv'
<1>1. PlainInv'
  BY StepPlain DEF TokenInv
<1>2. ASSUME Active', ~disturbed' PROVE OneToken'
  <2>1. RunStep /\ ~disturbed /\ PlainInv
    BY <1>2, EveryStep, DisturbedForGood DEF TokenInv
  <2>2. CASE RunLaunches
    BY <2>1, <2>2, LaunchToken
  <2>3. CASE RunRecovers
    BY <2>1, <2>3, RecoverToken DEF TokenInv, RunRecovers
  <2>4. CASE ~RunLaunches /\ ~RunRecovers
    <3>1. Steady /\ OneToken
      BY <2>1, <2>4 DEF RunStep, Steady, TokenInv
    <3>2. QED
      BY <2>1, <2>4, <3>1, DecideToken, PromptToken, MessageToken, ThinkToken DEF RunStep
  <2>5. QED
    BY <2>2, <2>3, <2>4
<1>3. QED
  BY <1>1, <1>2 DEF TokenInv

\* The session never has two turns for one undisturbed run, however many messages,
\* countdowns, failures and relaunches it has seen.
THEOREM OnePromptIsOut == Spec => []OnePromptAtATime
<1>1. Init => TokenInv
  BY InitPlain DEF Init, TokenInv, Active
<1>2. TokenInv /\ [Next]_vars => TokenInv'
  BY StepToken
<1>3. TokenInv => OnePromptAtATime
  <2>1. ASSUME TokenInv, Active, ~disturbed,
               NEW i \in 1 .. Len(turns), NEW j \in 1 .. Len(turns),
               turns[i].launch = launch, turns[j].launch = launch
        PROVE  i = j
    <3>1. i \in Nat /\ j \in Nat
      BY PastTyped, <2>1 DEF TokenInv, PlainInv, PastInv
    <3>2. Holds("turn", i) /\ Holds("turn", j)
      BY <2>1 DEF Holds
    <3>3. QED
      BY <2>1, <3>1, <3>2 DEF TokenInv, OneToken, Stages
  <2>2. QED
    BY <2>1 DEF OnePromptAtATime
<1> QED
  BY <1>1, <1>2, <1>3, PTL DEF Spec
=============================================================================

------------------------------ MODULE TurnRetry ------------------------------
(***************************************************************************)
(* One task of the turn engine seen from its provider requests: run_turn   *)
(* and try_run_turn (core/src/codex/streaming.rs), the scratchpad that      *)
(* carries the progress of a dropped attempt into the next one              *)
(* (core/src/codex/session.rs), the loop of run_agent around them, and the  *)
(* choice of another account when one is limited                            *)
(* (core/src/account_switching.rs, core/src/client.rs).                     *)
(*                                                                         *)
(* A request input is abstracted to what the model is told of its tool      *)
(* calls: which calls it holds, which outputs, and which outcomes a         *)
(* compaction summary still tells.  A call is named by the work it asks     *)
(* for.                                                                     *)
(***************************************************************************)
EXTENDS Naturals

CONSTANTS
    Works,            \* what the model may ask a tool to do
    Custom,           \* the works it asks for with a custom tool call
    Accounts,         \* the connected accounts
    ChatGpt,          \* those signed in with ChatGPT; the others are API keys
    InvalidAuth,      \* those whose stored snapshot says the sign-in is invalid
    MaxRetries,       \* stream_max_retries of the provider
    AutoSwitch,       \* auto_switch_accounts_on_rate_limit
    ApiKeyFallback,   \* api_key_fallback_on_all_accounts_limited
    SparkModel,       \* the configured model has a usage-limit fallback
    LargerModel,      \* a model with a larger context window exists
    Failures,         \* the ways a request may fail
    PinnedAtStart,    \* whether an account is pinned when the task starts
    LimitedAtStart,   \* accounts whose limit may be reached before it starts
    MaxOutages,       \* bound: connectivity failures of one task
    MaxForgets,       \* bound: compactions of one task that leave outcomes out
    NoScratch         \* turn_scratchpad = None

FailureKinds == {"stream", "connect", "limit", "limitMessage", "notIncluded",
                 "overflow", "fatal"}

ASSUME WorksAssumption == Custom \subseteq Works
ASSUME AccountsAssumption ==
    /\ ChatGpt \subseteq Accounts /\ InvalidAuth \subseteq ChatGpt
    /\ LimitedAtStart \subseteq Accounts
ASSUME RetriesAssumption ==
    MaxRetries \in Nat /\ MaxOutages \in Nat /\ MaxForgets \in Nat
ASSUME FlagsAssumption ==
    /\ AutoSwitch \in BOOLEAN /\ ApiKeyFallback \in BOOLEAN
    /\ SparkModel \in BOOLEAN /\ LargerModel \in BOOLEAN
    /\ PinnedAtStart \subseteq BOOLEAN
ASSUME NoScratchAssumption == NoScratch \notin
    [calls : SUBSET Works, outs : SUBSET Works, told : SUBSET Works]
ASSUME FailuresAssumption == Failures \subseteq FailureKinds

VARIABLES
    phase,            \* where the task is
    retries,          \* the retry budget used so far by this run_turn
    didCompact, didContextFallback, didUsageFallback,
    model,            \* "base", or the override the fallbacks forced
    history,          \* the session's conversation history
    tail,             \* pending_input_tail of this iteration
    input, attempt,   \* run_turn's input and attempt_input
    scratch,          \* turn_scratchpad
    output,           \* what this attempt has processed so far
    tried,            \* RateLimitSwitchState of this run_turn
    clientTried,      \* RateLimitSwitchState of this client.stream call
    account, pinned,  \* the active account; a session account override is set
    quota,            \* the provider's side of each account
    exhausted,        \* ChatGPT accounts whose stored snapshot says blocked or used up
    outages,          \* connectivity failures so far
    proactive,        \* did_proactive_compact_this_iteration
    ranHere,          \* history: works this run_turn ran and has not discarded
    recorded,         \* history: works the task's finished run_turns returned,
                      \* without those that a compaction has left out
    forgets           \* compactions so far that left outcomes out

turnVars == <<retries, didCompact, didContextFallback, didUsageFallback, model>>
itemVars == <<history, tail, input, attempt, scratch, output>>
accountVars == <<tried, clientTried, account, pinned, quota, exhausted>>
taskVars == <<proactive, recorded, forgets>>
vars == <<phase, turnVars, itemVars, accountVars, outages, ranHere, taskVars>>

-----------------------------------------------------------------------------
(* Items *)

Items == [calls : SUBSET Works, outs : SUBSET Works, told : SUBSET Works]
NoItems == [calls |-> {}, outs |-> {}, told |-> {}]

Join(a, b) == [calls |-> a.calls \union b.calls,
               outs  |-> a.outs \union b.outs,
               told  |-> a.told \union b.told]

\* What the model knows the outcome of when it reads the items.
Known(items) == items.outs \union items.told

\* An item pushed with its response (scratchpad_push, ProcessedResponseItem).
Push(items, w) == [items EXCEPT !.calls = @ \union {w}, !.outs = @ \union {w}]

\* drain_scratchpad_into_attempt keeps function and local shell calls; every
\* response is appended, that of a custom tool call too.
Drained(items, sp) ==
    IF sp = NoScratch THEN items
    ELSE [items EXCEPT !.calls = @ \union (sp.calls \ Custom),
                       !.outs  = @ \union sp.outs]

\* Of a custom tool call, answered with a function call output, the match of
\* run_agent records nothing; the response is queued as pending input and
\* recorded when the next iteration drains it.
Recorded(items, out) ==
    [items EXCEPT !.calls = @ \union (out.calls \ Custom),
                  !.outs  = @ \union out.outs]

\* A compaction leaves a summary that tells some of the outcomes it read: all of
\* them, or fewer when the oldest items were dropped to make its own request
\* fit, or none when no request fits and the history is reset.
Compacted(told) == [NoItems EXCEPT !.told = told]

Tells(items, told) ==
    IF told = Known(items) THEN UNCHANGED forgets
    ELSE forgets < MaxForgets /\ forgets' = forgets + 1

\* The variant puts the pending outputs back without looking for their calls.
RebuiltUnreconciled(compacted, pending, previous) ==
    [compacted EXCEPT !.outs = @ \union pending]

\* The variant forgets the pending outputs.
RebuiltWithoutPending(compacted, pending, previous) == compacted

\* reconcile_pending_tool_outputs: an output goes back with its call, or not at
\* all when the previous input does not hold the call.
Rebuilt(compacted, pending, previous) ==
    LET back == pending \intersect (compacted.calls \union previous.calls)
    IN  Join(compacted, [NoItems EXCEPT !.calls = back, !.outs = back])

-----------------------------------------------------------------------------
(* Accounts *)

\* select_next_account_id for a limited account: the accounts it may return.
\* Which of several comes first is a matter of usage figures, left open.
UntriedChatGpt(marked, current) ==
    ChatGpt \ (marked \union exhausted \union InvalidAuth \union {current})
AllChatGptUnavailable(marked) == ChatGpt \subseteq marked \union exhausted
\* (The variant takes an API key as soon as no ChatGPT account can be picked.)
NextAccountsEager(marked, current) ==
    IF UntriedChatGpt(marked, current) # {}
    THEN UntriedChatGpt(marked, current)
    ELSE IF ApiKeyFallback
         THEN (Accounts \ ChatGpt) \ (marked \union {current})
         ELSE {}

NextAccounts(marked, current) ==
    IF UntriedChatGpt(marked, current) # {}
    THEN UntriedChatGpt(marked, current)
    ELSE IF ApiKeyFallback /\ AllChatGptUnavailable(marked)
         THEN (Accounts \ ChatGpt) \ (marked \union {current})
         ELSE {}

\* The guard both users of the selection share.
MaySwitch == AutoSwitch /\ ~pinned

\* activate_account: it sets the session account override too.
Activate(next) == account' = next /\ pinned' = TRUE

-----------------------------------------------------------------------------
(* Attempts *)

Running == {"connect", "stream", "backoff", "limited", "offline"}
Final == {"done", "failed", "aborted"}

\* The head of the loop of run_turn: a new request with a new scratchpad.
NextAttempt(items) ==
    /\ phase' = "connect"
    /\ attempt' = items
    /\ scratch' = NoItems
    /\ output' = NoItems
    /\ clientTried' = {}

\* The locals of run_turn at its start.
FreshTurn ==
    /\ retries' = 0 /\ model' = "base" /\ tried' = {}
    /\ didCompact' = FALSE /\ didContextFallback' = FALSE
    /\ didUsageFallback' = FALSE

\* The task is over: the locals of run_agent and run_turn are dropped.
Over(how) ==
    /\ phase' = how
    /\ FreshTurn /\ clientTried' = {} /\ proactive' = FALSE /\ ranHere' = {}
    /\ tail' = {} /\ input' = NoItems /\ attempt' = NoItems /\ output' = NoItems
    /\ UNCHANGED <<account, pinned, quota, exhausted>>

TypeOK ==
    /\ phase \in Running \union Final
    /\ retries \in 0..MaxRetries
    /\ didCompact \in BOOLEAN /\ didContextFallback \in BOOLEAN
    /\ didUsageFallback \in BOOLEAN /\ pinned \in BOOLEAN
    /\ model \in {"base", "fallback", "larger"}
    /\ history \in Items /\ input \in Items /\ attempt \in Items
    /\ output \in Items /\ scratch \in Items \union {NoScratch}
    /\ tail \subseteq Works
    /\ tried \subseteq Accounts /\ clientTried \subseteq Accounts
    /\ account \in Accounts /\ exhausted \subseteq ChatGpt
    /\ quota \in [Accounts -> {"fresh", "out", "reset"}]
    /\ outages \in 0..MaxOutages
    /\ proactive \in BOOLEAN /\ forgets \in 0..MaxForgets
    /\ ranHere \subseteq Works /\ recorded \subseteq Works

\* A task starts with a history that may hold earlier work, on any account.
\* The terminal UI pins the active account when it starts; exec does not.
Init ==
    /\ phase = "connect"
    /\ retries = 0 /\ model = "base"
    /\ didCompact = FALSE /\ didContextFallback = FALSE
    /\ didUsageFallback = FALSE
    /\ history = NoItems /\ tail = {} /\ input = NoItems /\ attempt = NoItems
    /\ scratch = NoItems /\ output = NoItems
    /\ tried = {} /\ clientTried = {}
    /\ account \in Accounts /\ pinned \in PinnedAtStart
    /\ \E out \in SUBSET LimitedAtStart :
          quota = [a \in Accounts |-> IF a \in out THEN "out" ELSE "fresh"]
    /\ exhausted \in SUBSET (ChatGpt \ {account})
    /\ outages = 0 /\ ranHere = {} /\ recorded = {}
    /\ proactive = FALSE /\ forgets = 0

\* client.stream is accepted and the response starts.
Opened ==
    /\ phase = "connect" /\ quota[account] # "out"
    /\ phase' = "stream"
    /\ UNCHANGED <<turnVars, itemVars, accountVars, outages, ranHere, taskVars>>

\* 429 inside client.stream: it switches the account and sends again itself.
ClientSwitches ==
    /\ phase = "connect" /\ quota[account] = "out" /\ MaySwitch
    /\ clientTried' = clientTried \union {account}
    /\ \E next \in NextAccounts(clientTried', account) : Activate(next)
    /\ UNCHANGED <<phase, turnVars, itemVars, tried, quota, exhausted,
                   outages, ranHere, taskVars>>

\* OutputItemDone with a tool call the model has no outcome of:
\* handle_response_item runs it and scratchpad_push saves it.
ToolCall(w) ==
    /\ phase = "stream"
    /\ w \notin Known(attempt) \union output.calls
    /\ output' = Push(output, w)
    /\ scratch' = IF scratch = NoScratch THEN NoScratch ELSE Push(scratch, w)
    /\ ranHere' = ranHere \union {w}
    /\ UNCHANGED <<phase, turnVars, history, tail, input, attempt,
                   accountVars, outages, taskVars>>

\* response.completed: run_turn returns what this attempt processed, and
\* run_agent records it.
TurnReturns == phase = "stream" /\ UNCHANGED outages

NextIteration(pending) ==
    /\ tail' = pending /\ ranHere' = {}
    /\ FreshTurn
    /\ input' = history' /\ NextAttempt(history')
    /\ UNCHANGED <<account, pinned, quota, exhausted>>

Returned == Recorded(history, output)

\* No tool ran: the task is over.
Completed_Ends ==
    /\ TurnReturns /\ output.outs = {}
    /\ Over("done")
    /\ scratch' = NoScratch /\ history' = Returned
    /\ UNCHANGED <<recorded, forgets>>

\* Otherwise the loop goes round with the responses as pending input.  Of a
\* compaction that is due first and fails, this is what is left.
Completed_GoesOn ==
    /\ TurnReturns /\ output.outs # {}
    /\ proactive' = FALSE
    /\ history' = Returned /\ recorded' = recorded \union output.outs
    /\ NextIteration(output.outs)
    /\ UNCHANGED forgets

\* The token limit is reached: the head of the loop compacts the history, the
\* responses in it, and puts those still pending back into the new one, which
\* leaves none pending.
Completed_CompactsFirst ==
    /\ TurnReturns /\ output.outs # {}
    /\ proactive' = TRUE
    /\ \E told \in SUBSET Known(Returned) :
          /\ Tells(Returned, told)
          /\ history' = Rebuilt(Compacted(told), output.outs, Returned)
          /\ recorded' = (recorded \union output.outs)
                         \intersect (told \union (output.outs \ Custom))
    /\ NextIteration({})

\* The limit is reached by an answer without tool calls: one compaction, and one
\* more round, with its result ignored.
Completed_CompactsAfter ==
    /\ TurnReturns /\ output.outs = {}
    /\ ~proactive /\ proactive' = TRUE
    /\ \/ history' = Returned /\ UNCHANGED <<recorded, forgets>>
       \/ \E told \in SUBSET Known(Returned) :
             /\ Tells(Returned, told)
             /\ history' = Compacted(told)
             /\ recorded' = recorded \intersect told
    /\ NextIteration({})

Completed == \/ Completed_Ends \/ Completed_GoesOn
             \/ Completed_CompactsFirst \/ Completed_CompactsAfter

-----------------------------------------------------------------------------
(* Failed attempts: the match of run_turn on the error *)

\* A failure of this kind comes from the provider now.  The messages that
\* run_turn reads come with the events of a response that has started.
Fails(kind) ==
    /\ kind \in Failures
    /\ \/ phase = "stream"
       \/ phase = "connect" /\ kind \notin {"limit", "limitMessage", "overflow"}

\* The attempts so far are dropped with their progress: clear_scratchpad and
\* attempt_input = input.
StartOver == NextAttempt(input) /\ ranHere' = {} /\ UNCHANGED taskVars

\* The scratchpad of this attempt is overwritten by the next one unread.
SendAgain ==
    /\ NextAttempt(attempt)
    /\ ranHere' = ranHere \intersect attempt.outs
    /\ UNCHANGED taskVars

\* UsageLimitReached: of a request the client could not send from another
\* account (429), or in the middle of a response (response.failed).
LimitReached ==
    \/ /\ phase = "connect" /\ quota[account] = "out" /\ UNCHANGED quota
       /\ ~MaySwitch \/ NextAccounts(clientTried \union {account}, account) = {}
    \/ /\ Fails("limit") /\ quota[account] = "fresh"
       /\ quota' = [quota EXCEPT ![account] = "out"]

\* spark_fallback_model: only the configured model can have a fallback.
CanUseFallback == SparkModel /\ model = "base" /\ ~didUsageFallback

UseFallback ==
    /\ CanUseFallback
    /\ didUsageFallback' = TRUE /\ model' = "fallback" /\ retries' = 0
    /\ StartOver
    /\ UNCHANGED <<didCompact, didContextFallback>>

LimitSwitches ==
    /\ LimitReached /\ MaySwitch
    /\ tried' = tried \union {account}
    /\ \E next \in NextAccounts(tried', account) : Activate(next)
    /\ retries' = 0
    /\ SendAgain
    /\ UNCHANGED <<didCompact, didContextFallback, didUsageFallback, model,
                   history, tail, input, exhausted, outages>>

\* No other account: switch_active_account_on_rate_limit has marked this one.
CannotSwitch ==
    /\ tried' = IF MaySwitch THEN tried \union {account} ELSE tried
    /\ ~MaySwitch \/ NextAccounts(tried', account) = {}
    /\ UNCHANGED <<account, pinned>>

LimitFallsBack ==
    /\ LimitReached /\ CannotSwitch /\ UseFallback
    /\ UNCHANGED <<history, tail, input, exhausted, outages>>

LimitWaits ==
    /\ LimitReached /\ CannotSwitch /\ ~CanUseFallback
    /\ phase' = "limited"
    /\ UNCHANGED <<turnVars, itemVars, clientTried, exhausted, outages,
                   ranHere, taskVars>>

\* The sleep until the limit resets is over.
LimitResets ==
    /\ phase = "limited"
    /\ quota' = [quota EXCEPT ![account] = "reset"]
    /\ retries' = 0
    /\ SendAgain
    /\ UNCHANGED <<didCompact, didContextFallback, didUsageFallback, model,
                   history, tail, input, tried, account, pinned, exhausted,
                   outages>>

\* UsageNotIncluded, or a stream error whose message names the usage limit.
MessageFallsBack ==
    /\ Fails("notIncluded") \/ Fails("limitMessage")
    /\ UseFallback
    /\ UNCHANGED <<history, tail, input, tried, account, pinned, quota,
                   exhausted, outages>>

\* The variant forgets that it has compacted.
Overflow_CompactsAgain ==
    /\ Fails("overflow") /\ ~didCompact
    /\ StartOver
    /\ UNCHANGED <<retries, didCompact, didContextFallback, didUsageFallback,
                   model, history, input, tail, tried, account, pinned, quota,
                   exhausted, outages>>

\* Context overflow: compact once and rebuild the request from what is left and
\* the pending outputs, which the new history does not hold.  A compaction that
\* fails returns no history and leaves the session's alone.
Overflow_Compacts ==
    /\ Fails("overflow") /\ ~didCompact
    /\ didCompact' = TRUE
    /\ \/ StartOver /\ UNCHANGED <<history, input>>
       \/ /\ \E told \in SUBSET Known(history) :
                /\ Tells(history, told)
                /\ history' = Compacted(told)
                /\ recorded' = recorded \intersect told
          /\ input' = Rebuilt(history', tail, input)
          /\ NextAttempt(input')
          /\ ranHere' = {} /\ UNCHANGED proactive
    /\ UNCHANGED <<retries, didContextFallback, didUsageFallback, model, tail,
                   tried, account, pinned, quota, exhausted, outages>>

\* Still too long: once, a model with a larger context window.
CanUseLarger == LargerModel /\ model # "larger" /\ ~didContextFallback

Overflow_Larger ==
    /\ Fails("overflow") /\ didCompact /\ CanUseLarger
    /\ didContextFallback' = TRUE /\ didCompact' = FALSE
    /\ model' = "larger" /\ retries' = 0
    /\ StartOver
    /\ UNCHANGED <<didUsageFallback, history, tail, input, tried, account,
                   pinned, quota, exhausted, outages>>

\* Every other error that is retried.
Dropped(kind) ==
    /\ Fails(kind)
    /\ \/ kind \in {"stream", "connect"}
       \/ kind = "limitMessage" /\ ~CanUseFallback
       \/ kind = "overflow" /\ didCompact /\ ~CanUseLarger
    /\ IF kind = "connect"
       THEN outages < MaxOutages /\ outages' = outages + 1
       ELSE UNCHANGED outages

\* The variant takes the scratchpad and drops it.
DropScratchpad ==
    /\ scratch' = NoScratch
    /\ UNCHANGED attempt

\* take_scratchpad, drained into the next attempt's input.
DrainScratchpad ==
    /\ attempt' = Drained(attempt, scratch)
    /\ scratch' = NoScratch

\* (The variant does not look at the budget.)
Drop_RetriesForEver(kind) ==
    /\ Dropped(kind)
    /\ retries' = retries + 1
    /\ phase' = "backoff"
    /\ DrainScratchpad
    /\ UNCHANGED <<didCompact, didContextFallback, didUsageFallback, model,
                   history, tail, input, output, accountVars, ranHere, taskVars>>

Drop_Retries(kind) ==
    /\ Dropped(kind) /\ retries < MaxRetries
    /\ retries' = retries + 1
    /\ phase' = "backoff"
    /\ DrainScratchpad
    /\ UNCHANGED <<didCompact, didContextFallback, didUsageFallback, model,
                   history, tail, input, output, accountVars, ranHere, taskVars>>

\* The budget is spent, but the network is down: wait for it instead.
Drop_WaitsForNetwork ==
    /\ Dropped("connect") /\ retries >= MaxRetries
    /\ phase' = "offline"
    /\ DrainScratchpad
    /\ UNCHANGED <<turnVars, history, tail, input, output, accountVars,
                   ranHere, taskVars>>

Drop_Fails(kind) ==
    /\ Dropped(kind) /\ kind # "connect" /\ retries >= MaxRetries
    /\ Over("failed")
    /\ UNCHANGED <<history, scratch, recorded, forgets>>

\* Errors run_turn returns at once.
FailsAtOnce ==
    /\ Fails("fatal") \/ (Fails("notIncluded") /\ ~CanUseFallback)
    /\ Over("failed")
    /\ UNCHANGED <<history, scratch, outages, recorded, forgets>>

\* The backoff is over.
Wakes ==
    /\ phase = "backoff"
    /\ NextAttempt(attempt)
    /\ UNCHANGED <<turnVars, history, tail, input, tried, account, pinned,
                   quota, exhausted, outages, ranHere, taskVars>>

\* wait_for_connectivity returns: the provider answered a probe.
NetworkIsBack ==
    /\ phase = "offline"
    /\ retries' = 0
    /\ NextAttempt(attempt)
    /\ UNCHANGED <<didCompact, didContextFallback, didUsageFallback, model,
                   history, tail, input, tried, account, pinned, quota,
                   exhausted, outages, ranHere, taskVars>>

\* Session::abort at any of the awaits above.
Abort ==
    /\ phase \in Running
    /\ Over("aborted")
    /\ scratch' = NoScratch
    /\ UNCHANGED <<history, outages, recorded, forgets>>

Provider ==
    \/ Opened \/ ClientSwitches \/ Completed
    \/ \E w \in Works : ToolCall(w)
    \/ LimitSwitches \/ LimitFallsBack \/ LimitWaits
    \/ MessageFallsBack \/ Overflow_Compacts \/ Overflow_Larger
    \/ \E kind \in Failures : Drop_Retries(kind) \/ Drop_Fails(kind)
    \/ Drop_WaitsForNetwork \/ FailsAtOnce

Timers == LimitResets \/ Wakes \/ NetworkIsBack

Next == Provider \/ Timers \/ Abort

Spec == Init /\ [][Next]_vars

\* A request ends one way or another (stream_idle_timeout), a sleep is over
\* some time, and wait_for_connectivity probes until the network is back.
LiveSpec == Spec /\ WF_vars(Provider) /\ WF_vars(Timers)

-----------------------------------------------------------------------------
(* Properties *)

\* What ran in the attempts of a run_turn is in the input of the next attempt,
\* or in the scratchpad that will be drained into it, unless a path that says
\* so has thrown it away: a stream that breaks in the middle of a turn does not
\* make the model ask again for a tool that has run.
ProgressKept ==
    phase \in Running =>
        ranHere \subseteq attempt.outs \union
                          (IF scratch = NoScratch THEN {} ELSE scratch.outs)

\* What the earlier iterations of the task returned is in every later request,
\* as an output or in a summary, unless a compaction has left it out: through
\* fallbacks to other models, accounts and any number of retries.  And whatever
\* a compaction leaves out, the outputs of function and shell calls that are in
\* pending_input_tail are in the request made from it.
RecordedStaysKnown ==
    phase \in Running => recorded \union (tail \ Custom) \subseteq Known(attempt)

\* A request never holds the output of a function or shell call without the
\* call: not after a drained scratchpad nor after a compaction that lost the
\* call of an output that is still pending.
OutputsHaveCalls ==
    phase \in Running => attempt.outs \ Custom \subseteq attempt.calls

\* A task moves to an API key account only when each ChatGPT account is known
\* to be limited: by its stored snapshot, or by refusing a request of this turn
\* ("only if every connected ChatGPT account is rate/usage limited").
ApiKeyOnlyIfAllLimited ==
    [][account' # account /\ account' \notin ChatGpt =>
           \A a \in ChatGpt :
               \/ a \in exhausted
               \/ a \in tried' \union clientTried' /\ quota'[a] = "out"]_vars

\* Whatever the provider does, the task ends: every way round the loop of
\* run_turn uses up a retry, a fallback, an account or a wait that ends.
TurnEnds == <>(phase \in Final)

=============================================================================

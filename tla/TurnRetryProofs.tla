-------------------------- MODULE TurnRetryProofs --------------------------
(***************************************************************************)
(* Theorems about TurnRetry, for every set of works and accounts and every *)
(* retry budget.  The induction is on IInv: the progress of dropped         *)
(* attempts is safe because a request always has a scratchpad, and because  *)
(* the history, the input of run_turn and the input of the attempt each     *)
(* hold what was recorded and not left out by a compaction, and the input    *)
(* of run_turn holds the calls of the outputs still pending, from which a    *)
(* compaction puts them back.                                                *)
(* The rounds of a turn come to an end by the rank of EveryRoundUsesUp,      *)
(* which every step of a turn brings down.                                   *)
(***************************************************************************)
EXTENDS TurnRetry, TLAPS

\* An output of a function or shell call comes with its call.
Paired(items) == items.outs \ Custom \subseteq items.calls

HasScratch ==
    /\ phase \in {"connect", "stream", "limited"} => scratch # NoScratch
    /\ phase \in {"backoff", "offline"} => scratch = NoScratch

EverywherePaired ==
    /\ Paired(history) /\ Paired(input) /\ Paired(attempt) /\ Paired(output)
    /\ scratch # NoScratch => Paired(scratch)

\* What a request has to tell the model.
Owed == recorded \union (tail \ Custom)

EverywhereRecorded ==
    /\ recorded \subseteq Known(history)
    /\ phase \in Running => /\ Owed \subseteq Known(input)
                            /\ Owed \subseteq Known(attempt)
                            /\ tail \ Custom \subseteq input.calls

\* Without an override no switch has taken place, in this turn or request.
SwitchPins ==
    ~pinned => tried \subseteq {account} /\ clientTried = {}

IInv ==
    /\ TypeOK
    /\ HasScratch
    /\ ProgressKept
    /\ EverywherePaired
    /\ EverywhereRecorded
    /\ SwitchPins

-----------------------------------------------------------------------------
(* The operators on items *)

LEMMA NoItemsType == NoItems \in Items
BY DEF NoItems, Items

\* The operators on items return items.
LEMMA PushType == \A a \in Items, w \in Works : Push(a, w) \in Items
BY DEF Push, Items

LEMMA DrainedType ==
    \A a \in Items, sp \in Items \union {NoScratch} : Drained(a, sp) \in Items
BY DEF Drained, Items

LEMMA RecordedType == \A a, b \in Items : Recorded(a, b) \in Items
BY DEF Recorded, Items

LEMMA CompactedType == \A told \in SUBSET Works : Compacted(told) \in Items
BY DEF Compacted, NoItems, Items

LEMMA KnownType == \A a \in Items : Known(a) \subseteq Works
BY DEF Known, Items

LEMMA RebuiltType ==
    \A a, b \in Items, pending \in SUBSET Works :
        Rebuilt(a, pending, b) \in Items
BY DEF Rebuilt, Join, NoItems, Items

\* A scratchpad is never the absent one.
LEMMA ItemsAreNotNoScratch == \A a \in Items : a # NoScratch
BY NoScratchAssumption DEF Items

\* They keep outputs with their calls.
LEMMA PushPairs ==
    \A a \in Items, w \in Works : Paired(a) => Paired(Push(a, w))
BY DEF Paired, Push, Items

LEMMA DrainedPairs ==
    \A a \in Items, sp \in Items \union {NoScratch} :
        Paired(a) /\ (sp # NoScratch => Paired(sp)) => Paired(Drained(a, sp))
BY DEF Paired, Drained, Items

LEMMA RecordedPairs ==
    \A a, b \in Items : Paired(a) /\ Paired(b) => Paired(Recorded(a, b))
BY DEF Paired, Recorded, Items

LEMMA CompactedPairs == \A told : Paired(Compacted(told))
BY DEF Paired, Compacted, NoItems

LEMMA RebuiltPairs ==
    \A a, b \in Items, pending \in SUBSET Works :
        Paired(a) => Paired(Rebuilt(a, pending, b))
BY DEF Paired, Rebuilt, Join, NoItems, Items

\* And they lose nothing that was known.
LEMMA DrainedKeeps ==
    \A a \in Items, sp \in Items \union {NoScratch} :
        /\ Known(a) \subseteq Known(Drained(a, sp))
        /\ a.outs \subseteq Drained(a, sp).outs
        /\ sp # NoScratch => sp.outs \subseteq Drained(a, sp).outs
BY DEF Known, Drained, Items

LEMMA RecordedKeeps ==
    \A a, b \in Items :
        /\ Known(a) \subseteq Known(Recorded(a, b))
        /\ b.outs \subseteq Known(Recorded(a, b))
        /\ b.calls \ Custom \subseteq Recorded(a, b).calls
BY DEF Known, Recorded, Items

LEMMA CompactedKeeps == \A told : Known(Compacted(told)) = told
BY DEF Known, Compacted, NoItems

LEMMA RebuiltKeeps ==
    \A a, b \in Items, pending \in SUBSET Works :
        /\ Known(a) \subseteq Known(Rebuilt(a, pending, b))
        /\ pending \intersect b.calls \subseteq Known(Rebuilt(a, pending, b))
        /\ pending \intersect b.calls \subseteq Rebuilt(a, pending, b).calls
BY DEF Known, Rebuilt, Join, NoItems, Items

\* A compaction that leaves something out is counted.
LEMMA TellsType ==
    ASSUME IInv, NEW items, NEW told, Tells(items, told)
    PROVE  forgets' \in 0..MaxForgets
BY RetriesAssumption DEF IInv, TypeOK, Tells

-----------------------------------------------------------------------------
(* The induction *)

LEMMA InitEstablishes == Init => IInv
<1> SUFFICES ASSUME Init PROVE IInv
  OBVIOUS
<1>1. TypeOK
  <2>1. /\ retries \in 0..MaxRetries /\ outages \in 0..MaxOutages
        /\ forgets \in 0..MaxForgets
    BY RetriesAssumption DEF Init
  <2>2. /\ didCompact \in BOOLEAN /\ didContextFallback \in BOOLEAN
        /\ didUsageFallback \in BOOLEAN /\ pinned \in BOOLEAN
    BY FlagsAssumption DEF Init
  <2>3. quota \in [Accounts -> {"fresh", "out", "reset"}]
    BY DEF Init
  <2>4. /\ phase \in Running \union Final
        /\ model \in {"base", "fallback", "larger"}
        /\ history \in Items /\ input \in Items /\ attempt \in Items
        /\ output \in Items /\ scratch \in Items \union {NoScratch}
        /\ tail \subseteq Works
        /\ tried \subseteq Accounts /\ clientTried \subseteq Accounts
        /\ account \in Accounts /\ exhausted \subseteq ChatGpt
        /\ ranHere \subseteq Works /\ recorded \subseteq Works
        /\ proactive \in BOOLEAN
    BY NoItemsType DEF Init, Running
  <2> QED
    BY <2>1, <2>2, <2>3, <2>4 DEF TypeOK
<1>2. HasScratch
  BY NoItemsType, ItemsAreNotNoScratch DEF Init, HasScratch
<1>3. ProgressKept /\ EverywhereRecorded /\ SwitchPins
  BY DEF Init, ProgressKept, EverywhereRecorded, Owed, SwitchPins, NoItems
<1>4. EverywherePaired
  BY DEF Init, EverywherePaired, Paired, NoItems
<1> QED
  BY <1>1, <1>2, <1>3, <1>4 DEF IInv

LEMMA ZeroRetries == 0 \in 0..MaxRetries
BY RetriesAssumption

\* The selection returns accounts.
LEMMA NextAccountsType ==
    \A marked, current : NextAccounts(marked, current) \subseteq Accounts
BY AccountsAssumption DEF NextAccounts, UntriedChatGpt

LEMMA OpenedStep == IInv /\ Opened => IInv'
BY DEF IInv, TypeOK, HasScratch, ProgressKept, EverywherePaired,
       EverywhereRecorded, SwitchPins, Opened, Running, Final, Paired, Known,
       turnVars, itemVars, accountVars, taskVars, Owed

LEMMA ClientSwitchesStep == IInv /\ ClientSwitches => IInv'
BY NextAccountsType
   DEF IInv, TypeOK, HasScratch, ProgressKept, EverywherePaired,
       EverywhereRecorded, SwitchPins, ClientSwitches, Activate, Running,
       Paired, Known, turnVars, itemVars, taskVars, Owed

LEMMA ToolCallStep ==
    ASSUME NEW w \in Works, IInv, ToolCall(w)
    PROVE  IInv'
<1> USE DEF IInv, ToolCall, accountVars, turnVars, taskVars, Running, Final
<1>1. Push(output, w) \in Items /\ Paired(Push(output, w))
  BY PushType, PushPairs DEF TypeOK, EverywherePaired
<1>2. scratch # NoScratch /\ Push(scratch, w) \in Items
      /\ Paired(Push(scratch, w))
  BY PushType, PushPairs DEF TypeOK, EverywherePaired, HasScratch
<1>3. Push(scratch, w).outs = scratch.outs \union {w}
  BY <1>2 DEF TypeOK, Push, Items
<1>4. Push(scratch, w) # NoScratch
  BY <1>2, ItemsAreNotNoScratch
<1>5. TypeOK' /\ HasScratch' /\ SwitchPins'
  BY <1>1, <1>2, <1>4 DEF TypeOK, HasScratch, SwitchPins
<1>6. ProgressKept'
  BY <1>2, <1>3, <1>4 DEF ProgressKept
<1>7. EverywherePaired' /\ EverywhereRecorded'
  BY <1>1, <1>2, <1>4
  DEF EverywherePaired, EverywhereRecorded, Owed, Paired, Known
<1> QED
  BY <1>5, <1>6, <1>7

\* The head of the loop, from items that hold what IInv asks of an input: the
\* part of IInv' that speaks of the new attempt.
LEMMA NextAttemptStep ==
    ASSUME IInv, NEW items \in Items, NextAttempt(items),
           Paired(items), Owed' \subseteq Known(items),
           ranHere' \subseteq items.outs
    PROVE  /\ phase' \in Running /\ attempt' \in Items
           /\ scratch' \in Items /\ scratch' # NoScratch
           /\ output' \in Items /\ clientTried' = {}
           /\ HasScratch' /\ ProgressKept'
           /\ Paired(attempt') /\ Paired(output') /\ Paired(scratch')
           /\ Owed' \subseteq Known(attempt')
<1>1. NoItems \in Items /\ NoItems # NoScratch /\ Paired(NoItems)
  BY NoItemsType, ItemsAreNotNoScratch DEF Paired, NoItems
<1> QED
  BY <1>1 DEF NextAttempt, HasScratch, ProgressKept, Running, Paired, Owed, Known

\* What each use of it still has to show.
LEMMA NextAttemptSuffices ==
    ASSUME IInv, NEW items \in Items, NextAttempt(items),
           Paired(items), Owed' \subseteq Known(items),
           ranHere' \subseteq items.outs,
           history' \in Items, Paired(history'),
           recorded' \subseteq Known(history'),
           input' \in Items, Paired(input'), Owed' \subseteq Known(input'),
           tail' \ Custom \subseteq input'.calls,
           proactive' \in BOOLEAN, forgets' \in 0..MaxForgets,
           retries' \in 0..MaxRetries, outages' \in 0..MaxOutages,
           didCompact' \in BOOLEAN, didContextFallback' \in BOOLEAN,
           didUsageFallback' \in BOOLEAN, pinned' \in BOOLEAN,
           model' \in {"base", "fallback", "larger"},
           tail' \subseteq Works, tried' \subseteq Accounts,
           account' \in Accounts, exhausted' = exhausted,
           quota' \in [Accounts -> {"fresh", "out", "reset"}],
           ranHere' \subseteq Works, recorded' \subseteq Works,
           ~pinned' => tried' \subseteq {account'}
    PROVE  IInv'
<1>1. /\ phase' \in Running /\ attempt' \in Items
      /\ scratch' \in Items /\ scratch' # NoScratch
      /\ output' \in Items /\ clientTried' = {}
      /\ HasScratch' /\ ProgressKept'
      /\ Paired(attempt') /\ Paired(output') /\ Paired(scratch')
      /\ Owed' \subseteq Known(attempt')
  BY NextAttemptStep
<1>2. TypeOK'
  BY <1>1 DEF TypeOK, IInv
<1>3. EverywherePaired'
  BY <1>1 DEF EverywherePaired, Paired
<1>4. EverywhereRecorded'
  BY <1>1 DEF EverywhereRecorded, Owed, Known
<1>5. SwitchPins'
  BY <1>1 DEF SwitchPins
<1> QED
  BY <1>1, <1>2, <1>3, <1>4, <1>5 DEF IInv

\* What run_agent records of a response: an output with its call, unless the
\* call is a custom one.
LEMMA ReturnedKeeps ==
    ASSUME IInv
    PROVE  /\ Returned \in Items /\ Paired(Returned)
           /\ recorded \union output.outs \subseteq Known(Returned)
           /\ output.outs \ Custom \subseteq Returned.calls
           /\ output.outs \subseteq Works
<1>1. /\ history \in Items /\ Paired(history) /\ output \in Items /\ Paired(output)
      /\ recorded \subseteq Known(history)
  BY DEF IInv, TypeOK, EverywherePaired, EverywhereRecorded
<1>2. Returned \in Items /\ Paired(Returned)
  BY <1>1, RecordedType, RecordedPairs DEF Returned
<1>3. /\ Known(history) \subseteq Known(Returned)
      /\ output.outs \subseteq Known(Returned)
      /\ output.calls \ Custom \subseteq Returned.calls
  BY <1>1, RecordedKeeps DEF Returned
<1>4. output.outs \ Custom \subseteq output.calls /\ output.outs \subseteq Works
  BY <1>1 DEF Paired, Items
<1> QED
  BY <1>1, <1>2, <1>3, <1>4

\* What the end of a task leaves.
LEMMA OverStep ==
    ASSUME IInv, NEW how \in Final, Over(how),
           scratch' \in {scratch, NoScratch}, outages' \in 0..MaxOutages,
           history' \in Items, Paired(history'), recorded \subseteq Known(history'),
           UNCHANGED <<recorded, forgets>>
    PROVE  IInv'
<1>1. /\ phase' = how /\ phase' \notin Running
      /\ clientTried' = {} /\ tried' = {} /\ proactive' = FALSE /\ ranHere' = {}
      /\ tail' = {} /\ input' = NoItems /\ attempt' = NoItems /\ output' = NoItems
      /\ UNCHANGED <<account, pinned, quota, exhausted>>
      /\ retries' = 0 /\ model' = "base" /\ didCompact' = FALSE
      /\ didContextFallback' = FALSE /\ didUsageFallback' = FALSE
  BY DEF Over, FreshTurn, Final, Running
<1>2. NoItems \in Items /\ Paired(NoItems)
  BY NoItemsType DEF Paired, NoItems
<1>3. TypeOK'
  BY <1>1, <1>2, ZeroRetries DEF IInv, TypeOK
<1>4. EverywherePaired' /\ EverywhereRecorded'
  <2>1. scratch' # NoScratch => scratch' = scratch
    OBVIOUS
  <2>2. EverywherePaired'
    BY <1>1, <1>2, <2>1 DEF IInv, EverywherePaired, Paired
  <2>3. EverywhereRecorded'
    BY <1>1 DEF EverywhereRecorded, Known
  <2> QED
    BY <2>2, <2>3
<1>5. HasScratch' /\ ProgressKept' /\ SwitchPins'
  BY <1>1 DEF Final, HasScratch, ProgressKept, SwitchPins, Running
<1> QED
  BY <1>3, <1>4, <1>5 DEF IInv

\* The next iteration of run_agent, from the history it has left.
LEMMA NextIterationStep ==
    ASSUME NEW pending \in SUBSET Works, IInv, NextIteration(pending),
           UNCHANGED outages,
           history' \in Items, Paired(history'),
           recorded' \union (pending \ Custom) \subseteq Known(history'),
           pending \ Custom \subseteq history'.calls,
           recorded' \subseteq Works, proactive' \in BOOLEAN,
           forgets' \in 0..MaxForgets
    PROVE  IInv'
<1>1. /\ input' = history' /\ NextAttempt(history') /\ tail' = pending
      /\ ranHere' = {} /\ tried' = {} /\ retries' = 0 /\ model' = "base"
      /\ didCompact' = FALSE /\ didContextFallback' = FALSE
      /\ didUsageFallback' = FALSE
      /\ UNCHANGED <<account, pinned, quota, exhausted>>
  BY DEF NextIteration, FreshTurn
<1>2. /\ Owed' \subseteq Known(history')
      /\ tail' \ Custom \subseteq input'.calls
  BY <1>1 DEF Owed
<1>3. /\ tail' \subseteq Works /\ outages' \in 0..MaxOutages
      /\ account' \in Accounts /\ pinned' \in BOOLEAN
      /\ quota' \in [Accounts -> {"fresh", "out", "reset"}]
  BY <1>1, ReturnedKeeps DEF IInv, TypeOK
<1> QED
  BY <1>1, <1>2, <1>3, ZeroRetries, NextAttemptSuffices

LEMMA CompletedStep == IInv /\ Completed => IInv'
<1> SUFFICES ASSUME IInv, Completed PROVE IInv'
  OBVIOUS
<1>1. /\ Returned \in Items /\ Paired(Returned)
      /\ recorded \union output.outs \subseteq Known(Returned)
      /\ output.outs \ Custom \subseteq Returned.calls
      /\ output.outs \subseteq Works /\ Known(Returned) \subseteq Works
  BY ReturnedKeeps, KnownType
<1>2. /\ recorded \subseteq Works /\ forgets \in 0..MaxForgets
      /\ outages \in 0..MaxOutages
  BY DEF IInv, TypeOK
<1>3. CASE Completed_Ends
  BY <1>1, <1>2, <1>3, OverStep DEF Completed_Ends, TurnReturns, Final
<1>4. CASE Completed_GoesOn
  <2>1. /\ NextIteration(output.outs) /\ UNCHANGED outages /\ history' = Returned
        /\ recorded' = recorded \union output.outs
        /\ proactive' = FALSE /\ forgets' = forgets
    BY <1>4 DEF Completed_GoesOn, TurnReturns
  <2> QED
    BY <1>1, <1>2, <2>1, NextIterationStep
<1>5. CASE Completed_CompactsFirst
  <2>1. PICK told \in SUBSET Known(Returned) :
           /\ Tells(Returned, told)
           /\ history' = Rebuilt(Compacted(told), output.outs, Returned)
           /\ recorded' = (recorded \union output.outs)
                          \intersect (told \union (output.outs \ Custom))
    BY <1>5 DEF Completed_CompactsFirst
  <2>2. NextIteration({}) /\ UNCHANGED outages /\ proactive' = TRUE
    BY <1>5 DEF Completed_CompactsFirst, TurnReturns
  <2>3. /\ Compacted(told) \in Items /\ Paired(Compacted(told))
        /\ Known(Compacted(told)) = told
    BY <1>1, CompactedType, CompactedPairs, CompactedKeeps
  <2>4. /\ history' \in Items /\ Paired(history')
        /\ told \subseteq Known(history')
        /\ output.outs \intersect Returned.calls \subseteq Known(history')
        /\ output.outs \intersect Returned.calls \subseteq history'.calls
    <3>1. output.outs \in SUBSET Works
      BY <1>1
    <3> QED
      BY <1>1, <2>1, <2>3, <3>1, RebuiltType, RebuiltPairs, RebuiltKeeps
  <2>5. forgets' \in 0..MaxForgets
    BY <2>1, TellsType
  <2> QED
    BY <1>1, <1>2, <2>1, <2>2, <2>4, <2>5, NextIterationStep
<1>6. CASE Completed_CompactsAfter
  <2>1. /\ NextIteration({}) /\ UNCHANGED outages /\ proactive' = TRUE
        /\ output.outs = {}
    BY <1>6 DEF Completed_CompactsAfter, TurnReturns
  <2>2. CASE history' = Returned /\ UNCHANGED <<recorded, forgets>>
    BY <1>1, <1>2, <2>1, <2>2, NextIterationStep
  <2>3. ASSUME NEW told \in SUBSET Known(Returned), Tells(Returned, told),
               history' = Compacted(told), recorded' = recorded \intersect told
        PROVE  IInv'
    <3>1. /\ history' \in Items /\ Paired(history')
          /\ Known(history') = told
      BY <1>1, <2>3, CompactedType, CompactedPairs, CompactedKeeps
    <3>2. forgets' \in 0..MaxForgets
      BY <2>3, TellsType
    <3> QED
      BY <1>2, <2>1, <2>3, <3>1, <3>2, NextIterationStep
  <2> QED
    BY <1>6, <2>2, <2>3 DEF Completed_CompactsAfter
<1> QED
  BY <1>3, <1>4, <1>5, <1>6 DEF Completed

\* Facts about the state a failed attempt starts from, in the form
\* NextAttemptSuffices asks for.
LEMMA FailedAttempt ==
    ASSUME IInv, phase \in Running
    PROVE  /\ history \in Items /\ Paired(history)
           /\ recorded \subseteq Known(history)
           /\ input \in Items /\ Paired(input)
           /\ Owed \subseteq Known(input)
           /\ tail \ Custom \subseteq input.calls
           /\ attempt \in Items /\ Paired(attempt)
           /\ Owed \subseteq Known(attempt)
           /\ proactive \in BOOLEAN /\ forgets \in 0..MaxForgets
           /\ didCompact \in BOOLEAN /\ didContextFallback \in BOOLEAN
           /\ didUsageFallback \in BOOLEAN /\ pinned \in BOOLEAN
           /\ model \in {"base", "fallback", "larger"}
           /\ retries \in 0..MaxRetries /\ outages \in 0..MaxOutages
           /\ tail \subseteq Works /\ tried \subseteq Accounts
           /\ account \in Accounts
           /\ quota \in [Accounts -> {"fresh", "out", "reset"}]
           /\ ranHere \subseteq Works /\ recorded \subseteq Works
           /\ ~pinned => tried \subseteq {account}
BY DEF IInv, TypeOK, EverywherePaired, EverywhereRecorded, SwitchPins

\* A limit comes while the task runs, and leaves a quota per account.
LEMMA LimitReachedType ==
    ASSUME IInv, LimitReached
    PROVE  /\ phase \in Running
           /\ quota' \in [Accounts -> {"fresh", "out", "reset"}]
           /\ quota'[account] = "out"
BY DEF LimitReached, Fails, Running, IInv, TypeOK

LEMMA LimitSwitchesStep == IInv /\ LimitSwitches => IInv'
<1> SUFFICES ASSUME IInv, LimitSwitches PROVE IInv'
  OBVIOUS
<1>1. /\ phase \in Running
      /\ quota' \in [Accounts -> {"fresh", "out", "reset"}]
  BY LimitReachedType DEF LimitSwitches
<1>2. /\ account' \in Accounts /\ pinned' = TRUE
  BY NextAccountsType DEF LimitSwitches, Activate
<1>3. /\ NextAttempt(attempt) /\ ranHere' \subseteq attempt.outs
      /\ ranHere' \subseteq ranHere /\ UNCHANGED taskVars
  BY DEF LimitSwitches, SendAgain
<1>4. /\ retries' = 0 /\ tried' = tried \union {account}
      /\ UNCHANGED <<didCompact, didContextFallback, didUsageFallback, model,
                     history, tail, input, exhausted, outages>>
  BY DEF LimitSwitches
<1> QED
  BY <1>1, <1>2, <1>3, <1>4, FailedAttempt, ZeroRetries, NextAttemptSuffices
  DEF taskVars, Owed

LEMMA CannotSwitchType ==
    ASSUME IInv, CannotSwitch
    PROVE  /\ tried' \subseteq Accounts
           /\ account' = account /\ pinned' = pinned
           /\ ~pinned' => tried' \subseteq {account'}
BY DEF CannotSwitch, IInv, TypeOK, SwitchPins

LEMMA UseFallbackStep ==
    ASSUME IInv, phase \in Running, UseFallback,
           UNCHANGED <<history, tail, input, exhausted, outages>>,
           tried' \subseteq Accounts, account' = account, pinned' = pinned,
           ~pinned' => tried' \subseteq {account'},
           quota' \in [Accounts -> {"fresh", "out", "reset"}]
    PROVE  IInv'
<1>1. /\ NextAttempt(input) /\ ranHere' = {} /\ UNCHANGED taskVars
      /\ retries' = 0 /\ model' = "fallback" /\ didUsageFallback' = TRUE
      /\ UNCHANGED <<didCompact, didContextFallback>>
  BY DEF UseFallback, StartOver
<1> QED
  BY <1>1, FailedAttempt, ZeroRetries, NextAttemptSuffices
  DEF taskVars, Owed

LEMMA LimitFallsBackStep == IInv /\ LimitFallsBack => IInv'
BY LimitReachedType, CannotSwitchType, UseFallbackStep DEF LimitFallsBack

LEMMA LimitWaitsStep == IInv /\ LimitWaits => IInv'
<1> SUFFICES ASSUME IInv, LimitWaits PROVE IInv'
  OBVIOUS
<1>1. /\ phase \in Running
      /\ quota' \in [Accounts -> {"fresh", "out", "reset"}]
  BY LimitReachedType DEF LimitWaits
<1>2. /\ tried' \subseteq Accounts /\ account' = account /\ pinned' = pinned
      /\ ~pinned' => tried' \subseteq {account'}
  BY CannotSwitchType DEF LimitWaits
<1>3. phase \in {"connect", "stream"}
  BY DEF LimitWaits, LimitReached, Fails
<1>4. /\ phase' = "limited"
      /\ UNCHANGED <<turnVars, itemVars, clientTried, exhausted, outages,
                     ranHere, taskVars>>
  BY DEF LimitWaits
<1> QED
  BY <1>1, <1>2, <1>3, <1>4
  DEF IInv, TypeOK, HasScratch, ProgressKept, EverywherePaired,
      EverywhereRecorded, SwitchPins, Running, Paired, Known,
      turnVars, itemVars, taskVars, Owed

LEMMA LimitResetsStep == IInv /\ LimitResets => IInv'
<1> SUFFICES ASSUME IInv, LimitResets PROVE IInv'
  OBVIOUS
<1>1. /\ phase \in Running
      /\ quota' \in [Accounts -> {"fresh", "out", "reset"}]
  BY DEF LimitResets, Running, IInv, TypeOK
<1>2. /\ NextAttempt(attempt) /\ ranHere' \subseteq attempt.outs
      /\ ranHere' \subseteq ranHere /\ UNCHANGED taskVars
  BY DEF LimitResets, SendAgain
<1>3. /\ retries' = 0
      /\ UNCHANGED <<didCompact, didContextFallback, didUsageFallback, model,
                     history, tail, input, tried, account, pinned, exhausted,
                     outages>>
  BY DEF LimitResets
<1> QED
  BY <1>1, <1>2, <1>3, FailedAttempt, ZeroRetries, NextAttemptSuffices
  DEF taskVars, Owed

LEMMA FailsRunning == \A kind : Fails(kind) => phase \in Running
BY DEF Fails, Running

LEMMA MessageFallsBackStep == IInv /\ MessageFallsBack => IInv'
<1> SUFFICES ASSUME IInv, MessageFallsBack PROVE IInv'
  OBVIOUS
<1>1. phase \in Running /\ UseFallback
  BY FailsRunning DEF MessageFallsBack
<1>2. UNCHANGED <<history, tail, input, tried, account, pinned, quota,
                  exhausted, outages>>
  BY DEF MessageFallsBack
<1> QED
  BY <1>1, <1>2, FailedAttempt, UseFallbackStep

LEMMA OverflowCompactsStep == IInv /\ Overflow_Compacts => IInv'
<1> SUFFICES ASSUME IInv, Overflow_Compacts PROVE IInv'
  OBVIOUS
<1>1. phase \in Running
  BY FailsRunning DEF Overflow_Compacts
<1>2. /\ ranHere' = {} /\ proactive' = proactive /\ didCompact' = TRUE
      /\ UNCHANGED <<retries, didContextFallback, didUsageFallback, model,
                     tail, tried, account, pinned, quota, exhausted, outages>>
  BY DEF Overflow_Compacts, StartOver, taskVars
<1>3. CASE StartOver /\ UNCHANGED <<history, input>>
  BY <1>1, <1>2, <1>3, FailedAttempt, NextAttemptSuffices
  DEF StartOver, taskVars, Owed
<1>4. ASSUME NEW told \in SUBSET Known(history), Tells(history, told),
             history' = Compacted(told), recorded' = recorded \intersect told,
             input' = Rebuilt(history', tail, input), NextAttempt(input')
      PROVE  IInv'
  <2>1. /\ history \in Items /\ tail \in SUBSET Works
        /\ input \in Items /\ tail \ Custom \subseteq input.calls
    BY <1>1, FailedAttempt
  <2>2. told \in SUBSET Works
    BY <2>1, KnownType
  <2>3. /\ history' \in Items /\ Paired(history') /\ Known(history') = told
    BY <1>4, <2>2, CompactedType, CompactedPairs, CompactedKeeps
  <2>4. /\ input' \in Items /\ Paired(input') /\ told \subseteq Known(input')
        /\ tail \intersect input.calls \subseteq Known(input')
        /\ tail \intersect input.calls \subseteq input'.calls
    BY <1>4, <2>1, <2>3, RebuiltType, RebuiltPairs, RebuiltKeeps
  <2>5. Owed' \subseteq Known(input') /\ tail' \ Custom \subseteq input'.calls
    BY <1>2, <1>4, <2>1, <2>4 DEF Owed
  <2>6. forgets' \in 0..MaxForgets
    BY <1>4, TellsType
  <2>7. recorded' \subseteq Works /\ recorded' \subseteq Known(history')
    BY <1>4, <2>2, <2>3
  <2> QED
    BY <1>1, <1>2, <1>4, <2>3, <2>4, <2>5, <2>6, <2>7, FailedAttempt,
       NextAttemptSuffices
<1> QED
  BY <1>3, <1>4 DEF Overflow_Compacts

LEMMA OverflowLargerStep == IInv /\ Overflow_Larger => IInv'
<1> SUFFICES ASSUME IInv, Overflow_Larger PROVE IInv'
  OBVIOUS
<1>1. phase \in Running
  BY FailsRunning DEF Overflow_Larger
<1>2. /\ NextAttempt(input) /\ ranHere' = {} /\ UNCHANGED taskVars
      /\ retries' = 0 /\ model' = "larger"
      /\ didContextFallback' = TRUE /\ didCompact' = FALSE
      /\ UNCHANGED <<didUsageFallback, history, tail, input, tried, account,
                     pinned, quota, exhausted, outages>>
  BY DEF Overflow_Larger, StartOver
<1> QED
  BY <1>1, <1>2, FailedAttempt, ZeroRetries, NextAttemptSuffices
  DEF taskVars, Owed

\* What a drained scratchpad leaves for the next attempt.
LEMMA DrainStep ==
    ASSUME IInv, phase \in Running, DrainScratchpad
    PROVE  /\ attempt' \in Items /\ Paired(attempt')
           /\ Owed \subseteq Known(attempt')
           /\ ranHere \subseteq attempt'.outs
           /\ scratch' = NoScratch
<1>1. /\ attempt \in Items /\ scratch \in Items \union {NoScratch}
      /\ Paired(attempt) /\ (scratch # NoScratch => Paired(scratch))
      /\ Owed \subseteq Known(attempt)
  BY DEF IInv, TypeOK, EverywherePaired, EverywhereRecorded
<1>2. attempt' = Drained(attempt, scratch) /\ scratch' = NoScratch
  BY DEF DrainScratchpad
<1>3. ranHere \subseteq attempt'.outs
  BY <1>1, <1>2, DrainedKeeps DEF IInv, ProgressKept
<1> QED
  BY <1>1, <1>2, <1>3, DrainedType, DrainedPairs, DrainedKeeps

LEMMA DropRetriesStep ==
    ASSUME NEW kind, IInv, Drop_Retries(kind)
    PROVE  IInv'
<1>1. phase \in Running /\ DrainScratchpad /\ phase' = "backoff"
  BY FailsRunning DEF Drop_Retries, Dropped
<1>2. /\ attempt' \in Items /\ Paired(attempt')
      /\ Owed \subseteq Known(attempt')
      /\ ranHere \subseteq attempt'.outs
      /\ scratch' = NoScratch
  BY <1>1, DrainStep
<1>3. retries' \in 0..MaxRetries /\ outages' \in 0..MaxOutages
  BY RetriesAssumption DEF Drop_Retries, Dropped, IInv, TypeOK
<1>4. UNCHANGED <<didCompact, didContextFallback, didUsageFallback, model,
                  history, tail, input, output, accountVars, ranHere, taskVars>>
  BY DEF Drop_Retries
<1> QED
  BY <1>1, <1>2, <1>3, <1>4
  DEF IInv, TypeOK, HasScratch, ProgressKept, EverywherePaired,
      EverywhereRecorded, SwitchPins, Running, Paired, Known,
      accountVars, taskVars, Owed

LEMMA DropWaitsStep == IInv /\ Drop_WaitsForNetwork => IInv'
<1> SUFFICES ASSUME IInv, Drop_WaitsForNetwork PROVE IInv'
  OBVIOUS
<1>1. phase \in Running /\ DrainScratchpad /\ phase' = "offline"
  BY FailsRunning DEF Drop_WaitsForNetwork, Dropped
<1>2. /\ attempt' \in Items /\ Paired(attempt')
      /\ Owed \subseteq Known(attempt')
      /\ ranHere \subseteq attempt'.outs
      /\ scratch' = NoScratch
  BY <1>1, DrainStep
<1>3. outages' \in 0..MaxOutages
  BY RetriesAssumption DEF Drop_WaitsForNetwork, Dropped, IInv, TypeOK
<1>4. UNCHANGED <<turnVars, history, tail, input, output, accountVars,
                  ranHere, taskVars>>
  BY DEF Drop_WaitsForNetwork
<1> QED
  BY <1>1, <1>2, <1>3, <1>4
  DEF IInv, TypeOK, HasScratch, ProgressKept, EverywherePaired,
      EverywhereRecorded, SwitchPins, Running, Paired, Known,
      turnVars, accountVars, taskVars, Owed

LEMMA DropFailsStep ==
    ASSUME NEW kind, IInv, Drop_Fails(kind)
    PROVE  IInv'
<1>1. outages' \in 0..MaxOutages
  BY DEF Drop_Fails, Dropped, IInv, TypeOK
<1> QED
  BY <1>1, OverStep
  DEF Drop_Fails, IInv, TypeOK, EverywherePaired, EverywhereRecorded, Final

LEMMA FailsAtOnceStep == IInv /\ FailsAtOnce => IInv'
BY OverStep
DEF FailsAtOnce, IInv, TypeOK, EverywherePaired, EverywhereRecorded, Final

LEMMA AbortStep == IInv /\ Abort => IInv'
BY OverStep
DEF Abort, IInv, TypeOK, EverywherePaired, EverywhereRecorded, Final

\* The two waits after a drained scratchpad.
LEMMA ResumeStep ==
    ASSUME IInv, phase \in {"backoff", "offline"}, NextAttempt(attempt),
           retries' \in 0..MaxRetries,
           UNCHANGED <<didCompact, didContextFallback, didUsageFallback,
                       model, history, tail, input, tried, account, pinned,
                       quota, exhausted, outages, ranHere, taskVars>>
    PROVE  IInv'
<1>1. phase \in Running
  BY DEF Running
<1>2. ranHere \subseteq attempt.outs
  BY <1>1 DEF IInv, HasScratch, ProgressKept
<1> QED
  BY <1>1, <1>2, FailedAttempt, NextAttemptSuffices
  DEF taskVars, Owed

LEMMA WakesStep == IInv /\ Wakes => IInv'
<1> SUFFICES ASSUME IInv, Wakes PROVE IInv'
  OBVIOUS
<1>1. retries' \in 0..MaxRetries
  BY DEF Wakes, turnVars, IInv, TypeOK
<1> QED
  BY <1>1, ResumeStep DEF Wakes, turnVars

LEMMA NetworkIsBackStep == IInv /\ NetworkIsBack => IInv'
BY ZeroRetries, ResumeStep DEF NetworkIsBack

LEMMA StutterStep == IInv /\ UNCHANGED vars => IInv'
BY DEF IInv, TypeOK, HasScratch, ProgressKept, EverywherePaired,
       EverywhereRecorded, SwitchPins, Running, Final, Paired, Known,
       vars, turnVars, itemVars, accountVars, taskVars, Owed

LEMMA NextPreserves == IInv /\ [Next]_vars => IInv'
<1> SUFFICES ASSUME IInv, [Next]_vars PROVE IInv'
  OBVIOUS
<1>1. CASE Provider
  BY <1>1, OpenedStep, ClientSwitchesStep, CompletedStep, ToolCallStep,
     LimitSwitchesStep, LimitFallsBackStep, LimitWaitsStep,
     MessageFallsBackStep, OverflowCompactsStep, OverflowLargerStep,
     DropRetriesStep, DropFailsStep, DropWaitsStep, FailsAtOnceStep
  DEF Provider
<1>2. CASE Timers
  BY <1>2, LimitResetsStep, WakesStep, NetworkIsBackStep DEF Timers
<1>3. CASE Abort
  BY <1>3, AbortStep
<1>4. CASE UNCHANGED vars
  BY <1>4, StutterStep
<1> QED
  BY <1>1, <1>2, <1>3, <1>4 DEF Next

LEMMA Invariance == Spec => []IInv
<1> QED
  BY InitEstablishes, NextPreserves, PTL DEF Spec

-----------------------------------------------------------------------------
(* The theorems *)

\* Every variable keeps its type; the retry budget is never exceeded.
THEOREM TypeCorrect == Spec => []TypeOK
<1>1. IInv => TypeOK
  BY DEF IInv
<1> QED
  BY <1>1, Invariance, PTL

\* What the dropped attempts of a run_turn ran reaches its next attempt, except
\* where the code throws it away on purpose.
THEOREM ProgressIsKept == Spec => []ProgressKept
<1>1. IInv => ProgressKept
  BY DEF IInv
<1> QED
  BY <1>1, Invariance, PTL

\* What earlier iterations recorded and no compaction has left out is known to
\* every later request, through retries, fallbacks and compactions, and the
\* pending outputs are, whatever a compaction leaves out.
THEOREM RecordedIsKept == Spec => []RecordedStaysKnown
<1>1. IInv => RecordedStaysKnown
  BY DEF IInv, EverywhereRecorded, Owed, RecordedStaysKnown
<1> QED
  BY <1>1, Invariance, PTL

\* No request holds an output without its call.
THEOREM OutputsArePaired == Spec => []OutputsHaveCalls
<1>1. IInv => OutputsHaveCalls
  BY DEF IInv, EverywherePaired, Paired, OutputsHaveCalls
<1> QED
  BY <1>1, Invariance, PTL

\* The API key is the last resort: in a step that moves to it, the only account
\* a switch has marked so far is the one that just refused, and the selection
\* found no other ChatGPT account that may be used.
THEOREM ApiKeyIsLastResort == Spec => ApiKeyOnlyIfAllLimited
<1> DEFINE Allowed ==
      account' # account /\ account' \notin ChatGpt =>
        \A a \in ChatGpt :
          \/ a \in exhausted
          \/ a \in tried' \union clientTried' /\ quota'[a] = "out"
<1>1. IInv /\ Next => Allowed
  <2> SUFFICES ASSUME IInv, Next, account' # account, account' \notin ChatGpt,
                      NEW a \in ChatGpt, a \notin exhausted
               PROVE  a \in tried' \union clientTried' /\ quota'[a] = "out"
    OBVIOUS
  <2>1. ClientSwitches \/ LimitSwitches
    BY DEF Next, Provider, Timers, Opened, ToolCall, Completed, Completed_Ends,
           Completed_GoesOn, Completed_CompactsFirst, Completed_CompactsAfter,
           NextIteration, Over, LimitFallsBack,
           LimitWaits, CannotSwitch, LimitResets, MessageFallsBack,
           Overflow_Compacts, Overflow_Larger, Drop_Retries,
           Drop_WaitsForNetwork, Drop_Fails, FailsAtOnce, Wakes,
           NetworkIsBack, Abort, accountVars
  <2>2. CASE ClientSwitches
    <3>1. clientTried' = {account} /\ quota'[account] = "out"
      BY <2>2 DEF ClientSwitches, MaySwitch, IInv, SwitchPins
    <3>2. account' \in NextAccounts(clientTried', account)
      BY <2>2 DEF ClientSwitches, Activate
    <3>3. ChatGpt \subseteq clientTried' \union exhausted
      BY <3>2 DEF NextAccounts, UntriedChatGpt, AllChatGptUnavailable
    <3> QED
      BY <3>1, <3>3
  <2>3. CASE LimitSwitches
    <3>1. tried' = {account}
      BY <2>3 DEF LimitSwitches, MaySwitch, IInv, SwitchPins
    <3>2. quota'[account] = "out"
      BY <2>3, LimitReachedType DEF LimitSwitches
    <3>3. account' \in NextAccounts(tried', account)
      BY <2>3 DEF LimitSwitches, Activate
    <3>4. ChatGpt \subseteq tried' \union exhausted
      BY <3>3 DEF NextAccounts, UntriedChatGpt, AllChatGptUnavailable
    <3> QED
      BY <3>1, <3>2, <3>4
  <2> QED
    BY <2>1, <2>2, <2>3
<1>2. IInv /\ [Next]_vars => [Allowed]_vars
  BY <1>1
<1> QED
  BY <1>2, Invariance, PTL DEF Spec, ApiKeyOnlyIfAllLimited

-----------------------------------------------------------------------------
(* What a task uses up                                                     *)

\* How far an account has gone through its limit: it does not go back.
Age(state) == CASE state = "fresh" -> 0 [] state = "out" -> 1 [] OTHER -> 2

\* Connectivity failures begun and overcome.
Weather == IF phase = "offline" THEN 2 * outages ELSE 2 * outages + 1

\* What no new turn of the task gives back: the limits, the network's failures
\* and the one account switch.
UsesLimit ==
    /\ \A a \in Accounts : Age(quota[a]) <= Age(quota'[a])
    /\ Weather <= Weather'
    /\ pinned => pinned'
    /\ \/ \E a \in Accounts : Age(quota[a]) < Age(quota'[a])
       \/ Weather < Weather'
       \/ ~pinned /\ pinned'

SameLimits == UNCHANGED <<quota, pinned>> /\ Weather' = Weather

\* What a turn has once.
UsesFallback ==
    /\ didUsageFallback => didUsageFallback'
    /\ didContextFallback => didContextFallback'
    /\ \/ ~didUsageFallback /\ didUsageFallback'
       \/ ~didContextFallback /\ didContextFallback'

SameFallbacks == UNCHANGED <<didUsageFallback, didContextFallback>>

\* What an account, a model or the network gives back when it changes.
UsesTry ==
    /\ retries <= retries' /\ (didCompact => didCompact')
    /\ retries < retries' \/ (~didCompact /\ didCompact')

SameTries == UNCHANGED <<retries, didCompact>>

\* One request, from its wait to its last tool call.
Stage(at) == CASE at = "backoff" -> 3 [] at = "connect" -> 2
               [] at = "stream" -> 1 [] OTHER -> 0

Advances ==
    \/ Stage(phase') < Stage(phase)
    \/ Stage(phase') = Stage(phase)
       /\ output.calls \subseteq output'.calls /\ output.calls # output'.calls

\* What only a later iteration gives back.
WithinTurn ==
    \/ UsesLimit
    \/ /\ SameLimits
       /\ \/ UsesFallback
          \/ /\ SameFallbacks
             /\ UsesTry \/ (SameTries /\ Advances)

\* A step ends the task, is one of the compactions that leave something out, ends
\* an iteration that ran a tool nothing had recorded, is the one compaction of an
\* answer that a tool call gives back, or uses up something within the turn.
UsesUp ==
    /\ phase \in Running
    /\ \/ phase' \in Final
       \/ forgets' = forgets + 1
       \/ /\ forgets' = forgets
          /\ \/ recorded \subseteq recorded' /\ recorded # recorded'
             \/ /\ recorded' = recorded
                /\ \/ ~proactive /\ proactive'
                   \/ proactive' = proactive /\ WithinTurn

AlwaysUsesUp == [][UsesUp]_vars

\* What the rank rests on: a tool that is in a response is in no record, and a
\* task that waits for a limit does so on an account that is limited.
OutputIsNew == phase \in Running => output.outs \intersect recorded = {}
WaitsForLimit == phase = "limited" => quota[account] = "out"

RankInv == IInv /\ OutputIsNew /\ WaitsForLimit

LEMMA InitRank == Init => RankInv
BY InitEstablishes DEF Init, RankInv, OutputIsNew, WaitsForLimit, NoItems

\* A new attempt starts with no output.
LEMMA AttemptIsNew == \A items : NextAttempt(items) => OutputIsNew' /\ WaitsForLimit'
BY DEF NextAttempt, NoItems, OutputIsNew, WaitsForLimit

\* A tool that is called is in no record, as the request holds the records.
LEMMA CallIsNew ==
    ASSUME RankInv, NEW w \in Works, ToolCall(w)
    PROVE  OutputIsNew'
<1>1. phase = "stream" /\ phase' = phase /\ recorded' = recorded
  BY DEF ToolCall, taskVars
<1>2. w \notin recorded
  BY <1>1 DEF ToolCall, RankInv, IInv, EverywhereRecorded, Owed, Running
<1>3. output'.outs = output.outs \union {w}
  BY DEF ToolCall, Push, RankInv, IInv, TypeOK, Items
<1>4. QED
  BY <1>1, <1>2, <1>3 DEF RankInv, OutputIsNew, Running

LEMMA StepRank == RankInv /\ [Next]_vars => RankInv'
<1> SUFFICES ASSUME RankInv, [Next]_vars PROVE OutputIsNew' /\ WaitsForLimit'
  BY NextPreserves DEF RankInv
<1> USE DEF RankInv
<1>1. CASE Opened \/ ClientSwitches \/ (\E kind \in Failures : Drop_Retries(kind) \/ Drop_Fails(kind))
           \/ Drop_WaitsForNetwork \/ FailsAtOnce \/ Abort \/ UNCHANGED vars
  BY <1>1 DEF Opened, ClientSwitches, Drop_Retries, Drop_Fails, Drop_WaitsForNetwork,
     FailsAtOnce, Abort, Over, Dropped, Fails, vars, itemVars, taskVars, accountVars, OutputIsNew,
     WaitsForLimit, Running, Final
<1>2. CASE \E w \in Works : ToolCall(w)
  BY <1>2, CallIsNew DEF ToolCall, WaitsForLimit
<1>3. CASE Completed
  BY <1>3, AttemptIsNew
  DEF Completed, Completed_Ends, Completed_GoesOn, Completed_CompactsFirst,
      Completed_CompactsAfter, NextIteration, Over, OutputIsNew, WaitsForLimit, Final,
      Running
<1>4. CASE LimitSwitches \/ LimitFallsBack \/ MessageFallsBack \/ Overflow_Compacts
           \/ Overflow_Larger \/ LimitResets \/ Wakes \/ NetworkIsBack
  BY <1>4, AttemptIsNew DEF LimitSwitches, LimitFallsBack, MessageFallsBack, Overflow_Compacts,
     Overflow_Larger, LimitResets, Wakes, NetworkIsBack, UseFallback, StartOver, SendAgain
<1>5. CASE LimitWaits
  <2>1. quota'[account] = "out" /\ account' = account
    BY <1>5, LimitReachedType DEF LimitWaits, CannotSwitch
  <2>2. phase \in Running /\ UNCHANGED <<output, recorded>>
    BY <1>5 DEF LimitWaits, LimitReached, Fails, Running, itemVars, taskVars
  <2>3. QED
    BY <2>1, <2>2 DEF OutputIsNew, WaitsForLimit
<1>6. QED
  BY <1>1, <1>2, <1>3, <1>4, <1>5 DEF Next, Provider, Timers

-----------------------------------------------------------------------------
(* Each step uses something up                                             *)

\* A refusal, too, leaves every account where it was or further on.
LEMMA LimitAges ==
    ASSUME IInv, LimitReached
    PROVE  /\ phase \in {"connect", "stream"}
           /\ \A a \in Accounts : Age(quota[a]) <= Age(quota'[a])
           /\ \/ quota' = quota /\ phase = "connect"
              \/ Age(quota[account]) < Age(quota'[account])
BY DEF LimitReached, Fails, IInv, TypeOK, Age

LEMMA TurnUses == phase \in Running /\ UNCHANGED taskVars /\ WithinTurn => UsesUp
BY DEF UsesUp, taskVars

\* Switching the account uses up the one switch there is.
LEMMA SwitchUses == IInv /\ LimitSwitches => UsesUp
<1> SUFFICES ASSUME IInv, LimitSwitches PROVE UsesUp
  OBVIOUS
<1>1. ~pinned /\ pinned' /\ UNCHANGED taskVars /\ outages' = outages /\ phase' = "connect"
  BY DEF LimitSwitches, MaySwitch, Activate, SendAgain, NextAttempt
<1>2. phase \in {"connect", "stream"} /\ \A a \in Accounts : Age(quota[a]) <= Age(quota'[a])
  BY LimitAges DEF LimitSwitches
<1>3. UsesLimit
  BY <1>1, <1>2 DEF UsesLimit, Weather, IInv, TypeOK
<1>4. QED
  BY <1>1, <1>2, <1>3, TurnUses DEF WithinTurn, Running

\* A fallback is used once, and a limit is waited for once per account.
LEMMA LimitUses == IInv /\ (LimitFallsBack \/ LimitWaits) => UsesUp
<1> SUFFICES ASSUME IInv, LimitFallsBack \/ LimitWaits PROVE UsesUp
  OBVIOUS
<1>1. /\ pinned' = pinned /\ UNCHANGED taskVars /\ outages' = outages
      /\ phase' \in {"connect", "limited"}
  BY DEF LimitFallsBack, LimitWaits, CannotSwitch, UseFallback, StartOver, NextAttempt
<1>2. /\ phase \in {"connect", "stream"} /\ account \in Accounts
      /\ \A a \in Accounts : Age(quota[a]) <= Age(quota'[a])
      /\ \/ quota' = quota /\ phase = "connect"
         \/ Age(quota[account]) < Age(quota'[account])
  BY LimitAges DEF LimitFallsBack, LimitWaits, IInv, TypeOK
<1>3. Weather' = Weather /\ Weather \in Nat
  BY <1>1, <1>2, RetriesAssumption DEF Weather, IInv, TypeOK
<1>4. CASE Age(quota[account]) < Age(quota'[account])
  BY <1>1, <1>2, <1>3, <1>4, TurnUses DEF WithinTurn, UsesLimit, Running
<1>5. CASE quota' = quota /\ phase = "connect"
  <2>1. SameLimits
    BY <1>1, <1>3, <1>5 DEF SameLimits
  <2>2. CASE LimitFallsBack
    BY <1>1, <1>2, <2>1, <2>2, TurnUses DEF LimitFallsBack, UseFallback, CanUseFallback,
       UsesFallback, WithinTurn, Running
  <2>3. CASE LimitWaits
    BY <1>1, <1>2, <1>5, <2>1, <2>3, TurnUses DEF LimitWaits, turnVars, SameFallbacks, SameTries,
       Advances, Stage, WithinTurn, Running
  <2>4. QED
    BY <2>2, <2>3
<1>6. QED
  BY <1>2, <1>4, <1>5

LEMMA ResetUses == RankInv /\ LimitResets => UsesUp
<1> SUFFICES ASSUME RankInv, LimitResets PROVE UsesUp
  OBVIOUS
<1>1. /\ phase = "limited" /\ quota[account] = "out" /\ account \in Accounts
      /\ quota' = [quota EXCEPT ![account] = "reset"]
      /\ quota \in [Accounts -> {"fresh", "out", "reset"}]
  BY DEF LimitResets, RankInv, WaitsForLimit, IInv, TypeOK
<1>2. /\ Age(quota[account]) < Age(quota'[account])
      /\ \A a \in Accounts : Age(quota[a]) <= Age(quota'[a])
  BY <1>1 DEF Age
<1>3. UNCHANGED <<pinned, taskVars, outages>> /\ phase' = "connect"
  BY DEF LimitResets, SendAgain, NextAttempt
<1>4. UsesLimit
  BY <1>1, <1>2, <1>3, RetriesAssumption DEF UsesLimit, Weather, RankInv, IInv, TypeOK
<1>5. QED
  BY <1>1, <1>3, <1>4, TurnUses DEF WithinTurn, Running

\* The client's own switch is the task's one switch, too.
LEMMA ClientSwitchUses == IInv /\ ClientSwitches => UsesUp
<1> SUFFICES ASSUME IInv, ClientSwitches PROVE UsesUp
  OBVIOUS
<1>1. /\ ~pinned /\ pinned' /\ UNCHANGED <<quota, outages, phase, taskVars>>
      /\ phase = "connect"
  BY DEF ClientSwitches, MaySwitch, Activate
<1>2. UsesLimit
  BY <1>1, RetriesAssumption DEF UsesLimit, Weather, Age, IInv, TypeOK
<1>3. QED
  BY <1>1, <1>2, TurnUses DEF WithinTurn, Running

\* A message uses a fallback.
LEMMA MessageUses == IInv /\ (MessageFallsBack \/ Overflow_Larger) => UsesUp
<1> SUFFICES ASSUME IInv, MessageFallsBack \/ Overflow_Larger PROVE UsesUp
  OBVIOUS
<1>1. /\ phase \in {"connect", "stream"} /\ phase' = "connect"
      /\ UNCHANGED <<quota, pinned, outages, taskVars>>
  BY DEF MessageFallsBack, Overflow_Larger, UseFallback, StartOver, NextAttempt, Fails
<1>2. SameLimits /\ phase \in Running
  BY <1>1 DEF SameLimits, Weather, Running
<1>3. UsesFallback
  BY DEF MessageFallsBack, Overflow_Larger, UseFallback, CanUseFallback, CanUseLarger,
         UsesFallback
<1>4. QED
  BY <1>1, <1>2, <1>3, TurnUses DEF WithinTurn

\* A compaction that leaves nothing out leaves the record as it is.
LEMMA TellsAll ==
    ASSUME NEW items, NEW told, Tells(items, told), recorded \subseteq Known(items)
    PROVE  \/ forgets' = forgets + 1
           \/ forgets' = forgets /\ told = Known(items)
BY DEF Tells

\* An overflow is such a compaction, or the one the turn has.
LEMMA OverflowUses == IInv /\ Overflow_Compacts => UsesUp
<1> SUFFICES ASSUME IInv, Overflow_Compacts PROVE UsesUp
  OBVIOUS
<1>1. /\ phase \in {"connect", "stream"} /\ phase' = "connect"
      /\ UNCHANGED <<quota, pinned, outages, proactive>>
  BY DEF Overflow_Compacts, StartOver, NextAttempt, Fails, taskVars
<1>2. SameLimits /\ phase \in Running
  BY <1>1 DEF SameLimits, Weather, Running
<1>3. SameFallbacks /\ UsesTry
  BY DEF Overflow_Compacts, SameFallbacks, UsesTry, IInv, TypeOK
<1>4. WithinTurn
  BY <1>2, <1>3 DEF WithinTurn
<1>5. \/ forgets' = forgets + 1
      \/ forgets' = forgets /\ recorded' = recorded
  <2>1. CASE StartOver
    BY <2>1 DEF StartOver, taskVars
  <2>2. ASSUME NEW told \in SUBSET Known(history), Tells(history, told),
               recorded' = recorded \intersect told
        PROVE  \/ forgets' = forgets + 1
               \/ forgets' = forgets /\ recorded' = recorded
    <3>1. recorded \subseteq Known(history)
      BY DEF IInv, EverywhereRecorded
    <3>2. QED
      BY <2>2, <3>1, TellsAll
  <2>3. QED
    BY <2>1, <2>2 DEF Overflow_Compacts
<1>6. QED
  BY <1>1, <1>2, <1>4, <1>5 DEF UsesUp

\* A retry uses the budget, and the wait for the network a failure of it.
LEMMA DropUses ==
    ASSUME IInv, NEW kind \in Failures, Drop_Retries(kind) \/ Drop_WaitsForNetwork
    PROVE  UsesUp
<1>1. /\ phase \in {"connect", "stream"} /\ outages \in Nat /\ retries \in Nat
      /\ UNCHANGED <<quota, pinned, taskVars>>
  BY RetriesAssumption DEF Drop_Retries, Drop_WaitsForNetwork, Dropped, Fails, accountVars,
     IInv, TypeOK
<1>2. \A a \in Accounts : Age(quota[a]) \in Nat
  BY DEF Age
<1>3. CASE outages' = outages + 1 /\ phase' \in {"backoff", "offline"}
  <2>1. Weather < Weather' /\ Weather <= Weather'
    BY <1>1, <1>3 DEF Weather
  <2>2. UsesLimit
    BY <1>1, <1>2, <1>3, <2>1 DEF UsesLimit
  <2>3. QED
    BY <1>1, <2>2, TurnUses DEF WithinTurn, Running
<1>4. CASE outages' = outages /\ Drop_Retries(kind)
  <2>1. SameLimits
    BY <1>1, <1>4 DEF SameLimits, Weather, Drop_Retries
  <2>2. SameFallbacks /\ UsesTry
    BY <1>1, <1>4 DEF Drop_Retries, SameFallbacks, UsesTry
  <2>3. QED
    BY <1>1, <2>1, <2>2, TurnUses DEF WithinTurn, Running
<1>5. QED
  BY <1>3, <1>4 DEF Drop_Retries, Drop_WaitsForNetwork, Dropped

\* The end of a backoff is a stage, the network's return one of its failures.
LEMMA TimersUse == IInv /\ (Wakes \/ NetworkIsBack) => UsesUp
<1> SUFFICES ASSUME IInv, Wakes \/ NetworkIsBack PROVE UsesUp
  OBVIOUS
<1>1. /\ UNCHANGED <<quota, pinned, outages, taskVars>> /\ outages \in Nat /\ phase' = "connect"
  BY RetriesAssumption DEF Wakes, NetworkIsBack, NextAttempt, IInv, TypeOK
<1>2. CASE Wakes
  BY <1>1, <1>2, TurnUses DEF Wakes, turnVars, SameLimits, Weather, SameFallbacks,
     SameTries, Advances, Stage, WithinTurn, Running
<1>3. CASE NetworkIsBack
  <2>1. Weather < Weather' /\ Weather <= Weather'
    BY <1>1, <1>3 DEF NetworkIsBack, Weather
  <2>2. QED
    BY <1>1, <1>3, <2>1, TurnUses DEF NetworkIsBack, UsesLimit, Age, WithinTurn, Running
<1>4. QED
  BY <1>2, <1>3

\* A response starts, calls tools that no record holds, and is recorded.
LEMMA ResponseUses ==
    ASSUME RankInv, Opened \/ Completed \/ \E w \in Works : ToolCall(w)
    PROVE  UsesUp
<1> USE DEF RankInv
<1>1. CASE Opened
  BY <1>1, TurnUses DEF Opened, turnVars, accountVars, SameLimits, Weather, SameFallbacks,
              SameTries,
     Advances, Stage, WithinTurn, Running
<1>2. CASE Completed
  <2>1. /\ phase = "stream" /\ phase \in Running
        /\ output.outs \intersect recorded = {}
    BY <1>2 DEF Completed, Completed_Ends, Completed_GoesOn, Completed_CompactsFirst,
                Completed_CompactsAfter, TurnReturns, OutputIsNew, Running
  <2>2. recorded \union output.outs \subseteq Known(Returned)
    BY ReturnedKeeps
  <2>3. CASE Completed_Ends
    BY <2>1, <2>3 DEF Completed_Ends, Over, Final, UsesUp
  <2>4. CASE Completed_GoesOn
    BY <2>1, <2>4 DEF Completed_GoesOn, UsesUp
  <2>5. CASE Completed_CompactsFirst
    <3>1. output.outs # {}
      BY <2>5 DEF Completed_CompactsFirst
    <3>2. PICK told \in SUBSET Known(Returned) :
             /\ Tells(Returned, told)
             /\ recorded' = (recorded \union output.outs)
                            \intersect (told \union (output.outs \ Custom))
      BY <2>5 DEF Completed_CompactsFirst
    <3>3. \/ forgets' = forgets + 1
          \/ forgets' = forgets /\ recorded' = recorded \union output.outs
      BY <2>2, <3>2, TellsAll
    <3>4. QED
      BY <2>1, <3>1, <3>3 DEF UsesUp
  <2>6. CASE Completed_CompactsAfter
    <3>1. ~proactive /\ proactive' = TRUE
      BY <2>6 DEF Completed_CompactsAfter
    <3>2. \/ forgets' = forgets + 1
          \/ forgets' = forgets /\ recorded' = recorded
      BY <2>2, <2>6, TellsAll DEF Completed_CompactsAfter
    <3>3. QED
      BY <2>1, <3>1, <3>2 DEF UsesUp
  <2>7. QED
    BY <1>2, <2>3, <2>4, <2>5, <2>6 DEF Completed
<1>3. ASSUME NEW w \in Works, ToolCall(w) PROVE UsesUp
  <2>1. /\ phase = "stream" /\ w \notin output.calls /\ output' = Push(output, w)
        /\ UNCHANGED <<phase, turnVars, accountVars, outages, taskVars>>
    BY <1>3 DEF ToolCall
  <2>2. output'.calls = output.calls \union {w}
    BY <2>1 DEF Push, IInv, TypeOK, Items
  <2>3. Advances
    BY <2>1, <2>2 DEF Advances
  <2>4. SameLimits /\ SameFallbacks /\ SameTries
    BY <2>1 DEF turnVars, accountVars, SameLimits, SameFallbacks, SameTries, Weather
  <2>5. QED
    BY <2>1, <2>3, <2>4, TurnUses DEF WithinTurn, Running
<1>4. QED
  BY <1>1, <1>2, <1>3

LEMMA EndUses == Abort \/ FailsAtOnce \/ (\E kind \in Failures : Drop_Fails(kind)) => UsesUp
BY DEF Abort, FailsAtOnce, Over, Drop_Fails, Dropped, Fails, UsesUp, Running, Final

\* No task goes round the loop of run_turn for ever: with finitely many tools
\* and accounts, what is used up has no infinite descent, whatever fails and
\* whatever is reset.  TurnEnds adds that a task that goes on can take a step.
THEOREM EveryRoundUsesUp == Spec => AlwaysUsesUp
<1>1. RankInv /\ Next => UsesUp
  <2>1. ASSUME IInv, Drop_WaitsForNetwork PROVE UsesUp
    <3>1. "connect" \in Failures
      BY <2>1 DEF Drop_WaitsForNetwork, Dropped, Fails
    <3>2. QED
      BY <2>1, <3>1, DropUses
  <2>2. QED
    BY <2>1, SwitchUses, LimitUses, ResetUses, ClientSwitchUses, MessageUses, OverflowUses,
       DropUses, TimersUse, ResponseUses, EndUses DEF Next, Provider, Timers, RankInv
<1>2. RankInv /\ [Next]_vars => [UsesUp]_vars
  BY <1>1
<1>3. QED
  BY <1>2, InitRank, StepRank, PTL DEF Spec, AlwaysUsesUp
=============================================================================

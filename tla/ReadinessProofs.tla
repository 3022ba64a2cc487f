--------------------------- MODULE ReadinessProofs ---------------------------
(* Theorems about Readiness, for any number of tasks and of token values.    *)
EXTENDS Readiness, FiniteSetTheorems, TLAPS

\* What NoEarlyWake rests on: whoever is about to broadcast has raised the flag.
SendersRaised == \A c \in Callers : pc[c] = "sending" => ready

\* The strengthening that every step preserves.
Inv == TypeOK /\ NoTokenOnceReady /\ SingleAuthoriser /\ NoEarlyWake /\ SendersRaised

LEMMA InitInv == Init => Inv
<1> SUFFICES ASSUME Init PROVE Inv
  OBVIOUS
<1>1. 0 \in Token /\ 1 \in Token
  BY SpanAssumption DEF Token
<1>2. TypeOK
  BY <1>1 DEF Init, TypeOK
<1>3. SingleAuthoriser
  BY FS_EmptySet DEF Init, SingleAuthoriser
<1> QED
  BY <1>2, <1>3 DEF Init, Inv, NoTokenOnceReady, NoEarlyWake, SendersRaised

\* Token arithmetic stays in range.
LEMMA NextToken == ASSUME NEW n \in Token PROVE (n + 1) % TokenSpan \in Token
  BY SpanAssumption DEF Token

\* A caller that passes the token check finds a subscribed token, so nobody
\* passed it before.
LEMMA MarkReadyInv ==
  ASSUME Inv, NEW c \in Callers, MarkReady(c)
  PROVE  Inv'
<1> USE DEF Inv
<1>1. CASE arg[c] \in tokens
  <2>1. ~ready /\ authorised = {}
    BY <1>1 DEF NoTokenOnceReady, SingleAuthoriser
  <2>2. authorised' = {c} /\ ready' /\ tokens' = {}
    BY <1>1, <2>1 DEF MarkReady
  <2>3. SingleAuthoriser'
    BY <2>2, FS_Singleton DEF SingleAuthoriser
  <2>4. TypeOK'
    BY <1>1, <2>2 DEF MarkReady, TypeOK, Goto
  <2> QED
    BY <2>2, <2>3, <2>4 DEF NoTokenOnceReady, NoEarlyWake, SendersRaised
<1>2. CASE arg[c] \notin tokens
  BY <1>2
  DEF MarkReady, TypeOK, NoTokenOnceReady, SingleAuthoriser, NoEarlyWake, SendersRaised, Goto
<1> QED
  BY <1>1, <1>2

LEMMA CallerInv ==
  ASSUME Inv, NEW c \in Callers, CallerStep(c)
  PROVE  Inv'
<1> USE DEF Inv, TypeOK, NoTokenOnceReady, SingleAuthoriser, NoEarlyWake, SendersRaised, Goto
<1>1. CASE SubscribeBegin(c)
  BY <1>1, NextToken DEF SubscribeBegin
<1>2. CASE SubscribeInsert(c)
  BY <1>2 DEF SubscribeInsert
<1>3. CASE MarkBegin(c)
  BY <1>3 DEF MarkBegin, shared
<1>4. CASE MarkReady(c)
  BY <1>4, MarkReadyInv
<1>5. CASE Broadcast(c)
  BY <1>5 DEF Broadcast
<1>6. CASE LockTimeout(c)
  BY <1>6 DEF LockTimeout, shared
<1> QED
  BY <1>1, <1>2, <1>3, <1>4, <1>5, <1>6 DEF CallerStep

LEMMA WaiterInv ==
  ASSUME Inv, NEW w \in Waiters, WaiterStep(w)
  PROVE  Inv'
<1> USE DEF Inv, TypeOK, NoTokenOnceReady, SingleAuthoriser, NoEarlyWake, SendersRaised, Goto
<1>1. CASE WaitBegin(w)
  BY <1>1 DEF WaitBegin, shared
<1>2. CASE WaitSubscribe(w)
  BY <1>2 DEF WaitSubscribe
<1>3. CASE WaitReturn(w)
  BY <1>3 DEF WaitReturn
<1> QED
  BY <1>1, <1>2, <1>3 DEF WaiterStep

LEMMA StutterInv == Inv /\ UNCHANGED vars => Inv'
  BY DEF Inv, TypeOK, NoTokenOnceReady, SingleAuthoriser, NoEarlyWake, SendersRaised, vars

\* The strengthening is inductive.
THEOREM InvHolds == Spec => []Inv
<1>1. Inv /\ [Next]_vars => Inv'
  BY CallerInv, WaiterInv, StutterInv DEF Next
<1> QED
  BY InitInv, <1>1, PTL DEF Spec

\* The variables of the flag keep their types, whatever the interleaving of
\* subscribe, mark_ready and wait_ready.
THEOREM TypeCorrect == Spec => []TypeOK
<1>1. Inv => TypeOK BY DEF Inv
<1> QED BY InvHolds, <1>1, PTL

\* No token survives the raising of the flag, however subscribe races with
\* mark_ready.
THEOREM TokensCleared == Spec => []NoTokenOnceReady
<1>1. Inv => NoTokenOnceReady BY DEF Inv
<1> QED BY InvHolds, <1>1, PTL

\* At most one mark_ready is told that it raised the flag, and one is as soon
\* as the flag is up.
THEOREM OneAuthoriser == Spec => []SingleAuthoriser
<1>1. Inv => SingleAuthoriser BY DEF Inv
<1> QED BY InvHolds, <1>1, PTL

\* wait_ready never returns, and the channel never carries true, early.
THEOREM NoEarlyReturn == Spec => []NoEarlyWake
<1>1. Inv => NoEarlyWake BY DEF Inv
<1> QED BY InvHolds, <1>1, PTL

\* The wake-up of a waiter is under way: the channel holds true, or a caller is
\* about to send it.
WakeUnderWay == tx \/ \E c \in Callers : pc[c] = "sending"

\* A waiter that holds its receiver when the wake-up is under way keeps both
\* until it returns.
WakeIsKept ==
  \A w \in Waiters : pc[w] = "waiting" /\ WakeUnderWay =>
    \/ pc'[w] = "returned"
    \/ pc'[w] = "waiting" /\ WakeUnderWay'

\* The broadcast reaches whoever is registered by then, as a watch channel with
\* a receiver stores the value: no waiter of RegisteredWaiterWakes is lost, and
\* its liveness is left to the scheduling of the caller and the waiter.
THEOREM NoLostWakeUp == Spec => [][WakeIsKept]_vars
<1>1. TypeOK /\ [Next]_vars => [WakeIsKept]_vars
  <2> SUFFICES ASSUME TypeOK, Next, NEW w \in Waiters, pc[w] = "waiting", WakeUnderWay
               PROVE  \/ pc'[w] = "returned"
                      \/ pc'[w] = "waiting" /\ WakeUnderWay'
    BY DEF WakeIsKept
  <2> USE DEF TypeOK, WakeUnderWay, Goto, shared
  <2>1. w \in receivers /\ tx \in BOOLEAN
    OBVIOUS
  <2>2. ASSUME NEW c \in Callers, CallerStep(c)
        PROVE  pc'[w] = "waiting" /\ WakeUnderWay'
    <3>1. pc[c] # "waiting"
      BY <2>2 DEF CallerStep, SubscribeBegin, SubscribeInsert, MarkBegin, MarkReady, Broadcast,
         LockTimeout
    <3>2. pc'[w] = "waiting"
      BY <2>2, <3>1 DEF CallerStep, SubscribeBegin, SubscribeInsert, MarkBegin, MarkReady,
         Broadcast, LockTimeout
    <3>3. CASE Broadcast(c)
      BY <2>1, <3>2, <3>3 DEF Broadcast
    <3>4. CASE ~Broadcast(c)
      <4>1. tx' = tx /\ pc[c] # "sending"
        BY <2>2, <3>4 DEF CallerStep, SubscribeBegin, SubscribeInsert, MarkBegin, MarkReady,
           Broadcast, LockTimeout
      <4>2. \A d \in Callers : pc[d] = "sending" => pc'[d] = "sending"
        BY <2>2, <3>4, <4>1 DEF CallerStep, SubscribeBegin, SubscribeInsert, MarkBegin, MarkReady,
           Broadcast, LockTimeout
      <4> QED
        BY <3>2, <4>1, <4>2
    <3> QED
      BY <3>3, <3>4
  <2>3. ASSUME NEW v \in Waiters, WaiterStep(v)
        PROVE  \/ pc'[w] = "returned"
               \/ pc'[w] = "waiting" /\ WakeUnderWay'
    <3>1. tx' = tx /\ \A c \in Callers : pc[c] = "sending" => pc'[c] = "sending"
      BY <2>3 DEF WaiterStep, WaitBegin, WaitSubscribe, WaitReturn
    <3>2. pc'[w] \in {"waiting", "returned"}
      BY <2>3 DEF WaiterStep, WaitBegin, WaitSubscribe, WaitReturn
    <3> QED
      BY <3>1, <3>2
  <2> QED
    BY <2>2, <2>3 DEF Next
<1> QED
  BY <1>1, TypeCorrect, PTL DEF Spec
=============================================================================

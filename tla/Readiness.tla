----------------------------- MODULE Readiness -----------------------------
(***************************************************************************)
(* ReadinessFlag of code-rs/utils/readiness/src/lib.rs: a flag that some   *)
(* task raises once, authorised by a token it subscribed for, while other  *)
(* tasks wait for it on a tokio watch channel.                             *)
(*                                                                         *)
(* Callers run subscribe and mark_ready, Waiters run wait_ready.  A step   *)
(* is what one task does between two points where another task can see or  *)
(* change the shared state; the token set is only touched under its mutex, *)
(* so a critical section is one step.                                      *)
(***************************************************************************)
EXTENDS Integers, FiniteSets

CONSTANTS Callers,    \* tasks that subscribe and mark
          Waiters,    \* tasks that wait for the flag
          TokenSpan   \* number of token values: 2^32 in the code (an i32 that wraps)

ASSUME SpanAssumption == TokenSpan \in Nat /\ TokenSpan > 1

VARIABLES ready,      \* the AtomicBool
          next_id,    \* the AtomicI32, modulo TokenSpan
          tokens,     \* the subscribed tokens
          tx,         \* the value the watch channel holds
          receivers,  \* waiters with a live watch receiver
          pc,         \* where each task is inside its call
          arg,        \* the token a caller is inserting or marking with
          authorised  \* the callers whose mark_ready went past the token check

shared == <<ready, next_id, tokens, tx, receivers>>
vars == <<ready, next_id, tokens, tx, receivers, pc, arg, authorised>>

Token == 0 .. TokenSpan - 1

Init ==
  /\ ready = FALSE
  /\ next_id = 1
  /\ tokens = {}
  /\ tx = FALSE
  /\ receivers = {}
  /\ pc = [t \in Callers \cup Waiters |-> "idle"]
  /\ arg = [c \in Callers |-> 0]
  /\ authorised = {}

Goto(t, label) == pc' = [pc EXCEPT ![t] = label]

(***************************************************************************)
(* subscribe                                                               *)
(***************************************************************************)
\* The unlocked check and the fetch_add; a flag already up is an error.
SubscribeBegin(c) ==
  /\ pc[c] = "idle"
  /\ ~ready
  /\ arg' = [arg EXCEPT ![c] = next_id]
  /\ next_id' = (next_id + 1) % TokenSpan
  /\ Goto(c, "inserting")
  /\ UNCHANGED <<ready, tokens, tx, receivers, authorised>>

\* The recheck and the insertion, under the mutex.  (The variant has no recheck.)
SubscribeInsertUnchecked(c) ==
  /\ pc[c] = "inserting"
  /\ tokens' = tokens \cup {arg[c]}
  /\ Goto(c, "idle")
  /\ UNCHANGED <<ready, next_id, tx, receivers, arg, authorised>>

SubscribeInsert(c) ==
  /\ pc[c] = "inserting"
  /\ IF ready
       THEN UNCHANGED tokens
       ELSE tokens' = tokens \cup {arg[c]}
  /\ Goto(c, "idle")
  /\ UNCHANGED <<ready, next_id, tx, receivers, arg, authorised>>

(***************************************************************************)
(* mark_ready                                                              *)
(***************************************************************************)
\* The unlocked checks: a raised flag and the token 0 both return false.  A token
\* is a Copy value: the caller's may be used up, or of another flag.
MarkBegin(c) ==
  /\ pc[c] = "idle"
  /\ ~ready
  /\ \E t \in Token \ {0} : arg' = [arg EXCEPT ![c] = t]
  /\ Goto(c, "marking")
  /\ UNCHANGED <<shared, authorised>>

\* The critical section: a token that is not subscribed (any more) returns false.
\* Variant: the tokens are not cleared.
MarkReadyKeepingTokens(c) ==
  /\ pc[c] = "marking" /\ arg[c] \in tokens
  /\ ready' = TRUE
  /\ authorised' = authorised \cup {c}
  /\ Goto(c, "sending")
  /\ UNCHANGED <<tokens, next_id, tx, receivers, arg>>

MarkReady(c) ==
  /\ pc[c] = "marking"
  /\ IF arg[c] \in tokens
       THEN /\ ready' = TRUE
            /\ tokens' = {}
            /\ authorised' = authorised \cup {c}
            /\ Goto(c, "sending")
       ELSE /\ Goto(c, "idle")
            /\ UNCHANGED <<ready, tokens, authorised>>
  /\ UNCHANGED <<next_id, tx, receivers, arg>>

\* watch::Sender::send stores nothing when the channel has no receiver.
\* (The variant does not send.)
BroadcastNothing(c) ==
  /\ pc[c] = "sending"
  /\ Goto(c, "idle")
  /\ UNCHANGED <<ready, next_id, tokens, tx, receivers, arg, authorised>>

Broadcast(c) ==
  /\ pc[c] = "sending"
  /\ tx' = (tx \/ receivers # {})
  /\ Goto(c, "idle")
  /\ UNCHANGED <<ready, next_id, tokens, receivers, arg, authorised>>

\* with_tokens gives up after LOCK_TIMEOUT; the call returns TokenLockFailed.
LockTimeout(c) ==
  /\ pc[c] \in {"inserting", "marking"}
  /\ Goto(c, "idle")
  /\ UNCHANGED <<shared, arg, authorised>>

(***************************************************************************)
(* wait_ready                                                              *)
(***************************************************************************)
WaitBegin(w) ==
  /\ pc[w] = "idle"
  /\ Goto(w, IF ready THEN "returned" ELSE "subscribing")
  /\ UNCHANGED <<shared, arg, authorised>>

\* tx.subscribe()
WaitSubscribe(w) ==
  /\ pc[w] = "subscribing"
  /\ receivers' = receivers \cup {w}
  /\ Goto(w, "waiting")
  /\ UNCHANGED <<ready, next_id, tokens, tx, arg, authorised>>

\* Both the fast-path borrow and the changed() loop return once they read true.
\* (The variant keeps the receiver.)
WaitReturnKeepingReceiver(w) ==
  /\ pc[w] = "waiting"
  /\ tx
  /\ Goto(w, "returned")
  /\ UNCHANGED <<ready, next_id, tokens, tx, receivers, arg, authorised>>

WaitReturn(w) ==
  /\ pc[w] = "waiting"
  /\ tx
  /\ receivers' = receivers \ {w}
  /\ Goto(w, "returned")
  /\ UNCHANGED <<ready, next_id, tokens, tx, arg, authorised>>

CallerStep(c) ==
  \/ SubscribeBegin(c) \/ SubscribeInsert(c)
  \/ MarkBegin(c) \/ MarkReady(c) \/ Broadcast(c)
  \/ LockTimeout(c)

WaiterStep(w) == WaitBegin(w) \/ WaitSubscribe(w) \/ WaitReturn(w)

Next == (\E c \in Callers : CallerStep(c)) \/ (\E w \in Waiters : WaiterStep(w))

\* The runtime polls every task that can run; it owes nobody a call.
Fairness ==
  /\ \A c \in Callers : WF_vars(Broadcast(c))
  /\ \A w \in Waiters : WF_vars(WaitSubscribe(w)) /\ WF_vars(WaitReturn(w))

Spec == Init /\ [][Next]_vars /\ Fairness

-----------------------------------------------------------------------------
\* Every variable has its type; only waiting tasks hold a receiver.
TypeOK ==
  /\ ready \in BOOLEAN
  /\ next_id \in Token
  /\ tokens \subseteq Token
  /\ tx \in BOOLEAN
  /\ receivers = {w \in Waiters : pc[w] = "waiting"}
  /\ pc \in [Callers \cup Waiters -> {"idle", "inserting", "marking", "sending",
                                      "subscribing", "waiting", "returned"}]
  /\ arg \in [Callers -> Token]
  /\ authorised \subseteq Callers

\* A subscription that raced with mark_ready leaves no token behind: once the
\* flag is up no token is subscribed, so nobody can be told to mark it again.
NoTokenOnceReady == ready => tokens = {}

\* mark_ready is told "true" once: at most one call gets past the token check,
\* and exactly when the flag is up (the doc of Readiness::mark_ready).
SingleAuthoriser ==
  /\ Cardinality(authorised) <= 1
  /\ ready <=> authorised # {}

\* No waiter returns, and the channel does not carry true, before the flag is up.
NoEarlyWake == (tx \/ \E w \in Waiters : pc[w] = "returned") => ready

\* A waiter that had its receiver before the broadcast is woken by it.
RegisteredWaiterWakes ==
  \A w \in Waiters :
    (pc[w] = "waiting" /\ \E c \in Callers : pc[c] = "sending") ~> (pc[w] = "returned")

=============================================================================

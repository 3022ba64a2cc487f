------------------------- MODULE AgentManagerProofs -------------------------
(* Proofs about AgentManager: its types, that every active agent can be      *)
(* stopped, that an outcome stays, that a batch is announced when it has     *)
(* ended and not before, and that a wait passes over no agent.               *)
EXTENDS AgentManager, SequenceTheorems, FiniteSetTheorems, TLAPS

\* The newest of a sequence are a part of it and within the limit.
LEMMA NewestProperties ==
    ASSUME NEW D, NEW s \in Seq(D), NEW n \in Nat
    PROVE  /\ Newest(s, n) \in Seq(D)
           /\ Len(Newest(s, n)) <= n
           /\ ToSet(Newest(s, n)) \subseteq ToSet(s)
<1>1. CASE Len(s) <= n
  BY <1>1 DEF Newest
<1>2. CASE ~(Len(s) <= n)
  <2> DEFINE m == Len(s) - n + 1
  <2>1. /\ Newest(s, n) = SubSeq(s, m, Len(s))
        /\ m \in Int /\ Len(s) \in Int /\ m >= 1 /\ Len(s) - m + 1 = n
    BY <1>2 DEF Newest
  <2>2. \A i \in m .. Len(s) : s[i] \in D
    BY <2>1
  <2>3. /\ SubSeq(s, m, Len(s)) \in Seq(D)
        /\ Len(SubSeq(s, m, Len(s))) = IF m <= Len(s) THEN Len(s) - m + 1 ELSE 0
        /\ \A i \in 1 .. Len(s) - m + 1 : SubSeq(s, m, Len(s))[i] = s[m + i - 1]
    <3> HIDE DEF m
    <3> QED
      BY ONLY <2>1, <2>2, SubSeqProperties
  <2>4. QED
    <3> HIDE DEF m
    <3>1. Len(Newest(s, n)) <= n
      BY <2>1, <2>3
    <3>2. \A i \in 1 .. Len(Newest(s, n)) : Newest(s, n)[i] \in ToSet(s)
      <4> SUFFICES ASSUME NEW i \in 1 .. Len(Newest(s, n))
                   PROVE  Newest(s, n)[i] \in ToSet(s)
        OBVIOUS
      <4>1. i \in 1 .. Len(s) - m + 1 /\ m + i - 1 \in 1 .. Len(s)
        BY <2>1, <2>3
      <4>2. Newest(s, n)[i] = s[m + i - 1]
        BY <2>1, <2>3, <4>1
      <4>3. QED
        BY <4>1, <4>2 DEF ToSet
    <3>3. QED
      BY <2>1, <2>3, <3>1, <3>2 DEF ToSet
<1>3. QED
  BY <1>1, <1>2

\* Taking an agent out of a sequence leaves a part of it.
LEMMA WithoutProperties ==
    ASSUME NEW D, NEW s \in Seq(D), NEW a
    PROVE  /\ Without(s, a) \in Seq(D)
           /\ Len(Without(s, a)) <= Len(s)
           /\ ToSet(Without(s, a)) \subseteq ToSet(s)
<1>1. CASE a \notin ToSet(s)
  BY <1>1 DEF Without
<1>2. CASE a \in ToSet(s)
  <2>1. PICK i \in 1 .. Len(s) : Without(s, a) = RemoveAt(s, i)
    <3> DEFINE j == CHOOSE k \in DOMAIN s : s[k] = a
    <3>1. \E k \in DOMAIN s : s[k] = a
      BY <1>2 DEF ToSet
    <3>2. j \in DOMAIN s
      BY <3>1
    <3>3. Without(s, a) = RemoveAt(s, j)
      BY <1>2 DEF Without
    <3>4. j \in 1 .. Len(s)
      BY <3>2
    <3>5. QED
      BY <3>3, <3>4
  <2> DEFINE front == SubSeq(s, 1, i - 1)
             back == SubSeq(s, i + 1, Len(s))
  <2>2. /\ front \in Seq(D) /\ Len(front) = i - 1
        /\ \A k \in 1 .. i - 1 : front[k] = s[k]
    OBVIOUS
  <2>3. /\ back \in Seq(D) /\ Len(back) = Len(s) - i
        /\ \A k \in 1 .. Len(s) - i : back[k] = s[i + k]
    OBVIOUS
  <2>4. Without(s, a) = front \o back
    BY <2>1 DEF RemoveAt
  <2> HIDE DEF front, back
  <2>5. /\ front \o back \in Seq(D)
        /\ Len(front \o back) = Len(s) - 1
    BY <2>2, <2>3
  <2>6. \A k \in 1 .. Len(front \o back) : (front \o back)[k] \in ToSet(s)
    <3> SUFFICES ASSUME NEW k \in 1 .. Len(front \o back)
                 PROVE  (front \o back)[k] \in ToSet(s)
      OBVIOUS
    <3>1. CASE k <= i - 1
      <4>1. (front \o back)[k] = s[k] /\ k \in DOMAIN s
        BY <2>2, <2>3, <2>5, <3>1
      <4>2. QED
        BY <4>1 DEF ToSet
    <3>2. CASE ~(k <= i - 1)
      <4>1. (front \o back)[k] = back[k - (i - 1)]
        BY <2>2, <2>3, <2>5, <3>2
      <4>2. k - (i - 1) \in 1 .. Len(s) - i /\ i + (k - (i - 1)) \in DOMAIN s
        BY <2>5, <3>2
      <4>3. (front \o back)[k] = s[i + (k - (i - 1))]
        BY <2>3, <4>1, <4>2
      <4>4. QED
        BY <4>2, <4>3 DEF ToSet
    <3>3. QED
      BY <3>1, <3>2
  <2>7. QED
    BY <2>4, <2>5, <2>6 DEF ToSet
<1>3. QED
  BY <1>1, <1>2

\* An order of a finite set is a sequence of its elements.
LEMMA OrderProperties ==
    ASSUME NEW D, IsFiniteSet(D), NEW S \in SUBSET D, NEW s \in SetToSeqs(S)
    PROVE  s \in Seq(D) /\ ToSet(s) \subseteq S
<1>1. Cardinality(S) \in Nat
  BY FS_Subset, FS_CardinalityType
<1>2. s \in [1 .. Cardinality(S) -> S]
  BY DEF SetToSeqs
<1>3. QED
  BY <1>1, <1>2 DEF ToSet

-----------------------------------------------------------------------------
(* Types. *)

Statuses == {"none"} \union Active \union Terminal

\* What finalize_terminal_agent leaves.
LEMMA PrunedTypes ==
    ASSUME archived \subseteq Agents, NEW t \in Seq(Agents), Pruned(t)
    PROVE  /\ ended' \in Seq(Agents) /\ Len(ended') <= MaxTracked
           /\ archived' \subseteq Agents
           /\ ToSet(ended') \subseteq ToSet(t)
<1>1. MaxTracked \in Nat
  BY LimitAssumption
<1>2. ToSet(t) \subseteq Agents
  BY DEF ToSet
<1>3. QED
  BY <1>1, <1>2, NewestProperties DEF Pruned

\* A payload names batches, and is sent to a session.
LEMMA SendsTypes ==
    ASSUME TypeOK, listener' = listener,
           NEW closed \in SUBSET Batches, Sends(closed)
    PROVE  /\ queue' \in [Sessions -> Seq(SUBSET Batches)]
           /\ quiet' \subseteq Batches
<1>1. Payload' \subseteq Batches
  BY DEF Payload
<1>2. QED
  <2>1. CASE listener = NoSession \/ Payload' = {}
    BY <2>1 DEF Sends, TypeOK
  <2>2. CASE ~(listener = NoSession \/ Payload' = {})
    <3>1. listener \in Sessions /\ queue[listener] \in Seq(SUBSET Batches)
      BY <2>2 DEF TypeOK
    <3>2. Append(queue[listener], Payload') \in Seq(SUBSET Batches)
      BY <1>1, <3>1
    <3>3. QED
      BY <2>2, <3>1, <3>2 DEF Sends, TypeOK
  <2>3. QED
    BY <2>1, <2>2

\* What an abort does to the tasks.
LEMMA AbortsTypes ==
    ASSUME TypeOK, NEW S \in SUBSET Agents, AbortsTasks(S)
    PROVE  /\ handles' = handles \ S
           /\ aborted' \subseteq Agents /\ aborted \subseteq aborted'
           /\ task' \in [Agents -> Tasks]
           /\ \A a \in Agents : \/ task'[a] = "gone"
                              \/ /\ task'[a] = task[a]
                                 /\ a \in S \intersect handles => a \in aborted' \/ task[a] = "gone"
<1>1. PICK polled \in SUBSET {a \in S \intersect handles : task[a] # "gone"} :
          /\ aborted' = aborted \union polled
          /\ task' = [a \in Agents |->
                         IF a \in (S \intersect handles) \ polled THEN "gone"
                         ELSE task[a]]
  BY DEF AbortsTasks
<1>2. QED
  BY <1>1 DEF AbortsTasks, TypeOK, Tasks

\* What the end of some agents does.
LEMMA EndedTypes ==
    ASSUME TypeOK, NEW S \in SUBSET Agents, NEW result \in Terminal,
           Ended(S, result)
    PROVE  /\ status' \in [Agents -> Statuses]
           /\ status' = [a \in Agents |-> IF a \in S THEN result ELSE status[a]]
           /\ ended' \in Seq(Agents) /\ Len(ended') <= MaxTracked
           /\ archived' \subseteq Agents
           /\ ToSet(ended') \subseteq ToSet(ended) \union S
<1>1. status' = [a \in Agents |-> IF a \in S THEN result ELSE status[a]]
  BY DEF Ended
<1>2. status' \in [Agents -> Statuses]
  BY <1>1 DEF TypeOK, Statuses
<1>3. PICK s \in SetToSeqs(S) : Pruned(ended \o s)
  BY DEF Ended
<1>4. s \in Seq(Agents) /\ ToSet(s) \subseteq S
  BY <1>3, OrderProperties, FiniteAssumption
<1>5. ended \in Seq(Agents) /\ archived \subseteq Agents
  BY DEF TypeOK
<1>6. ended \o s \in Seq(Agents) /\ ToSet(ended \o s) \subseteq ToSet(ended) \union S
  <2>1. /\ ended \o s \in Seq(Agents) /\ Len(ended \o s) = Len(ended) + Len(s)
        /\ \A i \in 1 .. Len(ended) + Len(s) :
              (ended \o s)[i] = IF i <= Len(ended) THEN ended[i] ELSE s[i - Len(ended)]
    BY <1>4, <1>5, ConcatProperties
  <2>2. ASSUME NEW i \in DOMAIN (ended \o s)
        PROVE  (ended \o s)[i] \in ToSet(ended) \union S
    <3>1. CASE i <= Len(ended)
      <4>1. (ended \o s)[i] = ended[i] /\ i \in DOMAIN ended
        BY <1>5, <2>1, <3>1
      <4>2. QED
        BY <4>1 DEF ToSet
    <3>2. CASE ~(i <= Len(ended))
      <4>1. (ended \o s)[i] = s[i - Len(ended)] /\ i - Len(ended) \in DOMAIN s
        BY <1>4, <1>5, <2>1, <3>2
      <4>2. s[i - Len(ended)] \in ToSet(s)
        BY <4>1 DEF ToSet
      <4>3. QED
        BY <1>4, <4>1, <4>2
    <3>3. QED
      BY <3>1, <3>2
  <2>3. QED
    BY <2>1, <2>2 DEF ToSet
<1>7. QED
  BY <1>1, <1>2, <1>3, <1>5, <1>6, PrunedTypes

\* A task goes on or is gone.
LEMMA OnwardsTypes ==
    ASSUME TypeOK, NEW a \in Agents, NEW where \in Tasks, Onwards(a, where)
    PROVE  /\ task' \in [Agents -> Tasks]
           /\ \A c \in Agents : c # a => task'[c] = task[c]
           /\ task'[a] \in {where, "gone"}
BY DEF Onwards, TypeOK, Tasks

\* The state always has its types, and the live map keeps its bound.
THEOREM TypeCorrect == Spec => []TypeOK
<1>1. Init => TypeOK
  BY LimitAssumption DEF Init, TypeOK, Tasks, ToSet
<1>2. TypeOK /\ [Next]_vars => TypeOK'
  <2> SUFFICES ASSUME TypeOK, [Next]_vars PROVE TypeOK'
    OBVIOUS
  <2> USE DEF waitVars, wakeVars
  <2>1. ASSUME NEW b \in Batches, Creates(b) PROVE TypeOK'
    <3>1. status' \in [Agents -> Statuses] /\ task' \in [Agents -> Tasks]
      BY <2>1 DEF Creates, TypeOK, Statuses, Active, Tasks
    <3>2. handles' \subseteq Agents
      BY <2>1 DEF Creates, TypeOK, Members
    <3>3. queue' \in [Sessions -> Seq(SUBSET Batches)] /\ quiet' \subseteq Batches
      BY <2>1, SendsTypes DEF Creates
    <3>4. QED
      BY <2>1, <3>1, <3>2, <3>3 DEF Creates, TypeOK, Statuses
  <2>2. ASSUME NEW a \in Agents, Starts(a) PROVE TypeOK'
    <3>1. task' \in [Agents -> Tasks]
      BY <2>2, OnwardsTypes DEF Starts, Tasks
    <3>2. /\ status' \in [Agents -> Statuses]
          /\ ended' \in Seq(Agents) /\ Len(ended') <= MaxTracked
      <4>1. CASE Live(a)
        <5>1. status' \in [Agents -> Statuses]
          BY <2>2, <4>1 DEF Starts, TypeOK, Statuses, Active
        <5>2. /\ ended' \in Seq(Agents) /\ Len(ended') <= Len(ended)
              /\ Len(ended) <= MaxTracked /\ Len(ended) \in Nat
          BY <2>2, <4>1, WithoutProperties DEF Starts, TypeOK
        <5>3. Len(ended') \in Nat
          BY <5>2
        <5>4. QED
          BY <5>1, <5>2, <5>3, LimitAssumption
      <4>2. CASE ~Live(a)
        BY <2>2, <4>2 DEF Starts, TypeOK, Statuses
      <4>3. QED
        BY <4>1, <4>2
    <3>3. queue' \in [Sessions -> Seq(SUBSET Batches)] /\ quiet' \subseteq Batches
      <4>1. CASE Known(a)
        BY <2>2, <4>1, SendsTypes DEF Starts
      <4>2. CASE ~Known(a)
        BY <2>2, <4>2 DEF Starts, TypeOK
      <4>3. QED
        BY <4>1, <4>2
    <3>4. QED
      BY <2>2, <3>1, <3>2, <3>3 DEF Starts, TypeOK, Statuses
  <2>3. ASSUME NEW a \in Agents, Progresses(a) PROVE TypeOK'
    <3>1. task' \in [Agents -> Tasks]
      BY <2>3, OnwardsTypes DEF Progresses, Tasks
    <3>2. queue' \in [Sessions -> Seq(SUBSET Batches)] /\ quiet' \subseteq Batches
      <4>1. CASE Live(a)
        BY <2>3, <4>1, SendsTypes DEF Progresses
      <4>2. CASE ~Live(a)
        BY <2>3, <4>2 DEF Progresses, TypeOK
      <4>3. QED
        BY <4>1, <4>2
    <3>3. QED
      BY <2>3, <3>1, <3>2 DEF Progresses, TypeOK
  <2>4. ASSUME NEW a \in Agents, NEW result \in {"completed", "failed"},
               Ends(a, result)
        PROVE  TypeOK'
    <3>1. task' \in [Agents -> Tasks]
      BY <2>4 DEF Ends, TypeOK, Tasks
    <3>2. CASE Live(a)
      <4>1. status' \in [Agents -> Statuses]
        BY <2>4, <3>2 DEF Ends, TypeOK, Statuses, Terminal
      <4>2. ended \in Seq(Agents) /\ archived \subseteq Agents
        BY DEF TypeOK
      <4>3. Append(Without(ended, a), a) \in Seq(Agents)
        BY <4>2, WithoutProperties
      <4>4. Pruned(Append(Without(ended, a), a))
        BY <2>4, <3>2 DEF Ends
      <4>5. /\ ended' \in Seq(Agents) /\ Len(ended') <= MaxTracked
            /\ archived' \subseteq Agents
        BY <4>2, <4>3, <4>4, PrunedTypes
      <4>6. queue' \in [Sessions -> Seq(SUBSET Batches)] /\ quiet' \subseteq Batches
        BY <2>4, <3>2, SendsTypes DEF Ends
      <4>7. QED
        BY <2>4, <3>1, <3>2, <4>1, <4>5, <4>6 DEF Ends, TypeOK, Statuses
    <3>3. CASE ~Live(a)
      BY <2>4, <3>1, <3>3 DEF Ends, TypeOK
    <3>4. QED
      BY <3>2, <3>3
  <2>5. ASSUME NEW S \in SUBSET Agents, Cancels(S) PROVE TypeOK'
    <3>1. AbortsTasks(S) /\ Ended(S, "cancelled") /\ "cancelled" \in Terminal
      BY <2>5 DEF Cancels, Terminal
    <3>2. /\ handles' \subseteq Agents /\ aborted' \subseteq Agents
          /\ task' \in [Agents -> Tasks]
      BY <3>1, AbortsTypes DEF TypeOK
    <3>3. /\ status' \in [Agents -> Statuses]
          /\ ended' \in Seq(Agents) /\ Len(ended') <= MaxTracked
          /\ archived' \subseteq Agents
      BY <3>1, EndedTypes
    <3>4. quiet' \subseteq Batches
      BY <2>5 DEF Cancels, Closes, TypeOK
    <3>5. QED
      BY <2>5, <3>2, <3>3, <3>4 DEF Cancels, TypeOK, Statuses
  <2>6. ASSUME NEW S \in SUBSET Agents, TimesOut(S) PROVE TypeOK'
    <3>1. AbortsTasks(S) /\ Ended(S, "failed") /\ "failed" \in Terminal
      BY <2>6 DEF TimesOut, Terminal
    <3>2. /\ handles' \subseteq Agents /\ aborted' \subseteq Agents
          /\ task' \in [Agents -> Tasks]
      BY <3>1, AbortsTypes DEF TypeOK
    <3>3. /\ status' \in [Agents -> Statuses]
          /\ ended' \in Seq(Agents) /\ Len(ended') <= MaxTracked
          /\ archived' \subseteq Agents
      BY <3>1, EndedTypes
    <3>4. Closes(S) \in SUBSET Batches
      BY DEF Closes
    <3>5. queue' \in [Sessions -> Seq(SUBSET Batches)] /\ quiet' \subseteq Batches
      BY <2>6, <3>4, SendsTypes DEF TimesOut
    <3>6. QED
      BY <2>6, <3>2, <3>3, <3>5 DEF TimesOut, TypeOK, Statuses
  <2>7. ASSUME NEW s \in Sessions, Opens(s) PROVE TypeOK'
    BY <2>7 DEF Opens, TypeOK
  <2>8. ASSUME NEW s \in Sessions, Forwards(s) PROVE TypeOK'
    <3> DEFINE new == Newly(s, Head(queue[s]))
    <3>1. queue[s] \in Seq(SUBSET Batches) /\ queue[s] # <<>>
      BY <2>8 DEF Forwards, TypeOK
    <3>2. Head(queue[s]) \in SUBSET Batches /\ Tail(queue[s]) \in Seq(SUBSET Batches)
      BY <3>1
    <3>3. new \in SUBSET Batches
      BY <3>2 DEF Newly
    <3>4. queue' \in [Sessions -> Seq(SUBSET Batches)]
      BY <2>8, <3>2 DEF Forwards, TypeOK
    <3>5. PICK q \in SetToSeqs(new) :
              woken' = [woken EXCEPT ![s] = Newest(woken[s] \o q, MaxWakes)]
      BY <2>8 DEF Forwards
    <3>6. q \in Seq(Batches)
      BY <3>3, <3>5, OrderProperties, FiniteAssumption
    <3>7. woken[s] \o q \in Seq(Batches)
      BY <3>6 DEF TypeOK
    <3>8. Newest(woken[s] \o q, MaxWakes) \in Seq(Batches)
      <4>1. MaxWakes \in Nat
        BY LimitAssumption
      <4>2. QED
        BY <3>7, <4>1, NewestProperties
    <3>9. woken' \in [Sessions -> Seq(Batches)]
      BY <3>5, <3>8 DEF TypeOK
    <3>10. heard' \subseteq Sessions \X Batches
      BY <2>8, <3>3 DEF Forwards, TypeOK
    <3>11. QED
      BY <2>8, <3>4, <3>9, <3>10 DEF Forwards, TypeOK, agentVars
  <2>9. ASSUME NEW s \in Sessions, NEW new \in Sessions, Reconfigures(s, new)
        PROVE  TypeOK'
    BY <2>9 DEF Reconfigures, TypeOK, agentVars, sendVars
  <2>10. ASSUME NEW s \in Sessions, NEW b \in Batches, Looks(s, b) PROVE TypeOK'
    <3>1. UNCHANGED <<agentVars, sendVars, place, wakeVars, forgotten>>
      BY <2>10 DEF Looks
    <3>2. seen' \subseteq Sessions \X Agents /\ told' \subseteq Sessions \X Batches
      <4>1. \/ \E a \in Agents : seen' = seen \union {<<s, a>>} /\ told' = told
            \/ told' = told \union {<<s, b>>} /\ seen' = seen
        BY <2>10 DEF Looks, Listed, Members
      <4>2. QED
        BY <4>1 DEF TypeOK
    <3>3. QED
      BY <3>1, <3>2 DEF TypeOK, agentVars, sendVars
  <2>11. CASE UNCHANGED vars
    BY <2>11 DEF vars, agentVars, sendVars, TypeOK
  <2>12. QED
    BY <2>1, <2>2, <2>3, <2>4, <2>5, <2>6, <2>7, <2>8, <2>9, <2>10, <2>11 DEF Next
<1>3. QED
  BY <1>1, <1>2, PTL DEF Spec

-----------------------------------------------------------------------------
(* Owners, outcomes and announcements. *)

\* A task that may still take the lock belongs to an agent whose handle the
\* manager has, or was aborted in a poll.
TasksAreOwned ==
    \A a \in Agents : task[a] \in {"spawned", "working"} => a \in handles \union aborted

Owned == ActiveCanBeStopped /\ TasksAreOwned

\* A batch is created as a whole, and what has ended was created.
BatchesAreWhole ==
    /\ \A a, c \in Agents :
          BatchOf[a] = BatchOf[c] /\ status[a] = "none" => status[c] = "none"
    /\ \A a \in ToSet(ended) : status[a] # "none"

\* The agents that are not aborted keep their outcome, and no agent is
\* uncreated.
LEMMA StepKeepsOutcomes ==
    ASSUME TypeOK, Owned, [Next]_vars
    PROVE  \A a \in Agents : /\ aborted \subseteq aborted'
                             /\ status[a] \in Terminal /\ a \notin aborted
                                   => status'[a] = status[a]
                             /\ status[a] # "none" => status'[a] # "none"
<1> DEFINE Kept == \A c \in Agents :
                      /\ status[c] \in Terminal /\ c \notin aborted
                            => status'[c] = status[c]
                      /\ status[c] # "none" => status'[c] # "none"
<1>1. /\ status \in [Agents -> Statuses]
      /\ \A a \in handles : status[a] \in Active
      /\ \A a \in Agents : task[a] \in {"spawned", "working"}
                             => a \in handles \union aborted
      /\ handles \subseteq Agents
  BY DEF TypeOK, Statuses, Owned, ActiveCanBeStopped, TasksAreOwned
<1>2. Active \intersect Terminal = {} /\ "none" \notin Active \union Terminal
  BY DEF Active, Terminal
<1>3. ASSUME NEW b \in Batches, Creates(b)
      PROVE  Kept /\ aborted' = aborted
  BY <1>1, <1>2, <1>3 DEF Creates
<1>4. ASSUME NEW a \in Agents, Starts(a)
      PROVE  Kept /\ aborted' = aborted
  <2>1. \A c \in Agents : status'[c] = status[c] \/ (c = a /\ status'[c] = "running")
    BY <1>1, <1>4 DEF Starts
  <2>2. aborted' = aborted /\ a \in handles \union aborted
    BY <1>1, <1>4 DEF Starts
  <2>3. QED
    BY <1>1, <1>2, <2>1, <2>2
<1>5. ASSUME NEW a \in Agents, Progresses(a)
      PROVE  Kept /\ aborted' = aborted
  BY <1>5 DEF Progresses
<1>6. ASSUME NEW a \in Agents, NEW result \in {"completed", "failed"},
             Ends(a, result)
      PROVE  Kept /\ aborted' = aborted
  <2>1. \A c \in Agents : status'[c] = status[c] \/ (c = a /\ status'[c] = result)
    BY <1>1, <1>6 DEF Ends
  <2>2. aborted' = aborted /\ a \in handles \union aborted
    BY <1>1, <1>6 DEF Ends
  <2>3. QED
    BY <1>1, <1>2, <2>1, <2>2
<1>7. ASSUME NEW S \in SUBSET Agents, Cancels(S)
      PROVE  Kept /\ aborted \subseteq aborted'
  <2>1. /\ AbortsTasks(S) /\ Ended(S, "cancelled") /\ "cancelled" \in Terminal
        /\ S \subseteq handles
    BY <1>7 DEF Cancels, Cancellable, Terminal
  <2>2. aborted \subseteq aborted'
    BY <2>1, AbortsTypes
  <2>3. status' = [c \in Agents |-> IF c \in S THEN "cancelled" ELSE status[c]]
    BY <2>1 DEF Ended
  <2>4. QED
    BY <1>1, <1>2, <2>1, <2>2, <2>3
<1>8. ASSUME NEW S \in SUBSET Agents, TimesOut(S)
      PROVE  Kept /\ aborted \subseteq aborted'
  <2>1. /\ AbortsTasks(S) /\ Ended(S, "failed") /\ "failed" \in Terminal
        /\ \A a \in S : status[a] \in Active
    BY <1>8 DEF TimesOut, Terminal
  <2>2. aborted \subseteq aborted'
    BY <2>1, AbortsTypes
  <2>3. status' = [c \in Agents |-> IF c \in S THEN "failed" ELSE status[c]]
    BY <2>1 DEF Ended
  <2>4. QED
    BY <1>1, <1>2, <2>1, <2>2, <2>3
<1>9. ASSUME \/ \E s \in Sessions : Opens(s) \/ Forwards(s)
             \/ \E s, new \in Sessions : Reconfigures(s, new)
             \/ \E s \in Sessions, b \in Batches : Looks(s, b)
             \/ UNCHANGED vars
      PROVE  Kept /\ aborted' = aborted
  BY <1>9 DEF Opens, Forwards, Reconfigures, Looks, vars, agentVars
<1> HIDE DEF Kept
<1>10. Kept /\ aborted \subseteq aborted'
  BY <1>3, <1>4, <1>5, <1>6, <1>7, <1>8, <1>9 DEF Next
<1>11. QED
  BY <1>10 DEF Kept

\* Ownership is inductive.
LEMMA OwnershipInvariant == Spec => []Owned
<1>1. Init => Owned
  BY DEF Init, Owned, ActiveCanBeStopped, TasksAreOwned, Active
<1>2. TypeOK /\ Owned /\ [Next]_vars => Owned'
  <2> SUFFICES ASSUME TypeOK, Owned, [Next]_vars PROVE Owned'
    OBVIOUS
  <2>1. /\ status \in [Agents -> Statuses] /\ task \in [Agents -> Tasks]
        /\ handles \subseteq Agents
    BY DEF TypeOK, Statuses
  <2> USE DEF ActiveCanBeStopped, TasksAreOwned
  <2>2. ASSUME NEW b \in Batches, Creates(b) PROVE Owned'
    <3>1. \A a \in Members(b) : status'[a] = "pending" /\ a \in handles'
      BY <2>2 DEF Creates, Members
    <3>2. \A a \in Agents : \/ a \in Members(b)
                           \/ /\ status'[a] = status[a] /\ task'[a] = task[a]
                              /\ (a \in handles' <=> a \in handles)
      BY <2>2 DEF Creates
    <3>3. aborted' = aborted
      BY <2>2 DEF Creates
    <3>4. QED
      BY <3>1, <3>2, <3>3 DEF Owned, Active
  <2>3. ASSUME NEW a \in Agents, Starts(a) PROVE Owned'
    <3>1. /\ handles' = handles /\ aborted' = aborted
          /\ a \in handles \union aborted
      BY <2>3 DEF Starts, Owned
    <3>2. \A c \in Agents : status'[c] = status[c] \/ (c = a /\ status'[c] = "running")
      BY <2>1, <2>3 DEF Starts
    <3>3. \A c \in Agents : c # a => task'[c] = task[c]
      BY <2>1, <2>3 DEF Starts, Onwards
    <3>4. QED
      BY <3>1, <3>2, <3>3 DEF Owned, Active
  <2>4. ASSUME NEW a \in Agents, Progresses(a) PROVE Owned'
    <3>1. /\ handles' = handles /\ aborted' = aborted /\ status' = status
          /\ a \in handles \union aborted
      BY <2>4 DEF Progresses, Owned
    <3>2. \A c \in Agents : c # a => task'[c] = task[c]
      BY <2>1, <2>4 DEF Progresses, Onwards
    <3>3. QED
      BY <3>1, <3>2 DEF Owned
  <2>5. ASSUME NEW a \in Agents, NEW result \in {"completed", "failed"},
               Ends(a, result)
        PROVE  Owned'
    <3>1. /\ aborted' = aborted
          /\ \A c \in Agents : c # a => /\ task'[c] = task[c]
                                        /\ status'[c] = status[c]
                                        /\ (c \in handles' <=> c \in handles)
      BY <2>1, <2>5 DEF Ends
    <3>2. task'[a] = "gone"
      BY <2>1, <2>5 DEF Ends
    <3>3. CASE Live(a)
      <4>1. status'[a] = result /\ a \notin handles' /\ result \notin Active
        BY <2>1, <2>5, <3>3 DEF Ends, Active
      <4>2. TasksAreOwned'
        BY <3>1, <3>2, <4>1 DEF Owned
      <4>3. ActiveCanBeStopped'
        BY <3>1, <4>1 DEF Owned
      <4>4. QED
        BY <4>2, <4>3 DEF Owned
    <3>4. CASE ~Live(a)
      <4>1. status' = status /\ handles' = handles
        BY <2>5, <3>4 DEF Ends
      <4>2. TasksAreOwned'
        BY <3>1, <3>2, <4>1 DEF Owned
      <4>3. ActiveCanBeStopped'
        BY <3>1, <4>1 DEF Owned
      <4>4. QED
        BY <4>2, <4>3 DEF Owned
    <3>5. QED
      BY <3>3, <3>4
  <2>6. ASSUME NEW S \in SUBSET Agents, NEW result \in Terminal,
               AbortsTasks(S), Ended(S, result)
        PROVE  Owned'
    <3>1. /\ handles' = handles \ S /\ aborted \subseteq aborted'
          /\ \A a \in Agents : \/ task'[a] = "gone"
                               \/ /\ task'[a] = task[a]
                                  /\ a \in S \intersect handles
                                        => a \in aborted' \/ task[a] = "gone"
      BY <2>6, AbortsTypes
    <3>2. status' = [a \in Agents |-> IF a \in S THEN result ELSE status[a]]
      BY <2>6 DEF Ended
    <3>3. result \notin Active
      BY DEF Terminal, Active
    <3>4. \A a \in Agents : IF a \in S THEN status'[a] = result
                                       ELSE status'[a] = status[a]
      BY <3>2
    <3>5. QED
      BY <3>1, <3>3, <3>4 DEF Owned
  <2>7. ASSUME NEW S \in SUBSET Agents, Cancels(S) \/ TimesOut(S) PROVE Owned'
    BY <2>6, <2>7 DEF Cancels, TimesOut, Terminal
  <2>8. ASSUME \/ \E s \in Sessions : Opens(s) \/ Forwards(s)
               \/ \E s, new \in Sessions : Reconfigures(s, new)
               \/ \E s \in Sessions, b \in Batches : Looks(s, b)
               \/ UNCHANGED vars
        PROVE  Owned'
    <3>1. UNCHANGED <<status, task, handles, aborted>>
      BY <2>8 DEF Opens, Forwards, Reconfigures, Looks, vars, agentVars
    <3>2. QED
      BY <3>1 DEF Owned
  <2>9. QED
    BY <2>2, <2>3, <2>4, <2>5, <2>7, <2>8 DEF Next
<1>3. QED
  BY <1>1, <1>2, TypeCorrect, PTL DEF Spec

\* The manager can stop every agent that is at work, and keeps no other handle.
THEOREM ActiveAreStoppable == Spec => []ActiveCanBeStopped
BY OwnershipInvariant, PTL DEF Owned

\* An outcome never changes, unless the task was aborted in a poll.
THEOREM OutcomesStay == Spec => OutcomeStays
<1>1. TypeOK /\ Owned /\ [Next]_vars
        => [\A a \in Agents : status[a] \in Terminal /\ a \notin aborted
                                 => status'[a] = status[a]]_vars
  BY StepKeepsOutcomes
<1>2. QED
  BY <1>1, TypeCorrect, OwnershipInvariant, PTL DEF Spec, OutcomeStays

\* A batch exists as a whole, and only what was created has ended.
LEMMA WholeInvariant == Spec => []BatchesAreWhole
<1>1. Init => BatchesAreWhole
  BY DEF Init, BatchesAreWhole, ToSet
<1>2. TypeOK /\ Owned /\ BatchesAreWhole /\ [Next]_vars => BatchesAreWhole'
  <2> SUFFICES ASSUME TypeOK, Owned, BatchesAreWhole, [Next]_vars
               PROVE  BatchesAreWhole'
    OBVIOUS
  <2> DEFINE SameBirths == \A c \in Agents : (status'[c] = "none") <=> (status[c] = "none")
             Part(e) == ToSet(e) \subseteq {c \in Agents : status'[c] # "none"}
  <2>1. /\ status \in [Agents -> Statuses] /\ ended \in Seq(Agents)
        /\ archived \subseteq Agents
        /\ \A a \in handles : a \in Agents /\ status[a] \in Active
        /\ \A a \in ToSet(ended) : a \in Agents /\ status[a] # "none"
    BY DEF TypeOK, Statuses, Owned, ActiveCanBeStopped, BatchesAreWhole, ToSet
  <2>2. "none" \notin Active \union Terminal
    BY DEF Active, Terminal
  <2>3. ASSUME SameBirths, Part(ended') PROVE BatchesAreWhole'
    <3>1. \A a, c \in Agents :
              BatchOf[a] = BatchOf[c] /\ status'[a] = "none" => status'[c] = "none"
      BY <2>3 DEF BatchesAreWhole
    <3>2. \A a \in ToSet(ended') : status'[a] # "none"
      BY <2>3
    <3>3. ToSet(ended') = ToSet(ended)'
      BY DEF ToSet
    <3>4. QED
      BY <3>1, <3>2, <3>3 DEF BatchesAreWhole
  <2>4. ASSUME NEW b \in Batches, Creates(b) PROVE BatchesAreWhole'
    <3>1. \A a \in Agents : status'[a] = IF a \in Members(b) THEN "pending" ELSE status[a]
      BY <2>4 DEF Creates
    <3>2. ended' = ended
      BY <2>4 DEF Creates
    <3>3. \A a, c \in Agents :
              BatchOf[a] = BatchOf[c] /\ status'[a] = "none" => status'[c] = "none"
      BY <3>1 DEF BatchesAreWhole, Members
    <3>4. \A a \in ToSet(ended) : status'[a] # "none"
      BY <2>1, <3>1
    <3>5. ToSet(ended)' = ToSet(ended)
      BY <3>2 DEF ToSet
    <3>6. QED
      BY <3>3, <3>4, <3>5 DEF BatchesAreWhole
  <2>5. ASSUME NEW a \in Agents, Live(a) PROVE status[a] # "none"
    BY <2>1, <2>2, <2>5 DEF Live
  <2>6. ASSUME NEW a \in Agents, Starts(a) PROVE BatchesAreWhole'
    <3>1. CASE Live(a)
      <4>1. \A c \in Agents : status'[c] = IF c = a THEN "running" ELSE status[c]
        BY <2>1, <2>6, <3>1 DEF Starts
      <4>2. ToSet(ended') \subseteq ToSet(ended)
        BY <2>1, <2>6, <3>1, WithoutProperties DEF Starts
      <4>3. SameBirths /\ Part(ended')
        BY <2>1, <2>5, <3>1, <4>1, <4>2
      <4>4. QED
        BY <2>3, <4>3
    <3>2. CASE ~Live(a)
      <4>1. status' = status /\ ended' = ended
        BY <2>6, <3>2 DEF Starts
      <4>2. QED
        BY <2>1, <2>3, <4>1
    <3>3. QED
      BY <3>1, <3>2
  <2>7. ASSUME NEW a \in Agents, NEW result \in {"completed", "failed"},
               Ends(a, result)
        PROVE  BatchesAreWhole'
    <3>1. CASE Live(a)
      <4>1. \A c \in Agents : status'[c] = IF c = a THEN result ELSE status[c]
        BY <2>1, <2>7, <3>1 DEF Ends
      <4>2. /\ Without(ended, a) \in Seq(Agents)
            /\ ToSet(Without(ended, a)) \subseteq ToSet(ended)
        BY <2>1, WithoutProperties
      <4>3. /\ Append(Without(ended, a), a) \in Seq(Agents)
            /\ ToSet(Append(Without(ended, a), a)) \subseteq ToSet(Without(ended, a)) \union {a}
        BY <4>2 DEF ToSet
      <4>4. Pruned(Append(Without(ended, a), a))
        BY <2>7, <3>1 DEF Ends
      <4>5. ToSet(ended') \subseteq ToSet(ended) \union {a}
        BY <2>1, <4>2, <4>3, <4>4, PrunedTypes
      <4>6. SameBirths /\ Part(ended')
        BY <2>1, <2>5, <3>1, <4>1, <4>5
      <4>7. QED
        BY <2>3, <4>6
    <3>2. CASE ~Live(a)
      <4>1. status' = status /\ ended' = ended
        BY <2>7, <3>2 DEF Ends
      <4>2. QED
        BY <2>1, <2>3, <4>1
    <3>3. QED
      BY <3>1, <3>2
  <2>8. ASSUME NEW S \in SUBSET Agents, NEW result \in Terminal,
               Ended(S, result), \A a \in S : status[a] \in Active
        PROVE  BatchesAreWhole'
    <3>1. \A c \in Agents : status'[c] = IF c \in S THEN result ELSE status[c]
      BY <2>8 DEF Ended
    <3>2. ToSet(ended') \subseteq ToSet(ended) \union S
      BY <2>8, EndedTypes
    <3>3. SameBirths /\ Part(ended')
      BY <2>1, <2>2, <2>8, <3>1, <3>2
    <3>4. QED
      BY <2>3, <3>3
  <2>9. ASSUME NEW S \in SUBSET Agents, Cancels(S) \/ TimesOut(S)
        PROVE  BatchesAreWhole'
    BY <2>1, <2>8, <2>9 DEF Cancels, Cancellable, TimesOut, Terminal
  <2>10. ASSUME \/ \E a \in Agents : Progresses(a)
                \/ \E s \in Sessions : Opens(s) \/ Forwards(s)
                \/ \E s, new \in Sessions : Reconfigures(s, new)
                \/ \E s \in Sessions, b \in Batches : Looks(s, b)
                \/ UNCHANGED vars
         PROVE  BatchesAreWhole'
    <3>1. status' = status /\ ended' = ended
      BY <2>10 DEF Progresses, Opens, Forwards, Reconfigures, Looks, vars, agentVars
    <3>2. QED
      BY <2>1, <2>3, <3>1
  <2>11. QED
    BY <2>4, <2>6, <2>7, <2>9, <2>10 DEF Next
<1>3. QED
  BY <1>1, <1>2, TypeCorrect, OwnershipInvariant, PTL DEF Spec

\* What a payload names has ended at that moment.
LEMMA PayloadIsTrue ==
    ASSUME TypeOK, BatchesAreWhole, NEW b \in Payload
    PROVE  b \in Batches /\ \A a \in Members(b) : status[a] \in Terminal
<1>1. status \in [Agents -> Statuses] /\ ended \in Seq(Agents)
  BY DEF TypeOK, Statuses
<1>2. PICK a \in Members(b) : a \in ToSet(Visible)
  BY DEF Payload
<1>3. a \in ToSet(ended)
  BY <1>1, <1>2, NewestProperties, LimitAssumption DEF Visible
<1>4. status[a] # "none"
  BY <1>3 DEF BatchesAreWhole
<1>5. \A c \in Members(b) : status[c] # "none" /\ status[c] \notin Active
  BY <1>2, <1>4 DEF BatchesAreWhole, Members, Payload
<1>6. QED
  BY <1>1, <1>5 DEF Statuses, Members, Payload

Told(s, b) == <<s, b>> \in heard \/ Shown(s, b)

\* A session learns of a batch from a payload only.
LEMMA TellingStep ==
    ASSUME TypeOK, [Next]_vars, NEW s \in Sessions, NEW b \in Batches, Told(s, b)'
    PROVE  Told(s, b) \/ b \in Payload'
<1>1. queue \in [Sessions -> Seq(SUBSET Batches)]
  BY DEF TypeOK
<1>2. CASE /\ heard' = heard
           /\ \E closed \in SUBSET Batches : Sends(closed)
  <2>1. CASE queue' = queue
    BY <1>2, <2>1 DEF Told, Shown
  <2>2. CASE queue' = [queue EXCEPT ![listener] = Append(@, Payload')]
    <3>1. CASE s = listener
      <4>1. queue'[s] = Append(queue[s], Payload') /\ queue[s] \in Seq(SUBSET Batches)
        BY <1>1, <2>2, <3>1
      <4>2. ASSUME NEW i \in DOMAIN queue'[s], b \in queue'[s][i]
            PROVE  Shown(s, b) \/ b \in Payload'
        <5>1. CASE i \in DOMAIN queue[s]
          BY <4>1, <4>2, <5>1 DEF Shown
        <5>2. CASE i \notin DOMAIN queue[s]
          <6>1. queue'[s][i] = Payload'
            BY <4>1, <5>2
          <6>2. QED
            BY <4>2, <6>1
        <5>3. QED
          BY <5>1, <5>2
      <4>3. QED
        BY <1>2, <4>2 DEF Told, Shown
    <3>2. CASE s # listener
      <4>1. queue'[s] = queue[s]
        BY <1>1, <2>2, <3>2
      <4>2. QED
        BY <1>2, <4>1 DEF Told, Shown
    <3>3. QED
      BY <3>1, <3>2
  <2>3. QED
    BY <1>2, <2>1, <2>2 DEF Sends
<1>3. CASE heard' = heard /\ queue' = queue
  BY <1>3 DEF Told, Shown
<1>4. ASSUME NEW t \in Sessions, Forwards(t) PROVE Told(s, b)
  <2>1. /\ queue' = [queue EXCEPT ![t] = Tail(@)]
        /\ heard' = heard \union ({t} \X Newly(t, Head(queue[t])))
        /\ queue[t] \in Seq(SUBSET Batches) /\ queue[t] # <<>>
    BY <1>1, <1>4 DEF Forwards
  <2>2. CASE <<s, b>> \in heard
    BY <2>2 DEF Told
  <2>3. CASE <<s, b>> \in heard' \ heard
    <3>1. s = t /\ b \in Head(queue[t])
      BY <2>1, <2>3 DEF Newly
    <3>2. 1 \in DOMAIN queue[t] /\ b \in queue[t][1]
      BY <2>1, <3>1
    <3>3. QED
      BY <3>1, <3>2 DEF Told, Shown
  <2>4. CASE Shown(s, b)'
    <3>1. PICK i \in DOMAIN queue'[s] : b \in queue'[s][i]
      BY <2>4 DEF Shown
    <3>2. CASE s = t
      <4>1. queue'[s] = Tail(queue[s])
        BY <1>1, <2>1, <3>2
      <4>2. i + 1 \in DOMAIN queue[s] /\ queue'[s][i] = queue[s][i + 1]
        <5> DEFINE q == queue[s]
        <5>1. q \in Seq(SUBSET Batches) /\ q # <<>> /\ i \in DOMAIN Tail(q)
          BY <2>1, <3>1, <3>2, <4>1
        <5> HIDE DEF q
        <5>2. Tail(q) \in Seq(SUBSET Batches)
          BY <5>1, HeadTailProperties
        <5>3. i \in 1 .. Len(Tail(q))
          BY <5>1, <5>2
        <5>4. Len(Tail(q)) = Len(q) - 1 /\ Tail(q)[i] = q[i + 1]
          BY <5>1, <5>3, HeadTailProperties
        <5>5. i + 1 \in DOMAIN q
          BY <5>1, <5>3, <5>4
        <5>6. QED
          BY <4>1, <5>4, <5>5 DEF q
      <4>3. QED
        BY <3>1, <4>2 DEF Told, Shown
    <3>3. CASE s # t
      <4>1. queue'[s] = queue[s]
        BY <1>1, <2>1, <3>3
      <4>2. QED
        BY <3>1, <4>1 DEF Told, Shown
    <3>4. QED
      BY <3>2, <3>3
  <2>5. QED
    BY <2>2, <2>3, <2>4 DEF Told
<1> USE DEF wakeVars, sendVars
<1>5. ASSUME NEW c \in Batches, Creates(c) PROVE Told(s, b) \/ b \in Payload'
  BY <1>2, <1>5 DEF Creates
<1>6. ASSUME NEW a \in Agents, Starts(a) \/ Progresses(a)
      PROVE  Told(s, b) \/ b \in Payload'
  <2>1. heard' = heard /\ (queue' = queue \/ Sends({}))
    BY <1>6 DEF Starts, Progresses
  <2>2. QED
    BY <1>2, <1>3, <2>1
<1>7. ASSUME NEW a \in Agents, NEW result \in {"completed", "failed"},
             Ends(a, result)
      PROVE  Told(s, b) \/ b \in Payload'
  <2>1. heard' = heard /\ (queue' = queue \/ Sends({}))
    BY <1>7 DEF Ends
  <2>2. QED
    BY <1>2, <1>3, <2>1
<1>8. ASSUME NEW S \in SUBSET Agents, Cancels(S) \/ TimesOut(S)
      PROVE  Told(s, b) \/ b \in Payload'
  <2>1. heard' = heard /\ (queue' = queue \/ Sends(Closes(S)))
    BY <1>8 DEF Cancels, TimesOut
  <2>2. Closes(S) \in SUBSET Batches
    BY DEF Closes
  <2>3. QED
    BY <1>2, <1>3, <2>1, <2>2
<1>9. ASSUME \/ \E t \in Sessions : Opens(t)
             \/ \E t, new \in Sessions : Reconfigures(t, new)
             \/ \E t \in Sessions, c \in Batches : Looks(t, c)
             \/ UNCHANGED vars
      PROVE  Told(s, b) \/ b \in Payload'
  <2>1. heard' = heard /\ queue' = queue
    BY <1>9 DEF Opens, Reconfigures, Looks, vars
  <2>2. QED
    BY <1>3, <2>1
<1>10. QED
  BY <1>4, <1>5, <1>6, <1>7, <1>8, <1>9 DEF Next

\* No session learns that a batch has completed while an agent of it is at work.
THEOREM WakesAreNotEarly == Spec => []NoEarlyWake
<1>1. Init => NoEarlyWake
  BY DEF Init, NoEarlyWake, Shown
<1>2. /\ TypeOK /\ TypeOK' /\ Owned /\ BatchesAreWhole'
      /\ NoEarlyWake /\ [Next]_vars
      => NoEarlyWake'
  <2> SUFFICES ASSUME TypeOK, TypeOK', Owned, BatchesAreWhole', NoEarlyWake,
                      [Next]_vars
               PROVE  NoEarlyWake'
    OBVIOUS
  <2> DEFINE Over(b) == \A a \in Members(b) : status[a] \in Terminal \/ a \in aborted
  <2>1. \A b \in Batches : Over(b) => Over(b)'
    BY StepKeepsOutcomes DEF Members
  <2>2. ASSUME NEW b \in Batches, b \in Payload' PROVE Over(b)'
    <3>1. TypeOK /\ BatchesAreWhole /\ b \in Payload
            => \A a \in Members(b) : status[a] \in Terminal
      BY PayloadIsTrue
    <3>2. (TypeOK /\ BatchesAreWhole /\ b \in Payload
            => \A a \in Members(b) : status[a] \in Terminal)'
      BY PayloadIsTrue, <3>1, PTL
    <3>3. QED
      BY <2>2, <3>2
  <2>3. ASSUME NEW s \in Sessions, NEW b \in Batches, Told(s, b)' PROVE Over(b)'
    <3>1. Told(s, b) \/ b \in Payload'
      BY <2>3, TellingStep
    <3>2. Told(s, b) => Over(b)
      BY DEF NoEarlyWake, Told
    <3>3. QED
      BY <2>1, <2>2, <3>1, <3>2
  <2> HIDE DEF Over
  <2>4. \A b \in Batches, s \in Sessions : Told(s, b)' => Over(b)'
    BY <2>3
  <2>5. QED
    BY <2>4 DEF NoEarlyWake, Told, Over
<1>3. QED
  BY <1>1, <1>2, TypeCorrect, OwnershipInvariant, WholeInvariant, PTL DEF Spec

-----------------------------------------------------------------------------
(* Somebody hears of a batch that has ended. *)

\* The newest of a sequence end as it does.
LEMMA NewestLast ==
    ASSUME NEW D, NEW s \in Seq(D), s # <<>>, NEW n \in Nat \ {0}
    PROVE  /\ Newest(s, n) \in Seq(D) /\ Newest(s, n) # <<>>
           /\ Newest(s, n)[Len(Newest(s, n))] = s[Len(s)]
<1>1. CASE Len(s) <= n
  BY <1>1 DEF Newest
<1>2. CASE ~(Len(s) <= n)
  <2> DEFINE m == Len(s) - n + 1
  <2>1. /\ Newest(s, n) = SubSeq(s, m, Len(s))
        /\ m \in Int /\ Len(s) \in Int /\ m >= 1 /\ m <= Len(s) /\ Len(s) - m + 1 = n
    BY <1>2 DEF Newest
  <2>2. \A i \in m .. Len(s) : s[i] \in D
    BY <2>1
  <2> HIDE DEF m
  <2>3. /\ SubSeq(s, m, Len(s)) \in Seq(D)
        /\ Len(SubSeq(s, m, Len(s))) = IF m <= Len(s) THEN Len(s) - m + 1 ELSE 0
        /\ \A i \in 1 .. Len(s) - m + 1 : SubSeq(s, m, Len(s))[i] = s[m + i - 1]
    BY ONLY <2>1, <2>2, SubSeqProperties
  <2>4. /\ Newest(s, n) \in Seq(D) /\ Len(Newest(s, n)) = n
        /\ Newest(s, n)[n] = s[m + n - 1] /\ m + n - 1 = Len(s)
    BY <2>1, <2>3
  <2>5. QED
    BY <2>4
<1>3. QED
  BY <1>1, <1>2

\* The agent that ended last is shown by the next payload.
LEMMA LastIsVisible ==
    ASSUME NEW t \in Seq(Agents), NEW a \in Agents, Pruned(Append(t, a))
    PROVE  a \in ToSet(Visible)'
<1>1. MaxTracked \in Nat \ {0} /\ MaxStatus \in Nat \ {0}
  BY LimitAssumption
<1> DEFINE all == Append(t, a)
<1>2. all \in Seq(Agents) /\ all # <<>> /\ all[Len(all)] = a
  OBVIOUS
<1>3. ended' = Newest(all, MaxTracked)
  BY DEF Pruned
<1> HIDE DEF all
<1>4. ended' \in Seq(Agents) /\ ended' # <<>> /\ ended'[Len(ended')] = a
  BY <1>1, <1>2, <1>3, NewestLast
<1> DEFINE shown == Newest(ended', MaxStatus)
<1>5. shown \in Seq(Agents) /\ shown # <<>> /\ shown[Len(shown)] = a
  BY <1>1, <1>4, NewestLast
<1>6. Visible' = shown
  BY DEF Visible
<1> HIDE DEF shown
<1>7. Len(shown) \in DOMAIN shown
  BY <1>5
<1>8. QED
  BY <1>5, <1>6, <1>7 DEF ToSet

\* Until a session listens, nothing has happened.
SomebodyListens ==
    \/ listener \in Sessions
    \/ /\ \A a \in Agents : status[a] = "none" /\ task[a] = "none"
       /\ \A s \in Sessions : place[s] = "unused"

\* What a session was woken for and has not forgotten, it has heard.
WokenWereHeard == \A s \in Sessions : \A b \in ToSet(woken[s]) : <<s, b>> \in heard

LEMMA ListenerInvariant == Spec => []SomebodyListens
<1>1. Init => SomebodyListens
  BY DEF Init, SomebodyListens
<1>2. TypeOK /\ Owned /\ SomebodyListens /\ [Next]_vars => SomebodyListens'
  <2> SUFFICES ASSUME TypeOK, Owned, SomebodyListens, [Next]_vars
               PROVE  SomebodyListens'
    OBVIOUS
  <2>1. handles \subseteq Agents /\ \A a \in handles : status[a] \in Active
    BY DEF TypeOK, Owned, ActiveCanBeStopped
  <2>2. listener' = listener \/ listener' \in Sessions
    BY DEF Next, Creates, Starts, Progresses, Ends, Cancels, TimesOut, Opens, Reconfigures,
       Forwards, Looks, vars, agentVars, sendVars
  <2>3. CASE listener \in Sessions
    BY <2>2, <2>3 DEF SomebodyListens
  <2>4. ASSUME \A a \in Agents : status[a] = "none" /\ task[a] = "none",
               \A s \in Sessions : place[s] = "unused",
               listener' \notin Sessions
        PROVE  UNCHANGED <<status, task, place>>
    <3>1. \A b \in Batches : ~Creates(b)
      BY <2>4 DEF Creates
    <3>2. \A a \in Agents : ~Starts(a) /\ ~Progresses(a)
      BY <2>4 DEF Starts, Progresses
    <3>3. \A a \in Agents, result \in {"completed", "failed"} : ~Ends(a, result)
      BY <2>4 DEF Ends
    <3>4. \A S \in SUBSET Agents : ~Cancels(S) /\ ~TimesOut(S)
      BY <2>1, <2>4 DEF Cancels, Cancellable, TimesOut, Active
    <3>5. \A s \in Sessions : ~Opens(s)
      BY <2>4 DEF Opens
    <3>6. \A s, new \in Sessions : ~Reconfigures(s, new)
      BY <2>4 DEF Reconfigures
    <3>7. \A s \in Sessions : Forwards(s) => UNCHANGED <<status, task, place>>
      BY DEF Forwards, agentVars
    <3>8. \A s \in Sessions, b \in Batches : Looks(s, b) => UNCHANGED <<status, task, place>>
      BY DEF Looks, agentVars
    <3>9. UNCHANGED vars => UNCHANGED <<status, task, place>>
      BY DEF vars, agentVars
    <3>10. QED
      BY <3>1, <3>2, <3>3, <3>4, <3>5, <3>6, <3>7, <3>8, <3>9 DEF Next
  <2>5. QED
    BY <2>3, <2>4 DEF SomebodyListens
<1>3. QED
  BY <1>1, <1>2, TypeCorrect, OwnershipInvariant, PTL DEF Spec

LEMMA HeardInvariant == Spec => []WokenWereHeard
<1>1. Init => WokenWereHeard
  BY DEF Init, WokenWereHeard, ToSet
<1>2. TypeOK /\ WokenWereHeard /\ [Next]_vars => WokenWereHeard'
  <2> SUFFICES ASSUME TypeOK, WokenWereHeard, [Next]_vars PROVE WokenWereHeard'
    OBVIOUS
  <2>1. ASSUME NEW s \in Sessions, Forwards(s) PROVE WokenWereHeard'
    <3> DEFINE new == Newly(s, Head(queue[s]))
    <3>1. PICK q \in SetToSeqs(new) :
              woken' = [woken EXCEPT ![s] = Newest(woken[s] \o q, MaxWakes)]
      BY <2>1 DEF Forwards
    <3>2. heard' = heard \union ({s} \X new)
      BY <2>1 DEF Forwards
    <3>3. new \in SUBSET Batches
      <4>1. queue[s] \in Seq(SUBSET Batches) /\ queue[s] # <<>>
        BY <2>1 DEF Forwards, TypeOK
      <4>2. QED
        BY <4>1 DEF Newly
    <3> HIDE DEF new
    <3>4. q \in Seq(Batches) /\ ToSet(q) \subseteq new
      BY <3>1, <3>3, OrderProperties, FiniteAssumption
    <3>5. woken \in [Sessions -> Seq(Batches)] /\ MaxWakes \in Nat
      BY LimitAssumption DEF TypeOK
    <3>6. /\ woken[s] \o q \in Seq(Batches)
          /\ Len(woken[s] \o q) = Len(woken[s]) + Len(q)
          /\ \A i \in 1 .. Len(woken[s]) + Len(q) :
               (woken[s] \o q)[i] = IF i <= Len(woken[s]) THEN woken[s][i]
                                    ELSE q[i - Len(woken[s])]
      BY <3>4, <3>5, ConcatProperties
    <3>7. ToSet(woken[s] \o q) \subseteq ToSet(woken[s]) \union new
      <4>1. ASSUME NEW i \in DOMAIN (woken[s] \o q)
            PROVE  (woken[s] \o q)[i] \in ToSet(woken[s]) \union ToSet(q)
        <5>1. CASE i <= Len(woken[s])
          <6>1. (woken[s] \o q)[i] = woken[s][i] /\ i \in DOMAIN woken[s]
            BY <3>5, <3>6, <5>1
          <6>2. QED
            BY <6>1 DEF ToSet
        <5>2. CASE ~(i <= Len(woken[s]))
          <6>1. (woken[s] \o q)[i] = q[i - Len(woken[s])] /\ i - Len(woken[s]) \in DOMAIN q
            BY <3>4, <3>5, <3>6, <5>2
          <6>2. QED
            BY <6>1 DEF ToSet
        <5>3. QED
          BY <5>1, <5>2
      <4>2. QED
        BY <3>4, <4>1 DEF ToSet
    <3>8. woken'[s] = Newest(woken[s] \o q, MaxWakes)
      BY <3>1, <3>5
    <3>9. ToSet(woken'[s]) \subseteq ToSet(woken[s]) \union new
      BY <3>5, <3>6, <3>7, <3>8, NewestProperties
    <3>10. \A t \in Sessions : t # s => woken'[t] = woken[t]
      BY <3>1, <3>5
    <3>11. \A t \in Sessions : \A b \in ToSet(woken'[t]) : <<t, b>> \in heard'
      BY <3>2, <3>9, <3>10 DEF WokenWereHeard
    <3>12. QED
      BY <3>11 DEF WokenWereHeard, ToSet
  <2>2. ASSUME \A s \in Sessions : ~Forwards(s) PROVE UNCHANGED wakeVars
    BY <2>2 DEF Next, Creates, Starts, Progresses, Ends, Cancels, TimesOut, Opens, Reconfigures,
       Looks, vars
  <2>3. CASE UNCHANGED wakeVars
    BY <2>3 DEF wakeVars, WokenWereHeard, ToSet
  <2>4. QED
    BY <2>1, <2>2, <2>3
<1>3. QED
  BY <1>1, <1>2, TypeCorrect, PTL DEF Spec

Spoken(b) == \E s \in Sessions : Told(s, b)

\* What a step does for a batch: what was said stays said, and a batch that was
\* quiet or has just ended is spoken of or quiet.
Carries(b) ==
    /\ Spoken(b) => Spoken(b)'
    /\ b \in quiet => b \in quiet' \/ Spoken(b)'
    /\ HasEnded(b)' => HasEnded(b) \/ b \in quiet' \/ Spoken(b)'

\* A payload that is sent is on its way.
LEMMA SendsSpeaks ==
    ASSUME TypeOK, SomebodyListens, listener' = listener, heard' = heard,
           NEW closed \in SUBSET Batches, Sends(closed), listener \in Sessions,
           NEW b \in Batches
    PROVE  /\ Spoken(b) \/ b \in Payload' => Spoken(b)'
           /\ b \in quiet \union closed => b \in quiet' \/ b \in Payload'
<1>1. queue \in [Sessions -> Seq(SUBSET Batches)] /\ Payload' \in SUBSET Batches
      /\ listener # NoSession
  BY SessionAssumption DEF TypeOK, Payload
<1>2. CASE Payload' = {}
  <2>1. queue' = queue
    BY <1>2 DEF Sends
  <2>2. QED
    BY <1>2, <2>1 DEF Spoken, Told, Shown, Sends
<1>3. CASE Payload' # {}
  <2> DEFINE p == Payload'
  <2>1. queue' = [queue EXCEPT ![listener] = Append(@, p)]
    BY <1>1, <1>3 DEF Sends
  <2>2. quiet' = (quiet \union closed) \ p
    BY DEF Sends
  <2>3. p \in SUBSET Batches
    BY <1>1
  <2> HIDE DEF p
  <2>4. PICK l \in Sessions : l = listener
    OBVIOUS
  <2>5. /\ queue'[l] = Append(queue[l], p) /\ queue[l] \in Seq(SUBSET Batches)
        /\ \A s \in Sessions : s # l => queue'[s] = queue[s]
    BY <1>1, <2>1, <2>4
  <2>6. /\ Len(queue[l]) \in Nat /\ Len(queue[l]) + 1 \in DOMAIN queue'[l]
        /\ queue'[l][Len(queue[l]) + 1] = p
        /\ \A i \in DOMAIN queue[l] : i \in DOMAIN queue'[l] /\ queue'[l][i] = queue[l][i]
    BY <2>3, <2>5
  <2>7. b \in p => Shown(l, b)'
    BY <2>6 DEF Shown
  <2>8. \A s \in Sessions : Shown(s, b) => Shown(s, b)'
    BY <2>5, <2>6 DEF Shown
  <2>9. QED
    BY <2>2, <2>7, <2>8 DEF Spoken, Told, p
<1>4. QED
  BY <1>2, <1>3

\* The forwarder drops what its session has heard.
LEMMA ForwardsSpeaks ==
    ASSUME TypeOK, WokenWereHeard, NEW s \in Sessions, Forwards(s), NEW b \in Batches, Spoken(b)
    PROVE  Spoken(b)'
<1>1. /\ queue \in [Sessions -> Seq(SUBSET Batches)]
      /\ queue' = [queue EXCEPT ![s] = Tail(@)]
      /\ heard' = heard \union ({s} \X Newly(s, Head(queue[s])))
      /\ queue[s] \in Seq(SUBSET Batches) /\ queue[s] # <<>>
  BY DEF Forwards, TypeOK
<1>2. PICK t \in Sessions : Told(t, b)
  BY DEF Spoken
<1>3. CASE <<t, b>> \in heard
  BY <1>1, <1>3 DEF Spoken, Told
<1>4. CASE Shown(t, b)
  <2>1. PICK i \in DOMAIN queue[t] : b \in queue[t][i]
    BY <1>4 DEF Shown
  <2>2. CASE t # s
    <3>1. queue'[t] = queue[t]
      BY <1>1, <2>2
    <3>2. QED
      BY <2>1, <3>1 DEF Spoken, Told, Shown
  <2>3. CASE t = s /\ i = 1
    <3>1. b \in Head(queue[s])
      BY <1>1, <2>1, <2>3
    <3>2. <<s, b>> \in heard'
      BY <1>1, <3>1 DEF Newly, WokenWereHeard
    <3>3. QED
      BY <3>2 DEF Spoken, Told
  <2>4. CASE t = s /\ i # 1
    <3> DEFINE q == queue[s]
    <3>1. q \in Seq(SUBSET Batches) /\ q # <<>> /\ i \in DOMAIN q /\ i # 1 /\ b \in q[i]
      BY <1>1, <2>1, <2>4
    <3>2. queue'[s] = Tail(q)
      BY <1>1
    <3> HIDE DEF q
    <3>3. Len(Tail(q)) = Len(q) - 1 /\ Tail(q) \in Seq(SUBSET Batches)
      BY <3>1, HeadTailProperties
    <3>4. i - 1 \in 1 .. Len(Tail(q)) /\ (i - 1) + 1 = i
      BY <3>1, <3>3
    <3>5. Tail(q)[i - 1] = q[i]
      BY <3>1, <3>4, HeadTailProperties
    <3>6. i - 1 \in DOMAIN Tail(q) /\ b \in Tail(q)[i - 1]
      BY <3>1, <3>3, <3>4, <3>5
    <3>7. QED
      BY <3>2, <3>6 DEF Spoken, Told, Shown
  <2>5. QED
    BY <2>2, <2>3, <2>4
<1>5. QED
  BY <1>2, <1>3, <1>4 DEF Told

\* Steps that say nothing and end nothing.
LEMMA CarriesQuietly ==
    ASSUME NEW b, heard' = heard, queue' = queue, b \in quiet => b \in quiet',
           HasEnded(b)' => HasEnded(b) \/ b \in quiet'
    PROVE  Carries(b)
<1>1. \A s \in Sessions : Told(s, b)' = Told(s, b)
  BY DEF Told, Shown
<1>2. QED
  BY <1>1 DEF Carries, Spoken

LEMMA StepCarries ==
    ASSUME TypeOK, Owned, BatchesAreWhole, SomebodyListens, WokenWereHeard, [Next]_vars,
           NEW b \in Batches
    PROVE  Carries(b)
<1>1. /\ status \in [Agents -> Statuses] /\ ended \in Seq(Agents)
      /\ \A a \in handles : a \in Agents /\ status[a] \in Active
      /\ \A a \in ToSet(ended) : a \in Agents /\ status[a] # "none"
  BY DEF TypeOK, Statuses, Owned, ActiveCanBeStopped, BatchesAreWhole, ToSet
<1>2. "none" \notin Active \union Terminal /\ Active \intersect Terminal = {}
  BY DEF Active, Terminal
<1> USE DEF wakeVars, waitVars
<1>3. ASSUME listener' = listener, heard' = heard, NEW closed \in SUBSET Batches, Sends(closed),
             listener \in Sessions,
             HasEnded(b)' => HasEnded(b) \/ b \in closed \/ b \in Payload'
      PROVE  Carries(b)
  <2>1. /\ Spoken(b) \/ b \in Payload' => Spoken(b)'
        /\ b \in quiet \union closed => b \in quiet' \/ b \in Payload'
    BY <1>3, SendsSpeaks
  <2>2. QED
    BY <1>3, <2>1 DEF Carries
<1>4. ASSUME status' = status PROVE HasEnded(b)' = HasEnded(b)
  BY <1>4 DEF HasEnded
<1>5. ASSUME NEW a \in Agents, NEW st \in Active, status' = [status EXCEPT ![a] = st]
      PROVE  HasEnded(b)' => HasEnded(b)
  <2>1. \A c \in Agents : status'[c] = IF c = a THEN st ELSE status[c]
    BY <1>1, <1>5
  <2>2. QED
    BY <1>2, <2>1 DEF HasEnded, Members
<1>6. ASSUME NEW d \in Batches, Creates(d) PROVE Carries(b)
  <2>1. \A c \in Agents : status'[c] = IF c \in Members(d) THEN "pending" ELSE status[c]
    BY <1>6 DEF Creates
  <2>2. HasEnded(b)' => HasEnded(b)
    BY <1>2, <2>1 DEF HasEnded, Members, Active
  <2>3. listener \in Sessions
    BY <1>6 DEF Creates, SomebodyListens
  <2>4. QED
    BY <1>3, <1>6, <2>2, <2>3 DEF Creates
<1>7. ASSUME NEW a \in Agents, Starts(a) PROVE Carries(b)
  <2>1. listener \in Sessions
    BY <1>7 DEF Starts, SomebodyListens
  <2>2. HasEnded(b)' => HasEnded(b)
    <3>1. status' = status \/ status' = [status EXCEPT ![a] = "running"]
      BY <1>7 DEF Starts
    <3>2. QED
      BY <1>4, <1>5, <3>1 DEF Active
  <2>3. CASE Known(a)
    BY <1>3, <1>7, <2>1, <2>2, <2>3 DEF Starts
  <2>4. CASE ~Known(a)
    BY <1>7, <2>2, <2>4, CarriesQuietly DEF Starts
  <2>5. QED
    BY <2>3, <2>4
<1>8. ASSUME NEW a \in Agents, Progresses(a) PROVE Carries(b)
  <2>1. listener \in Sessions
    BY <1>8 DEF Progresses, SomebodyListens
  <2>2. HasEnded(b)' => HasEnded(b)
    BY <1>4, <1>8 DEF Progresses
  <2>3. CASE Live(a)
    BY <1>3, <1>8, <2>1, <2>2, <2>3 DEF Progresses
  <2>4. CASE ~Live(a)
    BY <1>8, <2>2, <2>4, CarriesQuietly DEF Progresses
  <2>5. QED
    BY <2>3, <2>4
<1>9. ASSUME NEW a \in Agents, NEW result \in {"completed", "failed"}, Ends(a, result)
      PROVE  Carries(b)
  <2>1. listener \in Sessions
    BY <1>9 DEF Ends, SomebodyListens
  <2>2. CASE Live(a)
    <3>1. \A c \in Agents : status'[c] = IF c = a THEN result ELSE status[c]
      BY <1>1, <1>9, <2>2 DEF Ends
    <3>2. a \in ToSet(Visible)'
      <4>1. Without(ended, a) \in Seq(Agents)
        BY <1>1, WithoutProperties
      <4>2. Pruned(Append(Without(ended, a), a))
        BY <1>9, <2>2 DEF Ends
      <4>3. QED
        BY <4>1, <4>2, LastIsVisible
    <3>3. ASSUME HasEnded(b)', ~HasEnded(b) PROVE b \in Payload'
      <4>1. a \in Members(b)
        BY <3>1, <3>3 DEF HasEnded, Members
      <4>2. \A c \in Members(b) : status'[c] \notin Active
        BY <1>2, <3>3 DEF HasEnded
      <4>3. a \in Members(b)' /\ \A c \in Members(b)' : status'[c] \notin Active
        BY <4>1, <4>2 DEF Members
      <4>4. QED
        BY <3>2, <4>3 DEF Payload
    <3>4. QED
      BY <1>3, <1>9, <2>1, <2>2, <3>3 DEF Ends
  <2>3. CASE ~Live(a)
    <3>1. UNCHANGED <<status, heard, queue, quiet>>
      BY <1>9, <2>3 DEF Ends
    <3>2. QED
      BY <1>4, <3>1, CarriesQuietly
  <2>4. QED
    BY <2>2, <2>3
<1>10. ASSUME NEW S \in SUBSET Agents, NEW result \in Terminal, Ended(S, result), HasEnded(b)',
              \A a \in S : status[a] \in Active
       PROVE  HasEnded(b) \/ b \in Closes(S)
  <2>1. \A c \in Agents : status'[c] = IF c \in S THEN result ELSE status[c]
    BY <1>10 DEF Ended
  <2>2. \A c \in Members(b) : status'[c] \notin Active
    BY <1>2, <1>10 DEF HasEnded
  <2>3. Members(b) \intersect S = {} => HasEnded(b)
    BY <1>10, <2>1 DEF HasEnded, Members
  <2>4. QED
    BY <2>2, <2>3 DEF Closes
<1>11. ASSUME NEW S \in SUBSET Agents, Cancels(S) PROVE Carries(b)
  <2>1. /\ Ended(S, "cancelled") /\ quiet' = quiet \union Closes(S)
        /\ heard' = heard /\ queue' = queue /\ "cancelled" \in Terminal
        /\ \A a \in S : status[a] \in Active
    BY <1>1, <1>11 DEF Cancels, Cancellable, Terminal
  <2>2. HasEnded(b)' => HasEnded(b) \/ b \in Closes(S)
    BY <1>10, <2>1
  <2>3. QED
    BY <2>1, <2>2, CarriesQuietly
<1>12. ASSUME NEW S \in SUBSET Agents, TimesOut(S) PROVE Carries(b)
  <2>1. /\ Ended(S, "failed") /\ Sends(Closes(S)) /\ Closes(S) \in SUBSET Batches
        /\ heard' = heard /\ listener' = listener /\ "failed" \in Terminal
        /\ \A a \in S : status[a] \in Active
    BY <1>12 DEF TimesOut, Terminal, Closes
  <2>2. HasEnded(b)' => HasEnded(b) \/ b \in Closes(S)
    BY <1>10, <2>1
  <2>3. listener \in Sessions
    BY <1>2, <1>12 DEF TimesOut, SomebodyListens
  <2>4. QED
    BY <1>3, <2>1, <2>2, <2>3
<1>13. ASSUME NEW s \in Sessions, Forwards(s) PROVE Carries(b)
  <2>1. status' = status /\ quiet' = quiet
    BY <1>13 DEF Forwards, agentVars
  <2>2. QED
    BY <1>4, <1>13, <2>1, ForwardsSpeaks DEF Carries
<1>14. ASSUME \/ \E s \in Sessions : Opens(s)
              \/ \E s, new \in Sessions : Reconfigures(s, new)
              \/ \E s \in Sessions, d \in Batches : Looks(s, d)
              \/ UNCHANGED vars
       PROVE  Carries(b)
  <2>1. UNCHANGED <<status, heard, queue, quiet>>
    BY <1>14 DEF Opens, Reconfigures, Looks, vars, agentVars, sendVars
  <2>2. QED
    BY <1>4, <2>1, CarriesQuietly
<1>15. QED
  BY <1>6, <1>7, <1>8, <1>9, <1>11, <1>12, <1>13, <1>14 DEF Next

\* Some session is told of every batch that has ended, but for those whose last
\* agents were cancelled or left out of the payload of the sweep.
THEOREM EndsAreAnnounced == Spec => []Announced
<1>1. Init => Announced
  BY DEF Init, Announced, HasEnded, Members, Terminal
<1>2. /\ TypeOK /\ Owned /\ BatchesAreWhole /\ SomebodyListens /\ WokenWereHeard
      /\ Announced /\ [Next]_vars
      => Announced'
  <2> SUFFICES ASSUME TypeOK, Owned, BatchesAreWhole, SomebodyListens, WokenWereHeard,
                      Announced, [Next]_vars
               PROVE  Announced'
    OBVIOUS
  <2>1. \A b \in Batches : HasEnded(b) => b \in quiet \/ Spoken(b)
    BY DEF Announced, Spoken, Told
  <2>2. ASSUME NEW b \in Batches PROVE HasEnded(b)' => b \in quiet' \/ Spoken(b)'
    <3>1. Carries(b)
      BY StepCarries
    <3>2. QED
      BY <2>1, <3>1 DEF Carries
  <2>3. \A b \in Batches : HasEnded(b)' => b \in quiet' \/ \E s \in Sessions : Told(s, b)'
    BY <2>2 DEF Spoken
  <2>4. QED
    BY <2>3 DEF Announced, Told
<1>3. QED
  BY <1>1, <1>2, TypeCorrect, OwnershipInvariant, WholeInvariant, ListenerInvariant,
     HeardInvariant, PTL DEF Spec

-----------------------------------------------------------------------------
(* No wait passes over an agent. *)

\* A sequence without an agent has the others.
LEMMA WithoutKeeps ==
    ASSUME NEW D, NEW s \in Seq(D), NEW a, NEW x \in ToSet(s), x # a
    PROVE  x \in ToSet(Without(s, a))
<1>1. CASE a \notin ToSet(s)
  BY <1>1 DEF Without
<1>2. CASE a \in ToSet(s)
  <2>1. PICK i \in 1 .. Len(s) : s[i] = a /\ Without(s, a) = RemoveAt(s, i)
    <3> DEFINE j == CHOOSE k \in DOMAIN s : s[k] = a
    <3>1. \E k \in DOMAIN s : s[k] = a
      BY <1>2 DEF ToSet
    <3>2. j \in DOMAIN s /\ s[j] = a
      BY <3>1
    <3>3. Without(s, a) = RemoveAt(s, j)
      BY <1>2 DEF Without
    <3>4. j \in 1 .. Len(s)
      BY <3>2
    <3> HIDE DEF j
    <3>5. QED
      BY <3>2, <3>3, <3>4
  <2> DEFINE front == SubSeq(s, 1, i - 1)
             back == SubSeq(s, i + 1, Len(s))
  <2>2. /\ front \in Seq(D) /\ Len(front) = i - 1
        /\ \A k \in 1 .. i - 1 : front[k] = s[k]
    OBVIOUS
  <2>3. /\ back \in Seq(D) /\ Len(back) = Len(s) - i
        /\ \A k \in 1 .. Len(s) - i : back[k] = s[i + k]
    OBVIOUS
  <2>4. Without(s, a) = front \o back
    BY <2>1 DEF RemoveAt
  <2> HIDE DEF front, back
  <2>5. /\ front \o back \in Seq(D)
        /\ Len(front \o back) = Len(s) - 1
        /\ \A k \in 1 .. Len(s) - 1 :
             (front \o back)[k] = IF k <= i - 1 THEN front[k] ELSE back[k - (i - 1)]
    <3>1. /\ front \o back \in Seq(D) /\ Len(front \o back) = Len(front) + Len(back)
          /\ \A k \in 1 .. Len(front) + Len(back) :
               (front \o back)[k] = IF k <= Len(front) THEN front[k] ELSE back[k - Len(front)]
      BY <2>2, <2>3, ConcatProperties
    <3>2. Len(front) + Len(back) = Len(s) - 1
      BY <2>2, <2>3
    <3>3. QED
      BY <2>2, <3>1, <3>2
  <2>6. PICK k \in 1 .. Len(s) : s[k] = x
    BY DEF ToSet
  <2>7. k # i
    BY <2>1, <2>6
  <2>8. CASE k < i
    <3>1. k \in 1 .. i - 1 /\ k \in 1 .. Len(s) - 1
      BY <2>8
    <3>2. (front \o back)[k] = x /\ k \in DOMAIN (front \o back)
      BY <2>2, <2>5, <2>6, <3>1
    <3>3. QED
      BY <2>4, <3>2 DEF ToSet
  <2>9. CASE k > i
    <3>1. /\ k - 1 \in 1 .. Len(s) - 1 /\ ~(k - 1 <= i - 1)
          /\ (k - 1) - (i - 1) = k - i /\ k - i \in 1 .. Len(s) - i /\ i + (k - i) = k
      BY <2>9
    <3>2. (front \o back)[k - 1] = back[k - i]
      BY <2>5, <3>1
    <3>3. back[k - i] = x
      BY <2>3, <2>6, <3>1
    <3>4. k - 1 \in DOMAIN (front \o back)
      BY <2>5, <3>1
    <3>5. QED
      BY <2>4, <3>2, <3>3, <3>4 DEF ToSet
  <2>10. QED
    BY <2>7, <2>8, <2>9
<1>3. QED
  BY <1>1, <1>2

\* An order of a finite set has all its elements.
LEMMA OrderIsComplete ==
    ASSUME NEW D, IsFiniteSet(D), NEW S \in SUBSET D, NEW s \in SetToSeqs(S)
    PROVE  S \subseteq ToSet(s)
<1>1. IsFiniteSet(S) /\ Cardinality(S) \in Nat
  BY FS_Subset, FS_CardinalityType
<1> DEFINE I == 1 .. Cardinality(S)
<1>2. s \in [I -> S] /\ \A i, j \in I : i # j => s[i] # s[j]
  BY DEF SetToSeqs
<1>3. Cardinality(I) = Cardinality(S)
  BY <1>1, FS_Interval
<1> HIDE DEF I
<1>4. s \in Injection(I, S)
  BY <1>2 DEF Injection, IsInjective
<1>5. s \in Surjection(I, S)
  BY <1>1, <1>3, <1>4, FS_Injection
<1>6. QED
  BY <1>2, <1>5 DEF Surjection, ToSet

\* Both parts of a sequence are in it.
LEMMA ConcatHas ==
    ASSUME NEW D, NEW s \in Seq(D), NEW t \in Seq(D)
    PROVE  ToSet(s) \union ToSet(t) \subseteq ToSet(s \o t)
<1>1. /\ s \o t \in Seq(D) /\ Len(s \o t) = Len(s) + Len(t)
      /\ \A i \in 1 .. Len(s) + Len(t) :
            (s \o t)[i] = IF i <= Len(s) THEN s[i] ELSE t[i - Len(s)]
  BY ConcatProperties
<1>2. ASSUME NEW i \in 1 .. Len(s) PROVE s[i] \in ToSet(s \o t)
  <2>1. i \in DOMAIN (s \o t) /\ (s \o t)[i] = s[i]
    BY <1>1
  <2>2. QED
    BY <2>1 DEF ToSet
<1>3. ASSUME NEW i \in 1 .. Len(t) PROVE t[i] \in ToSet(s \o t)
  <2>1. /\ Len(s) + i \in 1 .. Len(s) + Len(t) /\ ~(Len(s) + i <= Len(s))
        /\ (Len(s) + i) - Len(s) = i
    OBVIOUS
  <2>2. Len(s) + i \in DOMAIN (s \o t) /\ (s \o t)[Len(s) + i] = t[i]
    BY <1>1, <2>1
  <2>3. QED
    BY <2>2 DEF ToSet
<1>4. ToSet(s) = {s[i] : i \in 1 .. Len(s)} /\ ToSet(t) = {t[i] : i \in 1 .. Len(t)}
  BY DEF ToSet
<1>5. \A x \in ToSet(s) : x \in ToSet(s \o t)
  BY <1>2, <1>4
<1>6. \A x \in ToSet(t) : x \in ToSet(s \o t)
  BY <1>3, <1>4
<1>7. QED
  BY <1>5, <1>6

\* An agent that has ended is in the live map or the archive, until a new
\* conversation clears the archive.
Accounted(a) == a \in ToSet(ended) \/ a \in archived \/ a \in forgotten
AllAccounted == \A a \in Agents : status[a] \in Terminal => Accounted(a)

LEMMA AccountInvariant == Spec => []AllAccounted
<1>1. Init => AllAccounted
  BY DEF Init, AllAccounted, Terminal
<1>2. TypeOK /\ AllAccounted /\ [Next]_vars => AllAccounted'
  <2> SUFFICES ASSUME TypeOK, AllAccounted, [Next]_vars PROVE AllAccounted'
    OBVIOUS
  <2> USE DEF wakeVars, waitVars
  <2>1. status \in [Agents -> Statuses] /\ ended \in Seq(Agents)
    BY DEF TypeOK, Statuses
  <2>2. "none" \notin Terminal /\ Active \intersect Terminal = {}
    BY DEF Active, Terminal
  <2>3. ASSUME \A a \in Agents : status'[a] \in Terminal => status[a] \in Terminal,
               \A a \in Agents : Accounted(a) => Accounted(a)'
        PROVE  AllAccounted'
    BY <2>3 DEF AllAccounted
  <2>4. ASSUME NEW t \in Seq(Agents), Pruned(t), forgotten' = forgotten, NEW a \in Agents,
               a \in ToSet(t) \/ a \in archived \/ a \in forgotten
        PROVE  Accounted(a)'
    <3>1. archived' = archived \union (ToSet(t) \ ToSet(ended'))
      BY <2>4 DEF Pruned
    <3>2. ToSet(ended)' = ToSet(ended')
      BY DEF ToSet
    <3>3. QED
      BY <2>4, <3>1, <3>2 DEF Accounted
  <2>5. ASSUME NEW b \in Batches, Creates(b) PROVE AllAccounted'
    <3>1. \A c \in Agents : status'[c] = IF c \in Members(b) THEN "pending" ELSE status[c]
      BY <2>5 DEF Creates
    <3>2. UNCHANGED <<ended, archived, forgotten>>
      BY <2>5 DEF Creates
    <3>3. \A a \in Agents : Accounted(a) => Accounted(a)'
      BY <3>2 DEF Accounted, ToSet
    <3>4. QED
      BY <2>2, <2>3, <3>1, <3>3 DEF Active
  <2>6. ASSUME NEW a \in Agents, Starts(a) PROVE AllAccounted'
    <3>1. UNCHANGED <<archived, forgotten>>
      BY <2>6 DEF Starts
    <3>2. CASE Live(a)
      <4>1. /\ \A c \in Agents : status'[c] = IF c = a THEN "running" ELSE status[c]
            /\ ended' = Without(ended, a)
        BY <2>1, <2>6, <3>2 DEF Starts
      <4>2. \A c \in Agents : c # a /\ c \in ToSet(ended) => c \in ToSet(ended')
        BY <2>1, <4>1, WithoutKeeps
      <4>3. ToSet(ended)' = ToSet(ended')
        BY DEF ToSet
      <4>4. \A c \in Agents : c # a /\ Accounted(c) => Accounted(c)'
        BY <3>1, <4>2, <4>3 DEF Accounted
      <4>5. "running" \notin Terminal
        BY DEF Terminal
      <4>6. QED
        BY <4>1, <4>4, <4>5 DEF AllAccounted
    <3>3. CASE ~Live(a)
      <4>1. UNCHANGED <<status, ended>>
        BY <2>6, <3>3 DEF Starts
      <4>2. QED
        BY <3>1, <4>1 DEF AllAccounted, Accounted, ToSet
    <3>4. QED
      BY <3>2, <3>3
  <2>7. ASSUME NEW a \in Agents, NEW result \in {"completed", "failed"}, Ends(a, result)
        PROVE  AllAccounted'
    <3>1. forgotten' = forgotten
      BY <2>7 DEF Ends
    <3>2. CASE Live(a)
      <4> DEFINE t == Append(Without(ended, a), a)
      <4>1. /\ \A c \in Agents : status'[c] = IF c = a THEN result ELSE status[c]
            /\ Pruned(t)
        BY <2>1, <2>7, <3>2 DEF Ends
      <4>2. Without(ended, a) \in Seq(Agents)
        BY <2>1, WithoutProperties
      <4>3. t \in Seq(Agents) /\ a \in ToSet(t) /\ ToSet(Without(ended, a)) \subseteq ToSet(t)
        <5> DEFINE w == Without(ended, a)
        <5>1. w \in Seq(Agents)
          BY <4>2
        <5> HIDE DEF w
        <5>2. /\ Append(w, a) \in Seq(Agents) /\ Len(Append(w, a)) = Len(w) + 1
              /\ Append(w, a)[Len(w) + 1] = a
              /\ \A i \in 1 .. Len(w) : Append(w, a)[i] = w[i]
          BY <5>1
        <5>3. /\ Len(w) + 1 \in DOMAIN Append(w, a)
              /\ \A i \in DOMAIN w : i \in DOMAIN Append(w, a) /\ i \in 1 .. Len(w)
          BY <5>1, <5>2
        <5>4. QED
          BY <5>2, <5>3 DEF ToSet, w
      <4> HIDE DEF t
      <4>4. \A c \in Agents : c \in ToSet(ended) => c \in ToSet(t)
        BY <2>1, <4>3, WithoutKeeps
      <4>5. \A c \in Agents : c = a \/ Accounted(c) => Accounted(c)'
        BY <2>4, <3>1, <4>1, <4>3, <4>4 DEF Accounted
      <4>6. QED
        BY <4>1, <4>5 DEF AllAccounted
    <3>3. CASE ~Live(a)
      <4>1. UNCHANGED <<status, ended, archived>>
        BY <2>7, <3>3 DEF Ends
      <4>2. QED
        BY <3>1, <4>1 DEF AllAccounted, Accounted, ToSet
    <3>4. QED
      BY <3>2, <3>3
  <2>8. ASSUME NEW S \in SUBSET Agents, Cancels(S) \/ TimesOut(S) PROVE AllAccounted'
    <3>1. forgotten' = forgotten
      BY <2>8 DEF Cancels, TimesOut
    <3>2. PICK result \in Terminal : Ended(S, result)
      BY <2>8 DEF Cancels, TimesOut, Terminal
    <3>3. \A c \in Agents : status'[c] = IF c \in S THEN result ELSE status[c]
      BY <3>2 DEF Ended
    <3>4. PICK s \in SetToSeqs(S) : Pruned(ended \o s)
      BY <3>2 DEF Ended
    <3>5. s \in Seq(Agents) /\ S \subseteq ToSet(s)
      BY <3>4, OrderProperties, OrderIsComplete, FiniteAssumption
    <3>6. ended \o s \in Seq(Agents) /\ ToSet(ended) \union S \subseteq ToSet(ended \o s)
      BY <2>1, <3>5, ConcatHas, ConcatProperties
    <3>7. \A c \in Agents : c \in S \/ Accounted(c) => Accounted(c)'
      BY <2>4, <3>1, <3>4, <3>6 DEF Accounted
    <3>8. QED
      BY <3>3, <3>7 DEF AllAccounted
  <2>9. ASSUME NEW s \in Sessions, Opens(s) PROVE AllAccounted'
    <3>1. UNCHANGED <<status, ended>> /\ forgotten' = forgotten \union archived
      BY <2>9 DEF Opens
    <3>2. QED
      BY <3>1 DEF AllAccounted, Accounted, ToSet
  <2>10. ASSUME \/ \E a \in Agents : Progresses(a)
                \/ \E s \in Sessions : Forwards(s)
                \/ \E s, new \in Sessions : Reconfigures(s, new)
                \/ \E s \in Sessions, b \in Batches : Looks(s, b)
                \/ UNCHANGED vars
         PROVE  AllAccounted'
    <3>1. UNCHANGED <<status, ended, archived, forgotten>>
      BY <2>10 DEF Progresses, Forwards, Reconfigures, Looks, vars, agentVars
    <3>2. QED
      BY <3>1 DEF AllAccounted, Accounted, ToSet
  <2>11. QED
    BY <2>5, <2>6, <2>7, <2>8, <2>9, <2>10 DEF Next
<1>3. QED
  BY <1>1, <1>2, TypeCorrect, PTL DEF Spec

\* `no_agents_remaining` is said of a batch whose agents were all returned, but
\* for those a new conversation has made the manager forget.
THEOREM WaitsSkipNothing == Spec => []NothingSkipped
<1>1. Init => NothingSkipped
  BY DEF Init, NothingSkipped
<1>2. TypeOK /\ BatchesAreWhole /\ AllAccounted /\ NothingSkipped /\ [Next]_vars
      => NothingSkipped'
  <2> SUFFICES ASSUME TypeOK, BatchesAreWhole, AllAccounted, NothingSkipped, [Next]_vars
               PROVE  NothingSkipped'
    OBVIOUS
  <2>1. status \in [Agents -> Statuses]
    BY DEF TypeOK, Statuses
  <2>2. ASSUME NEW s \in Sessions, NEW b \in Batches, Looks(s, b)
        PROVE  /\ seen \subseteq seen' /\ forgotten' = forgotten
               /\ \/ told' = told
                  \/ /\ told' = told \union {<<s, b>>}
                     /\ \A a \in Members(b) : <<s, a>> \in seen \/ a \in forgotten
    <3> DEFINE done == {a \in Listed(b) : status[a] \in Terminal}
    <3>1. forgotten' = forgotten
      BY <2>2 DEF Looks
    <3>2. CASE told' = told /\ \E a \in done : seen' = seen \union {<<s, a>>}
      BY <3>1, <3>2
    <3>3. CASE /\ {a \in done : <<s, a>> \notin seen} = {} /\ done # {} /\ done = Listed(b)
               /\ told' = told \union {<<s, b>>} /\ seen' = seen
      <4>1. PICK c \in Members(b) : status[c] \in Terminal
        BY <3>3 DEF Listed
      <4>2. \A a \in Members(b) : status[a] # "none"
        BY <4>1 DEF BatchesAreWhole, Members, Terminal
      <4>3. ASSUME NEW a \in Members(b) PROVE <<s, a>> \in seen \/ a \in forgotten
        <5>1. CASE Known(a)
          BY <3>3, <5>1 DEF Listed
        <5>2. CASE ~Known(a)
          <6>1. status[a] \notin Active /\ a \notin ToSet(ended) /\ a \notin archived
            BY <5>2 DEF Known, Live
          <6>2. a \in Agents /\ status[a] \in Terminal
            BY <2>1, <4>2, <6>1 DEF Members, Statuses
          <6>3. QED
            BY <6>1, <6>2 DEF AllAccounted, Accounted
        <5>3. QED
          BY <5>1, <5>2
      <4>4. QED
        BY <3>1, <3>3, <4>3
    <3>4. QED
      BY <2>2, <3>2, <3>3 DEF Looks
  <2>3. ASSUME NEW s \in Sessions, NEW b \in Batches, Looks(s, b) PROVE NothingSkipped'
    <3>1. /\ seen \subseteq seen' /\ forgotten' = forgotten
          /\ \/ told' = told
             \/ /\ told' = told \union {<<s, b>>}
                /\ \A a \in Members(b) : <<s, a>> \in seen \/ a \in forgotten
      BY <2>2, <2>3
    <3>2. ASSUME NEW t \in Sessions, NEW d \in Batches, <<t, d>> \in told'
          PROVE  \A a \in Members(d) : <<t, a>> \in seen' \/ a \in forgotten'
      <4>1. CASE <<t, d>> \in told
        BY <3>1, <4>1 DEF NothingSkipped
      <4>2. CASE <<t, d>> \notin told
        BY <3>1, <3>2, <4>2
      <4>3. QED
        BY <4>1, <4>2
    <3>3. QED
      BY <3>2 DEF NothingSkipped, Members
  <2>4. ASSUME ~\E s \in Sessions, b \in Batches : Looks(s, b)
        PROVE  NothingSkipped'
    <3>1. told' = told /\ seen' = seen /\ forgotten \subseteq forgotten'
      BY <2>4 DEF Next, Creates, Starts, Progresses, Ends, Cancels, TimesOut, Opens, Reconfigures,
         Forwards, vars, waitVars
    <3>2. QED
      BY <3>1 DEF NothingSkipped, Members
  <2>5. QED
    BY <2>3, <2>4
<1>3. QED
  BY <1>1, <1>2, TypeCorrect, WholeInvariant, AccountInvariant, PTL DEF Spec

=============================================================================

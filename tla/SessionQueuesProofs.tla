-------------------------- MODULE SessionQueuesProofs --------------------------
(***************************************************************************)
(* What the queues of a session do with submissions and wake-ups, what its *)
(* task slot promises, and what an abort and a review still owe, for any   *)
(* number of submissions, wake-ups, sessions and turns: SlotRefined,       *)
(* QueuedOnce and WakesConserved of SessionTurns, and the safety that      *)
(* InterruptStops and ReviewExits stand on.                                *)
(***************************************************************************)
EXTENDS SessionTurnsProofs, FiniteSetTheorems

-----------------------------------------------------------------------------
(* Queues as sequences.                                                    *)

LEMMA ItemsEmpty == Items(<<>>) = {}
  BY DEF Items

LEMMA ItemsAppend ==
  ASSUME NEW S, NEW seq \in Seq(S), NEW x \in S
  PROVE  /\ Items(Append(seq, x)) = Items(seq) \cup {x}
         /\ IsInjective(seq) /\ x \notin Items(seq) => IsInjective(Append(seq, x))
<1>1. /\ DOMAIN Append(seq, x) = 1 .. Len(seq) + 1 /\ DOMAIN seq = 1 .. Len(seq)
      /\ Len(seq) \in Nat
      /\ \A k \in 1 .. Len(seq) + 1 :
           Append(seq, x)[k] = IF k = Len(seq) + 1 THEN x ELSE seq[k]
  OBVIOUS
<1> DEFINE all == Append(seq, x)
<1> HIDE DEF all
<1> QED
  BY <1>1 DEF Items, IsInjective, all

LEMMA ItemsTail ==
  ASSUME NEW S, NEW seq \in Seq(S), seq # <<>>
  PROVE  /\ Head(seq) \in Items(seq) /\ Head(seq) \in S
         /\ Tail(seq) \in Seq(S)
         /\ Items(Tail(seq)) \subseteq Items(seq)
         /\ Items(seq) = Items(Tail(seq)) \cup {Head(seq)}
         /\ IsInjective(seq) => /\ IsInjective(Tail(seq))
                                /\ Head(seq) \notin Items(Tail(seq))
<1>1. /\ Len(seq) \in Nat \ {0} /\ DOMAIN seq = 1 .. Len(seq)
      /\ Tail(seq) \in Seq(S) /\ DOMAIN Tail(seq) = 1 .. Len(seq) - 1
      /\ Head(seq) = seq[1]
      /\ \A k \in 1 .. Len(seq) - 1 : Tail(seq)[k] = seq[k + 1]
  OBVIOUS
<1> DEFINE rest == Tail(seq)
           first == Head(seq)
<1>2. 1 \in DOMAIN seq /\ first = seq[1] /\ first \in S
  BY <1>1
<1>3. \A k \in DOMAIN rest : k + 1 \in DOMAIN seq /\ k + 1 # 1 /\ rest[k] = seq[k + 1]
  BY <1>1
<1>4. \A k \in DOMAIN seq : k = 1 \/ (k - 1 \in DOMAIN rest /\ rest[k - 1] = seq[k])
  BY <1>1
<1>5. \A k \in DOMAIN rest : k \in Nat
  BY <1>1
<1> HIDE DEF rest, first
<1>6. first \in Items(seq) /\ Items(rest) \subseteq Items(seq)
      /\ Items(seq) = Items(rest) \cup {first}
  BY <1>2, <1>3, <1>4 DEF Items
<1>7. IsInjective(seq) => IsInjective(rest) /\ first \notin Items(rest)
  BY <1>2, <1>3, <1>5 DEF Items, IsInjective
<1> QED
  BY <1>1, <1>2, <1>6, <1>7 DEF rest, first

-----------------------------------------------------------------------------
(* Where a submission or a wake-up is, as a ticket that is passed on.      *)

\* The client, or the program, has not sent it yet.
Unborn(t) ==
  \/ t \in Submissions /\ t >= nextSub
  \/ t \in Wakes /\ t >= nextWake

InHand(t) == loop.at \in {"queue", "compact"} /\ loop.id = t

Stages == {"client", "hand", "queue", "compacts", "starting", "bridge", "given", "task"}
Spots == {0} \cup Sessions \cup Tasks

\* The places that t can be at: a stage, and the session or task it is in.
Place(t, stage, n) ==
  \/ stage = "client" /\ n = 0 /\ Unborn(t)
  \/ stage = "hand" /\ n = 0 /\ InHand(t)
  \/ stage = "queue" /\ n \in Sessions /\ t \in Items(queue[n])
  \/ stage = "compacts" /\ n \in Sessions /\ t \in Items(compacts[n])
  \/ stage = "starting" /\ n \in Sessions /\ <<t, n>> \in starting
  \/ stage = "bridge" /\ n \in Sessions /\ bridge[n].at = "check" /\ bridge[n].id = t
  \/ stage = "given" /\ n \in Tasks /\ t \in queued /\ t \in given[n] /\ kind[n] # "review"
  \/ stage = "task" /\ n = 0 /\ pc[t] # "none"

\* Nothing is at two places.
OneTicket ==
  \A t \in Tasks : \A a, b \in Stages, m, n \in Spots :
    Place(t, a, m) /\ Place(t, b, n) => a = b /\ m = n

\* A queued submission is not lost.
Kept == {"queue", "starting", "given", "task"}
QueuedKept == \A t \in queued : \E a \in Kept, n \in Spots : Place(t, a, n)

\* A prompt that is, or will be, queued is in no pending_input, and before it
\* is queued no task was given it: only the queue hands it to a turn.
Unsent(t) == Unborn(t) \/ (InHand(t) /\ loop.at = "queue")
Unsaid ==
  \A t \in Submissions :
    /\ Unsent(t) \/ t \in queued => \A s \in Sessions : t \notin Items(pending[s])
    /\ Unsent(t) => \A u \in Tasks : t \notin given[u]

\* A task has no input before it runs.
NoInput == \A t \in Tasks : pc[t] = "none" => given[t] = {}

\* What is in a queue is there once, and is known to have been queued.
QueueShape ==
  \A s \in Sessions : /\ IsInjective(queue[s]) /\ IsInjective(compacts[s])
                      /\ Items(queue[s]) \subseteq queued

Ticket == OneTicket /\ QueuedKept /\ Unsaid /\ NoInput /\ QueueShape

LEMMA PlaceDomain ==
  ASSUME NEW t, NEW a, NEW n, Place(t, a, n)
  PROVE  a \in Stages /\ n \in Spots
  BY DEF Place, Stages, Spots

\* OneTicket, without the bounds.
LEMMA OnePlace ==
  ASSUME OneTicket, NEW t \in Tasks, NEW a, NEW b, NEW m, NEW n,
         Place(t, a, m), Place(t, b, n)
  PROVE  a = b /\ m = n
  BY PlaceDomain DEF OneTicket

LEMMA InitTicket == Init => Ticket
<1> SUFFICES ASSUME Init PROVE Ticket
  OBVIOUS
<1> USE Domains DEF Init
<1>1. \A t \in Tasks : \A a, n : Place(t, a, n) => a = "client" /\ n = 0
  BY ItemsEmpty DEF Place, InHand
<1>2. OneTicket
  BY <1>1 DEF OneTicket
<1>3. QueuedKept
  BY DEF QueuedKept
<1>4. Unsaid /\ NoInput
  BY ItemsEmpty DEF Unsaid, NoInput
<1>5. QueueShape
  BY ItemsEmpty DEF QueueShape, IsInjective
<1> QED
  BY <1>2, <1>3, <1>4, <1>5 DEF Ticket

\* What a step may do with a ticket: leave it where it is or take it away, or
\* pass it on.
Stays(t) ==
  /\ \A a \in Stages, n \in Spots : Place(t, a, n)' => Place(t, a, n)
  /\ t \in queued' => /\ t \in queued
                      /\ \A a \in Kept, n \in Spots : Place(t, a, n) => Place(t, a, n)'

GoesTo(t, b, m) ==
  /\ \A a \in Stages, n \in Spots : Place(t, a, n)' <=> a = b /\ n = m
  /\ t \in queued' => b \in Kept

Passed ==
  \A t \in Tasks : Stays(t) \/ \E b \in Stages, m \in Spots : GoesTo(t, b, m)

LEMMA PassedTicket ==
  ASSUME TypeOK', OneTicket, QueuedKept, Passed
  PROVE  OneTicket' /\ QueuedKept'
<1>1. OneTicket'
  <2> SUFFICES ASSUME NEW t \in Tasks, NEW a \in Stages, NEW b \in Stages,
                      NEW m \in Spots, NEW n \in Spots,
                      Place(t, a, m)', Place(t, b, n)'
               PROVE  a = b /\ m = n
    BY DEF OneTicket
  <2>1. CASE Stays(t)
    BY <2>1 DEF Stays, OneTicket
  <2>2. ASSUME NEW c \in Stages, NEW k \in Spots, GoesTo(t, c, k) PROVE a = b /\ m = n
    BY <2>2 DEF GoesTo
  <2> QED
    BY <2>1, <2>2 DEF Passed
<1>2. QueuedKept'
  <2> SUFFICES ASSUME NEW t \in queued' PROVE \E a \in Kept, n \in Spots : Place(t, a, n)'
    BY DEF QueuedKept
  <2>1. t \in Tasks
    BY Domains DEF TypeOK, SeenOK
  <2>2. CASE Stays(t)
    BY <2>2 DEF Stays, QueuedKept
  <2>3. ASSUME NEW c \in Stages, NEW k \in Spots, GoesTo(t, c, k)
        PROVE  \E a \in Kept, n \in Spots : Place(t, a, n)'
    BY <2>3 DEF GoesTo
  <2> QED
    BY <2>1, <2>2, <2>3 DEF Passed
<1> QED
  BY <1>1, <1>2

-----------------------------------------------------------------------------
(* Steps that pass nothing on.                                             *)

\* The loop has no push in hand before or after.
HandsFree == loop' = loop \/ (loop.at = "ready" /\ loop'.at \in {"ready", "closed"})

Calm ==
  /\ UNCHANGED <<nextSub, nextWake, queue, compacts, starting, bridge, kind, queued, given>>
  /\ HandsFree
  /\ \A t \in Tasks : pc'[t] = "none" <=> pc[t] = "none"
  /\ \A t \in Submissions, s \in Sessions : t \in Items(pending'[s]) => t \in Items(pending[s])

LEMMA CalmTicket == ASSUME TypeOK, TypeOK', Ticket, Calm PROVE Ticket'
<1> USE DEF Ticket
<1>1. ASSUME NEW t PROVE InHand(t)' <=> InHand(t)
  BY DEF Calm, HandsFree, InHand
<1>2. ASSUME NEW t \in Tasks PROVE Unborn(t)' <=> Unborn(t)
  BY DEF Calm, Unborn
<1>3. ASSUME NEW t \in Tasks PROVE Stays(t)
  BY <1>1, <1>2 DEF Calm, Stays, Place
<1>4. OneTicket' /\ QueuedKept'
  BY <1>3, PassedTicket DEF Passed
<1>5. Unsaid'
  BY <1>1, <1>2, Domains DEF Unsaid, Unsent, Calm, HandsFree, InHand
<1>6. NoInput' /\ QueueShape'
  BY DEF Calm, NoInput, QueueShape
<1> QED
  BY <1>4, <1>5, <1>6

\* A task that moves is there.
LEMMA GotoThere ==
  ASSUME TypeOK, NEW t \in Tasks, NEW label, Goto(t, label), pc[t] # "none", label # "none"
  PROVE  \A u \in Tasks : pc'[u] = "none" <=> pc[u] = "none"
  BY DEF Goto, TypeOK, TaskOK

\* The steps of run_agent, but for those that take from a queue.
LEMMA TurnCalm ==
  ASSUME TypeOK, NEW t \in Tasks,
         \/ Begin(t) \/ Answered(t) \/ CalledTools(t) \/ Ask(t) \/ Register(t) \/ Resume(t)
         \/ ReviewExit(t) \/ Remove(t) \/ Die(t)
  PROVE  Calm
<1>1. PICK label : Goto(t, label) /\ pc[t] # "none" /\ label # "none"
  BY DEF Begin, Answered, CalledTools, Ask, Register, Resume, ReviewExit, Remove, Die, At,
         Requesting, Interruptible
<1>2. \A u \in Tasks : pc'[u] = "none" <=> pc[u] = "none"
  BY <1>1, GotoThere
<1>3. /\ UNCHANGED <<nextSub, nextWake, loop, queue, compacts, starting, bridge, kind, queued,
                     given>>
      /\ ~CalledTools(t) => UNCHANGED pending
  BY DEF Begin, Answered, CalledTools, Ask, Register, Resume, ReviewExit, Remove, Die,
         UnchangedBody, loopVars, stateVars, asyncVars, seenVars
<1>4. \A i \in Submissions, s \in Sessions : i \in Items(pending'[s]) => i \in Items(pending[s])
  <2> SUFFICES ASSUME CalledTools(t), NEW i \in Submissions, NEW s \in Sessions,
                      i \in Items(pending'[s])
               PROVE  i \in Items(pending[s])
    BY <1>3
  <2>1. /\ pending \in [Sessions -> Seq(Messages)] /\ ToolOutput \in Messages
        /\ i # ToolOutput
    BY Domains DEF TypeOK, StateOK, Messages, ToolOutput, None
  <2>2. \/ pending'[s] = pending[s]
        \/ pending'[s] = Append(pending[s], ToolOutput)
    BY <2>1 DEF CalledTools
  <2>3. pending[s] \in Seq(Messages)
    BY <2>1
  <2>4. Items(Append(pending[s], ToolOutput)) = Items(pending[s]) \cup {ToolOutput}
    BY <2>1, <2>3, ItemsAppend
  <2> QED
    BY <2>1, <2>2, <2>4
<1> QED
  BY <1>2, <1>3, <1>4 DEF Calm, HandsFree

LEMMA CompactionCalm ==
  ASSUME TypeOK, NEW t \in Tasks, CompactionStep(t)
  PROVE  Calm
<1>1. back[t] # "none" /\ AfterReplace(t) # "none"
  BY DEF TypeOK, TaskOK, AfterReplace
<1>2. PICK label : Goto(t, label) /\ pc[t] # "none" /\ label # "none"
  BY <1>1 DEF CompactionStep, CompactTask, CompactInline, CompactFirst, BeginCompaction,
              LocalAnswer,
         Snapshot, Replace, RemoteAnswer, RemoteClear, Rebuild, CompactionFails, Emergency,
         CompactReport, At, Requesting
<1>3. \A u \in Tasks : pc'[u] = "none" <=> pc[u] = "none"
  BY <1>2, GotoThere
<1>4. UNCHANGED <<nextSub, nextWake, loop, queue, pending, compacts, starting, bridge, kind,
                  queued, given>>
  BY DEF CompactionStep, CompactTask, CompactInline, CompactFirst, BeginCompaction, LocalAnswer,
         Snapshot, Replace, RemoteAnswer, RemoteClear, Rebuild, CompactionFails, Emergency,
         CompactReport, UnchangedBody, loopVars, stateVars, asyncVars, seenVars
<1> QED
  BY <1>3, <1>4 DEF Calm, HandsFree

\* Aborts, the ends of aborted tasks, a session that is replaced.
LEMMA AbortCalm ==
  ASSUME TypeOK,
         \/ \E i \in Submissions, s \in Sessions : AbortLater(i, s)
         \/ \E t \in Tasks : \/ Approve(t) \/ ApproveAbort(t) \/ SetTask(t)
                             \/ ExitAborted(t) \/ ReportAborted(t)
         \/ ConfigureSession
         \/ UNCHANGED vars
  PROVE  Calm
<1> DEFINE idle == /\ UNCHANGED <<nextSub, nextWake, queue, pending, compacts, starting, bridge,
                                  kind, queued, given, pc>>
                   /\ HandsFree
<1> USE DEF loopVars, stateVars, taskVars, asyncVars, seenVars
<1>1. ASSUME \/ \E i \in Submissions, s \in Sessions : AbortLater(i, s)
             \/ \E t \in Tasks : ApproveAbort(t) \/ SetTask(t)
      PROVE  idle
  BY <1>1 DEF AbortLater, ApproveAbort, SetTask, Abort, AbortTasks, HandsFree
<1>2. ASSUME NEW t \in Tasks, Approve(t) \/ ExitAborted(t) \/ ReportAborted(t)
      PROVE  idle
  BY <1>2 DEF Approve, ExitAborted, ReportAborted, HandsFree
<1>3. ASSUME ConfigureSession PROVE idle
  BY <1>3 DEF ConfigureSession, Abort, Ready, Now, HandsFree
<1>4. ASSUME UNCHANGED vars PROVE idle
  BY <1>4 DEF vars, HandsFree
<1>5. idle
  BY <1>1, <1>2, <1>3, <1>4
<1> QED
  BY <1>5 DEF Calm

-----------------------------------------------------------------------------
(* Steps that pass a ticket on.                                            *)

\* Who is sent next is unborn, and nobody else is sent.
LEMMA TakeBorn ==
  ASSUME TypeOK, NEW i \in Submissions, NEW op, Take(op, i)
  PROVE  /\ Unborn(i) /\ ~Unborn(i)'
         /\ \A u \in Tasks \ {i} : Unborn(u)' <=> Unborn(u)
         /\ loop.at = "ready" /\ UNCHANGED nextWake /\ sess \in Sessions
<1>1. nextSub \in Nat /\ i = nextSub /\ nextSub' = nextSub + 1 /\ UNCHANGED nextWake
  BY DEF Take, TypeOK, LoopOK
<1>2. Submissions \subseteq Nat /\ i \notin Wakes
  BY BoundsAssumption DEF Submissions, Wakes
<1> QED
  BY <1>1, <1>2 DEF Unborn, Take, Ready, TypeOK, LoopOK

LEMMA TakeWakeBorn ==
  ASSUME TypeOK, NEW w \in Wakes, TakeWake(w), UNCHANGED nextSub
  PROVE  /\ Unborn(w) /\ ~Unborn(w)'
         /\ \A u \in Tasks \ {w} : Unborn(u)' <=> Unborn(u)
<1>1. nextWake \in Nat /\ w = nextWake /\ nextWake' = nextWake + 1
  BY BoundsAssumption DEF TakeWake, TypeOK, LoopOK
<1>2. Wakes \subseteq Nat /\ w \notin Submissions
  BY BoundsAssumption DEF Submissions, Wakes
<1>3. Unborn(w) /\ ~Unborn(w)'
  BY <1>1, <1>2 DEF Unborn
<1>4. ASSUME NEW u \in Tasks \ {w} PROVE Unborn(u)' <=> Unborn(u)
  <2>1. u \in Wakes => (u >= nextWake' <=> u >= nextWake)
    BY <1>1, <1>2
  <2> QED
    BY <2>1 DEF Unborn
<1> QED
  BY <1>3, <1>4

\* Nothing more is said of a prompt that is, or will be, queued.
LEMMA UnsaidKeeps ==
  ASSUME Unsaid, UNCHANGED given,
         \A t \in Submissions :
           /\ Unsent(t)' => Unsent(t)
           /\ t \in queued' => t \in queued \/ Unsent(t)
           /\ \A s \in Sessions : t \in Items(pending'[s]) =>
                \/ t \in Items(pending[s])
                \/ ~Unsent(t)' /\ t \notin queued'
  PROVE  Unsaid'
<1> SUFFICES ASSUME NEW t \in Submissions
             PROVE  /\ Unsent(t)' \/ t \in queued' =>
                         \A s \in Sessions : t \notin Items(pending'[s])
                    /\ Unsent(t)' => \A u \in Tasks : t \notin given'[u]
  BY DEF Unsaid
<1>1. /\ Unsent(t) \/ t \in queued => \A s \in Sessions : t \notin Items(pending[s])
      /\ Unsent(t) => \A u \in Tasks : t \notin given[u]
  BY DEF Unsaid
<1> QED
  BY <1>1

\* The stages before a task runs and before a running one is given a message.
Outside == {"client", "hand", "queue", "compacts", "starting", "bridge"}

\* t is there, and was not or is replaced; the others are what they were.
Spawned(t) ==
  \A u \in Tasks : /\ pc'[u] = "none" <=> pc[u] = "none" /\ u # t
                   /\ u # t => kind'[u] = kind[u]

LEMMA SpawnSpawned ==
  ASSUME TypeOK, NEW t \in Tasks, NEW k, NEW s, Spawn(t, k, s)
  PROVE  Spawned(t)
  BY DEF Spawned, Spawn, TypeOK, TaskOK

\* The ticket of a task that is spawned ends there.
LEMMA SpawnPasses ==
  ASSUME TypeOK, TypeOK', Ticket, NEW t \in Tasks, Spawned(t), UNCHANGED <<given, queued>>,
         NEW a0 \in Outside, NEW n0, Place(t, a0, n0),
         \A a \in Outside, n \in Spots : ~Place(t, a, n)',
         \A u \in Tasks \ {t}, a \in Outside, n \in Spots : Place(u, a, n)' <=> Place(u, a, n)
  PROVE  pc[t] = "none" /\ OneTicket' /\ QueuedKept' /\ NoInput'
<1> USE DEF Ticket
<1>1. pc[t] = "none" /\ \A n : ~Place(t, "given", n)
  <2>1. \A b, n : Place(t, b, n) => b = a0
    BY OnePlace
  <2>2. ~Place(t, "task", 0) /\ \A n : ~Place(t, "given", n)
    BY <2>1 DEF Outside
  <2>3. Place(t, "task", 0) <=> pc[t] # "none"
    BY DEF Place
  <2> QED
    BY <2>2, <2>3
<1>2. /\ \A u \in Tasks : pc'[u] = "none" <=> pc[u] = "none" /\ u # t
      /\ \A u \in Tasks \ {t} : kind'[u] = kind[u]
  BY DEF Spawned
<1>3. given[t] = {}
  BY <1>1 DEF NoInput
<1>4. \A u \in Tasks : \A n : Place(u, "given", n)' <=> Place(u, "given", n)
  BY <1>2, <1>3 DEF Place
<1>5. \A u \in Tasks, n \in Spots : Place(u, "task", n)' <=> n = 0 /\ (u = t \/ Place(u, "task", n))
  BY <1>2 DEF Place
<1>6. Stages = Outside \cup {"given", "task"}
  BY DEF Stages, Outside
<1>7. ASSUME NEW u \in Tasks, u # t PROVE Stays(u)
  <2>1. Kept \subseteq Stages
    BY DEF Kept, Stages
  <2>2. \A a \in Stages, n \in Spots : Place(u, a, n)' <=> Place(u, a, n)
    BY <1>4, <1>5, <1>6, <1>7 DEF Place
  <2> QED
    BY <2>1, <2>2 DEF Stays
<1>8. GoesTo(t, "task", 0)
  <2>1. "task" \in Kept /\ 0 \in Spots /\ "task" \notin Outside /\ "given" \notin Outside
    BY DEF Kept, Spots, Outside
  <2> QED
    BY <1>1, <1>4, <1>5, <1>6, <2>1 DEF GoesTo
<1>9. OneTicket' /\ QueuedKept'
  <2>1. "task" \in Stages /\ 0 \in Spots
    BY DEF Stages, Spots
  <2> QED
    BY <1>7, <1>8, <2>1, PassedTicket DEF Passed
<1> QED
  BY <1>1, <1>2, <1>9 DEF NoInput

\* What is sent is carried out at once: as a task, or otherwise.
Born(t) ==
  /\ Unborn(t) /\ ~Unborn(t)'
  /\ \A u \in Tasks \ {t} : Unborn(u)' <=> Unborn(u)
  /\ UNCHANGED <<queue, compacts, starting, bridge, given, queued>>
  /\ \A u \in Submissions, s \in Sessions : u \in Items(pending'[s]) => u \in Items(pending[s])

LEMMA BornTicket ==
  ASSUME TypeOK, TypeOK', Ticket, NEW t \in Tasks, Born(t), HandsFree,
         \/ UNCHANGED <<pc, kind>>
         \/ \E k, s : Spawn(t, k, s)
  PROVE  Ticket'
<1> USE DEF Ticket
<1>1. \A u : InHand(u)' <=> InHand(u)
  BY DEF HandsFree, InHand
<1>2. Place(t, "client", 0) /\ \A a, n : Place(t, a, n) => a = "client"
  <2>1. Place(t, "client", 0)
    BY DEF Born, Place
  <2> QED
    BY <2>1, OnePlace
<1>3. \A a \in Outside, n \in Spots : ~Place(t, a, n)'
  <2> SUFFICES ASSUME NEW a \in Outside, NEW n \in Spots, Place(t, a, n)' PROVE FALSE
    OBVIOUS
  <2>1. a # "client"
    BY DEF Place, Born, Outside
  <2>2. Place(t, a, n)
    BY <1>1, <2>1 DEF Place, Born, Outside
  <2> QED
    BY <1>2, <2>1, <2>2
<1>4. \A u \in Tasks \ {t}, a \in Outside, n \in Spots : Place(u, a, n)' <=> Place(u, a, n)
  BY <1>1 DEF Place, Born, Outside
<1>5. Unsaid'
  <2>1. \A u \in Submissions : Unsent(u)' => Unsent(u)
    BY <1>1, Domains DEF Unsent, Born, HandsFree, InHand
  <2> QED
    BY <2>1, UnsaidKeeps DEF Born
<1>6. QueueShape'
  BY DEF Born, QueueShape
<1>7. CASE UNCHANGED <<pc, kind>>
  <2>1. Stages = Outside \cup {"given", "task"}
    BY DEF Stages, Outside
  <2>2. ASSUME NEW u \in Tasks PROVE Stays(u)
    <3>1. \A n \in Spots : /\ Place(u, "given", n)' <=> Place(u, "given", n)
                           /\ Place(u, "task", n)' <=> Place(u, "task", n)
      BY <1>7 DEF Place, Born
    <3>2. \A a \in Stages, n \in Spots : Place(u, a, n)' => Place(u, a, n)
      BY <1>3, <1>4, <2>1, <3>1
    <3>3. u = t => u \notin queued
      BY <1>2, PlaceDomain DEF QueuedKept, Kept
    <3>4. Kept \subseteq Stages
      BY DEF Kept, Stages
    <3> QED
      BY <1>4, <2>1, <3>1, <3>2, <3>3, <3>4 DEF Stays, Born
  <2>3. OneTicket' /\ QueuedKept'
    BY <2>2, PassedTicket DEF Passed
  <2>4. NoInput'
    BY <1>7 DEF NoInput, Born
  <2> QED
    BY <1>5, <1>6, <2>3, <2>4
<1>8. ASSUME NEW k, NEW s, Spawn(t, k, s) PROVE Ticket'
  <2>1. OneTicket' /\ QueuedKept' /\ NoInput'
    <3>1. "client" \in Outside
      BY DEF Outside
    <3>2. UNCHANGED <<given, queued>> /\ Spawned(t)
      BY <1>8, SpawnSpawned DEF Born
    <3> QED
      BY <1>2, <1>3, <1>4, <1>8, <3>1, <3>2, SpawnPasses
  <2> QED
    BY <1>5, <1>6, <2>1
<1> QED
  BY <1>7, <1>8

\* The operations of the client that start a task, or leave an abort to a
\* detached one.
LEMMA OperationTicket ==
  ASSUME TypeOK, TypeOK', Ticket, NEW i \in Submissions,
         UserInput(i) \/ EmptyUserInput(i) \/ Review(i) \/ Interrupt(i) \/ Shutdown(i)
  PROVE  Ticket'
<1>1. PICK op : Take(op, i)
  BY DEF UserInput, EmptyUserInput, Review, Interrupt, Shutdown
<1>2. UNCHANGED <<queue, pending, compacts, starting, bridge, given, queued>>
  BY DEF UserInput, EmptyUserInput, Review, Restart, Abort, Interrupt, Shutdown, stateVars,
         taskVars, seenVars
<1>3. /\ \/ UNCHANGED <<pc, kind>>
         \/ \E k : Spawn(i, k, sess)
      /\ loop'.at \in {"ready", "closed"}
  BY DEF UserInput, EmptyUserInput, Review, Restart, Now, Interrupt, Shutdown, taskVars
<1>4. Born(i) /\ HandsFree
  BY <1>1, <1>2, <1>3, TakeBorn DEF Born, HandsFree
<1> QED
  BY <1>3, <1>4, BornTicket, Domains

\* Messages that are told to a running turn, or start one.
LEMMA WakeTicket ==
  ASSUME TypeOK, TypeOK', Ticket, NEW w \in Wakes, AddPendingInputDeveloper(w) \/ AgentWake(w)
  PROVE  Ticket'
<1>1. PICK s \in Sessions : Enqueue(w, s)
  BY Domains DEF AddPendingInputDeveloper, AgentWake, TypeOK, LoopOK
<1>2. /\ TakeWake(w) /\ UNCHANGED nextSub
      /\ UNCHANGED <<starting, bridge, queued>>
      /\ HandsFree
  BY DEF AddPendingInputDeveloper, AgentWake, asyncVars, seenVars, Ready, Now, HandsFree
<1>3. /\ UNCHANGED <<queue, compacts, given>>
      /\ UNCHANGED <<pc, kind>> \/ Spawn(w, "pending", s)
  BY <1>1 DEF Enqueue, taskVars
<1>4. \A u \in Submissions, r \in Sessions : u \in Items(pending'[r]) => u \in Items(pending[r])
  <2> SUFFICES ASSUME NEW u \in Submissions, NEW r \in Sessions, u \in Items(pending'[r])
               PROVE  u \in Items(pending[r])
    OBVIOUS
  <2>1. w \in Messages /\ u # w /\ pending[r] \in Seq(Messages)
    <3>1. u # w
      BY BoundsAssumption DEF Submissions, Wakes
    <3> QED
      BY <3>1, Domains DEF Messages, TypeOK, StateOK
  <2>2. pending'[r] = pending[r] \/ pending'[r] = Append(pending[r], w)
    BY <1>1 DEF Enqueue, TypeOK, StateOK
  <2>3. Items(Append(pending[r], w)) = Items(pending[r]) \cup {w}
    BY <2>1, ItemsAppend
  <2> QED
    BY <2>1, <2>2, <2>3
<1>5. Born(w)
  BY <1>2, <1>3, <1>4, TakeWakeBorn DEF Born
<1> QED
  BY <1>2, <1>3, <1>5, BornTicket, Domains

\* A ticket that is handed from one queue to the next.
LEMMA HandOn ==
  ASSUME TypeOK', Ticket, NEW t \in Tasks, NEW a0, NEW n0, Place(t, a0, n0),
         NEW b \in Stages, NEW m \in Spots, Place(t, b, m)',
         \A a \in Stages, n \in Spots :
           Place(t, a, n)' => (a = b /\ n = m) \/ (Place(t, a, n) /\ a # a0),
         t \in queued' => b \in Kept,
         \A u \in Tasks \ {t} : Stays(u)
  PROVE  OneTicket' /\ QueuedKept'
<1> USE DEF Ticket
<1>1. \A a, n : Place(t, a, n) => a = a0
  BY OnePlace
<1>2. GoesTo(t, b, m)
  BY <1>1 DEF GoesTo
<1> QED
  BY <1>2, PassedTicket DEF Passed

\* The first half of an operation that is not carried out at once.
LEMMA TakeInHand ==
  ASSUME TypeOK, TypeOK', Ticket, NEW i \in Submissions, NEW op, Take(op, i),
         NEW at \in {"queue", "compact"}, Now(at, i),
         UNCHANGED <<queue, compacts, starting, bridge, given, queued, pc, kind>>
  PROVE  /\ OneTicket' /\ QueuedKept' /\ i \notin queued
         /\ \A u \in Submissions \ {i} : Unsent(u)' => Unsent(u)
<1> USE Domains DEF Ticket
<1>1. Place(i, "client", 0) /\ \A a, n : Place(i, a, n) => a = "client"
  <2>1. Place(i, "client", 0)
    BY TakeBorn DEF Place
  <2> QED
    BY <2>1, OnePlace
<1>2. /\ \A u \in Tasks : InHand(u)' <=> u = i
      /\ \A u \in Tasks : ~InHand(u)
      /\ \A u \in Tasks : Unborn(u)' <=> Unborn(u) /\ u # i
  BY TakeBorn DEF InHand, Now
<1>3. ASSUME NEW u \in Tasks, u # i PROVE Stays(u)
  BY <1>2, <1>3 DEF Stays, Place
<1>4. Place(i, "hand", 0)'
  BY <1>2 DEF Place
<1>5. ASSUME NEW a \in Stages, NEW n \in Spots, Place(i, a, n)'
      PROVE  (a = "hand" /\ n = 0) \/ (Place(i, a, n) /\ a # "client")
  BY <1>2, <1>5 DEF Place
<1>6. i \notin queued
  BY <1>1, PlaceDomain DEF QueuedKept, Kept
<1>7. OneTicket' /\ QueuedKept'
  <2>1. "hand" \in Stages /\ 0 \in Spots
    BY DEF Stages, Spots
  <2> QED
    BY <1>1, <1>3, <1>4, <1>5, <1>6, <2>1, HandOn
<1> QED
  BY <1>2, <1>6, <1>7 DEF Unsent

LEMMA QueueOrCompactTicket ==
  ASSUME TypeOK, TypeOK', Ticket, NEW i \in Submissions, QueueUserInput(i) \/ Compact(i)
  PROVE  Ticket'
<1> USE Domains
<1>1. PICK op : Take(op, i)
  BY DEF QueueUserInput, Compact
<1>2. /\ UNCHANGED <<queue, compacts, starting, bridge, given, queued>>
      /\ sess \in Sessions /\ loop.at = "ready"
  BY <1>1, TakeBorn DEF QueueUserInput, Compact, stateVars, taskVars, asyncVars, seenVars
<1>3. CASE current[sess] = None
  <2>1. /\ \E k, s : Spawn(i, k, s)
        /\ Now("ready", i) /\ UNCHANGED pending
    BY <1>3 DEF QueueUserInput, Compact, stateVars
  <2>2. Born(i) /\ HandsFree
    BY <1>1, <1>2, <2>1, TakeBorn DEF Born, HandsFree, Now
  <2> QED
    BY <2>1, <2>2, BornTicket
<1>4. CASE current[sess] # None
  <2>1. PICK at \in {"queue", "compact"} :
          /\ Now(at, i)
          /\ at = "queue" => UNCHANGED pending
          /\ at = "compact" => pending' = [pending EXCEPT ![sess] = Append(@, i)]
    BY <1>4 DEF QueueUserInput, Compact, stateVars
  <2>2. UNCHANGED <<pc, kind>>
    BY <1>4 DEF QueueUserInput, Compact, taskVars
  <2>3. /\ OneTicket' /\ QueuedKept' /\ i \notin queued
        /\ \A u \in Submissions \ {i} : Unsent(u)' => Unsent(u)
    BY <1>1, <1>2, <2>1, <2>2, TakeInHand
  <2>4. Unsent(i) /\ (at = "compact" => ~Unsent(i)')
    BY <1>1, <2>1, TakeBorn DEF Unsent, InHand, Now
  <2>5. ASSUME NEW u \in Submissions, NEW s \in Sessions, u \in Items(pending'[s])
        PROVE  \/ u \in Items(pending[s])
               \/ ~Unsent(u)' /\ u \notin queued'
    <3>1. CASE at = "queue"
      BY <2>1, <2>5, <3>1
    <3>2. CASE at = "compact"
      <4>1. pending[s] \in Seq(Messages) /\ i \in Messages
        BY DEF TypeOK, StateOK, Messages
      <4>2. pending'[s] = pending[s] \/ pending'[s] = Append(pending[s], i)
        BY <2>1, <3>2 DEF TypeOK, StateOK
      <4>3. Items(Append(pending[s], i)) = Items(pending[s]) \cup {i}
        BY <4>1, ItemsAppend
      <4> QED
        BY <1>2, <2>3, <2>4, <2>5, <3>2, <4>2, <4>3
    <3> QED
      BY <3>1, <3>2
  <2>6. Unsaid'
    BY <1>2, <2>3, <2>4, <2>5, UnsaidKeeps DEF Ticket
  <2>7. NoInput' /\ QueueShape'
    BY <1>2, <2>2 DEF Ticket, NoInput, QueueShape
  <2> QED
    BY <2>3, <2>6, <2>7 DEF Ticket
<1> QED
  BY <1>3, <1>4

\* The second halves: the push in hand goes into its queue.
LEMMA QueuePushTicket == ASSUME TypeOK, TypeOK', Ticket, QueuePush PROVE Ticket'
<1> USE Domains DEF Ticket
<1>0. PICK i \in Submissions, s \in Sessions : i = loop.id /\ s = sess
  BY DEF QueuePush, TypeOK, LoopOK
<1>1. /\ i \in Tasks /\ InHand(i)
      /\ queue[s] \in Seq(Submissions) /\ queue \in [Sessions -> Seq(Submissions)]
  BY <1>0 DEF QueuePush, TypeOK, LoopOK, StateOK, InHand
<1>2. /\ queue' = [queue EXCEPT ![s] = Append(@, i)]
      /\ queued' = queued \cup {i} /\ loop'.at = "ready" /\ loop.at = "queue"
      /\ UNCHANGED <<nextSub, nextWake, pending, compacts, pc, kind, given, starting, bridge>>
  BY <1>0 DEF QueuePush, Now, taskVars, asyncVars
<1>3. Place(i, "hand", 0) /\ i \notin Items(queue[s])
  <2>1. Place(i, "hand", 0)
    BY <1>1 DEF Place
  <2>2. ~Place(i, "queue", s)
    BY <1>1, <2>1, OnePlace
  <2> QED
    BY <1>1, <2>1, <2>2 DEF Place
<1>4. /\ Items(queue'[s]) = Items(queue[s]) \cup {i}
      /\ \A n \in Sessions \ {s} : queue'[n] = queue[n]
      /\ IsInjective(queue[s]) => IsInjective(queue'[s])
  <2>1. queue'[s] = Append(queue[s], i) /\ \A n \in Sessions \ {s} : queue'[n] = queue[n]
    BY <1>1, <1>2
  <2> QED
    BY <1>1, <1>3, <2>1, ItemsAppend
<1>5. /\ \A u \in Tasks : ~InHand(u)'
      /\ \A u \in Tasks \ {i} : ~InHand(u)
      /\ \A u \in Tasks : Unborn(u)' <=> Unborn(u)
  BY <1>0, <1>2 DEF InHand, Unborn
<1>6. Unsent(i)
  BY <1>1, <1>2 DEF Unsent
<1>7. ASSUME NEW u \in Tasks, u # i PROVE Stays(u)
  <2>1. \A n \in Sessions : u \in Items(queue'[n]) <=> u \in Items(queue[n])
    BY <1>4, <1>7
  <2> QED
    BY <1>2, <1>5, <1>7, <2>1 DEF Stays, Place
<1>8. Place(i, "queue", s)'
  BY <1>1, <1>4 DEF Place
<1>9. ASSUME NEW a \in Stages, NEW n \in Spots, Place(i, a, n)'
      PROVE  (a = "queue" /\ n = s) \/ (Place(i, a, n) /\ a # "hand")
  <2>1. a # "given"
    BY <1>1, <1>2, <1>6, <1>9 DEF Unsaid, Place
  <2>2. CASE a = "queue"
    BY <1>4, <1>9, <2>2 DEF Place
  <2>3. CASE a # "queue"
    BY <1>2, <1>5, <1>9, <2>1, <2>3 DEF Place
  <2> QED
    BY <2>2, <2>3
<1>10. OneTicket' /\ QueuedKept'
  <2>1. "queue" \in Stages /\ s \in Spots /\ "queue" \in Kept
    BY DEF Stages, Spots, Kept
  <2> QED
    BY <1>1, <1>3, <1>7, <1>8, <1>9, <2>1, HandOn
<1>11. Unsaid'
  BY <1>2, <1>5, <1>6, UnsaidKeeps DEF Unsent
<1>12. NoInput' /\ QueueShape'
  BY <1>2, <1>4 DEF NoInput, QueueShape
<1> QED
  BY <1>10, <1>11, <1>12

\* What is in the queue of compactions after a push.
LEMMA PushedItems ==
  ASSUME NEW seq \in Seq(Submissions), NEW i \in Submissions, i \notin Items(seq),
         IsInjective(seq)
  PROVE  /\ i \in Items(Pushed(seq, i)) /\ Items(Pushed(seq, i)) \subseteq Items(seq) \cup {i}
         /\ IsInjective(Pushed(seq, i))
<1>1. CASE Len(seq) >= MaxPendingCompacts
  <2>1. seq # <<>>
    BY <1>1, BoundsAssumption
  <2>2. /\ Tail(seq) \in Seq(Submissions) /\ Items(Tail(seq)) \subseteq Items(seq)
        /\ IsInjective(Tail(seq))
    BY <2>1, ItemsTail
  <2>3. Pushed(seq, i) = Append(Tail(seq), i)
    BY <1>1 DEF Pushed
  <2>4. /\ Items(Append(Tail(seq), i)) = Items(Tail(seq)) \cup {i}
        /\ IsInjective(Append(Tail(seq), i))
    BY <2>2, ItemsAppend
  <2> QED
    BY <2>2, <2>3, <2>4
<1>2. CASE ~(Len(seq) >= MaxPendingCompacts)
  <2>1. Pushed(seq, i) = Append(seq, i)
    BY <1>2 DEF Pushed
  <2> QED
    BY <2>1, ItemsAppend
<1> QED
  BY <1>1, <1>2

LEMMA CompactPushTicket == ASSUME TypeOK, TypeOK', Ticket, CompactPush PROVE Ticket'
<1> USE Domains DEF Ticket
<1>0. PICK i \in Submissions, s \in Sessions : i = loop.id /\ s = sess
  BY DEF CompactPush, TypeOK, LoopOK
<1>1. /\ i \in Tasks /\ InHand(i)
      /\ compacts[s] \in Seq(Submissions) /\ compacts \in [Sessions -> Seq(Submissions)]
  BY <1>0 DEF CompactPush, TypeOK, LoopOK, StateOK, InHand
<1>2. /\ compacts' = [compacts EXCEPT ![s] = Pushed(compacts[s], i)]
      /\ loop'.at = "ready"
      /\ UNCHANGED <<nextSub, nextWake, pending, queue, queued, pc, kind, given, starting, bridge>>
  BY <1>0 DEF CompactPush, Now, taskVars, asyncVars, seenVars
<1>3. Place(i, "hand", 0) /\ i \notin Items(compacts[s]) /\ i \notin queued
  <2>1. Place(i, "hand", 0)
    BY <1>1 DEF Place
  <2>2. \A a, n : Place(i, a, n) => a = "hand"
    BY <1>1, <2>1, OnePlace
  <2>3. ~Place(i, "compacts", s)
    BY <2>2
  <2>4. i \notin queued
    BY <2>2 DEF QueuedKept, Kept
  <2> QED
    BY <1>1, <2>1, <2>3, <2>4 DEF Place
<1>4. /\ i \in Items(compacts'[s]) /\ Items(compacts'[s]) \subseteq Items(compacts[s]) \cup {i}
      /\ \A n \in Sessions \ {s} : compacts'[n] = compacts[n]
      /\ IsInjective(compacts'[s])
  <2>1. /\ compacts'[s] = Pushed(compacts[s], i)
        /\ \A n \in Sessions \ {s} : compacts'[n] = compacts[n]
    BY <1>1, <1>2
  <2>2. IsInjective(compacts[s])
    BY <1>1 DEF QueueShape
  <2> QED
    BY <1>1, <1>3, <2>1, <2>2, PushedItems
<1>5. /\ \A u \in Tasks : ~InHand(u)'
      /\ \A u \in Tasks : Unborn(u)' <=> Unborn(u)
  BY <1>2 DEF InHand, Unborn
<1>6. ASSUME NEW u \in Tasks, u # i PROVE Stays(u)
  <2>1. \A n \in Sessions : u \in Items(compacts'[n]) => u \in Items(compacts[n])
    BY <1>4, <1>6
  <2> QED
    BY <1>2, <1>5, <2>1 DEF Stays, Place, Kept
<1>7. Place(i, "compacts", s)'
  BY <1>1, <1>4 DEF Place
<1>8. ASSUME NEW a \in Stages, NEW n \in Spots, Place(i, a, n)'
      PROVE  (a = "compacts" /\ n = s) \/ (Place(i, a, n) /\ a # "hand")
  <2>1. CASE a = "compacts"
    BY <1>4, <1>8, <2>1 DEF Place
  <2>2. CASE a # "compacts"
    BY <1>2, <1>5, <1>8, <2>2 DEF Place
  <2> QED
    BY <2>1, <2>2
<1>9. OneTicket' /\ QueuedKept'
  <2>1. "compacts" \in Stages /\ s \in Spots
    BY DEF Stages, Spots
  <2> QED
    BY <1>1, <1>2, <1>3, <1>6, <1>7, <1>8, <2>1, HandOn
<1>10. Unsaid'
  BY <1>2, <1>5, UnsaidKeeps DEF Unsent
<1>11. NoInput' /\ QueueShape'
  BY <1>2, <1>4 DEF NoInput, QueueShape
<1> QED
  BY <1>9, <1>10, <1>11

\* A bridge event waits for the check of its listener ...
LEMMA BridgeRecordTicket ==
  ASSUME TypeOK, TypeOK', Ticket, NEW w \in Wakes, NEW s \in Sessions, BridgeRecord(w, s)
  PROVE  Ticket'
<1> USE Domains DEF Ticket
<1>1. /\ bridge' = [bridge EXCEPT ![s] = [at |-> "check", id |-> w]]
      /\ bridge[s].at = "idle" /\ TakeWake(w)
      /\ UNCHANGED <<nextSub, loop, pending, queue, compacts, queued, pc, kind, given, starting>>
  BY DEF BridgeRecord, taskVars, seenVars
<1>2. /\ bridge'[s].at = "check" /\ bridge'[s].id = w
      /\ \A n \in Sessions \ {s} : bridge'[n] = bridge[n]
  BY <1>1 DEF TypeOK, AsyncOK
<1>3. /\ Unborn(w) /\ ~Unborn(w)'
      /\ \A u \in Tasks \ {w} : Unborn(u)' <=> Unborn(u)
      /\ \A u : InHand(u)' <=> InHand(u)
  BY <1>1, TakeWakeBorn DEF InHand
<1>4. Place(w, "client", 0)
  BY <1>3 DEF Place
<1>5. ASSUME NEW u \in Tasks, u # w PROVE Stays(u)
  <2>1. \A n \in Sessions : bridge'[n].at = "check" /\ bridge'[n].id = u =>
          bridge[n].at = "check" /\ bridge[n].id = u
    BY <1>2, <1>5
  <2> QED
    BY <1>1, <1>3, <1>5, <2>1 DEF Stays, Place, Kept
<1>6. Place(w, "bridge", s)'
  BY <1>2 DEF Place
<1>7. ASSUME NEW a \in Stages, NEW n \in Spots, Place(w, a, n)'
      PROVE  (a = "bridge" /\ n = s) \/ (Place(w, a, n) /\ a # "client")
  BY <1>1, <1>2, <1>3, <1>7 DEF Place
<1>8. OneTicket' /\ QueuedKept'
  <2>1. "bridge" \in Stages /\ s \in Spots
    BY DEF Stages, Spots
  <2>2. w \notin queued'
    BY <1>1, BoundsAssumption DEF TypeOK, SeenOK, Submissions, Wakes
  <2> QED
    BY <1>4, <1>5, <1>6, <1>7, <2>1, <2>2, HandOn
<1>9. Unsaid'
  <2>1. \A u \in Submissions : Unborn(u)' => Unborn(u)
    BY <1>1 DEF Unborn, TakeWake
  <2> QED
    BY <1>1, <1>3, <2>1, UnsaidKeeps DEF Unsent
<1>10. NoInput' /\ QueueShape'
  BY <1>1 DEF NoInput, QueueShape
<1> QED
  BY <1>8, <1>9, <1>10

\* ... which starts its turn, unless there is one.
LEMMA BridgeStartTicket ==
  ASSUME TypeOK, TypeOK', Ticket, NEW s \in Sessions, BridgeStart(s)
  PROVE  Ticket'
<1> USE Domains DEF Ticket
<1>1. PICK w \in Tasks : w = bridge[s].id
  BY DEF BridgeStart, TypeOK, AsyncOK
<1>2. /\ bridge' = [bridge EXCEPT ![s].at = "idle"] /\ bridge[s].at = "check"
      /\ UNCHANGED <<nextSub, nextWake, loop, pending, queue, compacts, queued, given, starting>>
      /\ UNCHANGED <<pc, kind>> \/ Spawn(w, "pending", s)
  BY <1>1 DEF BridgeStart, loopVars, stateVars, taskVars, seenVars
<1>3. bridge'[s].at = "idle" /\ \A n \in Sessions \ {s} : bridge'[n] = bridge[n]
  BY <1>2 DEF TypeOK, AsyncOK
<1>4. /\ \A u \in Tasks : Unborn(u)' <=> Unborn(u)
      /\ \A u : InHand(u)' <=> InHand(u)
  BY <1>2 DEF InHand, Unborn
<1>5. Place(w, "bridge", s) /\ \A a, n : Place(w, a, n) => a = "bridge" /\ n = s
  <2>1. Place(w, "bridge", s)
    BY <1>1, <1>2 DEF Place
  <2> QED
    BY <2>1, OnePlace
<1>6. \A u \in Tasks, n \in Sessions :
        bridge'[n].at = "check" /\ bridge'[n].id = u <=>
          bridge[n].at = "check" /\ bridge[n].id = u /\ n # s
  BY <1>3
<1>7. CASE Spawn(w, "pending", s)
  <2>1. \A a \in Outside, n \in Spots : ~Place(w, a, n)'
    <3> SUFFICES ASSUME NEW a \in Outside, NEW n \in Spots, Place(w, a, n)' PROVE FALSE
      OBVIOUS
    <3>1. Place(w, a, n) /\ ~(a = "bridge" /\ n = s)
      BY <1>2, <1>4, <1>6 DEF Place, Outside
    <3> QED
      BY <1>5, <3>1
  <2>2. ASSUME NEW u \in Tasks \ {w}, NEW a \in Outside, NEW n \in Spots
        PROVE  Place(u, a, n)' <=> Place(u, a, n)
    BY <1>1, <1>2, <1>4, <1>6 DEF Place, Outside
  <2>3. OneTicket' /\ QueuedKept' /\ NoInput'
    <3>1. "bridge" \in Outside /\ Spawned(w)
      BY <1>7, SpawnSpawned DEF Outside
    <3> QED
      BY <1>2, <1>5, <2>1, <2>2, <3>1, SpawnPasses
  <2>4. Unsaid' /\ QueueShape'
    BY <1>2, <1>4, UnsaidKeeps DEF Unsent, QueueShape
  <2> QED
    BY <2>3, <2>4
<1>8. CASE UNCHANGED <<pc, kind>>
  <2>1. ASSUME NEW u \in Tasks PROVE Stays(u)
    BY <1>2, <1>4, <1>6, <1>8 DEF Stays, Place, Kept
  <2>2. OneTicket' /\ QueuedKept'
    BY <2>1, PassedTicket DEF Passed
  <2>3. Unsaid' /\ QueueShape' /\ NoInput'
    BY <1>2, <1>4, <1>8, UnsaidKeeps DEF Unsent, QueueShape, NoInput
  <2> QED
    BY <2>2, <2>3
<1> QED
  BY <1>2, <1>7, <1>8

\* A queued submission is taken out to be started ...
LEMMA StartQueuedTicket ==
  ASSUME TypeOK, TypeOK', Ticket, NEW t \in Tasks, StartQueued(t)
  PROVE  Ticket'
<1> USE Domains DEF Ticket
<1>1. PICK s \in Sessions : s = home[t]
  BY DEF TypeOK, TaskOK
<1>2. \A u \in Tasks : pc'[u] = "none" <=> pc[u] = "none"
  BY GotoThere DEF StartQueued, At
<1>3. UNCHANGED <<nextSub, nextWake, loop, pending, compacts, queued, given, bridge, kind>>
  BY DEF StartQueued, loopVars, seenVars
<1>4. CASE queue[s] = <<>>
  <2>1. Calm
    BY <1>1, <1>2, <1>3, <1>4 DEF StartQueued, Calm, HandsFree
  <2> QED
    BY <2>1, CalmTicket
<1>5. CASE queue[s] # <<>>
  <2>1. PICK q \in Submissions : q = Head(queue[s])
    BY <1>5, ItemsTail DEF TypeOK, StateOK
  <2>2. /\ queue' = [queue EXCEPT ![s] = Tail(queue[s])]
        /\ starting' = starting \cup {<<q, s>>}
    BY <1>1, <1>5, <2>1 DEF StartQueued, QueuePopped
  <2>3. /\ Items(queue[s]) = Items(queue'[s]) \cup {q} /\ q \notin Items(queue'[s])
        /\ IsInjective(queue'[s])
        /\ \A n \in Sessions \ {s} : queue'[n] = queue[n]
    <3>1. queue[s] \in Seq(Submissions) /\ IsInjective(queue[s])
      BY DEF TypeOK, StateOK, QueueShape
    <3>2. queue'[s] = Tail(queue[s]) /\ \A n \in Sessions \ {s} : queue'[n] = queue[n]
      BY <2>2 DEF TypeOK, StateOK
    <3> QED
      BY <1>5, <2>1, <3>1, <3>2, ItemsTail
  <2>4. Place(q, "queue", s) /\ \A a, n : Place(q, a, n) => a = "queue" /\ n = s
    <3>1. Place(q, "queue", s)
      BY <2>3 DEF Place
    <3> QED
      BY <3>1, OnePlace
  <2>5. /\ \A u \in Tasks : Unborn(u)' <=> Unborn(u)
        /\ \A u : InHand(u)' <=> InHand(u)
    BY <1>3 DEF InHand, Unborn
  <2>6. ASSUME NEW u \in Tasks, u # q PROVE Stays(u)
    <3>1. \A n \in Sessions : /\ u \in Items(queue'[n]) <=> u \in Items(queue[n])
                              /\ <<u, n>> \in starting' <=> <<u, n>> \in starting
      BY <2>2, <2>3, <2>6
    <3> QED
      BY <1>2, <1>3, <2>5, <3>1 DEF Stays, Place
  <2>7. Place(q, "starting", s)'
    BY <2>2 DEF Place
  <2>8. ASSUME NEW a \in Stages, NEW n \in Spots, Place(q, a, n)'
        PROVE  (a = "starting" /\ n = s) \/ (Place(q, a, n) /\ a # "queue")
    <3>1. n \in Sessions /\ n # s => q \notin Items(queue'[n])
      <4> SUFFICES ASSUME n \in Sessions, n # s PROVE q \notin Items(queue[n])
        BY <2>3
      <4>1. ~Place(q, "queue", n)
        BY <2>4
      <4> QED
        BY <4>1 DEF Place
    <3> QED
      BY <1>2, <1>3, <2>2, <2>3, <2>5, <2>8, <3>1 DEF Place
  <2>9. OneTicket' /\ QueuedKept'
    <3>1. "starting" \in Stages /\ s \in Spots /\ "starting" \in Kept
      BY DEF Stages, Spots, Kept
    <3> QED
      BY <2>4, <2>6, <2>7, <2>8, <3>1, HandOn
  <2>10. Unsaid'
    BY <1>3, <2>5, UnsaidKeeps DEF Unsent
  <2>11. NoInput' /\ QueueShape'
    BY <1>2, <1>3, <2>3 DEF NoInput, QueueShape
  <2> QED
    BY <2>9, <2>10, <2>11
<1> QED
  BY <1>4, <1>5

\* ... and started.
LEMMA RunQueuedTicket ==
  ASSUME TypeOK, TypeOK', Ticket, NEW q \in Submissions, NEW s \in Sessions, RunQueued(q, s)
  PROVE  Ticket'
<1> USE Domains DEF Ticket
<1>1. /\ <<q, s>> \in starting /\ starting' = starting \ {<<q, s>>}
      /\ UNCHANGED <<nextSub, nextWake, loop, pending, queue, compacts, queued, given, bridge>>
  BY DEF RunQueued, loopVars, stateVars, seenVars
<1>2. /\ \A u \in Tasks : Unborn(u)' <=> Unborn(u)
      /\ \A u : InHand(u)' <=> InHand(u)
  BY <1>1 DEF InHand, Unborn
<1>3. Place(q, "starting", s) /\ \A a, n : Place(q, a, n) => a = "starting" /\ n = s
  <2>1. Place(q, "starting", s)
    BY <1>1 DEF Place
  <2> QED
    BY <2>1, OnePlace
<1>4. \A a \in Outside, n \in Spots : ~Place(q, a, n)'
  <2> SUFFICES ASSUME NEW a \in Outside, NEW n \in Spots, Place(q, a, n)' PROVE FALSE
    OBVIOUS
  <2>1. Place(q, a, n) /\ ~(a = "starting" /\ n = s)
    BY <1>1, <1>2 DEF Place, Outside
  <2> QED
    BY <1>3, <2>1
<1>5. ASSUME NEW u \in Tasks \ {q}, NEW a \in Outside, NEW n \in Spots
      PROVE  Place(u, a, n)' <=> Place(u, a, n)
  BY <1>1, <1>2 DEF Place, Outside
<1>6. OneTicket' /\ QueuedKept' /\ NoInput'
  <2>1. "starting" \in Outside /\ Spawned(q)
    BY SpawnSpawned DEF RunQueued, Outside
  <2> QED
    BY <1>1, <1>3, <1>4, <1>5, <2>1, SpawnPasses
<1>7. Unsaid' /\ QueueShape'
  BY <1>1, <1>2, UnsaidKeeps DEF Unsent, QueueShape
<1> QED
  BY <1>6, <1>7

\* The oldest compaction that waits is started by the turn that ends.
LEMMA StartCompactTicket ==
  ASSUME TypeOK, TypeOK', Ticket, NEW t \in Tasks, StartCompact(t)
  PROVE  Ticket'
<1> USE Domains DEF Ticket
<1>1. PICK s \in Sessions : s = home[t]
  BY DEF TypeOK, TaskOK
<1>2. /\ UNCHANGED <<nextSub, nextWake, loop, pending, queue, queued, given, bridge, starting>>
      /\ pc[t] = "complete"
  BY DEF StartCompact, At, loopVars, asyncVars, seenVars
<1>3. CASE compacts[s] = <<>>
  <2>1. Goto(t, "handoff") /\ UNCHANGED <<compacts, kind>>
    BY <1>1, <1>3 DEF StartCompact
  <2>2. Calm
    BY <1>2, <2>1, GotoThere DEF Calm, HandsFree
  <2> QED
    BY <2>2, CalmTicket
<1>4. CASE compacts[s] # <<>>
  <2>1. PICK c \in Submissions : c = Head(compacts[s])
    BY <1>4, ItemsTail DEF TypeOK, StateOK
  <2>2. /\ compacts' = [compacts EXCEPT ![s] = Tail(compacts[s])]
        /\ pc' = [pc EXCEPT ![t] = "done", ![c] = "new"]
        /\ kind' = [kind EXCEPT ![c] = "compact"]
    BY <1>1, <1>4, <2>1 DEF StartCompact
  <2>3. /\ Items(compacts[s]) = Items(compacts'[s]) \cup {c} /\ c \notin Items(compacts'[s])
        /\ IsInjective(compacts'[s])
        /\ \A n \in Sessions \ {s} : compacts'[n] = compacts[n]
    <3>1. compacts[s] \in Seq(Submissions) /\ IsInjective(compacts[s])
      BY DEF TypeOK, StateOK, QueueShape
    <3>2. compacts'[s] = Tail(compacts[s]) /\ \A n \in Sessions \ {s} : compacts'[n] = compacts[n]
      BY <2>2 DEF TypeOK, StateOK
    <3> QED
      BY <1>4, <2>1, <3>1, <3>2, ItemsTail
  <2>4. Place(c, "compacts", s) /\ \A a, n : Place(c, a, n) => a = "compacts" /\ n = s
    <3>1. Place(c, "compacts", s)
      BY <2>3 DEF Place
    <3> QED
      BY <3>1, OnePlace
  <2>5. /\ \A u \in Tasks : Unborn(u)' <=> Unborn(u)
        /\ \A u : InHand(u)' <=> InHand(u)
    BY <1>2 DEF InHand, Unborn
  <2>6. Spawned(c)
    BY <1>2, <2>2 DEF Spawned, TypeOK, TaskOK
  <2>7. ASSUME NEW a \in Outside, NEW n \in Spots, Place(c, a, n)' PROVE FALSE
    <3>1. CASE a = "compacts"
      <4>1. n \in Sessions /\ n # s /\ c \in Items(compacts[n])
        BY <2>3, <2>7, <3>1 DEF Place
      <4>2. Place(c, "compacts", n)
        BY <4>1 DEF Place
      <4> QED
        BY <2>4, <4>1, <4>2
    <3>2. CASE a # "compacts"
      <4>1. Place(c, a, n)
        BY <1>2, <2>5, <2>7, <3>2 DEF Place, Outside
      <4> QED
        BY <2>4, <3>2, <4>1
    <3> QED
      BY <3>1, <3>2
  <2>8. ASSUME NEW u \in Tasks \ {c}, NEW a \in Outside, NEW n \in Spots
        PROVE  Place(u, a, n)' <=> Place(u, a, n)
    <3>1. \A r \in Sessions : u \in Items(compacts'[r]) <=> u \in Items(compacts[r])
      BY <2>3
    <3> QED
      BY <1>2, <2>5, <3>1 DEF Place, Outside
  <2>9. OneTicket' /\ QueuedKept' /\ NoInput'
    <3>1. "compacts" \in Outside
      BY DEF Outside
    <3> QED
      BY <1>2, <2>4, <2>6, <2>7, <2>8, <3>1, SpawnPasses
  <2>10. Unsaid' /\ QueueShape'
    BY <1>2, <2>3, <2>5, UnsaidKeeps DEF Unsent, QueueShape
  <2> QED
    BY <2>9, <2>10
<1> QED
  BY <1>3, <1>4

\* A turn is given what waits for it; a review only reads the queue.
LEMMA DrainTicket ==
  ASSUME TypeOK, TypeOK', Ticket, NEW t \in Tasks, Drain(t)
  PROVE  Ticket'
<1> USE Domains DEF Ticket
<1>1. PICK s \in Sessions : s = home[t]
  BY DEF TypeOK, TaskOK
<1>2. /\ UNCHANGED <<nextSub, nextWake, loop, compacts, queued, bridge, starting, kind>>
      /\ given' = [given EXCEPT ![t] = @ \cup Got(t)]
      /\ pending' = [pending EXCEPT ![s] = <<>>]
      /\ kind[t] = "review" => UNCHANGED queue
      /\ kind[t] # "review" => queue' = [queue EXCEPT ![s] = <<>>]
      /\ pc[t] # "none"
  BY <1>1 DEF Drain, QueueAfter, UnchangedBody, loopVars, asyncVars, seenVars
<1>3. \A u \in Tasks : pc'[u] = "none" <=> pc[u] = "none"
  <2>1. PICK label \in {"remove", "turn"} : Goto(t, label)
    BY DEF Drain
  <2> QED
    BY <1>2, <2>1, GotoThere
<1>4. /\ \A u : u \in Got(t) <=> u \in Items(pending[s]) \/ u \in Items(queue[s])
      /\ \A u : u \in given'[t] <=> u \in given[t] \/ u \in Got(t)
      /\ \A u \in Tasks \ {t} : given'[u] = given[u]
  BY <1>1, <1>2 DEF Got, TypeOK, TaskOK
<1>5. /\ Items(pending'[s]) = {} /\ \A n \in Sessions \ {s} : pending'[n] = pending[n]
      /\ \A n \in Sessions : IsInjective(queue'[n])
      /\ \A u : \A n \in Sessions : u \in Items(queue'[n]) <=>
           u \in Items(queue[n]) /\ (kind[t] = "review" \/ n # s)
  <2>1. pending'[s] = <<>> /\ \A n \in Sessions \ {s} : pending'[n] = pending[n]
    BY <1>2 DEF TypeOK, StateOK
  <2>2. kind[t] # "review" => queue'[s] = <<>> /\ \A n \in Sessions \ {s} : queue'[n] = queue[n]
    BY <1>2 DEF TypeOK, StateOK
  <2>3. IsInjective(<<>>)
    BY DEF IsInjective
  <2> QED
    BY <1>2, <2>1, <2>2, <2>3, ItemsEmpty DEF QueueShape
<1>6. /\ \A u \in Tasks : Unborn(u)' <=> Unborn(u)
      /\ \A u : InHand(u)' <=> InHand(u)
  BY <1>2 DEF InHand, Unborn
<1>7. \A u \in Submissions : Unsent(u) \/ u \in queued => u \notin Items(pending[s])
  BY DEF Unsaid
<1>8. ASSUME NEW u \in Tasks, kind[t] # "review", u \in Items(queue[s])
      PROVE  GoesTo(u, "given", t)
  <2>1. Place(u, "queue", s) /\ \A a, n : Place(u, a, n) => a = "queue" /\ n = s
    <3>1. Place(u, "queue", s)
      BY <1>8 DEF Place
    <3> QED
      BY <3>1, OnePlace
  <2>2. u \in queued /\ u \in Submissions
    BY <1>8 DEF QueueShape, TypeOK, SeenOK
  <2>3. Place(u, "given", t)'
    BY <1>2, <1>4, <1>8, <2>2 DEF Place
  <2>4. ASSUME NEW a \in Stages, NEW n \in Spots, Place(u, a, n)'
        PROVE  a = "given" /\ n = t
    <3>1. CASE a = "queue"
      <4>1. n # s /\ Place(u, "queue", n)
        BY <1>5, <1>8, <2>4, <3>1 DEF Place
      <4> QED
        BY <2>1, <4>1
    <3>2. CASE a = "given" /\ n # t
      <4>1. Place(u, "given", n)
        BY <1>2, <1>4, <2>4, <3>2 DEF Place
      <4> QED
        BY <2>1, <4>1
    <3>3. CASE a \notin {"queue", "given"}
      <4>1. Place(u, a, n)
        BY <1>2, <1>3, <1>6, <2>4, <3>3 DEF Place
      <4> QED
        BY <2>1, <3>3, <4>1
    <3> QED
      BY <3>1, <3>2, <3>3
  <2>5. "given" \in Kept
    BY DEF Kept
  <2> QED
    BY <2>3, <2>4, <2>5 DEF GoesTo
<1>9. ASSUME NEW u \in Tasks, kind[t] = "review" \/ u \notin Items(queue[s])
      PROVE  Stays(u)
  <2>1. \A n \in Sessions : u \in Items(queue'[n]) <=> u \in Items(queue[n])
    BY <1>5, <1>9
  <2>2. u \in queued /\ kind[t] # "review" => u \notin Got(t)
    BY <1>4, <1>7, <1>9 DEF TypeOK, SeenOK
  <2>3. \A n : Place(u, "given", n)' <=> Place(u, "given", n)
    BY <1>2, <1>4, <2>2 DEF Place
  <2>4. \A a \in Stages \ {"given"}, n \in Spots : Place(u, a, n)' <=> Place(u, a, n)
    BY <1>2, <1>3, <1>6, <2>1 DEF Place
  <2>5. Kept \subseteq Stages
    BY DEF Kept, Stages
  <2> QED
    BY <1>2, <2>3, <2>4, <2>5 DEF Stays
<1>10. OneTicket' /\ QueuedKept'
  <2>1. "given" \in Stages /\ t \in Spots
    BY DEF Stages, Spots
  <2> QED
    BY <1>8, <1>9, <2>1, PassedTicket DEF Passed
<1>11. Unsaid'
  <2> SUFFICES ASSUME NEW u \in Submissions
               PROVE  /\ Unsent(u)' \/ u \in queued' =>
                           \A n \in Sessions : u \notin Items(pending'[n])
                      /\ Unsent(u)' => \A v \in Tasks : u \notin given'[v]
    BY DEF Unsaid
  <2>1. Unsent(u)' <=> Unsent(u)
    BY <1>2, <1>6 DEF Unsent
  <2>2. Unsent(u) \/ u \in queued => \A n \in Sessions : u \notin Items(pending[n])
    BY DEF Unsaid
  <2>3. Unsent(u) => /\ \A v \in Tasks : u \notin given[v]
                     /\ u \notin Items(queue[s])
    <3> SUFFICES ASSUME Unsent(u) PROVE u \notin Items(queue[s])
      BY DEF Unsaid
    <3>1. Place(u, "client", 0) \/ Place(u, "hand", 0)
      BY DEF Unsent, Place
    <3>2. ~Place(u, "queue", s)
      BY <3>1, OnePlace
    <3> QED
      BY <3>2 DEF Place
  <2> QED
    BY <1>2, <1>4, <1>5, <2>1, <2>2, <2>3
<1>12. NoInput'
  BY <1>2, <1>3, <1>4 DEF NoInput
<1>13. QueueShape'
  BY <1>2, <1>5 DEF QueueShape
<1> QED
  BY <1>10, <1>11, <1>12, <1>13

LEMMA StepTicket == TypeOK /\ Ticket /\ [Next]_vars => Ticket'
<1> SUFFICES ASSUME TypeOK, Ticket, [Next]_vars PROVE Ticket'
  OBVIOUS
<1>1. TypeOK'
  BY StepType
<1>2. CASE ClientStep
  BY <1>1, <1>2, OperationTicket, QueueOrCompactTicket, AbortCalm, CalmTicket DEF ClientStep
<1>3. CASE WakeStep
  BY <1>1, <1>3, WakeTicket, BridgeRecordTicket DEF WakeStep
<1>4. CASE AsyncStep
  BY <1>1, <1>4, QueuePushTicket, CompactPushTicket, AbortCalm, TurnCalm, CalmTicket,
     RunQueuedTicket, BridgeStartTicket DEF AsyncStep
<1>5. ASSUME NEW t \in Tasks, TurnStep(t) PROVE Ticket'
  BY <1>1, <1>5, TurnCalm, CalmTicket, DrainTicket, StartCompactTicket, StartQueuedTicket
  DEF TurnStep
<1>6. ASSUME NEW t \in Tasks, CompactionStep(t) PROVE Ticket'
  BY <1>1, <1>6, CompactionCalm, CalmTicket
<1>7. CASE UNCHANGED vars
  BY <1>1, <1>7, AbortCalm, CalmTicket
<1> QED
  BY <1>2, <1>3, <1>4, <1>5, <1>6, <1>7 DEF Next, TaskStep

\* The ticket of a submission or wake-up is at one place at a time, and no task
\* is spawned twice, through every abort, hand-off and reconfiguration.
THEOREM TicketHolds == Spec => []Ticket
<1>1. Init => TypeOK /\ Ticket
  BY InitType, InitTicket
<1>2. TypeOK /\ Ticket /\ [Next]_vars => (TypeOK /\ Ticket)'
  BY StepType, StepTicket
<1> QED
  BY <1>1, <1>2, PTL DEF Spec

-----------------------------------------------------------------------------
(* A queued submission is carried out once.                                *)

LEMMA NoOccurrence ==
  ASSUME NEW f, NEW x, \A s \in Sessions : x \notin Items(f[s])
  PROVE  Cardinality(Occurrences(f, x)) = 0
<1>1. Occurrences(f, x) = {}
  BY DEF Occurrences, Items
<1> QED
  BY <1>1, FS_EmptySet

LEMMA OneOccurrence ==
  ASSUME NEW f, NEW x, NEW s \in Sessions, x \in Items(f[s]),
         \A r \in Sessions : x \in Items(f[r]) => r = s,
         \A i, j \in DOMAIN f[s] : f[s][i] = x /\ f[s][j] = x => i = j
  PROVE  Cardinality(Occurrences(f, x)) = 1
<1>1. PICK k \in DOMAIN f[s] : f[s][k] = x
  BY DEF Items
<1>2. \A r \in Sessions : \A i \in DOMAIN f[r] : f[r][i] = x => r = s /\ i = k
  BY <1>1 DEF Items
<1>3. Occurrences(f, x) = {<<s, k>>}
  <2>1. ASSUME NEW p \in Occurrences(f, x) PROVE p = <<s, k>>
    <3>1. PICK r \in Sessions : \E i \in DOMAIN f[r] : p = <<r, i>> /\ f[r][i] = x
      BY DEF Occurrences
    <3> QED
      BY <1>2, <3>1
  <2>2. <<s, k>> \in Occurrences(f, x)
    BY <1>1 DEF Occurrences
  <2> QED
    BY <2>1, <2>2
<1> QED
  BY <1>3, FS_Singleton

LEMMA TicketOnce == ASSUME TypeOK, Ticket PROVE QueuedOnce
<1> USE Domains DEF Ticket
<1> SUFFICES ASSUME NEW q \in queued
             PROVE  1 = Cardinality(Occurrences(queue, q))
                        + Cardinality({s \in Sessions : <<q, s>> \in starting})
                        + Cardinality({t \in Tasks : q \in given[t] /\ kind[t] # "review"})
                        + (IF pc[q] = "none" THEN 0 ELSE 1)
  BY DEF QueuedOnce
<1> DEFINE started == {s \in Sessions : <<q, s>> \in starting}
           takers == {t \in Tasks : q \in given[t] /\ kind[t] # "review"}
<1>1. q \in Tasks
  BY DEF TypeOK, SeenOK
<1>2. PICK a \in Kept, n \in Spots : Place(q, a, n)
  BY DEF QueuedKept
<1>3. \A b, m : Place(q, b, m) => b = a /\ m = n
  BY <1>1, <1>2, OnePlace
<1>4. /\ \A s \in Sessions : q \in Items(queue[s]) => a = "queue" /\ s = n
      /\ \A s \in started : a = "starting" /\ s = n
      /\ \A t \in takers : a = "given" /\ t = n
      /\ pc[q] # "none" => a = "task"
  <2>1. ASSUME NEW s \in Sessions, q \in Items(queue[s]) PROVE a = "queue" /\ s = n
    <3>1. Place(q, "queue", s)
      BY <2>1 DEF Place
    <3> QED
      BY <1>3, <3>1
  <2>2. ASSUME NEW s \in started PROVE a = "starting" /\ s = n
    <3>1. Place(q, "starting", s)
      BY DEF Place
    <3> QED
      BY <1>3, <3>1
  <2>3. ASSUME NEW t \in takers PROVE a = "given" /\ t = n
    <3>1. Place(q, "given", t)
      BY DEF Place
    <3> QED
      BY <1>3, <3>1
  <2>4. ASSUME pc[q] # "none" PROVE a = "task"
    <3>1. Place(q, "task", 0)
      BY <2>4 DEF Place
    <3> QED
      BY <1>3, <3>1
  <2> QED
    BY <2>1, <2>2, <2>3, <2>4
<1>5. /\ a # "queue" => Cardinality(Occurrences(queue, q)) = 0
      /\ a # "starting" => Cardinality(started) = 0
      /\ a # "given" => Cardinality(takers) = 0
      /\ a # "task" => pc[q] = "none"
  <2>1. ASSUME a # "queue" PROVE Cardinality(Occurrences(queue, q)) = 0
    BY <1>4, <2>1, NoOccurrence
  <2>2. ASSUME a # "starting" PROVE Cardinality(started) = 0
    <3>1. started = {}
      BY <1>4, <2>2
    <3> QED
      BY <3>1, FS_EmptySet
  <2>3. ASSUME a # "given" PROVE Cardinality(takers) = 0
    <3>1. takers = {}
      BY <1>4, <2>3
    <3> QED
      BY <3>1, FS_EmptySet
  <2> QED
    BY <1>4, <2>1, <2>2, <2>3
<1>6. a = "queue" => Cardinality(Occurrences(queue, q)) = 1
  <2> SUFFICES ASSUME a = "queue" PROVE Cardinality(Occurrences(queue, q)) = 1
    OBVIOUS
  <2>1. n \in Sessions /\ q \in Items(queue[n])
    BY <1>2 DEF Place
  <2>2. IsInjective(queue[n])
    BY <2>1 DEF QueueShape
  <2> QED
    BY <1>4, <2>1, <2>2, OneOccurrence DEF IsInjective
<1>7. a = "starting" => Cardinality(started) = 1
  <2> SUFFICES ASSUME a = "starting" PROVE Cardinality(started) = 1
    OBVIOUS
  <2>1. started = {n}
    BY <1>2, <1>4 DEF Place
  <2> QED
    BY <2>1, FS_Singleton
<1>8. a = "given" => Cardinality(takers) = 1
  <2> SUFFICES ASSUME a = "given" PROVE Cardinality(takers) = 1
    OBVIOUS
  <2>1. takers = {n}
    BY <1>2, <1>4 DEF Place
  <2> QED
    BY <2>1, FS_Singleton
<1>9. a = "task" => pc[q] # "none"
  BY <1>2 DEF Place
<1> HIDE DEF started, takers
<1>10. 1 = Cardinality(Occurrences(queue, q)) + Cardinality(started) + Cardinality(takers)
           + (IF pc[q] = "none" THEN 0 ELSE 1)
  BY <1>2, <1>5, <1>6, <1>7, <1>8, <1>9 DEF Kept
<1> QED
  BY <1>10 DEF started, takers

\* A submission that was queued waits, is about to start, runs as a task of its
\* own or was given to one turn, and no two of these: no abort, review, second
\* hand-off or new session makes the program lose it or carry it out twice.
THEOREM QueuedOnceHolds == Spec => []QueuedOnce
<1>1. TypeOK /\ Ticket => QueuedOnce
  BY TicketOnce
<1> QED
  BY <1>1, TypeCorrect, TicketHolds, PTL

-----------------------------------------------------------------------------
(* current_task is a task slot.                                            *)

\* The slots hold different tasks, which have been spawned and installed.
SlotShape ==
  /\ \A s \in Sessions : current[s] # None =>
       /\ pc[current[s]] # "none" /\ current[s] \notin installing
       /\ \A r \in Sessions \ {s} : current[r] # current[s]
  /\ \A t \in installing : pc[t] # "none"

SlotInv == TypeOK /\ Ticket /\ SlotShape

LEMMA InitSlot == Init => SlotInv /\ Slot!Init
<1> SUFFICES ASSUME Init PROVE SlotInv /\ Slot!Init
  OBVIOUS
<1>1. TypeOK /\ Ticket
  BY InitType, InitTicket
<1>2. SlotShape
  BY DEF Init, SlotShape
<1>3. Slot!Init
  BY DEF Init, Slot!Init, Retired
<1> QED
  BY <1>1, <1>2, <1>3 DEF SlotInv

\* s is cleared, and its task stopped or not.
Clears(s) ==
  /\ current' = [current EXCEPT ![s] = None]
  /\ killed' = killed \/ killed' = killed \cup Abortable(current[s])

\* What a step other than SetTask does to the slots: the tasks of N, which
\* were not there, are spawned, and at most one slot is cleared.
SlotEffect(N) ==
  /\ \A u \in Tasks : pc'[u] = "none" <=> pc[u] = "none" /\ u \notin N
  /\ \A u \in N : pc[u] = "none"
  /\ \A u \in Tasks \ N : pc'[u] = "new" => pc[u] = "new"
  /\ \A u \in Tasks \ N : kind'[u] = kind[u] /\ home'[u] = home[u]
  /\ installing' = installing \cup N
  /\ UNCHANGED <<current, killed>> \/ \E s \in Sessions : Clears(s)

\* The steps of TaskSlot and its stuttering.
SlotStep == Slot!Next \/ UNCHANGED Slot!vars

LEMMA EffectSlot ==
  ASSUME SlotInv, NEW N \in SUBSET Tasks, SlotEffect(N)
  PROVE  SlotShape' /\ SlotStep
<1> USE Domains DEF SlotInv
<1>1. /\ current \in [Sessions -> Tasks \cup {None}]
      /\ installing \subseteq Tasks
  BY DEF TypeOK, StateOK, TaskOK
<1>2. \A s \in Sessions : current'[s] = current[s] \/ current'[s] = None
  BY <1>1 DEF SlotEffect, Clears
<1>3. SlotShape'
  <2>1. ASSUME NEW s \in Sessions, current'[s] # None
        PROVE  /\ pc'[current'[s]] # "none" /\ current'[s] \notin installing'
               /\ \A r \in Sessions \ {s} : current'[r] # current'[s]
    <3>1. /\ current'[s] = current[s] /\ current[s] \in Tasks
          /\ pc[current[s]] # "none" /\ current[s] \notin installing
          /\ \A r \in Sessions \ {s} : current[r] # current[s]
      BY <1>1, <1>2, <2>1 DEF SlotShape
    <3> QED
      BY <1>2, <2>1, <3>1 DEF SlotEffect
  <2>2. \A t \in installing' : pc'[t] # "none"
    BY <1>1 DEF SlotEffect, SlotShape
  <2> QED
    BY <2>1, <2>2 DEF SlotShape
<1>4. \A t \in Tasks : t \in Retired' <=>
        /\ pc[t] # "none" /\ t \notin installing /\ \A s \in Sessions : current'[s] # t
  BY DEF SlotEffect, Retired
<1>5. Retired \subseteq Tasks /\ Retired' \subseteq Tasks
  BY DEF Retired
<1>6. CASE UNCHANGED <<current, killed>>
  <2>1. Retired' = Retired
    BY <1>4, <1>5, <1>6 DEF Retired
  <2> QED
    BY <1>3, <1>6, <2>1 DEF SlotStep, Slot!vars
<1>7. ASSUME NEW s \in Sessions, Clears(s), current[s] # None PROVE SlotStep
  <2>1. current[s] \in Tasks /\ pc[current[s]] # "none" /\ current[s] \notin installing
    BY <1>1, <1>7 DEF SlotShape
  <2>2. \A t \in Tasks :
          (\A r \in Sessions : current'[r] # t)
            <=> t = current[s] \/ \A r \in Sessions : current[r] # t
    <3>1. current' = [current EXCEPT ![s] = None]
      BY <1>7 DEF Clears
    <3>2. \A r \in Sessions \ {s} : current[r] # current[s]
      BY <1>7 DEF SlotShape
    <3>3. current'[s] = None /\ \A r \in Sessions \ {s} : current'[r] = current[r]
      BY <1>1, <3>1
    <3> QED
      BY <3>2, <3>3
  <2>3. Retired' = Retired \cup ({current[s]} \ {None})
    <3>1. \A t \in Tasks : t \in Retired <=>
            pc[t] # "none" /\ t \notin installing /\ \A r \in Sessions : current[r] # t
      BY DEF Retired
    <3>2. \A t \in Tasks : t \in Retired' <=> t \in Retired \/ t = current[s]
      BY <1>4, <2>1, <2>2, <3>1
    <3> QED
      BY <1>5, <1>7, <2>1, <3>2
  <2>4. killed' = killed \/ killed' = killed \cup {current[s]}
    BY <1>7 DEF Clears, Abortable
  <2>5. Slot!Leave(s)
    BY <1>7, <2>3, <2>4 DEF Slot!Leave, Slot!Vacate, Clears
  <2> QED
    BY <2>5 DEF SlotStep, Slot!Next
<1>8. ASSUME NEW s \in Sessions, Clears(s), current[s] = None
      PROVE  UNCHANGED <<current, killed>>
  BY <1>1, <1>8 DEF Clears, Abortable
<1> QED
  BY <1>3, <1>6, <1>7, <1>8 DEF SlotEffect

LEMMA SetTaskSlot ==
  ASSUME SlotInv, NEW t \in Tasks, SetTask(t)
  PROVE  SlotShape' /\ SlotStep
<1> USE Domains DEF SlotInv
<1>1. PICK s \in Sessions : s = home[t]
  BY DEF TypeOK, TaskOK
<1>2. /\ current \in [Sessions -> Tasks \cup {None}]
      /\ t \in installing /\ installing' = installing \ {t}
      /\ killed' = killed \cup Abortable(current[s])
      /\ current' = [current EXCEPT ![s] = t] /\ pc' = pc
  BY <1>1 DEF SetTask, AbortTasks, TypeOK, StateOK
<1>3. /\ pc[t] # "none" /\ \A r \in Sessions : current[r] # t
      /\ t # None
  BY <1>2 DEF SlotShape
<1>4. current'[s] = t /\ \A r \in Sessions \ {s} : current'[r] = current[r]
  BY <1>2
<1>5. SlotShape'
  BY <1>2, <1>3, <1>4 DEF SlotShape
<1>6. Retired' = Retired \cup ({current[s]} \ {None})
  <2>1. current[s] # None =>
          /\ current[s] \in Tasks /\ pc[current[s]] # "none" /\ current[s] \notin installing
          /\ \A r \in Sessions \ {s} : current[r] # current[s]
    BY <1>2 DEF SlotShape
  <2> QED
    BY <1>2, <1>3, <1>4, <2>1 DEF Retired
<1>7. Slot!Install(s, t)
  <2>1. t \notin Slot!Holders /\ t \notin Retired
    BY <1>2, <1>3 DEF Slot!Holders, Retired
  <2>2. killed' = killed \/ (current[s] # None /\ killed' = killed \cup {current[s]})
    BY <1>2 DEF Abortable
  <2> QED
    BY <1>2, <1>6, <2>1, <2>2 DEF Slot!Install, Slot!Vacate
<1> QED
  BY <1>5, <1>7 DEF SlotStep, Slot!Next

\* Who is spawned was not there: its ticket was elsewhere.
LEMMA SpawnEffect ==
  ASSUME SlotInv, NEW t \in Tasks, NEW k, NEW s, Spawn(t, k, s),
         NEW a \in Outside, NEW n, Place(t, a, n),
         UNCHANGED <<current, killed>> \/ \E r \in Sessions : Clears(r)
  PROVE  SlotEffect({t})
<1>1. pc[t] = "none"
  <2>1. ~Place(t, "task", 0)
    BY OnePlace DEF SlotInv, Ticket, Outside
  <2> QED
    BY <2>1 DEF Place
<1> QED
  BY <1>1 DEF SlotEffect, Spawn, SlotInv, TypeOK, TaskOK

LEMMA NobodyEffect ==
  ASSUME \A u \in Tasks : pc'[u] = "none" <=> pc[u] = "none",
         \A u \in Tasks : pc'[u] = "new" => pc[u] = "new",
         UNCHANGED <<kind, home, installing>>,
         UNCHANGED <<current, killed>> \/ \E r \in Sessions : Clears(r)
  PROVE  SlotEffect({})
  BY DEF SlotEffect

LEMMA AbortClears == ASSUME NEW s, Abort(s) PROVE Clears(s)
  BY DEF Abort, AbortTasks, Clears

\* The operations of the client.
LEMMA ClientEffect ==
  ASSUME SlotInv, ClientStep
  PROVE  \E N \in SUBSET Tasks : SlotEffect(N)
<1> USE Domains DEF SlotInv
<1>1. sess \in Sessions
  BY DEF TypeOK, LoopOK
<1>2. ASSUME NEW i \in Submissions,
             UserInput(i) \/ EmptyUserInput(i) \/ Review(i) \/ QueueUserInput(i) \/ Compact(i)
      PROVE  \E N \in SUBSET Tasks : SlotEffect(N)
  <2>1. \E op : Take(op, i)
    BY <1>2 DEF UserInput, EmptyUserInput, Review, QueueUserInput, Compact
  <2>2. Place(i, "client", 0) /\ "client" \in Outside
    BY <2>1, TakeBorn DEF Place, Outside
  <2>3. UNCHANGED <<current, killed>> \/ Clears(sess)
    BY <1>2, AbortClears
    DEF UserInput, EmptyUserInput, Review, Restart, QueueUserInput, Compact, stateVars, taskVars
  <2>4. UNCHANGED <<pc, kind, home, installing>> \/ \E k : Spawn(i, k, sess)
    BY <1>2 DEF UserInput, EmptyUserInput, Review, Restart, QueueUserInput, Compact, taskVars
  <2>5. ASSUME NEW k, Spawn(i, k, sess) PROVE SlotEffect({i})
    BY <1>1, <2>2, <2>3, <2>5, SpawnEffect
  <2>6. CASE UNCHANGED <<pc, kind, home, installing>>
    BY <1>1, <2>3, <2>6, NobodyEffect
  <2> QED
    BY <2>4, <2>5, <2>6
<1>3. ASSUME NEW i \in Submissions, Interrupt(i) \/ Shutdown(i) PROVE SlotEffect({})
  BY <1>3, NobodyEffect DEF Interrupt, Shutdown, stateVars, taskVars
<1>4. ASSUME ConfigureSession PROVE SlotEffect({})
  BY <1>1, <1>4, AbortClears, NobodyEffect DEF ConfigureSession
<1>5. ASSUME NEW t \in Tasks, Approve(t) \/ ApproveAbort(t) PROVE SlotEffect({})
  <2>1. /\ UNCHANGED <<pc, kind, home, installing>>
        /\ UNCHANGED <<current, killed>> \/ Clears(sess)
    BY <1>5, AbortClears DEF Approve, ApproveAbort, taskVars
  <2> QED
    BY <1>1, <2>1, NobodyEffect
<1> QED
  BY <1>2, <1>3, <1>4, <1>5 DEF ClientStep

\* Messages from inside the program.
LEMMA WakeEffect ==
  ASSUME SlotInv, WakeStep \/ \E s \in Sessions : BridgeStart(s)
  PROVE  \E N \in SUBSET Tasks : SlotEffect(N)
<1> USE Domains DEF SlotInv
<1>1. ASSUME NEW w \in Wakes, AddPendingInputDeveloper(w) \/ AgentWake(w)
      PROVE  \E N \in SUBSET Tasks : SlotEffect(N)
  <2>1. PICK s : Enqueue(w, s)
    BY <1>1 DEF AddPendingInputDeveloper, AgentWake
  <2>2. TakeWake(w) /\ UNCHANGED nextSub
    BY <1>1 DEF AddPendingInputDeveloper, AgentWake
  <2>3. Place(w, "client", 0) /\ "client" \in Outside
    BY <2>2, TakeWakeBorn DEF Place, Outside
  <2>4. UNCHANGED <<current, killed>>
    BY <2>1 DEF Enqueue, taskVars
  <2>5. ASSUME Spawn(w, "pending", s) PROVE SlotEffect({w})
    BY <2>3, <2>4, <2>5, SpawnEffect
  <2>6. UNCHANGED taskVars \/ Spawn(w, "pending", s)
    BY <2>1 DEF Enqueue
  <2>7. ASSUME UNCHANGED taskVars PROVE SlotEffect({})
    BY <2>4, <2>7, NobodyEffect DEF taskVars
  <2> QED
    BY <2>5, <2>6, <2>7
<1>2. ASSUME NEW w \in Wakes, NEW s \in Sessions, BridgeRecord(w, s) PROVE SlotEffect({})
  BY <1>2, NobodyEffect DEF BridgeRecord, taskVars
<1>3. ASSUME NEW s \in Sessions, BridgeStart(s) PROVE \E N \in SUBSET Tasks : SlotEffect(N)
  <2>1. PICK w \in Tasks : w = bridge[s].id
    BY <1>3 DEF BridgeStart, TypeOK, AsyncOK
  <2>2. Place(w, "bridge", s) /\ "bridge" \in Outside
    BY <1>3, <2>1 DEF BridgeStart, Place, Outside
  <2>3. UNCHANGED <<current, killed>>
    BY <1>3 DEF BridgeStart, stateVars, taskVars
  <2>4. UNCHANGED taskVars \/ Spawn(w, "pending", s)
    BY <1>3, <2>1 DEF BridgeStart
  <2>5. ASSUME Spawn(w, "pending", s) PROVE SlotEffect({w})
    BY <2>2, <2>3, <2>5, SpawnEffect
  <2>6. ASSUME UNCHANGED taskVars PROVE SlotEffect({})
    BY <2>3, <2>6, NobodyEffect DEF taskVars
  <2> QED
    BY <2>4, <2>5, <2>6
<1> QED
  BY <1>1, <1>2, <1>3 DEF WakeStep

\* No task begins a second time.
LEMMA GotoLater ==
  ASSUME TypeOK, NEW t \in Tasks, NEW label, Goto(t, label), label # "new"
  PROVE  \A u \in Tasks : pc'[u] = "new" => pc[u] = "new"
  BY DEF Goto, TypeOK, TaskOK

LEMMA StepLater ==
  ASSUME TypeOK, NEW t \in Tasks,
         \/ Begin(t) \/ Answered(t) \/ CalledTools(t) \/ Ask(t) \/ Register(t) \/ Resume(t)
         \/ ReviewExit(t) \/ Remove(t) \/ Die(t) \/ CompactionStep(t)
  PROVE  \A u \in Tasks : pc'[u] = "new" => pc[u] = "new"
<1>1. back[t] # "new" /\ AfterReplace(t) # "new"
  BY DEF TypeOK, TaskOK, AfterReplace
<1>2. \E label : Goto(t, label) /\ label # "new"
  <2>1. CASE CompactionStep(t)
    BY <1>1, <2>1
    DEF CompactionStep, CompactTask, CompactInline, CompactFirst, BeginCompaction, LocalAnswer,
        Snapshot, Replace, RemoteAnswer, RemoteClear, Rebuild, CompactionFails, Emergency,
        CompactReport
  <2>2. CASE ~CompactionStep(t)
    BY <2>2 DEF Begin, Answered, CalledTools, Ask, Register, Resume, ReviewExit, Remove, Die
  <2> QED
    BY <2>1, <2>2
<1> QED
  BY <1>2, GotoLater

\* The steps of the tasks.
LEMMA TaskEffect ==
  ASSUME SlotInv, NEW t \in Tasks, TaskStep(t) \/ Die(t)
  PROVE  \E N \in SUBSET Tasks : SlotEffect(N)
<1> USE Domains DEF SlotInv
<1>1. CASE Drain(t) \/ StartQueued(t)
  <2>1. PICK label : Goto(t, label) /\ pc[t] # "none" /\ label \notin {"none", "new"}
    BY <1>1 DEF Drain, StartQueued, At
  <2>2. UNCHANGED <<kind, home, installing, current, killed>>
    BY <1>1 DEF Drain, StartQueued, UnchangedBody
  <2>3. SlotEffect({})
    BY <2>1, <2>2, GotoThere, GotoLater, NobodyEffect
  <2> QED
    BY <2>3
<1>2. CASE StartCompact(t)
  <2>1. UNCHANGED <<current, killed>> /\ pc[t] = "complete"
    BY <1>2 DEF StartCompact, At
  <2>2. PICK s \in Sessions : s = home[t]
    BY DEF TypeOK, TaskOK
  <2>3. CASE compacts[s] = <<>>
    <3>1. Goto(t, "handoff") /\ UNCHANGED <<kind, home, installing>>
      BY <1>2, <2>2, <2>3 DEF StartCompact
    <3>2. SlotEffect({})
      BY <2>1, <3>1, GotoThere, GotoLater, NobodyEffect
    <3> QED
      BY <3>2
  <2>4. CASE compacts[s] # <<>>
    <3>1. PICK c \in Submissions : c = Head(compacts[s]) /\ c \in Items(compacts[s])
      BY <2>4, ItemsTail DEF TypeOK, StateOK
    <3>2. /\ pc' = [pc EXCEPT ![t] = "done", ![c] = "new"] /\ installing' = installing \cup {c}
          /\ kind' = [kind EXCEPT ![c] = "compact"] /\ home' = [home EXCEPT ![c] = s]
      BY <1>2, <2>2, <2>4, <3>1 DEF StartCompact
    <3>3. pc[c] = "none"
      <4>1. Place(c, "compacts", s)
        BY <3>1 DEF Place
      <4>2. ~Place(c, "task", 0)
        BY <4>1, OnePlace DEF Ticket
      <4> QED
        BY <4>2 DEF Place
    <3>4. SlotEffect({c})
      BY <2>1, <3>2, <3>3 DEF SlotEffect, TypeOK, TaskOK
    <3> QED
      BY <3>4
  <2> QED
    BY <2>3, <2>4
<1>3. CASE \/ Begin(t) \/ Answered(t) \/ CalledTools(t) \/ Ask(t) \/ Register(t) \/ Resume(t)
           \/ ReviewExit(t) \/ Remove(t) \/ Die(t) \/ CompactionStep(t)
  <2>1. \A u \in Tasks : pc'[u] = "none" <=> pc[u] = "none"
    BY <1>3, TurnCalm, CompactionCalm DEF Calm
  <2>2. UNCHANGED <<kind, home, installing, killed>>
    BY <1>3 DEF Begin, Answered, CalledTools, Ask, Register, Resume, ReviewExit, Remove, Die,
       CompactionStep, CompactTask, CompactInline, CompactFirst, BeginCompaction, LocalAnswer,
       Snapshot, Replace, RemoteAnswer, RemoteClear, Rebuild, CompactionFails, Emergency,
       CompactReport, UnchangedBody
  <2>3. UNCHANGED current \/ RemoveTask(t)
    BY <1>3 DEF Begin, Answered, CalledTools, Ask, Register, Resume, ReviewExit, Remove, Die,
       CompactionStep, CompactTask, CompactInline, CompactFirst, BeginCompaction, LocalAnswer,
       Snapshot, Replace, RemoteAnswer, RemoteClear, Rebuild, CompactionFails, Emergency,
       CompactReport, stateVars
  <2>4. ASSUME RemoveTask(t) PROVE UNCHANGED current \/ Clears(home[t])
    <3>1. /\ current \in [Sessions -> Tasks \cup {None}] /\ home[t] \in Sessions
          /\ current' = [current EXCEPT ![home[t]] = IF @ = t THEN None ELSE @]
      BY <2>4 DEF RemoveTask, TypeOK, StateOK, TaskOK
    <3> QED
      BY <2>2, <3>1 DEF Clears
  <2>5. home[t] \in Sessions
    BY DEF TypeOK, TaskOK
  <2>6. SlotEffect({})
    BY <1>3, <2>1, <2>2, <2>3, <2>4, <2>5, StepLater, NobodyEffect
  <2> QED
    BY <2>6
<1> QED
  BY <1>1, <1>2, <1>3 DEF TaskStep, TurnStep

\* The second halves, the detached tasks and stuttering.
LEMMA AsyncEffect ==
  ASSUME SlotInv,
         \/ QueuePush \/ CompactPush
         \/ \E i \in Submissions, s \in Sessions : AbortLater(i, s) \/ RunQueued(i, s)
         \/ \E t \in Tasks : ExitAborted(t) \/ ReportAborted(t)
         \/ UNCHANGED vars
  PROVE  \E N \in SUBSET Tasks : SlotEffect(N)
<1> USE Domains DEF SlotInv
<1>1. ASSUME \/ QueuePush \/ CompactPush
             \/ \E t \in Tasks : ExitAborted(t) \/ ReportAborted(t)
             \/ UNCHANGED vars
      PROVE  SlotEffect({})
  <2>1. UNCHANGED <<pc, kind, home, installing, current, killed>>
    BY <1>1 DEF QueuePush, CompactPush, ExitAborted, ReportAborted, vars, stateVars, taskVars
  <2> QED
    BY <2>1, NobodyEffect
<1>2. ASSUME NEW i \in Submissions, NEW s \in Sessions, AbortLater(i, s) PROVE SlotEffect({})
  BY <1>2, AbortClears, NobodyEffect DEF AbortLater
<1>3. ASSUME NEW i \in Submissions, NEW s \in Sessions, RunQueued(i, s) PROVE SlotEffect({i})
  <2>1. Place(i, "starting", s) /\ "starting" \in Outside
    BY <1>3 DEF RunQueued, Place, Outside
  <2>2. Spawn(i, "regular", s) /\ UNCHANGED <<current, killed>>
    BY <1>3 DEF RunQueued, stateVars
  <2> QED
    BY <2>1, <2>2, SpawnEffect
<1> QED
  BY <1>1, <1>2, <1>3

LEMMA StepSlot == SlotInv /\ [Next]_vars => SlotInv' /\ SlotStep
<1> SUFFICES ASSUME SlotInv, [Next]_vars PROVE SlotInv' /\ SlotStep
  OBVIOUS
<1>1. TypeOK' /\ Ticket'
  BY StepType, StepTicket DEF SlotInv
<1>2. \/ \E t \in Tasks : SetTask(t)
      \/ \E N \in SUBSET Tasks : SlotEffect(N)
  BY ClientEffect, WakeEffect, TaskEffect, AsyncEffect DEF Next, AsyncStep
<1>3. SlotShape' /\ SlotStep
  BY <1>2, SetTaskSlot, EffectSlot
<1> QED
  BY <1>1, <1>3 DEF SlotInv

\* current_task implements a task slot: whoever installs, aborts or removes
\* tasks, each is installed once, leaves once, is stopped only as it leaves and
\* never comes back, in every session.
THEOREM SlotIsTaskSlot == Spec => SlotRefined
<1>1. SlotInv /\ [Next]_vars => [Slot!Next]_(Slot!vars)
  BY StepSlot DEF SlotStep
<1> QED
  BY <1>1, InitSlot, StepSlot, PTL DEF Spec, SlotRefined, Slot!Spec

-----------------------------------------------------------------------------
(* What an abort leaves to do, and a review's way out of review mode.      *)

\* Who holds a slot, or is about to, was not stopped.
HoldersLive ==
  /\ killed \subseteq {t \in Tasks : pc[t] # "none"} \ installing
  /\ \A s \in Sessions : current[s] \notin killed

\* A task that was stopped has one report of it, owed or made.
OneReport ==
  /\ killed = exiting \cup reporting \cup aborted
  /\ exiting \cap reporting = {} /\ exiting \cap aborted = {} /\ reporting \cap aborted = {}

\* The labels of a review, and those at which it has left review mode.
Reviewing == {"new", "first", "loop", "turn", "asking", "waiting", "exit", "dead"}
Reviewed == {"remove", "complete", "handoff", "done"}

ReviewShape ==
  \A t \in Tasks :
    /\ kind[t] = "review" => /\ pc[t] \in Reviewing \cup Reviewed
                             /\ pc[t] \in Reviewed => t \in exited
                             /\ t \in killed => t \in exiting \cup exited
    /\ kind[t] = "review" \/ pc[t] = "none" => auto[t] # "due"
    /\ pc[t] = "dead" => t \in killed

\* A slot holds a task of its session.
AtHome == \A s \in Sessions : current[s] # None => home[current[s]] = s

AbortInv == SlotInv /\ AtHome /\ HoldersLive /\ OneReport /\ ReviewShape

\* A review that is over has left review mode, or a detached task owes it.
ReviewIsLeft ==
  \A t \in Tasks : kind[t] = "review" /\ Finished(t) => t \in exited \cup exiting

\* What an interrupt found in the slot it still finds there, unless the task
\* was stopped, ended, or left of its own accord.
InterruptHolds ==
  \A i \in Submissions, s \in Sessions, t \in Tasks :
    <<i, s>> \in interrupts /\ current[s] = t =>
      \/ <<i, s>> \in interrupts' /\ current'[s] = t
      \/ t \in killed' \/ Finished(t)' \/ Leaving(t)'

LEMMA InitAbort == Init => AbortInv
<1> SUFFICES ASSUME Init PROVE AbortInv
  OBVIOUS
<1>1. SlotInv
  BY InitSlot
<1>2. AtHome /\ HoldersLive /\ OneReport /\ ReviewShape
  BY Domains DEF Init, AtHome, HoldersLive, OneReport, ReviewShape
<1> QED
  BY <1>1, <1>2 DEF AbortInv

\* The tasks of T are taken out of their slots and stopped.
Stops(T) ==
  /\ \A u \in T : \E s \in Sessions : current[s] = u
  /\ AbortTasks(T)
  /\ UNCHANGED <<aborted, exited>>

\* Whatever a step does to the aborts, it does one of four things.
AbortEffect ==
  \/ \E T \in SUBSET Tasks : Stops(T)
  \/ \E t \in Tasks : ExitAborted(t) \/ ReportAborted(t) \/ ReviewExit(t)

LEMMA StopsNobody ==
  ASSUME UNCHANGED <<killed, exiting, reporting, aborted, exited>> PROVE AbortEffect
<1>1. Stops({})
  BY DEF Stops, AbortTasks
<1> QED
  BY <1>1 DEF AbortEffect

LEMMA StopsHolder ==
  ASSUME TypeOK, NEW s \in Sessions, AbortTasks(Abortable(current[s])),
         UNCHANGED <<aborted, exited>>
  PROVE  AbortEffect
<1>1. Abortable(current[s]) \subseteq Tasks
  BY DEF Abortable, TypeOK, StateOK
<1>2. Stops(Abortable(current[s]))
  BY DEF Stops, Abortable
<1> QED
  BY <1>1, <1>2 DEF AbortEffect

LEMMA StepAborts == ASSUME TypeOK, [Next]_vars PROVE AbortEffect
<1> USE DEF asyncVars, taskVars, seenVars
<1>1. sess \in Sessions
  BY DEF TypeOK, LoopOK
<1>2. ASSUME ClientStep PROVE AbortEffect
  <2>1. ASSUME NEW i \in Submissions,
               QueueUserInput(i) \/ Compact(i) \/ Interrupt(i) \/ Shutdown(i)
        PROVE  AbortEffect
    BY <2>1, StopsNobody DEF QueueUserInput, Compact, Interrupt, Shutdown
  <2>2. ASSUME NEW i \in Submissions, UserInput(i) \/ EmptyUserInput(i) \/ Review(i)
        PROVE  AbortEffect
    BY <1>1, <2>2, StopsHolder DEF UserInput, EmptyUserInput, Review, Restart, Abort
  <2>3. CASE ConfigureSession
    BY <1>1, <2>3, StopsHolder DEF ConfigureSession, Abort
  <2>4. ASSUME NEW t \in Tasks, Approve(t) PROVE AbortEffect
    BY <2>4, StopsNobody DEF Approve
  <2>5. ASSUME NEW t \in Tasks, ApproveAbort(t) PROVE AbortEffect
    BY <1>1, <2>5, StopsHolder DEF ApproveAbort, Abort
  <2> QED
    BY <1>2, <2>1, <2>2, <2>3, <2>4, <2>5 DEF ClientStep
<1>3. ASSUME WakeStep PROVE AbortEffect
  BY <1>3, StopsNobody
  DEF WakeStep, AddPendingInputDeveloper, AgentWake, BridgeRecord, Enqueue
<1>4. ASSUME AsyncStep PROVE AbortEffect
  <2>1. CASE \/ QueuePush \/ CompactPush \/ \E s \in Sessions : BridgeStart(s)
             \/ \E i \in Submissions, s \in Sessions : RunQueued(i, s)
             \/ \E t \in Tasks : Die(t)
    BY <2>1, StopsNobody
    DEF QueuePush, CompactPush, BridgeStart, RunQueued, Die, UnchangedBody
  <2>2. ASSUME NEW i \in Submissions, NEW s \in Sessions, AbortLater(i, s) PROVE AbortEffect
    BY <2>2, StopsHolder DEF AbortLater, Abort
  <2>3. ASSUME NEW t \in Tasks, SetTask(t) PROVE AbortEffect
    <3>1. home[t] \in Sessions
      BY DEF TypeOK, TaskOK
    <3> QED
      BY <2>3, <3>1, StopsHolder DEF SetTask
  <2>4. ASSUME NEW t \in Tasks, ExitAborted(t) \/ ReportAborted(t) PROVE AbortEffect
    BY <2>4 DEF AbortEffect
  <2> QED
    BY <1>4, <2>1, <2>2, <2>3, <2>4 DEF AsyncStep
<1>5. ASSUME NEW t \in Tasks, TaskStep(t) PROVE AbortEffect
  <2>1. CASE ReviewExit(t)
    BY <2>1 DEF AbortEffect
  <2>2. CASE \/ Begin(t) \/ Drain(t) \/ Answered(t) \/ CalledTools(t) \/ Ask(t) \/ Register(t)
             \/ Resume(t) \/ Remove(t) \/ StartCompact(t) \/ StartQueued(t)
    BY <2>2, StopsNobody
    DEF Begin, Drain, Answered, CalledTools, Ask, Register, Resume, Remove, StartCompact,
        StartQueued, UnchangedBody
  <2>3. CASE CompactionStep(t)
    BY <2>3, StopsNobody
    DEF CompactionStep, CompactTask, CompactInline, CompactFirst, BeginCompaction, LocalAnswer,
        Snapshot, Replace, RemoteAnswer, RemoteClear, Rebuild, CompactionFails, Emergency,
        CompactReport, UnchangedBody
  <2> QED
    BY <1>5, <2>1, <2>2, <2>3 DEF TaskStep, TurnStep
<1>6. ASSUME UNCHANGED vars PROVE AbortEffect
  BY <1>6, StopsNobody DEF vars
<1> QED
  BY <1>2, <1>3, <1>4, <1>5, <1>6 DEF Next

\* A step installs a task or has the effect above on the slots.
LEMMA SlotOrInstall ==
  ASSUME SlotInv, [Next]_vars
  PROVE  \/ \E t \in Tasks : SetTask(t)
         \/ \E N \in SUBSET Tasks : SlotEffect(N)
BY ClientEffect, WakeEffect, TaskEffect, AsyncEffect DEF Next, AsyncStep

\* Whoever is stopped held a slot, and whoever gets one was never stopped.
LEMMA StepHolders ==
  ASSUME SlotInv, AtHome, HoldersLive, [Next]_vars
  PROVE  AtHome' /\ HoldersLive'
<1> USE Domains DEF SlotInv
<1>1. /\ current \in [Sessions -> Tasks \cup {None}] /\ installing \subseteq Tasks
      /\ killed \subseteq Tasks /\ home \in [Tasks -> Sessions]
  BY DEF TypeOK, StateOK, TaskOK
<1>2. ASSUME NEW t \in Tasks, SetTask(t) PROVE AtHome' /\ HoldersLive'
  <2>1. PICK s \in Sessions : s = home[t]
    BY <1>1
  <2>2. /\ t \in installing /\ installing' = installing \ {t}
        /\ killed' = killed \cup Abortable(current[s])
        /\ current' = [current EXCEPT ![s] = t] /\ UNCHANGED <<pc, home>>
    BY <1>2, <2>1 DEF SetTask, AbortTasks
  <2>3. Abortable(current[s]) \subseteq {current[s]} \ {None}
    BY DEF Abortable
  <2>4. current'[s] = t /\ \A r \in Sessions \ {s} : current'[r] = current[r]
    BY <1>1, <2>2
  <2>5. AtHome'
    BY <2>1, <2>2, <2>4 DEF AtHome
  <2>6. HoldersLive'
    <3>1. t \notin killed /\ t # current[s] /\ t # None /\ pc[t] # "none"
      BY <2>2 DEF HoldersLive, SlotShape
    <3>2. current[s] # None =>
            /\ current[s] \in Tasks /\ pc[current[s]] # "none" /\ current[s] \notin installing
            /\ \A r \in Sessions \ {s} : current[r] # current[s]
      BY <1>1 DEF SlotShape
    <3>3. \A u \in killed' : u \in Tasks /\ pc'[u] # "none" /\ u \notin installing'
      BY <2>2, <2>3, <3>2 DEF HoldersLive
    <3>4. \A r \in Sessions : current'[r] \notin killed'
      BY <2>2, <2>3, <2>4, <3>1, <3>2 DEF HoldersLive
    <3> QED
      BY <3>3, <3>4 DEF HoldersLive
  <2> QED
    BY <2>5, <2>6
<1>3. ASSUME NEW N \in SUBSET Tasks, SlotEffect(N) PROVE AtHome' /\ HoldersLive'
  <2>1. \A s \in Sessions : current'[s] = current[s] \/ current'[s] = None
    BY <1>1, <1>3 DEF SlotEffect, Clears
  <2>2. AtHome'
    <3> SUFFICES ASSUME NEW s \in Sessions, current'[s] # None PROVE home'[current'[s]] = s
      BY DEF AtHome
    <3>1. current'[s] = current[s] /\ current[s] \in Tasks /\ pc[current[s]] # "none"
      BY <1>1, <2>1 DEF SlotShape
    <3>2. current[s] \notin N
      BY <1>3, <3>1 DEF SlotEffect
    <3> QED
      BY <1>3, <3>1, <3>2 DEF SlotEffect, AtHome
  <2>3. ASSUME UNCHANGED <<current, killed>> PROVE HoldersLive'
    <3>1. \A t \in killed : t \in Tasks /\ pc[t] # "none" /\ t \notin installing
      BY DEF HoldersLive
    <3>2. \A t \in killed : pc'[t] # "none" /\ t \notin installing'
      BY <1>3, <3>1 DEF SlotEffect
    <3> QED
      BY <2>3, <3>1, <3>2 DEF HoldersLive
  <2>4. ASSUME NEW s \in Sessions, Clears(s) PROVE HoldersLive'
    <3>1. killed' \subseteq killed \cup ({current[s]} \ {None})
      BY <2>4 DEF Clears, Abortable
    <3>2. current'[s] = None /\ \A r \in Sessions \ {s} : current'[r] = current[r]
      BY <1>1, <2>4 DEF Clears
    <3>3. current[s] # None =>
            /\ current[s] \in Tasks /\ pc[current[s]] # "none" /\ current[s] \notin installing
            /\ \A r \in Sessions \ {s} : current[r] # current[s]
      BY <1>1 DEF SlotShape
    <3>4. \A t \in killed' : t \in Tasks /\ pc[t] # "none" /\ t \notin installing
      BY <3>1, <3>3 DEF HoldersLive
    <3>5. \A t \in killed' : pc'[t] # "none" /\ t \notin installing'
      BY <1>3, <3>4 DEF SlotEffect
    <3>6. \A r \in Sessions : current'[r] \notin killed'
      BY <3>1, <3>2, <3>3, <3>4 DEF HoldersLive
    <3> QED
      BY <3>4, <3>5, <3>6 DEF HoldersLive
  <2> QED
    BY <1>3, <2>2, <2>3, <2>4 DEF SlotEffect
<1> QED
  BY <1>2, <1>3, SlotOrInstall

LEMMA StepReport ==
  ASSUME TypeOK, HoldersLive, OneReport, [Next]_vars
  PROVE  OneReport'
<1>1. ASSUME NEW T \in SUBSET Tasks, Stops(T) PROVE OneReport'
  <2>1. T \cap killed = {}
    BY <1>1 DEF Stops, HoldersLive
  <2> QED
    BY <1>1, <2>1 DEF Stops, AbortTasks, OneReport
<1>2. ASSUME NEW t \in Tasks, ExitAborted(t) \/ ReportAborted(t) \/ ReviewExit(t)
      PROVE  OneReport'
  BY <1>2 DEF ExitAborted, ReportAborted, ReviewExit, taskVars, UnchangedBody, asyncVars, seenVars,
     OneReport
<1> QED
  BY <1>1, <1>2, StepAborts DEF AbortEffect

\* One task of ReviewShape.
Shaped(t) ==
  /\ kind[t] = "review" => /\ pc[t] \in Reviewing \cup Reviewed
                           /\ pc[t] \in Reviewed => t \in exited
                           /\ t \in killed => t \in exiting \cup exited
  /\ kind[t] = "review" \/ pc[t] = "none" => auto[t] # "due"
  /\ pc[t] = "dead" => t \in killed

\* What an abort, and the exits, mean for a task whose kind stays.
LEMMA AbortShaped ==
  ASSUME TypeOK, AbortEffect, NEW t \in Tasks, Shaped(t), kind'[t] = kind[t]
  PROVE  /\ t \in exited => t \in exited'
         /\ t \in killed => t \in killed'
         /\ kind'[t] = "review" /\ t \in killed' => t \in exiting' \cup exited'
<1>1. ASSUME NEW T \in SUBSET Tasks, Stops(T)
      PROVE  /\ t \in exited => t \in exited'
             /\ t \in killed => t \in killed'
             /\ kind'[t] = "review" /\ t \in killed' => t \in exiting' \cup exited'
  BY <1>1 DEF Stops, AbortTasks, Shaped
<1>2. ASSUME NEW u \in Tasks, ExitAborted(u) \/ ReportAborted(u) \/ ReviewExit(u)
      PROVE  /\ t \in exited => t \in exited'
             /\ t \in killed => t \in killed'
             /\ kind'[t] = "review" /\ t \in killed' => t \in exiting' \cup exited'
  BY <1>2 DEF ExitAborted, ReportAborted, ReviewExit, taskVars, UnchangedBody, asyncVars, seenVars,
     Shaped
<1> QED
  BY <1>1, <1>2 DEF AbortEffect

\* A step that moves nobody that is there, and spawns at most somebody.
LEMMA OutsideShaped ==
  ASSUME SlotInv, HoldersLive, ReviewShape, AbortEffect, UNCHANGED auto,
         NEW N \in SUBSET Tasks, SlotEffect(N),
         \A u \in Tasks : pc'[u] = pc[u] \/ pc'[u] = "new"
  PROVE  ReviewShape'
<1> USE DEF SlotInv
<1> SUFFICES ASSUME NEW t \in Tasks PROVE Shaped(t)'
  BY DEF ReviewShape, Shaped
<1>1. Shaped(t)
  BY DEF ReviewShape, Shaped
<1>2. CASE t \in N
  <2>1. pc[t] = "none" /\ t \notin killed /\ pc'[t] = "new"
    BY <1>2 DEF SlotEffect, HoldersLive
  <2>2. t \notin killed'
    <3>1. \A s \in Sessions : current[s] # t
      BY <2>1, Domains DEF SlotShape
    <3> QED
      BY <2>1, <3>1 DEF AbortEffect, Stops, AbortTasks, ExitAborted, ReportAborted, ReviewExit,
         taskVars, UnchangedBody
  <2> QED
    BY <1>1, <2>1, <2>2 DEF Shaped, Reviewing, Reviewed
<1>3. CASE t \notin N
  <2>1. kind'[t] = kind[t] /\ (pc'[t] = "none" <=> pc[t] = "none")
    BY <1>3 DEF SlotEffect
  <2>2. /\ t \in exited => t \in exited'
        /\ t \in killed => t \in killed'
        /\ kind'[t] = "review" /\ t \in killed' => t \in exiting' \cup exited'
    BY <1>1, <2>1, AbortShaped
  <2> QED
    BY <1>1, <2>1, <2>2 DEF Shaped, Reviewing, Reviewed
<1> QED
  BY <1>2, <1>3

\* A step of the task t, that leaves the other tasks where they are.
LEMMA TaskShaped ==
  ASSUME TypeOK, ReviewShape, AbortEffect, UNCHANGED kind, NEW t \in Tasks,
         \A u \in Tasks \ {t} : pc'[u] = pc[u] /\ auto'[u] = auto[u],
         kind[t] = "review" => /\ pc'[t] \in Reviewing \cup Reviewed
                               /\ pc'[t] \in Reviewed => t \in exited'
                               /\ auto'[t] # "due",
         pc'[t] # "none", pc'[t] = "dead" => t \in killed
  PROVE  ReviewShape'
<1> SUFFICES ASSUME NEW u \in Tasks PROVE Shaped(u)'
  BY DEF ReviewShape, Shaped
<1>1. Shaped(u)
  BY DEF ReviewShape, Shaped
<1>2. /\ u \in exited => u \in exited'
      /\ u \in killed => u \in killed'
      /\ kind'[u] = "review" /\ u \in killed' => u \in exiting' \cup exited'
  BY <1>1, AbortShaped
<1>3. CASE u = t
  BY <1>2, <1>3 DEF Shaped
<1>4. CASE u # t
  BY <1>1, <1>2, <1>4 DEF Shaped
<1> QED
  BY <1>3, <1>4

\* The steps of run_agent, a compaction of it included.
LEMMA TaskReview ==
  ASSUME SlotInv, HoldersLive, ReviewShape, AbortEffect, NEW t \in Tasks, TaskStep(t) \/ Die(t)
  PROVE  ReviewShape'
<1> USE DEF SlotInv
<1>1. Shaped(t) /\ pc \in [Tasks -> Labels] /\ auto \in [Tasks -> {"may", "due", "ran"}]
  BY DEF ReviewShape, Shaped, TypeOK, TaskOK
<1>2. CASE \/ Begin(t) \/ Drain(t) \/ Answered(t) \/ CalledTools(t) \/ Ask(t) \/ Register(t)
           \/ Resume(t) \/ ReviewExit(t) \/ Remove(t) \/ StartQueued(t) \/ Die(t)
  <2>1. PICK label \in Labels : Goto(t, label)
    BY <1>2 DEF Begin, Drain, Answered, CalledTools, Ask, Register, Resume, ReviewExit, Remove,
       StartQueued, Die, Labels, Interruptible
  <2>2. pc'[t] = label /\ \A u \in Tasks \ {t} : pc'[u] = pc[u]
    BY <1>1, <2>1 DEF Goto
  <2>3. UNCHANGED kind /\ \A u \in Tasks \ {t} : auto'[u] = auto[u]
    BY <1>1, <1>2 DEF Begin, Drain, Answered, CalledTools, Ask, Register, Resume, ReviewExit,
                      Remove,
       StartQueued, Die, UnchangedBody
  <2>4. label # "none" /\ (label = "dead" => t \in killed)
    BY <1>2, <2>2, <1>1 DEF Begin, Drain, Answered, CalledTools, Ask, Register, Resume, ReviewExit,
       Remove, StartQueued, Die, Goto
  <2>5. kind[t] = "review" => auto'[t] # "due"
    BY <1>1, <1>2 DEF Begin, Drain, Answered, CalledTools, Compactable, Ask, Register, Resume,
       ReviewExit, Remove, StartQueued, Die, UnchangedBody, Shaped
  <2>6. kind[t] = "review" => /\ label \in Reviewing \cup Reviewed
                              /\ label \in Reviewed => t \in exited'
    BY <1>1, <1>2, <2>2 DEF Begin, Drain, Answered, CalledTools, Ask, Register, Resume, ReviewExit,
       Remove, StartQueued, Die, Goto, At, Requesting, UnchangedBody, asyncVars, seenVars, Shaped,
       Reviewing, Reviewed
  <2> QED
    BY <2>2, <2>3, <2>4, <2>5, <2>6, TaskShaped
<1>3. CASE StartCompact(t)
  <2>1. /\ pc[t] = "complete" /\ UNCHANGED <<auto, exited, killed, exiting>>
    BY <1>3 DEF StartCompact, At, asyncVars, seenVars
  <2>2. \A u \in Tasks \ {t} : pc'[u] = pc[u] \/ pc'[u] = "new"
    BY <1>1, <1>3 DEF StartCompact, Goto, TypeOK, StateOK
  <2>3. pc'[t] \in {"handoff", "done", "new"}
    BY <1>1, <1>3 DEF StartCompact, Goto
  <2>4. PICK N \in SUBSET Tasks : SlotEffect(N)
    BY <1>3, TaskEffect DEF TaskStep, TurnStep
  <2>5. t \notin N
    BY <2>1, <2>4 DEF SlotEffect
  <2>6. ASSUME NEW u \in Tasks PROVE Shaped(u)'
    <3>1. Shaped(u)
      BY DEF ReviewShape, Shaped
    <3>2. CASE u \in N
      <4>1. pc[u] = "none" /\ u \notin killed /\ pc'[u] = "new"
        BY <2>2, <2>4, <2>5, <3>2 DEF SlotEffect, HoldersLive
      <4> QED
        BY <2>1, <3>1, <4>1 DEF Shaped, Reviewing, Reviewed
    <3>3. CASE u \notin N
      <4>1. kind'[u] = kind[u] /\ (pc'[u] = "none" <=> pc[u] = "none")
        BY <2>4, <3>3 DEF SlotEffect
      <4> QED
        BY <2>1, <2>2, <2>3, <3>1, <4>1 DEF Shaped, Reviewing, Reviewed
    <3> QED
      BY <3>2, <3>3
  <2> QED
    BY <2>6 DEF ReviewShape, Shaped
<1>4. CASE CompactionStep(t)
  <2>1. PICK label \in Labels : Goto(t, label)
    BY <1>4 DEF CompactionStep, CompactTask, CompactInline, CompactFirst, BeginCompaction,
       LocalAnswer, Snapshot, Replace, RemoteAnswer, RemoteClear, Rebuild, CompactionFails,
       Emergency,
       CompactReport, AfterReplace, TypeOK, TaskOK, Labels, Interruptible
  <2>2. pc'[t] = label /\ \A u \in Tasks \ {t} : pc'[u] = pc[u]
    BY <1>1, <2>1 DEF Goto
  <2>3. UNCHANGED kind /\ \A u \in Tasks \ {t} : auto'[u] = auto[u]
    BY <1>1, <1>4 DEF CompactionStep, CompactTask, CompactInline, CompactFirst, BeginCompaction,
       LocalAnswer, Snapshot, Replace, RemoteAnswer, RemoteClear, Rebuild, CompactionFails,
       Emergency,
       CompactReport, UnchangedBody
  <2>4. kind[t] # "review"
    BY <1>1, <1>4 DEF CompactionStep, CompactTask, CompactInline, CompactFirst, Compactable,
       LocalAnswer, Snapshot, Replace, RemoteAnswer, RemoteClear, Rebuild, CompactionFails,
       Emergency,
       CompactReport, At, Shaped, Reviewing, Reviewed
  <2>5. label \notin {"none", "dead"}
    BY <1>1, <1>4, <2>2 DEF CompactionStep, CompactTask, CompactInline, CompactFirst,
       BeginCompaction, LocalAnswer, Snapshot, Replace, RemoteAnswer, RemoteClear, Rebuild,
       CompactionFails, Emergency, CompactReport, AfterReplace, Goto, TypeOK, TaskOK
  <2> QED
    BY <2>2, <2>3, <2>4, <2>5, TaskShaped
<1> QED
  BY <1>2, <1>3, <1>4 DEF TaskStep, TurnStep

LEMMA StepReview ==
  ASSUME SlotInv, HoldersLive, ReviewShape, [Next]_vars
  PROVE  ReviewShape'
<1> USE DEF SlotInv
<1>1. AbortEffect
  BY StepAborts
<1>2. CASE \E t \in Tasks : TaskStep(t) \/ Die(t)
  BY <1>1, <1>2, TaskReview
<1>3. CASE \E t \in Tasks : SetTask(t)
  <2>1. UNCHANGED <<pc, kind, auto>>
    BY <1>3 DEF SetTask
  <2>2. ASSUME NEW t \in Tasks PROVE Shaped(t)'
    <3>1. Shaped(t)
      BY DEF ReviewShape, Shaped
    <3> QED
      BY <1>1, <2>1, <3>1, AbortShaped DEF Shaped
  <2> QED
    BY <2>2 DEF ReviewShape, Shaped
<1>4. CASE \/ ClientStep \/ WakeStep \/ UNCHANGED vars
           \/ QueuePush \/ CompactPush \/ \E s \in Sessions : BridgeStart(s)
           \/ \E i \in Submissions, s \in Sessions : AbortLater(i, s) \/ RunQueued(i, s)
           \/ \E t \in Tasks : ExitAborted(t) \/ ReportAborted(t)
  <2>1. UNCHANGED auto
    BY <1>4 DEF ClientStep, UserInput, EmptyUserInput, Review, Restart, QueueUserInput, Compact,
       Interrupt, Shutdown, ConfigureSession, Approve, ApproveAbort, WakeStep,
       AddPendingInputDeveloper, AgentWake, BridgeRecord, Enqueue, QueuePush, CompactPush,
       BridgeStart, AbortLater, RunQueued, ExitAborted, ReportAborted, taskVars, vars
  <2>2. UNCHANGED pc \/ \E t, k, s : Spawn(t, k, s)
    BY <1>4 DEF ClientStep, UserInput, EmptyUserInput, Review, Restart, QueueUserInput, Compact,
       Interrupt, Shutdown, ConfigureSession, Approve, ApproveAbort, WakeStep,
       AddPendingInputDeveloper, AgentWake, BridgeRecord, Enqueue, QueuePush, CompactPush,
       BridgeStart, AbortLater, RunQueued, ExitAborted, ReportAborted, taskVars, vars
  <2>3. \A u \in Tasks : pc'[u] = pc[u] \/ pc'[u] = "new"
    BY <2>2 DEF Spawn, TypeOK, TaskOK
  <2>4. \E N \in SUBSET Tasks : SlotEffect(N)
    BY <1>4, ClientEffect, WakeEffect, AsyncEffect
  <2> QED
    BY <1>1, <2>1, <2>3, <2>4, OutsideShaped
<1> QED
  BY <1>2, <1>3, <1>4 DEF Next, AsyncStep

LEMMA StepAbort == AbortInv /\ [Next]_vars => AbortInv'
  BY StepSlot, StepHolders, StepReport, StepReview DEF AbortInv, SlotInv

LEMMA AbortInvHolds == Spec => []AbortInv
  BY InitAbort, StepAbort, PTL DEF Spec

\* The client is told once of each task that was stopped: by a detached task
\* that is still to run, or that has run, never by two.
THEOREM AbortsAreReported == Spec => []OneReport
<1>1. AbortInv => OneReport
  BY DEF AbortInv
<1> QED
  BY <1>1, AbortInvHolds, PTL

\* No review is over, by its answer or an abort, with the client in review
\* mode for good: ReviewExits adds that the exit it owes is scheduled.
THEOREM ReviewsAreLeft == Spec => []ReviewIsLeft
<1>1. AbortInv => ReviewIsLeft
  BY DEF AbortInv, ReviewShape, ReviewIsLeft, Finished, Reviewed
<1> QED
  BY <1>1, AbortInvHolds, PTL

\* An interrupt does not miss the task it was sent for: nothing takes it out
\* of the slot alive but itself.  InterruptStops adds that it then ends.
THEOREM InterruptsHold == Spec => [][InterruptHolds]_vars
<1>1. AbortInv /\ AbortInv' /\ Inv' /\ Next => InterruptHolds
  <2> SUFFICES ASSUME AbortInv, AbortInv', Inv', Next,
                      NEW i \in Submissions, NEW s \in Sessions, NEW t \in Tasks,
                      <<i, s>> \in interrupts, current[s] = t,
                      t \notin killed', ~Finished(t)', ~Leaving(t)'
               PROVE  <<i, s>> \in interrupts' /\ current'[s] = t
    BY DEF InterruptHolds
  <2>1. /\ home[t] = s /\ pc[t] # "none" /\ t \notin installing
        /\ current \in [Sessions -> Tasks \cup {None}]
    BY Domains DEF AbortInv, AtHome, SlotInv, SlotShape, TypeOK, StateOK
  <2>2. home'[t] = s /\ pc'[t] # "none" /\ t \notin installing'
    <3>1. ASSUME NEW u \in Tasks, SetTask(u)
          PROVE  home'[t] = s /\ pc'[t] # "none" /\ t \notin installing'
      BY <2>1, <3>1 DEF SetTask
    <3>2. ASSUME NEW N \in SUBSET Tasks, SlotEffect(N)
          PROVE  home'[t] = s /\ pc'[t] # "none" /\ t \notin installing'
      BY <2>1, <3>2 DEF SlotEffect
    <3> QED
      BY <3>1, <3>2, SlotOrInstall DEF AbortInv
  <2>3. current'[s] = t
    BY <2>2 DEF Inv, NoOrphan, Live
  <2>4. ASSUME AbortLater(i, s) PROVE FALSE
    BY <2>1, <2>3, <2>4, Domains DEF Abort, AbortLater
  <2>5. <<i, s>> \in interrupts'
    <3> USE DEF UnchangedBody, asyncVars
    <3>1. CASE ClientStep
      <4>1. ASSUME NEW j \in Submissions, Interrupt(j) \/ Shutdown(j)
            PROVE  <<i, s>> \in interrupts'
        BY <4>1 DEF Interrupt, Shutdown
      <4>2. ASSUME NEW j \in Submissions,
                   \/ UserInput(j) \/ EmptyUserInput(j) \/ Review(j)
                   \/ QueueUserInput(j) \/ Compact(j)
            PROVE  <<i, s>> \in interrupts'
        BY <4>2 DEF UserInput, EmptyUserInput, Review, Restart, QueueUserInput, Compact
      <4>3. ASSUME NEW u \in Tasks, Approve(u) \/ ApproveAbort(u)
            PROVE  <<i, s>> \in interrupts'
        BY <4>3 DEF Approve, ApproveAbort
      <4>4. CASE ConfigureSession
        BY <4>4 DEF ConfigureSession
      <4> QED
        BY <3>1, <4>1, <4>2, <4>3, <4>4 DEF ClientStep
    <3>2. CASE WakeStep
      BY <3>2 DEF WakeStep, AddPendingInputDeveloper, AgentWake, BridgeRecord
    <3>3. CASE AsyncStep
      <4>1. ASSUME NEW j \in Submissions, NEW r \in Sessions, AbortLater(j, r) \/ RunQueued(j, r)
            PROVE  <<i, s>> \in interrupts'
        BY <2>4, <4>1 DEF AbortLater, RunQueued
      <4>2. ASSUME NEW u \in Tasks, SetTask(u) \/ Die(u) \/ ExitAborted(u) \/ ReportAborted(u)
            PROVE  <<i, s>> \in interrupts'
        BY <4>2 DEF SetTask, Die, ExitAborted, ReportAborted
      <4>3. ASSUME QueuePush \/ CompactPush \/ (\E r \in Sessions : BridgeStart(r))
            PROVE  <<i, s>> \in interrupts'
        BY <4>3 DEF QueuePush, CompactPush, BridgeStart
      <4> QED
        BY <3>3, <4>1, <4>2, <4>3 DEF AsyncStep
    <3>4. ASSUME NEW u \in Tasks, TaskStep(u) PROVE <<i, s>> \in interrupts'
      <4>1. CASE TurnStep(u)
        BY <4>1
        DEF TurnStep, Begin, Drain, Answered, CalledTools, Ask, Register, Resume, ReviewExit,
            Remove, StartCompact, StartQueued
      <4>2. CASE CompactionStep(u)
        BY <4>2
        DEF CompactionStep, CompactTask, CompactInline, CompactFirst, BeginCompaction,
            LocalAnswer, Snapshot, Replace, RemoteAnswer, RemoteClear, Rebuild,
            CompactionFails, Emergency, CompactReport
      <4> QED
        BY <3>4, <4>1, <4>2 DEF TaskStep
    <3> QED
      BY <3>1, <3>2, <3>3, <3>4 DEF Next
  <2> QED
    BY <2>3, <2>5
<1>2. AbortInv /\ AbortInv' /\ Inv' /\ [Next]_vars => [InterruptHolds]_vars
  BY <1>1
<1>3. Inv /\ [Next]_vars => Inv'
  BY StepInv
<1> QED
  BY <1>2, <1>3, InitInv, AbortInvHolds, PTL DEF Spec

-----------------------------------------------------------------------------
(* A turn does not go round for ever.                                      *)

\* How often an iteration of run_agent may still be sent into a compaction.
Room(state) == CASE state = "due" -> 2 [] state = "may" -> 1 [] OTHER -> 0

\* The labels in the order a task goes through them.  A compaction that was due
\* before a request comes after the label of that request.
LabelRank(t) ==
  CASE pc[t] = "new" -> 1
    [] pc[t] = "compacting" -> IF auto[t] = "due" THEN 12 ELSE 2
    [] pc[t] = "cleared" -> IF auto[t] = "due" THEN 13 ELSE 3
    [] pc[t] = "snapped" -> IF auto[t] = "due" THEN 14 ELSE 4
    [] pc[t] = "replaced" -> 5
    [] pc[t] = "first" -> 6
    [] pc[t] = "loop" -> 7
    [] pc[t] = "asking" -> 8
    [] pc[t] = "waiting" -> 9
    [] pc[t] = "turn" -> 10
    [] pc[t] = "rebuilding" -> 15
    [] pc[t] = "exit" -> 16
    [] pc[t] = "remove" -> 17
    [] pc[t] = "complete" -> 18
    [] pc[t] = "handoff" -> 19
    [] pc[t] = "reporting" -> 20
    [] OTHER -> 21

\* The client has seen the one approval prompt of this task.
Prompted(t) == asked[t] # "no"

\* A live task ends, or uses up the tool calls of the session, its one prompt, a
\* compaction or a label, and gets back only what comes after that.
TurnUsesUp(t) ==
  \/ Finished(t)'
  \/ extra < extra' /\ extra' <= MaxExtraTurns
  \/ /\ extra' = extra
     /\ \/ ~Prompted(t) /\ Prompted(t)'
        \/ /\ Prompted(t)' = Prompted(t)
           /\ \/ Room(auto'[t]) < Room(auto[t])
              \/ auto'[t] = auto[t] /\ LabelRank(t) < LabelRank(t)'

\* Nothing of this changes.
TurnWaits(t) == pc'[t] = pc[t] /\ auto'[t] = auto[t] /\ Prompted(t)' = Prompted(t)

TurnsUseUp == \A t \in Tasks : Live(t) => TurnUsesUp(t) \/ TurnWaits(t)

\* Where a compaction that is due leads: back to the request, by way of the
\* labels that settle it.
Due(t) ==
  /\ pc[t] \in {"none", "new"} => auto[t] # "due"
  /\ pc[t] \in {"compacting", "cleared", "snapped"} => (auto[t] = "due" <=> back[t] = "turn")
  /\ pc[t] = "rebuilding" => auto[t] = "due"

DueShape == \A t \in Tasks : Due(t)

LEMMA GotoOnly ==
  ASSUME TypeOK, NEW t \in Tasks, NEW label, Goto(t, label)
  PROVE  pc'[t] = label /\ \A u \in Tasks \ {t} : pc'[u] = pc[u]
  BY DEF Goto, TypeOK, TaskOK

\* A task's own step uses something up, and keeps a compaction on its way.
LEMMA TurnStepUses ==
  ASSUME TypeOK, NEW t \in Tasks, Due(t), TurnStep(t) \/ Die(t), pc'[t] # "new"
  PROVE  TurnUsesUp(t) /\ Due(t)'
<1>0. /\ pc \in [Tasks -> Labels] /\ auto \in [Tasks -> {"may", "due", "ran"}]
      /\ extra \in Nat /\ MaxExtraTurns \in Nat /\ asked \in [Tasks -> {"no", "shown", "answered"}]
  BY BoundsAssumption DEF TypeOK, TaskOK, SeenOK
<1>1. CASE CalledTools(t)
  <2>1. extra < extra' /\ extra' <= MaxExtraTurns
    BY <1>0, <1>1 DEF CalledTools
  <2>2. pc'[t] = "loop"
    BY <1>1, GotoOnly DEF CalledTools
  <2> QED
    BY <2>1, <2>2 DEF TurnUsesUp, Due
<1>2. CASE Ask(t)
  <2>1. extra' = extra /\ asked[t] = "no" /\ asked'[t] = "shown"
    BY <1>0, <1>2 DEF Ask, UnchangedBody
  <2>2. pc'[t] = "asking"
    BY <1>2, GotoOnly DEF Ask
  <2> QED
    BY <2>1, <2>2 DEF TurnUsesUp, Prompted, Due
<1>3. CASE Die(t)
  BY <1>3, GotoOnly DEF Die, TurnUsesUp, Finished, Due
<1>4. CASE StartCompact(t) \/ StartQueued(t)
  <2>1. pc[t] \in {"complete", "handoff"} /\ pc'[t] \in {"handoff", "done"} \cup {"new"}
    BY <1>0, <1>4 DEF StartCompact, StartQueued, At, Goto
  <2>2. (pc[t] = "complete" /\ pc'[t] = "handoff") \/ Finished(t)'
    BY <1>0, <1>4, <2>1 DEF StartCompact, StartQueued, At, Goto, Finished
  <2>3. UNCHANGED <<auto, asked, extra>>
    BY <1>4 DEF StartCompact, StartQueued, seenVars
  <2> QED
    BY <2>1, <2>2, <2>3 DEF TurnUsesUp, Prompted, LabelRank, Due, Finished
<1>5. CASE \/ Begin(t) \/ Drain(t) \/ Answered(t) \/ Register(t) \/ Resume(t)
           \/ ReviewExit(t) \/ Remove(t)
  <2>1. UNCHANGED <<auto, extra>> /\ asked' = asked
    BY <1>5 DEF Begin, Drain, Answered, Register, Resume, ReviewExit, Remove, UnchangedBody,
           seenVars
  <2>2. \/ pc[t] = "new" /\ pc'[t] \in {"done", "first"}
        \/ pc[t] \in {"first", "loop"} /\ pc'[t] \in {"remove", "turn"}
        \/ pc[t] = "turn" /\ pc'[t] \in {"exit", "remove"}
        \/ pc[t] = "asking" /\ pc'[t] = "waiting"
        \/ pc[t] = "waiting" /\ pc'[t] = "turn"
        \/ pc[t] = "exit" /\ pc'[t] = "remove"
        \/ pc[t] = "remove" /\ pc'[t] = "complete"
    BY <1>5, GotoOnly DEF Begin, Drain, Answered, Register, Resume, ReviewExit, Remove, At,
           Requesting
  <2>3. Finished(t)' \/ LabelRank(t) < LabelRank(t)'
    BY <2>2 DEF Finished, LabelRank
  <2> QED
    BY <2>1, <2>2, <2>3 DEF TurnUsesUp, Prompted, Due
<1> QED
  BY <1>1, <1>2, <1>3, <1>4, <1>5 DEF TurnStep

LEMMA CompactionUses ==
  ASSUME TypeOK, CompactShape, NEW t \in Tasks, Due(t), CompactionStep(t)
  PROVE  TurnUsesUp(t) /\ Due(t)'
<1>1. /\ pc \in [Tasks -> Labels] /\ auto \in [Tasks -> {"may", "due", "ran"}]
      /\ back \in [Tasks -> {"loop", "turn", "reporting"}]
  BY DEF TypeOK, TaskOK
<1>2. extra' = extra /\ Prompted(t)' = Prompted(t)
  BY DEF CompactionStep, CompactTask, CompactInline, CompactFirst, BeginCompaction, LocalAnswer,
     Snapshot, Replace, RemoteAnswer, RemoteClear, Rebuild, CompactionFails, Emergency,
     CompactReport, UnchangedBody, seenVars, Prompted
<1>3. CASE CompactTask(t) \/ CompactInline(t) \/ CompactFirst(t)
  <2>1. pc'[t] = "compacting" /\ back'[t] \in {"loop", "turn", "reporting"}
    BY <1>1, <1>3, GotoOnly DEF CompactTask, CompactInline, CompactFirst, BeginCompaction
  <2>2. \/ pc[t] = "new" /\ back'[t] = "reporting" /\ auto'[t] = auto[t] /\ auto[t] # "due"
        \/ pc[t] = "turn" /\ back'[t] = "loop" /\ auto[t] = "may" /\ auto'[t] = "ran"
        \/ pc[t] = "turn" /\ back'[t] = "turn" /\ auto[t] = "due" /\ auto'[t] = "due"
    BY <1>1, <1>3 DEF CompactTask, CompactInline, CompactFirst, BeginCompaction, Requesting, At, Due
  <2> QED
    BY <1>2, <2>1, <2>2 DEF TurnUsesUp, Room, LabelRank, Due
<1>4. CASE LocalAnswer(t) \/ Snapshot(t)
  <2>1. UNCHANGED <<auto, back>>
    BY <1>4 DEF LocalAnswer, Snapshot
  <2>2. \/ pc[t] = "compacting" /\ pc'[t] = "cleared"
        \/ pc[t] = "cleared" /\ pc'[t] = "snapped"
    BY <1>4, GotoOnly DEF LocalAnswer, Snapshot, At
  <2> QED
    BY <1>2, <2>1, <2>2 DEF TurnUsesUp, LabelRank, Due
<1>5. CASE Replace(t) \/ RemoteAnswer(t) \/ Emergency(t)
  <2>1. UNCHANGED <<auto, back>>
    BY <1>5 DEF Replace, RemoteAnswer, Emergency
  <2>2. /\ pc[t] \in {"compacting", "snapped"}
        /\ \/ pc'[t] = AfterReplace(t)
           \/ pc'[t] = "replaced" /\ pc[t] = "compacting" /\ kind[t] = "compact"
    BY <1>5, GotoOnly DEF Replace, RemoteAnswer, Emergency, At
  <2>3. AfterReplace(t) # "replaced"
    BY <1>1 DEF AfterReplace
  <2>4. pc'[t] = "replaced" => auto[t] # "due"
    BY <2>2, <2>3 DEF CompactShape, Due
  <2> QED
    BY <1>1, <1>2, <2>1, <2>2, <2>4 DEF TurnUsesUp, LabelRank, Due, AfterReplace
<1>6. CASE RemoteClear(t) \/ CompactReport(t)
  <2>1. UNCHANGED <<auto, back>>
    BY <1>6 DEF RemoteClear, CompactReport
  <2>2. \/ pc[t] = "replaced" /\ pc'[t] = "reporting"
        \/ pc'[t] = "done"
    BY <1>6, GotoOnly DEF RemoteClear, CompactReport, At
  <2> QED
    BY <1>2, <2>1, <2>2 DEF TurnUsesUp, LabelRank, Due, Finished
<1>7. CASE Rebuild(t)
  <2>1. pc[t] = "rebuilding" /\ pc'[t] = "turn" /\ auto'[t] = "ran"
    BY <1>1, <1>7, GotoOnly DEF Rebuild, At
  <2> QED
    BY <1>2, <2>1 DEF TurnUsesUp, Room, Due
<1>8. CASE CompactionFails(t)
  <2>1. pc[t] = "compacting" /\ pc'[t] = back[t]
    BY <1>8, GotoOnly DEF CompactionFails, At
  <2>2. auto'[t] = IF auto[t] = "due" THEN "may" ELSE auto[t]
    BY <1>1, <1>8 DEF CompactionFails
  <2> QED
    BY <1>1, <1>2, <2>1, <2>2 DEF TurnUsesUp, Room, LabelRank, Due
<1> QED
  BY <1>3, <1>4, <1>5, <1>6, <1>7, <1>8 DEF CompactionStep

\* A step of somebody else spawns the task or leaves it where it is.
Passes(u) ==
  /\ auto'[u] = auto[u] /\ back'[u] = back[u] /\ Prompted(u)' = Prompted(u)
  /\ pc'[u] = pc[u] \/ (pc[u] = "none" /\ pc'[u] = "new")

LEMMA PassesWaits ==
  ASSUME NEW u \in Tasks, Passes(u), Due(u)
  PROVE  Due(u)' /\ (Live(u) => TurnWaits(u))
  BY DEF Passes, Due, Live, TurnWaits

\* Only a task that was not there is spawned.
LEMMA PlacePasses ==
  ASSUME NEW N \in SUBSET Tasks, SlotEffect(N), NEW u \in Tasks,
         pc'[u] = pc[u] \/ pc'[u] = "new"
  PROVE  pc'[u] = pc[u] \/ (pc[u] = "none" /\ pc'[u] = "new")
  BY DEF SlotEffect

\* What a task does to the others.
LEMMA OthersPass ==
  ASSUME SlotInv, NEW t \in Tasks, TaskStep(t) \/ Die(t), NEW u \in Tasks, u # t
  PROVE  Passes(u)
<1> USE DEF SlotInv
<1>1. /\ pc \in [Tasks -> Labels] /\ auto \in [Tasks -> {"may", "due", "ran"}]
      /\ back \in [Tasks -> {"loop", "turn", "reporting"}]
      /\ asked \in [Tasks -> {"no", "shown", "answered"}]
  BY DEF TypeOK, TaskOK, SeenOK
<1>2. PICK N \in SUBSET Tasks : SlotEffect(N)
  BY TaskEffect
<1>3. CASE TurnStep(t) \/ Die(t)
  <2>1. auto'[u] = auto[u] /\ back'[u] = back[u] /\ asked'[u] = asked[u]
    BY <1>1, <1>3 DEF TurnStep, Begin, Drain, Answered, CalledTools, Ask, Register, Resume,
       ReviewExit, Remove, StartCompact, StartQueued, Die, seenVars
  <2>2. CASE StartCompact(t)
    <3>1. pc'[u] = pc[u] \/ pc'[u] = "new"
      BY <1>1, <2>2 DEF StartCompact, Goto
    <3> QED
      BY <1>2, <2>1, <3>1, PlacePasses DEF Passes, Prompted
  <2>3. CASE ~StartCompact(t)
    <3>1. \E label : Goto(t, label)
      BY <1>3, <2>3 DEF TurnStep, Begin, Drain, Answered, CalledTools, Ask, Register, Resume,
         ReviewExit, Remove, StartQueued, Die
    <3> QED
      BY <2>1, <3>1, GotoOnly DEF Passes, Prompted
  <2> QED
    BY <2>2, <2>3
<1>4. CASE CompactionStep(t)
  <2>1. auto'[u] = auto[u] /\ back'[u] = back[u] /\ asked'[u] = asked[u]
    BY <1>1, <1>4 DEF CompactionStep, CompactTask, CompactInline, CompactFirst, BeginCompaction,
       LocalAnswer, Snapshot, Replace, RemoteAnswer, RemoteClear, Rebuild, CompactionFails,
       Emergency, CompactReport, seenVars
  <2>2. \E label : Goto(t, label)
    BY <1>4 DEF CompactionStep, CompactTask, CompactInline, CompactFirst, BeginCompaction,
       LocalAnswer, Snapshot, Replace, RemoteAnswer, RemoteClear, Rebuild, CompactionFails,
       Emergency, CompactReport
  <2> QED
    BY <2>1, <2>2, GotoOnly DEF Passes, Prompted
<1> QED
  BY <1>3, <1>4 DEF TaskStep

\* The steps that are no task's.
OutsideStep ==
  \/ ClientStep \/ WakeStep \/ UNCHANGED vars
  \/ QueuePush \/ CompactPush \/ \E s \in Sessions : BridgeStart(s)
  \/ \E i \in Submissions, s \in Sessions : AbortLater(i, s) \/ RunQueued(i, s)
  \/ \E t \in Tasks : SetTask(t) \/ ExitAborted(t) \/ ReportAborted(t)

LEMMA OutsidePasses == ASSUME SlotInv, OutsideStep, NEW u \in Tasks PROVE Passes(u)
<1> USE DEF SlotInv
<1>1. pc \in [Tasks -> Labels] /\ asked \in [Tasks -> {"no", "shown", "answered"}]
  BY DEF TypeOK, TaskOK, SeenOK
<1>2. UNCHANGED <<auto, back>>
  BY DEF OutsideStep, ClientStep, UserInput, EmptyUserInput, Review, Restart, QueueUserInput,
     Compact, Interrupt, Shutdown, ConfigureSession, Approve, ApproveAbort, WakeStep,
     AddPendingInputDeveloper, AgentWake, BridgeRecord, Enqueue, QueuePush, CompactPush,
     BridgeStart, AbortLater, RunQueued, SetTask, ExitAborted, ReportAborted, taskVars, vars
<1>3. UNCHANGED asked \/ \E t \in Tasks : Approve(t) \/ ApproveAbort(t)
  BY DEF OutsideStep, ClientStep, UserInput, EmptyUserInput, Review, Restart, QueueUserInput,
     Compact, Interrupt, Shutdown, ConfigureSession, WakeStep, AddPendingInputDeveloper,
     AgentWake, BridgeRecord, QueuePush, CompactPush, BridgeStart, AbortLater, RunQueued,
     SetTask, ExitAborted, ReportAborted, seenVars, vars
<1>4. Prompted(u)' = Prompted(u)
  <2>1. ASSUME NEW t \in Tasks, Approve(t) \/ ApproveAbort(t) PROVE Prompted(u)' = Prompted(u)
    BY <1>1, <2>1 DEF Approve, ApproveAbort, Prompted
  <2> QED
    BY <1>3, <2>1 DEF Prompted
<1>5. UNCHANGED pc \/ \E t, k, s : Spawn(t, k, s)
  BY DEF OutsideStep, ClientStep, UserInput, EmptyUserInput, Review, Restart, QueueUserInput,
     Compact, Interrupt, Shutdown, ConfigureSession, Approve, ApproveAbort, WakeStep,
     AddPendingInputDeveloper, AgentWake, BridgeRecord, Enqueue, QueuePush, CompactPush,
     BridgeStart, AbortLater, RunQueued, SetTask, ExitAborted, ReportAborted, taskVars, vars
<1>6. pc'[u] = pc[u] \/ pc'[u] = "new"
  BY <1>1, <1>5 DEF Spawn
<1>7. CASE \E t \in Tasks : SetTask(t)
  BY <1>2, <1>4, <1>7 DEF SetTask, Passes
<1>8. CASE ~ \E t \in Tasks : SetTask(t)
  <2>1. PICK N \in SUBSET Tasks : SlotEffect(N)
    BY <1>8, ClientEffect, WakeEffect, AsyncEffect DEF OutsideStep
  <2> QED
    BY <1>2, <1>4, <1>6, <2>1, PlacePasses DEF Passes
<1> QED
  BY <1>7, <1>8

LEMMA StepTurns ==
  ASSUME SlotInv, CompactShape, DueShape, [Next]_vars
  PROVE  DueShape' /\ TurnsUseUp
<1>1. ASSUME NEW u \in Tasks PROVE Due(u)' /\ (Live(u) => TurnUsesUp(u) \/ TurnWaits(u))
  <2>1. Due(u)
    BY DEF DueShape
  <2>2. CASE OutsideStep
    BY <2>1, <2>2, OutsidePasses, PassesWaits
  <2>3. ASSUME NEW t \in Tasks, TaskStep(t) \/ Die(t), t # u
        PROVE  Due(u)' /\ (Live(u) => TurnUsesUp(u) \/ TurnWaits(u))
    BY <2>1, <2>3, OthersPass, PassesWaits
  <2>4. CASE TurnStep(u) \/ Die(u)
    <3>1. pc'[u] # "new"
      <4>1. PICK N \in SUBSET Tasks : SlotEffect(N)
        BY <2>4, TaskEffect DEF TaskStep
      <4>2. CASE pc[u] = "new"
        BY <2>4, <4>2, GotoOnly
        DEF SlotInv, TurnStep, Begin, Drain, Answered, CalledTools, Ask, Register, Resume,
            ReviewExit, Remove, StartCompact, StartQueued, Die, At, Requesting
      <4>3. CASE pc[u] # "new"
        <5>1. pc[u] # "none"
          BY <2>4
          DEF TurnStep, Begin, Drain, Answered, CalledTools, Ask, Register, Resume,
            ReviewExit, Remove, StartCompact, StartQueued, Die, At, Requesting, Interruptible
        <5> QED
          BY <4>1, <4>3, <5>1 DEF SlotEffect
      <4> QED
        BY <4>2, <4>3
    <3> QED
      BY <2>1, <2>4, <3>1, TurnStepUses DEF SlotInv
  <2>5. CASE CompactionStep(u)
    BY <2>1, <2>5, CompactionUses DEF SlotInv
  <2> QED
    BY <2>2, <2>3, <2>4, <2>5 DEF Next, AsyncStep, TaskStep, OutsideStep
<1> QED
  BY <1>1 DEF DueShape, TurnsUseUp

\* No turn goes round the loop of run_agent for ever, whatever is compacted,
\* asked or queued meanwhile: what a task uses up has no infinite descent, since
\* a compaction allows no other until the model calls a tool.  TurnEnds adds that
\* its next step is scheduled.
THEOREM TurnsAreUsedUp == Spec => [][TurnsUseUp]_vars
<1>1. Init => SlotInv /\ DueShape
  <2>1. Init => DueShape
    BY DEF Init, DueShape, Due
  <2> QED
    BY <2>1, InitSlot
<1>2. SlotInv /\ Inv /\ DueShape /\ [Next]_vars => DueShape' /\ [TurnsUseUp]_vars
  BY StepTurns DEF Inv
<1> QED
  BY <1>1, <1>2, InitInv, StepInv, StepSlot, PTL DEF Spec

-----------------------------------------------------------------------------
(* Wake-ups are told once, and only a compaction forgets one.              *)

\* w waits to be told, or was told to a task.
Placed(w) ==
  \/ \E s \in Sessions : w \in Items(pending[s])
  \/ \E t \in Tasks : w \in given[t]

\* No wake-up waits twice, is told to two tasks, or waits although it was told.
WakeOnce ==
  \A w \in Wakes :
    /\ w >= nextWake => ~Placed(w)
    /\ \A s, r \in Sessions : w \in Items(pending[s]) /\ w \in Items(pending[r]) => s = r
    /\ \A t, u \in Tasks : w \in given[t] /\ w \in given[u] => t = u
    /\ \A s \in Sessions, t \in Tasks : ~(w \in Items(pending[s]) /\ w \in given[t])
    /\ \A s \in Sessions : \A i, j \in DOMAIN pending[s] :
         pending[s][i] = w /\ pending[s][j] = w => i = j

\* Nothing has happened yet in the sessions the loop has not turned to.
Opened ==
  /\ \A t \in Tasks : home[t] <= sess
  /\ \A s \in Sessions : s > sess => history[s] = {} /\ bridge[s].at = "idle"
  /\ \A p \in starting : p[2] <= sess

ToldInv == TypeOK /\ WakeOnce /\ Opened

LEMMA InitWake == Init => ToldInv
<1> SUFFICES ASSUME Init PROVE ToldInv
  OBVIOUS
<1>1. TypeOK
  BY InitType
<1>2. WakeOnce
  BY ItemsEmpty DEF Init, WakeOnce, Placed
<1>3. Opened
  BY BoundsAssumption DEF Init, Opened, Sessions
<1> QED
  BY <1>1, <1>2, <1>3 DEF ToldInv

\* The ways a step changes the messages that wait and that were told.
Silent == UNCHANGED <<nextWake, pending, given>>

Says(m, s) ==
  /\ pending' = [pending EXCEPT ![s] = Append(@, m)]
  /\ UNCHANGED given
  /\ IF m \in Wakes THEN m = nextWake /\ nextWake' = nextWake + 1 ELSE UNCHANGED nextWake

Hears(t) ==
  /\ pending' = [pending EXCEPT ![home[t]] = <<>>]
  /\ given' = [given EXCEPT ![t] = @ \cup Got(t)]
  /\ UNCHANGED nextWake

\* A wake-up that goes to the history instead.
Records(w, s) ==
  /\ w = nextWake /\ nextWake' = nextWake + 1
  /\ UNCHANGED <<pending, given>>
  /\ w \in history'[s]

StillPlaced == \A w \in Wakes : Placed(w) => Placed(w)'
AllPlaced == \A w \in Wakes : w < nextWake' => w < nextWake \/ Placed(w)'

LEMMA SilentWake == ASSUME WakeOnce, Silent PROVE WakeOnce' /\ StillPlaced /\ AllPlaced
  BY DEF WakeOnce, Silent, Placed, StillPlaced, AllPlaced

LEMMA RecordsWake ==
  ASSUME TypeOK, WakeOnce, NEW w \in Wakes, NEW s, Records(w, s)
  PROVE  WakeOnce' /\ StillPlaced
<1>1. nextWake \in Nat /\ nextWake' = nextWake + 1 /\ UNCHANGED <<pending, given>>
  BY BoundsAssumption DEF TypeOK, LoopOK, Records
<1>2. Wakes \subseteq Nat
  BY BoundsAssumption DEF Wakes
<1>3. \A x \in Wakes : x >= nextWake' => x >= nextWake
  BY <1>1, <1>2
<1> QED
  BY <1>1, <1>3 DEF WakeOnce, Placed, StillPlaced

LEMMA SaysWake ==
  ASSUME TypeOK, WakeOnce, NEW m \in Messages, NEW s \in Sessions, Says(m, s)
  PROVE  WakeOnce' /\ StillPlaced /\ AllPlaced
<1>1. /\ nextWake \in Nat /\ Wakes \subseteq Nat
      /\ nextWake' = nextWake \/ nextWake' = nextWake + 1
      /\ m \in Wakes => m = nextWake /\ nextWake' = nextWake + 1
      /\ m \notin Wakes => nextWake' = nextWake
      /\ UNCHANGED given
  BY BoundsAssumption DEF TypeOK, LoopOK, Says, Wakes
<1>2. pending[s] \in Seq(Messages) /\ pending \in [Sessions -> Seq(Messages)]
  BY DEF TypeOK, StateOK
<1>3. pending'[s] = Append(pending[s], m) /\ \A r \in Sessions \ {s} : pending'[r] = pending[r]
  BY <1>2 DEF Says
<1>4. Items(pending'[s]) = Items(pending[s]) \cup {m}
  BY <1>2, <1>3, ItemsAppend
<1>5. m \in Wakes => ~Placed(m)
  BY <1>1 DEF WakeOnce
<1>6. \A w \in Wakes, r \in Sessions :
        w \in Items(pending'[r]) <=> w \in Items(pending[r]) \/ (w = m /\ r = s)
  BY <1>3, <1>4
<1>7. \A w \in Wakes : Placed(w)' <=> Placed(w) \/ w = m
  BY <1>1, <1>6 DEF Placed
<1>8. \A w \in Wakes : w >= nextWake' => w >= nextWake /\ w # m
  BY <1>1
<1>9. ASSUME NEW w \in Wakes, NEW r \in Sessions, NEW i \in DOMAIN pending'[r],
             NEW j \in DOMAIN pending'[r], pending'[r][i] = w, pending'[r][j] = w
      PROVE  i = j
  <2>1. CASE r # s
    BY <1>3, <1>9, <2>1 DEF WakeOnce
  <2>2. CASE r = s
    <3>1. /\ DOMAIN pending[s] = 1 .. Len(pending[s]) /\ Len(pending[s]) \in Nat
          /\ DOMAIN pending'[s] = 1 .. Len(pending[s]) + 1
          /\ \A k \in 1 .. Len(pending[s]) + 1 :
               pending'[s][k] = IF k = Len(pending[s]) + 1 THEN m ELSE pending[s][k]
      BY <1>2, <1>3
    <3>2. \A k \in DOMAIN pending[s] : m \in Wakes => pending[s][k] # m
      BY <1>5 DEF Placed, Items
    <3>3. \A k, l \in DOMAIN pending[s] : pending[s][k] = w /\ pending[s][l] = w => k = l
      BY DEF WakeOnce
    <3> QED
      BY <1>9, <2>2, <3>1, <3>2, <3>3
  <2> QED
    BY <2>1, <2>2
<1>10. WakeOnce'
  BY <1>1, <1>5, <1>6, <1>7, <1>8, <1>9 DEF WakeOnce, Placed
<1>11. StillPlaced /\ AllPlaced
  BY <1>1, <1>7 DEF StillPlaced, AllPlaced
<1> QED
  BY <1>10, <1>11

LEMMA HearsWake ==
  ASSUME TypeOK, WakeOnce, NEW t \in Tasks, Hears(t)
  PROVE  WakeOnce' /\ StillPlaced /\ AllPlaced
<1>1. PICK s \in Sessions : s = home[t]
  BY DEF TypeOK, TaskOK
<1>2. /\ pending'[s] = <<>> /\ \A r \in Sessions \ {s} : pending'[r] = pending[r]
      /\ given'[t] = given[t] \cup Items(pending[s]) \cup Items(queue[s])
      /\ \A u \in Tasks \ {t} : given'[u] = given[u]
      /\ UNCHANGED nextWake
  BY <1>1 DEF Hears, Got, TypeOK, StateOK, TaskOK
<1>3. \A w \in Wakes : w \notin Items(queue[s])
  <2>1. \A i \in DOMAIN queue[s] : queue[s][i] \in Submissions
    BY DEF TypeOK, StateOK
  <2> QED
    BY <2>1, BoundsAssumption DEF Items, Submissions, Wakes
<1>4. \A w \in Wakes, r \in Sessions :
        w \in Items(pending'[r]) <=> w \in Items(pending[r]) /\ r # s
  BY <1>2, ItemsEmpty
<1>5. \A w \in Wakes, u \in Tasks :
        w \in given'[u] <=> w \in given[u] \/ (u = t /\ w \in Items(pending[s]))
  BY <1>2, <1>3
<1>6. \A w \in Wakes : Placed(w)' <=> Placed(w)
  BY <1>4, <1>5 DEF Placed
<1>7. \A w \in Wakes, r \in Sessions : \A i, j \in DOMAIN pending'[r] :
        pending'[r][i] = w /\ pending'[r][j] = w => i = j
  BY <1>2 DEF WakeOnce
<1>8. WakeOnce'
  BY <1>2, <1>4, <1>5, <1>6, <1>7 DEF WakeOnce
<1> QED
  BY <1>2, <1>6, <1>8 DEF StillPlaced, AllPlaced

\* What each step does with the messages.
LEMMA MessageEffect ==
  ASSUME TypeOK, [Next]_vars
  PROVE  \/ Silent
         \/ \E m \in Messages, s \in Sessions : Says(m, s)
         \/ \E t \in Tasks : Hears(t)
         \/ \E w \in Wakes, s \in Sessions : BridgeRecord(w, s) /\ Records(w, s)
<1> USE Domains
<1>1. sess \in Sessions
  BY DEF TypeOK, LoopOK
<1>2. ASSUME NEW i \in Submissions,
             \/ UserInput(i) \/ EmptyUserInput(i) \/ QueueUserInput(i) \/ Review(i)
             \/ Interrupt(i) \/ Shutdown(i)
      PROVE  Silent
  BY <1>2 DEF UserInput, EmptyUserInput, QueueUserInput, Review, Interrupt, Shutdown, Take, Restart,
     Abort, Silent, stateVars, taskVars
<1>3. ASSUME NEW i \in Submissions, Compact(i)
      PROVE  Silent \/ Says(i, sess)
  <2>1. i \notin Wakes /\ UNCHANGED nextWake
    BY <1>3, BoundsAssumption DEF Submissions, Wakes, Compact, Take
  <2> QED
    BY <1>3, <2>1 DEF Compact, Silent, Says, taskVars
<1>4. CASE ConfigureSession
  BY <1>4 DEF ConfigureSession, Abort, Silent
<1>5. ASSUME NEW t \in Tasks, \/ Approve(t) \/ ApproveAbort(t) \/ SetTask(t) \/ Die(t)
                              \/ ExitAborted(t) \/ ReportAborted(t)
      PROVE  Silent
  BY <1>5 DEF Approve, ApproveAbort, SetTask, Die, ExitAborted, ReportAborted, Abort, UnchangedBody,
     Silent, loopVars, stateVars, taskVars
<1>6. ASSUME NEW w \in Wakes, AddPendingInputDeveloper(w) \/ AgentWake(w)
      PROVE  \E s \in Sessions : Says(w, s)
  <2>1. PICK s \in Sessions : Enqueue(w, s)
    BY <1>1, <1>6 DEF AddPendingInputDeveloper, AgentWake
  <2>2. TakeWake(w)
    BY <1>6 DEF AddPendingInputDeveloper, AgentWake
  <2> QED
    BY <2>1, <2>2 DEF Enqueue, TakeWake, Says, taskVars
<1>7. ASSUME NEW w \in Wakes, NEW s \in Sessions, BridgeRecord(w, s) PROVE Records(w, s)
  BY <1>7 DEF BridgeRecord, TakeWake, Records, taskVars, TypeOK, StateOK
<1>8. ASSUME \/ QueuePush \/ CompactPush \/ UNCHANGED vars
             \/ \E i \in Submissions, s \in Sessions : AbortLater(i, s) \/ RunQueued(i, s)
             \/ \E s \in Sessions : BridgeStart(s)
      PROVE  Silent
  BY <1>8 DEF QueuePush, CompactPush, AbortLater, RunQueued, BridgeStart, Spawn, Abort, Silent,
     vars, loopVars, stateVars, taskVars
<1>9. ASSUME NEW t \in Tasks, Drain(t) PROVE Hears(t)
  BY <1>9 DEF Drain, Hears, UnchangedBody, loopVars
<1>10. ASSUME NEW t \in Tasks, CalledTools(t)
       PROVE  Silent \/ \E s \in Sessions : Says(ToolOutput, s)
  <2>1. ToolOutput \notin Wakes /\ home[t] \in Sessions
    BY BoundsAssumption DEF ToolOutput, Wakes, TypeOK, TaskOK
  <2> QED
    BY <1>10, <2>1 DEF CalledTools, Silent, Says, loopVars
<1>11. ASSUME NEW t \in Tasks,
              \/ Begin(t) \/ Answered(t) \/ Ask(t) \/ Register(t) \/ Resume(t)
              \/ ReviewExit(t) \/ Remove(t) \/ StartCompact(t) \/ StartQueued(t)
       PROVE  Silent
  BY <1>11 DEF Begin, Answered, Ask, Register, Resume, ReviewExit, Remove, StartCompact,
     StartQueued, UnchangedBody, Silent, loopVars, stateVars
<1>12. ASSUME NEW t \in Tasks, CompactionStep(t) PROVE Silent
  BY <1>12 DEF CompactionStep, CompactTask, CompactInline, CompactFirst, BeginCompaction,
     LocalAnswer, Snapshot, Replace, RemoteAnswer, RemoteClear, Rebuild, CompactionFails,
     Emergency, CompactReport, UnchangedBody, Silent, loopVars, stateVars
<1>13. Submissions \subseteq Messages /\ Wakes \subseteq Messages /\ ToolOutput \in Messages
  BY DEF Messages
<1> QED
  BY <1>1, <1>2, <1>3, <1>4, <1>5, <1>6, <1>7, <1>8, <1>9, <1>10, <1>11, <1>12, <1>13
  DEF Next, ClientStep, WakeStep, AsyncStep, TaskStep, TurnStep

LEMMA StepWakeOnce ==
  ASSUME TypeOK, WakeOnce, [Next]_vars
  PROVE  /\ WakeOnce' /\ StillPlaced
         /\ AllPlaced \/ \E w \in Wakes, s \in Sessions : BridgeRecord(w, s) /\ Records(w, s)
  BY MessageEffect, SilentWake, SaysWake, HearsWake, RecordsWake

\* A compaction's result takes the place of the history.
Replaces == \E t \in Tasks : Replace(t) \/ RemoteAnswer(t) \/ Rebuild(t) \/ Emergency(t)

\* The sessions a step writes to: those the loop has turned to by then.
Writes(s) ==
  /\ s \in Sessions /\ s <= sess
  /\ UNCHANGED sess
  /\ \A r \in Sessions \ {s} : history'[r] = history[r] /\ bridge'[r] = bridge[r]
  /\ \A t \in Tasks : home'[t] = home[t] \/ home'[t] = s
  /\ \A p \in starting' : p \in starting \/ p[2] = s

LEMMA WritesOpened == ASSUME TypeOK, Opened, NEW s, Writes(s) PROVE Opened'
<1>1. sess \in Nat /\ s \in Nat /\ Sessions \subseteq Nat
  BY DEF TypeOK, LoopOK, Sessions, Writes
<1> QED
  BY <1>1 DEF Opened, Writes

LEMMA SpawnWrites ==
  ASSUME TypeOK, Opened, NEW t, NEW k, NEW s \in Sessions, s <= sess, Spawn(t, k, s),
         UNCHANGED <<sess, history, bridge>>, starting' \subseteq starting
  PROVE  Writes(s)
  BY DEF Writes, Spawn, TypeOK, TaskOK

\* What every step does to the sessions.
LEMMA ClientOpened == ASSUME TypeOK, Opened, ClientStep PROVE Opened'
<1>1. sess \in Sessions /\ sess <= sess
  BY DEF TypeOK, LoopOK, Sessions
<1>2. ASSUME NEW i \in Submissions,
             \/ UserInput(i) \/ EmptyUserInput(i) \/ QueueUserInput(i) \/ Compact(i)
             \/ Review(i) \/ Interrupt(i) \/ Shutdown(i)
      PROVE  Opened'
  <2>1. UNCHANGED <<sess, history, bridge, starting>>
    BY <1>2 DEF UserInput, EmptyUserInput, QueueUserInput, Compact, Review, Interrupt, Shutdown,
       Take, Restart, stateVars, asyncVars
  <2>2. UNCHANGED home \/ \E k : Spawn(i, k, sess)
    BY <1>2 DEF UserInput, EmptyUserInput, QueueUserInput, Compact, Review, Interrupt, Shutdown,
       Restart, taskVars
  <2>3. ASSUME NEW k, Spawn(i, k, sess) PROVE Opened'
    BY <1>1, <2>1, <2>3, SpawnWrites, WritesOpened
  <2>4. ASSUME UNCHANGED home PROVE Opened'
    BY <2>1, <2>4 DEF Opened
  <2> QED
    BY <2>2, <2>3, <2>4
<1>3. ASSUME ConfigureSession PROVE Opened'
  <2>1. /\ sess' = sess + 1 /\ history' = [history EXCEPT ![sess + 1] = history[sess]]
        /\ UNCHANGED <<home, bridge, starting>>
    BY <1>3 DEF ConfigureSession
  <2>2. sess \in Nat /\ Sessions \subseteq Nat /\ \A t \in Tasks : home[t] \in Nat
    BY DEF TypeOK, LoopOK, TaskOK, Sessions
  <2>3. \A p \in starting : p[2] \in Nat
    BY <2>2 DEF TypeOK, AsyncOK
  <2>4. \A s \in Sessions : s > sess' => s > sess /\ history'[s] = history[s]
    BY <2>1, <2>2 DEF TypeOK, StateOK
  <2> QED
    BY <2>1, <2>2, <2>3, <2>4 DEF Opened
<1>4. ASSUME NEW t \in Tasks, Approve(t) \/ ApproveAbort(t) PROVE Opened'
  BY <1>4 DEF Approve, ApproveAbort, loopVars, taskVars, asyncVars, Opened
<1> QED
  BY <1>2, <1>3, <1>4 DEF ClientStep

LEMMA WakeOpened ==
  ASSUME TypeOK, Opened, WakeStep \/ \E s \in Sessions : BridgeStart(s)
  PROVE  Opened'
<1>1. sess \in Sessions /\ sess <= sess /\ 1 \in Sessions /\ 1 <= sess
  BY Domains DEF TypeOK, LoopOK, Sessions
<1>2. ASSUME NEW w \in Wakes, AddPendingInputDeveloper(w) \/ AgentWake(w) PROVE Opened'
  <2>1. PICK s \in Sessions : s <= sess /\ Enqueue(w, s)
    BY <1>1, <1>2 DEF AddPendingInputDeveloper, AgentWake
  <2>2. UNCHANGED <<sess, bridge, starting>>
    BY <1>2 DEF AddPendingInputDeveloper, AgentWake, asyncVars
  <2>3. UNCHANGED history /\ (UNCHANGED home \/ Spawn(w, "pending", s))
    BY <2>1 DEF Enqueue, taskVars
  <2>4. ASSUME Spawn(w, "pending", s) PROVE Opened'
    BY <2>1, <2>2, <2>3, <2>4, SpawnWrites, WritesOpened
  <2>5. ASSUME UNCHANGED home PROVE Opened'
    BY <2>2, <2>3, <2>5 DEF Opened
  <2> QED
    BY <2>3, <2>4, <2>5
<1>3. ASSUME NEW w \in Wakes, NEW s \in Sessions, BridgeRecord(w, s) PROVE Opened'
  <2>1. Writes(s)
    BY <1>3 DEF BridgeRecord, Writes, taskVars, TypeOK, StateOK, AsyncOK
  <2> QED
    BY <2>1, WritesOpened
<1>4. ASSUME NEW s \in Sessions, BridgeStart(s) PROVE Opened'
  <2>1. s <= sess
    <3>1. ~(s > sess) /\ s \in Nat /\ sess \in Nat
      BY <1>4 DEF BridgeStart, Opened, TypeOK, LoopOK, Sessions
    <3> QED
      BY <3>1
  <2>2. Writes(s)
    BY <1>4, <2>1 DEF BridgeStart, Writes, Spawn, loopVars, stateVars, taskVars, TypeOK, AsyncOK,
                      TaskOK
  <2> QED
    BY <2>2, WritesOpened
<1> QED
  BY <1>2, <1>3, <1>4 DEF WakeStep

LEMMA TaskOpened == ASSUME TypeOK, Opened, NEW t \in Tasks, TaskStep(t) \/ Die(t) PROVE Opened'
<1> DEFINE s == home[t]
<1>1. s \in Sessions /\ s <= sess /\ t \in DOMAIN home
  BY DEF TypeOK, TaskOK, Opened
<1>2. UNCHANGED <<sess, bridge>>
  BY DEF TaskStep, TurnStep, Begin, Drain, Answered, CalledTools, Ask, Register, Resume, ReviewExit,
     Remove, StartCompact, StartQueued, Die, CompactionStep, CompactTask, CompactInline,
     CompactFirst, BeginCompaction, LocalAnswer, Snapshot, Replace, RemoteAnswer, RemoteClear,
     Rebuild, CompactionFails, Emergency, CompactReport, UnchangedBody, loopVars, asyncVars
<1>3. \A r \in Sessions \ {s} : history'[r] = history[r]
  <2>1. \/ UNCHANGED history
        \/ \E h : history' = [history EXCEPT ![s] = h]
    BY DEF TaskStep, TurnStep, Begin, Drain, Answered, CalledTools, Ask, Register, Resume,
           ReviewExit,
     Remove, StartCompact, StartQueued, Die, CompactionStep, CompactTask, CompactInline,
     CompactFirst, BeginCompaction, LocalAnswer, Snapshot, Replace, RemoteAnswer, RemoteClear,
     Rebuild, CompactionFails, Emergency, CompactReport, Record, stateVars
  <2> QED
    BY <2>1 DEF TypeOK, StateOK
<1>4. \A u \in Tasks : home'[u] = home[u] \/ home'[u] = s
  <2>1. UNCHANGED home \/ \E c : home' = [home EXCEPT ![c] = s]
    BY DEF TaskStep, TurnStep, Begin, Drain, Answered, CalledTools, Ask, Register, Resume,
           ReviewExit,
     Remove, StartCompact, StartQueued, Die, CompactionStep, CompactTask, CompactInline,
     CompactFirst, BeginCompaction, LocalAnswer, Snapshot, Replace, RemoteAnswer, RemoteClear,
     Rebuild, CompactionFails, Emergency, CompactReport, UnchangedBody
  <2> QED
    BY <2>1 DEF TypeOK, TaskOK
<1>5. \A p \in starting' : p \in starting \/ p[2] = s
  BY DEF TaskStep, TurnStep, Begin, Drain, Answered, CalledTools, Ask, Register, Resume, ReviewExit,
     Remove, StartCompact, StartQueued, Die, CompactionStep, CompactTask, CompactInline,
     CompactFirst, BeginCompaction, LocalAnswer, Snapshot, Replace, RemoteAnswer, RemoteClear,
     Rebuild, CompactionFails, Emergency, CompactReport, UnchangedBody, asyncVars
<1>6. Writes(s)
  BY <1>1, <1>2, <1>3, <1>4, <1>5 DEF Writes
<1> QED
  BY <1>6, WritesOpened

LEMMA AsyncOpened == ASSUME TypeOK, Opened, AsyncStep PROVE Opened'
<1>1. ASSUME NEW t \in Tasks, ExitAborted(t) PROVE Opened'
  <2>1. home[t] \in Sessions /\ home[t] <= sess
    BY DEF TypeOK, TaskOK, Opened
  <2>2. Writes(home[t])
    BY <1>1, <2>1 DEF ExitAborted, Record, Writes, loopVars, taskVars, TypeOK, StateOK
  <2> QED
    BY <2>2, WritesOpened
<1>2. ASSUME NEW i \in Submissions, NEW s \in Sessions, RunQueued(i, s) PROVE Opened'
  <2>1. s <= sess
    <3>1. <<i, s>>[2] <= sess
      BY <1>2 DEF RunQueued, Opened
    <3> QED
      BY <3>1
  <2>2. /\ Spawn(i, "regular", s) /\ UNCHANGED <<sess, history, bridge>>
        /\ starting' \subseteq starting
    BY <1>2 DEF RunQueued, loopVars, stateVars
  <2> QED
    BY <2>1, <2>2, SpawnWrites, WritesOpened
<1>3. ASSUME \/ QueuePush \/ CompactPush
             \/ \E i \in Submissions, s \in Sessions : AbortLater(i, s)
             \/ \E t \in Tasks : SetTask(t) \/ ReportAborted(t)
      PROVE  Opened'
  BY <1>3 DEF QueuePush, CompactPush, AbortLater, SetTask, ReportAborted, loopVars, stateVars,
     taskVars, asyncVars, Opened
<1> QED
  BY <1>1, <1>2, <1>3, WakeOpened, TaskOpened DEF AsyncStep

LEMMA StepWake == ToldInv /\ [Next]_vars => ToldInv'
<1> SUFFICES ASSUME ToldInv, [Next]_vars PROVE ToldInv'
  OBVIOUS
<1>1. TypeOK' /\ WakeOnce'
  BY StepType, StepWakeOnce DEF ToldInv
<1>2. Opened'
  <2>1. UNCHANGED vars => Opened'
    BY DEF ToldInv, Opened, vars, loopVars, stateVars, taskVars, asyncVars
  <2> QED
    BY <2>1, ClientOpened, WakeOpened, AsyncOpened, TaskOpened DEF ToldInv, Next
<1> QED
  BY <1>1, <1>2 DEF ToldInv

LEMMA ToldInvHolds == Spec => []ToldInv
  BY InitWake, StepWake, PTL DEF Spec

\* What was in pending_input, or was given to a task, is so for good, and goes
\* to one task at most: no abort, compaction or new session loses a message
\* that enqueue_out_of_turn_item has pushed, and no two turns are told it.
WakesTold == [][StillPlaced]_vars

THEOREM WakesStayTold == Spec => [](WakeOnce) /\ WakesTold
<1>1. ToldInv /\ [Next]_vars => StillPlaced
  BY StepWakeOnce DEF ToldInv
<1>2. ToldInv => WakeOnce
  BY DEF ToldInv
<1> QED
  BY <1>1, <1>2, ToldInvHolds, PTL DEF Spec, WakesTold

-----------------------------------------------------------------------------
(* WakesConserved.                                                         *)

\* Nothing is dropped from a history.
HistoryGrows == \A s \in Sessions : history[s] \subseteq history'[s]

LEMMA GrowsOrReplaces ==
  ASSUME TypeOK, Opened, [Next]_vars
  PROVE  HistoryGrows \/ Replaces
<1> USE DEF HistoryGrows
<1>1. history \in [Sessions -> SUBSET Tasks]
  BY DEF TypeOK, StateOK
<1>2. CASE ConfigureSession
  <2>1. sess + 1 \in Sessions => history[sess + 1] = {}
    BY DEF Opened, TypeOK, LoopOK, Sessions
  <2> QED
    BY <1>1, <1>2, <2>1 DEF ConfigureSession
<1>3. ASSUME ClientStep, ~ConfigureSession PROVE UNCHANGED history
  BY <1>3 DEF ClientStep, UserInput, EmptyUserInput, QueueUserInput, Compact, Review, Interrupt,
     Shutdown, Restart, Approve, ApproveAbort, stateVars
<1>4. CASE WakeStep
  BY <1>1, <1>4 DEF WakeStep, AddPendingInputDeveloper, AgentWake, BridgeRecord, Enqueue
<1>5. CASE AsyncStep
  BY <1>1, <1>5 DEF AsyncStep, QueuePush, CompactPush, AbortLater, RunQueued, BridgeStart, SetTask,
     Die, ExitAborted, ReportAborted, Record, stateVars
<1>6. ASSUME NEW t \in Tasks, TurnStep(t) PROVE HistoryGrows
  BY <1>1, <1>6 DEF TurnStep, Begin, Drain, Answered, CalledTools, Ask, Register, Resume,
                    ReviewExit,
     Remove, StartCompact, StartQueued, Record, stateVars
<1>7. ASSUME NEW t \in Tasks, CompactionStep(t) PROVE UNCHANGED history \/ Replaces
  BY <1>7 DEF CompactionStep, CompactTask, CompactInline, CompactFirst, BeginCompaction,
     LocalAnswer, Snapshot, RemoteClear, CompactionFails, CompactReport, stateVars, Replaces
<1>8. CASE UNCHANGED vars
  BY <1>8 DEF vars, stateVars
<1> QED
  BY <1>2, <1>3, <1>4, <1>5, <1>6, <1>7, <1>8 DEF Next, TaskStep

\* Every wake-up waits, was told, or is in a history.
NoneLost ==
  \A w \in Wakes : w < nextWake => Placed(w) \/ \E s \in Sessions : w \in history[s]

LEMMA StepNoneLost ==
  ASSUME ToldInv, [Next]_vars, NoneLost
  PROVE  NoneLost' \/ Replaces
<1> SUFFICES ASSUME HistoryGrows, NEW w \in Wakes, w < nextWake'
             PROVE  Placed(w)' \/ \E s \in Sessions : w \in history'[s]
  BY GrowsOrReplaces DEF ToldInv, NoneLost
<1>1. /\ StillPlaced
      /\ AllPlaced \/ \E v \in Wakes, s \in Sessions : Records(v, s)
  BY StepWakeOnce DEF ToldInv
<1>2. ASSUME w < nextWake PROVE Placed(w)' \/ \E s \in Sessions : w \in history'[s]
  BY <1>1, <1>2 DEF NoneLost, StillPlaced, HistoryGrows
<1>3. ASSUME NEW v \in Wakes, NEW s \in Sessions, Records(v, s), ~(w < nextWake)
      PROVE  w \in history'[s]
  <2>1. nextWake \in Nat /\ w \in Nat
    BY BoundsAssumption DEF ToldInv, TypeOK, LoopOK, Wakes
  <2>2. w = v
    BY <1>3, <2>1 DEF Records
  <2> QED
    BY <1>3, <2>2 DEF Records
<1> QED
  BY <1>1, <1>2, <1>3 DEF AllPlaced

\* WakesConserved counts what WakeOnce and NoneLost say without counting.
LEMMA PlacedOnce ==
  ASSUME TypeOK, WakeOnce, NEW w \in Wakes
  PROVE  Cardinality(Occurrences(pending, w)) + Cardinality({t \in Tasks : w \in given[t]})
           = IF Placed(w) THEN 1 ELSE 0
<1> DEFINE takers == {t \in Tasks : w \in given[t]}
<1>1. CASE \E s \in Sessions : w \in Items(pending[s])
  <2>1. PICK s \in Sessions : w \in Items(pending[s])
    BY <1>1
  <2>2. Cardinality(Occurrences(pending, w)) = 1
    BY <2>1, OneOccurrence DEF WakeOnce
  <2>3. takers = {}
    BY <2>1 DEF WakeOnce
  <2>4. Cardinality(takers) = 0
    BY <2>3, FS_EmptySet
  <2> HIDE DEF takers
  <2>5. Cardinality(Occurrences(pending, w)) + Cardinality(takers) = 1
    BY <2>2, <2>4
  <2> QED
    BY <2>1, <2>5 DEF Placed, takers
<1>2. CASE ~\E s \in Sessions : w \in Items(pending[s])
  <2>1. Cardinality(Occurrences(pending, w)) = 0
    BY <1>2, NoOccurrence
  <2>2. Cardinality(takers) = IF Placed(w) THEN 1 ELSE 0
    <3>1. CASE takers = {}
      BY <1>2, <3>1, FS_EmptySet DEF Placed
    <3>2. CASE takers # {}
      <4>1. PICK t \in takers : TRUE
        BY <3>2
      <4>2. takers = {t}
        BY <4>1 DEF WakeOnce
      <4> QED
        BY <4>1, <4>2, FS_Singleton DEF Placed
    <3> QED
      BY <3>1, <3>2
  <2> HIDE DEF takers
  <2>3. Cardinality(Occurrences(pending, w)) + Cardinality(takers) = IF Placed(w) THEN 1 ELSE 0
    BY <2>1, <2>2
  <2> QED
    BY <2>3 DEF takers
<1> QED
  BY <1>1, <1>2

LEMMA ConservedMeans == ASSUME TypeOK, WakeOnce PROVE WakesConserved <=> NoneLost
<1> DEFINE places(w) == Cardinality(Occurrences(pending, w))
                        + Cardinality({t \in Tasks : w \in given[t]})
<1>1. \A w \in Wakes : places(w) = IF Placed(w) THEN 1 ELSE 0
  BY PlacedOnce
<1>2. WakesConserved <=>
        \A w \in Wakes : w < nextWake =>
          places(w) = 1 \/ (places(w) = 0 /\ \E s \in Sessions : w \in history[s])
  BY DEF WakesConserved
<1> HIDE DEF places
<1>3. \A w \in Wakes : (places(w) = 1 <=> Placed(w)) /\ (places(w) = 0 <=> ~Placed(w))
  BY <1>1
<1> QED
  BY <1>2, <1>3 DEF NoneLost

\* Only a compaction loses a wake-up: every other step keeps WakesConserved.
ConservedUntilReplaced == [][WakesConserved => WakesConserved' \/ Replaces]_vars

\* Whatever operations there are, a bridge event that is in no queue stays in
\* the history of its session until a compaction replaces that history; a new
\* session takes it over.
THEOREM OnlyCompactionForgets == Spec => ConservedUntilReplaced
<1>1. ToldInv /\ [Next]_vars => (NoneLost => NoneLost' \/ Replaces)
  BY StepNoneLost
<1>2. ToldInv => (WakesConserved <=> NoneLost)
  BY ConservedMeans DEF ToldInv
<1> QED
  BY <1>1, <1>2, ToldInvHolds, PTL DEF Spec, ConservedUntilReplaced

\* Without compactions among the operations, none runs or is asked for.
Uncompacted ==
  /\ \A t \in Tasks :
       /\ kind[t] # "compact" /\ auto[t] # "due"
       /\ pc[t] \notin {"compacting", "cleared", "snapped", "rebuilding"}
  /\ \A s \in Sessions : compacts[s] = <<>>
  /\ loop.at # "compact"

LEMMA InitUncompacted == Init => Uncompacted
  BY DEF Init, Uncompacted

LEMMA StepUncompacted ==
  ASSUME Ops \cap {"Compact", "AutoCompact"} = {}, TypeOK, Uncompacted, [Next]_vars
  PROVE  Uncompacted' /\ ~Replaces
<1> USE DEF Uncompacted
<1>1. ~Replaces
  BY DEF Replaces, Replace, RemoteAnswer, Rebuild, Emergency, At
<1>2. ASSUME ClientStep PROVE Uncompacted'
  BY <1>2 DEF ClientStep, UserInput, EmptyUserInput, QueueUserInput, Compact, Review, Interrupt,
     Shutdown, ConfigureSession, Approve, ApproveAbort, Take, Restart, Abort, Spawn, Now,
     stateVars, taskVars, loopVars,
     TypeOK, TaskOK
<1>3. ASSUME WakeStep PROVE Uncompacted'
  BY <1>3 DEF WakeStep, AddPendingInputDeveloper, AgentWake, BridgeRecord, Enqueue, Spawn, Now,
     taskVars, TypeOK, TaskOK
<1>4. ASSUME AsyncStep PROVE Uncompacted'
  <2>1. ASSUME QueuePush \/ CompactPush PROVE Uncompacted'
    BY <2>1 DEF QueuePush, CompactPush, Now, taskVars
  <2>2. ASSUME NEW s \in Sessions, NEW i \in Submissions, AbortLater(i, s) PROVE Uncompacted'
    BY <2>2 DEF AbortLater, Abort, loopVars
  <2>3. ASSUME NEW s \in Sessions, NEW i, RunQueued(i, s) \/ BridgeStart(s)
        PROVE  Uncompacted'
    BY <2>3 DEF RunQueued, BridgeStart, Spawn, loopVars, stateVars, taskVars, TypeOK, TaskOK
  <2>4. ASSUME NEW t \in Tasks, SetTask(t) \/ Die(t) \/ ExitAborted(t) \/ ReportAborted(t)
        PROVE  Uncompacted'
    BY <2>4 DEF SetTask, Die, ExitAborted, ReportAborted, Goto, UnchangedBody, stateVars, taskVars,
       loopVars, TypeOK, TaskOK
  <2> QED
    BY <1>4, <2>1, <2>2, <2>3, <2>4 DEF AsyncStep
<1>5. ASSUME NEW t \in Tasks, TurnStep(t) PROVE Uncompacted'
  BY <1>5 DEF TurnStep, Begin, Drain, Answered, CalledTools, Ask, Register, Resume, ReviewExit,
     Remove, StartCompact, StartQueued, At, Goto, Requesting, Compactable, UnchangedBody,
     stateVars, loopVars, TypeOK, TaskOK
<1>6. ASSUME NEW t \in Tasks, CompactionStep(t) PROVE Uncompacted'
  BY <1>6 DEF CompactionStep, CompactTask, CompactInline, CompactFirst, BeginCompaction,
     LocalAnswer, Snapshot, Replace, RemoteAnswer, RemoteClear, Rebuild, CompactionFails,
     Emergency, CompactReport,
     At, Goto, Requesting, Compactable, UnchangedBody, stateVars, loopVars, TypeOK, TaskOK
<1>7. ASSUME UNCHANGED vars PROVE Uncompacted'
  BY <1>7 DEF vars, loopVars, stateVars, taskVars
<1> QED
  BY <1>1, <1>2, <1>3, <1>4, <1>5, <1>6, <1>7 DEF Next, TaskStep

\* Without compactions no wake-up is ever lost: each is told to one task, waits
\* to be, or is in a history, through every abort and every new session.
THEOREM WakesConservedHolds ==
  ASSUME Ops \cap {"Compact", "AutoCompact"} = {}
  PROVE  Spec => []WakesConserved
<1>1. Init => Uncompacted /\ NoneLost
  <2>1. Init => NoneLost
    BY BoundsAssumption DEF Init, NoneLost, Wakes
  <2> QED
    BY <2>1, InitUncompacted
<1>2. ToldInv /\ Uncompacted /\ NoneLost /\ [Next]_vars => (Uncompacted /\ NoneLost)'
  BY StepUncompacted, StepNoneLost DEF ToldInv
<1>3. ToldInv /\ NoneLost => WakesConserved
  BY ConservedMeans DEF ToldInv
<1> QED
  BY <1>1, <1>2, <1>3, ToldInvHolds, PTL DEF Spec
=============================================================================

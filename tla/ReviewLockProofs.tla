--------------------------- MODULE ReviewLockProofs ---------------------------
(* Proofs about ReviewLock: its types, that one run at a time is at work under *)
(* the lock until a stale-lock check overtakes it, and that no bump goes past  *)
(* the end of a fix unnoticed.                                                 *)
EXTENDS ReviewLock, TLAPS

USE DEF Places, Guarded

\* Everything a step can do to the state, with the types it keeps.
THEOREM TypeCorrect == Spec => []TypeOK
<1>1. Init => TypeOK
  <2> SUFFICES ASSUME Init PROVE TypeOK
    OBVIOUS
  <2> USE BoundsAssumption DEF Init, Bumpers
  <2>1. file \in [by : Runs, told : BOOLEAN] \union {NoFile}
    OBVIOUS
  <2>2. /\ pc \in [Runs -> Places]
        /\ purpose \in [Runs -> {"review", "fix", "followup", "stale"}]
        /\ seen \in [Runs -> Runs]
    OBVIOUS
  <2>3. reviews \in [Runs -> 0 .. MaxReReviews] /\ baseline \in [Runs -> Nat]
    OBVIOUS
  <2>4. /\ bump \in [Bumpers -> {"none", "read", "torn"}]
        /\ read \in [Bumpers -> Nat]
        /\ watchers \in [Bumpers -> SUBSET Runs]
    OBVIOUS
  <2>5. overtaken \in BOOLEAN
    OBVIOUS
  <2>6. overlapped \in BOOLEAN
    OBVIOUS
  <2>7. torn \in BOOLEAN
    OBVIOUS
  <2>8. QED
    BY <2>1, <2>2, <2>3, <2>4, <2>5, <2>6, <2>7 DEF TypeOK
<1>2. TypeOK /\ [Next]_vars => TypeOK'
  <2> SUFFICES ASSUME TypeOK, [Next]_vars PROVE TypeOK'
    OBVIOUS
  <2> USE PidAssumption, BoundsAssumption, MutatorsAssumption
          DEF TypeOK, Goes, At, lockVars, runVars, epochVars, watchVars
  <2>1. ReadEpoch \in Nat
    BY DEF ReadEpoch
  <2>2. ASSUME NEW r \in Runs, Starts(r) PROVE TypeOK'
    BY <2>2 DEF Starts
  <2>3. ASSUME NEW r \in Runs, LooksAtLock(r) PROVE TypeOK'
    BY <2>3, NoFileAssumption DEF LooksAtLock, Told
  <2>4. ASSUME NEW r \in Runs, ProbesPid(r) PROVE TypeOK'
    BY <2>4 DEF ProbesPid
  <2>5. ASSUME NEW r \in Runs, RemovesStale(r) PROVE TypeOK'
    BY <2>5 DEF RemovesStale
  <2>6. ASSUME NEW r \in Runs, TryAcquire(r) PROVE TypeOK'
    <3>1. CASE file = NoFile
      <4>1. /\ file' = [by |-> r, told |-> FALSE]
            /\ pc' = [pc EXCEPT ![r] = "writing"]
            /\ UNCHANGED <<runVars, watchVars>>
        BY ONLY <2>6, <3>1 DEF TryAcquire, Goes
      <4>2. UNCHANGED <<seen, overtaken, up, epochVars>>
        BY ONLY <2>6 DEF TryAcquire
      <4>3. file' \in [by : Runs, told : BOOLEAN] \union {NoFile}
        BY <4>1
      <4>4. pc' \in [Runs -> Places]
        BY <4>1
      <4>5. QED
        BY <4>1, <4>2, <4>3, <4>4
    <3>2. CASE file # NoFile
      <4>1. Ends(r) /\ file' = file
        BY <2>6, <3>2 DEF TryAcquire
      <4>2. UNCHANGED <<seen, overtaken, up, epochVars>>
        BY <2>6, <3>2 DEF TryAcquire
      <4>3. QED
        BY <4>1, <4>2 DEF Ends, Forgets, NewBaseline
    <3>3. QED
      BY <3>1, <3>2
  <2>7. ASSUME NEW r \in Runs, WritesInfo(r) PROVE TypeOK'
    <3>1. file' \in [by : Runs, told : BOOLEAN] \union {NoFile}
      BY <2>7 DEF WritesInfo
    <3>2. pc' \in [Runs -> Places]
      BY <2>7 DEF WritesInfo
    <3>3. QED
      BY <2>7, <3>1, <3>2 DEF WritesInfo
  <2>8. ASSUME NEW r \in Runs, CapturesEpoch(r) PROVE TypeOK'
    BY <2>8, <2>1 DEF CapturesEpoch, NewBaseline
  <2>9. ASSUME NEW r \in Runs, ReviewEnds(r) PROVE TypeOK'
    BY <2>9 DEF ReviewEnds, DropsGuard
  <2>10. ASSUME NEW r \in Runs, Judges(r) PROVE TypeOK'
    <3>1. CASE Ends(r)
      BY <2>10, <3>1 DEF Judges, Ends, Forgets, NewBaseline
    <3>2. CASE ~Ends(r)
      BY <2>10, <3>2 DEF Judges
    <3>3. QED
      BY <3>1, <3>2
  <2>11. ASSUME NEW r \in Runs, FixIsDue(r) PROVE TypeOK'
    BY <2>11, <2>1 DEF FixIsDue, NewBaseline
  <2>12. ASSUME NEW r \in Runs, FixEnds(r) PROVE TypeOK'
    BY <2>12 DEF FixEnds, DropsGuard
  <2>13. ASSUME NEW r \in Runs, Leaves(r) PROVE TypeOK'
    BY <2>13 DEF Leaves, DropsGuard, Ends, Forgets, NewBaseline
  <2>14. ASSUME NEW b \in Bumpers, BumpReads(b) PROVE TypeOK'
    <3>1. watchers' \in [Bumpers -> SUBSET Runs]
      BY <2>14 DEF BumpReads
    <3>2. overlapped' \in BOOLEAN
      BY <2>14 DEF BumpReads
    <3>3. read' \in [Bumpers -> Nat]
      BY <2>14, <2>1 DEF BumpReads
    <3>4. bump' \in [Bumpers -> {"none", "read", "torn"}]
      BY <2>14 DEF BumpReads
    <3>5. UNCHANGED <<lockVars, runVars, up, pc, epoch, torn, baseline, touched>>
      BY <2>14 DEF BumpReads
    <3>6. QED
      BY <3>1, <3>2, <3>3, <3>4, <3>5
  <2>15. ASSUME NEW b \in Bumpers, BumpTruncates(b) PROVE TypeOK'
    BY <2>15 DEF BumpTruncates
  <2>16. ASSUME NEW b \in Bumpers, BumpWrites(b) PROVE TypeOK'
    <3>1. epoch' \in Nat /\ read' \in [Bumpers -> Nat]
      BY <2>16 DEF BumpWrites, Bumped
    <3>2. torn' \in BOOLEAN
      BY <2>16 DEF BumpWrites
    <3>3. bump' \in [Bumpers -> {"none", "read", "torn"}]
      BY <2>16 DEF BumpWrites
    <3>4. touched' \subseteq Runs
      BY <2>16 DEF BumpWrites
    <3>5. watchers' \in [Bumpers -> SUBSET Runs]
      BY <2>16 DEF BumpWrites
    <3>6. pc' \in [Runs -> Places]
      BY <2>16 DEF BumpWrites
    <3>7. UNCHANGED <<lockVars, runVars, up, overlapped, baseline>>
      BY <2>16 DEF BumpWrites
    <3>8. QED
      BY <3>1, <3>2, <3>3, <3>4, <3>5, <3>6, <3>7
  <2>17. ASSUME NEW p \in Procs, Dies(p) PROVE TypeOK'
    BY <2>17 DEF Dies, Forgets, NewBaseline
  <2>18. ASSUME NEW p \in Procs, Returns(p) PROVE TypeOK'
    BY <2>18 DEF Returns
  <2>19. ASSUME NEW r \in Runs, SkipsFollowup(r) PROVE TypeOK'
    BY <2>19 DEF SkipsFollowup
  <2>20. CASE UNCHANGED vars
    BY <2>20 DEF vars
  <2>21. QED
    BY <2>2, <2>3, <2>4, <2>5, <2>6, <2>7, <2>8, <2>9, <2>10, <2>11, <2>12,
       <2>13, <2>14, <2>15, <2>16, <2>17, <2>18, <2>19, <2>20
       DEF Next, RunNext, BumpNext
<1>3. QED
  BY <1>1, <1>2, PTL DEF Spec

-----------------------------------------------------------------------------
(* Mutual exclusion *)

\* Until a check overtakes one, a run at work under the lock created its file.
FileIsMine(r) == file # NoFile /\ file.by = r
HolderOwns == ~overtaken => \A r \in Holders : FileIsMine(r)

\* A run bumps only while it prepares its snapshot, under the lock.
BumpInv == \A r \in Runs : bump[r] # "none" => pc[r] = "snapping"

\* A run that neither takes nor drops the lock leaves the owner as it was.
LEMMA OwnerStays ==
    ASSUME HolderOwns, overtaken' = overtaken, file' = file,
           Holders' \subseteq Holders
    PROVE  HolderOwns'
  BY DEF HolderOwns, FileIsMine

\* A run under the lock that drops it was alone.
LEMMA DropIsAlone ==
    ASSUME HolderOwns, overtaken' = overtaken, NEW r \in Holders,
           Holders' \subseteq Holders \ {r}
    PROVE  HolderOwns'
  BY DEF HolderOwns, FileIsMine

LEMMA HolderOwnsStep ==
    ASSUME TypeOK, HolderOwns, BumpInv, [Next]_vars
    PROVE  HolderOwns'
<1> USE DEF TypeOK, Goes, At, lockVars, runVars, epochVars, watchVars, Holders
<1>1. ASSUME NEW r \in Runs, Starts(r) \/ LooksAtLock(r) \/ ProbesPid(r)
                             \/ CapturesEpoch(r) \/ Judges(r) \/ FixIsDue(r)
                             \/ SkipsFollowup(r)
      PROVE HolderOwns'
  <2>1. file' = file /\ overtaken' = overtaken
    BY <1>1 DEF Starts, LooksAtLock, ProbesPid, CapturesEpoch, Judges, FixIsDue,
                SkipsFollowup
  <2>2. Holders' \subseteq Holders
    BY <1>1 DEF Starts, LooksAtLock, ProbesPid, CapturesEpoch, Judges, FixIsDue,
                SkipsFollowup, Ends
  <2>3. QED
    BY <2>1, <2>2, OwnerStays
<1>2. ASSUME NEW r \in Runs, RemovesStale(r) PROVE HolderOwns'
  <2>1. Holders' \subseteq Holders
    BY <1>2 DEF RemovesStale
  <2>2. ~overtaken' => ~overtaken /\ ~(file # NoFile /\ file.by \in Holders)
    BY <1>2 DEF RemovesStale
  <2>3. QED
    BY <2>1, <2>2 DEF HolderOwns, FileIsMine
<1>3. ASSUME NEW r \in Runs, TryAcquire(r) PROVE HolderOwns'
  <2>1. CASE file # NoFile
    <3>1. Holders' \subseteq Holders
      BY <1>3, <2>1 DEF TryAcquire, Ends
    <3>2. file' = file /\ overtaken' = overtaken
      BY <1>3, <2>1 DEF TryAcquire
    <3>3. QED
      BY <3>1, <3>2, OwnerStays
  <2>2. CASE file = NoFile
    <3>0. file' = [by |-> r, told |-> FALSE] /\ overtaken' = overtaken
      BY ONLY <1>3, <2>2 DEF TryAcquire
    <3>a. [by |-> r, told |-> FALSE] \in [by : Runs, told : BOOLEAN]
      OBVIOUS
    <3>b. file' # NoFile
      BY ONLY <3>0, <3>a, NoFileAssumption
    <3>c. file'.by = r
      BY ONLY <3>0
    <3>1. file'.by = r /\ file' # NoFile /\ overtaken' = overtaken
      BY <3>0, <3>b, <3>c
    <3>2. Holders' \subseteq Holders \union {r}
      BY <1>3, <2>2 DEF TryAcquire
    <3>3. ~overtaken => Holders = {}
      BY <2>2 DEF HolderOwns, FileIsMine
    <3>4. QED
      BY <3>1, <3>2, <3>3 DEF HolderOwns, FileIsMine
  <2>3. QED
    BY <2>1, <2>2
<1>4. ASSUME NEW r \in Runs, WritesInfo(r) PROVE HolderOwns'
  <2>1. Holders' \subseteq Holders /\ overtaken' = overtaken
    BY <1>4 DEF WritesInfo
  <2>2. file # NoFile => file' # NoFile /\ file'.by = file.by
    BY <1>4, NoFileAssumption DEF WritesInfo
  <2>3. QED
    BY <2>1, <2>2 DEF HolderOwns, FileIsMine
<1>5. ASSUME NEW r \in Runs, ReviewEnds(r) \/ Leaves(r) PROVE HolderOwns'
  <2>1. r \in Holders /\ overtaken' = overtaken
    BY <1>5 DEF ReviewEnds, Leaves
  <2>2. Holders' \subseteq Holders \ {r}
    BY <1>5 DEF ReviewEnds, Leaves, Ends
  <2>3. QED
    BY <2>1, <2>2, DropIsAlone
<1>6. ASSUME NEW r \in Runs, FixEnds(r) PROVE HolderOwns'
  <2>1. r \in Holders /\ overtaken' = overtaken
    BY <1>6 DEF FixEnds
  <2>2. Holders' \subseteq Holders \ {r}
    BY <1>6 DEF FixEnds
  <2>3. QED
    BY <2>1, <2>2, DropIsAlone
<1>7. ASSUME NEW b \in Bumpers, BumpReads(b) \/ BumpTruncates(b)
      PROVE HolderOwns'
  <2>1. Holders' = Holders /\ file' = file /\ overtaken' = overtaken
    BY <1>7 DEF BumpReads, BumpTruncates
  <2>2. QED
    BY <2>1 DEF HolderOwns, FileIsMine
<1>8. ASSUME NEW b \in Bumpers, BumpWrites(b) PROVE HolderOwns'
  <2>1. Holders' \subseteq Holders /\ file' = file /\ overtaken' = overtaken
    BY <1>8 DEF BumpWrites, BumpInv
  <2>2. QED
    BY <2>1, OwnerStays
<1>9. ASSUME NEW p \in Procs, Dies(p) PROVE HolderOwns'
  <2>1. Holders' \subseteq Holders /\ file' = file /\ overtaken' = overtaken
    BY <1>9 DEF Dies
  <2>2. QED
    BY <2>1, OwnerStays
<1>10. ASSUME NEW p \in Procs, Returns(p) PROVE HolderOwns'
  BY <1>10, OwnerStays DEF Returns
<1>11. CASE UNCHANGED vars
  BY <1>11, OwnerStays DEF vars
<1>12. QED
  BY <1>1, <1>2, <1>3, <1>4, <1>5, <1>6, <1>7, <1>8, <1>9, <1>10, <1>11
     DEF Next, RunNext, BumpNext

LEMMA BumpInvStep ==
    ASSUME TypeOK, BumpInv, [Next]_vars
    PROVE  BumpInv'
<1> USE DEF TypeOK, BumpInv, Bumpers, Goes, At, lockVars, runVars, epochVars,
            watchVars
<1>1. ASSUME NEW r \in Runs, RunNext(r) PROVE BumpInv'
  <2>1. bump' = bump
    BY <1>1 DEF RunNext, Starts, LooksAtLock, ProbesPid, RemovesStale, TryAcquire,
                WritesInfo, CapturesEpoch, ReviewEnds, Judges, FixIsDue, FixEnds,
                SkipsFollowup, Leaves
  <2>2. \A s \in Runs : pc[s] = "snapping" => pc'[s] = "snapping"
    BY <1>1 DEF RunNext, Starts, LooksAtLock, ProbesPid, RemovesStale, TryAcquire,
                WritesInfo, CapturesEpoch, ReviewEnds, Judges, FixIsDue, FixEnds,
                SkipsFollowup, Leaves, Ends
  <2>3. QED
    BY <2>1, <2>2
<1>2. ASSUME NEW b \in Bumpers, BumpNext(b) PROVE BumpInv'
  BY <1>2 DEF BumpNext, BumpReads, BumpTruncates, BumpWrites
<1>3. ASSUME NEW p \in Procs, Dies(p) PROVE BumpInv'
  BY <1>3 DEF Dies
<1>4. ASSUME NEW p \in Procs, Returns(p) PROVE BumpInv'
  BY <1>4 DEF Returns
<1>5. CASE UNCHANGED vars
  BY <1>5 DEF vars
<1>6. QED
  BY <1>1, <1>2, <1>3, <1>4, <1>5 DEF Next

\* Mutual exclusion of the runs under the lock, for any number of them, through
\* kills and reused process ids, until a stale-lock check overtakes a run.
THEOREM OneAtATime == Spec => []OneHolder
<1>1. Init => HolderOwns /\ BumpInv
  BY DEF Init, HolderOwns, BumpInv, Holders, Bumpers
<1>2. TypeOK /\ (HolderOwns /\ BumpInv) /\ [Next]_vars => (HolderOwns /\ BumpInv)'
  BY HolderOwnsStep, BumpInvStep
<1>3. HolderOwns => OneHolder
  BY DEF HolderOwns, FileIsMine, OneHolder
<1>4. QED
  BY <1>1, <1>2, <1>3, TypeCorrect, PTL DEF Spec

-----------------------------------------------------------------------------
(* The epoch *)

\* While bumps come one at a time, the one in progress has read the epoch, and
\* every baseline is at most it, less if a finished bump is newer.
EpochInv ==
    ~overlapped =>
        /\ \A b \in Bumpers : bump[b] # "none" => read[b] = epoch
        /\ \A b, c \in Bumpers : bump[b] # "none" /\ bump[c] # "none" => b = c
        /\ \A r \in Runs : baseline[r] <= epoch
        /\ \A r \in touched : baseline[r] < epoch

\* What a new baseline does to the invariant.
LEMMA NewBaselineKeeps ==
    ASSUME TypeOK, EpochInv, NEW R \in SUBSET Runs, NEW v \in Nat, v <= epoch,
           NewBaseline(R, v), overlapped' = overlapped, epoch' = epoch,
           bump' = bump, read' = read
    PROVE  EpochInv'
  BY DEF TypeOK, EpochInv, NewBaseline

LEMMA EpochStays ==
    ASSUME EpochInv, UNCHANGED <<epochVars, baseline, touched>>
    PROVE  EpochInv'
  BY DEF EpochInv, epochVars

LEMMA ReadsAtMost == ASSUME TypeOK PROVE ReadEpoch \in Nat /\ ReadEpoch <= epoch
  BY DEF TypeOK, ReadEpoch

LEMMA EpochInvStep ==
    ASSUME TypeOK, EpochInv, [Next]_vars
    PROVE  EpochInv'
<1>1. ASSUME NEW r \in Runs, Ends(r), UNCHANGED epochVars PROVE EpochInv'
  <2>1. NewBaseline({r}, 0) /\ 0 <= epoch /\ 0 \in Nat
    BY <1>1 DEF Ends, Forgets, TypeOK
  <2>2. QED
    BY <1>1, <2>1, NewBaselineKeeps DEF epochVars
<1>2. ASSUME NEW r \in Runs, Starts(r) \/ LooksAtLock(r) \/ ProbesPid(r)
               \/ RemovesStale(r) \/ WritesInfo(r) \/ ReviewEnds(r) \/ FixEnds(r)
               \/ SkipsFollowup(r)
      PROVE EpochInv'
  BY <1>2, EpochStays DEF Starts, LooksAtLock, ProbesPid, RemovesStale,
       WritesInfo, ReviewEnds, FixEnds, SkipsFollowup, watchVars
<1>3. ASSUME NEW r \in Runs, TryAcquire(r) PROVE EpochInv'
  BY <1>3, <1>1, EpochStays DEF TryAcquire, watchVars
<1>4. ASSUME NEW r \in Runs, CapturesEpoch(r) \/ FixIsDue(r) PROVE EpochInv'
  BY <1>4, NewBaselineKeeps, ReadsAtMost DEF CapturesEpoch, FixIsDue, epochVars
<1>5. ASSUME NEW r \in Runs, Judges(r) PROVE EpochInv'
  BY <1>5, <1>1, EpochStays DEF Judges, watchVars
<1>6. ASSUME NEW r \in Runs, Leaves(r) PROVE EpochInv'
  BY <1>6, <1>1 DEF Leaves
<1>7. ASSUME NEW b \in Bumpers, BumpReads(b) PROVE EpochInv'
  <2> SUFFICES ASSUME ~overlapped' PROVE EpochInv'
    BY DEF EpochInv
  <2>1. ~overlapped /\ ~torn /\ \A c \in Bumpers \ {b} : bump[c] = "none"
    BY <1>7 DEF BumpReads
  <2>2. read'[b] = epoch /\ epoch' = epoch
    BY <1>7, <2>1 DEF BumpReads, ReadEpoch, TypeOK
  <2>3. \A c \in Bumpers : bump'[c] # "none" => c = b
    BY <1>7, <2>1 DEF BumpReads, TypeOK
  <2>4. baseline' = baseline /\ touched' = touched
    BY <1>7 DEF BumpReads
  <2>5. QED
    BY <2>1, <2>2, <2>3, <2>4 DEF EpochInv
<1>8. ASSUME NEW b \in Bumpers, BumpTruncates(b) PROVE EpochInv'
  BY <1>8 DEF BumpTruncates, EpochInv, TypeOK, watchVars
<1>9. ASSUME NEW b \in Bumpers, BumpWrites(b) PROVE EpochInv'
  <2> SUFFICES ASSUME ~overlapped' PROVE EpochInv'
    BY DEF EpochInv
  <2>1. ~overlapped /\ baseline' = baseline
    BY <1>9 DEF BumpWrites
  <2>2. epoch' = epoch + 1 /\ epoch \in Nat
    BY <1>9, <2>1 DEF BumpWrites, Bumped, EpochInv, TypeOK
  <2>3. \A c \in Bumpers : bump'[c] = "none"
    BY <1>9, <2>1 DEF BumpWrites, EpochInv, TypeOK
  <2>4. touched' \subseteq Runs
    BY <1>9 DEF BumpWrites, TypeOK
  <2>5. \A r \in Runs : baseline'[r] < epoch' /\ baseline'[r] <= epoch'
    BY <2>1, <2>2 DEF EpochInv, TypeOK
  <2>6. QED
    BY <2>3, <2>4, <2>5 DEF EpochInv
<1>10. ASSUME NEW p \in Procs, Dies(p) PROVE EpochInv'
  <2> DEFINE gone == {r \in Runs : Pid[r] = p}
  <2>1. \A b \in Bumpers : bump'[b] # "none" => bump[b] # "none" /\ read'[b] = read[b]
    BY <1>10 DEF Dies
  <2>2. \A r \in Runs : baseline'[r] = baseline[r] \/ baseline'[r] = 0
    BY <1>10 DEF Dies, Forgets, NewBaseline
  <2>3. touched' \subseteq touched /\ epoch' = epoch /\ overlapped' = overlapped
    BY <1>10 DEF Dies, Forgets, NewBaseline
  <2>4. \A r \in touched' : baseline'[r] = baseline[r]
    BY <1>10 DEF Dies, Forgets, NewBaseline, TypeOK
  <2>5. QED
    BY <2>1, <2>2, <2>3, <2>4 DEF EpochInv, TypeOK
<1>11. ASSUME NEW p \in Procs, Returns(p) PROVE EpochInv'
  BY <1>11, EpochStays DEF Returns, watchVars
<1>12. CASE UNCHANGED vars
  BY <1>12, EpochStays DEF vars, watchVars
<1>13. QED
  BY <1>2, <1>3, <1>4, <1>5, <1>6, <1>7, <1>8, <1>9, <1>10, <1>11, <1>12
     DEF Next, RunNext, BumpNext

\* The epoch and the baselines keep this order, in spite of kills and half-done
\* bumps.
THEOREM EpochHolds == Spec => []EpochInv
<1>1. Init => EpochInv
  BY DEF Init, EpochInv
<1>2. TypeOK /\ EpochInv /\ [Next]_vars => EpochInv'
  BY EpochInvStep
<1>3. QED
  BY <1>1, <1>2, TypeCorrect, PTL DEF Spec

\* A run whose repository was bumped after its baseline sees a larger epoch,
\* whatever the number of runs, processes and bumps, while bumps do not overlap.
THEOREM BumpsAreNoticed == Spec => []BumpIsNoticed
<1>1. TypeOK /\ EpochInv => BumpIsNoticed
  BY DEF EpochInv, BumpIsNoticed, TypeOK
<1>2. QED
  BY <1>1, EpochHolds, TypeCorrect, PTL

\* Only the end of the fix makes a run that fixes follow up.
LEMMA OnlyFixEnds ==
    ASSUME TypeOK, [Next]_vars, NEW r \in Runs,
           pc[r] = "fixing", purpose'[r] = "followup", purpose[r] # "followup"
    PROVE  FixEnds(r)
<1> USE DEF TypeOK, Goes, At, runVars
<1>1. ASSUME NEW s \in Runs, RunNext(s), s # r PROVE purpose'[r] = purpose[r]
  BY <1>1 DEF RunNext, Starts, LooksAtLock, ProbesPid, RemovesStale, TryAcquire,
              WritesInfo, CapturesEpoch, ReviewEnds, Judges, FixIsDue, FixEnds,
              SkipsFollowup, Leaves, Ends, Forgets
<1>2. ASSUME RunNext(r) PROVE FixEnds(r)
  BY <1>2 DEF RunNext, Starts, LooksAtLock, ProbesPid, RemovesStale, TryAcquire,
              WritesInfo, CapturesEpoch, ReviewEnds, Judges, FixIsDue,
              SkipsFollowup, Leaves
<1>3. ASSUME NEW b \in Bumpers, BumpNext(b) PROVE purpose' = purpose
  BY <1>3 DEF BumpNext, BumpReads, BumpTruncates, BumpWrites
<1>4. ASSUME NEW p \in Procs, Dies(p) PROVE purpose'[r] \in {"review", purpose[r]}
  BY <1>4 DEF Dies, Forgets
<1>5. ASSUME NEW p \in Procs, Returns(p) PROVE purpose' = purpose
  BY <1>5 DEF Returns
<1>6. CASE UNCHANGED vars
  BY <1>6 DEF vars
<1>7. QED
  BY <1>1, <1>2, <1>3, <1>4, <1>5, <1>6 DEF Next

\* Who fixes acquired the lock for it: no other intent leads there.
FixInv == \A r \in Runs : pc[r] = "fixing" => purpose[r] = "fix"

LEMMA FixInvStep == ASSUME TypeOK, FixInv, [Next]_vars PROVE FixInv'
<1> USE DEF TypeOK, FixInv, Goes, At, runVars
<1>1. ASSUME NEW r \in Runs, RunNext(r) PROVE FixInv'
  BY <1>1 DEF RunNext, Starts, LooksAtLock, ProbesPid, RemovesStale, TryAcquire,
              WritesInfo, CapturesEpoch, ReviewEnds, Judges, FixIsDue, FixEnds,
              SkipsFollowup, Leaves, Ends, Forgets
<1>2. ASSUME NEW b \in Bumpers, BumpNext(b) PROVE FixInv'
  BY <1>2 DEF BumpNext, BumpReads, BumpTruncates, BumpWrites
<1>3. ASSUME NEW p \in Procs, Dies(p) PROVE FixInv'
  BY <1>3 DEF Dies, Forgets
<1>4. ASSUME NEW p \in Procs, Returns(p) PROVE FixInv'
  BY <1>4 DEF Returns
<1>5. CASE UNCHANGED vars
  BY <1>5 DEF vars
<1>6. QED
  BY <1>1, <1>2, <1>3, <1>4, <1>5 DEF Next

\* No follow-up review is decided on in spite of a bump since the baseline, for any number of runs,
\* processes and bumps, while bumps do not overlap.
THEOREM FollowupsAreCurrent == Spec => FollowupIsCurrent
<1>1. Init => FixInv
  BY DEF Init, FixInv
<1>2. TypeOK /\ FixInv /\ [Next]_vars => FixInv'
  BY FixInvStep
<1>3. TypeOK /\ FixInv /\ EpochInv /\ [Next]_vars
        => [\A r \in Runs :
              pc[r] = "fixing" /\ purpose'[r] = "followup" /\ ~overlapped /\ ~torn
                  => r \notin touched]_vars
  <2> SUFFICES ASSUME TypeOK, FixInv, EpochInv, [Next]_vars, NEW r \in Runs,
                      pc[r] = "fixing", purpose'[r] = "followup",
                      ~overlapped, ~torn
               PROVE  r \notin touched
    OBVIOUS
  <2>1. FixEnds(r)
    BY OnlyFixEnds DEF FixInv
  <2>2. ~(ReadEpoch > baseline[r])
    BY <2>1 DEF FixEnds, TypeOK
  <2>3. ReadEpoch = epoch
    BY DEF ReadEpoch
  <2>4. QED
    BY <2>2, <2>3 DEF EpochInv, TypeOK
<1>4. QED
  BY <1>1, <1>2, <1>3, EpochHolds, TypeCorrect, PTL DEF Spec, FollowupIsCurrent

=============================================================================

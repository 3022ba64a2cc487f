----------------------------- MODULE ReviewLock -----------------------------
(***************************************************************************)
(* Cross-process review coordination: the lock file and the snapshot epoch  *)
(* of core/src/review_coord.rs, used by the `code exec` runs that review a  *)
(* repository, fix what the review found and review again                   *)
(* (exec/src/lib.rs).                                                       *)
(*                                                                         *)
(* Several processes share two files and nothing else.  A file operation is *)
(* one step; everything the code does with two of them is two steps, and a  *)
(* process may be killed between any two.  Only the review stage of a run   *)
(* starts with a stale-lock check; a run makes one such check.              *)
(***************************************************************************)
EXTENDS Naturals, FiniteSets

CONSTANTS
    Runs,             \* the `code exec` runs with --review and auto-resolve
    Procs,            \* process ids
    Pid,              \* the process id each run gets
    PidsReturn,       \* those the system gives out again after a process is gone
    Mutators,         \* git mutations that bump the epoch from elsewhere
    MaxReReviews,     \* AutoResolveState.max_attempts, more than 0
    MaxEpoch,         \* bound: bumps
    NoFile            \* the lock file does not exist

ASSUME PidAssumption == Pid \in [Runs -> Procs] /\ PidsReturn \subseteq Procs
ASSUME MutatorsAssumption == Mutators \intersect Runs = {}
ASSUME BoundsAssumption == MaxReReviews \in Nat /\ MaxEpoch \in Nat
ASSUME NoFileAssumption == NoFile \notin [by : Runs, told : BOOLEAN]

VARIABLES
    file,             \* review.lock: who created it; its contents were written
    up,               \* the processes that run
    pc,               \* where each run is
    purpose,          \* the intent it acquires the lock for
    seen,             \* the run whose pid the stale-lock check read
    reviews,          \* AutoResolveState.attempt
    epoch, torn,      \* snapshot.epoch: its number; fs::write has truncated it
    bump, read,       \* the bumps in progress and the value each has read
    baseline,         \* last_review_epoch or AutoResolveState.snapshot_epoch
    overtaken,        \* history: a stale-lock check removed a live run's file
    overlapped,       \* history: two bumps were in progress at once
    watchers,         \* history: runs whose baseline is older than a bump
    touched           \* history: runs whose baseline a finished bump follows

lockVars == <<file, seen, overtaken>>
runVars == <<purpose, reviews>>
epochVars == <<epoch, torn, bump, read, overlapped>>
watchVars == <<baseline, watchers, touched>>
vars == <<lockVars, runVars, up, pc, epochVars, watchVars>>

-----------------------------------------------------------------------------

Places == {"idle", "looking", "probing", "removing", "acquiring", "writing",
           "snapping", "capturing", "reviewing", "judging", "pending",
           "fixing", "leaving"}

\* Where a ReviewGuard of the run is alive.
Guarded == {"writing", "snapping", "capturing", "reviewing", "fixing",
            "leaving"}

Alive(r) == Pid[r] \in up
At(r, place) == Alive(r) /\ pc[r] = place
Goes(r, place) == pc' = [pc EXCEPT ![r] = place]
Told == file # NoFile /\ file.told
Holders == {r \in Runs : pc[r] \in Guarded}

\* What read_epoch returns: a file it cannot parse counts as 0.
ReadEpoch == IF torn THEN 0 ELSE epoch

Bumpers == Runs \union Mutators

Init ==
    /\ file = NoFile
    /\ up = Procs
    /\ pc = [r \in Runs |-> "idle"]
    /\ purpose = [r \in Runs |-> "review"]
    /\ seen = [r \in Runs |-> r]
    /\ reviews = [r \in Runs |-> 0]
    /\ epoch = 0 /\ torn = FALSE
    /\ bump = [b \in Bumpers |-> "none"]
    /\ read = [b \in Bumpers |-> 0]
    /\ baseline = [r \in Runs |-> 0]
    /\ overtaken = FALSE /\ overlapped = FALSE
    /\ watchers = [b \in Bumpers |-> {}]
    /\ touched = {}

\* A baseline is taken or given up: what was bumped before does not concern it.
NewBaseline(R, value) ==
    /\ baseline' = [r \in Runs |-> IF r \in R THEN value ELSE baseline[r]]
    /\ touched' = touched \ R
    /\ watchers' = [b \in Bumpers |-> watchers[b] \ R]

\* What a run knows is gone when it ends, gives up or is killed.
Forgets(R) ==
    /\ purpose' = [r \in Runs |-> IF r \in R THEN "review" ELSE purpose[r]]
    /\ reviews' = [r \in Runs |-> IF r \in R THEN 0 ELSE reviews[r]]
    /\ NewBaseline(R, 0)

Ends(r) == Goes(r, "idle") /\ Forgets({r})

-----------------------------------------------------------------------------
(* clear_stale_lock_if_dead *)

\* read_lock_info: an absent or unreadable file means there is nothing to clear.
LooksAtLock(r) ==
    /\ At(r, "looking")
    /\ \/ /\ ~Told
          /\ Goes(r, "acquiring")
          /\ UNCHANGED seen
       \/ /\ Told
          /\ seen' = [seen EXCEPT ![r] = file.by]
          /\ Goes(r, "probing")
    /\ UNCHANGED <<file, overtaken, runVars, up, epochVars, watchVars>>

ProbesPid(r) ==
    /\ At(r, "probing")
    /\ seen' = [seen EXCEPT ![r] = r]
    /\ Goes(r, IF Alive(seen[r]) THEN "acquiring" ELSE "removing")
    /\ UNCHANGED <<file, overtaken, runVars, up, epochVars, watchVars>>

\* remove_file by path: whatever is there now, whoever created it.
RemovesStale(r) ==
    /\ At(r, "removing")
    /\ file' = NoFile
    /\ overtaken' = (overtaken \/ (file # NoFile /\ file.by \in Holders))
    /\ Goes(r, "acquiring")
    /\ UNCHANGED <<seen, runVars, up, epochVars, watchVars>>

-----------------------------------------------------------------------------
(* try_acquire_lock and the drop of the guard *)

\* The variant that opens the file without create_new.
TryAcquireShared(r) ==
    /\ At(r, "acquiring")
    /\ file' = [by |-> r, told |-> FALSE]
    /\ Goes(r, "writing")
    /\ UNCHANGED <<seen, overtaken, runVars, up, epochVars, watchVars>>

\* create_new: exactly one of the racing runs creates the file.  The others are
\* told that another review is running, and end or give up auto-resolve.
TryAcquire(r) ==
    /\ At(r, "acquiring")
    /\ \/ /\ file = NoFile
          /\ file' = [by |-> r, told |-> FALSE]
          /\ Goes(r, "writing")
          /\ UNCHANGED <<runVars, watchVars>>
       \/ /\ file # NoFile
          /\ Ends(r)
          /\ UNCHANGED file
    /\ UNCHANGED <<seen, overtaken, up, epochVars>>

\* The contents go to the file that was created: nowhere, if it was removed.
WritesInfo(r) ==
    /\ At(r, "writing")
    /\ file' = IF file # NoFile /\ file.by = r
               THEN [file EXCEPT !.told = TRUE] ELSE file
    /\ Goes(r, CASE purpose[r] = "fix"   -> "fixing"
                 [] purpose[r] = "stale" -> "leaving"
                 [] OTHER                -> "snapping")
    /\ UNCHANGED <<seen, overtaken, runVars, up, epochVars, watchVars>>

\* Drop for ReviewGuard: the file goes by its path.
DropsGuard == file' = NoFile

-----------------------------------------------------------------------------
(* bump_snapshot_epoch_for: read, truncate, write, with no lock *)

\* A bump counts what came before it: the baselines of now are older than it.
BumpReads(b) ==
    /\ bump[b] = "none" /\ ReadEpoch < MaxEpoch
    /\ b \in Runs => At(b, "snapping")
    /\ bump' = [bump EXCEPT ![b] = "read"]
    /\ read' = [read EXCEPT ![b] = ReadEpoch]
    /\ overlapped' = (overlapped \/ torn
                        \/ \E c \in Bumpers \ {b} : bump[c] # "none")
    /\ watchers' = [watchers EXCEPT ![b] = Runs]
    /\ UNCHANGED <<lockVars, runVars, up, pc, epoch, torn, baseline, touched>>

BumpTruncates(b) ==
    /\ bump[b] = "read"
    /\ bump' = [bump EXCEPT ![b] = "torn"]
    /\ torn' = TRUE
    /\ UNCHANGED <<lockVars, runVars, up, pc, epoch, read, overlapped, watchVars>>

\* The variant that writes back what it read.
BumpedByNone(b) == read[b]

\* What a bump writes: the number it read, and one.
Bumped(b) == read[b] + 1

BumpWrites(b) ==
    /\ bump[b] = "torn"
    /\ bump' = [bump EXCEPT ![b] = "none"]
    /\ epoch' = Bumped(b) /\ torn' = FALSE
    /\ read' = [read EXCEPT ![b] = 0]
    /\ touched' = touched \union watchers[b]
    /\ watchers' = [watchers EXCEPT ![b] = {}]
    /\ pc' = [r \in Runs |-> IF r = b THEN "capturing" ELSE pc[r]]
    /\ UNCHANGED <<lockVars, runVars, up, overlapped, baseline>>

-----------------------------------------------------------------------------
(* A run: review, fix, follow-up review *)

Starts(r) ==
    /\ At(r, "idle")
    /\ Goes(r, "looking")
    /\ UNCHANGED <<lockVars, runVars, up, epochVars, watchVars>>

\* last_review_epoch, after the snapshots whose own bumps must not count.
CapturesEpoch(r) ==
    /\ At(r, "capturing")
    /\ NewBaseline({r}, ReadEpoch)
    /\ Goes(r, "reviewing")
    /\ UNCHANGED <<lockVars, runVars, up, epochVars>>

\* ExitedReviewMode: the guard goes before the epoch is compared.
ReviewEnds(r) ==
    /\ At(r, "reviewing")
    /\ DropsGuard
    /\ Goes(r, "judging")
    /\ UNCHANGED <<seen, overtaken, runVars, up, epochVars, watchVars>>

\* The variant that never counts the reviews against the limit.
JudgesForEver(r) ==
    /\ At(r, "judging")
    /\ reviews' = [reviews EXCEPT ![r] = @ + 1]
    /\ Goes(r, "pending")
    /\ UNCHANGED <<purpose, watchVars, lockVars, up, epochVars>>

\* A changed epoch, a clean review or the attempt limit ends auto-resolve.  The
\* epoch is compared only if the review tells of a snapshot: without one the run
\* goes on, whatever was bumped.
Judges(r) ==
    /\ At(r, "judging")
    /\ \/ Ends(r)
       \/ /\ \E snapshot \in BOOLEAN : snapshot => ReadEpoch = baseline[r]
          /\ reviews[r] < MaxReReviews
          /\ reviews' = [reviews EXCEPT ![r] = @ + 1]
          /\ Goes(r, "pending")
          /\ UNCHANGED <<purpose, watchVars>>
    /\ UNCHANGED <<lockVars, up, epochVars>>

\* TaskComplete in PendingFix: the baseline of the fix is read before its lock
\* is tried.
FixIsDue(r) ==
    /\ At(r, "pending")
    /\ NewBaseline({r}, ReadEpoch)
    /\ purpose' = [purpose EXCEPT ![r] = "fix"]
    /\ Goes(r, "acquiring")
    /\ UNCHANGED <<lockVars, reviews, up, epochVars>>

\* The variant that does not compare the epoch.
FixEndsUnjudged(r) ==
    /\ At(r, "fixing")
    /\ DropsGuard
    /\ \E verdict \in {"stale", "followup"} :
          purpose' = [purpose EXCEPT ![r] = verdict]
    /\ Goes(r, "acquiring")
    /\ UNCHANGED <<seen, overtaken, reviews, up, epochVars, watchVars>>

\* TaskComplete in AwaitingFix: the epoch is read, the fix guard dropped, the
\* follow-up lock tried, and only then the epoch compared with the baseline.  A
\* follow-up is stale as well when HEAD has left the base or nothing differs.
FixEnds(r) ==
    /\ At(r, "fixing")
    /\ DropsGuard
    /\ \E verdict \in {"stale", "followup"} :
          /\ ReadEpoch > baseline[r] => verdict = "stale"
          /\ purpose' = [purpose EXCEPT ![r] = verdict]
    /\ Goes(r, "acquiring")
    /\ UNCHANGED <<seen, overtaken, reviews, up, epochVars, watchVars>>

\* should_skip_followup: the snapshot is the one that was reviewed last.
SkipsFollowup(r) ==
    /\ At(r, "capturing") /\ purpose[r] = "followup"
    /\ Goes(r, "leaving")
    /\ UNCHANGED <<lockVars, runVars, up, epochVars, watchVars>>

Leaves(r) ==
    /\ At(r, "leaving")
    /\ DropsGuard
    /\ Ends(r)
    /\ UNCHANGED <<seen, overtaken, up, epochVars>>

-----------------------------------------------------------------------------
(* Processes *)

\* A process exits or is killed: no guard is dropped, a bump stops half-way.
Dies(p) ==
    LET gone == {r \in Runs : Pid[r] = p}
    IN  /\ p \in up
        /\ up' = up \ {p}
        /\ pc' = [r \in Runs |-> IF r \in gone THEN "idle" ELSE pc[r]]
        /\ seen' = [r \in Runs |-> IF r \in gone THEN r ELSE seen[r]]
        /\ bump' = [b \in Bumpers |-> IF b \in gone THEN "none" ELSE bump[b]]
        /\ read' = [b \in Bumpers |-> IF b \in gone THEN 0 ELSE read[b]]
        /\ Forgets(gone)
        /\ UNCHANGED <<file, overtaken, epoch, torn, overlapped>>

\* A process id is given out again.
Returns(p) ==
    /\ p \in PidsReturn \ up
    /\ up' = up \union {p}
    /\ UNCHANGED <<lockVars, runVars, pc, epochVars, watchVars>>

RunNext(r) ==
    \/ Starts(r) \/ LooksAtLock(r) \/ ProbesPid(r) \/ RemovesStale(r)
    \/ TryAcquire(r) \/ WritesInfo(r) \/ CapturesEpoch(r)
    \/ ReviewEnds(r) \/ Judges(r) \/ FixIsDue(r) \/ FixEnds(r)
    \/ SkipsFollowup(r) \/ Leaves(r)

BumpNext(b) == BumpReads(b) \/ BumpTruncates(b) \/ BumpWrites(b)

Next ==
    \/ \E r \in Runs : RunNext(r)
    \/ \E b \in Bumpers : BumpNext(b)
    \/ \E p \in Procs : Dies(p) \/ Returns(p)

Spec == Init /\ [][Next]_vars

-----------------------------------------------------------------------------
(* Properties *)

\* The shape of the state.
TypeOK ==
    /\ file \in [by : Runs, told : BOOLEAN] \union {NoFile}
    /\ up \subseteq Procs
    /\ pc \in [Runs -> Places]
    /\ purpose \in [Runs -> {"review", "fix", "followup", "stale"}]
    /\ seen \in [Runs -> Runs]
    /\ reviews \in [Runs -> 0 .. MaxReReviews]
    /\ epoch \in Nat /\ torn \in BOOLEAN
    /\ bump \in [Bumpers -> {"none", "read", "torn"}]
    /\ read \in [Bumpers -> Nat]
    /\ baseline \in [Runs -> Nat]
    /\ overtaken \in BOOLEAN /\ overlapped \in BOOLEAN
    /\ watchers \in [Bumpers -> SUBSET Runs]
    /\ touched \subseteq Runs

\* Two runs never review, fix or prepare a snapshot at the same time, as long as
\* no stale-lock check removed the file of a live run (it can: it removes by
\* path what it looked at earlier).  Kills, process ids given out again and
\* half-written lock files do not break it.
OneHolder ==
    ~overtaken => \A r, s \in Holders : r = s

\* A bump a run has to notice makes the epoch larger than its baseline.
BumpIsNoticed ==
    ~overlapped /\ ~torn => \A r \in touched : epoch > baseline[r]

\* A run never goes from its fix to a follow-up review when a bump of another
\* run or of a git mutation began after the baseline of the fix was read and was
\* over before the fix was, while the run waited for the lock included, as long
\* as bumps do not overlap and the file is not read truncated.
FollowupIsCurrent ==
    [][\A r \in Runs :
          pc[r] = "fixing" /\ purpose'[r] = "followup" /\ ~overlapped /\ ~torn
              => r \notin touched]_vars

=============================================================================

------------------------------ MODULE WatchTicks ------------------------------
(***************************************************************************)
(* The watch daemon on one machine (src/src/watch/watch.ts): ticks that    *)
(* may overlap, the reviews they launch, and what they leave behind: the   *)
(* launched lines of watch.log, watch.lock, the pid lock of the worktree,  *)
(* the run directories, and the comment and the commit status on GitHub.   *)
(*                                                                         *)
(* One calendar day, one repository, one head per PR (so on_push does not  *)
(* matter), no draft and no PR over the size limits; the window is open.   *)
(***************************************************************************)
EXTENDS Naturals, FiniteSets, FiniteSetsExt

CONSTANTS
  Ticks,        \* the tick processes that can be alive together
  Prs,          \* the PR numbers, listed in ascending order
  Generated,    \* those whose changed files are all excluded content
  DailyCap,     \* daily_cap
  MaxAttempts,  \* MAX_WATCH_ATTEMPTS
  MaxVetoes,    \* PRE_LAUNCH_VETO_MAX_ATTEMPTS
  LockAttempts, \* PID_LOCK_ATTEMPTS
  Post,         \* repos[].post
  MaxFaults     \* bound: faults of a behaviour

ASSUME WatchAssumption ==
  /\ IsFiniteSet(Ticks) /\ Ticks # {} /\ {"none", "dead"} \cap Ticks = {}
  /\ Prs \subseteq Nat \ {0} /\ Generated \subseteq Prs
  /\ DailyCap \in Nat /\ MaxAttempts \in Nat /\ MaxFaults \in Nat
  /\ MaxVetoes \in Nat /\ LockAttempts \in Nat \ {0}
  /\ Post \in BOOLEAN

VARIABLES
  tick,     \* the ticks
  review,   \* the review each tick launched last: the child process
  log,      \* the launched lines of today
  lock,     \* whose pid watch.lock holds: a tick's, "dead", or there is no file
  wtLock,   \* the pid lock of each PR's worktree
  dirs,     \* the run directories of each PR
  done,     \* PRs with a findings.json whose session did not fail
  marker,   \* PRs with a comment that declares the head
  status,   \* the latest status of each head on the pr-hero/local context
  faults    \* faults so far

vars == <<tick, review, log, lock, wtLock, dirs, done, marker, status, faults>>
github == <<marker, status>>
disk == <<log, lock, wtLock, dirs, done>>

NoPr == 0
Idle == [pc |-> "idle", done |-> {}, spent |-> {}, settle |-> {}, pick |-> NoPr]
NoReview == [pc |-> "none", pr |-> NoPr, tries |-> 0]
NoFile == [by |-> "none", pid |-> FALSE]

TickPcs == {"idle", "counted", "unlocked", "locked", "scanned", "decided",
            "settled", "booked", "waiting"}
ReviewPcs == {"none", "open", "claim", "look", "steal", "fetch", "begin",
              "pipeline", "comment", "settle", "release"}

TickType == [pc : TickPcs, done : SUBSET Prs, spent : SUBSET Prs,
             settle : SUBSET Prs, pick : Prs \cup {NoPr}]
ReviewType == [pc : ReviewPcs, pr : Prs \cup {NoPr}, tries : 0 .. LockAttempts]
FileType == [by : Ticks \cup {"none", "dead"}, pid : BOOLEAN]
StatusType == {"none", "pending", "stale", "settled"}

Init ==
  /\ tick = [t \in Ticks |-> Idle]
  /\ review = [t \in Ticks |-> NoReview]
  /\ log = 0 /\ lock = "none"
  /\ wtLock = [pr \in Prs |-> NoFile]
  /\ dirs = [pr \in Prs |-> 0] /\ done = {}
  /\ marker = {} /\ status = [pr \in Prs |-> "none"]
  /\ faults = 0

Fault == faults < MaxFaults /\ faults' = faults + 1

\* A write to GitHub that may not land: then the caller goes on regardless.
Write(written, unwritten) ==
  \/ written /\ UNCHANGED faults
  \/ unwritten /\ Fault

TickTo(t, pc) == tick' = [tick EXCEPT ![t].pc = pc]
ReviewTo(t, pc) == review' = [review EXCEPT ![t].pc = pc]

-----------------------------------------------------------------------------
(* The tick.                                                               *)

\* watchOnce: the launched lines are counted before anything is locked.  A
\* spent cap ends the tick.
Count(t) ==
  /\ tick[t].pc = "idle" /\ review[t].pc = "none"
  /\ log < DailyCap
  /\ TickTo(t, "counted")
  /\ UNCHANGED <<review, disk, github, faults>>

\* lockHolder: a pid of a live process ends the tick, anything else is taken.
CheckLock(t) ==
  /\ tick[t].pc = "counted"
  /\ IF lock \in {"none", "dead"} THEN TickTo(t, "unlocked")
                                  ELSE tick' = [tick EXCEPT ![t] = Idle]
  /\ UNCHANGED <<review, disk, github, faults>>

\* The lock file is overwritten, whoever wrote one since the check.
WriteLock(t) ==
  /\ tick[t].pc = "unlocked"
  /\ lock' = t
  /\ TickTo(t, "locked")
  /\ UNCHANGED <<review, log, wtLock, dirs, done, github, faults>>

\* Mutant: one attempt more.
SpentLater(pr) == dirs[pr] > MaxAttempts

Spent(pr) == dirs[pr] >= MaxAttempts

\* scanRunDirs and countAttempts.
Scan(t) ==
  /\ tick[t].pc = "locked"
  /\ tick' = [tick EXCEPT ![t].pc = "scanned", ![t].done = done,
                          ![t].spent = {pr \in Prs : Spent(pr)}]
  /\ UNCHANGED <<review, disk, github, faults>>

\* candidateSkipReason: the first hit, in the order of the code.
SkipReason(t, pr) ==
  IF pr \in tick[t].done THEN "reviewed-local"
  ELSE IF pr \in marker THEN "reviewed-remote"
  ELSE IF status[pr] = "pending" THEN "in-flight"
  ELSE IF pr \in tick[t].spent THEN "attempts-exhausted"
  ELSE "eligible"

\* Mutant: the review that will not be retried keeps its dot.
SettleReasonsReviewed == {"reviewed-local", "reviewed-remote"}

\* SETTLE_SKIP_REASONS.
SettleReasons == {"reviewed-local", "reviewed-remote", "attempts-exhausted"}

\* The pending facts: gatherRepoFacts goes on to the next candidate before it
\* asks GitHub about one that this machine has reviewed.
Pending(t) == {pr \in Prs \ tick[t].done : status[pr] \in {"pending", "stale"}}

\* pendingReviewsToSettle.
ToSettle(t) == {pr \in Pending(t) : SkipReason(t, pr) \in SettleReasons}

Before(pr, prs) == {q \in prs : q < pr}

\* The candidates the veto looks at: it stops after MaxVetoes vetoed ones.
Considered(eligible) ==
  {pr \in eligible : Cardinality(Before(pr, eligible)) < MaxVetoes}

\* Mutant: a vetoed candidate takes the launch with it.
LaunchFirstOnly(eligible, unread) ==
  LET first == IF eligible = {} THEN NoPr ELSE Min(eligible)
  IN IF first \in Generated \ unread THEN NoPr ELSE first

\* selectLaunchAfterVeto with the files of the candidates in `unread` not
\* readable, which lets such a candidate through: the first one not vetoed.
Launch(eligible, unread) ==
  LET passed == Considered(eligible) \ (Generated \ unread)
  IN IF passed = {} THEN NoPr ELSE Min(passed)

\* gatherRepoFacts from the first call to GitHub on, and decideTick; the veto's
\* calls read nothing that changes and are taken together with them.
Decide(t) ==
  LET eligible == {pr \in Prs : SkipReason(t, pr) = "eligible"}
      Picked(unread) ==
        tick' = [tick EXCEPT ![t].pc = "decided", ![t].settle = ToSettle(t),
                             ![t].pick = Launch(eligible, unread)]
  IN /\ tick[t].pc = "scanned"
     /\ \/ Picked({}) /\ UNCHANGED faults
        \/ \E pr \in eligible \cap Generated : Picked({pr}) /\ Fault
     /\ UNCHANGED <<review, disk, github>>

\* settleOrphanPendings: one POST per leftover, a failed one is left for later.
SettleOrphans(t) ==
  LET Posted(prs) ==
        status' = [pr \in Prs |-> IF pr \in prs THEN "settled" ELSE status[pr]]
  IN /\ tick[t].pc = "decided"
     /\ Write(Posted(tick[t].settle),
              \E pr \in tick[t].settle : Posted(tick[t].settle \ {pr}))
     /\ tick' = [tick EXCEPT ![t].pc = "settled", ![t].settle = {}]
     /\ UNCHANGED <<review, disk, marker>>

\* The end of a tick: its finally removes watch.lock, whoever's it is by then.
End(t) ==
  /\ lock' = "none"
  /\ tick' = [tick EXCEPT ![t] = Idle]
  /\ UNCHANGED <<log, wtLock, dirs, done, github>>

NothingToLaunch(t) ==
  /\ tick[t].pc = "settled" /\ tick[t].pick = NoPr
  /\ End(t)
  /\ UNCHANGED <<review, faults>>

\* Mutant: the line is left to the outcome.
BookNothing(t) ==
  /\ tick[t].pc = "settled" /\ tick[t].pick # NoPr
  /\ TickTo(t, "booked")
  /\ UNCHANGED <<review, disk, github, faults>>

\* The launched line goes to the log before the child is spawned.
Book(t) ==
  /\ tick[t].pc = "settled" /\ tick[t].pick # NoPr
  /\ log' = log + 1
  /\ TickTo(t, "booked")
  /\ UNCHANGED <<review, lock, wtLock, dirs, done, github, faults>>

Spawn(t) ==
  /\ tick[t].pc = "booked"
  /\ TickTo(t, "waiting")
  /\ review' = [review EXCEPT ![t] =
                  [pc |-> "open", pr |-> tick[t].pick, tries |-> LockAttempts]]
  /\ UNCHANGED <<disk, github, faults>>

\* The child has exited: outcome line, notification, and the tick ends.
Reap(t) ==
  /\ tick[t].pc = "waiting" /\ review[t].pc = "none"
  /\ End(t)
  /\ UNCHANGED <<review, faults>>

\* A gh or git call, or the spawn, throws: the tick ends through its finally.
TickThrows(t) ==
  /\ tick[t].pc \in {"locked", "scanned", "booked"}
  /\ End(t) /\ Fault
  /\ UNCHANGED review

\* The tick is killed: no finally runs, and a review it launched goes on.
KillTick(t) ==
  /\ tick[t].pc # "idle"
  /\ lock' = IF lock = t THEN "dead" ELSE lock
  /\ tick' = [tick EXCEPT ![t] = Idle]
  /\ Fault
  /\ UNCHANGED <<review, log, wtLock, dirs, done, github>>

TickStep(t) ==
  Count(t) \/ CheckLock(t) \/ WriteLock(t) \/ Scan(t) \/ Decide(t)
    \/ SettleOrphans(t) \/ NothingToLaunch(t) \/ Book(t) \/ Spawn(t) \/ Reap(t)

-----------------------------------------------------------------------------
(* The review: `crysk review --pr <n> --yes`.                              *)

Pr(t) == review[t].pr
SetLock(t, file) == wtLock' = [wtLock EXCEPT ![Pr(t)] = file]
Exit(t) == review' = [review EXCEPT ![t] = NoReview]
KeepDisk == UNCHANGED <<log, lock, dirs, done>>

\* acquirePidLock, an iteration: open(path, "wx") creates the file, empty, or
\* finds one.
OpenLock(t) ==
  /\ review[t].pc = "open"
  /\ IF review[t].tries = 0 THEN Exit(t) /\ UNCHANGED wtLock
     ELSE IF wtLock[Pr(t)] = NoFile
     THEN ReviewTo(t, "claim") /\ SetLock(t, [by |-> t, pid |-> FALSE])
     ELSE /\ review' = [review EXCEPT ![t].pc = "look", ![t].tries = @ - 1]
          /\ UNCHANGED wtLock
  /\ KeepDisk /\ UNCHANGED <<tick, github, faults>>

\* The pid goes into the file that was opened, be it still in its place or not.
ClaimLock(t) ==
  /\ review[t].pc = "claim"
  /\ wtLock' = IF wtLock[Pr(t)].by = t
               THEN [wtLock EXCEPT ![Pr(t)].pid = TRUE] ELSE wtLock
  /\ ReviewTo(t, "fetch")
  /\ KeepDisk /\ UNCHANGED <<tick, github, faults>>

\* decidePidLock: held by a live pid, gone again, or to be stolen.
LookAtLock(t) ==
  LET file == wtLock[Pr(t)]
  IN /\ review[t].pc = "look"
     /\ IF file.pid /\ file.by \in Ticks THEN Exit(t)
        ELSE ReviewTo(t, IF file = NoFile THEN "open" ELSE "steal")
     /\ UNCHANGED <<tick, disk, github, faults>>

\* rm of what was a dead holder's file when it was read.
StealLock(t) ==
  /\ review[t].pc = "steal"
  /\ SetLock(t, NoFile)
  /\ ReviewTo(t, "open")
  /\ KeepDisk /\ UNCHANGED <<tick, github, faults>>

\* Up to the run directory: an empty effective diff and a pending status end the
\* review without one.
Preflight(t) ==
  /\ review[t].pc = "fetch"
  /\ IF Pr(t) \in Generated \/ status[Pr(t)] = "pending"
     THEN ReviewTo(t, "release") /\ UNCHANGED dirs
     ELSE ReviewTo(t, "begin") /\ dirs' = [dirs EXCEPT ![Pr(t)] = @ + 1]
  /\ UNCHANGED <<tick, log, lock, wtLock, done, github, faults>>

\* A preflight that fails: the gotchas, the prompt set, a git fetch.
PreflightDies(t) ==
  /\ review[t].pc = "fetch"
  /\ ReviewTo(t, "release") /\ Fault
  /\ UNCHANGED <<tick, disk, github>>

SetStatus(t, state) == status' = [status EXCEPT ![Pr(t)] = state]

\* The pending status, and the worktree and the runner are set up.
Begin(t) ==
  /\ review[t].pc = "begin"
  /\ Write(SetStatus(t, "pending"), UNCHANGED status)
  /\ ReviewTo(t, "pipeline")
  /\ UNCHANGED <<tick, disk, marker>>

\* The pipeline ends: findings.json, whose session failed or did not.
Findings(t) ==
  /\ review[t].pc = "pipeline"
  /\ \/ /\ done' = done \cup {Pr(t)} /\ UNCHANGED faults
        /\ ReviewTo(t, IF Post THEN "comment" ELSE "settle")
     \/ UNCHANGED done /\ Fault /\ ReviewTo(t, "settle")
  /\ UNCHANGED <<tick, log, lock, wtLock, dirs, github>>

PostComment(t) ==
  /\ review[t].pc = "comment"
  /\ Write(marker' = marker \cup {Pr(t)}, UNCHANGED marker)
  /\ ReviewTo(t, "settle")
  /\ UNCHANGED <<tick, disk, status>>

\* The closing status of a run that is not the gate's: a failure is swallowed.
SettleStatus(t) ==
  /\ review[t].pc = "settle"
  /\ Write(SetStatus(t, "settled"), UNCHANGED status)
  /\ ReviewTo(t, "release")
  /\ UNCHANGED <<tick, disk, marker>>

\* finalizePrReviewRun: the lock file is removed, whoever's it is by then.
Release(t) ==
  /\ review[t].pc = "release"
  /\ SetLock(t, NoFile)
  /\ Exit(t)
  /\ KeepDisk /\ UNCHANGED <<tick, github, faults>>

Held(t) == review[t].pc \in {"pipeline", "comment", "settle"}

\* The review dies; the handler of a signal settles the status it holds, SIGKILL
\* does not, and neither removes the lock file.
KillReview(t) ==
  /\ review[t].pc # "none"
  /\ wtLock' = [pr \in Prs |-> IF wtLock[pr].by = t
                               THEN [wtLock[pr] EXCEPT !.by = "dead"]
                               ELSE wtLock[pr]]
  /\ \/ UNCHANGED status
     \/ Held(t) /\ SetStatus(t, "settled")
  /\ Exit(t) /\ Fault
  /\ KeepDisk /\ UNCHANGED <<tick, marker>>

ReviewStep(t) ==
  OpenLock(t) \/ ClaimLock(t) \/ LookAtLock(t) \/ StealLock(t) \/ Preflight(t)
    \/ Begin(t) \/ Findings(t) \/ PostComment(t) \/ SettleStatus(t) \/ Release(t)

\* isInFlightCommitStatus: a pending older than IN_FLIGHT_TTL_MS counts no more.
\* A live review is younger: its pipeline has a ceiling below the TTL.
Age(pr) ==
  /\ status[pr] = "pending"
  /\ \A t \in Ticks : ~(Held(t) /\ Pr(t) = pr)
  /\ status' = [status EXCEPT ![pr] = "stale"]
  /\ UNCHANGED <<tick, review, disk, marker, faults>>

Next ==
  \/ \E t \in Ticks :
       \/ TickStep(t) \/ TickThrows(t) \/ KillTick(t)
       \/ ReviewStep(t) \/ PreflightDies(t) \/ KillReview(t)
  \/ \E pr \in Prs : Age(pr)

Spec == Init /\ [][Next]_vars

\* The scheduler goes on firing ticks, a started process runs, time passes.
FairSpec ==
  /\ Spec
  /\ \A t \in Ticks : WF_vars(TickStep(t)) /\ WF_vars(ReviewStep(t))
  /\ \A pr \in Prs : WF_vars(Age(pr))

-----------------------------------------------------------------------------
(* Properties.                                                             *)

TypeOK ==
  /\ tick \in [Ticks -> TickType] /\ review \in [Ticks -> ReviewType]
  /\ log \in Nat /\ lock \in Ticks \cup {"none", "dead"}
  /\ wtLock \in [Prs -> FileType]
  /\ dirs \in [Prs -> Nat] /\ done \subseteq Prs /\ marker \subseteq Prs
  /\ status \in [Prs -> StatusType]
  /\ faults \in 0 .. MaxFaults

RunDirs == UNION {{pr} \X (1 .. dirs[pr]) : pr \in Prs}

\* Every review that got as far as a run directory is a launched line, also when
\* its tick died.
RunsAreLines == Cardinality(RunDirs) <= log

\* The lines pass the cap by no more than the ticks that were alive beside the
\* last one: each of those may have counted before it.
CapOverrun == log <= DailyCap + Cardinality(Ticks) - 1

\* What the reviews of a day spend is on the lines the cap is counted from, and
\* the cap bounds these.
SpendIsCounted == RunsAreLines /\ CapOverrun

\* A head is attempted MAX_WATCH_ATTEMPTS times, and once more by each tick that
\* scanned the run directories before the last attempt made its own.
AttemptsBounded ==
  \A pr \in Prs : dirs[pr] <= MaxAttempts + Cardinality(Ticks) - 1

CapReached == log >= DailyCap

\* Every PR with something to review is attempted on the day, unless the cap is
\* reached first: neither a vetoed PR before it, nor a stale lock or a status
\* left by a process that died keeps it from its turn.
EveryPrIsAttempted ==
  \A pr \in Prs \ Generated : <>(dirs[pr] > 0 \/ CapReached)

\* The head still shows the dot of a review that is no more.
Leftover(pr) ==
  /\ status[pr] \in {"pending", "stale"}
  /\ \A t \in Ticks : ~(Held(t) /\ Pr(t) = pr)

\* The dot left on a head that has no review on this machine is answered: the
\* head is reviewed again or, when its attempts are spent, the dot is settled.
DeadDotIsAnswered ==
  \A pr \in Prs :
    [](Leftover(pr) => <>(~Leftover(pr) \/ pr \in done \/ CapReached))

\* What README.md says of daily_cap, and of the lock that keeps overlapping ticks
\* from doubling up.
DailyCapHolds == log <= DailyCap

\* What TickRepoFacts says of a pending on a head that has been reviewed: it must
\* be settled, so that the dot does not stick.
LeftoverIsSettled ==
  \A pr \in Prs : [](Leftover(pr) => <>(~Leftover(pr) \/ CapReached))
==============================================================================

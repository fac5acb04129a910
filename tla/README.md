# TLA+ models of Crysk

Crysk (formerly pr-hero) reviews pull requests: hunter agents run as *steps* over
a diff, their drafts are deduplicated, a refuter challenges the severe ones, and
deterministic code publishes the result. This directory models the parts of it
that are hardest to test: the step execution core (what happens to slots, money,
processes, artifacts and receipts when many steps run at once, fail, retry, time
out and are cancelled), the review pipeline under its time ceiling, the CI jobs
that review one head of a pull request, and the watch daemon. All paths below are
in `src/src` unless they say otherwise.

    tlc -workers 2 -config ConcurrencyLimiter.cfg MCConcurrencyLimiter
    tlapm SpendLedgerProofs.tla

## The parts that are modelled

A review is started by a CI job (`CiHead`) or by a tick of the watch daemon
(`WatchTicks`); either runs the pipeline (`PipelineCeiling`), whose legs are steps.
A **step** is one agent invocation. Its journey crosses five components:

    MultiProviderRunner.run ─ acquires the route's cached transport   TransportLeases
      └ StepExecutionHarness.run
          └ admitAndExecute: the attempt loop                         StepHarness
              ├ AttemptAdmissionGate → ConcurrencyLimiter             ConcurrencyLimiter
              ├ SpendLedger: reserve before, settle after             SpendLedger
              ├ executeSession: transport, cancel, watchdog race      AttemptSession
              └ decideRetryDisposition: what a failure may do next    FailurePolicy, RetryLoop

Everything runs in one JavaScript process, so code between two awaits is atomic.
An action of a model is therefore the code from one await to the next, with every
call it makes; what interleaves is the order in which awaits are answered.

### Concurrency limiter (`execution/concurrency-limiter.ts`, `execution/admission.ts`)

*State*: slots in use per bucket and overall, a FIFO of waiting requests per bucket
(a Map, whose key order matters to `release`), the tripped buckets. *Operations*:
`acquire` (with an abort signal), the abort listener, `release` of a lease,
`tripBreaker`. All are synchronous and pump queues to the end. *Hard*: an abort
racing a grant; a release that frees capacity for another bucket; double release;
requests after a breaker. *Correct when* counters count live leases, ceilings hold,
nobody waits beside a free slot, no request is lost or left behind in a queue, and nobody
waits on a tripped bucket.

`ConcurrencyLimiter` has one action per call. `Admits` is the `pump` loop as an
arithmetic fact: it shifts as many requests as there is room for. `PumpedInOrder`
is the loop of `release` over the buckets, own bucket first, with the running
global count as a function over the Map order. A step stands for a caller with one
request at a time. `AdmissionSlots` is the promise: holders within both ceilings,
free and wanted capacity handed out at once, to whom is not said; the run checks that
the limiter implements it, and so does a proof (`ImplementsSlots`).

### Spend ledger (`execution/spend-limiter.ts`)

*State*: reservations (bucket, state, idempotency key of the terminal transition) and
fenced buckets. *Operations*: `reserve`, `settle`, `releaseUnstarted`,
`markUnresolvedRemote`; the last three are one compare-and-set, `transition`. *Hard*:
repeats and conflicting finishers; a fence raised by a transition that did not
apply. *Correct when* a terminal state is final, an acknowledgement is true, and a
bucket is fenced exactly when it carries spend nobody could account for.

In `SpendLedger` the variable `reply` records what the last call answered.
`SettlementFromUsage` keeps of a usage report what the rule distinguishes: complete
or not, unknown, zero or positive cash, the billing mode, and whether output was
delivered.

### Failure policy (`execution/failure-policy.ts`, `failure-classification.ts`)

Pure functions. `FailurePolicy` has the resolution of a cause (`Resolve`: watchdog,
then the cause stamped by the transport, then its classifier, then a parse error, then the
legacy patterns), the retry decision (`Decide`) and the legacy class that decides
what happens to the artifact (`LegacyClassification`). `RetryLoop` runs them over a
whole sequence of attempts. *Hard*: two budgets with two boundaries, and two tables
over the same causes, kept by hand. How long a rate-limited retry waits is left out.

### Attempt session (`executeSession` of `execution/harness.ts`, `execution/settlement.ts`)

*State*: the transport promise and its outcome, the cancel signal, the winner of the
race, the write lease and sink fence (always closed together, hence one variable
`fenced`), the terminal compare-and-set slot, the receipt, the artifact. *Hard*:
the race is decided in one turn and acted upon in a later one, so the transport can
still resolve or push in between; terminals arrive after the fence or after the receipt;
the transport may hang and ignore the abort; writes may fail. *Correct when* a
receipt claims only what the transport proved, is the last thing that happens, and
always comes.

`AttemptSession` separates the environment (`PushTerminal`, `ExecResolves`,
`ExecRejects`, `Cancel`, `RaceBy`) from the continuations (`NoOutcomeToDeliver`, `StartDelivery`,
`Deliver`, `DeliveryThrows`, `Fence`, `GraceEnds`, `Persist`). The
transport's declared cancellation semantics (`provider-proof`, `process-exit`, none)
are chosen in `Init`. Data events carry no session state and are left out.

### Step harness (`admitAndExecute`, `runAttempt`, `finalizeReservation`, `runAdmittedAttempt`)

`StepHarness` composes: it `INSTANCE`s `ConcurrencyLimiter` and `SpendLedger` and uses
`FailurePolicy`, and runs several steps against one limiter and one ledger. A session
is abstracted to the set of results `AttemptSession` shows it may have
(`SessionResults`). *State per step*: `pc` (top of the loop, acquiring, reserved,
starting, executing, fencing, settling, leaving, sleeping, done), the retry
counters, and the result of the last attempt. *Hard*: cancellation between any two
awaits; an attempt refused by the limiter, the breaker or the fence; the finally
block on every path; retries that reserve again; a free route that turns out priced.

| action | code |
| --- | --- |
| `CancelledAtTop`, `Begin`, `Unadmitted` | loop head, `attemptAdmissionGate.acquire` and its two rejections |
| `Granted`, `ReservedResume` | `spendLedger.reserve`, its fence error, and the one cancel check after it |
| `StartSession`, `EndSession` | freezing the request identity, `executeSession` |
| `Settle` | `reportUnconfirmedRemote`, `finalizeReservation`, the free-route flip |
| `Leave`, `Wake` | the finally block, `decideRetryDisposition`, `cancellableSleep` |
| `CancelRun` | the pipeline ceiling aborts the controller all steps share (`review/pipeline.ts`) |

Whether the gate forwards an unconfirmed remote to the breaker is a choice of `Init`
(`wired`, from the constant `Gates`): the `ConcurrencyAttemptAdmissionGate` class does,
the gate production builds (`review/run.ts admissionGateFor`) does not, and every
property is checked with either. `acquire` has the cancel signal, which the pipeline always gives; the timeout it has
instead in a run without one (`attemptAdmissionTimeoutMs`, 30 minutes) is left out.

### Transport leases (`production-runtime.ts`, `transport-registry.ts`)

*State*: a lease count and a promise-chain mutex per route, the route's cached
transport, the running server of each instance. *Operations*: acquire (synchronous,
outside the mutex), tear down if last, end the lease. *Hard*: a step that acquires
between another's check and the end of its lease; two steps that end together; a
dispose that throws while holding the gate. `TransportLeases` models one route:
routes share nothing. A step that `harness.run` refuses early skips the teardown
hook (`Refused`). One server per instance stands for the launch in
`transports/opencode-client.ts`.

### Review pipeline (`review/pipeline.ts`)

*State*: the leg `execute()` is in, what it found, the flags `ceilingFired`, `partial`,
`refuterConfigured`, the snapshot latch, `pipeline.json`, and where `runPipeline` is in its
race. *Hard*: the ceiling fires while a leg is being composed, while sessions run, or
while the result is being written; sessions hang; `execute()` goes on after the grace;
both it and the ceiling end in `finish()`; the write may fail. *Correct when* a truncated run
says so, nothing new starts, one snapshot lands and stays, and the run returns.

`PipelineCeiling` has one action per leg and stage: the gate (`Admit`, `Pass`), the start
(`Spawn`, `FanOut`), the join (`JoinLeg`, `JoinHunters`, `JoinRefuter`, `JoinJudge`); hunters and warm-up have
gates of their own. `Fire`, `ExecWins`, `GraceOver`, `CeilingWrites` are `runPipeline`, and
`Finish`/`WriteEnds` are `finish()` and the latch for either writer. The sessions of a leg are one
step that may end or hang; the findings are one severe survivor, or none, with the evidence and
the verdicts its tier depends on. Without a shared controller the ceiling aborts a
controller nobody listens to; both cases are in `Configs`. That a leg has work (`Work`) means it has a subject it may ask
about: a dismissal whose text forges the run's boundary nonce is passed over by the adjudicator, with no step and
no mark on the run (`review/pipeline.ts:2916-2920`), and a queue of only such ones is no work.

### CI reviews of one head (`ci/`, `pr/`)

*State*: per job the CLI's progress, the ledger row in memory and as a check run, `cli.json`,
the commit-status lock and the signal handler; shared, the newest commit status, the
newest check run, and whether the pull request has a complete review. *Hard*: jobs of a push and of a comment
run beside each other; a call to GitHub is lost, landed or not; a job is cancelled (its
handler runs beside the CLI's own flow), killed, or loses its runner; the publisher and the
cancel-settle steps know only the record left; a maintainer overrides the gate in the middle.
*Correct when* no head stays pending for a job that is over, a green stands for a
delivered review, an override is not overwritten by what was decided without it, what was
spent is counted, and no row stays active.

`CiRecords` holds the tables the parts share (which rows spend, what a review
completes with, what the publisher does with a record); `CiHead` the protocol.

| action | code |
| --- | --- |
| `Start`, `GateSkip`, `ReserveRow`, `HoldRow` | the workflow's concurrency group, `pr/ci-admission-gate.ts`, `pr/admission.ts` |
| `SizeSkip`, `Yield`, `GoOn`, `SkipRead`, `SkipWrite` | the gates after the reservation, `yieldToInFlightReview`, `publishCiSkip` |
| `Begin` to `Deliver` | pending, status lock, provider-started, pipeline, delivery (`pr/pr.ts`, `pr/publish-outcome.ts`) |
| `Complete`, `PersistRow`, `Settle`, `Write`, `Unlock`, `Close`, `Closing` | the ledger's and the status's settlement and the finally blocks (`pr/teardown.ts`) |
| `Cancel`, `Handler*` | the signal handler: status, ledger, exit |
| `Publish`, `RepostRead`, `Repost`, `PostError`, `CancelSettle`, `Override` | `ci/publish.ts`, `ci/override.ts` |
| `KillCli`, `KillRunner` | a process or a runner that is gone |

A row is settled in memory first and written after an await (`SettleRow`; `Writing` has the points at which such a write is
on its way). The handler and the CLI's own flow share the row in memory, so the second of them finds it settled and writes
nothing, but the process may exit while the other's write has not landed, and two writes may cross. A later
signal waits for the first one's settle (`signal-handler.ts:3-20`); if it exited at once it would cut that write
(`HandlerExitEarly`).
`RowIsSettled` speaks of cancelled jobs as well, and excuses exactly the races the code leaves open.

How much the admission gate scores earlier findings, and when a row counts as stale, are choices.

### Watch daemon (`watch/`, `home.ts`)

*State*: the `launched` lines of `watch.log`, `watch.lock`, the pid lock of each pull request's
worktree, its run directories and `findings.json`, comment and commit status. *Hard*: ticks
overlap, since the cap is counted and the lock looked at before it is taken; a tick or a review is killed and
leaves its lock or its pending dot; a stale lock is stolen by two; a write to GitHub is lost. *Correct when* what
reviews spend is on the log and bounded, a head is attempted a bounded number of times, every
pull request gets its turn, and a dot left behind is answered.

`WatchTicks` has the tick from `Count` (the cap) over `CheckLock`, `WriteLock`, `Scan`, `Decide`
(`gatherRepoFacts`, `decideTick` and the veto), `SettleOrphans`, `Book` and `Spawn` to `Reap`, and the review
it launches as the child process: the pid lock (`OpenLock`, `ClaimLock`, `LookAtLock`, `StealLock`), the
run directory, the pending, the pipeline, comment, status, `Release`. The model is of one
calendar day, one repository, one head per pull request, no drafts, none too large, an open window, and
no other machine. A child whose tick was killed goes on; that tick's slot is used
again only when it has ended.

### Re-review state (`rereview/`, the merge and the write of it in `pr/pr.ts`)

*State*: the block in the summary comment: the findings still open (id, severity, tier, location,
claim), and `hw`, the highest id ever given. Each review reads it, settles every row, posts a new
one; nothing else remembers. *Hard*: what one review counts and its block forgets reads as fixed in
the next; the author's triage, a model's severity and the size of a comment must not do that; the
count and the merge pair findings with rows greedily, over different lists; a post is lost or
repeated. *Correct when* a counted finding is cleared by evidence (the verifier refuted it,
its file is gone), by the CI adjudicator or by a release only, the next review starts from what this one
counted, and an id names one finding for good.

| action | code |
| --- | --- |
| `Classify` | `planDiscovery`, `buildPhaseBQueue` with `classifyPrior`, or the priors recovered from comments (`Init`) |
| `Pipeline` | `applyWorsening`, `closeVerifyQueue`, the verdicts, `assembleLive`, `gatePairing`, `unresolvedBlockingCount` |
| `Post` | `mergeStateFindings`, `capLiveFindings`, `renderStateBlock`; again, it is `post --from` on the same head |
| `EndReview` | the review is over or was killed; what it had not posted is lost |

Location and claim of a finding are one value; two are `Near` each other when `identitiesMatch`, a
window of lines and so not transitive, takes one for the other. The push, the triage on the threads, the
hunters' findings, the verdicts and the room in the comment are inputs. Findings have different
issues (dedupe), and one that a safety rule guards is never demoted. Nor is one released whose claim is blank or redacted
in the block (`Unreadable`, as in `isReleasable`, `rereview/state.ts:737-750`): the guard can only judge what it can read.

## Runs

| run | instance | what it asks |
| --- | --- | --- |
| `ConcurrencyLimiter` | buckets of 3 and 2 callers, ceilings 2 and 3 | `SlotAccounting` (with `QueueIsWaiters`), `NoIdleCapacity`, and refinement of `AdmissionSlots` (40,372 states) |
| `SpendLedger` | 3 reservations, 2 buckets, 2 keys | `FencedIffUnresolved`, `TerminalIsFinal`, `FenceIsForTheRun` (35,752) |
| `RetryLoop` | 9 attempts, 96 outcomes | `AttemptsBounded`, `ClassAgreesWithRetry` (219) |
| `AttemptSession` | one session, all semantics | `ConfirmedMeansProven`, `NoSilentOrphan`, `ArtifactMatchesResult`, `NothingAfterReceipt`, `AlwaysSettles` (5,943) |
| `StepHarness` | 3 steps, 2 buckets, ceilings 1 and 2, either gate | `LeaseCoversAttempt`, `SpendIsOnTheBooks`, `UnresolvedExposureBounded`, `EveryStepEnds` (353,741) |
| `TransportLeases` | 4 steps on one route | `ServerStaysUpForUsers`, `LeaseEnds` (15,021) |
| `PipelineCeiling` | 24 configurations | `TruncationIsTold`, `NothingNewIsStarted`, `UncheckedNeverBlocks`, `FirstSnapshotStays`, `ReturnedWithSnapshot`, `AlwaysReturns` (47,303) |
| `CiHead` | 2 jobs, at most one of a comment, 3 events | `SpendingIsSeen`, `OverrideHolds`, `PendingIsAnswered`, `GreenIsDelivered`, `RowIsSettled` (2,761,120) |
| `WatchTicks` | 2 ticks, 2 pull requests, cap 3, 2 faults | `SpendIsCounted`, `AttemptsBounded`, `EveryPrIsAttempted`, `DeadDotIsAnswered` (216,010) |
| `RereviewState` | 2 near issues, one guarded; 2 findings a review, 2 priors, 1 verification, ids to 3 | `TypeOK`, `GateCountsWhatIsOwed`, `OnlyEvidenceClears`, `NextGateOwesAsMuch`, `IdsAreNeverReused`, `PostedFindingsAreRows` (248,662) |
| `RereviewWorsened`, `RereviewSwallow` | 2 near issues, 1 finding | violations of `WorseningIsCarried`, `SuppressedNeverSwallows` |

Further configurations can be run by hand. They are kept for a reader who wants the counterexample, and are not
among the runs of `PROJECT.json`:

| configuration | module | what TLC answers |
| --- | --- | --- |
| `TransportLeasesLast.cfg` | `TransportLeases` | violation of `LastLeaseDisposes` |
| `WatchCap.cfg`, `WatchSettle.cfg` | `MCWatchTicks` | violations of `DailyCapHolds`, `LeftoverIsSettled` |
| `RereviewRepost.cfg`, `RereviewOverlap.cfg` | `MCRereviewState` | violations of `RepostAddsNoId`, `RefutedIsGone` |
| `RereviewFloor.cfg` | `MCRereviewState` | `NextGateOwesAsMuch` holds with findings the pipeline refuted and a claim the guard cannot read (36,131) |
| `RereviewChain.cfg` | `MCRereviewState` | the run's properties hold with three near issues in a row (11,383) |

Type correctness is a theorem where a module has proofs; elsewhere it is a conjunct of an
invariant a run checks (`SlotAccounting`, `LeaseCoversAttempt`, `SpendingIsSeen`).

**Bounds.** The limiter instance is the smallest in which the bucket ceiling binds with
a waiter behind it and the global ceiling binds
across buckets. Callers of a bucket are symmetric; symmetry is used in that safety
run only. Three reservations over two buckets put a fence beside an open sibling. In
`RetryLoop` a budget of nine attempts is above the engine's default; the causes kept are one
per class the policy tells apart. In `StepHarness`, step `m` (metered, 2 attempts) and
`f` (free) share a credential, and `d` is a subscription step whose projection
degraded onto the metered key, so it is charged to the bucket of the others while it queues
in its own. Between them they have a cause for every retry action and one that stops.
Nothing is capped artificially: attempts are finite because the budgets are.
`PipelineCeiling` runs every option alone beside hunters and refuter, all options, all but the
refuter, hunters only and nothing, each with a shared controller and without. In `CiHead` an event
(`MaxEvents`) is the start of a job, a lost call, a cancellation, a kill or an override: three leave one
fault for two jobs and two for one. Two jobs are what a head sees at once (pushes are
serialised, a comment runs beside them); jobs are symmetric, and the run has no liveness
property. In `WatchTicks` two ticks are the smallest overlap, one pull request has only excluded files (it
exercises the veto) and one is reviewed, the cap of three lets both ticks launch and one repeat, and two
faults (`MaxFaults`) kill a tick and its review.
In `RereviewState` two near issues let one finding be taken for the other, two priors compete for one
verification, and three ids are one more than the rows, so that an id can leave and a new one come
(`MaxId`); a review starts from two rows at most (`MaxPriors`), which is where the run stops. Three near
issues in a row are needed for the re-post to go wrong, and have a configuration of their own. Findings of the
run are blocking, advisory, or demoted and below the posting floor.

**Fairness.** Only what the code arranges. Session: continuations run and
the two timers the harness arms (watchdog, grace) fire; *nothing* is assumed of the
transport. The watchdog is armed with `step.timeoutMs` in every attempt. Harness: while
some step can move, some step moves; which one, and whether a
wait for a slot ends, is not assumed, so `EveryStepEnds` is not bought with
fairness. Leases: a started step goes on (the harness settles it) and a dispose
answers or throws; nobody need start another step. Pipeline: the ceiling and the grace fire, file
writes end; nothing is assumed of `execute()` or its sessions. Watch: the scheduler goes on firing ticks, a
started process runs, time passes. `CiHead` assumes none: a job may be killed at any point, so what it leaves behind is
stated as action properties of the step with which it ends.

**Deadlock** is checked for the limiter, the ledger, the pipeline and the CI jobs; the last two say
explicitly when all is over (`Over`, `Done`). The other systems stop when their steps are
done, a watch day stops when its cap is spent, and the re-reviews at the bound on priors.

## What TLC found

4 and 5 are runs; the others are shown by the further configurations.

1. *The last lease does not always dispose* (`TransportLeasesLast`). Two steps that end together both see a
   count of two at the teardown; the server stays up, its instance is evicted from
   the cache, and a later step launches another. The process-wide close on exit still
   reaps both.
2. *The daily cap can be passed* (`WatchCap`). `watch/watch.ts:212` counts the lines before the lock is looked at (237)
   and overwritten (247), so overlapping ticks launch from a stale count; `src/README.md:464` and `:498` say
   the cap is a maximum and that the lock keeps ticks from doubling up. The overrun is proved to be
   less than the number of ticks alive together. The same overlap lets a head be attempted more than the
   two times of `src/README.md:484`, within the bound of `AttemptsBounded`.
3. *A dot that sticks* (`WatchSettle`). A review that wrote its findings and lost its closing status keeps its pending:
   `watch/watch.ts:358` skips a head this machine has reviewed before it reads the status, although
   `watch/preflight.ts:810-814` says such a pending must be settled.
4. *A worsening forgets a counted prior* (`RereviewWorsened`). A finding more severe than a locally dismissed
   prior returns it before the refuter has spoken; the returned prior is left out of the block because
   the finding carries it (`rereview/state.ts:376-377`). When the refuter refutes the finding nothing does,
   and the next gate reads zero: the clearing over two pushes that this comment sets out to prevent.
5. *A suppressed advisory row swallows a blocking finding* (`RereviewSwallow`). It is the last resort of the pairing
   (`:618-619`) and keeps its own rating (`:918`), so the block holds the new blocking finding as advisory.
6. *A repeated post may renumber* (`RereviewRepost`). Greedy pairing over a window that is not transitive, from the
   old live rows: with three findings in a row the second takes the third's row, and the third is appended
   again, where `:855-857` says that no id is added. The same exchange undoes a raise: an advisory row that the
   first post raised to blocking may go to another finding in the repeat and be advisory again. The attempt to prove
   `OnlyEvidenceClears` without a premise for such a row (`Raised`) failed there, and TLC gave the trace.
7. *A verdict nobody reads* (`RereviewOverlap`). A carried prior that a finding overlaps is verified and paid for, but
   `assembleLive` reads a verdict only for a queued row (`:414`), so a refuted one stays in the count
   (`:493-494`).

`NextGateOwesAsMuch` is stated without the cases of 4 and 5 (no worsening, no advisory prior
suppressed); outside them TLC finds the agreement of gate and block to hold.

Other places where code and text differ, met while modelling and not refuted by a run:

* `release` of the limiter pumps its own bucket before any other, so under a global ceiling a bucket with a
  standing queue keeps every slot it frees; the header (`concurrency-limiter.ts:17-21`) says a busy bucket
  cannot starve another. Production has one shared bucket, where this cannot happen.
* With the production gate a subscription step whose remote was left unconfirmed retries on the
  same bucket; `src/docs/multi-runtime-model-diversity-design.md:290` says it must not, and
  `review/run.ts:548-554` explains why the gate is cap-only.
* `review/findings.ts:689` says that `inconclusive` means the refuter ran. A refuter step that was refused or
  cut leaves the same word as a stand-in; hence `ruled` beside `verdict`, and a stand-in makes the run partial.
* The summarizer is still started after a warm-up the ceiling cut, when nobody else holds the controller
  (`NothingNewIsStarted` leaves it out).
* If the grace ends while the write of `execute()` is under way and that write then fails, `runPipeline` has returned
  and there is no snapshot, where `review/pipeline.ts:1442` speaks of exactly one.
* The finish of a truncated run is said to dedupe "whatever hunters completed" (`review/pipeline.ts:3936`); drafts reach the state at
  the join of the fan-out only, so a ceiling during it reports nothing.
* A cancelled run's row may stay active, or go back to it, with no call lost: the handler's exit cuts the CLI's own settling
  write, the CLI's exit cuts the handler's, or the handler's write is overtaken by the provider-started record sent
  before it (the excuses of `RowIsSettled`). `pr/admission.ts:111-115` has the handler there so that no row is left at
  `provider-started`.
* A run stopped by a signal, or by a lock already taken, may write a verdict without asking for an override: the cutoff is read
  with the lock (an excuse of `OverrideHolds`).
* The worktree's lock is not exclusive as `home-preflight.ts:146` has it: the creator's file is empty until its pid is
  written, and a slower thief removes the faster one's fresh file.

Two properties of `StepHarness` leave out an attempt that *threw*: when the receipt
cannot be written, the exception skips `finalizeReservation` and the reservation stays
open and its bucket unfenced. `SpendIsOnTheBooks` says so explicitly
(`verdict.kind # "threw"`). The excuses of `PendingIsAnswered`, `GreenIsDelivered`, `OverrideHolds` and
`RowIsSettled` are part of their statements: TLC finds each of them needed or the property false.

## Proofs

TLAPS proves the following for every value of the constants.

* `SpendLedgerProofs`: `LedgerTypeOK`, `FencedIffUnresolved`, `TerminalIsFinal`,
  `FenceIsForTheRun`, and `AnswerIsTruth` (an acknowledgement tells what the ledger holds), which no run repeats. The inductive invariant is type correctness
  together with exactness of the fence: the fence alone is not inductive, since an
  entry's bucket must be known to exist before its transition can fence it.
  Assumption: `NoKey` is not a key.
* `AttemptProofs`, for every set of cancellation semantics: the type invariant and all five safety
  properties of `AttemptSession`. The invariant relates phase, fence, receipt, abort and race winner (for
  instance: in the grace phase the session was aborted and the artifact is absent; an outcome kept means
  a transport that is no longer pending); none of the properties is inductive without it. And, for every
  attempt budget and set of outcomes (`RetryLoopAssumption`), `LoopTypeOK`, `AttemptsBounded` and
  `ClassAgreesWithRetry` of `RetryLoop`. The bound on attempts
  needs that while the loop runs, the attempts made are exactly the retries spent, and that these are within
  their budgets. The agreement of the two tables rests on the equality of two sets of causes,
  `RetriedOnBudget` and `TRANSIENT_FAMILY_CAUSES`, which are separate lists in the code.
* `ConcurrencyLimiterProofs`, for every finite set of steps, every assignment of them to buckets and every
  ceiling: `SlotAccounting`, `NoIdleCapacity`, `WithinCeilings`, and that the limiter implements `AdmissionSlots`
  (`ImplementsSlots`). The inductive invariant `LimiterInv` is the accounting, the ceilings and the absence of idle
  capacity together: a release frees one slot, so what it may hand out is known only if nothing else was
  left idle before it. `release` pumps bucket after bucket with a running count; the proof goes along that
  order by an induction with its hypothesis written as a set of numbers (`SetInduction`, got from the
  well-foundedness of finite sets), which spares the library's theorem that takes an operator.
  Assumption: that of the module, a finite set of steps and natural ceilings.
* `StepHarnessProofs`, for every finite set of steps, every assignment of billing modes, buckets, budgets and causes, and either gate:
  `LeaseCoversAttempt`, `SpendIsOnTheBooks`, `UnresolvedExposureBounded`. `ExposureInv` is built in three layers, each of
  which needs the one before. The slots: a step is inside an attempt exactly when the limiter says
  that it holds one, where the limiter's own invariant is taken from `ConcurrencyLimiterProofs`. The books: each
  reservation of a step before the current one is terminal and the current one is where the step's `pc` says, with the
  ledger's from `SpendLedgerProofs`. The exposure: the reservations of a bucket that are unresolved or may
  still become so grow in number only by a new one, which a fenced bucket refuses, so that all those counted then
  belong to steps that hold a slot. Assumptions `StepConstantsAssumption` and `LimiterConstantsAssumption`: the
  constants are of their types, and `NoKey` is neither a bucket nor a settlement key.
* `CiHeadProofs`, for every set of jobs, every mix of pushes and comments and every number of events: all
  five properties of `CiHead` (`PendingIsAnswered`, `GreenIsDelivered`, `OverrideHolds`, `RowIsSettled`,
  `SpendingIsSeen`). The action properties speak of a job's last step and hold because of what it did long before, so the
  invariant `CiInv` says, for one job alone (`JobInv`), how its rows, its record, its lock and its fate
  hang together at every point, and for a job and the head (`StatusInv`), what it must have done or lost
  when the head shows its pending or its green, or an override. A step of another job touches neither, which is why
  two jobs show as much as many. There is one lemma per action; `Good` says that it keeps both parts and does nothing the
  properties forbid. TLC checks `CiInv` on the instance of the run too (2,761,120 states).
  Assumption `CiHeadAssumption`: the stand-in for nobody is not a job, and the bound on events is a number.
* `PipelineCeilingProofs`, for every set of configurations: `TypeOK` and all five safety properties. Four
  invariants: `SnapshotInv` (a writer in its write holds the latch and nothing is on disk, so the two
  writers exclude each other), `LateInv` (once a leg started late, none is in composition and the
  hunters are not about to start), `ToldInv` (a run that is not partial has done each leg it has passed; the
  ceiling makes it partial in its own turn) and `CheckedInv` (past the refuter's leg an unsubmitted finding means
  that the ceiling fired). None of the properties is inductive: each is about the answer, the
  invariants about every point on the way to it.
* `WatchTicksProofs`, for every finite set of ticks, every set of pull requests and every
  cap: `TypeOK`, `CapOverrun`, `AttemptsBounded`, `SpendIsCounted`. `CapInv` counts the lines together with the
  ticks that may still write one from their count; `AttemptsInv` the run directories of a head together with
  the ticks and reviews between its scan and its directory. A `Launched` lemma says who may be on the way at
  all. `RunsInv` counts the run directories of all pull requests together with the children about to make one:
  never more than lines. Assumption `WatchAssumption`.
* `AttemptProofs` also has the leases: `LeaseTypeOK`, `LeasesShareTheCached`, `ServerStaysUpForUsers`,
  for every finite set of steps. The gate is shown to be a mutex by an invariant: who
  is on the chain is at a label that waits for it, and a disposing step is at
  its head. With it, a teardown that found the count at one is the only holder, so nobody uses
  the server it closes; and the cache is empty exactly when no lease is out, which is why a
  step that acquires later still gets the instance the others hold.
* `RereviewProofs`, for every set of issues and every `Near`, transitive or not, every bound and every
  list of markers: `TypeOK`, `IdsAreNeverReused`, `PostedFindingsAreRows`, `OnlyEvidenceClears`, `GateCountsWhatIsOwed`.
  The invariant `RereviewInv` says that until its first post a review *remembers* every row of the block, with its tier,
  in `live` or among the retired (`Remembered`), and that every id ever named is at most the block's mark, or belongs to a
  marker's row where no mark exists. Neither is inductive alone: the mark of a merge is as high as everything
  issued only because no row was forgotten on the way. The actions filter lists, number what is left and pair in
  a loop. What these compute is proved from the least-number principle (`LowestIs`, got from the
  well-foundedness of the naturals): `InOrder` lists a set once each, a recursive function exists
  (`Recursion`), and `pairInto` gives each finding at most one row, each row to at most one finding, of a tier it may
  take (`PairIntoIs`). `CountIs` then compares cardinalities: a blocking finding hides one row of the count and
  is counted itself, a demoted one hides one. Assumption `RereviewAssumption`: that of the module. TLC checks `RereviewInv` on the
  instance of the run and on the chain of three issues too.

Only model-checked: all liveness (temporal reasoning under fairness is out of the prover's reach), and
`NextGateOwesAsMuch`, which compares two pairings, that of the gate and that of the merge, over different lists of
rows: it needs that they agree in number, an exchange argument over both loops at once, where the proofs above need only what one pairing returns.

## The parts that are not modelled

| part | state and operations | hard behaviour, and what would be correct | status |
| --- | --- | --- | --- |
| Credential projection (`execution/harness.ts:107`, `security/`) | a projection on disk, its budget | completion racing timeout and cancel; every projection is destroyed | planned |
| Re-review state, the rest (`rereview/prepare.ts`) | the binding of priors to comment threads, renames, a summary that vanished | a triage read off the wrong thread; two reviews of one pull request at once are excluded by its locks | left out of `RereviewState` |
| Posting in detail (`pr/`, `ci/`) | comments, inline anchors, the lookup of a reservation by its nonce | retried and timed-out GitHub calls; each post once | one step of `CiHead` |
| OpenCode client (`transports/`) | server process, sessions, evidence | close against launch, abort without confirmation | planned |
| Exec snapshots and gc (`model/exec-snapshots.ts`, `store/gc.ts`) | directories on disk | a sweep beside a live run; nothing in use is removed | planned |
| Dedupe, consolidation, diversity plan | none (pure) | partitions and assignments against a reference definition | planned, as operators |
| Updater, setup, doctor, triage, corpus, compare, MCP, server, UI, git, config | files and rendering | sequential; little a model would add | left out |

Of the modelled files, left out are the checks `StepExecutionHarness.run` makes before
its loop (path authority, executable allowlist, prompt hash), logs, evidence files, usage
totals, and the construction of the production runtime.

## Plan

1. `CredentialBudget`, small and exhaustive; `ExecSnapshots`, the sweep beside a run.
2. `RereviewState` with the binding of priors to threads, which decides whose triage a prior gets.
3. The POSTs of `CiHead` with the nonce lookup and its retries.
4. `StepHarness` as the leg of `PipelineCeiling`.
5. Proofs: `NextGateOwesAsMuch`, with a lemma that relates the pairings of gate and merge; that `StepHarness` implements
   `RetryLoop` for each step.

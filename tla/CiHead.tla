------------------------------- MODULE CiHead -------------------------------
(***************************************************************************)
(* The CI reviews of one head of a pull request, in gate mode: the jobs    *)
(* that review it, the crysk commit status they share, and their rows of   *)
(* the admission ledger (src/src/pr, src/src/ci).                          *)
(*                                                                         *)
(* A job is the CLI (gate, reservation, review, settlement), the signal    *)
(* handler that runs beside it when the job is cancelled, and the          *)
(* publisher step after it, which only knows the record the CLI left.      *)
(* The newest status row is the head's status: every reader decides by it. *)
(* A call to GitHub may be lost, landed or not; a process may be killed.   *)
(***************************************************************************)
EXTENDS CiRecords

CONSTANTS
  Jobs,          \* the jobs on this head
  Kinds,         \* what starts them: a "push", or a "comment" that forces a review
  MaxForced,     \* how many of them a comment starts, at most
  MaxEvents      \* how many jobs start, calls are lost, jobs are cancelled,
                 \* processes are killed and overrides are posted, all told

CONSTANT NoJob  \* no job: nobody posted the status yet
ASSUME CiHeadAssumption == NoJob \notin Jobs /\ MaxEvents \in Nat

VARIABLES
  job,     \* the state of each job, see JobState
  status,  \* the newest crysk status of the head, see Status
  newest,  \* the job whose check run is the newest on the head
  full,    \* a complete review of this head is on the PR
  left     \* the events still to come

vars == <<job, status, newest, full, left>>

\* Where a write of the row is under way.
Writing == {"sizing", "yielding", "starting", "persist", "closing"}
CliPcs == {"gate", "skipping", "skip", "reserved", "checks", "plan",
           "pending", "posted", "setup", "review", "deliver", "complete",
           "settle", "write", "unlock", "close"} \cup Writing
Pcs == CliPcs \cup {"queued", "exited", "error", "repost", "over"}

CliRecords == {"none", "reviewing", "reviewed", "skipped", "yielded",
               "hunters-failed", "error"}

JobState ==
  [pc : Pcs, kind : Kinds,
   mem : Rows \cup {NoRow},    \* the ledger record in memory, held for the handler
   row : Rows \cup {NoRow},    \* the check run at GitHub
   out : Outcomes,             \* how the pipeline went
   rec : CliRecords,           \* cli.json, read by the publisher
   due : Verdicts \cup {"none"},  \* its unsettled_status
   cut : BOOLEAN,              \* the override cutoff is known
   lock : BOOLEAN,             \* the commit-status lock is held
   threw : BOOLEAN,            \* an error is on its way out, and the record not final
   sig : {"no", "status", "ledger", "persist", "crossed", "exit", "empty"},  \* the handler
   fate : {"fine", "cancelled", "killed", "shot", "died"},
   lost : 0..MaxEvents]          \* the calls of this job that were lost

\* before: the jobs whose review had not started when the row was posted;
\* late: the jobs that had read the status already and were about to write.
Status ==
  [s : Settled \cup {"none", "pending", "hold"}, by : Jobs \cup {NoJob},
   before : SUBSET Jobs, late : SUBSET Jobs]

TypeOK ==
  /\ job \in [Jobs -> JobState]
  /\ status \in Status
  /\ newest \in Jobs \cup {NoJob}
  /\ full \in BOOLEAN
  /\ left \in 0..MaxEvents

Fresh(kind) ==
  [pc |-> "queued", kind |-> kind, mem |-> NoRow, row |-> NoRow,
   out |-> "none", rec |-> "none", due |-> "none", cut |-> FALSE,
   lock |-> FALSE, threw |-> FALSE, sig |-> "no", fate |-> "fine", lost |-> 0]

Init ==
  /\ \E kinds \in [Jobs -> Kinds] :
       /\ Cardinality({j \in Jobs : kinds[j] # "push"}) <= MaxForced
       /\ job = [j \in Jobs |-> Fresh(kinds[j])]
  /\ status = [s |-> "none", by |-> NoJob, before |-> {}, late |-> {}]
  /\ newest = NoJob
  /\ full = FALSE
  /\ left = MaxEvents

At(j, pc) == job[j].pc = pc
Event == left > 0 /\ left' = left - 1
Running(j) == job[j].pc \in CliPcs
Forced(j) == job[j].kind # "push"

-----------------------------------------------------------------------------
(* Calls to GitHub.  The record f names the fields of job j that change.    *)

With(f, r) == [x \in DOMAIN r |-> IF x \in DOMAIN f THEN f[x] ELSE r[x]]

Put(j, f, row, lost) ==
  job' = [job EXCEPT ![j] = With(f, [job[j] EXCEPT !.row = row, !.lost = lost])]

Set(j, f) == Put(j, f, job[j].row, job[j].lost)

\* The same for a call of j's that did not come back.
SetLost(j, f, row) ==
  /\ Event
  /\ Put(j, f, row, job[j].lost + 1)

StatusRow(s, j) == [s |-> s, by |-> j, before |-> {}, late |-> {}]

\* postCommitStatus: two attempts under one budget, then it throws.  A lost
\* post may have landed all the same.
Post(j, s, ok, failed) ==
  \/ Set(j, ok) /\ status' = StatusRow(s, j) /\ UNCHANGED left
  \/ SetLost(j, failed, job[j].row) /\ status' \in {status, StatusRow(s, j)}

\* upsertAdmissionCheckRun of a settlement: a lost one is swallowed.
Persist(j, row, f) ==
  \/ Put(j, f, row, job[j].lost) /\ UNCHANGED left
  \/ SetLost(j, f, job[j].row)

\* The process exits: what it held in memory is gone.
Exit(rec, fate) ==
  [pc |-> "exited", rec |-> rec, fate |-> fate,
   mem |-> NoRow, lock |-> FALSE, threw |-> FALSE, sig |-> "no"]

\* The job is over: left are its row, and whether it had run the pipeline.
End(j, fate) ==
  [pc |-> "over", rec |-> "none", fate |-> fate, due |-> "none", cut |-> FALSE,
   out |-> IF job[j].out = "none" THEN "none" ELSE "running",
   mem |-> NoRow, lock |-> FALSE, threw |-> FALSE, sig |-> "no"]

\* settleCiAdmissionLedger: a terminal record is never re-settled; any other is
\* settled in memory at once, and its write, at pc, is awaited.
Active(j) == job[j].mem.st \in ActiveStatuses
Ended(j, st) == [job[j].mem EXCEPT !.st = st]
SettleRow(j, st, pc) == Set(j, [pc |-> pc, mem |-> Ended(j, st)])

-----------------------------------------------------------------------------
(* The admission gate, the reservation and the checks before the review.   *)

\* The workflow's concurrency group: pushes run one at a time.  The comment of a
\* writer who is no member of the repository runs beside any other job; that of
\* a member waits its turn, which is one of the same behaviours.
Start(j) ==
  /\ Event /\ At(j, "queued")
  /\ Forced(j) \/ \A k \in Jobs \ {j} : Forced(k) \/ job[k].pc \in {"queued", "over"}
  /\ Set(j, [pc |-> "gate"])
  /\ UNCHANGED <<status, newest, full>>

\* recordCiAdmissionGateSkip reserves and settles in one go and swallows every
\* error.  A head that was reviewed in full gets no status, any other skip one.
GateSkip(j) ==
  /\ At(j, "gate") /\ ~Forced(j)
  /\ LET f == [pc |-> IF full THEN "close" ELSE "skipping",
               rec |-> IF full THEN "skipped" ELSE "none"]
     IN  \/ /\ \E st \in {"skipped"} \cup (IF full THEN {} ELSE {"gate-skipped"}) :
                 Put(j, f, [st |-> st, forced |-> FALSE], job[j].lost)
            /\ newest' = j /\ UNCHANGED left
         \/ SetLost(j, f, NoRow) /\ UNCHANGED newest
         \/ SetLost(j, f, Reserve(NoRow, FALSE)) /\ newest' = j
  /\ UNCHANGED <<status, full>>

\* The gate admits the run, and reserveCiAdmissionLedger posts its row over the
\* rows the gate listed: the newest one, or none when the listing failed, when it
\* was made before another run reserved, or when a reserved row has gone stale.
\* A reservation that fails ends the run.
ReserveRow(j) ==
  /\ At(j, "gate")
  /\ Forced(j) \/ ~full
  /\ \/ \E seen \in {NoRow} \cup {job[k].row : k \in Jobs \cap {newest}} :
          /\ seen # NoRow => seen.st \in ActiveStatuses
          /\ Put(j, [pc |-> "reserved"], Reserve(seen, Forced(j)), job[j].lost)
          /\ newest' = j /\ UNCHANGED left
     \/ /\ SetLost(j, [pc |-> "close", threw |-> TRUE], NoRow)
        /\ UNCHANGED newest
  /\ UNCHANGED <<status, full>>

\* holdCiAdmissionLedger: from here the signal handler knows the row.
HoldRow(j) ==
  /\ At(j, "reserved")
  /\ Set(j, [pc |-> "checks", mem |-> job[j].row])
  /\ UNCHANGED <<status, newest, full, left>>

\* settleCiGateSkip and its status: the size gate, after the yield the budget.
SizeSkip(j) ==
  /\ job[j].pc \in {"checks", "plan"} /\ ~Forced(j)
  /\ IF Active(j) THEN SettleRow(j, "gate-skipped", "sizing")
                  ELSE Set(j, [pc |-> "skipping"])
  /\ UNCHANGED <<status, newest, full, left>>

\* yieldToInFlightReview: an automatic run stands down for a fresh pending, a
\* forced one goes on.  The pending of a job that is over may be stale, and a
\* read that fails shows none.
InFlight(j) == status.s = "pending" /\ status.by # j

Yield(j) ==
  /\ At(j, "checks") /\ ~Forced(j) /\ InFlight(j)
  /\ IF Active(j) THEN SettleRow(j, "yielded", "yielding")
                  ELSE Set(j, [pc |-> "close", rec |-> "yielded"])
  /\ UNCHANGED <<status, newest, full, left>>

GoOn(j) ==
  /\ At(j, "checks")
  /\ \/ /\ Forced(j) \/ ~InFlight(j) \/ status.by \in {k \in Jobs : At(k, "over")}
        /\ Set(j, [pc |-> "plan"]) /\ UNCHANGED left
     \/ SetLost(j, [pc |-> "plan"], job[j].row)
  /\ UNCHANGED <<status, newest, full>>

\* publishCiSkip asks overrideStandsOnHead first; a failed read means no.
SkipRead(j) ==
  /\ At(j, "skipping")
  /\ \/ /\ IF status.s = "override" THEN Set(j, [pc |-> "close", rec |-> "skipped"])
                                    ELSE Set(j, [pc |-> "skip"])
        /\ UNCHANGED left
     \/ SetLost(j, [pc |-> "skip"], job[j].row)
  /\ UNCHANGED <<status, newest, full>>

\* gateSkipDecision: an admission skip carries the verdict of an earlier commit,
\* or holds a green for a manual review; a gate skip writes what the gate says.
SkipWrite(j) ==
  /\ At(j, "skip")
  /\ \E s \in Verdicts \cup (IF job[j].mem = NoRow THEN {"hold"} ELSE {}) :
       Post(j, s, [pc |-> "close", rec |-> "skipped"], [pc |-> "close", threw |-> TRUE])
  /\ UNCHANGED <<newest, full>>

-----------------------------------------------------------------------------
(* The review and its settlement.                                          *)

\* resolvePrPlanAndConfirm: the start of the review, and its progress record
\* before its pending.
Begin(j) ==
  /\ At(j, "plan")
  /\ Set(j, [pc |-> "pending", rec |-> "reviewing"])
  /\ UNCHANGED <<status, newest, full, left>>

PostPending(j) ==
  /\ At(j, "pending")
  /\ Post(j, "pending", [pc |-> "posted"], [pc |-> "posted"])
  /\ UNCHANGED <<newest, full>>

\* holdCommitStatusLock, whether the pending landed or not.
HoldLock(j) ==
  /\ At(j, "posted")
  /\ Set(j, [pc |-> "setup", lock |-> TRUE])
  /\ UNCHANGED <<status, newest, full, left>>

\* The row says provider-started before the pipeline runs.
StartProvider(j) ==
  /\ At(j, "setup")
  /\ IF Active(j) THEN SettleRow(j, "provider-started", "starting")
                  ELSE Set(j, [pc |-> "review", out |-> "running"])
  /\ UNCHANGED <<status, newest, full, left>>

\* runPipeline returns; recordPipelineOutcome.
RunPipeline(j) ==
  /\ At(j, "review")
  /\ \E out \in {"failed", "idle", "clean", "red"} :
       Set(j, [pc |-> "deliver", out |-> out,
               rec |-> IF out = "failed" THEN "hunters-failed" ELSE job[j].rec])
  /\ UNCHANGED <<status, newest, full, left>>

\* The body throws: setting up, in the pipeline, or before the count is known.
Throw(j) ==
  /\ job[j].pc \in {"setup", "review", "deliver"}
  /\ Set(j, [pc |-> "settle", threw |-> TRUE,
             out |-> IF At(j, "deliver") THEN "running" ELSE job[j].out])
  /\ UNCHANGED <<status, newest, full, left>>

\* postFindingsIfEnabled throws before the delivery.
PostingFails(j) ==
  /\ At(j, "deliver") /\ job[j].out # "failed"
  /\ Set(j, [pc |-> "settle", rec |-> "error"])
  /\ UNCHANGED <<status, newest, full, left>>

\* recordReviewDelivered; a failed session has nothing to deliver.  A review in
\* which no reviewer ran may call itself complete.
Deliver(j) ==
  /\ At(j, "deliver")
  /\ Set(j, [pc |-> "complete",
             rec |-> IF job[j].out = "failed" THEN job[j].rec ELSE "reviewed"])
  /\ full' \in CASE job[j].out = "clean" -> {TRUE}
                 [] job[j].out \in {"idle", "red"} -> {full, TRUE}
                 [] OTHER -> {full}
  /\ UNCHANGED <<status, newest, left>>

\* The end of publishRunOutcome settles the row, unless something threw first.
Complete(j) ==
  /\ At(j, "complete")
  /\ \/ /\ Active(j)
        /\ SettleRow(j, IF job[j].out = "failed" THEN "failed" ELSE "completed", "persist")
     \/ Set(j, [pc |-> "settle"])
  /\ UNCHANGED <<status, newest, full, left>>

\* persistCiAdmissionLedger, the write of a settlement.  It carries the record as
\* it was when the call was made: a handler may have settled a provider-started
\* record since; any other was terminal, and is the record still.
PersistRow(j) ==
  /\ \/ At(j, "sizing") /\ Persist(j, job[j].mem, [pc |-> "skipping"])
     \/ At(j, "yielding") /\ Persist(j, job[j].mem, [pc |-> "close", rec |-> "yielded"])
     \/ At(j, "starting") /\ Persist(j, Ended(j, "provider-started"),
                                     [pc |-> "review", out |-> "running"])
     \/ At(j, "persist") /\ Persist(j, job[j].mem, [pc |-> "settle"])
  /\ UNCHANGED <<status, newest, full>>

\* overrideStandsOverRun: the newest status is an override, and it was posted
\* after the review began.
Stands(j) == status.s = "override" /\ j \notin status.before

\* Mutant: the cutoff is read after the lock was released.
SettleNoCutoff(j) ==
  /\ At(j, "settle")
  /\ Set(j, [pc |-> "write", cut |-> FALSE])
  /\ UNCHANGED <<status, newest, full, left>>

\* settleCommitStatusAndLedger reads the cutoff, which is gone when the signal
\* handler took the lock, and asks for an override before it writes a verdict.
Settle(j) ==
  /\ At(j, "settle")
  /\ LET asks == Completion(job[j].out) \in Verdicts /\ job[j].lock
     IN  \/ /\ Set(j, IF asks /\ Stands(j) THEN [pc |-> "unlock"]
                                          ELSE [pc |-> "write", cut |-> asks])
            /\ UNCHANGED left
         \/ asks /\ SetLost(j, [pc |-> "write", cut |-> TRUE], job[j].row)
  /\ UNCHANGED <<status, newest, full>>

\* Mutant: a verdict that did not land is not left to the publisher.
WriteNoRecord(j) ==
  /\ At(j, "write")
  /\ Post(j, Completion(job[j].out), [pc |-> "unlock"], [pc |-> "unlock"])
  /\ UNCHANGED <<newest, full>>

\* The final write.  One that fails is left to the publisher when it is a
\* verdict and the review was delivered (recordUnsettledStatus).
Write(j) ==
  /\ At(j, "write")
  /\ LET v == Completion(job[j].out)
         due == v \in Verdicts /\ job[j].rec = "reviewed"
     IN  Post(j, v, [pc |-> "unlock", cut |-> FALSE],
              [pc |-> "unlock", cut |-> due /\ job[j].cut,
               due |-> IF due THEN v ELSE "none"])
  /\ UNCHANGED <<newest, full>>

Unlock(j) ==
  /\ At(j, "unlock")
  /\ Set(j, [pc |-> "close", lock |-> FALSE])
  /\ UNCHANGED <<status, newest, full, left>>

\* writeFatalCliRecord, on the way out of a CLI that threw.
Fatal(j) ==
  IF job[j].threw /\ job[j].rec \in {"none", "reviewing"} THEN "error" ELSE job[j].rec

\* settleLedgerIfPending, in either finally block; then the process exits,
\* whether or not a signal handler is still at work.
Close(j) ==
  /\ At(j, "close")
  /\ IF Active(j) THEN SettleRow(j, "failed", "closing")
                  ELSE Set(j, Exit(Fatal(j), job[j].fate))
  /\ UNCHANGED <<status, newest, full, left>>

Closing(j) ==
  /\ At(j, "closing")
  /\ Persist(j, job[j].mem, Exit(Fatal(j), job[j].fate))
  /\ UNCHANGED <<status, newest, full>>

-----------------------------------------------------------------------------
(* Cancellation: the signal handler runs beside the CLI's own flow.        *)

\* The first signal takes the commit-status lock; later ones wait for it.  A
\* job whose CLI is through loses its publisher step.
Cancel(j) ==
  /\ Event /\ job[j].fate = "fine"
  /\ \/ /\ Running(j)
        /\ Set(j, [fate |-> "cancelled", lock |-> FALSE,
                   sig |-> IF job[j].lock THEN "status" ELSE "ledger"])
     \/ At(j, "exited") /\ Set(j, [fate |-> "cancelled"])
  /\ UNCHANGED <<status, newest, full>>

\* settleHeldCommitStatusOnSignal: one attempt, errors swallowed.
HandlerStatus(j) ==
  /\ Running(j) /\ job[j].sig = "status"
  /\ Post(j, "error", [sig |-> "ledger"], [sig |-> "ledger"])
  /\ UNCHANGED <<newest, full>>

\* settleHeldAdmissionLedgerOnSignal: only a row that is held and still active.
HandlerLedger(j) ==
  /\ Running(j) /\ job[j].sig = "ledger"
  /\ IF Active(j) THEN Set(j, [sig |-> "persist", mem |-> Ended(j, "cancelled")])
                  ELSE Set(j, [sig |-> IF job[j].mem = NoRow THEN "empty" ELSE "exit"])
  /\ UNCHANGED <<status, newest, full, left>>

\* Its write of the row, which may cross the one that starts the provider.
HandlerPersist(j) ==
  /\ Running(j) /\ job[j].sig = "persist"
  /\ Persist(j, job[j].mem, [sig |-> IF At(j, "starting") THEN "crossed" ELSE "exit"])
  /\ UNCHANGED <<status, newest, full>>

\* Mutant: a later signal finds nothing held and exits during the first one's write.
HandlerExitEarly(j) ==
  /\ Running(j) /\ job[j].sig \in {"persist", "exit", "crossed", "empty"}
  /\ Set(j, Exit(job[j].rec, job[j].fate))
  /\ UNCHANGED <<status, newest, full, left>>

\* process.exit, whatever the CLI's own flow is doing.  A later signal waits for
\* the first one's settle, so only the first exits.
HandlerExit(j) ==
  /\ Running(j) /\ job[j].sig \in {"exit", "crossed", "empty"}
  /\ Set(j, Exit(job[j].rec, job[j].fate))
  /\ UNCHANGED <<status, newest, full, left>>

\* The CLI is killed without a signal, or after the grace of a cancellation.
KillCli(j) ==
  /\ Event /\ Running(j)
  /\ Set(j, Exit(job[j].rec, IF job[j].fate = "cancelled" THEN "shot" ELSE "killed"))
  /\ UNCHANGED <<status, newest, full>>

\* The runner is gone, and with it every later step of the job.
KillRunner(j) ==
  /\ Event /\ job[j].pc \notin {"queued", "over"}
  /\ Set(j, End(j, "died"))
  /\ UNCHANGED <<status, newest, full>>

-----------------------------------------------------------------------------
(* The publisher step, the cancel-settle step, and the override command.   *)

Cancelled(j) == job[j].fate \in {"cancelled", "shot"}

Left(j) == End(j, "fine")

\* runPublish, for a review whose status did not land (the record's
\* unsettled_status): overrideStandsBeforeRepost, then the status once more.
RepostRead(j) ==
  /\ At(j, "exited") /\ ~Cancelled(j) /\ job[j].due # "none"
  /\ \/ /\ Set(j, IF job[j].cut /\ Stands(j) THEN Left(j) ELSE [pc |-> "repost"])
        /\ UNCHANGED left
     \/ job[j].cut /\ SetLost(j, [pc |-> "repost"], job[j].row)
  /\ UNCHANGED <<status, newest, full>>

Repost(j) ==
  /\ At(j, "repost")
  /\ Post(j, job[j].due, Left(j), Left(j))
  /\ UNCHANGED <<newest, full>>

\* runPublish decides by any other record the CLI left; for a reviewing record it
\* reads the head's status, and a read that fails answers it.
Publish(j) ==
  /\ At(j, "exited") /\ ~Cancelled(j) /\ job[j].due = "none"
  /\ \/ /\ Set(j, IF PublisherError(job[j].rec, status.s) THEN [pc |-> "error"]
                                                          ELSE Left(j))
        /\ UNCHANGED left
     \/ job[j].rec = "reviewing" /\ SetLost(j, [pc |-> "error"], job[j].row)
  /\ UNCHANGED <<status, newest, full>>

\* runCancelSettle, in a cancelled job only; a failed read leaves the status.
CancelSettle(j) ==
  /\ At(j, "exited") /\ Cancelled(j)
  /\ \/ /\ Set(j, IF CancelSettles(job[j].rec, status.s, status.by = j)
                     THEN [pc |-> "error"] ELSE Left(j))
        /\ UNCHANGED left
     \/ SetLost(j, Left(j), job[j].row)
  /\ UNCHANGED <<status, newest, full>>

PostError(j) ==
  /\ At(j, "error")
  /\ Post(j, "error", Left(j), Left(j))
  /\ UNCHANGED <<newest, full>>

\* publishOverride, from a job of its own.
Override ==
  /\ Event
  /\ status' = [s |-> "override", by |-> NoJob,
                before |-> {j \in Jobs : job[j].pc \in
                  {"queued", "gate", "skipping", "skip", "reserved", "checks",
                   "sizing", "yielding", "plan"}},
                late |-> {j \in Jobs : job[j].pc \in {"skip", "write", "repost"}}]
  /\ UNCHANGED <<job, newest, full>>

\* Nothing is left to do.
Done == (\A j \in Jobs : job[j].pc \in {"queued", "over"}) /\ UNCHANGED vars

Next ==
  \/ \E j \in Jobs :
       \/ Start(j) \/ GateSkip(j) \/ ReserveRow(j) \/ HoldRow(j)
       \/ SizeSkip(j) \/ Yield(j) \/ GoOn(j) \/ SkipRead(j) \/ SkipWrite(j)
       \/ Begin(j) \/ PostPending(j) \/ HoldLock(j) \/ StartProvider(j)
       \/ RunPipeline(j) \/ Throw(j) \/ PostingFails(j) \/ Deliver(j)
       \/ Complete(j) \/ PersistRow(j) \/ Settle(j) \/ Write(j) \/ Unlock(j)
       \/ Close(j) \/ Closing(j)
       \/ Cancel(j) \/ HandlerStatus(j) \/ HandlerLedger(j) \/ HandlerPersist(j)
       \/ HandlerExit(j) \/ KillCli(j) \/ KillRunner(j)
       \/ Publish(j) \/ CancelSettle(j) \/ PostError(j) \/ RepostRead(j) \/ Repost(j)
  \/ Override
  \/ Done

Spec == Init /\ [][Next]_vars

-----------------------------------------------------------------------------
(* What the jobs promise each other.                                       *)

Ends(j) == ~At(j, "over") /\ At(j, "over")'

\* A head never stays pending on a job that is over, one lost call included.
\* Left are: a runner that died; a CLI killed between the delivery and its
\* status; a second lost call; and one lost call of a cancelled or killed job,
\* or of a review in which no reviewer ran.
PendingIsAnswered ==
  [][\A j \in Jobs : Ends(j) /\ status'.s = "pending" /\ status'.by = j =>
       \/ job'[j].fate = "died"
       \/ job[j].fate = "killed" /\ job[j].rec = "reviewed"
       \/ job'[j].lost >= 2
       \/ job'[j].lost = 1 /\ (job[j].fate # "fine" \/ job[j].out = "idle")]_vars

\* A green that a job leaves behind was carried by a skip, or stands for a clean
\* review that reached the pull request.
GreenIsDelivered ==
  [][\A j \in Jobs : Ends(j) /\ status'.s = "success" /\ status'.by = j =>
       \/ job[j].rec = "skipped"
       \/ job[j].rec = "reviewed" /\ job[j].out = "clean"
       \/ job[j].fate # "fine" \/ job'[j].fate = "died" \/ job'[j].lost > 0]_vars

\* An override posted while a review ran keeps the gate: no verdict of that
\* review and no skip replaces it, in the CLI or in the publisher, unless the
\* writer had asked before it was posted or could not ask: a call was lost
\* besides the one the repost makes up for, or the signal took the cutoff.
OverrideHolds ==
  [][\A j \in Jobs :
       status.s = "override" /\ status' # status /\ status'.by = j
         /\ status'.s \in Verdicts \cup {"hold"} =>
           \/ j \in status.late
           \/ At(j, "write") /\ j \in status.before
           \/ job[j].lost > (IF At(j, "repost") THEN 1 ELSE 0)
           \/ job[j].sig # "no"]_vars

\* The state is well-formed, and a head on which an automatic review ran stays in
\* the attempt count, whatever the other rows say and however its own was settled.
SpendingIsSeen ==
  /\ TypeOK
  /\ \A j \in Jobs : ~Forced(j) /\ job[j].out # "none" =>
       Countable({job[k].row : k \in Jobs} \ {NoRow})

\* A CLI does not leave its row active, a cancelled one neither, whose handler and
\* CLI settle the same row: only by a lost call, by a kill, by an exit between the
\* reservation and the hold, by a write that crossed the handler's, or when the
\* handler's exit cut the CLI's write short, or the CLI's the handler's.
RowIsSettled ==
  [][\A j \in Jobs : Running(j) /\ At(j, "exited")'
       /\ job'[j].row.st \in ActiveStatuses =>
         \/ job'[j].lost > 0 \/ job'[j].fate \in {"killed", "shot"}
         \/ job[j].sig \in {"empty", "crossed"}
         \/ job[j].sig = "exit" /\ job[j].pc \in Writing
         \/ job[j].sig = "persist" /\ At(j, "close")]_vars
==============================================================================

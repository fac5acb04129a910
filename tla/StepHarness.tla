---------------------------- MODULE StepHarness ----------------------------
(***************************************************************************)
(* The steps of one run, each an attempt loop of the step harness          *)
(* (admitAndExecute, runAttempt, finalizeReservation, runAdmittedAttempt   *)
(* of src/src/execution/harness.ts), sharing one concurrency limiter and   *)
(* one spend ledger.                                                       *)
(*                                                                         *)
(* Steps run concurrently and interleave at every await: in the limiter's  *)
(* queue, after reserve, before and during the session, at settlement and  *)
(* in a retry delay.  A session is abstracted to the results AttemptSession*)
(* shows it can have; here what matters is what the harness does with them.*)
(***************************************************************************)
EXTENDS Integers, Sequences, FiniteSets, FailurePolicy

CONSTANTS
  Steps, Buckets, BucketOf, BucketCeiling, GlobalCeiling,  \* of the limiter
  Billing,        \* billing mode of each step's transport
  ChargedTo,      \* the bucket a step reserves spend in, NoKey if it does not:
                  \* a subscription step reserves only when its credential
                  \* projection degraded onto a metered key
  NoKey,
  MaxAttempts,    \* step.maxAttempts, of each step
  Causes,         \* causes each step's attempts may fail with
  Gates           \* the gates a run may be given: does it forward
                  \* reportUnconfirmedRemote to the breaker?

ASSUME StepConstantsAssumption ==
  /\ Billing \in [Steps -> {"metered", "free", "subscription"}]
  /\ MaxAttempts \in [Steps -> Nat \ {0}]
  /\ Causes \in [Steps -> SUBSET Resolutions]
  /\ Gates \subseteq BOOLEAN
  /\ ChargedTo \in [Steps -> Buckets \cup {NoKey}]
  /\ NoKey \notin Buckets \cup {"finalize", "release-unstarted"}

ASSUME LimiterConstantsAssumption ==
  /\ IsFiniteSet(Steps)
  /\ BucketOf \in [Steps -> Buckets]
  /\ BucketCeiling \in Nat /\ GlobalCeiling \in Nat

VARIABLES
  inUse, globalInUse, queue, order, tripped, aborted, status,  \* the limiter
  entry, fenced,                                               \* the ledger
  wired,       \* does this run's gate forward it?
  pc,          \* where each step's loop is
  used,        \* its retry state
  verdict      \* how its last attempt ended

limiterVars == <<inUse, globalInUse, queue, order, tripped, aborted, status>>
ledger == <<entry, fenced>>
vars == <<limiterVars, ledger, wired, pc, used, verdict>>

Attempts(s) == 1..(MaxAttempts[s] + MaxFormatRetries)
Ids == UNION {{s} \X Attempts(s) : s \in Steps}

Limiter == INSTANCE ConcurrencyLimiter
\* The harness transitions a reservation once, so it needs neither the ledger's
\* refusals nor its record of answers.
Ledger == INSTANCE SpendLedger WITH
  SpendBuckets <- Buckets, Keys <- {"finalize", "release-unstarted"}, reply <- NoKey

Attempt(s) == used[s].transient + used[s].format + 1
Id(s) == <<s, Attempt(s)>>
Charged(s) == ChargedTo[s] # NoKey

NoVerdict == [kind |-> "none", cause |-> "none", decision |-> "none", unconfirmed |-> FALSE]
Ended(kind) == [NoVerdict EXCEPT !.kind = kind]

\* The settlement decisions the usage reports of a billing mode can lead to.
Decisions(billing) ==
  {Ledger!SettlementFromUsage(u) : u \in {v \in Ledger!Usage : v.billing = billing}}

-----------------------------------------------------------------------------
Init ==
  /\ Limiter!Init
  /\ entry = [i \in Ids |-> [bucket |-> NoKey, state |-> "none", key |-> NoKey]]
  /\ fenced = {}
  /\ wired \in Gates
  /\ pc = [s \in Steps |-> "top"]
  /\ used = [s \in Steps |-> [transient |-> 0, format |-> 0]]
  /\ verdict = [s \in Steps |-> NoVerdict]

Goto(s, label) == pc' = [pc EXCEPT ![s] = label]
Ends(s, v) == verdict' = [verdict EXCEPT ![s] = v]

\* The head of the loop sees the cancel signal: no further attempt.
CancelledAtTop(s) ==
  /\ pc[s] = "top" /\ aborted # {}
  /\ Goto(s, "done") /\ Ends(s, Ended("cancelled"))
  /\ UNCHANGED <<limiterVars, ledger, used>>

\* An attempt asks for its slot in the same turn.
Begin(s) ==
  /\ pc[s] = "top" /\ aborted = {}
  /\ Limiter!Acquire(s)
  /\ Goto(s, "acquiring")
  /\ UNCHANGED <<ledger, used, verdict>>

\* A tripped breaker refuses, or the wait is over without a slot.
Unadmitted(s) ==
  /\ \/ /\ pc[s] = "top" /\ aborted = {}
        /\ Limiter!AcquireRefused(s)
     \/ /\ pc[s] = "acquiring"
        /\ status[s] \in {"aborted", "breaker"}
        /\ UNCHANGED limiterVars
  /\ Goto(s, "done") /\ Ends(s, Ended("cancelled"))
  /\ UNCHANGED <<ledger, used>>

\* Mutant: a fenced bucket ends the step outside the finally block.
GrantedLeaks(s) ==
  /\ pc[s] = "acquiring" /\ status[s] = "held"
  /\ \/ /\ ~Charged(s)
        /\ Goto(s, "starting")
        /\ UNCHANGED <<ledger, verdict>>
     \/ /\ Charged(s)
        /\ Ledger!Reserve(Id(s), ChargedTo[s])
        /\ Goto(s, "reserved")
        /\ UNCHANGED verdict
     \/ /\ Charged(s) /\ ChargedTo[s] \in fenced
        /\ Goto(s, "done") /\ Ends(s, Ended("failed"))
        /\ UNCHANGED ledger
  /\ UNCHANGED <<limiterVars, used>>

\* The slot is granted; reserve spend, unless the bucket is fenced.
Granted(s) ==
  /\ pc[s] = "acquiring" /\ status[s] = "held"
  /\ \/ /\ ~Charged(s)
        /\ Goto(s, "starting")
        /\ UNCHANGED <<ledger, verdict>>
     \/ /\ Charged(s)
        /\ Ledger!Reserve(Id(s), ChargedTo[s])
        /\ Goto(s, "reserved")
        /\ UNCHANGED verdict
     \/ /\ Charged(s) /\ ChargedTo[s] \in fenced
        /\ Goto(s, "leaving")
        /\ Ends(s, [Ended("failed") EXCEPT !.cause = "legacy_terminal"])
        /\ UNCHANGED ledger
  /\ UNCHANGED <<limiterVars, used>>

\* The one look at the cancel signal between the slot and the transport.
ReservedResume(s) ==
  /\ pc[s] = "reserved"
  /\ IF aborted # {}
       THEN /\ Ledger!Transition(Id(s), "released_unstarted", "release-unstarted")
            /\ Goto(s, "leaving") /\ Ends(s, Ended("cancelled"))
       ELSE /\ Goto(s, "starting")
            /\ UNCHANGED <<ledger, verdict>>
  /\ UNCHANGED <<limiterVars, used>>

\* The request identity is frozen (an await); executeSession calls the transport
\* whether or not the signal fired meanwhile.  If it did, cancellation has
\* already won the session's race.
StartSession(s) ==
  /\ pc[s] = "starting"
  /\ Goto(s, IF aborted # {} THEN "fencing" ELSE "executing")
  /\ UNCHANGED <<limiterVars, ledger, used, verdict>>

\* The results of a session.  A rejecting transport counts as cancelled; only a
\* session that went through its fence may be unconfirmed remotely; persisting
\* the receipt may throw.
SessionResults(s) ==
  LET billed == Decisions(Billing[s])
      result(kind, causes, decisions, unconfirmed) ==
        [kind : {kind}, cause : causes, decision : decisions, unconfirmed : unconfirmed]
      cancelled == result("cancelled", {"none"}, {"unresolved"},
                          {u \in BOOLEAN : u => aborted # {}})
      threw == {Ended("threw")}
      timedOut == result("failed", Causes[s] \cap {"watchdog_timeout"}, {"unresolved"}, BOOLEAN)
      failed == result("failed", Causes[s] \ {"watchdog_timeout"}, billed, {FALSE})
      delivered == result("delivered", {"none"}, billed, {FALSE})
  IN  IF pc[s] = "fencing" THEN cancelled \cup threw
      ELSE cancelled \cup threw \cup timedOut \cup failed \cup delivered

EndSession(s) ==
  /\ pc[s] \in {"executing", "fencing"}
  /\ \E v \in SessionResults(s) :
       /\ Ends(s, v)
       /\ Goto(s, IF v.kind = "threw" THEN "leaving" ELSE "settling")
  /\ UNCHANGED <<limiterVars, ledger, used>>

\* finalizeReservation: a free route without a priced figure is released, every
\* other unresolved usage fences the bucket; a cancelled attempt has no usage.
Finalized(s) ==
  LET v == verdict[s]
  IN  IF v.decision = "settle" THEN "settled"
      ELSE IF /\ Billing[s] = "free"
              /\ v.kind # "cancelled"
              /\ v.decision # "free_nonzero_cost"
             THEN "released_unstarted"
             ELSE "unresolved_remote"

\* Mutant: only an attempt that delivered is accounted for.
AccountDelivered(s) ==
  IF Charged(s) /\ verdict[s].kind = "delivered"
    THEN Ledger!Transition(Id(s), Finalized(s), "finalize")
    ELSE UNCHANGED ledger

Account(s) ==
  IF Charged(s)
    THEN Ledger!Transition(Id(s), Finalized(s), "finalize")
    ELSE UNCHANGED ledger

\* After the session: report an unconfirmed remote, settle the reservation, and
\* stop a free route that turned out to be priced.
Settle(s) ==
  LET v == verdict[s]
  IN  /\ pc[s] = "settling"
      /\ IF wired /\ v.unconfirmed /\ BucketOf[s] \notin tripped
           THEN Limiter!TripBreaker(BucketOf[s])
           ELSE UNCHANGED limiterVars
      /\ Account(s)
      /\ Ends(s, [v EXCEPT !.decision = "none", !.cause =
                     IF Charged(s) /\ v.decision = "free_nonzero_cost" /\ v.kind = "failed"
                       THEN "legacy_terminal" ELSE v.cause])
      /\ Goto(s, "leaving")
      /\ UNCHANGED <<used>>

\* The finally block releases the slot; the loop acts on the attempt's result.
Leave(s) ==
  LET v == verdict[s]
      action == IF v.kind # "failed" \/ v.cause = "legacy_terminal" THEN "terminal"
                ELSE Decide(v.cause, used[s], MaxAttempts[s] - 1)
  IN  /\ pc[s] = "leaving"
      /\ Limiter!Release(s)
      /\ Goto(s, CASE action = "terminal"    -> "done"
                   [] action = "retry_after" -> "sleeping"
                   [] OTHER                  -> "top")
      /\ used' = CASE action \in {"retry_now", "retry_after"} ->
                        [used EXCEPT ![s].transient = @ + 1]
                   [] action = "retry_format_reminder" ->
                        [used EXCEPT ![s].format = @ + 1]
                   [] OTHER -> used
      /\ Ends(s, IF action = "terminal" THEN Ended(v.kind) ELSE NoVerdict)
      /\ UNCHANGED ledger

\* cancellableSleep: the delay is over, or the signal cut it short.
Wake(s) ==
  /\ pc[s] = "sleeping"
  /\ Goto(s, "top")
  /\ UNCHANGED <<limiterVars, ledger, used, verdict>>

\* The run is cancelled.  All steps share the signal, so every waiting request
\* leaves its queue in the same turn.
CancelRun ==
  /\ aborted = {}
  /\ aborted' = Steps
  /\ queue' = [b \in Buckets |-> <<>>]
  /\ status' = [s \in Steps |-> IF status[s] = "queued" THEN "aborted" ELSE status[s]]
  /\ UNCHANGED <<inUse, globalInUse, order, tripped, ledger, pc, used,
                 verdict>>

Moves(s) ==
  \/ CancelledAtTop(s) \/ Begin(s) \/ Unadmitted(s) \/ Granted(s) \/ ReservedResume(s)
  \/ StartSession(s) \/ EndSession(s) \/ Settle(s) \/ Leave(s) \/ Wake(s)

Next == ((\E s \in Steps : Moves(s)) \/ CancelRun) /\ UNCHANGED wired

\* Every await of a step is answered: a session settles (AttemptSession), the
\* sleep has a timer, the ledger and the file system answer.  So while a step can
\* move, some step does; which one, and whether a wait for a slot ever ends, is
\* not assumed.
Spec == Init /\ [][Next]_vars /\ WF_vars((\E s \in Steps : Moves(s)) /\ UNCHANGED wired)

-----------------------------------------------------------------------------
Labels == {"top", "acquiring", "reserved", "starting", "executing", "fencing",
           "settling", "leaving", "sleeping", "done"}

\* A step is inside its attempt, between the slot and the finally block.
Inside(s) == pc[s] \in {"reserved", "starting", "executing", "fencing",
                        "settling", "leaving"}

TypeOK ==
  /\ Limiter!TypeOK /\ Ledger!LedgerTypeOK /\ wired \in Gates
  /\ pc \in [Steps -> Labels]
  /\ \A s \in Steps : Attempt(s) \in Attempts(s)
  /\ verdict \in [Steps -> [kind : {"none", "cancelled", "threw", "delivered", "failed"},
                            cause : Resolutions \cup {"none"},
                            decision : {"none", "settle", "unresolved", "free_nonzero_cost"},
                            unconfirmed : BOOLEAN]]

\* The state is well-formed, and a slot is held for the whole attempt and only
\* then: no path out of an attempt, refused, cancelled or thrown, keeps one or
\* returns it early.
LeaseCoversAttempt ==
  /\ TypeOK
  /\ \A s \in Steps :
       /\ Inside(s) => status[s] = "held"
       /\ status[s] = "held" => Inside(s) \/ pc[s] = "acquiring"

\* A retry starts only after the reservations of the attempts before it are
\* terminal, and while the provider may be working its spend is on the books.
SpendIsOnTheBooks ==
  \A s \in Steps : Charged(s) =>
    /\ \A n \in 1..(Attempt(s) - 1) : entry[<<s, n>>].state \in Ledger!Terminal
    /\ pc[s] \in {"executing", "fencing", "settling"} => entry[Id(s)].state = "reserved"
    /\ pc[s] = "done" /\ verdict[s].kind # "threw" => entry[Id(s)].state # "reserved"

\* The exposure the fence allows: attempts already in flight when a bucket is
\* fenced may also end unaccounted for, but no step adds a second one by retrying,
\* and there are never more than could hold a slot at once.
UnresolvedExposureBounded ==
  \A b \in Buckets :
    /\ \A i, j \in Ledger!Unresolved(b) : i[1] = j[1] => i = j
    /\ Cardinality(Ledger!Unresolved(b)) <= GlobalCeiling

\* Every step ends: waiting for slots, fences, retries, a cancellation and the
\* breaker never leave one stuck.
EveryStepEnds == <>(\A s \in Steps : pc[s] = "done")
=============================================================================

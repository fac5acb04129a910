------------------------------ MODULE RetryLoop ------------------------------
(***************************************************************************)
(* The attempt loop of one step, seen from the retry policy alone:         *)
(* admitAndExecute in src/src/execution/harness.ts.  Every attempt's       *)
(* outcome is chosen by the environment.  Admission, spend and the session *)
(* are in StepHarness; this module is about what the policy does over a    *)
(* whole sequence of attempts.                                             *)
(***************************************************************************)
EXTENDS FailurePolicy

CONSTANTS
  MaxAttempts,  \* step.maxAttempts
  Attempts      \* the outcomes a failed attempt may show

ASSUME RetryLoopAssumption == MaxAttempts \in Nat /\ Attempts \subseteq Outcomes

VARIABLES
  attempts,   \* attempts made
  used,       \* RetryState
  last,       \* the resolution of the last failed attempt
  verdict     \* "running", "ok" or "failed"

loopVars == <<attempts, used, last, verdict>>

\* maxTransientAttempts = Math.max(0, step.maxAttempts - 1)
TransientBudget == IF MaxAttempts = 0 THEN 0 ELSE MaxAttempts - 1

LoopInit ==
  /\ attempts = 0
  /\ used = [transient |-> 0, format |-> 0]
  /\ last = "none"
  /\ verdict = "running"

Delivers ==
  /\ verdict = "running"
  /\ attempts' = attempts + 1
  /\ verdict' = "ok"
  /\ UNCHANGED <<used, last>>

\* What the loop does after a failure resolved to r.
Action(r) ==
  IF r = "legacy_terminal" THEN "terminal" ELSE Decide(r, used, TransientBudget)

\* The retry state after that action.
Spent(action) ==
  [transient |-> used.transient + (IF action \in {"retry_now", "retry_after"} THEN 1 ELSE 0),
   format    |-> used.format + (IF action = "retry_format_reminder" THEN 1 ELSE 0)]

\* The attempt failed with outcome o: resolve the cause and let the policy
\* decide what the loop does next.
Fails(o, parseThrew) ==
  LET r == Resolve(o, parseThrew)
  IN  /\ verdict = "running"
      /\ attempts' = attempts + 1
      /\ last' = r
      /\ used' = Spent(Action(r))
      /\ verdict' = IF Action(r) = "terminal" THEN "failed" ELSE "running"

LoopNext ==
  \/ Delivers
  \/ \E o \in Attempts, parseThrew \in BOOLEAN : Fails(o, parseThrew)

LoopSpec == LoopInit /\ [][LoopNext]_loopVars

-----------------------------------------------------------------------------
LoopTypeOK ==
  /\ attempts \in Nat
  /\ used \in [transient : 0..TransientBudget, format : 0..MaxFormatRetries]
  /\ last \in Resolutions \cup {"none"}
  /\ verdict \in {"running", "ok", "failed"}

\* A step never spawns more than its first attempt, its transient retries and
\* one format retry, whatever mix of failures the attempts show.
AttemptsBounded == attempts <= 1 + TransientBudget + MaxFormatRetries

\* The class the artifact handling reads and the retry the policy grants come
\* from two tables; they must agree.  A failure of the transient family stops
\* the step only when the transient budget is spent, a format failure only when
\* the format retry is, and a step goes on only after a failure of one of them.
ClassAgreesWithRetry ==
  last # "none" =>
    /\ verdict = "failed" /\ LegacyClassification(last) = "transient"
         => used.transient = TransientBudget
    /\ verdict = "failed" /\ LegacyClassification(last) = "format"
         => used.format = MaxFormatRetries
    /\ verdict = "running" => LegacyClassification(last) # "terminal"
=============================================================================

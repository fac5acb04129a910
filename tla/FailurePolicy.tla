---------------------------- MODULE FailurePolicy ----------------------------
(***************************************************************************)
(* The retry decision of one failed attempt: how an outcome is resolved to *)
(* a cause, what the cause is allowed to do next, and the legacy class the *)
(* artifact handling reads (src/src/execution/failure-policy.ts and        *)
(* failure-classification.ts).  Pure operators; no state.                  *)
(***************************************************************************)
EXTENDS Integers

TransportCauses ==
  {"auth_invalid", "quota_exhausted", "rate_limit", "network_transient",
   "protocol_truncation", "protocol_mismatch", "protocol_overflow",
   "output_limit_exceeded", "context_window_exceeded", "safety_refusal",
   "provider_configuration_invalid", "model_unavailable",
   "missing_provider_record", "runtime_unavailable", "remote_abort_unconfirmed"}

HarnessCauses ==
  {"format_violation", "watchdog_timeout", "pipeline_cancelled",
   "user_cancelled", "settlement_unconfirmed"}

FailureCauses == TransportCauses \cup HarnessCauses

\* A CauseResolution: a cause, or the legacy terminal witness that has none.
Resolutions == FailureCauses \cup {"legacy_terminal"}

MaxFormatRetries == 1

\* The causes decideRetryDisposition retries on the transient budget, and those
\* the legacy table calls transient.  The code keeps the two lists apart.
RetriedOnBudget ==
  {"network_transient", "protocol_truncation", "watchdog_timeout", "rate_limit"}
TRANSIENT_FAMILY_CAUSES ==
  {"network_transient", "protocol_truncation", "rate_limit", "watchdog_timeout"}

-----------------------------------------------------------------------------
\* Mutant: the budgets are off by one.
DecideOneMore(cause, used, maxTransient) ==
  IF cause = "format_violation" /\ used.format <= MaxFormatRetries
    THEN "retry_format_reminder"
  ELSE IF cause \in RetriedOnBudget /\ used.transient <= maxTransient
    THEN IF cause = "rate_limit" THEN "retry_after" ELSE "retry_now"
  ELSE "terminal"

\* decideRetryDisposition with the transient budget the harness passes.  The
\* retry state counts the retries used: [transient, format].  How long
\* a retry_after waits is left out: no property here depends on it.
Decide(cause, used, maxTransient) ==
  IF cause = "format_violation" /\ used.format < MaxFormatRetries
    THEN "retry_format_reminder"
  ELSE IF cause \in RetriedOnBudget /\ used.transient < maxTransient
    THEN IF cause = "rate_limit" THEN "retry_after" ELSE "retry_now"
  ELSE "terminal"

-----------------------------------------------------------------------------
\* What an outcome shows the classifiers: the watchdog flag, the cause the
\* transport stamped on it, the cause its own classifier finds in the stderr
\* tail, and the two legacy patterns in the tail and the text.
Outcomes ==
  [timedOut : BOOLEAN,
   stamped  : TransportCauses \cup {"none"},
   found    : TransportCauses \cup {"none"},
   loginWitness     : BOOLEAN,
   transientWitness : BOOLEAN]

\* classifyFailure of failure-classification.ts.
LegacyClass(o) ==
  IF o.timedOut THEN "transient"
  ELSE IF o.loginWitness THEN "terminal"
  ELSE IF o.transientWitness THEN "transient"
  ELSE "format"

\* causeFromLegacyFailureClass
CauseFromLegacy(class, o) ==
  IF class = "transient"
    THEN IF o.timedOut THEN "watchdog_timeout" ELSE "network_transient"
  ELSE IF class = "format" THEN "format_violation"
  ELSE "legacy_terminal"

\* resolveFailureCause: the first source that has an answer wins.
Resolve(o, parseThrew) ==
  IF o.timedOut THEN "watchdog_timeout"
  ELSE IF o.stamped # "none" THEN o.stamped
  ELSE IF o.found # "none" THEN o.found
  ELSE IF parseThrew THEN "format_violation"
  ELSE CauseFromLegacy(LegacyClass(o), o)

\* Mutant: TRANSIENT_FAMILY_CAUSES without the watchdog.
LegacyClassificationNoWatchdog(r) ==
  IF r = "format_violation" THEN "format"
  ELSE IF r \in {"network_transient", "protocol_truncation", "rate_limit"} THEN "transient"
  ELSE "terminal"

\* legacyClassificationFromCause: what the data plane does with the artifact.
LegacyClassification(r) ==
  IF r = "format_violation" THEN "format"
  ELSE IF r \in TRANSIENT_FAMILY_CAUSES THEN "transient"
  ELSE "terminal"
=============================================================================

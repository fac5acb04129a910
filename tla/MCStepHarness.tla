---------------------------- MODULE MCStepHarness ----------------------------
(* Three steps of a run: two share one provider credential, a metered one     *)
(* and a free one; the third is on a subscription whose credential projection *)
(* degraded, so its spend is charged to the metered bucket of the others.     *)
EXTENDS StepHarness, TLC

CONSTANTS m, f, d, bktA, bktB

MCSteps == {m, f, d}
MCBuckets == {bktA, bktB}
MCBucketOf == (m :> bktA) @@ (f :> bktA) @@ (d :> bktB)
MCBilling == (m :> "metered") @@ (f :> "free") @@ (d :> "subscription")
MCChargedTo == (m :> bktA) @@ (f :> bktA) @@ (d :> bktA)
MCMaxAttempts == (m :> 2) @@ (f :> 1) @@ (d :> 1)

\* Between them a cause for every retry action, and one that stops.
MCCauses == (m :> {"watchdog_timeout", "rate_limit"})
            @@ (f :> {"watchdog_timeout"})
            @@ (d :> {"format_violation"})
=============================================================================

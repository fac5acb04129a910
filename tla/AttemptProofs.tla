---------------------------- MODULE AttemptProofs ----------------------------
(***************************************************************************)
(* Proofs about one attempt session, for every set of cancellation         *)
(* semantics a transport may declare, and about the loop that retries      *)
(* attempts, for every attempt budget and every set of outcomes a failed   *)
(* attempt may show; and about the transport leases that attempts hold on  *)
(* one route, for every finite set of steps.                               *)
(*                                                                         *)
(* The session's invariants say what a receipt means once it is issued;    *)
(* they are not inductive, because what makes a receipt true is decided    *)
(* before it exists.  PhaseInv records, for each place executeSession can  *)
(* be at, what the race, the fence and the slot have settled by then.      *)
(*                                                                         *)
(* The loop's bound on attempts is not inductive either: it needs to know  *)
(* that every attempt but the last was paid for by a retry, and that       *)
(* retries stay within their budgets.                                      *)
(*                                                                         *)
(* Two facts carry the induction over the leases.  The gate: whoever waits *)
(* in the promise chain waits there once, and a step that is disposing     *)
(* holds it.  The cache: the registry has an instance exactly while leases *)
(* are out, so a new one is only made when nobody is left on the old one.  *)
(***************************************************************************)
EXTENDS AttemptSession, RetryLoop, TransportLeases, SequenceTheorems, FiniteSetTheorems,
        TLAPS

-----------------------------------------------------------------------------
(* The session.                                                            *)


\* Where executeSession is determines the fence and the receipt.
PhaseInv ==
  /\ Closed <=> phase \in {"persisting", "returned"}
  /\ fenced <=> phase \in {"grace", "persisting", "returned"}
  /\ phase \in {"racing", "delivering"} => ~aborted
  /\ phase = "grace" => aborted /\ raced \in {"cancel", "watchdog"}
  /\ phase = "delivering" => raced = "outcome" /\ slot.origin = "transport"
  /\ ~Closed => artifact = "absent" /\ slot.origin # "harness" /\ result = "none"
  /\ Closed /\ ~aborted => raced = "outcome"
  /\ raced = "outcome" => exec # "pending"
  /\ outcome # NoOutcome => exec = "resolved"

SessionInv == TypeOK /\ PhaseInv /\ ConfirmedMeansProven /\ NoSilentOrphan /\ ArtifactMatchesResult

LEMMA SessionInvInit == Init => SessionInv
<1> SUFFICES ASSUME Init PROVE SessionInv
  OBVIOUS
<1>1. TypeOK
  BY DEF Init, TypeOK
<1>2. ~Closed /\ slot.origin = "none"
  BY DEF Init, Closed, NoTerminal
<1>3. PhaseInv
  BY <1>2 DEF Init, PhaseInv
<1> QED
  BY <1>1, <1>2, <1>3
  DEF Init, SessionInv, ConfirmedMeansProven, NoSilentOrphan, ArtifactMatchesResult

LEMMA TypeNext == TypeOK /\ [Next]_vars => TypeOK'
<1> SUFFICES ASSUME TypeOK, [Next]_vars PROVE TypeOK'
  OBVIOUS
<1> USE DEF TypeOK, Statuses, Completions
<1>0. ASSUME NEW origin \in {"transport", "harness"}, NEW status \in Statuses, NEW proof \in BOOLEAN
      PROVE  Accepted(origin, status, proof) \in
               [origin : {"transport", "harness"}, status : Statuses, proof : BOOLEAN]
               \cup {NoTerminal}
  BY DEF Accepted
<1>0a. ASSUME NEW c \in Completions PROVE Status(c) \in Statuses
  BY DEF Status
<1>0b. outcome # NoOutcome => outcome.completion \in Completions /\ outcome.proof \in BOOLEAN
  OBVIOUS
<1>1. ASSUME NEW status \in Statuses, NEW proof \in BOOLEAN, PushTerminal(status, proof)
      PROVE  TypeOK'
  BY <1>0, <1>1 DEF PushTerminal
<1>2. ASSUME NEW c \in Completions, NEW proof \in BOOLEAN, ExecResolves(c, proof)
      PROVE  TypeOK'
  BY <1>0, <1>0a, <1>2 DEF ExecResolves
<1>3. CASE ExecRejects
  BY <1>3 DEF ExecRejects
<1>4. CASE Cancel
  BY <1>4 DEF Cancel
<1>5. ASSUME NEW racer \in {"outcome", "watchdog"}, RaceBy(racer) PROVE TypeOK'
  BY <1>5 DEF RaceBy
<1>6. CASE NoOutcomeToDeliver
  BY <1>6 DEF NoOutcomeToDeliver, Issue
<1>7. CASE StartDelivery
  BY <1>0, <1>0a, <1>0b, <1>7 DEF StartDelivery
<1>8. ASSUME NEW delivered \in BOOLEAN, Deliver(delivered) PROVE TypeOK'
  BY <1>8 DEF Deliver, Issue
<1>9. CASE DeliveryThrows
  BY <1>0, <1>9 DEF DeliveryThrows, Issue
<1>10. CASE Fence
  BY <1>10 DEF Fence
<1>11. CASE GraceEnds
  <2>1. slot' \in [origin : {"transport", "harness"}, status : Statuses, proof : BOOLEAN]
                  \cup {NoTerminal}
    <3>1. CASE raced = "cancel"
      BY <1>0, <1>11, <3>1 DEF GraceEnds
    <3>2. CASE raced # "cancel"
      BY <1>0, <1>11, <3>2 DEF GraceEnds
    <3> QED BY <3>1, <3>2
  <2>2. receipt' \in [outcome : {"failed", "cancelled_confirmed",
                                "local_fenced_remote_unconfirmed",
                                "local_termination_unconfirmed"},
                      confirmation : {"process_group_exited", "sdk_abort_confirmed",
                                      "unconfirmed"}]
    <3>1. CASE Confirmed
      BY <1>11, <3>1 DEF GraceEnds, Issue
    <3>2. CASE ~Confirmed
      BY <1>11, <3>2 DEF GraceEnds, Issue
    <3> QED BY <3>1, <3>2
  <2>3. /\ result' \in {"cancelled", "failed"}
        /\ fenced' = TRUE /\ phase' = "persisting"
        /\ UNCHANGED <<semantics, cancelled, exec, outcome, raced, aborted, artifact>>
    BY <1>11 DEF GraceEnds, Issue
  <2> QED
    BY <2>1, <2>2, <2>3
<1>12. CASE Persist
  BY <1>12 DEF Persist
<1>13. CASE UNCHANGED vars
  BY <1>13 DEF vars
<1> QED
  BY <1>1, <1>2, <1>3, <1>4, <1>5, <1>6, <1>7, <1>8, <1>9, <1>10, <1>11, <1>12, <1>13 DEF Next

-----------------------------------------------------------------------------
\* What the last step of a grace period leaves behind.
LEMMA GraceEndsEffect ==
  ASSUME TypeOK, PhaseInv, GraceEnds
  PROVE  /\ Closed' /\ phase' = "persisting" /\ fenced' /\ aborted' /\ aborted
         /\ ~Closed
         /\ UNCHANGED <<semantics, cancelled, exec, outcome, raced, artifact>>
         /\ artifact' = "absent" /\ result' \in {"cancelled", "failed"}
         /\ slot # NoTerminal => slot' = slot
         /\ receipt'.confirmation # "unconfirmed" => Confirmed /\ slot' = slot
<1>1. phase = "grace" /\ phase' = "persisting" /\ fenced' = TRUE
  BY DEF GraceEnds, Issue
<1>2. aborted /\ ~Closed /\ artifact = "absent"
  BY <1>1 DEF PhaseInv
<1>3. /\ UNCHANGED <<semantics, cancelled, exec, outcome, raced, aborted, artifact>>
      /\ result' \in {"cancelled", "failed"}
  BY DEF GraceEnds
<1>4. CASE Confirmed
  <2>1. slot' = slot
    BY <1>4 DEF GraceEnds
  <2>2. receipt' # NoReceipt
    BY <1>4 DEF GraceEnds, Issue, NoReceipt
  <2> QED
    BY <1>1, <1>2, <1>3, <1>4, <2>1, <2>2 DEF Closed
<1>5. CASE ~Confirmed
  <2>1. slot # NoTerminal => slot' = slot
    <3>1. CASE raced = "cancel"
      BY <1>2, <1>5, <3>1 DEF GraceEnds, Accepted
    <3>2. CASE raced # "cancel"
      BY <1>2, <1>5, <3>2 DEF GraceEnds, Accepted
    <3> QED BY <3>1, <3>2
  <2>2. receipt'.confirmation = "unconfirmed" /\ receipt' # NoReceipt
    BY <1>5 DEF GraceEnds, Issue, NoReceipt
  <2> QED
    BY <1>1, <1>2, <1>3, <1>5, <2>1, <2>2 DEF Closed
<1> QED
  BY <1>4, <1>5

LEMMA SessionInvNext == SessionInv /\ [Next]_vars => SessionInv'
<1> SUFFICES ASSUME SessionInv, [Next]_vars PROVE SessionInv'
  OBVIOUS
<1> DEFINE Safe == PhaseInv /\ ConfirmedMeansProven /\ NoSilentOrphan /\ ArtifactMatchesResult
<1>0. TypeOK' /\ TypeOK /\ Safe
  BY TypeNext DEF SessionInv
<1> SUFFICES Safe'
  BY <1>0 DEF SessionInv
<1> USE DEF PhaseInv, ConfirmedMeansProven, NoSilentOrphan, ArtifactMatchesResult
<1>1. ASSUME NEW status \in Statuses, NEW proof \in BOOLEAN, PushTerminal(status, proof)
      PROVE  Safe'
  BY <1>0, <1>1 DEF PushTerminal, Accepted, Closed
<1>2. ASSUME NEW c \in Completions, NEW proof \in BOOLEAN, ExecResolves(c, proof)
      PROVE  Safe'
  BY <1>0, <1>2 DEF ExecResolves, Accepted, Closed
<1>3. CASE ExecRejects
  BY <1>0, <1>3 DEF ExecRejects, Closed
<1>4. CASE Cancel
  BY <1>0, <1>4 DEF Cancel, Closed
<1>5. ASSUME NEW racer \in {"outcome", "watchdog"}, RaceBy(racer) PROVE Safe'
  BY <1>0, <1>5 DEF RaceBy, Closed
<1>6. CASE NoOutcomeToDeliver
  BY <1>0, <1>6 DEF NoOutcomeToDeliver, Issue, Closed, NoReceipt
<1>7. CASE StartDelivery
  BY <1>0, <1>7 DEF StartDelivery, Accepted, Closed, NoTerminal, TypeOK
<1>8. ASSUME NEW delivered \in BOOLEAN, Deliver(delivered) PROVE Safe'
  BY <1>0, <1>8 DEF Deliver, Issue, Closed, NoReceipt
<1>9. CASE DeliveryThrows
  BY <1>0, <1>9 DEF DeliveryThrows, Issue, Accepted, Closed, NoReceipt
<1>10. CASE Fence
  BY <1>0, <1>10 DEF Fence, Closed
<1>11. CASE GraceEnds
  BY <1>0, <1>11, GraceEndsEffect DEF Confirmed
<1>12. CASE Persist
  BY <1>0, <1>12 DEF Persist, Closed
<1>13. CASE UNCHANGED vars
  BY <1>0, <1>13 DEF vars, Closed
<1> QED
  BY <1>0, <1>1, <1>2, <1>3, <1>4, <1>5, <1>6, <1>7, <1>8, <1>9, <1>10, <1>11, <1>12, <1>13
  DEF Next, SessionInv

LEMMA SessionInvariant == Spec => []SessionInv
  BY SessionInvInit, SessionInvNext, PTL DEF Spec

-----------------------------------------------------------------------------
\* The types of the session, for every transport semantics.
THEOREM SessionTypeCorrect == Spec => []TypeOK
<1>1. SessionInv => TypeOK
  BY DEF SessionInv
<1> QED
  BY <1>1, SessionInvariant, PTL

\* A receipt never claims more than the transport proved.
THEOREM ReceiptsAreTrue == Spec => []ConfirmedMeansProven
<1>1. SessionInv => ConfirmedMeansProven
  BY DEF SessionInv
<1> QED
  BY <1>1, SessionInvariant, PTL

\* No session ends in silence over a transport that still runs.
THEOREM OrphansAreReported == Spec => []NoSilentOrphan
<1>1. SessionInv => NoSilentOrphan
  BY DEF SessionInv
<1> QED
  BY <1>1, SessionInvariant, PTL

\* An aborted session leaves no artifact, a delivered one leaves its own.
THEOREM ArtifactsMatch == Spec => []ArtifactMatchesResult
<1>1. SessionInv => ArtifactMatchesResult
  BY DEF SessionInv
<1> QED
  BY <1>1, SessionInvariant, PTL

\* A slot that holds a terminal keeps it.
LEMMA SlotKept ==
  ASSUME SessionInv, [Next]_vars, slot # NoTerminal
  PROVE  UNCHANGED slot
<1>1. TypeOK /\ PhaseInv
  BY DEF SessionInv
<1>2. ASSUME NEW origin, NEW status, NEW proof
      PROVE  Accepted(origin, status, proof) = slot
  BY DEF Accepted
<1>3. ASSUME NEW status \in Statuses, NEW proof \in BOOLEAN, PushTerminal(status, proof)
      PROVE  UNCHANGED slot
  BY <1>2, <1>3 DEF PushTerminal
<1>4. ASSUME NEW c \in Completions, NEW proof \in BOOLEAN, ExecResolves(c, proof)
      PROVE  UNCHANGED slot
  BY <1>2, <1>4 DEF ExecResolves
<1>5. CASE StartDelivery
  BY <1>2, <1>5 DEF StartDelivery
<1>6. CASE DeliveryThrows
  BY <1>2, <1>6 DEF DeliveryThrows
<1>7. CASE GraceEnds
  BY <1>1, <1>7, GraceEndsEffect
<1>8. CASE ExecRejects \/ Cancel \/ NoOutcomeToDeliver \/ Fence \/ Persist \/ UNCHANGED vars
  BY <1>8 DEF ExecRejects, Cancel, NoOutcomeToDeliver, Fence, Persist, vars
<1>9. ASSUME NEW racer \in {"outcome", "watchdog"}, RaceBy(racer) PROVE UNCHANGED slot
  BY <1>9 DEF RaceBy
<1>10. ASSUME NEW delivered \in BOOLEAN, Deliver(delivered) PROVE UNCHANGED slot
  BY <1>10 DEF Deliver
<1> QED
  BY <1>3, <1>4, <1>5, <1>6, <1>7, <1>8, <1>9, <1>10 DEF Next

\* The first terminal is the one the session is settled on.
THEOREM FirstTerminalStays == Spec => FirstTerminalWins
<1>1. SessionInv /\ [Next]_vars => [slot # NoTerminal => UNCHANGED slot]_vars
  BY SlotKept
<1> QED
  BY <1>1, SessionInvariant, PTL DEF Spec, FirstTerminalWins

\* A closed session is in its last two phases, where nothing is written.
LEMMA ClosedKept ==
  ASSUME SessionInv, [Next]_vars, Closed
  PROVE  UNCHANGED <<slot, receipt, artifact, fenced>>
<1>1. /\ phase \in {"persisting", "returned"} /\ fenced
      /\ TypeOK
  BY DEF SessionInv, PhaseInv
<1>2. ASSUME NEW status \in Statuses, NEW proof \in BOOLEAN, PushTerminal(status, proof)
      PROVE  UNCHANGED <<slot, receipt, artifact, fenced>>
  BY <1>1, <1>2 DEF PushTerminal
<1>3. ASSUME NEW c \in Completions, NEW proof \in BOOLEAN, ExecResolves(c, proof)
      PROVE  UNCHANGED <<slot, receipt, artifact, fenced>>
  BY <1>1, <1>3 DEF ExecResolves, Accepted
<1>4. CASE ExecRejects \/ Cancel \/ Persist \/ UNCHANGED vars
  BY <1>4 DEF ExecRejects, Cancel, Persist, vars
<1>5. ASSUME NEW racer \in {"outcome", "watchdog"}, RaceBy(racer)
      PROVE  UNCHANGED <<slot, receipt, artifact, fenced>>
  BY <1>5 DEF RaceBy
<1>6. ~NoOutcomeToDeliver /\ ~StartDelivery /\ ~DeliveryThrows /\ ~Fence /\ ~GraceEnds
  BY <1>1 DEF NoOutcomeToDeliver, StartDelivery, DeliveryThrows, Fence, GraceEnds
<1>7. ASSUME NEW delivered \in BOOLEAN PROVE ~Deliver(delivered)
  BY <1>1 DEF Deliver
<1> QED
  BY <1>2, <1>3, <1>4, <1>5, <1>6, <1>7 DEF Next

\* The receipt is the last word: nothing it speaks of changes after it.
THEOREM ReceiptIsLast == Spec => NothingAfterReceipt
<1>1. SessionInv /\ [Next]_vars =>
        [Closed => UNCHANGED <<slot, receipt, artifact, fenced>>]_vars
  BY ClosedKept
<1> QED
  BY <1>1, SessionInvariant, PTL DEF Spec, NothingAfterReceipt

-----------------------------------------------------------------------------
(* The retry loop.                                                         *)

\* Every attempt made was the first or a retry, except that while the loop runs
\* the retry just granted has not been made yet.
AttemptsAccounted ==
  attempts = used.transient + used.format + (IF verdict = "running" THEN 0 ELSE 1)

LoopInv == LoopTypeOK /\ AttemptsAccounted /\ ClassAgreesWithRetry

LEMMA BudgetIsNat == TransientBudget \in Nat /\ MaxFormatRetries = 1
  BY RetryLoopAssumption DEF TransientBudget, MaxFormatRetries

\* Every outcome resolves to a cause or to the legacy terminal witness.
LEMMA ResolveType ==
  ASSUME NEW o \in Outcomes, NEW parseThrew \in BOOLEAN
  PROVE  Resolve(o, parseThrew) \in Resolutions
<1>1. o.stamped \in TransportCauses \cup {"none"} /\ o.found \in TransportCauses \cup {"none"}
  BY DEF Outcomes
<1>2. LegacyClass(o) \in {"transient", "format", "terminal"}
  BY DEF LegacyClass, Outcomes
<1>3. CauseFromLegacy(LegacyClass(o), o) \in Resolutions
  BY <1>2 DEF CauseFromLegacy, Resolutions, FailureCauses, TransportCauses, HarnessCauses
<1> QED
  BY <1>1, <1>3 DEF Resolve, Resolutions, FailureCauses, HarnessCauses

\* What the loop does after a resolution, by the class of the resolution.
LEMMA ActionByClass ==
  ASSUME LoopTypeOK, NEW r \in Resolutions
  PROVE  \/ /\ Action(r) \in {"retry_now", "retry_after"}
            /\ LegacyClassification(r) = "transient"
            /\ used.transient < TransientBudget
         \/ /\ Action(r) = "retry_format_reminder"
            /\ LegacyClassification(r) = "format"
            /\ used.format < MaxFormatRetries
         \/ /\ Action(r) = "terminal"
            /\ LegacyClassification(r) = "transient" => used.transient = TransientBudget
            /\ LegacyClassification(r) = "format" => used.format = MaxFormatRetries
<1> USE BudgetIsNat
<1>1. used.transient \in 0..TransientBudget /\ used.format \in 0..MaxFormatRetries
  BY DEF LoopTypeOK
<1>2. CASE r = "legacy_terminal"
  BY <1>2 DEF Action, LegacyClassification, TRANSIENT_FAMILY_CAUSES
<1>3. CASE r = "format_violation"
  BY <1>1, <1>3 DEF Action, Decide, LegacyClassification, RetriedOnBudget
<1>4. CASE r \in RetriedOnBudget
  BY <1>1, <1>4 DEF Action, Decide, LegacyClassification, RetriedOnBudget, TRANSIENT_FAMILY_CAUSES
<1>5. CASE r \notin RetriedOnBudget \cup {"legacy_terminal", "format_violation"}
  BY <1>5 DEF Action, Decide, LegacyClassification, RetriedOnBudget, TRANSIENT_FAMILY_CAUSES
<1> QED
  BY <1>2, <1>3, <1>4, <1>5

LEMMA LoopInvInit == LoopInit => LoopInv
  BY BudgetIsNat DEF LoopInit, LoopInv, LoopTypeOK, AttemptsAccounted, ClassAgreesWithRetry

LEMMA FailsKeepsInv ==
  ASSUME LoopInv, NEW o \in Attempts, NEW parseThrew \in BOOLEAN, Fails(o, parseThrew)
  PROVE  LoopInv'
<1> DEFINE r == Resolve(o, parseThrew)
<1> USE BudgetIsNat
<1>1. r \in Resolutions
  BY ResolveType, RetryLoopAssumption
<1>2. /\ attempts' = attempts + 1
      /\ last' = r
      /\ used' = Spent(Action(r))
      /\ verdict' = IF Action(r) = "terminal" THEN "failed" ELSE "running"
      /\ verdict = "running"
  BY DEF Fails
<1>3. /\ used.transient \in 0..TransientBudget /\ used.format \in 0..MaxFormatRetries
      /\ attempts = used.transient + used.format /\ attempts \in Nat
  BY <1>2 DEF LoopInv, LoopTypeOK, AttemptsAccounted
<1>4. r # "none"
  BY <1>1 DEF Resolutions, FailureCauses, TransportCauses, HarnessCauses
<1> HIDE DEF r
<1>5. CASE /\ Action(r) \in {"retry_now", "retry_after"}
           /\ LegacyClassification(r) = "transient"
           /\ used.transient < TransientBudget
  <2>1. used' = [transient |-> used.transient + 1, format |-> used.format]
    BY <1>2, <1>3, <1>5 DEF Spent
  <2> QED
    BY <1>1, <1>2, <1>3, <1>5, <2>1
    DEF LoopInv, LoopTypeOK, AttemptsAccounted, ClassAgreesWithRetry
<1>6. CASE /\ Action(r) = "retry_format_reminder"
           /\ LegacyClassification(r) = "format"
           /\ used.format < MaxFormatRetries
  <2>1. used' = [transient |-> used.transient, format |-> used.format + 1]
    BY <1>2, <1>3, <1>6 DEF Spent
  <2> QED
    BY <1>1, <1>2, <1>3, <1>6, <2>1
    DEF LoopInv, LoopTypeOK, AttemptsAccounted, ClassAgreesWithRetry
<1>7. CASE /\ Action(r) = "terminal"
           /\ LegacyClassification(r) = "transient" => used.transient = TransientBudget
           /\ LegacyClassification(r) = "format" => used.format = MaxFormatRetries
  <2>1. used' = [transient |-> used.transient, format |-> used.format]
    BY <1>2, <1>3, <1>7 DEF Spent
  <2> QED
    BY <1>1, <1>2, <1>3, <1>7, <2>1
    DEF LoopInv, LoopTypeOK, AttemptsAccounted, ClassAgreesWithRetry
<1> QED
  BY <1>1, <1>5, <1>6, <1>7, ActionByClass DEF LoopInv

LEMMA LoopInvNext == LoopInv /\ [LoopNext]_loopVars => LoopInv'
<1> SUFFICES ASSUME LoopInv, [LoopNext]_loopVars PROVE LoopInv'
  OBVIOUS
<1>1. CASE Delivers
  BY <1>1, BudgetIsNat
  DEF Delivers, LoopInv, LoopTypeOK, AttemptsAccounted, ClassAgreesWithRetry
<1>2. ASSUME NEW o \in Attempts, NEW parseThrew \in BOOLEAN, Fails(o, parseThrew)
      PROVE  LoopInv'
  BY <1>2, FailsKeepsInv
<1>3. CASE UNCHANGED loopVars
  BY <1>3 DEF loopVars, LoopInv, LoopTypeOK, AttemptsAccounted, ClassAgreesWithRetry
<1> QED
  BY <1>1, <1>2, <1>3 DEF LoopNext

LEMMA LoopInvariant == LoopSpec => []LoopInv
  BY LoopInvInit, LoopInvNext, PTL DEF LoopSpec

-----------------------------------------------------------------------------
\* The retry state never leaves its budgets, whatever the attempts show.
THEOREM RetryTypeCorrect == LoopSpec => []LoopTypeOK
<1>1. LoopInv => LoopTypeOK
  BY DEF LoopInv
<1> QED
  BY <1>1, LoopInvariant, PTL

\* A step spawns at most its first attempt, its transient retries and one format
\* retry: the worst-case cost of a step.
THEOREM SpawnsBounded == LoopSpec => []AttemptsBounded
<1>1. LoopInv => AttemptsBounded
  BY BudgetIsNat DEF LoopInv, LoopTypeOK, AttemptsAccounted, AttemptsBounded
<1> QED
  BY <1>1, LoopInvariant, PTL

\* The retry table and the artifact table never disagree about a failure.
THEOREM TablesAgree == LoopSpec => []ClassAgreesWithRetry
<1>1. LoopInv => ClassAgreesWithRetry
  BY DEF LoopInv
<1> QED
  BY <1>1, LoopInvariant, PTL

-----------------------------------------------------------------------------
(* The leases of one route.                                                *)

Waiting == {"teardown", "disposing", "ending"}

GateInv ==
  /\ \A i \in 1..Len(gate) : pc[gate[i]] \in Waiting
  /\ \A s \in Steps : pc[s] = "disposing" => AtGate(s)

CacheInv == (cached = 0) <=> (Holders = {})

LeaseInv == LeaseTypeOK /\ GateInv /\ LeasesShareTheCached /\ CacheInv /\ ServerStaysUpForUsers

LEMMA HoldersFinite == IsFiniteSet(Holders) /\ Cardinality(Holders) \in Nat
<1>1. Holders \subseteq Steps
  BY DEF Holders
<1> QED
  BY <1>1, LeaseStepsAssumption, FS_Subset, FS_CardinalityType

LEMMA LeaseInvInit == LeaseInit => LeaseInv
<1> SUFFICES ASSUME LeaseInit PROVE LeaseInv
  OBVIOUS
<1>1. Holders = {} /\ gate = <<>> /\ Len(gate) = 0
  BY DEF LeaseInit, Holders
<1>2. LeaseTypeOK /\ GateInv /\ CacheInv /\ ServerStaysUpForUsers
  BY <1>1 DEF LeaseInit, LeaseTypeOK, GateInv, CacheInv, ServerStaysUpForUsers
<1>3. LeasesShareTheCached
  BY <1>1, FS_EmptySet DEF LeaseInit, LeasesShareTheCached
<1> QED
  BY <1>2, <1>3 DEF LeaseInv

-----------------------------------------------------------------------------
(* The promise chain.                                                      *)

\* A step that is in no waiting label joins the chain at its end.
LEMMA JoinsGate ==
  ASSUME LeaseTypeOK, GateInv, NEW s \in Steps, NEW label \in {"teardown", "ending"},
         pc[s] \notin Waiting, gate' = Append(gate, s), Goto(s, label)
  PROVE  /\ gate' \in Seq(Steps)
         /\ \A i, j \in 1..Len(gate') : gate'[i] = gate'[j] => i = j
         /\ GateInv'
<1>1. /\ gate' \in Seq(Steps) /\ Len(gate') = Len(gate) + 1 /\ Len(gate) \in Nat
      /\ \A i \in 1..Len(gate) : gate'[i] = gate[i] /\ gate[i] \in Steps
      /\ gate'[Len(gate) + 1] = s
  BY DEF LeaseTypeOK
<1>2. \A i \in 1..Len(gate) : gate[i] # s
  BY DEF GateInv
<1>3. /\ pc' \in [Steps -> {"idle", "leased", "using", "teardown", "disposing",
                           "torndown", "ending", "done"}]
      /\ \A t \in Steps : pc'[t] = IF t = s THEN label ELSE pc[t]
  BY DEF LeaseTypeOK, Goto
<1>4. \A i, j \in 1..Len(gate') : gate'[i] = gate'[j] => i = j
  BY <1>1, <1>2 DEF LeaseTypeOK
<1>5. \A i \in 1..Len(gate') : pc'[gate'[i]] \in Waiting
  BY <1>1, <1>2, <1>3 DEF GateInv, Waiting
<1>6. \A t \in Steps : pc'[t] = "disposing" => gate' # <<>> /\ Head(gate') = t
  <2> SUFFICES ASSUME NEW t \in Steps, pc'[t] = "disposing"
               PROVE  gate' # <<>> /\ Head(gate') = t
    OBVIOUS
  <2>1. gate # <<>> /\ Head(gate) = t
    BY <1>3 DEF GateInv, AtGate
  <2> QED
    BY <1>1, <2>1 DEF LeaseTypeOK
<1> QED
  BY <1>1, <1>4, <1>5, <1>6 DEF GateInv, AtGate

\* The step at the gate leaves the chain.
LEMMA LeavesGate ==
  ASSUME LeaseTypeOK, GateInv, NEW s \in Steps, NEW label \in {"torndown", "done"},
         AtGate(s), gate' = Tail(gate), Goto(s, label)
  PROVE  /\ gate' \in Seq(Steps)
         /\ \A i, j \in 1..Len(gate') : gate'[i] = gate'[j] => i = j
         /\ GateInv'
<1>1. /\ gate \in Seq(Steps) /\ gate # <<>> /\ Len(gate) \in Nat /\ Len(gate) >= 1 /\ gate[1] = s
  BY DEF LeaseTypeOK, AtGate
<1>2. /\ gate' \in Seq(Steps) /\ Len(gate') = Len(gate) - 1
      /\ \A i \in 1..Len(gate') : gate'[i] = gate[i + 1]
  BY <1>1
<1>3. \A i \in 1..Len(gate') : gate'[i] # s /\ gate'[i] \in Steps
  BY <1>1, <1>2 DEF LeaseTypeOK
<1>4. \A t \in Steps : pc'[t] = IF t = s THEN label ELSE pc[t]
  BY DEF LeaseTypeOK, Goto
<1>5. \A i, j \in 1..Len(gate') : gate'[i] = gate'[j] => i = j
  BY <1>1, <1>2 DEF LeaseTypeOK
<1>6. \A i \in 1..Len(gate') : pc'[gate'[i]] \in Waiting
  BY <1>1, <1>2, <1>3, <1>4 DEF GateInv
<1>7. \A t \in Steps : pc'[t] # "disposing"
  BY <1>4 DEF GateInv, AtGate
<1> QED
  BY <1>2, <1>5, <1>6, <1>7 DEF GateInv, AtGate

-----------------------------------------------------------------------------
(* The steps of the route.                                                 *)

Labels == {"idle", "leased", "using", "teardown", "disposing", "torndown", "ending", "done"}

\* A step that moves on inside its lease changes neither the leases nor the cache.
LEMMA MovesInsideLease ==
  ASSUME LeaseInv, NEW s \in Steps,
         NEW label \in {"using", "teardown", "disposing", "torndown", "ending"},
         s \in Holders, Goto(s, label), UNCHANGED <<refcount, cached, made, inst>>
  PROVE  /\ pc' \in [Steps -> Labels]
         /\ Holders' = Holders
         /\ LeasesShareTheCached' /\ CacheInv'
<1>1. /\ pc' \in [Steps -> Labels]
      /\ \A t \in Steps : pc'[t] = IF t = s THEN label ELSE pc[t]
  BY DEF LeaseInv, LeaseTypeOK, Goto, Labels
<1>2. Holders' = Holders
  BY <1>1 DEF Holders
<1> QED
  BY <1>1, <1>2 DEF LeaseInv, LeasesShareTheCached, CacheInv

LEMMA AcquireKeepsInv ==
  ASSUME LeaseInv, NEW s \in Steps, Acquire(s)
  PROVE  LeaseInv'
<1>1. /\ pc[s] = "idle" /\ UNCHANGED <<gate, open>> /\ refcount' = refcount + 1
      /\ pc' \in [Steps -> Labels]
      /\ \A t \in Steps : pc'[t] = IF t = s THEN "leased" ELSE pc[t]
  BY DEF Acquire, Goto, LeaseInv, LeaseTypeOK, Labels
<1>2. Holders' = Holders \cup {s} /\ s \notin Holders
  BY <1>1 DEF Holders
<1>3. Cardinality(Holders') = Cardinality(Holders) + 1
  BY <1>2, HoldersFinite, FS_AddElement
<1>4. /\ cached' \in Nat /\ cached' # 0 /\ made' \in Nat
      /\ cached # 0 => cached' = cached
      /\ inst' \in [Steps -> Nat]
      /\ \A t \in Steps : inst'[t] = IF t = s THEN cached' ELSE inst[t]
  BY DEF Acquire, LeaseInv, LeaseTypeOK
<1>5. LeaseTypeOK'
  BY <1>1, <1>4 DEF LeaseInv, LeaseTypeOK, Labels
<1>6. GateInv'
  <2>1. \A i \in 1..Len(gate) : gate[i] \in Steps /\ gate[i] # s
    BY <1>1 DEF LeaseInv, GateInv, LeaseTypeOK, Waiting
  <2> QED
    BY <1>1, <2>1 DEF LeaseInv, GateInv, AtGate
<1>7. LeasesShareTheCached' /\ CacheInv'
  <2>1. \A t \in Holders' : inst'[t] = cached'
    BY <1>2, <1>4 DEF LeaseInv, LeasesShareTheCached, CacheInv, Holders
  <2> QED
    BY <1>1, <1>2, <1>3, <1>4, <2>1 DEF LeaseInv, LeasesShareTheCached, CacheInv
<1>8. ServerStaysUpForUsers'
  BY <1>1, <1>4 DEF LeaseInv, ServerStaysUpForUsers
<1> QED
  BY <1>5, <1>6, <1>7, <1>8 DEF LeaseInv

LEMMA UseKeepsInv ==
  ASSUME LeaseInv, NEW s \in Steps, Use(s)
  PROVE  LeaseInv'
<1>1. /\ pc[s] = "leased" /\ Goto(s, "using") /\ open' = open \cup {inst[s]}
      /\ UNCHANGED <<refcount, gate, cached, made, inst>>
  BY DEF Use
<1>2. s \in Holders
  BY <1>1 DEF Holders
<1>3. pc' \in [Steps -> Labels] /\ LeasesShareTheCached' /\ CacheInv'
  BY <1>1, <1>2, MovesInsideLease
<1>4. \A t \in Steps : pc'[t] = IF t = s THEN "using" ELSE pc[t]
  BY <1>1 DEF LeaseInv, LeaseTypeOK, Goto
<1>5. LeaseTypeOK'
  BY <1>1, <1>3 DEF LeaseInv, LeaseTypeOK, Labels
<1>6. GateInv'
  <2>1. \A i \in 1..Len(gate) : gate[i] \in Steps /\ gate[i] # s
    BY <1>1 DEF LeaseInv, GateInv, LeaseTypeOK, Waiting
  <2> QED
    BY <1>1, <1>4, <2>1 DEF LeaseInv, GateInv, AtGate
<1>7. ServerStaysUpForUsers'
  BY <1>1, <1>4 DEF LeaseInv, ServerStaysUpForUsers
<1> QED
  BY <1>3, <1>5, <1>6, <1>7 DEF LeaseInv

\* The three ways into the chain.
LEMMA JoinKeepsInv ==
  ASSUME LeaseInv, NEW s \in Steps, NEW label \in {"teardown", "ending"},
         pc[s] \in {"leased", "using", "torndown"}, gate' = Append(gate, s), Goto(s, label),
         UNCHANGED <<refcount, cached, made, inst, open>>
  PROVE  LeaseInv'
<1>1. s \in Holders /\ pc[s] \notin Waiting
  BY DEF Holders, Waiting
<1>2. pc' \in [Steps -> Labels] /\ LeasesShareTheCached' /\ CacheInv'
  BY <1>1, MovesInsideLease
<1>3. /\ gate' \in Seq(Steps)
      /\ \A i, j \in 1..Len(gate') : gate'[i] = gate'[j] => i = j
      /\ GateInv'
  BY <1>1, JoinsGate DEF LeaseInv
<1>4. LeaseTypeOK'
  BY <1>2, <1>3 DEF LeaseInv, LeaseTypeOK, Labels
<1>5. ServerStaysUpForUsers'
  BY DEF LeaseInv, ServerStaysUpForUsers, LeaseTypeOK, Goto
<1> QED
  BY <1>2, <1>3, <1>4, <1>5 DEF LeaseInv

\* Passing the gate without being the last, or after the dispose.
LEMMA PassKeepsInv ==
  ASSUME LeaseInv, NEW s \in Steps, AtGate(s), s \in Holders,
         gate' = Tail(gate), Goto(s, "torndown"),
         UNCHANGED <<refcount, cached, made, inst, open>>
  PROVE  LeaseInv'
<1>1. pc' \in [Steps -> Labels] /\ LeasesShareTheCached' /\ CacheInv'
  BY MovesInsideLease
<1>2. /\ gate' \in Seq(Steps)
      /\ \A i, j \in 1..Len(gate') : gate'[i] = gate'[j] => i = j
      /\ GateInv'
  BY LeavesGate DEF LeaseInv
<1>3. LeaseTypeOK'
  BY <1>1, <1>2 DEF LeaseInv, LeaseTypeOK, Labels
<1>4. ServerStaysUpForUsers'
  BY DEF LeaseInv, ServerStaysUpForUsers, LeaseTypeOK, Goto
<1> QED
  BY <1>1, <1>2, <1>3, <1>4 DEF LeaseInv

\* The last lease starts to dispose: nobody else is using the server.
LEMMA DisposeKeepsInv ==
  ASSUME LeaseInv, NEW s \in Steps, pc[s] = "teardown", AtGate(s), refcount = 1,
         open' = open \ {inst[s]}, Goto(s, "disposing"),
         UNCHANGED <<refcount, gate, cached, made, inst>>
  PROVE  LeaseInv'
<1>1. s \in Holders
  BY DEF Holders
<1>2. pc' \in [Steps -> Labels] /\ LeasesShareTheCached' /\ CacheInv'
  BY <1>1, MovesInsideLease
<1>3. Holders = {s}
  <2>0. Cardinality(Holders) = 1
    BY DEF LeaseInv, LeasesShareTheCached
  <2>1. Cardinality(Holders \ {s}) = 0
    <3>1. Cardinality(Holders \ {s}) = Cardinality(Holders) - 1
      BY <1>1, HoldersFinite, FS_RemoveElement
    <3> QED
      BY <2>0, <3>1
  <2>2. IsFiniteSet(Holders \ {s})
    BY HoldersFinite, FS_RemoveElement
  <2>3. Holders \ {s} = {}
    BY <2>1, <2>2, FS_EmptySet
  <2> QED
    BY <1>1, <2>3
<1>4. \A t \in Steps : pc'[t] = IF t = s THEN "disposing" ELSE pc[t]
  BY DEF LeaseInv, LeaseTypeOK, Goto
<1>5. LeaseTypeOK'
  BY <1>2 DEF LeaseInv, LeaseTypeOK, Labels
<1>6. GateInv'
  <2>1. \A i \in 1..Len(gate) : gate[i] \in Steps
    BY DEF LeaseInv, LeaseTypeOK
  <2> QED
    BY <1>4, <2>1 DEF LeaseInv, GateInv, AtGate, Waiting
<1>7. ServerStaysUpForUsers'
  BY <1>3, <1>4 DEF ServerStaysUpForUsers, Holders
<1> QED
  BY <1>2, <1>5, <1>6, <1>7 DEF LeaseInv

\* The end of a lease: the last one takes the cached instance with it.
LEMMA EndLeaseKeepsInv ==
  ASSUME LeaseInv, NEW s \in Steps, EndLease(s)
  PROVE  LeaseInv'
<1>1. /\ pc[s] = "ending" /\ AtGate(s) /\ gate' = Tail(gate) /\ Goto(s, "done")
      /\ UNCHANGED <<made, inst, open>>
      /\ refcount' = IF refcount <= 1 THEN 0 ELSE refcount - 1
      /\ cached' = IF refcount <= 1 THEN 0 ELSE cached
  BY DEF EndLease
<1>2. /\ pc' \in [Steps -> Labels]
      /\ \A t \in Steps : pc'[t] = IF t = s THEN "done" ELSE pc[t]
  BY <1>1 DEF LeaseInv, LeaseTypeOK, Goto, Labels
<1>3. s \in Holders /\ Holders' = Holders \ {s}
  BY <1>1, <1>2 DEF Holders
<1>4. /\ Cardinality(Holders) = refcount /\ refcount >= 1
      /\ Cardinality(Holders') = refcount - 1
      /\ IsFiniteSet(Holders')
  <2>1. Cardinality(Holders) = refcount /\ refcount \in Nat
    BY DEF LeaseInv, LeasesShareTheCached, LeaseTypeOK
  <2>2. Cardinality(Holders') = Cardinality(Holders) - 1 /\ IsFiniteSet(Holders')
    BY <1>3, HoldersFinite, FS_RemoveElement
  <2>3. Cardinality(Holders') \in Nat
    BY <2>2, FS_CardinalityType
  <2> QED
    BY <2>1, <2>2, <2>3
<1>5. /\ gate' \in Seq(Steps)
      /\ \A i, j \in 1..Len(gate') : gate'[i] = gate'[j] => i = j
      /\ GateInv'
  BY <1>1, LeavesGate DEF LeaseInv
<1>6. LeaseTypeOK'
  BY <1>1, <1>2, <1>4, <1>5 DEF LeaseInv, LeaseTypeOK, Labels
<1>7. refcount \in Nat /\ refcount >= 1 /\ cached # 0
  BY <1>3, <1>4 DEF LeaseInv, LeaseTypeOK, CacheInv
<1>8. refcount = 1 <=> Holders' = {}
  <2>1. refcount = 1 <=> Cardinality(Holders') = 0
    BY <1>4, <1>7
  <2>2. Cardinality(Holders') = 0 <=> Holders' = {}
    BY <1>4, FS_EmptySet
  <2> QED
    BY <2>1, <2>2
<1>9. LeasesShareTheCached' /\ CacheInv'
  <2>1. CASE refcount = 1
    BY <1>1, <1>4, <1>7, <1>8, <2>1 DEF LeasesShareTheCached, CacheInv
  <2>2. CASE refcount # 1
    BY <1>1, <1>3, <1>4, <1>7, <1>8, <2>2 DEF LeaseInv, LeasesShareTheCached, CacheInv
  <2> QED
    BY <2>1, <2>2
<1>10. ServerStaysUpForUsers'
  BY <1>1, <1>2 DEF LeaseInv, ServerStaysUpForUsers
<1> QED
  BY <1>5, <1>6, <1>9, <1>10 DEF LeaseInv

LEMMA LeaseInvNext == LeaseInv /\ [LeaseNext]_leaseVars => LeaseInv'
<1> SUFFICES ASSUME LeaseInv, [LeaseNext]_leaseVars PROVE LeaseInv'
  OBVIOUS
<1>1. CASE UNCHANGED leaseVars
  BY <1>1 DEF leaseVars, LeaseInv, LeaseTypeOK, GateInv, AtGate, LeasesShareTheCached, CacheInv,
      ServerStaysUpForUsers, Holders
<1>2. ASSUME NEW s \in Steps, Acquire(s) PROVE LeaseInv'
  BY <1>2, AcquireKeepsInv
<1>3. ASSUME NEW s \in Steps, Use(s) PROVE LeaseInv'
  BY <1>3, UseKeepsInv
<1>4. ASSUME NEW s \in Steps, EndRun(s) PROVE LeaseInv'
  BY <1>4, JoinKeepsInv DEF EndRun
<1>5. ASSUME NEW s \in Steps, Refused(s) PROVE LeaseInv'
  BY <1>5, JoinKeepsInv DEF Refused
<1>6. ASSUME NEW s \in Steps, DisposeLease(s) PROVE LeaseInv'
  BY <1>6, JoinKeepsInv DEF DisposeLease
<1>7. ASSUME NEW s \in Steps, Teardown(s) PROVE LeaseInv'
  <2>1. s \in Holders
    BY <1>7 DEF Teardown, Holders
  <2>2. CASE refcount = 1
    BY <1>7, <2>2, DisposeKeepsInv DEF Teardown
  <2>3. CASE refcount # 1
    BY <1>7, <2>1, <2>3, PassKeepsInv DEF Teardown
  <2> QED
    BY <2>2, <2>3
<1>8. ASSUME NEW s \in Steps, Disposed(s) PROVE LeaseInv'
  <2>1. s \in Holders /\ AtGate(s)
    BY <1>8 DEF Disposed, Holders, LeaseInv, GateInv
  <2> QED
    BY <1>8, <2>1, PassKeepsInv DEF Disposed
<1>9. ASSUME NEW s \in Steps, EndLease(s) PROVE LeaseInv'
  BY <1>9, EndLeaseKeepsInv
<1> QED
  BY <1>1, <1>2, <1>3, <1>4, <1>5, <1>6, <1>7, <1>8, <1>9 DEF LeaseNext, Proceeds

LEMMA LeaseInvariant == LeaseSpec => []LeaseInv
  BY LeaseInvInit, LeaseInvNext, PTL DEF LeaseSpec

-----------------------------------------------------------------------------
\* The promise chain is a queue in which a step waits at most once.
THEOREM LeaseTypeCorrect == LeaseSpec => []LeaseTypeOK
<1>1. LeaseInv => LeaseTypeOK
  BY DEF LeaseInv
<1> QED
  BY <1>1, LeaseInvariant, PTL

\* Nobody is left on an evicted transport instance.
THEOREM LeasesShare == LeaseSpec => []LeasesShareTheCached
<1>1. LeaseInv => LeasesShareTheCached
  BY DEF LeaseInv
<1> QED
  BY <1>1, LeaseInvariant, PTL

\* The teardown by the last lease never takes the server from a step using it.
THEOREM ServerStaysUp == LeaseSpec => []ServerStaysUpForUsers
<1>1. LeaseInv => ServerStaysUpForUsers
  BY DEF LeaseInv
<1> QED
  BY <1>1, LeaseInvariant, PTL
=============================================================================

--------------------------- MODULE AttemptSession ---------------------------
(***************************************************************************)
(* One attempt session of the step harness: executeSession of              *)
(* src/src/execution/harness.ts over the terminal slot, write lease and    *)
(* receipts of src/src/execution/settlement.ts.                            *)
(*                                                                         *)
(* Three promises race: the transport's execute(), the cancel signal and   *)
(* the harness watchdog.  A promise that settles first decides the race,   *)
(* but the code after the await runs in a later turn, so the transport can *)
(* still move in between; RaceBy and the continuation are separate steps.  *)
(*                                                                         *)
(* The lease and the sink's fenceClosed flag are always closed together;   *)
(* fenced is both.  Data events carry no state of the session and are left *)
(* out.                                                                    *)
(***************************************************************************)
EXTENDS FiniteSets

CONSTANT Semantics   \* the cancellationSemantics a transport may declare

ASSUME SemanticsAssumption == 
  Semantics \subseteq {"provider-proof", "process-exit", "undeclared"}

VARIABLES
  semantics,  \* of the transport of this attempt
  cancelled,  \* the run's cancel signal has fired
  exec,       \* transport.execute(): "pending", "resolved" or "rejected"
  outcome,    \* the outcome execute() resolved with while the lease was valid
  raced,      \* the winner of the race, "none" until one settles
  phase,      \* where executeSession is
  fenced,     \* lease invalid and sink closed
  aborted,    \* controller.abort() was called
  slot,       \* the terminal compare-and-set slot
  receipt,    \* the settlement receipt
  artifact,   \* step.outPath: "absent" or "written"
  result      \* what executeSession returned

vars == <<semantics, cancelled, exec, outcome, raced, phase, fenced, aborted,
          slot, receipt, artifact, result>>

NoOutcome == [completion |-> "none", proof |-> FALSE]
NoTerminal == [origin |-> "none", status |-> "none", proof |-> FALSE]
NoReceipt == [outcome |-> "none", confirmation |-> "none"]

Completions == {"success", "failed", "cancelled"}
Statuses == {"completed", "failed", "cancelled"}

\* completionToStatus
Status(completion) == IF completion = "success" THEN "completed" ELSE completion

Closed == receipt # NoReceipt

-----------------------------------------------------------------------------
Init ==
  /\ semantics \in Semantics
  /\ cancelled \in BOOLEAN
  /\ raced = IF cancelled THEN "cancel" ELSE "none"
  /\ exec = "pending" /\ outcome = NoOutcome
  /\ phase = "racing"
  /\ fenced = FALSE /\ aborted = FALSE
  /\ slot = NoTerminal /\ receipt = NoReceipt
  /\ artifact = "absent" /\ result = "none"

\* Mutant: the last terminal wins, also after the receipt.
AcceptedLatest(origin, status, proof) ==
  [origin |-> origin, status |-> status, proof |-> proof]

\* acceptTerminal: the first terminal wins unless a receipt closed the session.
Accepted(origin, status, proof) ==
  IF Closed \/ slot # NoTerminal THEN slot
  ELSE [origin |-> origin, status |-> status, proof |-> proof]

-----------------------------------------------------------------------------
(* The environment: the transport, the cancel signal and the timer.        *)

\* sink.push of a terminal event: refused once the fence is closed.
PushTerminal(status, proof) ==
  /\ exec = "pending"
  /\ slot' = IF fenced THEN slot ELSE Accepted("transport", status, proof)
  /\ UNCHANGED <<semantics, cancelled, exec, outcome, raced, phase, fenced,
                 aborted, receipt, artifact, result>>

\* execute() resolves.  Behind the fence the outcome is dropped, its terminal
\* only offered to the slot.
ExecResolves(completion, proof) ==
  /\ exec = "pending"
  /\ exec' = "resolved"
  /\ IF fenced
       THEN /\ slot' = Accepted("transport", Status(completion), proof)
            /\ UNCHANGED outcome
       ELSE /\ outcome' = [completion |-> completion, proof |-> proof]
            /\ UNCHANGED slot
  /\ UNCHANGED <<semantics, cancelled, raced, phase, fenced, aborted, receipt,
                 artifact, result>>

ExecRejects ==
  /\ exec = "pending"
  /\ exec' = "rejected"
  /\ UNCHANGED <<semantics, cancelled, outcome, raced, phase, fenced, aborted,
                 slot, receipt, artifact, result>>

Cancel ==
  /\ ~cancelled
  /\ cancelled' = TRUE
  /\ raced' = IF raced = "none" THEN "cancel" ELSE raced
  /\ UNCHANGED <<semantics, exec, outcome, phase, fenced, aborted, slot,
                 receipt, artifact, result>>

\* Mutant: the watchdog timer is never armed.
RaceByUnarmed(racer) ==
  /\ raced = "none" /\ racer = "outcome" /\ exec # "pending"
  /\ raced' = racer
  /\ UNCHANGED <<semantics, cancelled, exec, outcome, phase, fenced, aborted,
                 slot, receipt, artifact, result>>

\* The watchdog timer, or the settled execute() promise, decides the race.
RaceBy(racer) ==
  /\ raced = "none"
  /\ racer = "outcome" => exec # "pending"
  /\ raced' = racer
  /\ UNCHANGED <<semantics, cancelled, exec, outcome, phase, fenced, aborted,
                 slot, receipt, artifact, result>>

-----------------------------------------------------------------------------
(* executeSession after the race.                                          *)

Issue(what, confirmation) ==
  /\ receipt' = [outcome |-> what, confirmation |-> confirmation]
  /\ fenced' = TRUE
  /\ phase' = "persisting"

\* The race went to a promise that produced no outcome (a rejecting transport).
NoOutcomeToDeliver ==
  /\ phase = "racing" /\ raced = "outcome" /\ outcome = NoOutcome
  /\ Issue("local_termination_unconfirmed", "unconfirmed")
  /\ result' = "cancelled"
  /\ UNCHANGED <<semantics, cancelled, exec, outcome, raced, aborted, slot, artifact>>

\* Mutant: an outcome that came in before the fence is delivered after it.
StartDeliveryLate ==
  /\ phase \in {"racing", "grace"} /\ outcome # NoOutcome
  /\ slot' = Accepted("transport", Status(outcome.completion), outcome.proof)
  /\ phase' = "delivering"
  /\ UNCHANGED <<semantics, cancelled, exec, outcome, raced, fenced, aborted,
                 receipt, artifact, result>>

StartDelivery ==
  /\ phase = "racing" /\ raced = "outcome" /\ outcome # NoOutcome
  /\ slot' = Accepted("transport", Status(outcome.completion), outcome.proof)
  /\ phase' = "delivering"
  /\ UNCHANGED <<semantics, cancelled, exec, outcome, raced, fenced, aborted,
                 receipt, artifact, result>>

\* onData ran to its end under the valid lease: it delivered a parsed draft, or
\* refused it, in which case an artifact already written may stay behind (the
\* "ok" log failed after it).
Deliver(delivered) ==
  /\ phase = "delivering"
  /\ artifact' \in IF delivered THEN {"written"} ELSE {"absent", "written"}
  /\ result' = IF delivered THEN "delivered" ELSE "failed"
  /\ Issue(IF outcome.completion = "success" THEN "completed" ELSE "failed",
           IF outcome.proof THEN "process_group_exited" ELSE "not_required")
  /\ UNCHANGED <<semantics, cancelled, exec, outcome, raced, aborted, slot>>

\* onData threw: the session settles as failed, and still settles.
DeliveryThrows ==
  /\ phase = "delivering"
  /\ result' = "failed"
  /\ slot' = Accepted("harness", "failed", FALSE)
  /\ Issue("local_termination_unconfirmed", "unconfirmed")
  /\ UNCHANGED <<semantics, cancelled, exec, outcome, raced, aborted, artifact>>

\* Mutant: the transport is not told.
FenceQuietly ==
  /\ phase = "racing" /\ raced \in {"cancel", "watchdog"}
  /\ fenced' = TRUE
  /\ phase' = "grace"
  /\ UNCHANGED <<semantics, cancelled, exec, outcome, raced, aborted, slot,
                 receipt, artifact, result>>

\* Cancellation or watchdog: fence, abort the transport, and give it grace.
Fence ==
  /\ phase = "racing" /\ raced \in {"cancel", "watchdog"}
  /\ fenced' = TRUE
  /\ aborted' = TRUE
  /\ phase' = "grace"
  /\ UNCHANGED <<semantics, cancelled, exec, outcome, raced, slot, receipt,
                 artifact, result>>

\* Mutant: any terminal of the transport will do.
ConfirmedUnproven == slot.origin = "transport"

\* Did the transport itself say that it ended, with proof where it owes one?
Confirmed ==
  /\ slot.origin = "transport"
  /\ semantics = "provider-proof" => slot.proof

\* execute() settled, or the grace timer fired: settle on what the slot holds.
GraceEnds ==
  /\ phase = "grace"
  /\ IF Confirmed
       THEN /\ UNCHANGED slot
            /\ Issue(IF raced = "cancel" THEN "cancelled_confirmed" ELSE "failed",
                     IF semantics = "process-exit" THEN "process_group_exited"
                     ELSE "sdk_abort_confirmed")
       ELSE /\ slot' = Accepted("harness",
                         IF raced = "cancel" THEN "cancelled" ELSE "failed", FALSE)
            /\ Issue(IF semantics = "provider-proof"
                       THEN "local_fenced_remote_unconfirmed"
                       ELSE "local_termination_unconfirmed",
                     "unconfirmed")
  /\ result' = IF raced = "cancel" THEN "cancelled" ELSE "failed"
  /\ UNCHANGED <<semantics, cancelled, exec, outcome, raced, aborted, artifact>>

\* persistSettlement: writing the receipt can fail, and the error leaves
\* executeSession in place of a result.
Persist ==
  /\ phase = "persisting"
  /\ phase' = "returned"
  /\ result' \in {result, "threw"}
  /\ UNCHANGED <<semantics, cancelled, exec, outcome, raced, fenced, aborted,
                 slot, receipt, artifact>>

\* A promise or an event of the transport may still arrive after the return.
Next ==
  \/ \E status \in Statuses, proof \in BOOLEAN : PushTerminal(status, proof)
  \/ \E completion \in Completions, proof \in BOOLEAN : ExecResolves(completion, proof)
  \/ ExecRejects
  \/ Cancel
  \/ \E racer \in {"outcome", "watchdog"} : RaceBy(racer)
  \/ NoOutcomeToDeliver
  \/ StartDelivery
  \/ \E delivered \in BOOLEAN : Deliver(delivered)
  \/ DeliveryThrows
  \/ Fence
  \/ GraceEnds
  \/ Persist

Spec == Init /\ [][Next]_vars

Continues ==
  NoOutcomeToDeliver \/ StartDelivery \/ (\E d \in BOOLEAN : Deliver(d))
  \/ DeliveryThrows \/ Fence \/ Persist

\* Continuations run, and the two timers the harness arms fire.  Nothing is
\* assumed of the transport: it may never resolve, and ignore the abort.
FairSpec == Spec /\ WF_vars(Continues) /\ WF_vars(RaceBy("watchdog")) /\ WF_vars(GraceEnds)

-----------------------------------------------------------------------------
TypeOK ==
  /\ semantics \in Semantics
  /\ cancelled \in BOOLEAN /\ fenced \in BOOLEAN /\ aborted \in BOOLEAN
  /\ exec \in {"pending", "resolved", "rejected"}
  /\ outcome \in [completion : Completions, proof : BOOLEAN] \cup {NoOutcome}
  /\ raced \in {"none", "outcome", "cancel", "watchdog"}
  /\ phase \in {"racing", "grace", "delivering", "persisting", "returned"}
  /\ slot \in [origin : {"transport", "harness"}, status : Statuses, proof : BOOLEAN]
              \cup {NoTerminal}
  /\ receipt \in [outcome : {"completed", "failed", "cancelled_confirmed",
                             "local_fenced_remote_unconfirmed",
                             "local_termination_unconfirmed"},
                  confirmation : {"process_group_exited", "sdk_abort_confirmed",
                                  "not_required", "unconfirmed"}] \cup {NoReceipt}
  /\ artifact \in {"absent", "written"}
  /\ result \in {"none", "cancelled", "delivered", "failed", "threw"}

\* A receipt that claims the aborted attempt ended rests on a terminal of the
\* transport, carrying proof when the transport's semantics owe one.
ConfirmedMeansProven ==
  aborted /\ Closed /\ receipt.confirmation # "unconfirmed" =>
    /\ slot.origin = "transport"
    /\ semantics = "provider-proof" => slot.proof

\* A session never walks away silently from a running transport: it was told to
\* abort, and without a terminal of its own the receipt says "unconfirmed".
NoSilentOrphan ==
  Closed /\ exec = "pending" =>
    /\ aborted
    /\ slot.origin # "transport" => receipt.confirmation = "unconfirmed"

\* A cancelled or timed-out session leaves no artifact, even when the outcome
\* came in between the lost race and the fence; a delivered one does.
ArtifactMatchesResult ==
  /\ aborted => artifact = "absent"
  /\ result = "delivered" => artifact = "written" /\ Closed

\* Once a receipt is issued neither it, the terminal it was written from nor
\* the artifact changes, whatever the transport still does.
NothingAfterReceipt ==
  [][Closed => UNCHANGED <<slot, receipt, artifact, fenced>>]_vars

\* The first terminal stays: no later event, outcome or grace replaces it.
FirstTerminalWins == [][slot # NoTerminal => UNCHANGED slot]_vars

\* Section 5.1 of the design: a session always settles with a receipt, also
\* when the transport hangs and ignores the abort.
AlwaysSettles == <>(phase = "returned" /\ Closed)
=============================================================================

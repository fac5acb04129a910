------------------------------ MODULE CiRecords ------------------------------
(***************************************************************************)
(* The decision tables the parts of a CI review share: what a row of the   *)
(* admission ledger means (src/src/ci/admission-ledger.ts), which status   *)
(* a finished review writes (src/src/pr/preflight.ts), and what the        *)
(* publisher step does with the record the CLI left                        *)
(* (src/src/ci/publish.ts).  Texts, links and counts are left out.         *)
(***************************************************************************)
EXTENDS Naturals, FiniteSets

ActiveStatuses == {"reserved", "provider-started"}
TerminalStatuses ==
  {"completed", "failed", "cancelled", "skipped", "yielded", "gate-skipped"}

\* The rows that spend one of the PR's automatic attempts, and the rows that
\* prove that nothing was spent.
BudgetStatuses == {"completed", "failed", "provider-started", "skipped"}
UnspentStatuses == {"gate-skipped", "yielded"}

\* A row: its status, and whether a comment asked for the run.
NoRow == [st |-> "absent", forced |-> FALSE]
Rows == [st : ActiveStatuses \cup TerminalStatuses, forced : BOOLEAN]

\* countTerminalAttempts
SpendsAttempt(row) == ~row.forced /\ row.st \in BudgetStatuses

\* Mutant: a reservation whose run may have started counts as unspent.
CountableReserved(rows) ==
  ~(rows # {} /\ \A row \in rows :
      row.forced \/ row.st \in UnspentStatuses \cup {"reserved"})

\* countableWorkflowHeads, for one head: it counts unless it has rows and all
\* of them are unspent or forced.
Countable(rows) ==
  ~(rows # {} /\ \A row \in rows : row.forced \/ row.st \in UnspentStatuses)

\* reserveAdmissionAttempt: the active row the gate listed is reused, except
\* that an automatic run never takes over a forced row.
Reserve(seen, forced) ==
  IF seen # NoRow /\ (forced \/ ~seen.forced)
    THEN seen
    ELSE [st |-> "reserved", forced |-> forced]

\* How far the pipeline got and what it found: "red" is a blocking finding, or
\* a review that lost some of its hunters; "running" includes a
\* pipeline whose findings were never counted.
Outcomes == {"none", "running", "failed", "idle", "clean", "red"}

\* commitStatusCompletion, gate mode: no count, a failed session and a run in
\* which no reviewer ran are errors.
Completion(out) ==
  CASE out = "clean" -> "success"
    [] out = "red" -> "failure"
    [] OTHER -> "error"

Verdicts == {"success", "failure"}
Settled == {"success", "failure", "error", "override"}

\* Mutant: a review that failed while posting is left to its status.
PublisherErrorQuiet(rec, newest) ==
  \/ rec = "hunters-failed"
  \/ rec = "reviewing" /\ newest \notin Settled

\* decideCliOutcome: the records for which the publisher writes an error
\* status.  A reviewing record is answered unless its head is settled already;
\* an unreadable head ("unknown") is answered too.
PublisherError(rec, newest) ==
  \/ rec \in {"hunters-failed", "error"}
  \/ rec = "reviewing" /\ newest \notin Settled

\* decideCancelSettle: a record that names a head, and the newest status is a
\* pending that links to this run.
CancelSettles(rec, newest, mine) ==
  rec \in {"reviewing", "reviewed", "hunters-failed", "error"}
    /\ newest = "pending" /\ mine
==============================================================================

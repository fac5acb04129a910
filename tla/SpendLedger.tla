----------------------------- MODULE SpendLedger -----------------------------
(***************************************************************************)
(* The in-memory spend ledger of one run and the rule that turns a usage   *)
(* report into a settlement (src/src/execution/spend-limiter.ts).          *)
(*                                                                         *)
(* A reservation is opened at most once and then reaches one terminal      *)
(* state through a compare-and-set keyed by an idempotency key.  Calls may *)
(* be repeated, and two callers may disagree about how an attempt ended.   *)
(* Amounts are abstracted: a settlement is "settled", whatever its figure. *)
(***************************************************************************)
EXTENDS FiniteSets

CONSTANTS
  Ids,          \* reservation ids (randomUUID in the code: never reused)
  SpendBuckets, \* buckets a reservation can be charged to
  Keys          \* idempotency keys

CONSTANT NoKey
ASSUME KeyAssumption == NoKey \notin Keys

VARIABLES
  entry,   \* reservations: bucket, state and terminal idempotency key
  fenced,  \* fencedBuckets
  reply    \* what the last call answered, and to which request

ledgerVars == <<entry, fenced, reply>>

Terminal == {"settled", "released_unstarted", "unresolved_remote"}

-----------------------------------------------------------------------------
(* settlementFromUsage: what a provider's usage report lets us settle.     *)

Usage == [complete : BOOLEAN,
          cash     : {"unknown", "zero", "positive"},
          billing  : {"metered", "free", "subscription"},
          output   : BOOLEAN]   \* outputTokensKnown(tokens) > 0

\* A metered provider that reports $0 for delivered output cannot account for it.
MeteredZero(u) == u.billing = "metered" /\ u.cash = "zero" /\ u.output

\* A free-declared route that reports a price has flipped to metered.
FreeFlip(u) == u.billing = "free" /\ u.cash = "positive"

SettlementFromUsage(u) ==
  IF ~u.complete \/ u.cash = "unknown" \/ MeteredZero(u) THEN "unresolved"
  ELSE IF FreeFlip(u) THEN "free_nonzero_cost"
  ELSE "settle"

-----------------------------------------------------------------------------
Init ==
  /\ entry = [i \in Ids |-> [bucket |-> NoKey, state |-> "none", key |-> NoKey]]
  /\ fenced = {}
  /\ reply = [op |-> "none", id |-> NoKey, says |-> "ok"]

\* Mutant: reserve() does not look at the fence.
ReserveUnfenced(i, b) ==
  /\ entry[i].state = "none"
  /\ entry' = [entry EXCEPT ![i] = [bucket |-> b, state |-> "reserved", key |-> NoKey]]
  /\ UNCHANGED fenced

Reserve(i, b) ==
  /\ entry[i].state = "none"
  /\ b \notin fenced
  /\ entry' = [entry EXCEPT ![i] = [bucket |-> b, state |-> "reserved", key |-> NoKey]]
  /\ UNCHANGED fenced

\* Mutant: the transition is a plain set, no compare.
TransitionUnguarded(i, kind, k) ==
  /\ entry' = [entry EXCEPT ![i] = [bucket |-> @.bucket, state |-> kind, key |-> k]]
  /\ fenced' = IF kind = "unresolved_remote" THEN fenced \cup {entry[i].bucket}
               ELSE fenced

\* transition(): the compare-and-set, and markUnresolvedRemote's fence, which
\* only an applied transition raises.
Transition(i, kind, k) ==
  /\ entry[i].state = "reserved"
  /\ entry' = [entry EXCEPT ![i] = [bucket |-> @.bucket, state |-> kind, key |-> k]]
  /\ fenced' = IF kind = "unresolved_remote" THEN fenced \cup {entry[i].bucket}
               ELSE fenced

\* Mutant: markUnresolvedRemote fences before it knows whether it applied.
TransitionRefusedFences(i, kind, k) ==
  /\ entry[i].state # "reserved"
  /\ fenced' = IF kind = "unresolved_remote" /\ entry[i].state # "none"
                 THEN fenced \cup {entry[i].bucket} ELSE fenced
  /\ UNCHANGED entry

\* The same key asking for the same transition again changes nothing and
\* succeeds; any other request on a terminal reservation is a conflict, and a
\* request on an id never reserved is an error.
TransitionRefused(i, kind, k) ==
  /\ entry[i].state # "reserved"
  /\ UNCHANGED <<entry, fenced>>

Refusal(i, kind, k) ==
  IF entry[i].state = "none" THEN "not_found"
  ELSE IF entry[i].key = k /\ entry[i].state = kind THEN "ok"
  ELSE "conflict"

Says(op, i, answer) == reply' = [op |-> op, id |-> i, says |-> answer]

\* A fenced bucket refuses with SpendReservationFencedError.
Reserves(i, b) ==
  \/ Reserve(i, b) /\ Says("reserve", i, "ok")
  \/ /\ entry[i].state = "none"
     /\ b \in fenced
     /\ Says("reserve", i, "fenced")
     /\ UNCHANGED <<entry, fenced>>

Finishes(i, kind, k) ==
  \/ Transition(i, kind, k) /\ Says(kind, i, "ok")
  \/ TransitionRefused(i, kind, k) /\ Says(kind, i, Refusal(i, kind, k))

Next ==
  \E i \in Ids :
    \/ \E b \in SpendBuckets : Reserves(i, b)
    \/ \E kind \in Terminal, k \in Keys : Finishes(i, kind, k)

Spec == Init /\ [][Next]_ledgerVars

-----------------------------------------------------------------------------
Unresolved(b) ==
  {i \in Ids : entry[i].bucket = b /\ entry[i].state = "unresolved_remote"}

LedgerTypeOK ==
  /\ entry \in [Ids -> [bucket : SpendBuckets \cup {NoKey},
                        state : Terminal \cup {"none", "reserved"},
                        key : Keys \cup {NoKey}]]
  /\ \A i \in Ids : entry[i].state # "none" => entry[i].bucket \in SpendBuckets
  /\ fenced \subseteq SpendBuckets

\* A bucket is fenced exactly when it carries spend nobody could account for:
\* conflicting or repeated calls neither raise a fence nor lift one.
FencedIffUnresolved == \A b \in SpendBuckets : b \in fenced <=> Unresolved(b) # {}

\* A call that is told "ok" got what it asked for, and the ledger still says so:
\* the repeat of a transition that was applied differently is never acknowledged.
AnswerIsTruth ==
  reply.says = "ok" /\ reply.op \in Terminal => entry[reply.id].state = reply.op

\* A terminal reservation is never rewritten, by whatever mix of callers.
TerminalIsFinal ==
  [][\A i \in Ids : entry[i].state \in Terminal => entry'[i] = entry[i]]_ledgerVars

\* After a fence no call opens another reservation in that bucket.
FenceIsForTheRun ==
  [][\A i \in Ids :
       /\ entry[i].state = "none"
       /\ entry'[i].state # "none"
       => Unresolved(entry'[i].bucket) = {}]_ledgerVars
=============================================================================

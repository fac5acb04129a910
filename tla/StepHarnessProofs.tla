------------------------- MODULE StepHarnessProofs -------------------------
(***************************************************************************)
(* Proofs about the attempt loops of a run, for every finite set of steps, *)
(* every assignment of billing modes, buckets, budgets and causes, and     *)
(* both kinds of gate.                                                     *)
(*                                                                         *)
(* The limiter and the ledger are proved about in modules of their own;    *)
(* what is used here is that each of their operations keeps its invariant  *)
(* and whose slot it touches.  On top of them the harness keeps three      *)
(* things: slots (who holds one is inside an attempt), books (where the    *)
(* loop is tells the state of every reservation of the step) and exposure  *)
(* (the attempts whose spend is or may end unaccounted for).               *)
(***************************************************************************)
EXTENDS StepHarness, FiniteSetTheorems, TLAPS

LP == INSTANCE ConcurrencyLimiterProofs
SP == INSTANCE SpendLedgerProofs WITH
  SpendBuckets <- Buckets, Keys <- {"finalize", "release-unstarted"}, reply <- NoKey

-----------------------------------------------------------------------------
(* The limiter's lemmas, for the limiter of this run.                      *)

LEMMA FiniteSteps == LP!IsFiniteSet(Steps)
  BY LimiterConstantsAssumption DEF LP!IsFiniteSet, IsFiniteSet

LEMMA SameType == LP!TypeOK <=> Limiter!TypeOK
  BY DEF LP!TypeOK, Limiter!TypeOK, LP!Status, Limiter!Status

\* The counters, queues and order keep their invariant, and slots change hands:
\* only a member of out loses its slot, only one that waited or a member of in
\* gets one, and only a member of in starts to wait.
Handover(out, in) ==
  /\ LP!LimiterInv'
  /\ \A t \in Steps :
       /\ status'[t] = "held" => status[t] \in {"held", "queued"} \/ t \in in
       /\ status'[t] = "queued" => status[t] = "queued" \/ t \in in
       /\ status[t] = "held" /\ t \notin out => status'[t] = "held"
       /\ t \in out => status'[t] \notin {"held", "queued"}

LEMMA AcquireHands ==
  ASSUME LP!LimiterInv, NEW s \in Steps, Limiter!Acquire(s)
  PROVE  Handover({}, {s})
<1>1. LP!Acquire(s)
  BY DEF LP!Acquire, LP!Asks, LP!Admits, LP!Lesser, LP!First, LP!AfterFirst, LP!ToSet,
         Limiter!Acquire, Limiter!Asks, Limiter!Admits, Limiter!Lesser,
         Limiter!First, Limiter!AfterFirst, Limiter!ToSet
<1>2. /\ LP!LimiterInv'
      /\ \E G \in SUBSET (LP!Queued \cup {s}) :
           LP!Held' = LP!Held \cup G /\ LP!Queued' = (LP!Queued \cup {s}) \ G
  BY <1>1, LP!AcquireKeepsInv, FiniteSteps, LimiterConstantsAssumption, Zenon
<1> QED
  BY <1>2 DEF Handover, LP!Held, LP!Queued

LEMMA RefusedHands ==
  ASSUME LP!LimiterInv, NEW s \in Steps, Limiter!AcquireRefused(s)
  PROVE  Handover({}, {})
<1>1. LP!AcquireRefused(s)
  BY DEF LP!AcquireRefused, LP!Asks, Limiter!AcquireRefused, Limiter!Asks
<1>2. LP!LimiterInv' /\ UNCHANGED <<LP!Held, LP!Queued, tripped>>
  BY <1>1, LP!AcquireRefusedKeepsInv, FiniteSteps, LimiterConstantsAssumption, Zenon
<1> QED
  BY <1>2 DEF Handover, LP!Held, LP!Queued

LEMMA TripHands ==
  ASSUME LP!LimiterInv, NEW b \in Buckets, Limiter!TripBreaker(b)
  PROVE  Handover({}, {})
<1>1. LP!TripBreaker(b)
  BY DEF LP!TripBreaker, Limiter!TripBreaker, LP!ToSet, Limiter!ToSet
<1>2. /\ LP!LimiterInv'
      /\ LP!Held' = LP!Held /\ LP!Queued' = LP!Queued \ LP!Of(LP!Queued, b)
  BY <1>1, LP!TripBreakerKeepsInv, FiniteSteps, LimiterConstantsAssumption, Zenon
<1> QED
  BY <1>2 DEF Handover, LP!Held, LP!Queued

LEMMA ReleaseHands ==
  ASSUME LP!LimiterInv, NEW s \in Steps, Limiter!Release(s)
  PROVE  status[s] = "held" /\ Handover({s}, {})
<1>1. LP!Release(s)
  BY DEF LP!Release, LP!PumpedInOrder, LP!Admits, LP!Lesser, LP!First, LP!AfterFirst, LP!ToSet,
         Limiter!Release, Limiter!PumpedInOrder, Limiter!Admits, Limiter!Lesser,
         Limiter!First, Limiter!AfterFirst, Limiter!ToSet
<1>2. /\ LP!LimiterInv' /\ s \in LP!Held
      /\ \E G \in SUBSET LP!Queued :
           LP!Held' = (LP!Held \ {s}) \cup G /\ LP!Queued' = LP!Queued \ G
  BY <1>1, LP!ReleaseKeepsInv, FiniteSteps, LimiterConstantsAssumption, Zenon
<1> QED
  BY <1>2 DEF Handover, LP!Held, LP!Queued

LEMMA NothingHands ==
  ASSUME LP!LimiterInv, UNCHANGED limiterVars
  PROVE  Handover({}, {})
<1>1. UNCHANGED LP!vars
  BY DEF limiterVars, LP!vars
<1>2. LP!LimiterInv'
  BY <1>1, LP!StutterKeepsInv, FiniteSteps, LimiterConstantsAssumption, Zenon
<1> QED
  BY <1>2 DEF Handover, limiterVars

\* The cancellation empties every queue in one turn.
LEMMA CancelHands ==
  ASSUME LP!LimiterInv, CancelRun
  PROVE  Handover({}, {})
<1>1. /\ aborted' \subseteq Steps
      /\ queue' = [b \in Buckets |-> <<>>]
      /\ status' = [t \in Steps |-> IF status[t] = "queued" THEN "aborted" ELSE status[t]]
      /\ UNCHANGED <<inUse, globalInUse, order, tripped>>
  BY DEF CancelRun
<1>2. LP!LimiterInv'
  BY <1>1, LP!AbortAllKeepsInv, FiniteSteps, LimiterConstantsAssumption, Zenon
<1> QED
  BY <1>1, <1>2 DEF Handover

-----------------------------------------------------------------------------
(* Slots.                                                                  *)

Verdicts == [kind : {"none", "cancelled", "threw", "delivered", "failed"},
             cause : Resolutions \cup {"none"},
             decision : {"none", "settle", "unresolved", "free_nonzero_cost"},
             unconfirmed : BOOLEAN]

LoopsOK ==
  /\ wired \in Gates
  /\ pc \in [Steps -> Labels]
  /\ used \in [Steps -> [transient : Nat, format : 0..MaxFormatRetries]]
  /\ \A s \in Steps : used[s].transient < MaxAttempts[s]
  /\ verdict \in [Steps -> Verdicts]

\* A step that waits is in acquire(); one with a slot has just been granted it or
\* is inside its attempt.
SlotsMatch ==
  \A s \in Steps :
    /\ Inside(s) => status[s] = "held"
    /\ status[s] = "held" => Inside(s) \/ pc[s] = "acquiring"
    /\ status[s] = "queued" => pc[s] = "acquiring"

SlotsInv == LP!LimiterInv /\ LoopsOK /\ SlotsMatch

\* One step moves: the others keep their place, and their slot or get one they
\* waited for; so only the match of the step itself is left to show.
LEMMA SlotsMove ==
  ASSUME SlotsInv, LoopsOK', NEW s \in Steps, NEW l \in Labels, Goto(s, l),
         NEW out \in SUBSET {s}, NEW in \in SUBSET {s}, Handover(out, in),
         l \in {"reserved", "starting", "executing", "fencing", "settling", "leaving"}
           => status'[s] = "held",
         status'[s] = "held" =>
           l \in {"reserved", "starting", "executing", "fencing", "settling", "leaving",
                  "acquiring"},
         status'[s] = "queued" => l = "acquiring"
  PROVE  SlotsInv'
<1>1. pc'[s] = l /\ \A t \in Steps : t # s => pc'[t] = pc[t]
  BY DEF Goto, SlotsInv, LoopsOK
<1>2. ASSUME NEW t \in Steps, t # s
      PROVE  /\ Inside(t)' => status'[t] = "held"
             /\ status'[t] = "held" => Inside(t)' \/ pc'[t] = "acquiring"
             /\ status'[t] = "queued" => pc'[t] = "acquiring"
  <2>1. Inside(t)' <=> Inside(t)
    BY <1>1, <1>2 DEF Inside
  <2>2. t \notin out /\ t \notin in
    BY <1>2
  <2> QED
    BY <1>1, <1>2, <2>1, <2>2 DEF SlotsInv, SlotsMatch, Handover
<1>3. /\ Inside(s)' => status'[s] = "held"
      /\ status'[s] = "held" => Inside(s)' \/ pc'[s] = "acquiring"
      /\ status'[s] = "queued" => pc'[s] = "acquiring"
  BY <1>1 DEF Inside
<1>4. SlotsMatch'
  BY <1>2, <1>3 DEF SlotsMatch
<1> QED
  BY <1>4 DEF SlotsInv, Handover

\* What each call of Ends leaves is a verdict.
LEMMA EndedIsVerdict ==
  /\ NoVerdict \in Verdicts
  /\ \A kind \in {"none", "cancelled", "threw", "delivered", "failed"} :
       Ended(kind) \in Verdicts
  BY DEF NoVerdict, Ended, Verdicts

LEMMA DecisionsAre ==
  ASSUME NEW billing
  PROVE  Decisions(billing) \subseteq {"settle", "unresolved", "free_nonzero_cost"}
  BY DEF Decisions, Ledger!SettlementFromUsage

LEMMA SessionVerdicts ==
  ASSUME NEW s \in Steps, NEW v \in SessionResults(s)
  PROVE  /\ v \in Verdicts
         /\ v.kind \in {"cancelled", "threw", "delivered", "failed"}
<1>1. Causes[s] \subseteq Resolutions
  BY StepConstantsAssumption
<1> QED
  BY <1>1, DecisionsAre DEF SessionResults, Ended, NoVerdict, Verdicts

\* What the finally block's loop does next, and what that leaves of the budgets.
NextAction(s) ==
  IF verdict[s].kind # "failed" \/ verdict[s].cause = "legacy_terminal" THEN "terminal"
  ELSE Decide(verdict[s].cause, used[s], MaxAttempts[s] - 1)

LEMMA LeaveActs ==
  ASSUME SlotsInv, NEW s \in Steps, Leave(s)
  PROVE  \/ /\ NextAction(s) = "terminal"
            /\ Goto(s, "done") /\ used' = used /\ Ends(s, Ended(verdict[s].kind))
         \/ /\ NextAction(s) \in {"retry_now", "retry_after"}
            /\ verdict[s].kind = "failed" /\ verdict[s].cause # "legacy_terminal"
            /\ used[s].transient + 1 < MaxAttempts[s]
            /\ used' = [used EXCEPT ![s].transient = @ + 1]
            /\ Ends(s, NoVerdict)
            /\ \E l \in {"sleeping", "top"} : Goto(s, l)
         \/ /\ NextAction(s) = "retry_format_reminder"
            /\ verdict[s].kind = "failed" /\ verdict[s].cause # "legacy_terminal"
            /\ used[s].format + 1 \in 0..MaxFormatRetries
            /\ used' = [used EXCEPT ![s].format = @ + 1]
            /\ Ends(s, NoVerdict)
            /\ Goto(s, "top")
<1> DEFINE a == NextAction(s)
<1>1. /\ Goto(s, CASE a = "terminal" -> "done" [] a = "retry_after" -> "sleeping" [] OTHER -> "top")
      /\ used' = CASE a \in {"retry_now", "retry_after"} -> [used EXCEPT ![s].transient = @ + 1]
                   [] a = "retry_format_reminder" -> [used EXCEPT ![s].format = @ + 1]
                   [] OTHER -> used
      /\ Ends(s, IF a = "terminal" THEN Ended(verdict[s].kind) ELSE NoVerdict)
  BY DEF Leave, NextAction
<1>2. /\ used[s].transient \in Nat /\ used[s].format \in 0..MaxFormatRetries
      /\ MaxAttempts[s] \in Nat
  BY StepConstantsAssumption DEF SlotsInv, LoopsOK
<1>3. \/ a = "terminal"
      \/ /\ a \in {"retry_now", "retry_after"}
         /\ verdict[s].kind = "failed" /\ verdict[s].cause # "legacy_terminal"
         /\ used[s].transient < MaxAttempts[s] - 1
      \/ /\ a = "retry_format_reminder"
         /\ verdict[s].kind = "failed" /\ verdict[s].cause # "legacy_terminal"
         /\ used[s].format < MaxFormatRetries
  BY DEF NextAction, Decide
<1> HIDE DEF a
<1>4. CASE a = "terminal"
  BY <1>1, <1>4 DEF a
<1>5. CASE a \in {"retry_now", "retry_after"}
  <2>1. \E l \in {"sleeping", "top"} : Goto(s, l)
    BY <1>1, <1>5
  <2>2. used[s].transient + 1 < MaxAttempts[s]
    BY <1>2, <1>3, <1>5
  <2> QED
    BY <1>1, <1>3, <1>5, <2>1, <2>2 DEF a
<1>6. CASE a = "retry_format_reminder"
  <2>1. Goto(s, "top")
    BY <1>1, <1>6
  <2>2. used[s].format + 1 \in 0..MaxFormatRetries
    BY <1>2, <1>3, <1>6 DEF MaxFormatRetries
  <2> QED
    BY <1>1, <1>3, <1>6, <2>1, <2>2 DEF a
<1> QED
  BY <1>3, <1>4, <1>5, <1>6

\* Every move goes to a label, keeps the budgets and leaves a verdict.
LEMMA LoopsKept ==
  ASSUME SlotsInv, NEW s \in Steps, Moves(s), UNCHANGED wired
  PROVE  LoopsOK'
<1>1. SUFFICES /\ pc' \in [Steps -> Labels]
               /\ used' \in [Steps -> [transient : Nat, format : 0..MaxFormatRetries]]
               /\ \A t \in Steps : used'[t].transient < MaxAttempts[t]
               /\ verdict' \in [Steps -> Verdicts]
  BY DEF SlotsInv, LoopsOK
<1> USE DEF SlotsInv, LoopsOK, Goto, Ends, Labels
<1>2. CASE CancelledAtTop(s)
  BY <1>2, EndedIsVerdict DEF CancelledAtTop
<1>3. CASE Begin(s)
  BY <1>3 DEF Begin
<1>4. CASE Unadmitted(s)
  BY <1>4, EndedIsVerdict DEF Unadmitted
<1>5. CASE Granted(s)
  <2>1. [Ended("failed") EXCEPT !.cause = "legacy_terminal"] \in Verdicts
    BY DEF Ended, NoVerdict, Verdicts, Resolutions
  <2> QED
    BY <1>5, <2>1 DEF Granted
<1>6. CASE ReservedResume(s)
  BY <1>6, EndedIsVerdict DEF ReservedResume
<1>7. CASE StartSession(s)
  BY <1>7 DEF StartSession
<1>8. CASE EndSession(s)
  BY <1>8, SessionVerdicts DEF EndSession
<1>9. CASE Settle(s)
  <2>1. \A v \in Verdicts : \A c \in {"legacy_terminal", v.cause} :
          [v EXCEPT !.decision = "none", !.cause = c] \in Verdicts
    BY DEF Verdicts, Resolutions
  <2> QED
    BY <1>9, <2>1 DEF Settle
<1>10. CASE Leave(s)
  <2>1. Ended(verdict[s].kind) \in Verdicts
    BY EndedIsVerdict DEF Verdicts
  <2>2. \E l \in Labels : pc' = [pc EXCEPT ![s] = l]
    BY <1>10, LeaveActs
  <2>3. \E v \in Verdicts : verdict' = [verdict EXCEPT ![s] = v]
    BY <1>10, <2>1, LeaveActs, EndedIsVerdict
  <2>4. \/ used' = used
        \/ /\ used[s].transient + 1 < MaxAttempts[s]
           /\ used' = [used EXCEPT ![s].transient = @ + 1]
        \/ /\ used[s].format + 1 \in 0..MaxFormatRetries
           /\ used' = [used EXCEPT ![s].format = @ + 1]
    BY <1>10, LeaveActs
  <2>5. /\ used' \in [Steps -> [transient : Nat, format : 0..MaxFormatRetries]]
        /\ \A t \in Steps : used'[t].transient < MaxAttempts[t]
    BY <2>4
  <2> QED
    BY <2>2, <2>3, <2>5
<1>11. CASE Wake(s)
  BY <1>11 DEF Wake
<1> QED
  BY <1>2, <1>3, <1>4, <1>5, <1>6, <1>7, <1>8, <1>9, <1>10, <1>11 DEF Moves

\* Every move of a step keeps the slots.
LEMMA SlotsMoves ==
  ASSUME SlotsInv, NEW s \in Steps, Moves(s), UNCHANGED wired
  PROVE  SlotsInv'
<1>1. LoopsOK' /\ LP!LimiterInv
  BY LoopsKept DEF SlotsInv
<1>2. /\ Inside(s) => status[s] = "held"
      /\ status[s] = "held" => Inside(s) \/ pc[s] = "acquiring"
      /\ status[s] = "queued" => pc[s] = "acquiring"
  BY DEF SlotsInv, SlotsMatch
<1>3. {} \in SUBSET {s} /\ {s} \in SUBSET {s}
  OBVIOUS
<1> USE DEF Labels
<1>4. CASE CancelledAtTop(s)
  <2>1. Goto(s, "done") /\ UNCHANGED limiterVars /\ pc[s] = "top"
    BY <1>4 DEF CancelledAtTop
  <2>2. status'[s] = status[s] /\ status[s] # "held" /\ status[s] # "queued"
    BY <1>2, <2>1 DEF limiterVars, Inside
  <2> QED
    BY <1>1, <1>3, <2>1, <2>2, NothingHands, SlotsMove
<1>5. CASE Begin(s)
  <2>1. Goto(s, "acquiring") /\ Handover({}, {s})
    BY <1>1, <1>5, AcquireHands DEF Begin
  <2> QED
    BY <1>1, <1>3, <2>1, SlotsMove
<1>6. CASE Unadmitted(s)
  <2>1. Goto(s, "done")
    BY <1>6 DEF Unadmitted
  <2>2. Handover({}, {}) /\ status'[s] # "held" /\ status'[s] # "queued"
    <3>1. CASE Limiter!AcquireRefused(s)
      <4>1. status'[s] # "held" /\ status'[s] # "queued"
        BY <1>1, <3>1, SameType DEF Limiter!AcquireRefused, Limiter!TypeOK, LP!LimiterInv, LP!SlotAccounting
      <4> QED
        BY <1>1, <3>1, <4>1, RefusedHands
    <3>2. CASE status[s] \in {"aborted", "breaker"} /\ UNCHANGED limiterVars
      BY <1>1, <3>2, NothingHands DEF limiterVars
    <3> QED
      BY <1>6, <3>1, <3>2 DEF Unadmitted
  <2> QED
    BY <1>1, <1>3, <2>1, <2>2, SlotsMove
<1>7. ASSUME NEW l \in {"reserved", "starting", "executing", "fencing", "settling", "leaving"},
             Goto(s, l), status[s] = "held", Handover({}, {})
      PROVE  SlotsInv'
  <2>1. status'[s] = "held"
    BY <1>7 DEF Handover
  <2> QED
    BY <1>1, <1>3, <1>7, <2>1, SlotsMove
<1>8. CASE Granted(s)
  <2>1. /\ status[s] = "held" /\ UNCHANGED limiterVars
        /\ \E l \in {"reserved", "starting", "leaving"} : Goto(s, l)
    BY <1>8 DEF Granted
  <2> QED
    BY <1>1, <1>7, <2>1, NothingHands
<1>9. CASE ReservedResume(s)
  <2>1. /\ Inside(s) /\ UNCHANGED limiterVars
        /\ \E l \in {"starting", "leaving"} : Goto(s, l)
    BY <1>9 DEF ReservedResume, Inside
  <2> QED
    BY <1>1, <1>2, <1>7, <2>1, NothingHands
<1>10. CASE StartSession(s)
  <2>1. /\ Inside(s) /\ UNCHANGED limiterVars
        /\ \E l \in {"fencing", "executing"} : Goto(s, l)
    BY <1>10 DEF StartSession, Inside
  <2> QED
    BY <1>1, <1>2, <1>7, <2>1, NothingHands
<1>11. CASE EndSession(s)
  <2>1. /\ Inside(s) /\ UNCHANGED limiterVars
        /\ \E l \in {"leaving", "settling"} : Goto(s, l)
    BY <1>11 DEF EndSession, Inside
  <2> QED
    BY <1>1, <1>2, <1>7, <2>1, NothingHands
<1>12. CASE Settle(s)
  <2>1. Inside(s) /\ Goto(s, "leaving") /\ BucketOf[s] \in Buckets
    BY <1>12, LimiterConstantsAssumption DEF Settle, Inside
  <2>2. Limiter!TripBreaker(BucketOf[s]) \/ UNCHANGED limiterVars
    BY <1>12 DEF Settle
  <2>3. Handover({}, {})
    BY <1>1, <2>1, <2>2, TripHands, NothingHands
  <2> QED
    BY <1>2, <1>7, <2>1, <2>3
<1>13. CASE Leave(s)
  <2>1. Handover({s}, {})
    BY <1>1, <1>13, ReleaseHands DEF Leave
  <2>2. PICK l \in {"done", "sleeping", "top"} : Goto(s, l)
    BY <1>13, LeaveActs
  <2>3. status'[s] # "held" /\ status'[s] # "queued"
    BY <2>1 DEF Handover
  <2> QED
    BY <1>1, <1>3, <2>1, <2>2, <2>3, SlotsMove
<1>14. CASE Wake(s)
  <2>1. Goto(s, "top") /\ UNCHANGED limiterVars /\ pc[s] = "sleeping"
    BY <1>14 DEF Wake
  <2>2. status'[s] = status[s] /\ status[s] # "held" /\ status[s] # "queued"
    BY <1>2, <2>1 DEF limiterVars, Inside
  <2> QED
    BY <1>1, <1>3, <2>1, <2>2, NothingHands, SlotsMove
<1> QED
  BY <1>4, <1>5, <1>6, <1>8, <1>9, <1>10, <1>11, <1>12, <1>13, <1>14 DEF Moves

LEMMA SlotsInit == Init => SlotsInv
<1> SUFFICES ASSUME Init
             PROVE  SlotsInv
  OBVIOUS
<1>1. LP!Init
  BY DEF Init, LP!Init, Limiter!Init
<1>2. LP!LimiterInv
  BY <1>1, LP!InitInv, FiniteSteps, LimiterConstantsAssumption, Zenon
<1>3. LoopsOK
  BY EndedIsVerdict, StepConstantsAssumption DEF Init, LoopsOK, Labels, MaxFormatRetries
<1>4. \A s \in Steps : pc[s] = "top" /\ status[s] = "idle"
  BY DEF Init, Limiter!Init
<1> QED
  BY <1>2, <1>3, <1>4 DEF SlotsInv, SlotsMatch, Inside

\* Where no loop moves and no slot changes hands.
LEMMA SlotsStand ==
  ASSUME SlotsInv, UNCHANGED <<wired, pc, used, verdict>>, Handover({}, {})
  PROVE  SlotsInv'
<1>1. \A t \in Steps : Inside(t)' <=> Inside(t)
  BY DEF Inside
<1> QED
  BY <1>1 DEF SlotsInv, SlotsMatch, LoopsOK, Handover

LEMMA SlotsNext == SlotsInv /\ [Next]_vars => SlotsInv'
<1> SUFFICES ASSUME SlotsInv, [Next]_vars
             PROVE  SlotsInv'
  OBVIOUS
<1>1. ASSUME NEW s \in Steps, Moves(s), UNCHANGED wired
      PROVE  SlotsInv'
  BY <1>1, SlotsMoves
<1>2. ASSUME CancelRun, UNCHANGED wired
      PROVE  SlotsInv'
  <2>1. Handover({}, {})
    BY <1>2, CancelHands DEF SlotsInv
  <2> QED
    BY <1>2, <2>1, SlotsStand DEF CancelRun
<1>3. CASE UNCHANGED vars
  <2>1. Handover({}, {})
    BY <1>3, NothingHands DEF SlotsInv, vars
  <2> QED
    BY <1>3, <2>1, SlotsStand DEF vars
<1> QED
  BY <1>1, <1>2, <1>3 DEF Next

-----------------------------------------------------------------------------
(* Books.                                                                  *)

\* Where the loop of a charged step is tells the state of its current reservation:
\* open from reserve() to the settlement, or for good if the session threw.
Current(s) ==
  /\ pc[s] \in {"top", "acquiring", "sleeping"} => entry[Id(s)].state = "none"
  /\ pc[s] \in {"reserved", "starting", "executing", "fencing", "settling"} =>
       entry[Id(s)].state = "reserved"
  /\ pc[s] = "settling" => verdict[s].kind # "threw"
  /\ pc[s] \in {"leaving", "done"} /\ verdict[s].kind # "threw" =>
       entry[Id(s)].state # "reserved"
  /\ pc[s] = "leaving" /\ verdict[s].kind = "failed"
                       /\ verdict[s].cause # "legacy_terminal" =>
       entry[Id(s)].state \in Ledger!Terminal

\* Those of earlier attempts are terminal, those of later ones are not opened, and
\* none is opened after one that ended unresolved.
Books(s) ==
  /\ Charged(s) =>
       /\ Current(s)
       /\ \A n \in Attempts(s) :
            /\ n < Attempt(s) => entry[<<s, n>>].state \in Ledger!Terminal
            /\ n > Attempt(s) => entry[<<s, n>>].state = "none"
  /\ ~Charged(s) =>
       /\ \A n \in Attempts(s) : entry[<<s, n>>].state = "none"
       /\ pc[s] # "reserved"
  /\ \A n \in Attempts(s) :
       entry[<<s, n>>].state # "none" => entry[<<s, n>>].bucket = ChargedTo[s]
  /\ \A n, m \in Attempts(s) :
       n < m /\ entry[<<s, m>>].state # "none" => entry[<<s, n>>].state # "unresolved_remote"

BooksInv == SlotsInv /\ SP!LedgerInv /\ \A s \in Steps : Books(s)

LEMMA IdIsId ==
  ASSUME SlotsInv, NEW s \in Steps
  PROVE  /\ Attempt(s) \in Attempts(s) /\ Attempt(s) \in Nat
         /\ Attempts(s) \subseteq Nat
         /\ \A n \in Attempts(s) : <<s, n>> \in Ids
         /\ Id(s) \in Ids
<1>1. /\ used[s].transient \in Nat /\ used[s].format \in 0..MaxFormatRetries
      /\ used[s].transient < MaxAttempts[s] /\ MaxAttempts[s] \in Nat
  BY StepConstantsAssumption DEF SlotsInv, LoopsOK
<1>2. Attempt(s) \in Attempts(s) /\ Attempt(s) \in Nat /\ Attempts(s) \subseteq Nat
  BY <1>1 DEF Attempt, Attempts, MaxFormatRetries
<1>3. \A n \in Attempts(s) : <<s, n>> \in Ids
  BY DEF Ids
<1> QED
  BY <1>2, <1>3 DEF Id

\* The only reservation a step touches is that of its current attempt.
LedgerMove(s) ==
  \/ UNCHANGED ledger
  \/ Charged(s) /\ Ledger!Reserve(Id(s), ChargedTo[s])
  \/ /\ Charged(s)
     /\ \E kind \in Ledger!Terminal, k \in {"finalize", "release-unstarted"} :
          Ledger!Transition(Id(s), kind, k)

LEMMA LedgerKept ==
  ASSUME SlotsInv, SP!LedgerInv, NEW s \in Steps, LedgerMove(s)
  PROVE  SP!LedgerInv'
<1>1. Id(s) \in Ids
  BY IdIsId
<1>2. CASE UNCHANGED ledger
  BY <1>2 DEF ledger, SP!LedgerInv, SP!LedgerTypeOK, SP!FencedIffUnresolved, SP!Unresolved
<1>3. CASE Charged(s) /\ Ledger!Reserve(Id(s), ChargedTo[s])
  <2>1. ChargedTo[s] \in Buckets
    BY <1>3, StepConstantsAssumption DEF Charged
  <2>2. SP!Reserve(Id(s), ChargedTo[s])
    BY <1>3 DEF SP!Reserve, Ledger!Reserve
  <2> QED
    BY <1>1, <2>1, <2>2, SP!ReserveKeepsInv, StepConstantsAssumption, Zenon
<1>4. ASSUME NEW kind \in Ledger!Terminal, NEW k \in {"finalize", "release-unstarted"},
             Ledger!Transition(Id(s), kind, k)
      PROVE  SP!LedgerInv'
  <2>1. SP!Transition(Id(s), kind, k) /\ kind \in SP!Terminal
    BY <1>4 DEF SP!Transition, Ledger!Transition, SP!Terminal, Ledger!Terminal
  <2> QED
    BY <1>1, <2>1, SP!TransitionKeepsInv, StepConstantsAssumption, Zenon
<1> QED
  BY <1>2, <1>3, <1>4 DEF LedgerMove

LEMMA OthersBooks ==
  ASSUME BooksInv, NEW s \in Steps, LedgerMove(s), NEW t \in Steps, t # s,
         pc'[t] = pc[t], used'[t] = used[t], verdict'[t] = verdict[t]
  PROVE  Books(t)'
<1>1. \A n \in Attempts(t) : entry'[<<t, n>>] = entry[<<t, n>>]
  <2>1. \A i \in Ids : i # Id(s) => entry'[i] = entry[i]
    BY DEF LedgerMove, ledger, Ledger!Reserve, Ledger!Transition, BooksInv,
           SP!LedgerInv, SP!LedgerTypeOK
  <2>2. \A n \in Attempts(t) : <<t, n>> \in Ids /\ <<t, n>> # Id(s)
    BY IdIsId DEF BooksInv, Id
  <2> QED
    BY <2>1, <2>2
<1>2. Attempt(t)' = Attempt(t) /\ Id(t)' = Id(t) /\ entry'[Id(t)] = entry[Id(t)]
  BY <1>1, IdIsId DEF Attempt, Id, BooksInv
<1>3. \A n \in Attempts(t) : entry'[<<t, n>>] = entry[<<t, n>>]
  BY <1>1 
<1> QED
  BY <1>2, <1>3 DEF BooksInv, Books, Current

\* An attempt opens its reservation only where no earlier one ended unresolved:
\* that one would have fenced the bucket.
LEMMA FenceStopsRetry ==
  ASSUME BooksInv, NEW s \in Steps, Charged(s), ChargedTo[s] \notin fenced,
         NEW n \in Attempts(s)
  PROVE  entry[<<s, n>>].state # "unresolved_remote"
<1>1. SUFFICES ASSUME entry[<<s, n>>].state = "unresolved_remote"
               PROVE  FALSE
  OBVIOUS
<1>2. entry[<<s, n>>].bucket = ChargedTo[s] /\ ChargedTo[s] \in Buckets
  BY <1>1, StepConstantsAssumption DEF BooksInv, Books, Charged
<1>3. <<s, n>> \in SP!Unresolved(ChargedTo[s])
  BY <1>1, <1>2, IdIsId DEF SP!Unresolved, BooksInv
<1> QED
  BY <1>2, <1>3 DEF BooksInv, SP!LedgerInv, SP!FencedIffUnresolved

\* A step that stays in its attempt: only the current reservation is left to show.
LEMMA OwnBooks ==
  ASSUME BooksInv, NEW s \in Steps, LedgerMove(s), used'[s] = used[s],
         Charged(s) => Current(s)',
         ~Charged(s) => pc'[s] # "reserved"
  PROVE  Books(s)'
<1>0. PICK a \in Attempts(s) : a = Attempt(s)
  BY IdIsId DEF BooksInv
<1>1. /\ a = Attempt(s) /\ Attempts(s) \subseteq Nat /\ Id(s) \in Ids /\ Id(s) = <<s, a>>
      /\ Attempt(s)' = a
      /\ \A n \in Attempts(s) : <<s, n>> \in Ids
  BY <1>0, IdIsId DEF BooksInv, Id, Attempt
<1>2. entry = [i \in Ids |-> entry[i]]
  BY DEF BooksInv, SP!LedgerInv, SP!LedgerTypeOK
<1>3. \A n \in Attempts(s) : n # a => entry'[<<s, n>>] = entry[<<s, n>>]
  <2>1. \A i \in Ids : i # Id(s) => entry'[i] = entry[i]
    BY <1>2 DEF LedgerMove, ledger, Ledger!Reserve, Ledger!Transition
  <2> QED
    BY <1>1, <2>1 
<1>4. Books(s)
  BY DEF BooksInv
<1>5. CASE UNCHANGED ledger
  <2>1. \A n \in Attempts(s) : entry'[<<s, n>>] = entry[<<s, n>>]
    BY <1>5 DEF ledger
  <2> QED
    BY <1>1, <1>4, <2>1 DEF Books, Charged
<1>6. CASE Charged(s) /\ Ledger!Reserve(Id(s), ChargedTo[s])
  <2>1. /\ entry'[<<s, a>>].state = "reserved" /\ entry'[<<s, a>>].bucket = ChargedTo[s]
        /\ ChargedTo[s] \notin fenced
    BY <1>1, <1>2, <1>6 DEF Ledger!Reserve
  <2>2. \A n \in Attempts(s) : entry'[<<s, n>>].state # "unresolved_remote"
    BY <1>3, <1>6, <2>1, FenceStopsRetry
  <2>3. \A n \in Attempts(s) :
          entry'[<<s, n>>].state # "none" => entry'[<<s, n>>].bucket = ChargedTo[s]
    BY <1>3, <1>4, <2>1 DEF Books
  <2>4. \A n \in Attempts(s) : /\ n < a => entry'[<<s, n>>].state \in Ledger!Terminal
                               /\ n > a => entry'[<<s, n>>].state = "none"
    BY <1>1, <1>3, <1>4, <1>6 DEF Books
  <2> QED
    BY <1>1, <1>6, <2>2, <2>3, <2>4 DEF Books, Charged
<1>7. ASSUME Charged(s), NEW kind \in Ledger!Terminal, NEW k, Ledger!Transition(Id(s), kind, k)
      PROVE  Books(s)'
  <2>1. /\ entry[<<s, a>>].state = "reserved" /\ entry'[<<s, a>>].state = kind
        /\ entry'[<<s, a>>].bucket = entry[<<s, a>>].bucket
    BY <1>1, <1>2, <1>7 DEF Ledger!Transition
  <2>2. \A n \in Attempts(s) :
          entry'[<<s, n>>].state # "none" => entry'[<<s, n>>].bucket = ChargedTo[s]
    BY <1>1, <1>3, <1>4, <2>1 DEF Books
  <2>3. \A n \in Attempts(s) : /\ n < a => entry'[<<s, n>>].state \in Ledger!Terminal
                               /\ n > a => entry'[<<s, n>>].state = "none"
    BY <1>1, <1>3, <1>4, <1>7 DEF Books
  <2>4. ASSUME NEW n \in Attempts(s), NEW m \in Attempts(s), n < m, entry'[<<s, m>>].state # "none"
        PROVE  entry'[<<s, n>>].state # "unresolved_remote"
    <3>1. m <= a /\ n # a
      BY <1>1, <2>3, <2>4
    <3>2. entry[<<s, m>>].state # "none"
      BY <1>3, <2>1, <2>4
    <3> QED
      BY <1>3, <1>4, <2>4, <3>1, <3>2 DEF Books
  <2> QED
    BY <1>1, <1>7, <2>2, <2>3, <2>4 DEF Books, Charged
<1> QED
  BY <1>5, <1>6, <1>7 DEF LedgerMove

LEMMA OthersStay ==
  ASSUME SlotsInv, NEW s \in Steps, Moves(s), NEW t \in Steps, t # s
  PROVE  pc'[t] = pc[t] /\ used'[t] = used[t] /\ verdict'[t] = verdict[t]
<1> USE DEF SlotsInv, LoopsOK, Goto, Ends
<1>1. CASE Leave(s)
  BY <1>1, LeaveActs
<1>2. CASE ~Leave(s)
  BY <1>2 DEF Moves, CancelledAtTop, Begin, Unadmitted, Granted, ReservedResume,
              StartSession, EndSession, Settle, Wake
<1> QED
  BY <1>1, <1>2

\* The move of every action but the finally block: where the loop goes, what it
\* leaves as a verdict, and what that says of the current reservation.
LEMMA MoveInAttempt ==
  ASSUME BooksInv, NEW s \in Steps, Moves(s), ~Leave(s)
  PROVE  /\ LedgerMove(s) /\ used' = used
         /\ Charged(s) => Current(s)'
         /\ ~Charged(s) => pc'[s] # "reserved"
<1>1. /\ pc \in [Steps -> Labels] /\ verdict \in [Steps -> Verdicts]
      /\ entry = [i \in Ids |-> entry[i]] /\ Id(s) \in Ids
  BY IdIsId DEF BooksInv, SlotsInv, LoopsOK, SP!LedgerInv, SP!LedgerTypeOK
<1>2. Charged(s) => Current(s)
  BY DEF BooksInv, Books
<1>3. ~Charged(s) => pc[s] # "reserved"
  BY DEF BooksInv, Books
<1>4. used' = used => Id(s)' = Id(s)
  BY DEF Id, Attempt
<1>5. \A l : Goto(s, l) => pc'[s] = l
  BY <1>1 DEF Goto
<1>6. \A v : Ends(s, v) => verdict'[s] = v
  BY <1>1 DEF Ends
<1>7. \A kind : Ended(kind).kind = kind
  BY DEF Ended, NoVerdict
<1>8. CASE CancelledAtTop(s)
  BY <1>2, <1>3, <1>4, <1>5, <1>8 DEF CancelledAtTop, LedgerMove, ledger, Current
<1>9. CASE Begin(s)
  BY <1>2, <1>3, <1>4, <1>5, <1>9 DEF Begin, LedgerMove, ledger, Current
<1>10. CASE Unadmitted(s)
  BY <1>2, <1>3, <1>4, <1>5, <1>10 DEF Unadmitted, LedgerMove, ledger, Current
<1>11. CASE Granted(s)
  <2>1. used' = used /\ pc[s] = "acquiring"
    BY <1>11 DEF Granted
  <2>2. CASE ~Charged(s)
    BY <1>5, <1>11, <2>1, <2>2 DEF Granted, LedgerMove
  <2>3. CASE Charged(s) /\ Ledger!Reserve(Id(s), ChargedTo[s]) /\ Goto(s, "reserved")
    <3>1. entry'[Id(s)].state = "reserved"
      BY <1>1, <2>3 DEF Ledger!Reserve
    <3> QED
      BY <1>4, <1>5, <2>1, <2>3, <3>1 DEF LedgerMove, Current
  <2>4. CASE /\ Charged(s) /\ UNCHANGED ledger /\ Goto(s, "leaving")
             /\ Ends(s, [Ended("failed") EXCEPT !.cause = "legacy_terminal"])
    <3>1. verdict'[s].cause = "legacy_terminal"
      BY <1>6, <2>4 DEF Ended, NoVerdict
    <3> QED
      BY <1>2, <1>4, <1>5, <2>1, <2>4, <3>1 DEF LedgerMove, ledger, Current
  <2> QED
    BY <1>11, <2>2, <2>3, <2>4 DEF Granted
<1>12. CASE ReservedResume(s)
  <2>1. used' = used /\ pc[s] = "reserved" /\ Charged(s)
    BY <1>3, <1>12 DEF ReservedResume
  <2>2. CASE UNCHANGED ledger /\ Goto(s, "starting")
    BY <1>2, <1>4, <1>5, <2>1, <2>2 DEF LedgerMove, ledger, Current
  <2>3. CASE /\ Ledger!Transition(Id(s), "released_unstarted", "release-unstarted")
             /\ Goto(s, "leaving") /\ Ends(s, Ended("cancelled"))
    <3>1. entry'[Id(s)].state = "released_unstarted"
      BY <1>1, <2>3 DEF Ledger!Transition
    <3>2. LedgerMove(s)
      BY <2>1, <2>3 DEF LedgerMove, Ledger!Terminal
    <3> QED
      BY <1>4, <1>5, <2>1, <2>3, <3>1, <3>2 DEF Current, Ledger!Terminal
  <2> QED
    BY <1>12, <2>2, <2>3 DEF ReservedResume
<1>13. CASE StartSession(s)
  BY <1>2, <1>3, <1>4, <1>5, <1>13 DEF StartSession, LedgerMove, ledger, Current
<1>14. CASE EndSession(s)
  <2>1. PICK v \in SessionResults(s) :
          Ends(s, v) /\ Goto(s, IF v.kind = "threw" THEN "leaving" ELSE "settling")
    BY <1>14 DEF EndSession
  <2>2. UNCHANGED <<ledger, used>> /\ pc[s] \in {"executing", "fencing"}
    BY <1>14 DEF EndSession
  <2>3. Charged(s) => entry'[Id(s)].state = "reserved"
    BY <1>2, <2>2 DEF ledger, Current
  <2>4. verdict'[s] = v /\ pc'[s] = IF v.kind = "threw" THEN "leaving" ELSE "settling"
    BY <1>5, <1>6, <2>1
  <2> QED
    BY <1>4, <2>2, <2>3, <2>4 DEF LedgerMove, Current
<1>15. CASE Settle(s)
  <2>1. used' = used /\ pc[s] = "settling" /\ pc'[s] = "leaving" /\ Account(s)
    BY <1>5, <1>15 DEF Settle
  <2>2. CASE ~Charged(s)
    BY <2>1, <2>2 DEF Account, LedgerMove
  <2>3. CASE Charged(s)
    <3>1. Ledger!Transition(Id(s), Finalized(s), "finalize")
      BY <2>1, <2>3 DEF Account
    <3>2. Finalized(s) \in Ledger!Terminal
      BY DEF Finalized, Ledger!Terminal
    <3>3. entry'[Id(s)].state = Finalized(s)
      BY <1>1, <3>1 DEF Ledger!Transition
    <3>4. LedgerMove(s)
      BY <2>3, <3>1, <3>2 DEF LedgerMove
    <3>5. Finalized(s) # "reserved"
      BY DEF Finalized
    <3> QED
      BY <1>4, <2>1, <2>3, <3>2, <3>3, <3>4, <3>5 DEF Current
  <2> QED
    BY <2>2, <2>3
<1>16. CASE Wake(s)
  BY <1>2, <1>3, <1>4, <1>5, <1>16 DEF Wake, LedgerMove, ledger, Current
<1> QED
  BY <1>8, <1>9, <1>10, <1>11, <1>12, <1>13, <1>14, <1>15, <1>16 DEF Moves

\* A retry moves on to a fresh reservation, and only from a terminal one.
LEMMA LeaveBooks ==
  ASSUME BooksInv, NEW s \in Steps, Leave(s), UNCHANGED wired
  PROVE  LedgerMove(s) /\ Books(s)'
<1>1. UNCHANGED ledger /\ pc[s] = "leaving"
  BY DEF Leave
<1>2. LedgerMove(s)
  BY <1>1 DEF LedgerMove
<1>3. SlotsInv /\ Books(s)
  BY DEF BooksInv
<1>4. /\ pc \in [Steps -> Labels] /\ verdict \in [Steps -> Verdicts]
      /\ used \in [Steps -> [transient : Nat, format : 0..MaxFormatRetries]]
  BY <1>3 DEF SlotsInv, LoopsOK
<1>5. CASE Goto(s, "done") /\ used' = used /\ Ends(s, Ended(verdict[s].kind))
  <2>1. pc'[s] = "done" /\ verdict'[s].kind = verdict[s].kind /\ Id(s)' = Id(s)
    BY <1>4, <1>5 DEF Goto, Ends, Ended, NoVerdict, Id, Attempt
  <2>2. Charged(s) => Current(s)'
    BY <1>1, <1>3, <2>1 DEF Books, Current, ledger
  <2> QED
    BY <1>2, <1>5, <2>1, <2>2, OwnBooks
<1>6. CASE /\ verdict[s].kind = "failed" /\ verdict[s].cause # "legacy_terminal"
           /\ \/ used' = [used EXCEPT ![s].transient = @ + 1]
              \/ used' = [used EXCEPT ![s].format = @ + 1]
           /\ \E l \in {"sleeping", "top"} : Goto(s, l)
  <2>1. Attempt(s)' = Attempt(s) + 1 /\ Attempt(s) \in Nat
    <3>1. used[s].transient \in Nat /\ used[s].format \in Nat
      BY <1>4 DEF MaxFormatRetries
    <3> QED
      BY <1>4, <1>6, <3>1 DEF Attempt
  <2>2. Attempt(s)' \in Attempts(s)
    <3>1. LoopsOK'
      BY <1>3, LoopsKept DEF Moves
    <3>2. /\ used'[s].transient \in Nat /\ used'[s].format \in 0..MaxFormatRetries
          /\ used'[s].transient < MaxAttempts[s] /\ MaxAttempts[s] \in Nat
      BY <3>1, StepConstantsAssumption DEF LoopsOK
    <3> QED
      BY <3>2 DEF Attempt, Attempts, MaxFormatRetries
  <2>3. PICK a \in Attempts(s) : a = Attempt(s)
    BY <1>3, IdIsId
  <2>4. /\ Attempt(s)' = a + 1 /\ a + 1 \in Attempts(s) /\ a \in Nat
        /\ Attempts(s) \subseteq Nat /\ Id(s)' = <<s, a + 1>> /\ Id(s) = <<s, a>>
    BY <1>3, <2>1, <2>2, <2>3, IdIsId DEF Id
  <2>5. entry' = entry
    BY <1>1 DEF ledger
  <2>6. pc'[s] \in {"sleeping", "top"}
    BY <1>4, <1>6 DEF Goto
  <2>7. ASSUME Charged(s)
        PROVE  /\ entry[<<s, a>>].state \in Ledger!Terminal
               /\ \A n \in Attempts(s) : /\ n < a => entry[<<s, n>>].state \in Ledger!Terminal
                                         /\ n > a => entry[<<s, n>>].state = "none"
    BY <1>1, <1>3, <1>6, <2>3, <2>4, <2>7 DEF Books, Current
  <2>8. ASSUME Charged(s)
        PROVE  /\ Current(s)'
               /\ \A n \in Attempts(s) :
                    /\ n < a + 1 => entry[<<s, n>>].state \in Ledger!Terminal
                    /\ n > a + 1 => entry[<<s, n>>].state = "none"
    <3>1. entry'[Id(s)'].state = "none"
      BY <2>4, <2>5, <2>7, <2>8
    <3>2. Current(s)'
      BY <2>6, <3>1 DEF Current
    <3> QED
      BY <2>4, <2>7, <2>8, <3>2
  <2> QED
    BY <1>2, <1>3, <2>4, <2>5, <2>6, <2>8 DEF Books, Charged
<1> QED
  BY <1>3, <1>5, <1>6, LeaveActs

LEMMA MoveTouchesOwn ==
  ASSUME BooksInv, NEW s \in Steps, Moves(s), UNCHANGED wired
  PROVE  LedgerMove(s) /\ Books(s)'
<1>1. CASE Leave(s)
  BY <1>1, LeaveBooks
<1>2. CASE ~Leave(s)
  BY <1>2, MoveInAttempt, OwnBooks
<1> QED
  BY <1>1, <1>2

LEMMA BooksStand ==
  ASSUME BooksInv, SlotsInv', UNCHANGED <<ledger, pc, used, verdict>>
  PROVE  BooksInv'
<1>1. SP!LedgerInv'
  BY DEF BooksInv, ledger, SP!LedgerInv, SP!LedgerTypeOK, SP!FencedIffUnresolved, SP!Unresolved
<1>2. \A s \in Steps : Books(s)'
  BY DEF BooksInv, ledger, Books, Current, Attempt, Id
<1> QED
  BY <1>1, <1>2 DEF BooksInv

LEMMA BooksNext == BooksInv /\ [Next]_vars => BooksInv'
<1> SUFFICES ASSUME BooksInv, [Next]_vars
             PROVE  BooksInv'
  OBVIOUS
<1>1. SlotsInv /\ SlotsInv'
  BY SlotsNext DEF BooksInv
<1>2. ASSUME NEW s \in Steps, Moves(s), UNCHANGED wired
      PROVE  BooksInv'
  <2>1. LedgerMove(s) /\ Books(s)'
    BY <1>2, MoveTouchesOwn
  <2>2. SP!LedgerInv'
    BY <2>1, LedgerKept DEF BooksInv
  <2>3. \A t \in Steps : t # s => Books(t)'
    BY <1>1, <1>2, <2>1, OthersStay, OthersBooks
  <2> QED
    BY <1>1, <2>1, <2>2, <2>3 DEF BooksInv
<1>3. CASE UNCHANGED <<ledger, pc, used, verdict>>
  BY <1>1, <1>3, BooksStand
<1> QED
  BY <1>2, <1>3 DEF Next, CancelRun, vars, ledger

LEMMA BooksInit == Init => BooksInv
<1> SUFFICES ASSUME Init
             PROVE  BooksInv
  OBVIOUS
<1>1. SlotsInv
  BY SlotsInit
<1>2. /\ \A i \in Ids : entry[i] = [bucket |-> NoKey, state |-> "none", key |-> NoKey]
      /\ fenced = {}
  BY DEF Init
<1>3. SP!LedgerInv
  BY <1>2 DEF Init, SP!LedgerInv, SP!LedgerTypeOK, SP!FencedIffUnresolved, SP!Unresolved
<1>4. ASSUME NEW s \in Steps
      PROVE  Books(s)
  <2>1. \A n \in Attempts(s) : entry[<<s, n>>].state = "none"
    BY <1>1, <1>2, IdIsId
  <2>2. entry[Id(s)].state = "none" /\ pc[s] = "top"
    BY <1>1, <1>2, IdIsId DEF Init
  <2>3. Attempt(s) = 1 /\ \A n \in Attempts(s) : ~(n < 1)
    BY DEF Init, Attempt, Attempts
  <2> QED
    BY <2>1, <2>2, <2>3 DEF Books, Current
<1> QED
  BY <1>1, <1>3, <1>4 DEF BooksInv

-----------------------------------------------------------------------------
(* Exposure.                                                               *)

\* The reservations of bucket b whose spend is unaccounted for, or may still end
\* so: those left unresolved, and the open ones of steps inside their attempt.
Exposed(b) ==
  {i \in Ids : /\ entry[i].bucket = b
               /\ \/ entry[i].state = "unresolved_remote"
                  \/ /\ entry[i].state = "reserved"
                     /\ \E s \in Steps : i = Id(s) /\ Inside(s)}

ExposureInv ==
  BooksInv /\ \A b \in Buckets : IsFiniteSet(Exposed(b)) /\ Cardinality(Exposed(b)) <= GlobalCeiling

\* Those who hold a slot are no more than the ceiling.
LEMMA HoldersFit ==
  ASSUME SlotsInv
  PROVE  /\ IsFiniteSet(LP!Held)
         /\ Cardinality(LP!Held) <= GlobalCeiling /\ Cardinality(LP!Held) \in Nat
<1>1. LP!Held \subseteq Steps
  BY DEF LP!Held
<1>2. IsFiniteSet(LP!Held) /\ Cardinality(LP!Held) \in Nat
  BY <1>1, LimiterConstantsAssumption, FS_Subset, FS_CardinalityType
<1>3. LP!Cardinality(LP!Held) = Cardinality(LP!Held)
  BY DEF LP!Cardinality, Cardinality
<1>4. globalInUse = LP!Cardinality(LP!Held) /\ globalInUse <= GlobalCeiling
  BY DEF SlotsInv, LP!LimiterInv, LP!SlotAccounting, LP!WithinCeilings
<1> QED
  BY <1>2, <1>3, <1>4

\* The current reservations of a set of steps are no more than the steps.
LEMMA CurrentOf ==
  ASSUME NEW S, IsFiniteSet(S), NEW E, E \subseteq {Id(s) : s \in S}
  PROVE  IsFiniteSet(E) /\ Cardinality(E) <= Cardinality(S)
<1> DEFINE T == {Id(s) : s \in S}
           f == [s \in S |-> Id(s)]
<1>1. f \in Surjection(S, T)
  BY DEF Surjection
<1>2. IsFiniteSet(T) /\ Cardinality(T) <= Cardinality(S)
  BY <1>1, FS_Surjection
<1>3. IsFiniteSet(E) /\ Cardinality(E) <= Cardinality(T)
  BY <1>2, FS_Subset
<1> QED
  BY <1>2, <1>3, FS_CardinalityType

\* Only the grant of a slot opens a reservation.
LEMMA OpensWhenGranted ==
  ASSUME BooksInv, NEW s \in Steps, Moves(s), Ledger!Reserve(Id(s), ChargedTo[s])
  PROVE  UNCHANGED <<status, used>>
<1>1. entry[Id(s)].state = "none" /\ entry'[Id(s)].state = "reserved"
  BY IdIsId DEF BooksInv, SP!LedgerInv, SP!LedgerTypeOK, Ledger!Reserve
<1>2. ~(UNCHANGED ledger)
  BY <1>1 DEF ledger
<1>3. \A kind, k : ~Ledger!Transition(Id(s), kind, k)
  BY <1>1 DEF Ledger!Transition
<1>4. Granted(s)
  BY <1>2, <1>3 DEF Moves, CancelledAtTop, Begin, Unadmitted, ReservedResume, StartSession,
                    EndSession, Settle, Account, Leave, Wake
<1> QED
  BY <1>4 DEF Granted, limiterVars

\* A step that moves and has its current reservation open is inside its attempt.
LEMMA OpenIsInside ==
  ASSUME BooksInv, NEW s \in Steps, Moves(s), entry[Id(s)].state = "reserved"
  PROVE  Inside(s)
<1>1. pc[s] # "done"
  BY DEF Moves, CancelledAtTop, Begin, Unadmitted, Granted, ReservedResume, StartSession,
         EndSession, Settle, Leave, Wake
<1>2. Charged(s)
  BY IdIsId DEF BooksInv, Books, Id
<1>3. pc[s] \notin {"top", "acquiring", "sleeping"} /\ pc[s] \in Labels
  BY <1>2 DEF BooksInv, Books, Current, SlotsInv, LoopsOK
<1> QED
  BY <1>1, <1>3 DEF Inside, Labels

\* Opening one: the bucket was not fenced, so nothing in it was left unresolved,
\* and what is open belongs to holders.
LEMMA OpeningIsBounded ==
  ASSUME BooksInv, SlotsInv', NEW s \in Steps, Moves(s), Charged(s),
         Ledger!Reserve(Id(s), ChargedTo[s]),
         NEW b \in Buckets, b = ChargedTo[s]
  PROVE  IsFiniteSet(Exposed(b)') /\ Cardinality(Exposed(b)') <= GlobalCeiling
<1>1. UNCHANGED <<status, used>>
  BY OpensWhenGranted
<1>2. \A i \in Ids : entry'[i].state = "unresolved_remote" => entry'[i].bucket # b
  <2>1. SP!Unresolved(b) = {}
    BY DEF BooksInv, SP!LedgerInv, SP!FencedIffUnresolved, Ledger!Reserve
  <2>2. \A i \in Ids : entry'[i] = entry[i] \/ entry'[i].state = "reserved"
    BY DEF BooksInv, SP!LedgerInv, SP!LedgerTypeOK, Ledger!Reserve
  <2> QED
    BY <2>1, <2>2 DEF SP!Unresolved
<1>3. \A t \in Steps : Inside(t)' => t \in LP!Held
  BY <1>1 DEF SlotsInv, SlotsMatch, LP!Held
<1>4. \A t \in Steps : Id(t)' = Id(t)
  BY <1>1 DEF Id, Attempt
<1>5. Exposed(b)' \subseteq {Id(t) : t \in LP!Held}
  BY <1>2, <1>3, <1>4 DEF Exposed
<1>6. /\ IsFiniteSet(LP!Held)
      /\ Cardinality(LP!Held) <= GlobalCeiling /\ Cardinality(LP!Held) \in Nat
  BY HoldersFit DEF BooksInv
<1> DEFINE E == Exposed(b)'
<1> HIDE DEF E
<1>7. IsFiniteSet(E) /\ Cardinality(E) <= Cardinality(LP!Held) /\ Cardinality(E) \in Nat
  BY <1>5, <1>6, CurrentOf, FS_CardinalityType DEF E
<1>8. Cardinality(E) <= GlobalCeiling
  BY <1>6, <1>7, LimiterConstantsAssumption
<1> QED
  BY <1>7, <1>8 DEF E

\* Any other move exposes nothing more.
LEMMA NothingElseExposes ==
  ASSUME BooksInv, NEW s \in Steps, Moves(s), UNCHANGED wired, NEW b \in Buckets,
         ~(Charged(s) /\ Ledger!Reserve(Id(s), ChargedTo[s]) /\ b = ChargedTo[s])
  PROVE  Exposed(b)' \subseteq Exposed(b)
<1>1. entry = [i \in Ids |-> entry[i]] /\ Id(s) \in Ids /\ SlotsInv
  BY IdIsId DEF BooksInv, SP!LedgerInv, SP!LedgerTypeOK
<1>2. LedgerMove(s)
  BY MoveTouchesOwn
<1>3. ASSUME NEW i \in Ids, entry'[i].bucket = b
      PROVE  \/ entry'[i] = entry[i]
             \/ /\ i = Id(s) /\ entry[i].state = "reserved" /\ entry[i].bucket = b
                /\ entry'[i].state # "reserved"
  BY <1>1, <1>2, <1>3 DEF LedgerMove, ledger, Ledger!Reserve, Ledger!Transition, Ledger!Terminal
<1>4. ASSUME NEW i \in Ids, entry'[i].bucket = b, entry'[i].state = "unresolved_remote"
      PROVE  i \in Exposed(b)
  BY <1>3, <1>4, OpenIsInside DEF Exposed
<1>5. ASSUME NEW i \in Ids, entry'[i].bucket = b, entry'[i].state = "reserved",
             NEW t \in Steps, i = Id(t)', Inside(t)'
      PROVE  i \in Exposed(b)
  <2>1. entry[i].state = "reserved" /\ entry[i].bucket = b
    BY <1>3, <1>5
  <2>2. CASE t # s
    <3>1. pc'[t] = pc[t] /\ used'[t] = used[t]
      BY <1>1, <2>2, OthersStay
    <3>2. i = Id(t) /\ Inside(t)
      BY <1>5, <3>1 DEF Id, Attempt, Inside
    <3> QED
      BY <2>1, <3>2 DEF Exposed
  <2>3. CASE t = s
    <3>1. ~Leave(s)
      <4>1. ASSUME Leave(s)
            PROVE  pc'[s] \in {"done", "sleeping", "top"}
        BY <1>1, <4>1, LeaveActs DEF Goto, SlotsInv, LoopsOK
      <4> QED
        BY <1>5, <2>3, <4>1 DEF Inside
    <3>2. i = Id(s)
      BY <1>5, <2>3, <3>1, MoveInAttempt DEF Id, Attempt
    <3> QED
      BY <2>1, <3>2, OpenIsInside DEF Exposed
  <2> QED
    BY <2>2, <2>3
<1> QED
  BY <1>4, <1>5 DEF Exposed

LEMMA ExposureNext == ExposureInv /\ [Next]_vars => ExposureInv'
<1> SUFFICES ASSUME ExposureInv, [Next]_vars
             PROVE  ExposureInv'
  OBVIOUS
<1>1. BooksInv /\ BooksInv' /\ SlotsInv'
  BY BooksNext DEF ExposureInv, BooksInv
<1>2. ASSUME NEW b \in Buckets, Exposed(b)' \subseteq Exposed(b)
      PROVE  IsFiniteSet(Exposed(b)') /\ Cardinality(Exposed(b)') <= GlobalCeiling
  <2> DEFINE D == Exposed(b)
             E == Exposed(b)'
  <2>1. IsFiniteSet(D) /\ Cardinality(D) <= GlobalCeiling /\ E \subseteq D
    BY <1>2 DEF ExposureInv
  <2> HIDE DEF D, E
  <2>2. /\ IsFiniteSet(E) /\ Cardinality(E) <= Cardinality(D)
        /\ Cardinality(E) \in Nat /\ Cardinality(D) \in Nat
    BY <2>1, FS_Subset, FS_CardinalityType
  <2>3. Cardinality(E) <= GlobalCeiling
    BY <2>1, <2>2, LimiterConstantsAssumption
  <2> QED
    BY <2>2, <2>3 DEF E
<1>3. ASSUME NEW s \in Steps, Moves(s), UNCHANGED wired, NEW b \in Buckets
      PROVE  IsFiniteSet(Exposed(b)') /\ Cardinality(Exposed(b)') <= GlobalCeiling
  BY <1>1, <1>2, <1>3, OpeningIsBounded, NothingElseExposes
<1>4. ASSUME UNCHANGED <<ledger, pc, used>>, NEW b \in Buckets
      PROVE  IsFiniteSet(Exposed(b)') /\ Cardinality(Exposed(b)') <= GlobalCeiling
  <2>1. Exposed(b)' \subseteq Exposed(b)
    BY <1>4 DEF Exposed, ledger, Id, Attempt, Inside
  <2> QED
    BY <1>2, <2>1
<1>5. \/ \E s \in Steps : Moves(s) /\ UNCHANGED wired
      \/ UNCHANGED <<ledger, pc, used>>
  BY DEF Next, CancelRun, vars, ledger
<1> QED
  BY <1>1, <1>3, <1>4, <1>5 DEF ExposureInv

LEMMA ExposureInit == Init => ExposureInv
<1> SUFFICES ASSUME Init, NEW b \in Buckets
             PROVE  IsFiniteSet(Exposed(b)) /\ Cardinality(Exposed(b)) <= GlobalCeiling
  BY BooksInit DEF ExposureInv
<1>1. Exposed(b) = {}
  BY DEF Init, Exposed
<1> QED
  BY <1>1, FS_EmptySet, LimiterConstantsAssumption

-----------------------------------------------------------------------------
(* The theorems.                                                           *)

THEOREM HarnessInvariant == Spec => []ExposureInv
  BY ExposureInit, ExposureNext, PTL DEF Spec

LEMMA InvCoversAttempt == SlotsInv /\ SP!LedgerInv => LeaseCoversAttempt
<1> SUFFICES ASSUME SlotsInv, SP!LedgerInv
             PROVE  LeaseCoversAttempt
  OBVIOUS
<1>1. Limiter!TypeOK
  BY SameType DEF SlotsInv, LP!LimiterInv, LP!SlotAccounting
<1>2. Ledger!LedgerTypeOK
  BY DEF SP!LedgerInv, SP!LedgerTypeOK, Ledger!LedgerTypeOK, SP!Terminal, Ledger!Terminal
<1>3. TypeOK
  BY <1>1, <1>2, IdIsId DEF TypeOK, SlotsInv, LoopsOK, Verdicts
<1> QED
  BY <1>3 DEF LeaseCoversAttempt, SlotsInv, SlotsMatch

\* No path out of an attempt, refused, cancelled or thrown, keeps its slot, and
\* none gives it up before the finally block.
THEOREM LeaseIsHeldThroughout == Spec => []LeaseCoversAttempt
<1>1. ExposureInv => LeaseCoversAttempt
  BY InvCoversAttempt DEF ExposureInv, BooksInv
<1> QED
  BY <1>1, HarnessInvariant, PTL

LEMMA InvIsOnTheBooks == BooksInv => SpendIsOnTheBooks
<1> SUFFICES ASSUME BooksInv, NEW s \in Steps, Charged(s)
             PROVE  /\ \A n \in 1..(Attempt(s) - 1) : entry[<<s, n>>].state \in Ledger!Terminal
                    /\ pc[s] \in {"executing", "fencing", "settling"} =>
                         entry[Id(s)].state = "reserved"
                    /\ pc[s] = "done" /\ verdict[s].kind # "threw" =>
                         entry[Id(s)].state # "reserved"
  BY DEF SpendIsOnTheBooks
<1>1. Books(s) /\ Current(s)
  BY DEF BooksInv, Books
<1>2. /\ \A n \in 1..(Attempt(s) - 1) : n \in Attempts(s) /\ n < Attempt(s)
  BY IdIsId, StepConstantsAssumption DEF BooksInv, Attempts, MaxFormatRetries
<1> QED
  BY <1>1, <1>2 DEF Books, Current

\* A retry never starts over an open reservation, the provider never works for
\* one that is not on the books, and only a session that threw leaves one open.
THEOREM SpendStaysOnTheBooks == Spec => []SpendIsOnTheBooks
<1>1. ExposureInv => SpendIsOnTheBooks
  BY InvIsOnTheBooks DEF ExposureInv
<1> QED
  BY <1>1, HarnessInvariant, PTL

LEMMA InvBoundsExposure == ExposureInv => UnresolvedExposureBounded
<1> SUFFICES ASSUME ExposureInv, NEW b \in Buckets
             PROVE  /\ \A i, j \in Ledger!Unresolved(b) : i[1] = j[1] => i = j
                    /\ Cardinality(Ledger!Unresolved(b)) <= GlobalCeiling
  BY DEF UnresolvedExposureBounded
<1>1. ASSUME NEW i \in Ledger!Unresolved(b), NEW j \in Ledger!Unresolved(b), i[1] = j[1]
      PROVE  i = j
  <2>1. /\ i \in Ids /\ entry[i].state = "unresolved_remote"
        /\ j \in Ids /\ entry[j].state = "unresolved_remote"
    BY DEF Ledger!Unresolved
  <2>2. PICK s \in Steps : \E n \in Attempts(s) : i = <<s, n>>
    BY <2>1 DEF Ids
  <2>6. PICK n \in Attempts(s) : i = <<s, n>>
    BY <2>2
  <2>3. PICK m \in Attempts(s) : j = <<s, m>>
    BY <1>1, <2>1, <2>6 DEF Ids
  <2>4. ~(n < m) /\ ~(m < n)
    BY <2>1, <2>6, <2>3 DEF ExposureInv, BooksInv, Books
  <2>5. n \in Nat /\ m \in Nat
    BY DEF Attempts
  <2> QED
    BY <2>6, <2>3, <2>4, <2>5
<1>2. Cardinality(Ledger!Unresolved(b)) <= GlobalCeiling
  <2>1. Ledger!Unresolved(b) \subseteq Exposed(b)
    BY DEF Ledger!Unresolved, Exposed
  <2>2. IsFiniteSet(Exposed(b)) /\ Cardinality(Exposed(b)) <= GlobalCeiling
    BY DEF ExposureInv
  <2> QED
    BY <2>1, <2>2, LimiterConstantsAssumption, FS_Subset, FS_CardinalityType
<1> QED
  BY <1>1, <1>2

\* However many steps share a bucket and however often they retry, the attempts
\* whose spend nobody could account for are at most one per step and at most as
\* many as could hold a slot at once.
THEOREM ExposureIsBounded == Spec => []UnresolvedExposureBounded
<1>1. ExposureInv => UnresolvedExposureBounded
  BY InvBoundsExposure
<1> QED
  BY <1>1, HarnessInvariant, PTL

=============================================================================

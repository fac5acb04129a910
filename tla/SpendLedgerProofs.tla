-------------------------- MODULE SpendLedgerProofs --------------------------
(***************************************************************************)
(* Proofs about the spend ledger, for every set of reservations, buckets   *)
(* and idempotency keys.                                                   *)
(*                                                                         *)
(* The inductive invariant is the ledger's type together with the fence:   *)
(* the fence alone is not inductive, because a transition charges the      *)
(* bucket its reservation names, and only the type says that a reservation *)
(* that was opened names one.                                              *)
(***************************************************************************)
EXTENDS SpendLedger, TLAPS

LedgerInv == LedgerTypeOK /\ FencedIffUnresolved

LEMMA LedgerInvInit == Init => LedgerInv
  BY DEF Init, LedgerInv, LedgerTypeOK, FencedIffUnresolved, Unresolved

\* Opening a reservation leaves the accounts of the bucket as they are.
LEMMA ReserveKeepsInv ==
  ASSUME LedgerInv, NEW i \in Ids, NEW b \in SpendBuckets, Reserve(i, b)
  PROVE  LedgerInv'
<1>1. LedgerTypeOK'
  BY DEF LedgerInv, LedgerTypeOK, Reserve
<1>2. ASSUME NEW c \in SpendBuckets
      PROVE  Unresolved(c)' = Unresolved(c)
  BY DEF LedgerInv, LedgerTypeOK, Reserve, Unresolved
<1> QED
  BY <1>1, <1>2 DEF LedgerInv, FencedIffUnresolved, Reserve

\* A transition fences the bucket it leaves unresolved spend in, and no other.
LEMMA TransitionKeepsInv ==
  ASSUME LedgerInv, NEW i \in Ids, NEW kind \in Terminal, NEW k \in Keys,
         Transition(i, kind, k)
  PROVE  LedgerInv'
<1> DEFINE c == entry[i].bucket
<1>1. c \in SpendBuckets
  BY DEF LedgerInv, LedgerTypeOK, Transition
<1>2. LedgerTypeOK'
  <2>1. entry' \in [Ids -> [bucket : SpendBuckets \cup {NoKey},
                            state : Terminal \cup {"none", "reserved"},
                            key : Keys \cup {NoKey}]]
    BY DEF LedgerInv, LedgerTypeOK, Transition
  <2>2. \A j \in Ids : entry'[j].state # "none" => entry'[j].bucket \in SpendBuckets
    BY <1>1 DEF LedgerInv, LedgerTypeOK, Transition
  <2> QED
    BY <1>1, <2>1, <2>2 DEF LedgerInv, LedgerTypeOK, Transition
<1>3. CASE kind = "unresolved_remote"
  <2>1. ASSUME NEW b \in SpendBuckets
        PROVE  Unresolved(b)' = IF b = c THEN Unresolved(b) \cup {i} ELSE Unresolved(b)
    BY <1>3 DEF LedgerInv, LedgerTypeOK, Transition, Unresolved
  <2>2. fenced' = fenced \cup {c}
    BY <1>3 DEF Transition
  <2> QED
    BY <1>2, <2>1, <2>2 DEF LedgerInv, FencedIffUnresolved
<1>4. CASE kind # "unresolved_remote"
  <2>1. ASSUME NEW b \in SpendBuckets
        PROVE  Unresolved(b)' = Unresolved(b)
    BY <1>4 DEF LedgerInv, LedgerTypeOK, Transition, Unresolved
  <2>2. fenced' = fenced
    BY <1>4 DEF Transition
  <2> QED
    BY <1>2, <2>1, <2>2 DEF LedgerInv, FencedIffUnresolved
<1> QED
  BY <1>3, <1>4

LEMMA LedgerInvNext == LedgerInv /\ [Next]_ledgerVars => LedgerInv'
<1> SUFFICES ASSUME LedgerInv, [Next]_ledgerVars
             PROVE  LedgerInv'
  OBVIOUS
<1>1. ASSUME UNCHANGED <<entry, fenced>>
      PROVE  LedgerInv'
  BY <1>1 DEF LedgerInv, LedgerTypeOK, FencedIffUnresolved, Unresolved
<1>2. ASSUME NEW i \in Ids, NEW b \in SpendBuckets, Reserves(i, b)
      PROVE  LedgerInv'
  BY <1>1, <1>2, ReserveKeepsInv DEF Reserves
<1>3. ASSUME NEW i \in Ids, NEW kind \in Terminal, NEW k \in Keys, Finishes(i, kind, k)
      PROVE  LedgerInv'
  BY <1>1, <1>3, TransitionKeepsInv DEF Finishes, TransitionRefused
<1>4. CASE UNCHANGED ledgerVars
  BY <1>1, <1>4 DEF ledgerVars
<1> QED
  BY <1>2, <1>3, <1>4 DEF Next

\* The ledger's accounts are well-formed in every run.
THEOREM LedgerTypeCorrect == Spec => []LedgerTypeOK
<1>1. LedgerInv => LedgerTypeOK
  BY DEF LedgerInv
<1> QED
  BY <1>1, LedgerInvInit, LedgerInvNext, PTL DEF Spec

\* The fence is exact: markUnresolvedRemote raises it for the bucket that carries
\* unaccounted spend, and nothing else raises or lifts one.
THEOREM FenceIsExact == Spec => []FencedIffUnresolved
<1>1. LedgerInv => FencedIffUnresolved
  BY DEF LedgerInv
<1> QED
  BY <1>1, LedgerInvInit, LedgerInvNext, PTL DEF Spec

\* An acknowledged transition is what the ledger holds, and stays acknowledged
\* truthfully while other reservations move.
THEOREM AnswersAreTrue == Spec => []AnswerIsTruth
<1> DEFINE Inv == LedgerInv /\ AnswerIsTruth
<1>1. Init => AnswerIsTruth
  BY DEF Init, AnswerIsTruth, Terminal
<1>2. Inv /\ [Next]_ledgerVars => AnswerIsTruth'
  <2> SUFFICES ASSUME Inv, [Next]_ledgerVars
               PROVE  AnswerIsTruth'
    OBVIOUS
  <2>1. ASSUME NEW i \in Ids, NEW b \in SpendBuckets, Reserves(i, b)
        PROVE  AnswerIsTruth'
    BY <2>1 DEF Reserves, Says, AnswerIsTruth, Terminal
  <2>2. ASSUME NEW i \in Ids, NEW kind \in Terminal, NEW k \in Keys, Finishes(i, kind, k)
        PROVE  AnswerIsTruth'
    <3>1. CASE Transition(i, kind, k) /\ Says(kind, i, "ok")
      BY <3>1 DEF LedgerInv, LedgerTypeOK, Transition, Says, AnswerIsTruth
    <3>2. CASE TransitionRefused(i, kind, k) /\ Says(kind, i, Refusal(i, kind, k))
      BY <3>2 DEF TransitionRefused, Refusal, Says, AnswerIsTruth
    <3> QED
      BY <2>2, <3>1, <3>2 DEF Finishes
  <2>3. CASE UNCHANGED ledgerVars
    BY <2>3 DEF ledgerVars, AnswerIsTruth
  <2> QED
    BY <2>1, <2>2, <2>3 DEF Next
<1> QED
  BY <1>1, <1>2, LedgerInvInit, LedgerInvNext, PTL DEF Spec

\* No call rewrites a terminal reservation: not a repeat, not a conflicting one.
THEOREM TerminalStays == Spec => TerminalIsFinal
<1>1. LedgerInv /\ [Next]_ledgerVars =>
        [\A i \in Ids : entry[i].state \in Terminal => entry'[i] = entry[i]]_ledgerVars
  <2> SUFFICES ASSUME LedgerInv, Next, NEW j \in Ids, entry[j].state \in Terminal
               PROVE  entry'[j] = entry[j]
    OBVIOUS
  <2>1. ASSUME NEW i \in Ids, NEW b \in SpendBuckets, Reserves(i, b)
        PROVE  entry'[j] = entry[j]
    BY <2>1 DEF LedgerInv, LedgerTypeOK, Reserves, Reserve, Terminal
  <2>2. ASSUME NEW i \in Ids, NEW kind \in Terminal, NEW k \in Keys, Finishes(i, kind, k)
        PROVE  entry'[j] = entry[j]
    BY <2>2 DEF LedgerInv, LedgerTypeOK, Finishes, Transition, TransitionRefused, Terminal
  <2> QED
    BY <2>1, <2>2 DEF Next
<1> QED
  BY <1>1, LedgerInvInit, LedgerInvNext, PTL DEF Spec, TerminalIsFinal

\* A fenced bucket opens no reservation for the rest of the run.
THEOREM FenceStays == Spec => FenceIsForTheRun
<1>1. LedgerInv /\ [Next]_ledgerVars =>
        [\A i \in Ids :
           /\ entry[i].state = "none"
           /\ entry'[i].state # "none"
           => Unresolved(entry'[i].bucket) = {}]_ledgerVars
  <2> SUFFICES ASSUME LedgerInv, Next, NEW j \in Ids,
                      entry[j].state = "none", entry'[j].state # "none"
               PROVE  Unresolved(entry'[j].bucket) = {}
    OBVIOUS
  <2>1. ASSUME NEW i \in Ids, NEW b \in SpendBuckets, Reserves(i, b)
        PROVE  Unresolved(entry'[j].bucket) = {}
    <3>1. Reserve(i, b) /\ i = j
      BY <2>1 DEF LedgerInv, LedgerTypeOK, Reserves, Reserve
    <3>2. entry'[j].bucket = b /\ b \notin fenced
      BY <3>1 DEF LedgerInv, LedgerTypeOK, Reserve
    <3> QED
      BY <3>2 DEF LedgerInv, FencedIffUnresolved
  <2>2. ASSUME NEW i \in Ids, NEW kind \in Terminal, NEW k \in Keys, Finishes(i, kind, k)
        PROVE  FALSE
    BY <2>2 DEF LedgerInv, LedgerTypeOK, Finishes, Transition, TransitionRefused
  <2> QED
    BY <2>1, <2>2 DEF Next
<1> QED
  BY <1>1, LedgerInvInit, LedgerInvNext, PTL DEF Spec, FenceIsForTheRun
=============================================================================

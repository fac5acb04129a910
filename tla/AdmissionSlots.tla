--------------------------- MODULE AdmissionSlots ---------------------------
(***************************************************************************)
(* What the limiter promises its callers, without queues or counters: a    *)
(* set of holders that never exceeds either ceiling, a set of waiters, and *)
(* buckets that are shut for the rest of the run.  Whatever happens, the   *)
(* capacity that is free and wanted is handed out at once; which of the    *)
(* waiters gets it is not said.                                            *)
(***************************************************************************)
EXTENDS Integers, FiniteSets

CONSTANTS Steps, Buckets, BucketOf, BucketCeiling, GlobalCeiling

VARIABLES holders, waiters, shut

svars == <<holders, waiters, shut>>

In(b, S) == {s \in S : BucketOf[s] = b}

Fits(H) ==
  /\ Cardinality(H) <= GlobalCeiling
  /\ \A b \in Buckets : Cardinality(In(b, H)) <= BucketCeiling

\* Nobody in W could be added to H.
Saturated(H, W) == \A s \in W : ~Fits(H \cup {s})

\* From holders H and waiters W, hand out slots until nobody fits.
HandOut(H, W) ==
  \E granted \in SUBSET W :
    /\ holders' = H \cup granted
    /\ waiters' = W \ granted
    /\ Fits(H \cup granted)
    /\ Saturated(H \cup granted, W \ granted)

Init == holders = {} /\ waiters = {} /\ shut = {}

Join(s) ==
  /\ s \notin holders \cup waiters
  /\ BucketOf[s] \notin shut
  /\ HandOut(holders, waiters \cup {s})
  /\ UNCHANGED shut

Leave(s) ==
  /\ s \in holders
  /\ HandOut(holders \ {s}, waiters)
  /\ UNCHANGED shut

GiveUp(s) ==
  /\ s \in waiters
  /\ waiters' = waiters \ {s}
  /\ UNCHANGED <<holders, shut>>

Shut(b) ==
  /\ shut' = shut \cup {b}
  /\ waiters' = waiters \ In(b, waiters)
  /\ UNCHANGED holders

Next ==
  \/ \E s \in Steps : Join(s) \/ Leave(s) \/ GiveUp(s)
  \/ \E b \in Buckets : Shut(b)

Spec == Init /\ [][Next]_svars
=============================================================================

---------------------- MODULE ConcurrencyLimiterProofs ----------------------
(***************************************************************************)
(* Proofs about the concurrency limiter, for every finite set of callers,  *)
(* every set of buckets and every pair of ceilings.                        *)
(*                                                                         *)
(* The release of a lease runs a loop over the buckets, which the model    *)
(* writes as a recursive function.  The first part proves the induction    *)
(* that such a loop needs from the well-foundedness of finite sets; the    *)
(* second what a pump takes off a queue and what the loop adds up to; the  *)
(* third that every call keeps the limiter's invariant, and that the       *)
(* limiter implements the abstract slot allocator.                         *)
(***************************************************************************)
EXTENDS ConcurrencyLimiter, FiniteSetTheorems, SequenceTheorems, TLAPS

-----------------------------------------------------------------------------
(* Induction over the naturals, with the induction hypothesis as a set.    *)

\* Among finite sets there is one that has no other below it.
LEMMA MinimalSet ==
  ASSUME NEW S, NEW T, T # {}, \A x \in T : x \subseteq S /\ IsFiniteSet(x)
  PROVE  \E x \in T : \A y \in T : y \subseteq x => y = x
<1>1. T \subseteq FiniteSubsetsOf(S)
  BY DEF FiniteSubsetsOf
<1>2. IsWellFoundedOn(StrictSubsetOrdering(S), FiniteSubsetsOf(S))
  BY FS_StrictSubsetOrderingWellFounded
<1>3. PICK x \in T : \A y \in T : ~(<<y, x>> \in StrictSubsetOrdering(S))
  BY <1>1, <1>2, WFMin
<1> QED
  BY <1>3 DEF StrictSubsetOrdering

\* Every non-empty set of naturals has a least element: of the intervals that
\* start at one and end in the set, take a minimal one.
LEMMA LeastNatural ==
  ASSUME NEW T \in SUBSET Nat, T # {}
  PROVE  \E n \in T : \A m \in T : n <= m
<1> DEFINE U == {1..n : n \in T}
<1>1. U # {} /\ \A x \in U : x \subseteq Nat /\ IsFiniteSet(x)
  <2>1. \A n \in Nat : IsFiniteSet(1..n)
    BY FS_Interval
  <2>2. U # {}
    OBVIOUS
  <2> QED
    BY <2>1, <2>2
<1>2. PICK x \in U : \A y \in U : y \subseteq x => y = x
  <2> HIDE DEF U
  <2> QED
    BY <1>1, MinimalSet
<1>3. PICK n \in T : x = 1..n
  OBVIOUS
<1>4. ASSUME NEW m \in T, m < n
      PROVE  FALSE
  <2>1. 1..m \in U /\ 1..m \subseteq 1..n
    BY <1>4
  <2>2. n \in 1..n /\ n \notin 1..m
    BY <1>4
  <2> QED
    BY <1>2, <1>3, <2>1, <2>2
<1> QED
  BY <1>4

LEMMA SetInduction ==
  ASSUME NEW S, 0 \in S, \A n \in Nat : n \in S => n + 1 \in S
  PROVE  Nat \subseteq S
<1> SUFFICES ASSUME Nat \ S # {}
             PROVE  FALSE
  OBVIOUS
<1>1. PICK n \in Nat \ S : \A m \in Nat \ S : n <= m
  BY LeastNatural
<1>2. n # 0 /\ n - 1 \in Nat /\ n - 1 \in S
  BY <1>1
<1> QED
  BY <1>1, <1>2

-----------------------------------------------------------------------------
(* What one pump does to one queue.                                        *)

NoRepeats(q) == \A i, j \in 1..Len(q) : q[i] = q[j] => i = j

LEMMA FirstOfQueue ==
  ASSUME NEW q \in Seq(Steps), NoRepeats(q), NEW n \in 0..Len(q)
  PROVE  /\ First(q, n) \subseteq ToSet(q)
         /\ First(q, n) \subseteq Steps
         /\ IsFiniteSet(First(q, n))
         /\ Cardinality(First(q, n)) = n
<1> DEFINE f == [i \in 1..n |-> q[i]]
<1>1. 1..n \subseteq 1..Len(q) /\ n \in Nat /\ DOMAIN q = 1..Len(q)
  BY LenProperties
<1>2. First(q, n) \subseteq ToSet(q) /\ ToSet(q) \subseteq Steps
  BY <1>1, ElementOfSeq DEF First, ToSet
<1>3. f \in Bijection(1..n, First(q, n))
  BY <1>1 DEF First, NoRepeats, Bijection, Injection, Surjection, IsInjective
<1>4. ExistsBijection(1..n, First(q, n))
  BY <1>3 DEF ExistsBijection
<1>5. IsFiniteSet(First(q, n)) /\ Cardinality(First(q, n)) = n
  BY <1>1, <1>4, FS_CountingElements, FS_NatBijection
<1> QED
  BY <1>2, <1>5

\* What stays keeps its order, and is what was not shifted off.
LEMMA RestOfQueue ==
  ASSUME NEW q \in Seq(Steps), NoRepeats(q), NEW n \in 0..Len(q)
  PROVE  /\ AfterFirst(q, n) \in Seq(Steps)
         /\ Len(AfterFirst(q, n)) = Len(q) - n
         /\ NoRepeats(AfterFirst(q, n))
         /\ ToSet(AfterFirst(q, n)) = ToSet(q) \ First(q, n)
<1> DEFINE r == AfterFirst(q, n)
<1>1. Len(q) \in Nat /\ n \in Nat /\ n <= Len(q) /\ DOMAIN q = 1..Len(q)
  BY LenProperties
<1>2. \A i \in n + 1..Len(q) : q[i] \in Steps
  BY <1>1, ElementOfSeq
<1>3. /\ r \in Seq(Steps)
      /\ Len(r) = Len(q) - n
      /\ \A i \in 1..Len(q) - n : r[i] = q[n + i]
  <2>1. r = SubSeq(q, n + 1, Len(q))
    BY DEF AfterFirst
  <2> HIDE DEF r
  <2>2. /\ r \in Seq(Steps)
        /\ Len(r) = IF n + 1 <= Len(q) THEN Len(q) - (n + 1) + 1 ELSE 0
        /\ \A i \in 1..Len(q) - (n + 1) + 1 : r[i] = q[n + 1 + i - 1]
    BY <1>1, <1>2, <2>1, SubSeqProperties
  <2>3. ASSUME NEW i \in 1..Len(q) - n
        PROVE  r[i] = q[n + i]
    <3>1. i \in 1..Len(q) - (n + 1) + 1 /\ n + 1 + i - 1 = n + i
      BY <1>1
    <3>2. r[i] = q[n + 1 + i - 1]
      BY <2>2, <3>1
    <3> QED
      BY <3>1, <3>2
  <2>4. Len(r) = Len(q) - n
    BY <1>1, <2>2
  <2> QED
    BY <2>2, <2>3, <2>4
<1>4. DOMAIN r = 1..Len(r)
  BY <1>3, LenProperties
<1>5. NoRepeats(r)
  BY <1>1, <1>3 DEF NoRepeats
<1>6. ToSet(r) = ToSet(q) \ First(q, n)
  <2>1. ASSUME NEW x \in ToSet(r)
        PROVE  x \in ToSet(q) /\ x \notin First(q, n)
    <3>1. PICK i \in 1..Len(q) - n : x = q[n + i]
      BY <1>3, <1>4 DEF ToSet
    <3> QED
      BY <1>1, <3>1 DEF ToSet, First, NoRepeats
  <2>2. ASSUME NEW x \in ToSet(q), x \notin First(q, n)
        PROVE  x \in ToSet(r)
    <3>1. PICK i \in 1..Len(q) : x = q[i]
      BY <1>1 DEF ToSet
    <3>2. i > n
      BY <1>1, <2>2, <3>1 DEF First
    <3>3. r[i - n] = x /\ i - n \in 1..Len(r)
      BY <1>1, <1>3, <3>1, <3>2
    <3> QED
      BY <1>4, <3>3 DEF ToSet
  <2> QED
    BY <2>1, <2>2
<1> QED
  BY <1>3, <1>5, <1>6

\* A pump takes no more than waits or fits, and stops short of the queue's end
\* only at a ceiling.
LEMMA AdmitsFits ==
  ASSUME NEW q \in Seq(Steps), NEW u \in Int, NEW g \in Int,
         u <= BucketCeiling, g <= GlobalCeiling
  PROVE  /\ Admits(q, u, g) \in 0..Len(q)
         /\ u + Admits(q, u, g) <= BucketCeiling
         /\ g + Admits(q, u, g) <= GlobalCeiling
         /\ Admits(q, u, g) < Len(q) =>
              u + Admits(q, u, g) = BucketCeiling \/ g + Admits(q, u, g) = GlobalCeiling
<1>1. Len(q) \in Nat
  BY LenProperties
<1> QED
  BY <1>1, CeilingAssumption DEF Admits, Lesser

-----------------------------------------------------------------------------
(* The loop of release().                                                  *)

\* The slots the i-th bucket of the loop is given when g are in use before it.
PumpAdds(b, i, g) ==
  IF order[i] = b THEN 0 ELSE Admits(queue[order[i]], inUse[order[i]], g)

IsPump(g, n, b, own) ==
  g = [i \in 0..n |-> IF i = 0 THEN globalInUse - 1 + own
                      ELSE g[i - 1] + PumpAdds(b, i, g[i - 1])]

\* The recursion of the loop has a solution of every length.
LEMMA PumpExists ==
  ASSUME NEW b, NEW own
  PROVE  \A n \in Nat : \E g : IsPump(g, n, b, own)
<1> DEFINE S == {n \in Nat : \E g : IsPump(g, n, b, own)}
<1>1. 0 \in S
  <2>1. IsPump([i \in 0..0 |-> globalInUse - 1 + own], 0, b, own)
    BY DEF IsPump
  <2> QED
    BY <2>1
<1>2. ASSUME NEW n \in Nat, n \in S
      PROVE  n + 1 \in S
  <2>1. PICK g : IsPump(g, n, b, own)
    BY <1>2
  <2> DEFINE h == [i \in 0..n + 1 |-> IF i = n + 1 THEN g[n] + PumpAdds(b, n + 1, g[n])
                                      ELSE g[i]]
  <2>2. \A i \in 0..n : g[i] = IF i = 0 THEN globalInUse - 1 + own
                                ELSE g[i - 1] + PumpAdds(b, i, g[i - 1])
    BY <2>1 DEF IsPump
  <2>3. \A i \in 0..n : h[i] = g[i]
    BY <1>2
  <2>4. \A i \in 0..n + 1 : h[i] = IF i = 0 THEN globalInUse - 1 + own
                                    ELSE h[i - 1] + PumpAdds(b, i, h[i - 1])
    BY <1>2, <2>2, <2>3
  <2>5. IsPump(h, n + 1, b, own)
    BY <2>4 DEF IsPump
  <2> QED
    BY <2>5
<1>3. Nat \subseteq S
  <2> HIDE DEF S
  <2> QED
    BY <1>1, <1>2, SetInduction
<1> QED
  BY <1>3

\* Hence the function of the model is that solution.
LEMMA PumpDef ==
  ASSUME order \in Seq(Buckets), NEW b, NEW own
  PROVE  /\ PumpedInOrder(b, own)[0] = globalInUse - 1 + own
         /\ \A i \in 1..Len(order) :
              PumpedInOrder(b, own)[i] =
                PumpedInOrder(b, own)[i - 1] + PumpAdds(b, i, PumpedInOrder(b, own)[i - 1])
<1>1. Len(order) \in Nat
  BY LenProperties
<1>2. PICK h : IsPump(h, Len(order), b, own)
  BY <1>1, PumpExists
<1>3. PumpedInOrder(b, own) = CHOOSE g : IsPump(g, Len(order), b, own)
  BY DEF PumpedInOrder, IsPump, PumpAdds
<1>4. IsPump(PumpedInOrder(b, own), Len(order), b, own)
  BY <1>2, <1>3
<1> DEFINE g == PumpedInOrder(b, own)
<1> HIDE DEF g
<1>5. g = [i \in 0..Len(order) |-> IF i = 0 THEN globalInUse - 1 + own
                                   ELSE g[i - 1] + PumpAdds(b, i, g[i - 1])]
  BY <1>4 DEF IsPump, g
<1>6. g[0] = globalInUse - 1 + own
  BY <1>1, <1>5
<1>7. ASSUME NEW i \in 1..Len(order)
      PROVE  g[i] = g[i - 1] + PumpAdds(b, i, g[i - 1])
  BY <1>1, <1>5
<1> QED
  BY <1>6, <1>7 DEF g

LEMMA PumpGrows ==
  ASSUME NEW n \in Nat, NEW g, g[0] \in Int, g[0] <= GlobalCeiling,
         NEW a, \A i \in 1..n : g[i] = g[i - 1] + a[i],
         \A i \in 1..n : g[i - 1] \in Int /\ g[i - 1] <= GlobalCeiling =>
            a[i] \in Nat /\ g[i - 1] + a[i] <= GlobalCeiling
  PROVE  \A i \in 0..n : /\ g[i] \in Int
                          /\ g[i] <= g[n]
                          /\ g[n] <= GlobalCeiling
<1> DEFINE S == {m \in Nat : m <= n => /\ \A i \in 0..m : g[i] \in Int /\ g[i] <= g[m]
                                       /\ g[m] <= GlobalCeiling}
<1>1. 0 \in S
  OBVIOUS
<1>2. ASSUME NEW m \in Nat, m \in S
      PROVE  m + 1 \in S
  <2> SUFFICES ASSUME m + 1 <= n
               PROVE  /\ \A i \in 0..m + 1 : g[i] \in Int /\ g[i] <= g[m + 1]
                      /\ g[m + 1] <= GlobalCeiling
    OBVIOUS
  <2>1. /\ \A i \in 0..m : g[i] \in Int /\ g[i] <= g[m]
        /\ g[m] <= GlobalCeiling
    BY <1>2
  <2>2. m + 1 \in 1..n /\ (m + 1) - 1 = m
    BY <1>2
  <2>3. g[m + 1] = g[m] + a[m + 1] /\ a[m + 1] \in Nat /\ g[m] + a[m + 1] <= GlobalCeiling
    BY <2>1, <2>2
  <2>4. \A i \in 0..m + 1 : i \in 0..m \/ i = m + 1
    OBVIOUS
  <2> QED
    BY <2>1, <2>3, <2>4
<1>3. Nat \subseteq S
  <2> HIDE DEF S
  <2> QED
    BY <1>1, <1>2, SetInduction
<1> QED
  BY <1>3

-----------------------------------------------------------------------------
(* The invariant.                                                          *)

\* release() finds every waiting bucket in the order of the Map, once.
OrderIsKnown ==
  /\ NoRepeats(order)
  /\ \A b \in Buckets : queue[b] # <<>> => b \in ToSet(order)

WithinCeilings ==
  /\ \A b \in Buckets : inUse[b] <= BucketCeiling
  /\ globalInUse <= GlobalCeiling

LimiterInv == SlotAccounting /\ OrderIsKnown /\ WithinCeilings /\ NoIdleCapacity

\* The members of S that belong to bucket b.
Of(S, b) == {s \in S : BucketOf[s] = b}

\* Two sets of callers with nobody in common.
LEMMA CountUnion ==
  ASSUME NEW H \in SUBSET Steps, NEW G \in SUBSET Steps, H \cap G = {}
  PROVE  Cardinality(H \cup G) = Cardinality(H) + Cardinality(G)
<1>1. IsFiniteSet(H) /\ IsFiniteSet(G)
  BY StepsAssumption, FS_Subset
<1>2. Cardinality(H \cap G) = 0
  BY FS_EmptySet
<1>3. Cardinality(H) \in Nat /\ Cardinality(G) \in Nat
  BY <1>1, FS_CardinalityType
<1>4. Cardinality(H \cup G) = Cardinality(H) + Cardinality(G) - Cardinality(H \cap G)
  BY <1>1, FS_Union
<1> QED
  BY <1>2, <1>3, <1>4

LEMMA CountOf ==
  ASSUME NEW b, NEW H \in SUBSET Steps, NEW G \in SUBSET Steps, H \cap G = {}
  PROVE  Cardinality(Of(H \cup G, b)) = Cardinality(Of(H, b)) + Cardinality(Of(G, b))
<1>1. Of(H, b) \in SUBSET Steps /\ Of(G, b) \in SUBSET Steps
  BY DEF Of
<1>2. Of(H, b) \cap Of(G, b) = {} /\ Of(H \cup G, b) = Of(H, b) \cup Of(G, b)
  BY DEF Of
<1> QED
  BY <1>1, <1>2, CountUnion

LEMMA QueuesInInv ==
  ASSUME LimiterInv
  PROVE  /\ queue \in [Buckets -> Seq(Steps)]
         /\ Held \subseteq Steps /\ Queued \subseteq Steps /\ Held \cap Queued = {}
         /\ \A b \in Buckets : ToSet(queue[b]) = Of(Queued, b)
         /\ \A b \in Buckets : NoRepeats(queue[b])
  BY DEF LimiterInv, SlotAccounting, TypeOK, QueueIsWaiters, Held, Queued, NoRepeats, Of

LEMMA HeldIsFinite ==
  ASSUME NEW S \in SUBSET Steps
  PROVE  IsFiniteSet(S) /\ Cardinality(S) \in Nat
  BY StepsAssumption, FS_Subset, FS_CardinalityType

\* A sequence without repeats that gets one more element.
LEMMA Appended ==
  ASSUME NEW S, NEW q \in Seq(S), NoRepeats(q), NEW s \in S, s \notin ToSet(q)
  PROVE  /\ Append(q, s) \in Seq(S)
         /\ NoRepeats(Append(q, s))
         /\ ToSet(Append(q, s)) = ToSet(q) \cup {s}
<1> DEFINE r == Append(q, s)
<1>1. /\ r \in Seq(S)
      /\ Len(r) = Len(q) + 1
      /\ \A i \in 1..Len(q) : r[i] = q[i]
      /\ r[Len(q) + 1] = s
  BY AppendProperties
<1>2. Len(q) \in Nat /\ DOMAIN q = 1..Len(q) /\ DOMAIN r = 1..Len(r)
  BY <1>1, LenProperties
<1> HIDE DEF r
<1>3. \A i \in 1..Len(r) : i \in 1..Len(q) \/ i = Len(q) + 1
  BY <1>1, <1>2
<1>4. \A i \in 1..Len(q) : q[i] # s
  BY <1>2 DEF ToSet
<1>5. NoRepeats(r)
  BY <1>1, <1>2, <1>3, <1>4 DEF NoRepeats
<1>6. ToSet(r) = ToSet(q) \cup {s}
  <2>1. \A x \in ToSet(r) : x \in ToSet(q) \cup {s}
    BY <1>1, <1>2, <1>3 DEF ToSet
  <2>2. \A x \in ToSet(q) : x \in ToSet(r)
    BY <1>1, <1>2 DEF ToSet
  <2>3. s \in ToSet(r)
    BY <1>1, <1>2 DEF ToSet
  <2> QED
    BY <2>1, <2>2, <2>3
<1> QED
  BY <1>1, <1>5, <1>6 DEF r

\* What acquire() and release() have in common: from the holders H and the
\* waiters W in the queues Q, bucket x hands out taken[x] slots; G is who gets them.
HandsOut(Q, H, W, taken, G) ==
  /\ Q \in [Buckets -> Seq(Steps)] /\ taken \in [Buckets -> Nat]
  /\ H \in SUBSET Steps /\ W \in SUBSET Steps /\ G \in SUBSET Steps /\ H \cap W = {}
  /\ \A x \in Buckets : /\ ToSet(Q[x]) = Of(W, x) /\ NoRepeats(Q[x])
                        /\ taken[x] <= Len(Q[x])
                        /\ Of(G, x) = First(Q[x], taken[x])
  /\ Held' = H \cup G /\ Queued' = W \ G
  /\ queue' = [x \in Buckets |-> AfterFirst(Q[x], taken[x])]
  /\ inUse' = [x \in Buckets |-> Cardinality(Of(H, x)) + taken[x]]
  /\ globalInUse' = Cardinality(H \cup G)
  /\ status' \in [Steps -> Status] /\ order' \in Seq(Buckets)
  /\ tripped' \subseteq Buckets /\ aborted' \subseteq Steps
  /\ \A x \in tripped' : Q[x] = <<>>

LEMMA HandedOut ==
  ASSUME NEW Q, NEW H, NEW W, NEW taken, NEW G, HandsOut(Q, H, W, taken, G)
  PROVE  SlotAccounting'
<1> USE DEF HandsOut
<1>1. ASSUME NEW x \in Buckets
      PROVE  /\ taken[x] \in 0..Len(Q[x])
             /\ Cardinality(Of(H \cup G, x)) = Cardinality(Of(H, x)) + taken[x]
             /\ Cardinality(Of(H, x)) \in Nat
             /\ AfterFirst(Q[x], taken[x]) \in Seq(Steps)
             /\ Len(AfterFirst(Q[x], taken[x])) = Len(Q[x]) - taken[x]
             /\ NoRepeats(AfterFirst(Q[x], taken[x]))
             /\ ToSet(AfterFirst(Q[x], taken[x])) = Of(W \ G, x)
  <2>1. Q[x] \in Seq(Steps) /\ NoRepeats(Q[x]) /\ ToSet(Q[x]) = Of(W, x)
    OBVIOUS
  <2>2. taken[x] \in 0..Len(Q[x])
    BY LenProperties
  <2>3. Of(G, x) = First(Q[x], taken[x])
    OBVIOUS
  <2>4. Of(H, x) \in SUBSET Steps
    BY DEF Of
  <2>5. Cardinality(Of(H, x)) \in Nat
    BY <2>4, HeldIsFinite
  <2>6. H \cap G = {}
    <3>1. \A t \in G : t \in First(Q[BucketOf[t]], taken[BucketOf[t]])
      BY BucketOfAssumption DEF Of
    <3>2. \A y \in Buckets : First(Q[y], taken[y]) \subseteq ToSet(Q[y])
      BY FirstOfQueue, LenProperties
    <3>3. \A t \in G : t \in W
      BY <3>1, <3>2, BucketOfAssumption DEF Of
    <3> QED
      BY <3>3
  <2>7. Cardinality(Of(H \cup G, x)) = Cardinality(Of(H, x)) + Cardinality(Of(G, x))
    BY <2>6, CountOf
  <2>8. Cardinality(Of(G, x)) = taken[x]
    BY <2>1, <2>2, <2>3, FirstOfQueue
  <2>9. Of(W \ G, x) = Of(W, x) \ Of(G, x)
    BY DEF Of
  <2>10. ToSet(AfterFirst(Q[x], taken[x])) = Of(W \ G, x)
    BY <2>1, <2>2, <2>3, <2>9, RestOfQueue
  <2> QED
    BY <2>1, <2>2, <2>5, <2>7, <2>8, <2>10, RestOfQueue
<1>2. TypeOK'
  <2>1. inUse' \in [Buckets -> Nat]
    BY <1>1
  <2>2. globalInUse' \in Nat
    BY HeldIsFinite
  <2>3. queue' \in [Buckets -> Seq(Steps)]
    BY <1>1
  <2> QED
    BY <2>1, <2>2, <2>3 DEF TypeOK
<1>3. \A x \in Buckets : inUse'[x] = Cardinality(HeldIn(x)')
  <2>1. \A x \in Buckets : HeldIn(x)' = Of(H \cup G, x)
    BY DEF HeldIn, Of
  <2> QED
    BY <1>1, <2>1
<1>4. QueueIsWaiters'
  <2>1. ASSUME NEW x \in Buckets
        PROVE  /\ ToSet(queue'[x]) = {s \in Queued' : BucketOf[s] = x}
               /\ NoRepeats(queue'[x])
               /\ x \in tripped' => queue'[x] = <<>>
    <3>1. queue'[x] = AfterFirst(Q[x], taken[x])
      OBVIOUS
    <3>2. ToSet(queue'[x]) = {s \in Queued' : BucketOf[s] = x}
      BY <1>1, <3>1 DEF Of
    <3>3. ASSUME x \in tripped'
          PROVE  queue'[x] = <<>>
      <4>1. Len(Q[x]) = 0
        BY <3>3
      <4>2. Len(queue'[x]) = 0 /\ queue'[x] \in Seq(Steps)
        BY <1>1, <3>1, <4>1
      <4> QED
        BY <4>2, EmptySeq
    <3> QED
      BY <1>1, <3>1, <3>2, <3>3
  <2> QED
    BY <2>1 DEF QueueIsWaiters, NoRepeats
<1> QED
  BY <1>2, <1>3, <1>4 DEF SlotAccounting

LEMMA WholeQueue ==
  ASSUME NEW q \in Seq(Steps)
  PROVE  AfterFirst(q, 0) = q /\ First(q, 0) = {}
<1>1. SubSeq(q, 1, Len(q)) = q
  BY LenProperties, SubSeqFull
<1> QED
  BY <1>1 DEF AfterFirst, First

\* A bucket that is new to the Map is appended to its order.
LEMMA KnownBucket ==
  ASSUME NEW o \in Seq(Buckets), NoRepeats(o), NEW b \in Buckets,
         NEW p, p = IF b \in ToSet(o) THEN o ELSE Append(o, b)
  PROVE  p \in Seq(Buckets) /\ NoRepeats(p) /\ ToSet(o) \cup {b} \subseteq ToSet(p)
<1>1. CASE b \in ToSet(o)
  BY <1>1
<1>2. CASE b \notin ToSet(o)
  BY <1>2, Appended
<1> QED
  BY <1>1, <1>2

LEMMA WhatHolds ==
  ASSUME LimiterInv
  PROVE  /\ inUse \in [Buckets -> Nat] /\ globalInUse \in Nat
         /\ \A x \in Buckets : inUse[x] <= BucketCeiling
         /\ globalInUse <= GlobalCeiling
         /\ \A x \in Buckets : inUse[x] = Cardinality(Of(Held, x))
         /\ globalInUse = Cardinality(Held)
         /\ status \in [Steps -> Status] /\ order \in Seq(Buckets)
         /\ tripped \subseteq Buckets /\ aborted \subseteq Steps
         /\ \A x \in tripped : queue[x] = <<>>
  BY DEF LimiterInv, SlotAccounting, TypeOK, QueueIsWaiters, WithinCeilings, HeldIn, Of

\* acquire() queues one request and pumps its bucket.
LEMMA AcquireKeepsInv ==
  ASSUME LimiterInv, NEW s \in Steps, Acquire(s)
  PROVE  /\ LimiterInv'
         /\ \E G \in SUBSET (Queued \cup {s}) :
              Held' = Held \cup G /\ Queued' = (Queued \cup {s}) \ G
<1> DEFINE b == BucketOf[s]
           q == Append(queue[b], s)
           n == Admits(q, inUse[b], globalInUse)
           Q == [queue EXCEPT ![b] = q]
           W == Queued \cup {s}
           taken == [x \in Buckets |-> IF x = b THEN n ELSE 0]
           G == First(q, n)
<1>1. b \in Buckets
  BY BucketOfAssumption
<1>2. s \notin Queued /\ s \notin Held /\ s \notin ToSet(queue[b])
  <2>1. s \notin Queued /\ s \notin Held
    BY DEF Acquire, Asks, Queued, Held
  <2> QED
    BY <1>1, <2>1, QueuesInInv DEF Of
<1>3. q \in Seq(Steps) /\ NoRepeats(q) /\ ToSet(q) = ToSet(queue[b]) \cup {s}
  BY <1>1, <1>2, QueuesInInv, Appended
<1>4. /\ order' = IF b \in ToSet(order) THEN order ELSE Append(order, b)
      /\ queue' = [queue EXCEPT ![b] = AfterFirst(q, n)]
      /\ status' = [t \in Steps |-> IF t \in G THEN "held"
                                    ELSE IF t = s THEN "queued" ELSE status[t]]
      /\ inUse' = [inUse EXCEPT ![b] = @ + n]
      /\ globalInUse' = globalInUse + n
      /\ tripped' = tripped /\ aborted' = aborted /\ b \notin tripped
  BY DEF Acquire
<1> HIDE DEF q
<1>5. /\ n \in 0..Len(q)
      /\ inUse[b] + n <= BucketCeiling
      /\ globalInUse + n <= GlobalCeiling
      /\ n < Len(q) => inUse[b] + n = BucketCeiling \/ globalInUse + n = GlobalCeiling
  BY <1>1, <1>3, WhatHolds, AdmitsFits
<1>6. /\ G \subseteq ToSet(q) /\ G \in SUBSET Steps /\ Cardinality(G) = n
      /\ AfterFirst(q, n) \in Seq(Steps) /\ Len(AfterFirst(q, n)) = Len(q) - n
  BY <1>3, <1>5, FirstOfQueue, RestOfQueue
<1> HIDE DEF n, G
<1>7. /\ Q \in [Buckets -> Seq(Steps)]
      /\ Q[b] = q
      /\ \A x \in Buckets : x # b => Q[x] = queue[x]
  BY <1>1, <1>3, QueuesInInv
<1>8. \A x \in Buckets : ToSet(Q[x]) = Of(W, x) /\ NoRepeats(Q[x])
  BY <1>1, <1>3, <1>7, QueuesInInv DEF Of
<1>9. taken \in [Buckets -> Nat] /\ \A x \in Buckets : taken[x] <= Len(Q[x])
  BY <1>5, <1>7, LenProperties
<1>10. W \in SUBSET Steps /\ Held \in SUBSET Steps /\ Held \cap W = {}
  BY <1>2, QueuesInInv
<1>11. G \subseteq Of(W, b)
  BY <1>1, <1>6, <1>7, <1>8
<1>12. \A x \in Buckets : Of(G, x) = First(Q[x], taken[x])
  <2>1. \A x \in Buckets : First(queue[x], 0) = {}
    BY QueuesInInv, WholeQueue
  <2>2. Of(G, b) = First(q, n)
    BY <1>11 DEF Of, G
  <2>3. \A x \in Buckets : x # b => Of(G, x) = {}
    BY <1>11 DEF Of
  <2> QED
    BY <1>7, <2>1, <2>2, <2>3
<1>13. Held' = Held \cup G /\ Queued' = W \ G
  <2>1. \A t \in Steps : /\ status'[t] = "held" <=> t \in G \/ status[t] = "held"
                         /\ status'[t] = "queued" <=> t \notin G /\ (t = s \/ status[t] = "queued")
    BY <1>2, <1>4 DEF Held
  <2> QED
    BY <1>6, <2>1 DEF Held, Queued
<1>14. queue' = [x \in Buckets |-> AfterFirst(Q[x], taken[x])]
  <2>1. \A x \in Buckets : AfterFirst(queue[x], 0) = queue[x]
    BY QueuesInInv, WholeQueue
  <2> QED
    BY <1>1, <1>4, <1>7, <2>1, QueuesInInv
<1>15. inUse' = [x \in Buckets |-> Cardinality(Of(Held, x)) + taken[x]]
  <2>1. inUse \in [Buckets -> Nat] /\ n \in Nat
    BY <1>3, <1>5, WhatHolds, LenProperties
  <2>2. \A x \in Buckets : inUse'[x] = inUse[x] + (IF x = b THEN n ELSE 0)
    BY <1>1, <1>4, <2>1
  <2>3. inUse' = [x \in Buckets |-> inUse[x] + taken[x]]
    BY <1>4, <2>1, <2>2
  <2> QED
    BY <2>3, WhatHolds
<1>16. globalInUse' = Cardinality(Held \cup G)
  BY <1>4, <1>6, <1>10, <1>11, WhatHolds, CountUnion DEF Of
<1>17. status' \in [Steps -> Status] /\ \A x \in tripped' : Q[x] = <<>>
  BY <1>4, <1>7, WhatHolds DEF Status
<1>18. order' \in Seq(Buckets) /\ NoRepeats(order') /\ ToSet(order) \cup {b} \subseteq ToSet(order')
  BY <1>1, <1>4, WhatHolds, KnownBucket DEF LimiterInv, OrderIsKnown
<1> HIDE DEF Q, W, taken
<1>19. SlotAccounting'
  <2>1. HandsOut(Q, Held, W, taken, G)
    BY <1>4, <1>6, <1>7, <1>8, <1>9, <1>10, <1>12, <1>13, <1>14, <1>15, <1>16, <1>17, <1>18,
       WhatHolds DEF HandsOut
  <2> QED
    BY <2>1, HandedOut
<1>20. OrderIsKnown'
  BY <1>1, <1>4, <1>18, QueuesInInv DEF LimiterInv, OrderIsKnown
<1>21. WithinCeilings'
  BY <1>1, <1>4, <1>5, WhatHolds DEF WithinCeilings
<1>22. NoIdleCapacity'
  <2>1. queue'[b] = AfterFirst(q, n) /\ inUse'[b] = inUse[b] + n
    BY <1>1, <1>4, QueuesInInv, WhatHolds
  <2>2. queue'[b] # <<>> => n < Len(q)
    BY <1>3, <1>5, <1>6, <2>1, LenProperties, EmptySeq
  <2>3. ASSUME NEW x \in Buckets, x # b, queue'[x] # <<>>
        PROVE  inUse'[x] = BucketCeiling \/ globalInUse' = GlobalCeiling
    <3>1. queue[x] # <<>> /\ inUse'[x] = inUse[x]
      BY <1>4, <2>3, QueuesInInv, WhatHolds
    <3>2. inUse[x] = BucketCeiling \/ globalInUse = GlobalCeiling
      BY <3>1 DEF LimiterInv, NoIdleCapacity
    <3> QED
      BY <1>3, <1>4, <1>5, <3>1, <3>2, WhatHolds, LenProperties, CeilingAssumption
  <2> QED
    BY <1>4, <1>5, <2>1, <2>2, <2>3 DEF NoIdleCapacity
<1> QED
  BY <1>13, <1>11, <1>19, <1>20, <1>21, <1>22 DEF LimiterInv, W, Of

-----------------------------------------------------------------------------
(* release().                                                              *)

\* What the releasing bucket is given, the loop of the pump, what each bucket is
\* given, and who gets a slot when s gives up its lease.
OwnOf(s) == Admits(queue[BucketOf[s]], inUse[BucketOf[s]] - 1, globalInUse - 1)
LoopOf(s) == PumpedInOrder(BucketOf[s], OwnOf(s))
TakenIn(s) ==
  [x \in Buckets |->
     IF x = BucketOf[s] THEN OwnOf(s)
     ELSE IF x \in ToSet(order)
            THEN LET i == CHOOSE j \in 1..Len(order) : order[j] = x
                 IN  LoopOf(s)[i] - LoopOf(s)[i - 1]
            ELSE 0]
GrantedBy(s) ==
  {t \in Steps : t \in First(queue[BucketOf[t]], TakenIn(s)[BucketOf[t]])}

LEMMA OwnFits ==
  ASSUME LimiterInv, NEW s \in Held
  PROVE  LET b == BucketOf[s]
         IN  /\ b \in Buckets
             /\ inUse[b] \in Nat /\ globalInUse \in Nat
             /\ OwnOf(s) \in 0..Len(queue[b])
             /\ inUse[b] - 1 + OwnOf(s) <= BucketCeiling
             /\ globalInUse - 1 + OwnOf(s) <= GlobalCeiling
             /\ OwnOf(s) < Len(queue[b]) =>
                  \/ inUse[b] - 1 + OwnOf(s) = BucketCeiling
                  \/ globalInUse - 1 + OwnOf(s) = GlobalCeiling
<1> DEFINE b == BucketOf[s]
<1>1. s \in Steps /\ b \in Buckets
  BY BucketOfAssumption DEF Held
<1>2. /\ queue[b] \in Seq(Steps) /\ inUse[b] \in Nat /\ globalInUse \in Nat
      /\ inUse[b] <= BucketCeiling /\ globalInUse <= GlobalCeiling
  BY <1>1, QueuesInInv, WhatHolds
<1>3. /\ inUse[b] - 1 \in Int /\ inUse[b] - 1 <= BucketCeiling
      /\ globalInUse - 1 \in Int /\ globalInUse - 1 <= GlobalCeiling
  BY <1>2, CeilingAssumption
<1> QED
  BY <1>1, <1>2, <1>3, AdmitsFits DEF OwnOf

\* The i-th round of the loop: the counter never falls and never passes the ceiling.
LEMMA LoopFits ==
  ASSUME LimiterInv, NEW s \in Held
  PROVE  /\ LoopOf(s)[0] = globalInUse - 1 + OwnOf(s)
         /\ \A i \in 1..Len(order) :
              LoopOf(s)[i] = LoopOf(s)[i - 1] + PumpAdds(BucketOf[s], i, LoopOf(s)[i - 1])
         /\ \A i \in 0..Len(order) : /\ LoopOf(s)[i] \in Int
                                     /\ LoopOf(s)[i] <= LoopOf(s)[Len(order)]
         /\ LoopOf(s)[Len(order)] <= GlobalCeiling
<1> DEFINE b == BucketOf[s]
           g == LoopOf(s)
           n == Len(order)
           a == [i \in 1..n |-> PumpAdds(b, i, g[i - 1])]
<1>1. order \in Seq(Buckets) /\ n \in Nat
  BY WhatHolds, LenProperties
<1>2. /\ g[0] = globalInUse - 1 + OwnOf(s)
      /\ \A i \in 1..n : g[i] = g[i - 1] + PumpAdds(b, i, g[i - 1])
  BY <1>1, PumpDef DEF LoopOf
<1> HIDE DEF g
<1>3. g[0] \in Int /\ g[0] <= GlobalCeiling
  BY <1>2, OwnFits
<1>4. ASSUME NEW i \in 1..n, g[i - 1] \in Int, g[i - 1] <= GlobalCeiling
      PROVE  a[i] \in Nat /\ g[i - 1] + a[i] <= GlobalCeiling
  <2>1. order[i] \in Buckets
    BY <1>1, ElementOfSeq
  <2>2. queue[order[i]] \in Seq(Steps) /\ inUse[order[i]] \in Int /\ inUse[order[i]] <= BucketCeiling
    BY <2>1, QueuesInInv, WhatHolds
  <2>3. /\ Admits(queue[order[i]], inUse[order[i]], g[i - 1]) \in 0..Len(queue[order[i]])
        /\ g[i - 1] + Admits(queue[order[i]], inUse[order[i]], g[i - 1]) <= GlobalCeiling
    BY <1>4, <2>2, AdmitsFits
  <2> QED
    BY <1>4, <2>2, <2>3, LenProperties DEF PumpAdds
<1>5. \A i \in 1..n : g[i] = g[i - 1] + a[i]
  BY <1>2
<1> HIDE DEF a
<1>6. \A i \in 0..n : g[i] \in Int /\ g[i] <= g[n] /\ g[n] <= GlobalCeiling
  BY <1>1, <1>3, <1>4, <1>5, PumpGrows
<1> QED
  BY <1>1, <1>2, <1>6 DEF g

\* What a bucket is given is what its own round of the loop takes.
LEMMA TakenInRound ==
  ASSUME LimiterInv, NEW s \in Held, NEW i \in 1..Len(order), order[i] # BucketOf[s]
  PROVE  /\ TakenIn(s)[order[i]] = LoopOf(s)[i] - LoopOf(s)[i - 1]
         /\ TakenIn(s)[order[i]] =
              Admits(queue[order[i]], inUse[order[i]], LoopOf(s)[i - 1])
<1> DEFINE x == order[i]
           k == CHOOSE j \in 1..Len(order) : order[j] = x
<1>1. order \in Seq(Buckets) /\ Len(order) \in Nat /\ DOMAIN order = 1..Len(order)
  BY WhatHolds, LenProperties
<1>2. x \in Buckets /\ x \in ToSet(order)
  BY <1>1, ElementOfSeq DEF ToSet
<1>3. k = i
  <2>1. k \in 1..Len(order) /\ order[k] = x
    OBVIOUS
  <2> QED
    BY <2>1 DEF LimiterInv, OrderIsKnown, NoRepeats
<1>4. TakenIn(s)[x] = LoopOf(s)[k] - LoopOf(s)[k - 1]
  BY <1>2 DEF TakenIn
<1> HIDE DEF k
<1>5. LoopOf(s)[i] = LoopOf(s)[i - 1] + Admits(queue[x], inUse[x], LoopOf(s)[i - 1])
  BY LoopFits DEF PumpAdds
<1>6. LoopOf(s)[i] \in Int /\ LoopOf(s)[i - 1] \in Int /\ LoopOf(s)[i - 1] <= GlobalCeiling
  BY <1>1, LoopFits, CeilingAssumption
<1>7. Admits(queue[x], inUse[x], LoopOf(s)[i - 1]) \in Int
  <2>1. queue[x] \in Seq(Steps) /\ inUse[x] \in Int /\ inUse[x] <= BucketCeiling
    BY <1>2, QueuesInInv, WhatHolds
  <2> QED
    BY <1>6, <2>1, AdmitsFits
<1> QED
  BY <1>3, <1>4, <1>5, <1>6, <1>7

LEMMA TakenFits ==
  ASSUME LimiterInv, NEW s \in Held, NEW x \in Buckets
  PROVE  LET left == inUse[x] - (IF x = BucketOf[s] THEN 1 ELSE 0)
         IN  /\ TakenIn(s)[x] \in 0..Len(queue[x])
             /\ left + TakenIn(s)[x] <= BucketCeiling
             /\ TakenIn(s)[x] < Len(queue[x]) =>
                  \/ left + TakenIn(s)[x] = BucketCeiling
                  \/ LoopOf(s)[Len(order)] = GlobalCeiling
<1>1. /\ queue[x] \in Seq(Steps) /\ Len(queue[x]) \in Nat
      /\ inUse[x] \in Nat /\ inUse[x] <= BucketCeiling
  BY QueuesInInv, WhatHolds, LenProperties
<1>2. /\ order \in Seq(Buckets) /\ Len(order) \in Nat
      /\ DOMAIN order = 1..Len(order)
  BY WhatHolds, LenProperties
<1>3. /\ \A i \in 0..Len(order) : /\ LoopOf(s)[i] \in Int
                                  /\ LoopOf(s)[i] <= LoopOf(s)[Len(order)]
      /\ LoopOf(s)[Len(order)] <= GlobalCeiling
      /\ LoopOf(s)[0] = globalInUse - 1 + OwnOf(s)
  BY LoopFits
<1>4. CASE x = BucketOf[s]
  <2>1. TakenIn(s)[x] = OwnOf(s)
    BY <1>4 DEF TakenIn
  <2> QED
    BY <1>1, <1>2, <1>3, <1>4, <2>1, OwnFits, CeilingAssumption, SMTT(30)
<1>5. CASE x # BucketOf[s] /\ x \in ToSet(order)
  <2>1. PICK i \in 1..Len(order) : x = order[i]
    BY <1>2, <1>5 DEF ToSet
  <2>2. /\ TakenIn(s)[x] = LoopOf(s)[i] - LoopOf(s)[i - 1]
        /\ TakenIn(s)[x] = Admits(queue[x], inUse[x], LoopOf(s)[i - 1])
    BY <1>5, <2>1, TakenInRound
  <2>3. /\ LoopOf(s)[i] \in Int /\ LoopOf(s)[i] <= LoopOf(s)[Len(order)]
        /\ LoopOf(s)[i - 1] \in Int /\ LoopOf(s)[i - 1] <= GlobalCeiling
        /\ LoopOf(s)[Len(order)] \in Int
    BY <1>2, <1>3, CeilingAssumption
  <2>4. /\ TakenIn(s)[x] \in 0..Len(queue[x])
        /\ inUse[x] + TakenIn(s)[x] <= BucketCeiling
        /\ TakenIn(s)[x] < Len(queue[x]) =>
             \/ inUse[x] + TakenIn(s)[x] = BucketCeiling
             \/ LoopOf(s)[i - 1] + TakenIn(s)[x] = GlobalCeiling
    BY <1>1, <2>2, <2>3, AdmitsFits
  <2> QED
    BY <1>1, <1>3, <1>5, <2>2, <2>3, <2>4, CeilingAssumption, SMTT(30)
<1>6. CASE x # BucketOf[s] /\ x \notin ToSet(order)
  <2>1. TakenIn(s)[x] = 0
    BY <1>6 DEF TakenIn
  <2>2. Len(queue[x]) = 0
    BY <1>1, <1>6, EmptySeq DEF LimiterInv, OrderIsKnown
  <2> QED
    BY <1>1, <1>6, <2>1, <2>2
<1> QED
  BY <1>4, <1>5, <1>6

LEMMA GrantedByBucket ==
  ASSUME LimiterInv, NEW s \in Held
  PROVE  /\ TakenIn(s) \in [Buckets -> Nat]
         /\ GrantedBy(s) \subseteq Queued /\ GrantedBy(s) \subseteq Steps
         /\ \A x \in Buckets : Of(GrantedBy(s), x) = First(queue[x], TakenIn(s)[x])
         /\ \A x \in Buckets : Cardinality(Of(GrantedBy(s), x)) = TakenIn(s)[x]
         /\ \A t \in GrantedBy(s) : BucketOf[t] = BucketOf[s] \/ BucketOf[t] \in ToSet(order)
<1>1. TakenIn(s) = [x \in Buckets |-> TakenIn(s)[x]]
  BY DEF TakenIn
<1>2. ASSUME NEW x \in Buckets
      PROVE  /\ TakenIn(s)[x] \in 0..Len(queue[x])
             /\ First(queue[x], TakenIn(s)[x]) \subseteq Of(Queued, x)
             /\ Cardinality(First(queue[x], TakenIn(s)[x])) = TakenIn(s)[x]
  <2>1. TakenIn(s)[x] \in 0..Len(queue[x])
    BY TakenFits
  <2>2. queue[x] \in Seq(Steps) /\ NoRepeats(queue[x]) /\ ToSet(queue[x]) = Of(Queued, x)
    BY QueuesInInv
  <2> QED
    BY <2>1, <2>2, FirstOfQueue
<1>3. TakenIn(s) \in [Buckets -> Nat]
  <2>1. \A x \in Buckets : TakenIn(s)[x] \in Nat
    BY <1>2
  <2> QED
    BY <1>1, <2>1
<1>4. GrantedBy(s) \subseteq Queued /\ GrantedBy(s) \subseteq Steps
  BY <1>2, BucketOfAssumption DEF GrantedBy, Of
<1>5. \A x \in Buckets : Of(GrantedBy(s), x) = First(queue[x], TakenIn(s)[x])
  BY <1>2, QueuesInInv DEF GrantedBy, Of
<1>6. ASSUME NEW t \in GrantedBy(s)
      PROVE  BucketOf[t] = BucketOf[s] \/ BucketOf[t] \in ToSet(order)
  <2>1. BucketOf[t] \in Buckets /\ t \in Of(Queued, BucketOf[t])
    BY <1>4, BucketOfAssumption DEF Of
  <2>2. t \in ToSet(queue[BucketOf[t]]) /\ queue[BucketOf[t]] \in Seq(Steps)
    BY <2>1, QueuesInInv
  <2>3. queue[BucketOf[t]] # <<>>
    BY <2>2 DEF ToSet
  <2> QED
    BY <2>1, <2>3 DEF LimiterInv, OrderIsKnown
<1> QED
  BY <1>2, <1>3, <1>4, <1>5, <1>6

\* The loop's counter ends at the number of leases: in round i it has counted
\* those that were kept and those granted by the buckets pumped so far.
LEMMA LoopCounts ==
  ASSUME LimiterInv, NEW s \in Held
  PROVE  LoopOf(s)[Len(order)] = Cardinality((Held \ {s}) \cup GrantedBy(s))
<1> DEFINE b == BucketOf[s]
           G == GrantedBy(s)
           n == Len(order)
           Pumped(i) == {t \in G : BucketOf[t] = b \/ \E j \in 1..i : order[j] = BucketOf[t]}
           H(i) == (Held \ {s}) \cup Pumped(i)
           S == {i \in Nat : i <= n => LoopOf(s)[i] = Cardinality(H(i))}
<1>1. /\ order \in Seq(Buckets) /\ n \in Nat /\ DOMAIN order = 1..n
      /\ b \in Buckets /\ Held \subseteq Steps /\ Queued \subseteq Steps
      /\ Held \cap Queued = {} /\ globalInUse = Cardinality(Held)
  BY WhatHolds, QueuesInInv, OwnFits, LenProperties
<1>2. /\ G \subseteq Queued /\ G \subseteq Steps
      /\ \A x \in Buckets : Cardinality(Of(G, x)) = TakenIn(s)[x]
      /\ \A t \in G : BucketOf[t] = b \/ BucketOf[t] \in ToSet(order)
  BY GrantedByBucket
<1>3. \A x \in Buckets : TakenIn(s)[x] \in Int
  BY TakenFits, LenProperties, QueuesInInv
<1> HIDE DEF G
<1>4. 0 \in S
  <2>1. Pumped(0) = Of(G, b)
    BY DEF Of
  <2>2. Cardinality(Pumped(0)) = OwnOf(s)
    <3>1. TakenIn(s)[b] = OwnOf(s)
      BY <1>1 DEF TakenIn
    <3> QED
      BY <1>1, <1>2, <2>1, <3>1
  <2>3. Cardinality(Held \ {s}) = globalInUse - 1
    BY <1>1, HeldIsFinite, FS_RemoveElement
  <2>4. Held \ {s} \in SUBSET Steps /\ Pumped(0) \in SUBSET Steps /\ (Held \ {s}) \cap Pumped(0) = {}
    BY <1>1, <1>2
  <2>5. Cardinality(H(0)) = globalInUse - 1 + OwnOf(s)
    BY <2>2, <2>3, <2>4, CountUnion
  <2> QED
    BY <2>5, LoopFits
<1>5. ASSUME NEW i \in Nat, i \in S
      PROVE  i + 1 \in S
  <2> SUFFICES ASSUME i + 1 <= n
               PROVE  LoopOf(s)[i + 1] = Cardinality(H(i + 1))
    OBVIOUS
  <2> DEFINE x == order[i + 1]
  <2>1. i + 1 \in 1..n /\ (i + 1) - 1 = i /\ x \in Buckets /\ i \in 0..n
    BY <1>1, ElementOfSeq
  <2>2. LoopOf(s)[i] = Cardinality(H(i)) /\ LoopOf(s)[i] \in Int
    BY <1>1, <1>5, <2>1, LoopFits
  <2>3. \A j \in 1..i + 1 : j \in 1..i \/ j = i + 1
    OBVIOUS
  <2>4. 1..i \subseteq 1..i + 1
    OBVIOUS
  <2>5. CASE x = b
    <3>1. Pumped(i + 1) = Pumped(i)
      BY <2>3, <2>4, <2>5
    <3>2. LoopOf(s)[i + 1] = LoopOf(s)[i] + 0
      BY <2>1, <2>5, LoopFits DEF PumpAdds
    <3>3. H(i + 1) = H(i)
      BY <3>1
    <3> HIDE DEF H
    <3> QED
      BY <2>2, <3>2, <3>3
  <2>6. CASE x # b
    <3>1. Pumped(i + 1) = Pumped(i) \cup Of(G, x)
      BY <2>1, <2>3, <2>4 DEF Of
    <3>2. Pumped(i) \cap Of(G, x) = {}
      <4>1. \A j \in 1..i : order[j] # x
        BY <2>1, <1>1 DEF LimiterInv, OrderIsKnown, NoRepeats
      <4> QED
        BY <2>6, <4>1 DEF Of
    <3>3. H(i) \in SUBSET Steps /\ Of(G, x) \in SUBSET Steps /\ H(i) \cap Of(G, x) = {}
      BY <1>1, <1>2, <3>2 DEF Of
    <3>4. H(i + 1) = H(i) \cup Of(G, x)
      BY <3>1
    <3> HIDE DEF H
    <3>5. Cardinality(H(i + 1)) = Cardinality(H(i)) + Cardinality(Of(G, x))
      BY <3>3, <3>4, CountUnion
    <3>6. Cardinality(Of(G, x)) = TakenIn(s)[x] /\ TakenIn(s)[x] \in Int
      BY <1>2, <1>3, <2>1
    <3>7. TakenIn(s)[x] = LoopOf(s)[i + 1] - LoopOf(s)[i]
      BY <2>1, <2>6, TakenInRound
    <3>8. LoopOf(s)[i + 1] \in Int
      BY <2>1, LoopFits
    <3> QED
      BY <2>2, <3>5, <3>6, <3>7, <3>8
  <2> QED
    BY <2>5, <2>6
<1>6. n \in S
  <2> HIDE DEF S
  <2>1. Nat \subseteq S
    BY <1>4, <1>5, SetInduction
  <2> QED
    BY <1>1, <2>1
<1>7. H(n) = (Held \ {s}) \cup G
  BY <1>1, <1>2 DEF ToSet
<1> HIDE DEF H
<1>8. LoopOf(s)[n] = Cardinality(H(n))
  BY <1>1, <1>6
<1> QED
  BY <1>7, <1>8 DEF G

LEMMA ReleaseStep ==
  ASSUME LimiterInv, NEW s \in Steps, Release(s)
  PROVE  /\ s \in Held
         /\ queue' = [x \in Buckets |-> AfterFirst(queue[x], TakenIn(s)[x])]
         /\ status' = [t \in Steps |-> IF t \in GrantedBy(s) THEN "held"
                                       ELSE IF t = s THEN "released" ELSE status[t]]
         /\ inUse' = [x \in Buckets |->
              inUse[x] + TakenIn(s)[x] - (IF x = BucketOf[s] THEN 1 ELSE 0)]
         /\ globalInUse' = LoopOf(s)[Len(order)]
         /\ UNCHANGED <<order, tripped, aborted>>
<1>1. s \in Held
  BY DEF Release, Held
<1> DEFINE b == BucketOf[s]
           own == OwnOf(s)
           g == LoopOf(s)
           Taken(x) == IF x = b THEN own
                       ELSE IF x \in ToSet(order)
                              THEN LET i == CHOOSE j \in 1..Len(order) : order[j] = x
                                   IN  g[i] - g[i - 1]
                              ELSE 0
<1>2. /\ queue' = [x \in Buckets |-> AfterFirst(queue[x], Taken(x))]
      /\ status' = [t \in Steps |->
           IF t \in First(queue[BucketOf[t]], Taken(BucketOf[t])) THEN "held"
           ELSE IF t = s THEN "released" ELSE status[t]]
      /\ inUse' = [x \in Buckets |-> inUse[x] + Taken(x) - (IF x = b THEN 1 ELSE 0)]
      /\ globalInUse' = g[Len(order)]
      /\ UNCHANGED <<order, tripped, aborted>>
  BY DEF Release, OwnOf, LoopOf
<1>3. \A x \in Buckets : TakenIn(s)[x] = Taken(x)
  BY DEF TakenIn
<1> HIDE DEF own, g, Taken
<1>4. \A t \in Steps : t \in GrantedBy(s) <=> t \in First(queue[BucketOf[t]], Taken(BucketOf[t]))
  BY <1>3, BucketOfAssumption DEF GrantedBy
<1> QED
  BY <1>1, <1>2, <1>3, <1>4 DEF g

\* release() hands on what it frees, in its own bucket and in the others.
LEMMA ReleaseKeepsInv ==
  ASSUME LimiterInv, NEW s \in Steps, Release(s)
  PROVE  /\ LimiterInv'
         /\ s \in Held
         /\ \E G \in SUBSET Queued :
              Held' = (Held \ {s}) \cup G /\ Queued' = Queued \ G
<1> DEFINE b == BucketOf[s]
           taken == TakenIn(s)
           G == GrantedBy(s)
           H == Held \ {s}
<1>1. /\ s \in Held
      /\ queue' = [x \in Buckets |-> AfterFirst(queue[x], taken[x])]
      /\ status' = [t \in Steps |-> IF t \in G THEN "held"
                                    ELSE IF t = s THEN "released" ELSE status[t]]
      /\ inUse' = [x \in Buckets |-> inUse[x] + taken[x] - (IF x = b THEN 1 ELSE 0)]
      /\ globalInUse' = LoopOf(s)[Len(order)]
      /\ order' = order /\ tripped' = tripped /\ aborted' = aborted
  BY ReleaseStep
<1>2. /\ taken \in [Buckets -> Nat] /\ G \subseteq Queued /\ G \subseteq Steps
      /\ \A x \in Buckets : Of(G, x) = First(queue[x], taken[x])
  BY <1>1, GrantedByBucket
<1>3. ASSUME NEW x \in Buckets
      PROVE  /\ taken[x] \in 0..Len(queue[x]) /\ taken[x] \in Nat /\ Len(queue[x]) \in Nat
             /\ inUse[x] \in Nat
             /\ inUse'[x] = inUse[x] + taken[x] - (IF x = b THEN 1 ELSE 0)
             /\ inUse'[x] <= BucketCeiling
             /\ taken[x] < Len(queue[x]) =>
                  inUse'[x] = BucketCeiling \/ LoopOf(s)[Len(order)] = GlobalCeiling
  <2>1. taken[x] \in 0..Len(queue[x]) /\ taken[x] \in Nat /\ Len(queue[x]) \in Nat
    BY <1>1, <1>2, TakenFits, QueuesInInv, LenProperties
  <2>2. inUse'[x] = inUse[x] + taken[x] - (IF x = b THEN 1 ELSE 0) /\ inUse[x] \in Nat
    BY <1>1, WhatHolds
  <2>3. inUse'[x] = (inUse[x] - (IF x = b THEN 1 ELSE 0)) + taken[x]
    <3> HIDE DEF taken
    <3> QED
      BY <2>1, <2>2
  <2> QED
    BY <1>1, <2>1, <2>2, <2>3, TakenFits
<1>4. LoopOf(s)[Len(order)] = Cardinality(H \cup G) /\ LoopOf(s)[Len(order)] <= GlobalCeiling
  BY <1>1, LoopCounts, LoopFits
<1> HIDE DEF taken, G
<1>5. Held' = H \cup G /\ Queued' = Queued \ G
  <2>1. \A t \in Steps : /\ status'[t] = "held" <=> t \in G \/ (t # s /\ status[t] = "held")
                         /\ status'[t] = "queued" <=> t \notin G /\ status[t] = "queued"
    BY <1>1 DEF Held
  <2> QED
    BY <1>2, <2>1 DEF Held, Queued
<1>6. inUse' = [x \in Buckets |-> Cardinality(Of(H, x)) + taken[x]]
  <2>1. ASSUME NEW x \in Buckets
        PROVE  inUse'[x] = Cardinality(Of(H, x)) + taken[x]
    <3>1. /\ Of(Held, x) \in SUBSET Steps /\ inUse[x] = Cardinality(Of(Held, x))
          /\ s \in Of(Held, x) <=> x = b
      BY <1>1, WhatHolds, QueuesInInv DEF Of
    <3>2. IsFiniteSet(Of(Held, x))
      BY <3>1, HeldIsFinite
    <3>3. Of(H, x) = Of(Held, x) \ {s}
      BY DEF Of
    <3>4. Cardinality(Of(Held, x) \ {s}) =
            IF s \in Of(Held, x) THEN Cardinality(Of(Held, x)) - 1
            ELSE Cardinality(Of(Held, x))
      BY <3>2, FS_RemoveElement
    <3>5. Cardinality(Of(H, x)) = IF x = b THEN inUse[x] - 1 ELSE inUse[x]
      <4> HIDE DEF H
      <4> QED
        BY <3>1, <3>3, <3>4
    <3> HIDE DEF H, b
    <3> QED
      BY <1>3, <3>5
  <2> QED
    BY <1>1, <2>1
<1>7. status' \in [Steps -> Status]
  BY <1>1, WhatHolds DEF Status
<1>8. SlotAccounting'
  <2>1. H \in SUBSET Steps /\ Queued \in SUBSET Steps /\ H \cap Queued = {}
    BY QueuesInInv
  <2>2. \A x \in Buckets : /\ ToSet(queue[x]) = Of(Queued, x) /\ NoRepeats(queue[x])
                           /\ taken[x] <= Len(queue[x])
    BY <1>3, QueuesInInv
  <2> HIDE DEF H
  <2>3. HandsOut(queue, H, Queued, taken, G)
    BY <1>1, <1>2, <1>4, <1>5, <1>6, <1>7, <2>1, <2>2, QueuesInInv, WhatHolds DEF HandsOut
  <2> QED
    BY <2>3, HandedOut
<1>9. \A x \in Buckets : queue'[x] # <<>> => taken[x] < Len(queue[x])
  <2>1. ASSUME NEW x \in Buckets, taken[x] = Len(queue[x])
        PROVE  queue'[x] = <<>>
    <3>1. queue[x] \in Seq(Steps) /\ NoRepeats(queue[x]) /\ taken[x] \in 0..Len(queue[x])
      BY <1>3, QueuesInInv
    <3>2. /\ AfterFirst(queue[x], taken[x]) \in Seq(Steps)
          /\ Len(AfterFirst(queue[x], taken[x])) = Len(queue[x]) - taken[x]
      BY <3>1, RestOfQueue
    <3>3. Len(queue[x]) - taken[x] = 0
      BY <1>3, <2>1
    <3>4. AfterFirst(queue[x], taken[x]) = <<>>
      BY <3>2, <3>3, EmptySeq
    <3> QED
      BY <1>1, <3>4
  <2> QED
    BY <1>3, <2>1
<1>10. OrderIsKnown'
  <2>1. \A x \in Buckets : queue'[x] # <<>> => queue[x] # <<>>
    BY <1>3, <1>9, QueuesInInv, EmptySeq
  <2> QED
    BY <1>1, <2>1 DEF LimiterInv, OrderIsKnown
<1>11. WithinCeilings'
  BY <1>1, <1>3, <1>4 DEF WithinCeilings
<1>12. NoIdleCapacity'
  BY <1>1, <1>3, <1>9 DEF NoIdleCapacity
<1> QED
  BY <1>1, <1>2, <1>5, <1>8, <1>10, <1>11, <1>12 DEF LimiterInv

-----------------------------------------------------------------------------
(* The other calls.                                                        *)

LEMMA Removed ==
  ASSUME NEW q \in Seq(Steps), NoRepeats(q), NEW k \in 1..Len(q)
  PROVE  /\ RemoveAt(q, k) \in Seq(Steps)
         /\ NoRepeats(RemoveAt(q, k))
         /\ ToSet(RemoveAt(q, k)) = ToSet(q) \ {q[k]}
         /\ RemoveAt(q, k) # <<>> => q # <<>>
<1> DEFINE l == SubSeq(q, 1, k - 1)
           h == SubSeq(q, k + 1, Len(q))
           r == RemoveAt(q, k)
<1>1. Len(q) \in Nat /\ k \in Nat /\ k >= 1 /\ k <= Len(q) /\ DOMAIN q = 1..Len(q)
  BY LenProperties
<1>2. \A i \in 1..Len(q) : q[i] \in Steps
  BY ElementOfSeq
<1>3. /\ l \in Seq(Steps) /\ Len(l) = k - 1
      /\ \A i \in 1..k - 1 : l[i] = q[i]
  <2>1. \A i \in 1..k - 1 : q[i] \in Steps
    BY <1>1, <1>2
  <2>2. /\ l \in Seq(Steps) /\ Len(l) = IF 1 <= k - 1 THEN (k - 1) - 1 + 1 ELSE 0
        /\ \A i \in 1..(k - 1) - 1 + 1 : l[i] = q[1 + i - 1]
    BY <1>1, <2>1, SubSeqProperties
  <2> HIDE DEF l
  <2>3. ASSUME NEW i \in 1..k - 1
        PROVE  l[i] = q[i]
    <3>1. i \in 1..(k - 1) - 1 + 1 /\ 1 + i - 1 = i
      BY <1>1
    <3> QED
      BY <2>2, <3>1
  <2> QED
    BY <1>1, <2>2, <2>3
<1>4. /\ h \in Seq(Steps) /\ Len(h) = Len(q) - k
      /\ \A i \in 1..Len(q) - k : h[i] = q[k + i]
  <2>1. \A i \in k + 1..Len(q) : q[i] \in Steps
    BY <1>1, <1>2
  <2>2. /\ h \in Seq(Steps) /\ Len(h) = IF k + 1 <= Len(q) THEN Len(q) - (k + 1) + 1 ELSE 0
        /\ \A i \in 1..Len(q) - (k + 1) + 1 : h[i] = q[k + 1 + i - 1]
    BY <1>1, <2>1, SubSeqProperties
  <2> HIDE DEF h
  <2>3. ASSUME NEW i \in 1..Len(q) - k
        PROVE  h[i] = q[k + i]
    <3>1. i \in 1..Len(q) - (k + 1) + 1 /\ k + 1 + i - 1 = k + i
      BY <1>1
    <3>2. h[i] = q[k + 1 + i - 1]
      BY <2>2, <3>1
    <3> QED
      BY <3>1, <3>2
  <2> QED
    BY <1>1, <2>2, <2>3
<1>5. r = l \o h
  BY DEF RemoveAt
<1> HIDE DEF l, h, r
<1>6. /\ r \in Seq(Steps) /\ Len(r) = Len(q) - 1
      /\ \A i \in 1..Len(r) : r[i] = IF i < k THEN q[i] ELSE q[i + 1]
  <2>1. /\ r \in Seq(Steps) /\ Len(r) = Len(l) + Len(h)
        /\ \A i \in 1..Len(l) + Len(h) : r[i] = IF i <= Len(l) THEN l[i] ELSE h[i - Len(l)]
    BY <1>3, <1>4, <1>5, ConcatProperties
  <2>2. Len(r) = Len(q) - 1
    BY <1>1, <1>3, <1>4, <2>1
  <2>3. ASSUME NEW i \in 1..Len(r), i < k
        PROVE  r[i] = q[i]
    BY <1>1, <1>3, <1>4, <2>1, <2>2, <2>3
  <2>4. ASSUME NEW i \in 1..Len(r), ~(i < k)
        PROVE  r[i] = q[i + 1]
    <3>1. i - Len(l) \in 1..Len(q) - k /\ k + (i - Len(l)) = i + 1
      BY <1>1, <1>3, <2>2, <2>4
    <3>2. h[i - Len(l)] = q[k + (i - Len(l))]
      BY <1>4, <3>1
    <3>3. r[i] = h[i - Len(l)]
      BY <1>1, <1>3, <1>4, <2>1, <2>4
    <3> QED
      BY <3>1, <3>2, <3>3
  <2> QED
    BY <2>1, <2>2, <2>3, <2>4
<1>7. DOMAIN r = 1..Len(r)
  BY <1>6, LenProperties
<1>8. NoRepeats(r)
  BY <1>1, <1>6, SMTT(30) DEF NoRepeats
<1>9. ASSUME NEW x \in ToSet(r)
      PROVE  x \in ToSet(q) /\ x # q[k]
  <2>1. PICK i \in 1..Len(r) : x = r[i]
    BY <1>7 DEF ToSet
  <2>2. CASE i < k
    BY <1>1, <1>6, <2>1, <2>2 DEF ToSet, NoRepeats
  <2>3. CASE ~(i < k)
    <3>1. i + 1 \in 1..Len(q) /\ i + 1 # k /\ x = q[i + 1]
      BY <1>1, <1>6, <2>1, <2>3
    <3> QED
      BY <1>1, <3>1 DEF ToSet, NoRepeats
  <2> QED
    BY <2>2, <2>3
<1>10. ASSUME NEW x \in ToSet(q), x # q[k]
       PROVE  x \in ToSet(r)
  <2>1. PICK i \in 1..Len(q) : x = q[i]
    BY <1>1 DEF ToSet
  <2>2. i # k
    BY <1>10, <2>1
  <2>3. CASE i < k
    BY <1>1, <1>6, <1>7, <2>1, <2>3 DEF ToSet
  <2>4. CASE i > k
    <3>1. i - 1 \in 1..Len(r) /\ ~(i - 1 < k) /\ (i - 1) + 1 = i
      BY <1>1, <1>6, <2>4
    <3>2. r[i - 1] = x
      BY <1>6, <2>1, <3>1
    <3> QED
      BY <1>7, <3>1, <3>2 DEF ToSet
  <2> QED
    BY <1>1, <2>2, <2>3, <2>4
<1>11. r # <<>> => q # <<>>
  BY <1>1, EmptySeq
<1> QED
  BY <1>6, <1>8, <1>9, <1>10, <1>11 DEF r

\* A call that leaves the counters, the order and the holders alone, and whose
\* queues are those of the waiters that remain.
LEMMA HoldersStay ==
  ASSUME LimiterInv, UNCHANGED <<inUse, globalInUse, order>>,
         Held' = Held,
         queue' \in [Buckets -> Seq(Steps)], status' \in [Steps -> Status],
         tripped' \subseteq Buckets, aborted' \subseteq Steps,
         \A x \in Buckets : /\ ToSet(queue'[x]) = Of(Queued', x) /\ NoRepeats(queue'[x])
                            /\ x \in tripped' => queue'[x] = <<>>
                            /\ queue'[x] # <<>> => queue[x] # <<>>
  PROVE  LimiterInv'
<1>1. TypeOK'
  BY WhatHolds DEF TypeOK
<1>2. QueueIsWaiters'
  BY DEF QueueIsWaiters, Of, NoRepeats
<1>3. \A x \in Buckets : inUse'[x] = Cardinality(HeldIn(x)')
  BY DEF LimiterInv, SlotAccounting, HeldIn
<1>4. globalInUse' = Cardinality(Held')
  BY WhatHolds
<1>5. SlotAccounting'
  BY <1>1, <1>2, <1>3, <1>4 DEF SlotAccounting
<1>6. OrderIsKnown'
  BY DEF LimiterInv, OrderIsKnown
<1>7. WithinCeilings' /\ NoIdleCapacity'
  BY DEF LimiterInv, WithinCeilings, NoIdleCapacity
<1> QED
  BY <1>5, <1>6, <1>7 DEF LimiterInv

\* An abort takes a queued request out of its queue and does nothing to another.
LEMMA AbortKeepsInv ==
  ASSUME LimiterInv, NEW s \in Steps, Abort(s)
  PROVE  /\ LimiterInv'
         /\ Held' = Held /\ tripped' = tripped
         /\ Queued' = Queued \ {s}
<1> DEFINE b == BucketOf[s]
<1>1. /\ UNCHANGED <<inUse, globalInUse, order>>
      /\ tripped' = tripped /\ aborted' \subseteq Steps
  BY WhatHolds DEF Abort
<1>2. CASE status[s] # "queued"
  <2>1. queue' = queue /\ status' = status
    BY <1>2 DEF Abort
  <2>2. Held' = Held /\ Queued' = Queued /\ Queued \ {s} = Queued
    BY <1>2, <2>1 DEF Held, Queued
  <2> QED
    BY <1>1, <2>1, <2>2, QueuesInInv, WhatHolds, HoldersStay
<1>3. CASE status[s] = "queued"
  <2>1. PICK k \in 1..Len(queue[b]) :
          /\ queue[b][k] = s
          /\ queue' = [queue EXCEPT ![b] = RemoveAt(queue[b], k)]
    BY <1>3 DEF Abort
  <2>2. status' = [status EXCEPT ![s] = "aborted"]
    BY <1>3 DEF Abort
  <2>3. Held' = Held /\ Queued' = Queued \ {s} /\ status' \in [Steps -> Status]
    BY <1>3, <2>2, WhatHolds DEF Held, Queued, Status
  <2>4. b \in Buckets
    BY BucketOfAssumption
  <2>5. /\ queue[b] \in Seq(Steps) /\ NoRepeats(queue[b])
        /\ ToSet(queue[b]) = Of(Queued, b)
    BY <2>4, QueuesInInv
  <2>6. /\ RemoveAt(queue[b], k) \in Seq(Steps)
        /\ NoRepeats(RemoveAt(queue[b], k))
        /\ ToSet(RemoveAt(queue[b], k)) = Of(Queued, b) \ {s}
        /\ RemoveAt(queue[b], k) # <<>> => queue[b] # <<>>
    BY <2>1, <2>5, Removed
  <2>7. queue' \in [Buckets -> Seq(Steps)]
    BY <2>1, <2>6, QueuesInInv
  <2>8. /\ Of(Queued, b) \ {s} = Of(Queued', b)
        /\ \A x \in Buckets : x # b => Of(Queued', x) = Of(Queued, x)
    BY <2>3 DEF Of
  <2>9. queue'[b] = RemoveAt(queue[b], k) /\ \A x \in Buckets : x # b => queue'[x] = queue[x]
    BY <2>1, <2>4, QueuesInInv
  <2>10. b \notin tripped
    <3>1. queue[b] # <<>>
      BY <2>1, LenProperties, EmptySeq
    <3> QED
      BY <3>1, WhatHolds
  <2>11. \A x \in Buckets : /\ ToSet(queue'[x]) = Of(Queued', x) /\ NoRepeats(queue'[x])
                            /\ x \in tripped' => queue'[x] = <<>>
                            /\ queue'[x] # <<>> => queue[x] # <<>>
    BY <1>1, <2>6, <2>8, <2>9, <2>10, QueuesInInv, WhatHolds
  <2> QED
    BY <1>1, <2>3, <2>7, <2>11, WhatHolds, HoldersStay
<1> QED
  BY <1>2, <1>3

\* The breaker rejects every request that waits on its bucket.
LEMMA TripBreakerKeepsInv ==
  ASSUME LimiterInv, NEW b \in Buckets, TripBreaker(b)
  PROVE  /\ LimiterInv'
         /\ Held' = Held /\ tripped' = tripped \cup {b}
         /\ Queued' = Queued \ Of(Queued, b)
<1>1. /\ UNCHANGED <<inUse, globalInUse, order>>
      /\ tripped' = tripped \cup {b} /\ aborted' = aborted
      /\ queue' = [queue EXCEPT ![b] = <<>>]
      /\ status' = [t \in Steps |-> IF t \in ToSet(queue[b]) THEN "breaker" ELSE status[t]]
  BY DEF TripBreaker
<1>2. ToSet(queue[b]) = Of(Queued, b)
  BY QueuesInInv
<1>3. \A t \in Of(Queued, b) : status[t] = "queued"
  BY DEF Of, Queued
<1>4. Held' = Held /\ Queued' = Queued \ Of(Queued, b) /\ status' \in [Steps -> Status]
  <2>1. \A t \in Steps : /\ status'[t] = "held" <=> status[t] = "held"
                         /\ status'[t] = "queued" <=>
                              t \notin Of(Queued, b) /\ status[t] = "queued"
    BY <1>1, <1>2, <1>3
  <2>2. status' \in [Steps -> Status]
    BY <1>1, WhatHolds DEF Status
  <2> QED
    BY <2>1, <2>2 DEF Held, Queued
<1>5. queue' \in [Buckets -> Seq(Steps)]
  <2>1. <<>> \in Seq(Steps)
    BY EmptySeq
  <2> QED
    BY <1>1, <2>1, QueuesInInv
<1>6. queue'[b] = <<>> /\ \A x \in Buckets : x # b => queue'[x] = queue[x]
  BY <1>1, QueuesInInv
<1>7. Of(Queued', b) = {} /\ \A x \in Buckets : x # b => Of(Queued', x) = Of(Queued, x)
  BY <1>4 DEF Of
<1>8. ToSet(queue'[b]) = {} /\ NoRepeats(queue'[b])
  BY <1>6 DEF ToSet, NoRepeats
<1>9. \A x \in Buckets : /\ ToSet(queue'[x]) = Of(Queued', x) /\ NoRepeats(queue'[x])
                         /\ x \in tripped' => queue'[x] = <<>>
                         /\ queue'[x] # <<>> => queue[x] # <<>>
  BY <1>1, <1>6, <1>7, <1>8, QueuesInInv, WhatHolds
<1> QED
  BY <1>1, <1>4, <1>5, <1>9, WhatHolds, HoldersStay

\* A refused acquire changes only what became of that request.
LEMMA AcquireRefusedKeepsInv ==
  ASSUME LimiterInv, NEW s \in Steps, AcquireRefused(s)
  PROVE  /\ LimiterInv'
         /\ UNCHANGED <<Held, Queued, tripped>>
<1>1. /\ UNCHANGED <<inUse, globalInUse, queue, order, tripped, aborted>>
      /\ status[s] # "queued" /\ status[s] # "held"
      /\ status' = [status EXCEPT ![s] = "breaker"] \/ status' = [status EXCEPT ![s] = "aborted"]
  BY DEF AcquireRefused, Asks
<1>2. Held' = Held /\ Queued' = Queued /\ status' \in [Steps -> Status]
  BY <1>1, WhatHolds DEF Held, Queued, Status
<1> QED
  BY <1>1, <1>2, QueuesInInv, WhatHolds, HoldersStay

LEMMA StutterKeepsInv ==
  ASSUME LimiterInv, UNCHANGED vars
  PROVE  /\ LimiterInv'
         /\ UNCHANGED <<Held, Queued, tripped>>
<1>1. Held' = Held /\ Queued' = Queued
  BY DEF vars, Held, Queued
<1> QED
  BY <1>1, QueuesInInv, WhatHolds, HoldersStay DEF vars

\* When all callers share one signal, its listeners empty every queue.
LEMMA AbortAllKeepsInv ==
  ASSUME LimiterInv, aborted' \subseteq Steps,
         queue' = [b \in Buckets |-> <<>>],
         status' = [t \in Steps |-> IF status[t] = "queued" THEN "aborted" ELSE status[t]],
         UNCHANGED <<inUse, globalInUse, order, tripped>>
  PROVE  /\ LimiterInv'
         /\ Held' = Held /\ Queued' = {}
<1>1. Held' = Held /\ Queued' = {} /\ status' \in [Steps -> Status]
  BY WhatHolds DEF Held, Queued, Status
<1>2. queue' \in [Buckets -> Seq(Steps)]
  BY EmptySeq
<1>3. \A x \in Buckets : /\ ToSet(queue'[x]) = Of(Queued', x) /\ NoRepeats(queue'[x])
                         /\ x \in tripped' => queue'[x] = <<>>
                         /\ queue'[x] # <<>> => queue[x] # <<>>
  BY <1>1 DEF Of, ToSet, NoRepeats
<1> QED
  BY <1>1, <1>2, <1>3, WhatHolds, HoldersStay

LEMMA InitInv == Init => LimiterInv
<1> SUFFICES ASSUME Init
             PROVE  LimiterInv
  OBVIOUS
<1>1. Held = {} /\ Queued = {}
  BY DEF Init, Held, Queued
<1>2. TypeOK
  <2>1. /\ queue \in [Buckets -> Seq(Steps)] /\ order \in Seq(Buckets)
        /\ status \in [Steps -> Status]
    BY EmptySeq DEF Init, Status
  <2> QED
    BY <2>1 DEF Init, TypeOK
<1>3. QueueIsWaiters
  BY <1>1 DEF Init, QueueIsWaiters, ToSet
<1>4. SlotAccounting
  <2>1. \A b \in Buckets : HeldIn(b) = {}
    BY <1>1 DEF HeldIn
  <2> QED
    BY <1>1, <1>2, <1>3, <2>1, FS_EmptySet DEF Init, SlotAccounting
<1>5. OrderIsKnown /\ WithinCeilings /\ NoIdleCapacity
  BY CeilingAssumption DEF Init, OrderIsKnown, NoRepeats, WithinCeilings, NoIdleCapacity
<1> QED
  BY <1>4, <1>5 DEF LimiterInv

LEMMA NextKeepsInv == LimiterInv /\ [Next]_vars => LimiterInv'
<1> SUFFICES ASSUME LimiterInv, [Next]_vars
             PROVE  LimiterInv'
  OBVIOUS
<1>1. ASSUME NEW s \in Steps, AcquireRefused(s)
      PROVE  LimiterInv'
  BY <1>1, AcquireRefusedKeepsInv
<1>2. ASSUME NEW s \in Steps, Acquire(s)
      PROVE  LimiterInv'
  BY <1>2, AcquireKeepsInv
<1>3. ASSUME NEW s \in Steps, Abort(s)
      PROVE  LimiterInv'
  BY <1>3, AbortKeepsInv
<1>4. ASSUME NEW s \in Steps, Release(s)
      PROVE  LimiterInv'
  BY <1>4, ReleaseKeepsInv
<1>5. ASSUME NEW s \in Steps, ReleaseAgain(s)
      PROVE  LimiterInv'
  BY <1>5, StutterKeepsInv DEF ReleaseAgain
<1>6. ASSUME NEW b \in Buckets, TripBreaker(b)
      PROVE  LimiterInv'
  BY <1>6, TripBreakerKeepsInv
<1>7. CASE UNCHANGED vars
  BY <1>7, StutterKeepsInv
<1> QED
  BY <1>1, <1>2, <1>3, <1>4, <1>5, <1>6, <1>7 DEF Next

-----------------------------------------------------------------------------
(* The theorems.                                                           *)

\* The inductive invariant: the accounting, the Map order, both ceilings and no
\* idle capacity hold together after every call.
THEOREM SpecImpliesInv == Spec => []LimiterInv
  BY InitInv, NextKeepsInv, PTL DEF Spec

\* Every slot the limiter counts is a lease somebody holds and every queue holds
\* the waiters of its bucket, each once, whatever was aborted, rejected by the
\* breaker or released twice on the way.
THEOREM CountersCountLeases == Spec => []SlotAccounting
<1>1. LimiterInv => SlotAccounting
  BY DEF LimiterInv
<1> QED
  BY <1>1, SpecImpliesInv, PTL

\* release() leaves no waiter behind a free slot, in any bucket: what pump() does
\* in Map order is enough, although it visits every bucket once.
THEOREM NobodyWaitsForNothing == Spec => []NoIdleCapacity
<1>1. LimiterInv => NoIdleCapacity
  BY DEF LimiterInv
<1> QED
  BY <1>1, SpecImpliesInv, PTL

\* No order of calls takes a bucket or the run past its ceiling.
THEOREM CeilingsHold == Spec => []WithinCeilings
<1>1. LimiterInv => WithinCeilings
  BY DEF LimiterInv
<1> QED
  BY <1>1, SpecImpliesInv, PTL

-----------------------------------------------------------------------------
(* The limiter implements the abstract slot allocator.                     *)

\* The allocator counts as the limiter does.
LEMMA SameCardinality ==
  ASSUME NEW S
  PROVE  Slots!Cardinality(S) = Cardinality(S)
BY DEF Slots!Cardinality, Cardinality

\* In a state of the invariant the holders fit, and no waiter could be added.
LEMMA InvIsSaturated ==
  ASSUME LimiterInv
  PROVE  Slots!Fits(Held) /\ Slots!Saturated(Held, Queued)
<1>1. \A b \in Buckets : inUse[b] = Cardinality(Slots!In(b, Held))
  BY WhatHolds DEF Slots!In, Of
<1>2. Slots!Fits(Held)
  BY <1>1, WhatHolds, SameCardinality DEF Slots!Fits
<1>3. ASSUME NEW t \in Queued
      PROVE  ~Slots!Fits(Held \cup {t})
  <2> DEFINE b == BucketOf[t]
  <2>1. /\ t \in Steps /\ b \in Buckets /\ Held \in SUBSET Steps /\ t \notin Held
        /\ t \in Of(Queued, b)
    BY QueuesInInv, BucketOfAssumption DEF Queued, Of
  <2>2. queue[b] # <<>>
    <3>1. t \in ToSet(queue[b])
      BY <2>1, QueuesInInv
    <3> QED
      BY <3>1 DEF ToSet
  <2>3. inUse[b] = BucketCeiling \/ globalInUse = GlobalCeiling
    BY <2>1, <2>2 DEF LimiterInv, NoIdleCapacity
  <2>4. Cardinality(Held \cup {t}) = globalInUse + 1
    BY <2>1, HeldIsFinite, WhatHolds, FS_AddElement
  <2>5. Cardinality(Slots!In(b, Held \cup {t})) = inUse[b] + 1
    <3>1. Slots!In(b, Held) \in SUBSET Steps /\ t \notin Slots!In(b, Held)
      BY <2>1 DEF Slots!In
    <3>2. Slots!In(b, Held \cup {t}) = Slots!In(b, Held) \cup {t}
      BY <2>1 DEF Slots!In
    <3>3. IsFiniteSet(Slots!In(b, Held))
      BY <3>1, HeldIsFinite
    <3>4. Cardinality(Slots!In(b, Held) \cup {t}) = Cardinality(Slots!In(b, Held)) + 1
      BY <3>1, <3>3, FS_AddElement
    <3> QED
      BY <1>1, <2>1, <3>2, <3>4
  <2> DEFINE one == Cardinality(Slots!In(b, Held \cup {t}))
             all == Cardinality(Held \cup {t})
  <2>6. ~(one <= BucketCeiling) \/ ~(all <= GlobalCeiling)
    BY <2>1, <2>3, <2>4, <2>5, WhatHolds, CeilingAssumption
  <2>7. Slots!Fits(Held \cup {t}) => one <= BucketCeiling /\ all <= GlobalCeiling
    <3>1. /\ Slots!Cardinality(Slots!In(b, Held \cup {t})) = one
          /\ Slots!Cardinality(Held \cup {t}) = all
      BY SameCardinality
    <3> HIDE DEF one, all
    <3> QED
      BY <2>1, <3>1 DEF Slots!Fits
  <2> QED
    BY <2>6, <2>7
<1> QED
  BY <1>2, <1>3 DEF Slots!Saturated

\* Whoever was granted, the slots were handed out as the allocator says.
LEMMA HandOutOf ==
  ASSUME LimiterInv', NEW H, NEW W, NEW G \in SUBSET W,
         Slots!Fits(Held)', Slots!Saturated(Held, Queued)',
         Held' = H \cup G, Queued' = W \ G
  PROVE  Slots!HandOut(H, W)
<1>1. Slots!Fits(H \cup G) /\ Slots!Saturated(H \cup G, W \ G)
  BY DEF Slots!Fits, Slots!Saturated, Slots!In
<1> QED
  BY <1>1 DEF Slots!HandOut

\* Every step of the limiter is a step of the allocator, or leaves it alone.
LEMMA NextImplementsSlots ==
  ASSUME LimiterInv, [Next]_vars, LimiterInv',
         Slots!Fits(Held)', Slots!Saturated(Held, Queued)'
  PROVE  [Slots!Next]_(Slots!svars)
<1>1. ASSUME NEW s \in Steps, AcquireRefused(s)
      PROVE  UNCHANGED Slots!svars
  BY <1>1, AcquireRefusedKeepsInv DEF Slots!svars
<1>2. ASSUME NEW s \in Steps, Acquire(s)
      PROVE  Slots!Join(s)
  <2>1. PICK G \in SUBSET (Queued \cup {s}) :
          Held' = Held \cup G /\ Queued' = (Queued \cup {s}) \ G
    BY <1>2, AcquireKeepsInv
  <2>2. Slots!HandOut(Held, Queued \cup {s})
    BY <2>1, HandOutOf
  <2>3. s \notin Held \cup Queued /\ BucketOf[s] \notin tripped /\ tripped' = tripped
    BY <1>2 DEF Acquire, Asks, Held, Queued
  <2> QED
    BY <2>2, <2>3 DEF Slots!Join
<1>3. ASSUME NEW s \in Steps, Abort(s)
      PROVE  Slots!GiveUp(s) \/ UNCHANGED Slots!svars
  <2>1. Held' = Held /\ tripped' = tripped /\ Queued' = Queued \ {s}
    BY <1>3, AbortKeepsInv
  <2> QED
    BY <2>1 DEF Slots!GiveUp, Slots!svars
<1>4. ASSUME NEW s \in Steps, Release(s)
      PROVE  Slots!Leave(s)
  <2>1. s \in Held /\ tripped' = tripped
    BY <1>4, ReleaseKeepsInv DEF Release
  <2>2. PICK G \in SUBSET Queued : Held' = (Held \ {s}) \cup G /\ Queued' = Queued \ G
    BY <1>4, ReleaseKeepsInv
  <2>3. Slots!HandOut(Held \ {s}, Queued)
    BY <2>2, HandOutOf
  <2> QED
    BY <2>1, <2>3 DEF Slots!Leave
<1>5. ASSUME NEW s \in Steps, ReleaseAgain(s)
      PROVE  UNCHANGED Slots!svars
  BY <1>5, StutterKeepsInv DEF ReleaseAgain, Slots!svars
<1>6. ASSUME NEW b \in Buckets, TripBreaker(b)
      PROVE  Slots!Shut(b)
  <2>1. /\ Held' = Held /\ tripped' = tripped \cup {b}
        /\ Queued' = Queued \ Of(Queued, b)
    BY <1>6, TripBreakerKeepsInv
  <2> QED
    BY <2>1 DEF Slots!Shut, Slots!In, Of
<1>7. CASE UNCHANGED vars
  BY <1>7, StutterKeepsInv DEF Slots!svars
<1> QED
  BY <1>1, <1>2, <1>3, <1>4, <1>5, <1>6, <1>7 DEF Next, Slots!Next

\* Every call to the limiter is a step of the abstract slot allocator: both
\* ceilings hold, and whatever capacity is free and wanted is handed out at once.
THEOREM LimiterImplementsSlots == Spec => ImplementsSlots
<1>1. Init => Slots!Init
  <2>1. Init => Held = {} /\ Queued = {} /\ tripped = {}
    BY DEF Init, Held, Queued
  <2> QED
    BY <2>1 DEF Slots!Init
<1>2. LimiterInv => Slots!Fits(Held) /\ Slots!Saturated(Held, Queued)
  BY InvIsSaturated
<1>3. /\ LimiterInv /\ [Next]_vars /\ LimiterInv'
      /\ Slots!Fits(Held)' /\ Slots!Saturated(Held, Queued)'
      => [Slots!Next]_(Slots!svars)
  BY NextImplementsSlots
<1> QED
  BY <1>1, <1>2, <1>3, SpecImpliesInv, PTL DEF Spec, ImplementsSlots, Slots!Spec

=============================================================================

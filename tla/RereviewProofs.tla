--------------------------- MODULE RereviewProofs ---------------------------
(***************************************************************************)
(* What holds of RereviewState for every set of issues, every Near, every  *)
(* marker and every bound.  The least-number principle stands in for an    *)
(* induction over the lists: it gives the pairing of findings with rows,   *)
(* the order of the rows a filter leaves, and the pairs that pairInto      *)
(* returns.  On them rests the inductive invariant RereviewInv: a review   *)
(* that has not posted remembers every row of the block, so that the mark  *)
(* it starts from is never below an id that was named.                     *)
(***************************************************************************)
EXTENDS RereviewState, FiniteSetTheorems, SequenceTheorems, WellFoundedInduction, TLAPS

-----------------------------------------------------------------------------
(* Numbers: least, highest, ascending order.                               *)

\* Every non-empty set of naturals has a least member.  What follows is proved by
\* looking at the least number that would refute it.
LEMMA LowestIs ==
  ASSUME NEW S \in SUBSET Nat, S # {}
  PROVE  Lowest(S) \in S /\ \A n \in S : Lowest(S) <= n
<1>1. IsWellFoundedOn(OpToRel(<, Nat), Nat)
  BY NatLessThanWellFounded, Zenon
<1>2. PICK m \in S : \A n \in S : ~(<<n, m>> \in OpToRel(<, Nat))
  BY <1>1, WFMin, Zenon
<1>3. \A n \in S : ~(n < m)
  BY <1>2 DEF OpToRel
<1>4. \E n \in S : \A k \in S : n <= k
  BY <1>3
<1> QED
  BY <1>4 DEF Lowest

\* A bounded non-empty set of numbers has a highest member.
LEMMA HighestIs ==
  ASSUME NEW b \in Nat, NEW S \in SUBSET (0 .. b), S # {}
  PROVE  Highest(S) \in S /\ \A n \in S : n <= Highest(S)
<1> DEFINE T == {b - n : n \in S}
<1>1. T \in SUBSET Nat /\ T # {}
  <2>1. \A n \in S : b - n \in Nat /\ b - n \in T
    OBVIOUS
  <2> QED
    BY <2>1
<1>2. Lowest(T) \in T /\ \A n \in T : Lowest(T) <= n
  <2> HIDE DEF T
  <2> QED
    BY <1>1, LowestIs
<1>3. PICK n \in S : Lowest(T) = b - n
  BY <1>2
<1>4. ASSUME NEW m \in S
      PROVE  m <= n
  <2>1. b - m \in T
    OBVIOUS
  <2>2. b - n <= b - m
    BY <1>2, <1>3, <2>1
  <2> QED
    BY <2>2
<1>5. \E k \in S : \A m \in S : m <= k
  BY <1>4
<1> QED
  BY <1>5 DEF Highest

\* InOrder lists the members of a bounded set, each once.
LEMMA InOrderIs ==
  ASSUME NEW N \in Nat, NEW S \in SUBSET (1 .. N)
  PROVE  /\ Cardinality(S) \in Nat
         /\ InOrder(S) \in [1 .. Cardinality(S) -> S]
         /\ \A n \in S : \E k \in 1 .. Cardinality(S) : InOrder(S)[k] = n
         /\ \A j, k \in 1 .. Cardinality(S) : InOrder(S)[j] = InOrder(S)[k] => j = k
<1> DEFINE UpTo(n) == {m \in S : m <= n}
           rank == [n \in S |-> Cardinality(UpTo(n))]
           c == Cardinality(S)
<1>1. IsFiniteSet(S) /\ c \in Nat
  <2>1. IsFiniteSet(1 .. N)
    BY FS_Interval
  <2>2. IsFiniteSet(S)
    BY <2>1, FS_Subset
  <2> QED
    BY <2>2, FS_CardinalityType
<1>2. ASSUME NEW n \in S
      PROVE  IsFiniteSet(UpTo(n)) /\ Cardinality(UpTo(n)) \in 1 .. c
  <2>1. UpTo(n) \in SUBSET S /\ n \in UpTo(n)
    OBVIOUS
  <2>2. IsFiniteSet(UpTo(n)) /\ Cardinality(UpTo(n)) <= c
    BY <1>1, <2>1, FS_Subset
  <2>3. Cardinality(UpTo(n)) \in Nat /\ Cardinality(UpTo(n)) # 0
    BY <2>1, <2>2, FS_CardinalityType, FS_EmptySet
  <2> QED
    BY <1>1, <2>2, <2>3
<1>3. ASSUME NEW m \in S, NEW n \in S, m < n
      PROVE  Cardinality(UpTo(m)) # Cardinality(UpTo(n))
  <2>1. UpTo(m) \in SUBSET UpTo(n) /\ UpTo(m) # UpTo(n)
    <3>1. n \in UpTo(n) /\ n \notin UpTo(m)
      BY <1>3
    <3>2. \A k \in UpTo(m) : k \in UpTo(n)
      BY <1>3
    <3> QED
      BY <3>1, <3>2, Zenon
  <2> QED
    BY <1>2, <2>1, FS_Subset
<1>4. rank \in Injection(S, 1 .. c)
  <2>1. rank \in [S -> 1 .. c]
    BY <1>2
  <2>2. \A m, n \in S : rank[m] = rank[n] => m = n
    BY <1>3
  <2> QED
    BY <2>1, <2>2 DEF Injection, IsInjective
<1>5. IsFiniteSet(1 .. c) /\ Cardinality(1 .. c) = c
  BY <1>1, FS_Interval
<1>6. rank \in Surjection(S, 1 .. c)
  <2> HIDE DEF rank, c
  <2> QED
    BY <1>4, <1>5, FS_Injection DEF c
<1>7. \A k \in 1 .. c : \E n \in S : Cardinality({m \in S : m <= n}) = k
  BY <1>6 DEF Surjection
<1>8. \A k \in 1 .. c : InOrder(S)[k] \in S /\ rank[InOrder(S)[k]] = k
  BY <1>7 DEF InOrder
<1>9. InOrder(S) \in [1 .. c -> S]
  BY <1>8 DEF InOrder
<1>10. ASSUME NEW n \in S
       PROVE  \E k \in 1 .. c : InOrder(S)[k] = n
  <2>1. rank[n] \in 1 .. c
    BY <1>2
  <2> QED
    <3> DEFINE m == InOrder(S)[rank[n]]
    <3>1. m \in S /\ rank[m] = rank[n]
      BY <1>8, <2>1
    <3>2. m = n
      <4> HIDE DEF m
      <4> QED
        BY <1>3, <3>1
    <3> QED
      BY <2>1, <3>2
<1>11. \A j, k \in 1 .. c : InOrder(S)[j] = InOrder(S)[k] => j = k
  BY <1>8
<1> QED
  BY <1>1, <1>9, <1>10, <1>11

\* At(rows, S) has the rows at the indices S, each once.
LEMMA AtIs ==
  ASSUME NEW T, NEW rows \in Seq(T), NEW S \in SUBSET DOMAIN rows
  PROVE  /\ At(rows, S) \in Seq(T)
         /\ InOrder(S) \in [DOMAIN At(rows, S) -> S]
         /\ \A k \in DOMAIN At(rows, S) : At(rows, S)[k] = rows[InOrder(S)[k]]
         /\ \A i \in S : \E k \in DOMAIN At(rows, S) : InOrder(S)[k] = i
         /\ \A j, k \in DOMAIN At(rows, S) : InOrder(S)[j] = InOrder(S)[k] => j = k
<1>1. DOMAIN rows = 1 .. Len(rows) /\ Len(rows) \in Nat
  OBVIOUS
<1> DEFINE c == Cardinality(S)
<1>2. /\ c \in Nat /\ InOrder(S) \in [1 .. c -> S]
      /\ \A n \in S : \E k \in 1 .. c : InOrder(S)[k] = n
      /\ \A j, k \in 1 .. c : InOrder(S)[j] = InOrder(S)[k] => j = k
  BY <1>1, InOrderIs
<1> HIDE DEF c
<1>3. At(rows, S) = [k \in 1 .. c |-> rows[InOrder(S)[k]]]
  BY <1>2 DEF At
<1>4. \A k \in 1 .. c : rows[InOrder(S)[k]] \in T
  BY <1>1, <1>2
<1>5. At(rows, S) \in Seq(T) /\ DOMAIN At(rows, S) = 1 .. c
  BY <1>2, <1>3, <1>4
<1>6. \A k \in 1 .. c : At(rows, S)[k] = rows[InOrder(S)[k]]
  BY <1>3
<1> QED
  BY <1>2, <1>5, <1>6
-----------------------------------------------------------------------------
(* The pairing of findings with rows.                                      *)

Unfolds(g, n, P, base, step) ==
  /\ g \in [0 .. n -> P] /\ g[0] = base
  /\ \A k \in 1 .. n : g[k] = step[<<g[k - 1], k>>]

\* Recursion over the naturals: the function that a base and a step describe exists.
LEMMA Recursion ==
  ASSUME NEW N \in Nat, NEW P, NEW base \in P, NEW step \in [P \X (1 .. N) -> P]
  PROVE  \E g : Unfolds(g, N, P, base, step)
<1> USE DEF Unfolds
<1> DEFINE Run(g, n) == Unfolds(g, n, P, base, step)
           Missing == {n \in 0 .. N : ~\E g : Run(g, n)}
<1>1. CASE Missing = {}
  <2>1. N \in 0 .. N
    OBVIOUS
  <2>2. N \notin Missing
    <3> HIDE DEF Missing
    <3> QED
      BY <1>1
  <2>3. \E g : Run(g, N)
    <3> HIDE DEF Run
    <3> QED
      BY <2>1, <2>2
  <2> QED
    BY <2>3
<1>2. CASE Missing # {}
  <2> DEFINE n == Lowest(Missing)
  <2>1. n \in Missing /\ \A k \in Missing : n <= k
    <3>1. Missing \in SUBSET Nat
      OBVIOUS
    <3> HIDE DEF Missing
    <3> QED
      BY <1>2, <3>1, LowestIs
  <2> HIDE DEF n
  <2>2. n \in 0 .. N /\ ~\E g : Run(g, n)
    BY <2>1
  <2>3. CASE n = 0
    <3>1. Run([k \in 0 .. 0 |-> base], 0)
      OBVIOUS
    <3> QED
      BY <2>2, <2>3, <3>1
  <2>4. CASE n # 0
    <3>1. n - 1 \in 0 .. N /\ n - 1 \notin Missing /\ n \in 1 .. N
      <4>1. n - 1 \in 0 .. N /\ ~(n <= n - 1) /\ n \in 1 .. N
        BY <2>2, <2>4
      <4> HIDE DEF Missing
      <4> QED
        BY <2>1, <4>1
    <3>2. PICK g : Run(g, n - 1)
      BY <3>1
    <3> DEFINE h == [k \in 0 .. n |-> IF k = n THEN step[<<g[n - 1], n>>] ELSE g[k]]
    <3>3. step[<<g[n - 1], n>>] \in P
      BY <3>1, <3>2
    <3>4. h \in [0 .. n -> P] /\ h[0] = base
      BY <3>1, <3>2, <3>3
    <3>5. ASSUME NEW k \in 1 .. n
          PROVE  h[k] = step[<<h[k - 1], k>>]
      <4>1. k - 1 \in 0 .. n /\ k - 1 # n /\ k \in 0 .. n /\ h[k - 1] = g[k - 1]
        BY <3>1
      <4>2. CASE k = n
        BY <4>1, <4>2
      <4>3. CASE k # n
        <5>1. k \in 1 .. (n - 1) /\ h[k] = g[k]
          BY <3>1, <4>1, <4>3
        <5> QED
          BY <3>2, <4>1, <5>1
      <4> QED
        BY <4>2, <4>3
    <3>6. Run(h, n)
      BY <3>4, <3>5
    <3> QED
      BY <2>2, <3>6
  <2> QED
    BY <2>3, <2>4
<1> QED
  BY <1>1, <1>2

\* What the first n findings have taken: one row each, no row twice, of a tier
\* the finding may take and near it.
Paired(pairs, found, rows, prefs, allowed, n) ==
  /\ pairs \in SUBSET ((1 .. n) \X allowed)
  /\ \A p, q \in pairs : p[1] = q[1] \/ p[2] = q[2] => p = q
  /\ \A p \in pairs :
       /\ \E k \in DOMAIN prefs[p[1]] : rows[p[2]].tier = prefs[p[1]][k]
       /\ Matches(rows[p[2]].issue, found[p[1]].issue)

\* One finding more takes one free row at most.
LEMMA TakeKeepsPaired ==
  ASSUME NEW found, NEW rows, NEW prefs, NEW allowed \in SUBSET Nat,
         NEW f \in Nat \ {0}, DOMAIN prefs[f] \in SUBSET Nat,
         NEW pairs, Paired(pairs, found, rows, prefs, allowed, f - 1)
  PROVE  Paired(Take(found, rows, prefs, allowed, pairs, f),
                found, rows, prefs, allowed, f)
<1> DEFINE offers(k) == Free(found, rows, allowed, pairs, f, prefs[f][k])
           tiers == {k \in DOMAIN prefs[f] : offers(k) # {}}
           k0 == Lowest(tiers)
           r0 == Lowest(offers(k0))
<1>0. pairs \in SUBSET ((1 .. f) \X allowed)
  BY DEF Paired
<1>1. CASE tiers = {}
  <2>1. Take(found, rows, prefs, allowed, pairs, f) = pairs
    BY <1>1 DEF Take
  <2> QED
    BY <1>0, <2>1 DEF Paired
<1>2. CASE tiers # {}
  <2>1. Take(found, rows, prefs, allowed, pairs, f) = pairs \cup {<<f, r0>>}
    BY <1>2 DEF Take
  <2>2. k0 \in tiers
    <3>1. tiers \in SUBSET Nat
      OBVIOUS
    <3> HIDE DEF tiers
    <3> QED
      BY <1>2, <3>1, LowestIs
  <2> HIDE DEF k0
  <2>3. k0 \in DOMAIN prefs[f] /\ offers(k0) # {}
    BY <2>2
  <2>4. r0 \in offers(k0)
    <3>1. offers(k0) \in SUBSET Nat
      BY DEF Free
    <3> HIDE DEF offers
    <3> QED
      BY <2>3, <3>1, LowestIs
  <2> HIDE DEF r0
  <2>5. /\ r0 \in allowed /\ \A p \in pairs : p[2] # r0
        /\ rows[r0].tier = prefs[f][k0] /\ Matches(rows[r0].issue, found[f].issue)
    BY <2>4 DEF Free
  <2>6. \A p \in pairs : p[1] # f /\ p = <<p[1], p[2]>>
    BY DEF Paired
  <2>7. pairs \cup {<<f, r0>>} \in SUBSET ((1 .. f) \X allowed)
    BY <1>0, <2>5
  <2>8. \A p, q \in pairs \cup {<<f, r0>>} : p[1] = q[1] \/ p[2] = q[2] => p = q
    BY <2>5, <2>6 DEF Paired
  <2>9. \A p \in pairs \cup {<<f, r0>>} :
          /\ \E k \in DOMAIN prefs[p[1]] : rows[p[2]].tier = prefs[p[1]][k]
          /\ Matches(rows[p[2]].issue, found[p[1]].issue)
    BY <2>3, <2>5 DEF Paired
  <2> QED
    BY <2>1, <2>7, <2>8, <2>9 DEF Paired
<1> QED
  BY <1>1, <1>2

\* What pairInto returns, for findings and rows of any number.
LEMMA PairIntoIs ==
  ASSUME NEW found, Len(found) \in Nat, NEW rows, NEW allowed \in SUBSET Nat, NEW prefs,
         \A f \in 1 .. Len(found) : DOMAIN prefs[f] \in SUBSET Nat
  PROVE  Paired(PairInto(found, rows, prefs, allowed), found, rows, prefs, allowed, Len(found))
<1> DEFINE N == Len(found)
           T(pairs, f) == Take(found, rows, prefs, allowed, pairs, f)
           OK(pairs, n) == Paired(pairs, found, rows, prefs, allowed, n)
           q == CHOOSE p : p = [f \in 0 .. N |-> IF f = 0 THEN {} ELSE T(p[f - 1], f)]
<1>1. PairInto(found, rows, prefs, allowed) = q[N]
  BY DEF PairInto
<1>2. \E p : p = [f \in 0 .. N |-> IF f = 0 THEN {} ELSE T(p[f - 1], f)]
  <2> DEFINE P == SUBSET (Nat \X allowed)
             step == [x \in P \X (1 .. N) |-> T(x[1], x[2])]
  <2>1. ASSUME NEW pairs \in P, NEW f \in 1 .. N
        PROVE  T(pairs, f) \in P
    <3> DEFINE offers(k) == Free(found, rows, allowed, pairs, f, prefs[f][k])
               tiers == {k \in DOMAIN prefs[f] : offers(k) # {}}
    <3>1. CASE tiers = {}
      BY <3>1 DEF Take
    <3>2. CASE tiers # {}
      <4>1. T(pairs, f) = pairs \cup {<<f, Lowest(offers(Lowest(tiers)))>>}
        BY <3>2 DEF Take
      <4>2. Lowest(tiers) \in tiers
        <5>1. tiers \in SUBSET Nat
          OBVIOUS
        <5> HIDE DEF tiers
        <5> QED
          BY <3>2, <5>1, LowestIs
      <4>3. offers(Lowest(tiers)) \in SUBSET allowed /\ offers(Lowest(tiers)) # {}
        BY <4>2 DEF Free
      <4>4. Lowest(offers(Lowest(tiers))) \in allowed
        <5> HIDE DEF offers, tiers
        <5> QED
          BY <4>3, LowestIs
      <4>5. \A r \in allowed : pairs \cup {<<f, r>>} \in P
        OBVIOUS
      <4> HIDE DEF offers, tiers, P, T
      <4> QED
        BY <4>1, <4>4, <4>5
    <3> QED
      BY <3>1, <3>2
  <2>2. step \in [P \X (1 .. N) -> P]
    BY <2>1
  <2>3. PICK g : Unfolds(g, N, P, {}, step)
    <3>1. {} \in P /\ N \in Nat
      OBVIOUS
    <3> HIDE DEF P, step, N
    <3> QED
      BY <2>2, <3>1, Recursion, Zenon
  <2>4. ASSUME NEW n \in 1 .. N
        PROVE  g[n] = T(g[n - 1], n)
    <3>1. g[n - 1] \in P /\ g[n] = step[<<g[n - 1], n>>]
      <4> HIDE DEF P, T, step
      <4> QED
        BY <2>3 DEF Unfolds
    <3> HIDE DEF P, T
    <3> QED
      BY <3>1
  <2>5. g = [f \in 0 .. N |-> IF f = 0 THEN {} ELSE T(g[f - 1], f)]
    <3> HIDE DEF T, P, step
    <3> QED
      BY <2>3, <2>4 DEF Unfolds
  <2> QED
    BY <2>5
<1>3. q = [f \in 0 .. N |-> IF f = 0 THEN {} ELSE T(q[f - 1], f)]
  BY <1>2
<1> HIDE DEF q, T
<1>4. \A f \in 0 .. N : q[f] = IF f = 0 THEN {} ELSE T(q[f - 1], f)
  BY <1>3, Zenon
<1> DEFINE Bad == {n \in 0 .. N : ~OK(q[n], n)}
<1>5. CASE Bad # {}
  <2> DEFINE n == Lowest(Bad)
  <2>1. n \in Bad /\ \A k \in Bad : n <= k
    <3>1. Bad \in SUBSET Nat
      OBVIOUS
    <3> HIDE DEF Bad
    <3> QED
      BY <1>5, <3>1, LowestIs
  <2> HIDE DEF n
  <2>2. n \in 0 .. N /\ ~OK(q[n], n)
    BY <2>1
  <2>3. CASE n = 0
    <3>1. q[0] = {}
      BY <1>4
    <3> QED
      BY <2>2, <2>3, <3>1 DEF Paired
  <2>4. CASE n # 0
    <3>1. n \in 1 .. N /\ n - 1 \in 0 .. N /\ n - 1 \notin Bad
      <4>1. n - 1 \in 0 .. N /\ ~(n <= n - 1) /\ n \in 1 .. N
        BY <2>2, <2>4
      <4> HIDE DEF Bad
      <4> QED
        BY <2>1, <4>1
    <3>2. OK(q[n - 1], n - 1)
      BY <3>1
    <3>3. q[n] = T(q[n - 1], n)
      BY <1>4, <3>1
    <3>4. OK(T(q[n - 1], n), n)
      BY <3>1, <3>2, TakeKeepsPaired DEF T
    <3> QED
      BY <2>2, <3>3, <3>4
  <2> QED
    BY <2>3, <2>4
<1>6. CASE Bad = {}
  BY <1>1, <1>6
<1> QED
  BY <1>5, <1>6

-----------------------------------------------------------------------------
(* The inductive invariant.                                                *)

StatusRow == [id : 1 .. MaxId, sev : Severities \cup {Unrecoverable}, tier : Tiers,
              issue : Issues, status : Live]
DocType == [issue : Issues, sev : Severities, tier : {"blocking", "advisory"},
            demoted : BOOLEAN, shown : BOOLEAN]
SettledType == [status : Live \cup Held \cup {"queued", "verified-gone", "ci-dismissed"},
                held : Held \cup {"none"}]

Distinct(rows) == \A i, j \in DOMAIN rows : rows[i].id = rows[j].id => i = j

\* Every id ever issued is at most the mark of a block; the markers, which carry
\* no mark, still have the row with the highest id.
BlockInv ==
  /\ block \in [written : BOOLEAN, rows : Seq(RowType), hw : 0 .. MaxId]
  /\ Distinct(block.rows)
  /\ issued \in 0 .. MaxId
  /\ block.written => /\ issued <= block.hw
                      /\ \A i \in DOMAIN block.rows : block.rows[i].id <= block.hw
  /\ ~block.written => issued \in Ids(block.rows) \cup {0}

\* Until its first post, a review has every row of the block in live, with the
\* tier it had, or among the retired.
Remembered ==
  \A i \in DOMAIN block.rows :
    \/ block.rows[i].id \in run.retired
    \/ \E k \in DOMAIN run.live : /\ run.live[k].id = block.rows[i].id
                                  /\ run.live[k].tier = block.rows[i].tier

CountedInv ==
  /\ DOMAIN run = {"phase", "sameHead", "posted", "live", "retired", "worsened",
                   "released", "count", "demoted", "gone", "fresh"}
  /\ run.live \in Seq(StatusRow) /\ Distinct(run.live)
  /\ run.retired \in SUBSET (1 .. MaxId)
  /\ run.retired \subseteq run.gone \cup run.worsened
  /\ run.fresh \in Seq(DocType)
  /\ run.posted \in BOOLEAN
  /\ run.posted => run.sameHead
  /\ ~run.posted => Remembered

RunInv ==
  /\ run.phase \in {"idle", "classified", "counted"}
  /\ run.phase # "idle" => run.sameHead \in BOOLEAN /\ (run.sameHead => block.written)
  /\ run.phase = "classified" => run.settled \in [DOMAIN block.rows -> SettledType]
  /\ run.phase = "counted" => CountedInv

RereviewInv == BlockInv /\ RunInv

\* The bounds are numbers.
LEMMA BoundsAreNat == {MaxSurvivors, MaxPriors, MaxVerify, MaxId} \subseteq Nat
  BY RereviewAssumption

\* The inductive invariant implies the type invariant.
LEMMA InvImpliesType == RereviewInv => TypeOK
<1> SUFFICES ASSUME RereviewInv PROVE TypeOK
  OBVIOUS
<1>1. /\ block.written \in BOOLEAN /\ block.hw \in 0 .. MaxId
      /\ \A i \in DOMAIN block.rows :
           /\ block.rows[i] \in RowType
           /\ block.written => block.rows[i].id <= block.hw
           /\ \A j \in DOMAIN block.rows : block.rows[i].id = block.rows[j].id => i = j
  BY DEF RereviewInv, BlockInv, Distinct
<1>2. ASSUME run.phase = "classified", NEW i \in DOMAIN block.rows
      PROVE  /\ run.settled[i].status \in
                  Live \cup Held \cup {"queued", "verified-gone", "ci-dismissed"}
             /\ run.settled[i].held \in Held \cup {"none"}
  BY <1>2 DEF RereviewInv, RunInv, SettledType
<1>3. ASSUME run.phase = "counted", NEW i \in DOMAIN run.live
      PROVE  run.live[i].status \in Live /\ run.live[i].id \in 1 .. MaxId
  <2>1. run.live \in Seq(StatusRow)
    BY <1>3 DEF RereviewInv, RunInv, CountedInv
  <2>2. run.live[i] \in StatusRow
    BY <2>1
  <2> QED
    BY <2>2 DEF StatusRow
<1> QED
  BY <1>1, <1>2, <1>3 DEF RereviewInv, BlockInv, RunInv, TypeOK

\* A PR without a state block has the invariant.
LEMMA InvInit == Init => RereviewInv
<1> SUFFICES ASSUME Init PROVE RereviewInv
  OBVIOUS
<1>1. PICK m \in Markers :
        /\ block = [written |-> FALSE, hw |-> 0,
                    rows |-> [i \in DOMAIN m |-> [id |-> i, sev |-> m[i].sev,
                                                  tier |-> m[i].tier,
                                                  issue |-> m[i].issue]]]
        /\ issued = Len(m)
  BY DEF Init
<1>2. /\ m \in Seq([issue : Issues, sev : Severities \cup {Unrecoverable}, tier : Tiers])
      /\ Len(m) <= MaxId
  BY RereviewAssumption
<1>3. DOMAIN m = 1 .. Len(m) /\ Len(m) \in Nat
  BY <1>2
<1>4. MaxId \in Nat
  BY BoundsAreNat
<1>5. ASSUME NEW i \in 1 .. Len(m)
      PROVE  [id |-> i, sev |-> m[i].sev, tier |-> m[i].tier, issue |-> m[i].issue] \in RowType
  <2> DEFINE MarkerType == [issue : Issues, sev : Severities \cup {Unrecoverable}, tier : Tiers]
  <2>1. m[i] \in MarkerType
    <3>1. m \in Seq(MarkerType) /\ i \in 1 .. Len(m)
      BY <1>2
    <3> HIDE DEF MarkerType
    <3> QED
      BY <3>1
  <2>2. i \in 1 .. MaxId
    <3>1. i <= Len(m) /\ i \in Nat /\ 1 <= i
      BY <1>3
    <3> QED
      BY <1>2, <1>3, <1>4, <3>1
  <2> QED
    BY <2>1, <2>2 DEF RowType
<1>6. block.rows \in Seq(RowType) /\ DOMAIN block.rows = 1 .. Len(m)
  BY <1>1, <1>3, <1>5
<1>7. \A i \in DOMAIN block.rows : block.rows[i].id = i
  BY <1>1, <1>3
<1>8. issued \in Ids(block.rows) \cup {0}
  <2>1. CASE Len(m) = 0
    BY <1>1, <2>1
  <2>2. CASE Len(m) # 0
    <3>1. Len(m) \in DOMAIN block.rows
      BY <1>3, <1>6, <2>2
    <3> QED
      BY <1>1, <1>7, <3>1 DEF Ids
  <2> QED
    BY <2>1, <2>2
<1>9. BlockInv
  BY <1>1, <1>2, <1>3, <1>4, <1>6, <1>7, <1>8 DEF BlockInv, Distinct
<1>10. RunInv
  BY DEF Init, NoRun, RunInv
<1> QED
  BY <1>9, <1>10 DEF RereviewInv

\* The end of a review keeps the invariant.
LEMMA EndReviewKeeps == RereviewInv /\ EndReview => RereviewInv'
  BY DEF RereviewInv, BlockInv, Distinct, RunInv, EndReview, NoRun, Ids

\* A classified prior has a status and a hold.
LEMMA ClassifyPriorIs ==
  ASSUME NEW row, NEW d, NEW tag
  PROVE  ClassifyPrior(row, d, tag) \in SettledType
<1>1. HeldBy(tag) \in Held \cup {"none"}
  BY DEF HeldBy, Held
<1> QED
  BY <1>1 DEF ClassifyPrior, SettledType, Live, Held

\* The classification keeps the invariant.
LEMMA ClassifyKeeps == RereviewInv /\ Classify => RereviewInv'
<1> SUFFICES ASSUME RereviewInv, Classify PROVE RereviewInv'
  OBVIOUS
<1>1. PICK d \in Pushes, triage \in TriageOf(block.rows) : \E hunts \in Hunts(d) :
        run' = [phase |-> "classified", hunts |-> hunts,
                sameHead |-> d.case = "B" /\ block.written,
                settled |-> [i \in DOMAIN block.rows |->
                               ClassifyPrior(block.rows[i], d, triage[i])]]
  BY DEF Classify
<1>2. UNCHANGED <<block, issued>>
  BY DEF Classify
<1>3. run'.phase = "classified" /\ run'.sameHead = (d.case = "B" /\ block.written)
  BY <1>1
<1>4. run'.settled = [i \in DOMAIN block.rows |-> ClassifyPrior(block.rows[i], d, triage[i])]
  BY <1>1
<1>5. run'.settled \in [DOMAIN block.rows -> SettledType]
  BY <1>4, ClassifyPriorIs
<1>6. BlockInv'
  BY <1>2 DEF RereviewInv, BlockInv, Distinct, Ids
<1>7. RunInv'
  BY <1>2, <1>3, <1>5 DEF RereviewInv, BlockInv, RunInv
<1> QED
  BY <1>6, <1>7 DEF RereviewInv

-----------------------------------------------------------------------------
(* The pipeline: what a review keeps of the block until its post.          *)

Verdicts == {"verified-gone", "carried", "unconfirmed"}
Ended == Live \cup Held \cup {"verified-gone", "ci-dismissed"}

\* The status a prior ends with, worsened or not.
LEMMA FinalStatusIs ==
  ASSUME NEW settled \in SettledType, NEW verdict \in Verdicts
  PROVE  /\ FinalStatus(settled, verdict) \in Ended
         /\ Worsen(settled) \in SettledType
         /\ FinalStatus(settled, verdict) = "returned" => Rejected(settled)
         /\ FinalStatus(settled, verdict) = "verified-gone" =>
              "verified-gone" \in {settled.status, verdict}
         /\ FinalStatus(Worsen(settled), verdict) = "verified-gone" =>
              "verified-gone" \in {settled.status, verdict}
         /\ FinalStatus(settled, verdict) = "ci-dismissed" => settled.status = "ci-dismissed"
         /\ FinalStatus(Worsen(settled), verdict) # "ci-dismissed"
<1>1. settled.status \in Live \cup Held \cup {"queued", "verified-gone", "ci-dismissed"}
  BY DEF SettledType
<1>2. settled.held \in Held \cup {"none"}
  BY DEF SettledType
<1>3. Worsen(settled) \in SettledType
  BY DEF SettledType, Worsen, Held
<1>4. /\ settled.status = "queued" =>
           Worsen(settled).status = "queued" /\ Worsen(settled).held = "returned"
      /\ settled.status # "queued" => Worsen(settled).status = "returned"
  BY DEF SettledType, Worsen
<1>5. FinalStatus(settled, verdict) \in Ended
  BY <1>1, <1>2 DEF FinalStatus, Ended, Verdicts, Live, Held
<1>6. FinalStatus(settled, verdict) = "returned" => Rejected(settled)
  BY <1>1, <1>2 DEF FinalStatus, Rejected, Verdicts
<1>7. /\ FinalStatus(settled, verdict) = "verified-gone" =>
           "verified-gone" \in {settled.status, verdict}
      /\ FinalStatus(settled, verdict) = "ci-dismissed" => settled.status = "ci-dismissed"
  BY <1>1, <1>2 DEF FinalStatus, Verdicts, Held
<1>8. /\ FinalStatus(Worsen(settled), verdict) = "verified-gone" =>
           "verified-gone" \in {settled.status, verdict}
      /\ FinalStatus(Worsen(settled), verdict) # "ci-dismissed"
  BY <1>4 DEF FinalStatus, Verdicts
<1> QED
  BY <1>3, <1>5, <1>6, <1>7, <1>8

\* What the state block keeps of an ended prior.
LEMMA PersistedIs ==
  ASSUME NEW status \in Ended, NEW rejected \in BOOLEAN
  PROVE  /\ Persisted(status, rejected) \in Live \cup {"dropped"}
         /\ Persisted(status, rejected) = "dropped" =>
              status = "verified-gone" \/ (status = "returned" /\ ~rejected)
<1>1. CASE status = "returned"
  BY <1>1 DEF Persisted, Live
<1>2. CASE status = "ci-dismissed"
  <2>1. Persisted(status, rejected) = "suppressed"
    BY <1>2 DEF Persisted
  <2> QED
    BY <2>1 DEF Live
<1>3. CASE status = "re-tiered"
  <2>1. Persisted(status, rejected) = "carried"
    BY <1>3 DEF Persisted
  <2> QED
    BY <2>1 DEF Live
<1>4. CASE status = "verified-gone"
  <2>1. Persisted(status, rejected) = "dropped"
    BY <1>4 DEF Persisted
  <2> QED
    BY <1>4, <2>1
<1>5. CASE status \in Live
  <2>1. Persisted(status, rejected) = status
    BY <1>5 DEF Persisted, Live
  <2> QED
    BY <1>5, <2>1 DEF Live
<1> QED
  BY <1>1, <1>2, <1>5, <1>3, <1>4 DEF Ended, Live, Held

\* A prior leaves the block for good only if it was worsened or verified gone.
LEMMA KeptIs ==
  ASSUME NEW n, NEW settled \in [n -> SettledType], NEW worsened \in SUBSET n,
         NEW verdict \in [n -> Verdicts], NEW i \in n
  PROVE  LET status == Statuses(settled, worsened, verdict)
         IN /\ DOMAIN status = n /\ status[i] \in Ended
            /\ DOMAIN Kept(settled, status) = n
            /\ Kept(settled, status)[i] \in Live \cup {"dropped"}
            /\ Kept(settled, status)[i] = "dropped" =>
                 i \in worsened \/ status[i] = "verified-gone"
            /\ status[i] = "verified-gone" => "verified-gone" \in {settled[i].status, verdict[i]}
            /\ status[i] = "ci-dismissed" => settled[i].status = "ci-dismissed"
<1> DEFINE status == Statuses(settled, worsened, verdict)
<1>1. settled[i] \in SettledType /\ verdict[i] \in Verdicts
  OBVIOUS
<1>2. DOMAIN status = n /\ DOMAIN Kept(settled, status) = n
  BY DEF Statuses, Kept
<1>3. status[i] =
        FinalStatus(IF i \in worsened THEN Worsen(settled[i]) ELSE settled[i], verdict[i])
  BY DEF Statuses
<1>4. Worsen(settled[i]) \in SettledType
  BY <1>1, FinalStatusIs
<1>5. /\ status[i] \in Ended
      /\ i \notin worsened /\ status[i] = "returned" => Rejected(settled[i])
      /\ status[i] = "verified-gone" => "verified-gone" \in {settled[i].status, verdict[i]}
      /\ status[i] = "ci-dismissed" => settled[i].status = "ci-dismissed"
  <2>1. CASE i \in worsened
    <3>1. status[i] = FinalStatus(Worsen(settled[i]), verdict[i])
      BY <1>3, <2>1
    <3>2. FinalStatus(Worsen(settled[i]), verdict[i]) \in Ended
      BY <1>1, <1>4, FinalStatusIs
    <3>3. /\ FinalStatus(Worsen(settled[i]), verdict[i]) = "verified-gone" =>
               "verified-gone" \in {settled[i].status, verdict[i]}
          /\ FinalStatus(Worsen(settled[i]), verdict[i]) # "ci-dismissed"
      BY <1>1, FinalStatusIs
    <3> HIDE DEF status
    <3> QED
      BY <2>1, <3>1, <3>2, <3>3
  <2>2. CASE i \notin worsened
    <3>1. status[i] = FinalStatus(settled[i], verdict[i])
      BY <1>3, <2>2
    <3> QED
      BY <1>1, <3>1, FinalStatusIs
  <2> QED
    BY <2>1, <2>2
<1>6. Kept(settled, status)[i] = Persisted(status[i], Rejected(settled[i]))
  BY DEF Kept
<1>7. Rejected(settled[i]) \in BOOLEAN
  BY DEF Rejected
<1> HIDE DEF status
<1>8. /\ Kept(settled, status)[i] \in Live \cup {"dropped"}
      /\ Kept(settled, status)[i] = "dropped" =>
           i \in worsened \/ status[i] = "verified-gone"
  BY <1>5, <1>6, <1>7, PersistedIs
<1> QED
  BY <1>2, <1>5, <1>8 DEF status

\* The live rows are the priors that are kept, each with its id and tier.
LEMMA LiveRowsAre ==
  ASSUME NEW rows \in Seq(RowType), Distinct(rows),
         NEW kept \in [DOMAIN rows -> Live \cup {"dropped"}]
  PROVE  /\ LiveRows(rows, kept) \in Seq(StatusRow)
         /\ Distinct(LiveRows(rows, kept))
         /\ \A i \in DOMAIN rows : kept[i] # "dropped" =>
              \E k \in DOMAIN LiveRows(rows, kept) :
                /\ LiveRows(rows, kept)[k].id = rows[i].id
                /\ LiveRows(rows, kept)[k].tier = rows[i].tier
<1> DEFINE all == [i \in DOMAIN rows |-> WithStatus(rows[i], kept[i])]
           live == {i \in DOMAIN rows : kept[i] # "dropped"}
           AnyRow == {all[i] : i \in DOMAIN rows}
           L == LiveRows(rows, kept)
<1>1. DOMAIN rows = 1 .. Len(rows) /\ Len(rows) \in Nat
  OBVIOUS
<1>2. all \in Seq(AnyRow) /\ DOMAIN all = DOMAIN rows /\ live \in SUBSET DOMAIN all
  BY <1>1
<1>3. L = At(all, live)
  BY DEF LiveRows
<1>4. ASSUME NEW i \in live
      PROVE  /\ all[i] \in StatusRow /\ all[i].id = rows[i].id
             /\ all[i].tier = rows[i].tier
  <2>1. rows[i] \in RowType
    OBVIOUS
  <2> QED
    BY <2>1 DEF RowType, StatusRow, WithStatus
<1> HIDE DEF all, live, AnyRow, L
<1>5. /\ L \in Seq(AnyRow)
      /\ InOrder(live) \in [DOMAIN L -> live]
      /\ \A k \in DOMAIN L : L[k] = all[InOrder(live)[k]]
      /\ \A i \in live : \E k \in DOMAIN L : InOrder(live)[k] = i
      /\ \A j, k \in DOMAIN L : InOrder(live)[j] = InOrder(live)[k] => j = k
  BY <1>2, <1>3, AtIs
<1>6. L \in Seq(StatusRow)
  <2>1. \A k \in DOMAIN L : L[k] \in StatusRow
    BY <1>4, <1>5
  <2> QED
    BY <1>5, <2>1
<1>7. Distinct(L)
  <2> SUFFICES ASSUME NEW j \in DOMAIN L, NEW k \in DOMAIN L, L[j].id = L[k].id
               PROVE  j = k
    BY DEF Distinct
  <2>1. InOrder(live)[j] \in DOMAIN rows /\ InOrder(live)[k] \in DOMAIN rows
    BY <1>5 DEF live
  <2>2. rows[InOrder(live)[j]].id = rows[InOrder(live)[k]].id
    BY <1>4, <1>5
  <2> QED
    BY <1>5, <2>1, <2>2 DEF Distinct
<1>8. \A i \in DOMAIN rows : kept[i] # "dropped" =>
        \E k \in DOMAIN L : L[k].id = rows[i].id /\ L[k].tier = rows[i].tier
  <2> SUFFICES ASSUME NEW i \in DOMAIN rows, kept[i] # "dropped"
               PROVE  \E k \in DOMAIN L : L[k].id = rows[i].id /\ L[k].tier = rows[i].tier
    OBVIOUS
  <2>1. i \in live
    BY DEF live
  <2>2. PICK k \in DOMAIN L : InOrder(live)[k] = i
    BY <1>5, <2>1
  <2> QED
    BY <1>4, <1>5, <2>1, <2>2
<1> QED
  BY <1>6, <1>7, <1>8 DEF L

\* The lists of findings are sequences.
LEMMA SurvivorsAre ==
  ASSUME NEW found \in SurvivorLists \cup {<<>>}
  PROVE  found \in Seq(SurvivorType)
<1>1. CASE found = <<>>
  BY <1>1
<1>2. CASE found # <<>>
  <2>1. PICK m \in 0 .. MaxSurvivors : found \in [1 .. m -> SurvivorType]
    BY <1>2 DEF SurvivorLists, BoundedSeq, SeqOf
  <2> QED
    BY <2>1
<1> QED
  BY <1>1, <1>2

\* The findings of the document have their types.
LEMMA DocumentIs ==
  ASSUME NEW found \in Seq(SurvivorType)
  PROVE  Document(found) \in Seq(DocType)
<1> DEFINE S == {i \in DOMAIN found : found[i].kind.tier # "refuted"}
           kept == At(found, S)
<1>1. S \in SUBSET DOMAIN found
  OBVIOUS
<1>2. ASSUME NEW f \in SurvivorType, f.kind.tier # "refuted"
      PROVE  Finding(f) \in DocType
  <2>1. f.issue \in Issues /\ f.kind \in KindType
    BY RereviewAssumption DEF SurvivorType
  <2> QED
    BY <1>2, <2>1 DEF KindType, DocType, Finding
<1> HIDE DEF S
<1>3. /\ kept \in Seq(SurvivorType) /\ InOrder(S) \in [DOMAIN kept -> S]
      /\ \A k \in DOMAIN kept : kept[k] = found[InOrder(S)[k]]
  BY <1>1, AtIs
<1> HIDE DEF kept
<1>4. \A k \in DOMAIN kept : kept[k] \in SurvivorType /\ kept[k].kind.tier # "refuted"
  BY <1>3 DEF S
<1>5. Document(found) = [i \in DOMAIN kept |-> Finding(kept[i])]
  BY DEF Document, kept, S
<1>6. DOMAIN kept = 1 .. Len(kept) /\ Len(kept) \in Nat
  BY <1>3
<1> QED
  BY <1>2, <1>4, <1>5, <1>6

\* Whatever is found, worsened and ruled, the counted review remembers every row.
LEMMA CountedKeeps ==
  ASSUME RereviewInv, run.phase = "classified", NEW found \in Seq(SurvivorType),
         NEW worsened \in SUBSET DOMAIN block.rows,
         NEW verdict \in [DOMAIN block.rows -> Verdicts],
         run' = Counted(found, worsened, verdict), UNCHANGED <<block, issued>>
  PROVE  RereviewInv'
<1> DEFINE rows == block.rows
           n == DOMAIN rows
           status == Statuses(run.settled, worsened, verdict)
           kept == Kept(run.settled, status)
           L == LiveRows(rows, kept)
           doc == Document(found)
           shown == {f \in DOMAIN doc : doc[f].shown}
           retired == {rows[i].id : i \in {j \in n : j \in worsened \/ status[j] = "verified-gone"}}
           gone == {rows[i].id : i \in {j \in n :
                      "verified-gone" \in {run.settled[j].status, verdict[j]}}}
<1>1. /\ rows \in Seq(RowType) /\ Distinct(rows)
      /\ run.settled \in [n -> SettledType]
      /\ run.sameHead \in BOOLEAN /\ (run.sameHead => block.written)
  BY DEF RereviewInv, BlockInv, RunInv
<1>2. /\ run'.phase = "counted" /\ run'.sameHead = run.sameHead /\ run'.posted = FALSE
      /\ run'.live = L /\ run'.retired = retired /\ run'.gone = gone
      /\ run'.worsened = {rows[i].id : i \in worsened}
      /\ run'.fresh = At(doc, shown)
  BY DEF Counted
<1>3. DOMAIN run' = {"phase", "sameHead", "posted", "live", "retired", "worsened",
                     "released", "count", "demoted", "gone", "fresh"}
  BY DEF Counted
<1>4. ASSUME NEW i \in n
      PROVE  /\ kept[i] \in Live \cup {"dropped"}
             /\ kept[i] = "dropped" => i \in worsened \/ status[i] = "verified-gone"
             /\ status[i] = "verified-gone" =>
                  "verified-gone" \in {run.settled[i].status, verdict[i]}
  <2> HIDE DEF n
  <2> QED
    BY <1>1, <1>4, KeptIs DEF n
<1> HIDE DEF status, kept, L, doc
<1>5. /\ L \in Seq(StatusRow) /\ Distinct(L)
      /\ \A i \in n : kept[i] # "dropped" =>
           \E k \in DOMAIN L : L[k].id = rows[i].id /\ L[k].tier = rows[i].tier
  <2>1. kept \in [DOMAIN rows -> Live \cup {"dropped"}]
    <3>1. kept = [i \in n |-> Persisted(status[i], Rejected(run.settled[i]))]
      BY <1>1 DEF kept, Kept
    <3> QED
      BY <1>4, <3>1
  <2>2. /\ LiveRows(rows, kept) \in Seq(StatusRow)
        /\ Distinct(LiveRows(rows, kept))
        /\ \A i \in DOMAIN rows : kept[i] # "dropped" =>
             \E k \in DOMAIN LiveRows(rows, kept) :
               /\ LiveRows(rows, kept)[k].id = rows[i].id
               /\ LiveRows(rows, kept)[k].tier = rows[i].tier
    <3> HIDE DEF rows
    <3> QED
      BY <1>1, <2>1, LiveRowsAre
  <2> QED
    BY <2>2 DEF L
<1>6. \A i \in n : rows[i] \in RowType
  BY <1>1
<1>7. retired \in SUBSET (1 .. MaxId)
  BY <1>6 DEF RowType
<1>8. retired \subseteq gone \cup run'.worsened
  BY <1>2, <1>4
<1>9. run'.fresh \in Seq(DocType)
  <2>1. doc \in Seq(DocType)
    BY DocumentIs DEF doc
  <2>2. shown \in SUBSET DOMAIN doc
    OBVIOUS
  <2> HIDE DEF shown
  <2> QED
    BY <1>2, <2>1, <2>2, AtIs
<1>10. \A i \in n : \/ rows[i].id \in retired
                    \/ \E k \in DOMAIN L : L[k].id = rows[i].id /\ L[k].tier = rows[i].tier
  <2> SUFFICES ASSUME NEW i \in n, kept[i] = "dropped"
               PROVE  rows[i].id \in retired
    BY <1>5
  <2>1. i \in worsened \/ status[i] = "verified-gone"
    BY <1>4
  <2> QED
    BY <2>1
<1> HIDE DEF retired, gone, shown
<1>11. Remembered'
  BY <1>2, <1>10 DEF Remembered
<1>12. CountedInv'
  BY <1>2, <1>3, <1>5, <1>7, <1>8, <1>9, <1>11 DEF CountedInv, Distinct
<1>13. BlockInv'
  BY DEF RereviewInv, BlockInv, Distinct, Ids
<1>14. RunInv'
  BY <1>1, <1>2, <1>12 DEF RunInv
<1> QED
  BY <1>13, <1>14 DEF RereviewInv

\* What Pipeline takes for worsened and verified.
LEMMA PipelineCounts ==
  ASSUME Pipeline
  PROVE  \E found \in Seq(SurvivorType), worsened \in SUBSET DOMAIN block.rows,
            verdict \in [DOMAIN block.rows -> Verdicts] :
           run' = Counted(found, worsened, verdict)
<1>1. PICK found \in IF run.hunts THEN SurvivorLists ELSE {<<>>}, cut \in BOOLEAN :
        LET rows == block.rows
            worsened == IF cut THEN {} ELSE
              {i \in DOMAIN rows : IsWorsened(rows[i], run.settled[i], found)}
            verified == IF cut THEN {} ELSE Verified(rows, run.settled, found)
        IN \E outcome \in [verified -> {"verified-gone", "carried", "unconfirmed"}] :
             run' = Counted(found, worsened,
                            [i \in DOMAIN rows |->
                               IF i \in verified THEN outcome[i] ELSE "unconfirmed"])
  BY DEF Pipeline
<1> DEFINE worsened == IF cut THEN {} ELSE
             {i \in DOMAIN block.rows : IsWorsened(block.rows[i], run.settled[i], found)}
           verified == IF cut THEN {} ELSE Verified(block.rows, run.settled, found)
<1>2. PICK outcome \in [verified -> Verdicts] :
        run' = Counted(found, worsened,
                       [i \in DOMAIN block.rows |->
                          IF i \in verified THEN outcome[i] ELSE "unconfirmed"])
  BY <1>1 DEF Verdicts
<1> DEFINE verdict == [i \in DOMAIN block.rows |->
                         IF i \in verified THEN outcome[i] ELSE "unconfirmed"]
<1>3. found \in Seq(SurvivorType)
  <2>1. found \in SurvivorLists \cup {<<>>}
    BY <1>1
  <2> QED
    BY <2>1, SurvivorsAre
<1>4. worsened \in SUBSET DOMAIN block.rows
  OBVIOUS
<1> HIDE DEF verified, worsened
<1>5. verdict \in [DOMAIN block.rows -> Verdicts]
  BY DEF Verdicts
<1> HIDE DEF verdict
<1> QED
  BY <1>2, <1>3, <1>4, <1>5 DEF verdict

\* The pipeline keeps the invariant.
LEMMA PipelineKeeps == RereviewInv /\ Pipeline => RereviewInv'
<1> SUFFICES ASSUME RereviewInv, Pipeline PROVE RereviewInv'
  OBVIOUS
<1>1. run.phase = "classified" /\ UNCHANGED <<block, issued>>
  BY DEF Pipeline
<1>2. PICK found \in Seq(SurvivorType), worsened \in SUBSET DOMAIN block.rows,
           verdict \in [DOMAIN block.rows -> Verdicts] :
        run' = Counted(found, worsened, verdict)
  BY PipelineCounts
<1> QED
  BY <1>1, <1>2, CountedKeeps

-----------------------------------------------------------------------------
(* The post: the rows a merge starts from.                                 *)

\* The parts of a concatenation.
LEMMA JoinIs ==
  ASSUME NEW T, NEW s \in Seq(T), NEW t \in Seq(T)
  PROVE  /\ s \o t \in Seq(T)
         /\ \A i \in DOMAIN s : i \in DOMAIN (s \o t) /\ (s \o t)[i] = s[i]
         /\ \A j \in DOMAIN t : Len(s) + j \in DOMAIN (s \o t) /\ (s \o t)[Len(s) + j] = t[j]
         /\ \A k \in DOMAIN (s \o t) :
              k \in DOMAIN s \/ (k - Len(s) \in DOMAIN t /\ (s \o t)[k] = t[k - Len(s)])
<1>1. /\ DOMAIN s = 1 .. Len(s) /\ DOMAIN t = 1 .. Len(t)
      /\ Len(s) \in Nat /\ Len(t) \in Nat
  OBVIOUS
<1>2. /\ s \o t \in Seq(T) /\ DOMAIN (s \o t) = 1 .. (Len(s) + Len(t))
      /\ \A i \in 1 .. (Len(s) + Len(t)) :
           (s \o t)[i] = IF i <= Len(s) THEN s[i] ELSE t[i - Len(s)]
  OBVIOUS
<1>3. \A i \in DOMAIN s : i \in DOMAIN (s \o t) /\ (s \o t)[i] = s[i]
  BY <1>1, <1>2
<1>4. ASSUME NEW j \in DOMAIN t
      PROVE  Len(s) + j \in DOMAIN (s \o t) /\ (s \o t)[Len(s) + j] = t[j]
  <2>1. /\ Len(s) + j \in 1 .. (Len(s) + Len(t)) /\ ~(Len(s) + j <= Len(s))
        /\ (Len(s) + j) - Len(s) = j
    BY <1>1
  <2> QED
    BY <1>2, <2>1
<1>5. ASSUME NEW k \in DOMAIN (s \o t)
      PROVE  k \in DOMAIN s \/ (k - Len(s) \in DOMAIN t /\ (s \o t)[k] = t[k - Len(s)])
  <2>1. k \in 1 .. Len(s) \/ (~(k <= Len(s)) /\ k - Len(s) \in 1 .. Len(t))
    BY <1>1, <1>2
  <2> QED
    BY <1>1, <1>2, <2>1
<1> QED
  BY <1>2, <1>3, <1>4, <1>5

\* Two lists that share no id make one where no id is repeated.
LEMMA DistinctJoin ==
  ASSUME NEW T, NEW s \in Seq(T), NEW t \in Seq(T), Distinct(s), Distinct(t),
         \A i \in DOMAIN s : \A j \in DOMAIN t : s[i].id # t[j].id
  PROVE  Distinct(s \o t)
<1> SUFFICES ASSUME NEW i \in DOMAIN (s \o t), NEW j \in DOMAIN (s \o t),
                    (s \o t)[i].id = (s \o t)[j].id
             PROVE  i = j
  BY DEF Distinct
<1>1. /\ i \in DOMAIN s => (s \o t)[i] = s[i]
      /\ j \in DOMAIN s => (s \o t)[j] = s[j]
      /\ i \in DOMAIN s \/ (i - Len(s) \in DOMAIN t /\ (s \o t)[i] = t[i - Len(s)])
      /\ j \in DOMAIN s \/ (j - Len(s) \in DOMAIN t /\ (s \o t)[j] = t[j - Len(s)])
  BY JoinIs
<1>2. i \in Int /\ j \in Int /\ Len(s) \in Int
  <2>1. DOMAIN (s \o t) = 1 .. Len(s \o t) /\ Len(s \o t) \in Nat
    OBVIOUS
  <2> QED
    BY <2>1
<1>3. CASE i \in DOMAIN s /\ j \in DOMAIN s
  BY <1>1, <1>3 DEF Distinct
<1>4. CASE i \notin DOMAIN s /\ j \notin DOMAIN s
  <2>1. i - Len(s) = j - Len(s)
    BY <1>1, <1>4 DEF Distinct
  <2> QED
    BY <1>2, <2>1
<1>5. CASE i \in DOMAIN s /\ j \notin DOMAIN s
  BY <1>1, <1>5
<1>6. CASE i \notin DOMAIN s /\ j \in DOMAIN s
  BY <1>1, <1>6
<1> QED
  BY <1>3, <1>4, <1>5, <1>6

\* The mark is not below any id in sight, nor below any id ever issued.
LEMMA MarkIs ==
  ASSUME RereviewInv, run.phase = "counted"
  PROVE  /\ Mark \in 0 .. MaxId
         /\ \A id \in run.retired \cup Ids(run.live) : id <= Mark
         /\ block.written => \A i \in DOMAIN block.rows : block.rows[i].id <= Mark
         /\ issued <= Mark
<1> DEFINE S == {0} \cup run.retired \cup Ids(run.live)
                 \cup (IF block.written THEN {block.hw} \cup Ids(block.rows) ELSE {})
<1>1. /\ block.hw \in 0 .. MaxId /\ block.rows \in Seq(RowType)
      /\ run.live \in Seq(StatusRow) /\ run.retired \in SUBSET (1 .. MaxId)
      /\ MaxId \in Nat
  BY BoundsAreNat DEF RereviewInv, BlockInv, RunInv, CountedInv
<1>2. Ids(run.live) \in SUBSET (1 .. MaxId)
  <2>1. \A k \in DOMAIN run.live : run.live[k] \in StatusRow
    BY <1>1
  <2> QED
    BY <2>1 DEF Ids, StatusRow
<1>3. Ids(block.rows) \in SUBSET (1 .. MaxId)
  <2>1. \A k \in DOMAIN block.rows : block.rows[k] \in RowType
    BY <1>1
  <2> QED
    BY <2>1 DEF Ids, RowType
<1>4. S \in SUBSET (0 .. MaxId) /\ S # {}
  BY <1>1, <1>2, <1>3
<1> HIDE DEF S
<1>5. Highest(S) \in S /\ \A n \in S : n <= Highest(S)
  BY <1>1, <1>4, HighestIs
<1>6. Mark = Highest(S)
  BY DEF Mark, S
<1>7. Mark \in 0 .. MaxId /\ \A n \in S : n <= Mark
  BY <1>4, <1>5, <1>6
<1>8. \A id \in run.retired \cup Ids(run.live) : id <= Mark
  BY <1>7 DEF S
<1>9. CASE block.written
  <2>1. block.hw \in S /\ Ids(block.rows) \subseteq S
    BY <1>9 DEF S
  <2>2. issued <= block.hw /\ issued \in 0 .. MaxId
    BY <1>9 DEF RereviewInv, BlockInv
  <2>3. block.hw <= Mark
    BY <1>7, <2>1
  <2>4. \A i \in DOMAIN block.rows : block.rows[i].id <= Mark
    BY <1>7, <2>1 DEF Ids
  <2>5. issued <= Mark
    BY <1>1, <1>7, <2>2, <2>3
  <2> QED
    BY <1>7, <1>8, <2>4, <2>5
<1>10. CASE ~block.written
  <2>1. ~run.posted /\ Remembered
    BY <1>10 DEF RereviewInv, RunInv, CountedInv
  <2>2. issued \in Ids(block.rows) \cup {0}
    BY <1>10 DEF RereviewInv, BlockInv
  <2>3. Ids(block.rows) \subseteq run.retired \cup Ids(run.live)
    BY <2>1 DEF Remembered, Ids
  <2>4. issued \in S
    BY <2>2, <2>3 DEF S
  <2> QED
    BY <1>7, <1>8, <1>10, <2>4
<1> QED
  BY <1>9, <1>10

Others == At(block.rows, {i \in DOMAIN block.rows :
                            block.rows[i].id \notin Ids(run.live) \cup run.retired})
Again == IF run.sameHead
           THEN [i \in DOMAIN Others |-> WithStatus(Others[i], "unconfirmed")] ELSE <<>>

\* The rows of the block that a re-post adds: none of them in live or retired.
LEMMA AgainIs ==
  ASSUME RereviewInv, run.phase = "counted"
  PROVE  /\ Again \in Seq(StatusRow) /\ Distinct(Again)
         /\ \A j \in DOMAIN Again : \E i \in DOMAIN block.rows :
              /\ Again[j].id = block.rows[i].id /\ Again[j].tier = block.rows[i].tier
              /\ block.rows[i].id \notin Ids(run.live) \cup run.retired
              /\ run.sameHead
         /\ run.sameHead => \A i \in DOMAIN block.rows :
              block.rows[i].id \notin Ids(run.live) \cup run.retired =>
                \E j \in DOMAIN Again : /\ Again[j].id = block.rows[i].id
                                        /\ Again[j].tier = block.rows[i].tier
<1> DEFINE S == {i \in DOMAIN block.rows :
                   block.rows[i].id \notin Ids(run.live) \cup run.retired}
           rows == block.rows
<1>1. rows \in Seq(RowType) /\ Distinct(rows) /\ S \in SUBSET DOMAIN rows
  BY DEF RereviewInv, BlockInv
<1>2. CASE ~run.sameHead
  BY <1>2 DEF Again, Distinct
<1>3. CASE run.sameHead
  <2>1. /\ Others \in Seq(RowType)
        /\ InOrder(S) \in [DOMAIN Others -> S]
        /\ \A k \in DOMAIN Others : Others[k] = rows[InOrder(S)[k]]
        /\ \A i \in S : \E k \in DOMAIN Others : InOrder(S)[k] = i
        /\ \A j, k \in DOMAIN Others : InOrder(S)[j] = InOrder(S)[k] => j = k
    <3>1. Others = At(rows, S)
      BY DEF Others
    <3> HIDE DEF S, rows
    <3> QED
      BY <1>1, <3>1, AtIs
  <2>2. Again = [i \in DOMAIN Others |-> WithStatus(Others[i], "unconfirmed")]
    BY <1>3 DEF Again
  <2>3. ASSUME NEW k \in DOMAIN Others
        PROVE  /\ WithStatus(Others[k], "unconfirmed") \in StatusRow
               /\ Again[k].id = rows[InOrder(S)[k]].id
               /\ Again[k].tier = rows[InOrder(S)[k]].tier
    <3>1. Others[k] \in RowType
      <4>1. Others \in Seq(RowType)
        BY <2>1
      <4> QED
        BY <4>1
    <3>2. Others[k] = rows[InOrder(S)[k]]
      BY <2>1
    <3> HIDE DEF rows, S
    <3>3. WithStatus(Others[k], "unconfirmed") \in StatusRow
      BY <3>1 DEF RowType, StatusRow, WithStatus, Live
    <3> QED
      BY <2>2, <3>2, <3>3 DEF WithStatus
  <2>4. Again \in Seq(StatusRow) /\ DOMAIN Again = DOMAIN Others
    <3>1. DOMAIN Others = 1 .. Len(Others) /\ Len(Others) \in Nat
      <4>1. Others \in Seq(RowType)
        BY <2>1
      <4> QED
        BY <4>1
    <3>2. \A k \in 1 .. Len(Others) : WithStatus(Others[k], "unconfirmed") \in StatusRow
      BY <2>3, <3>1
    <3>3. Again = [i \in 1 .. Len(Others) |-> WithStatus(Others[i], "unconfirmed")]
      BY <2>2, <3>1
    <3> QED
      BY <3>1, <3>2, <3>3
  <2>5. Distinct(Again)
    <3> SUFFICES ASSUME NEW j \in DOMAIN Others, NEW k \in DOMAIN Others,
                        Again[j].id = Again[k].id
                 PROVE  j = k
      BY <2>4 DEF Distinct
    <3>1. InOrder(S)[j] \in DOMAIN rows /\ InOrder(S)[k] \in DOMAIN rows
      BY <2>1
    <3>2. InOrder(S)[j] = InOrder(S)[k]
      <4>1. rows[InOrder(S)[j]].id = rows[InOrder(S)[k]].id
        BY <2>3
      <4>2. \A a, b \in DOMAIN rows : rows[a].id = rows[b].id => a = b
        BY <1>1 DEF Distinct
      <4> HIDE DEF rows, S
      <4> QED
        BY <3>1, <4>1, <4>2
    <3> QED
      BY <2>1, <3>2
  <2>6. ASSUME NEW j \in DOMAIN Again
        PROVE  \E i \in DOMAIN rows :
                 /\ Again[j].id = rows[i].id /\ Again[j].tier = rows[i].tier
                 /\ rows[i].id \notin Ids(run.live) \cup run.retired
                 /\ run.sameHead
    <3>1. InOrder(S)[j] \in S
      BY <2>1, <2>4
    <3> QED
      BY <1>3, <2>3, <2>4, <3>1
  <2>7. ASSUME NEW i \in DOMAIN rows, rows[i].id \notin Ids(run.live) \cup run.retired
        PROVE  \E j \in DOMAIN Again : Again[j].id = rows[i].id /\ Again[j].tier = rows[i].tier
    <3>1. PICK k \in DOMAIN Others : InOrder(S)[k] = i
      BY <2>1, <2>7
    <3> QED
      BY <2>3, <2>4, <3>1
  <2> QED
    BY <2>4, <2>5, <2>6, <2>7
<1> QED
  BY <1>2, <1>3

\* A row of the block that the gate counts, and that the review neither settled,
\* released nor raised itself, is counted among the rows the merge starts from.
StillOwed(row) ==
  /\ Owed(row.tier) /\ ~Raised(row.id)
  /\ row.id \notin run.gone \cup run.released \cup run.worsened

\* The rows a merge starts from, none above the mark.
LEMMA BaseIs ==
  ASSUME RereviewInv, run.phase = "counted"
  PROVE  /\ Base \in Seq(StatusRow) /\ Distinct(Base)
         /\ \A r \in DOMAIN Base : Base[r].id <= Mark
         /\ \A i \in DOMAIN block.rows : StillOwed(block.rows[i]) =>
              \E r \in DOMAIN Base : Base[r].id = block.rows[i].id /\ Owed(Base[r].tier)
<1> DEFINE live == run.live
           rows == live \o Again
           lower(row) == IF row.id \in run.released /\ row.tier = "blocking"
                           THEN [row EXCEPT !.tier = "advisory"] ELSE row
<1>1. live \in Seq(StatusRow) /\ Distinct(live)
  BY DEF RereviewInv, RunInv, CountedInv
<1>2. Base = [i \in DOMAIN rows |-> lower(rows[i])]
  BY DEF Base, Again, Others
<1>3. \A i \in DOMAIN live : \A j \in DOMAIN Again : live[i].id # Again[j].id
  BY AgainIs DEF Ids
<1>4. Again \in Seq(StatusRow) /\ Distinct(Again)
  BY AgainIs
<1> HIDE DEF live
<1>5. Distinct(rows)
  BY <1>1, <1>3, <1>4, DistinctJoin
<1>6. /\ rows \in Seq(StatusRow)
      /\ \A i \in DOMAIN live : i \in DOMAIN rows /\ rows[i] = live[i]
      /\ \A j \in DOMAIN Again :
           Len(live) + j \in DOMAIN rows /\ rows[Len(live) + j] = Again[j]
      /\ \A k \in DOMAIN rows :
           k \in DOMAIN live \/ (k - Len(live) \in DOMAIN Again /\ rows[k] = Again[k - Len(live)])
  BY <1>1, <1>4, JoinIs
<1> HIDE DEF rows
<1>7. ASSUME NEW row \in StatusRow
      PROVE  /\ lower(row) \in StatusRow /\ lower(row).id = row.id
             /\ row.id \notin run.released => lower(row) = row
  <2>1. lower(row) = row \/ lower(row) = [row EXCEPT !.tier = "advisory"]
    OBVIOUS
  <2> QED
    BY <2>1 DEF StatusRow, Tiers
<1>8. \A k \in DOMAIN rows : rows[k] \in StatusRow
  BY <1>6
<1>9. DOMAIN rows = 1 .. Len(rows) /\ Len(rows) \in Nat
  BY <1>6
<1> HIDE DEF lower
<1>10. DOMAIN Base = DOMAIN rows /\ \A k \in DOMAIN rows : Base[k] = lower(rows[k])
  BY <1>2
<1>11. Base \in Seq(StatusRow)
  <2>1. Base = [i \in 1 .. Len(rows) |-> lower(rows[i])]
    BY <1>2, <1>9
  <2>2. \A i \in 1 .. Len(rows) : lower(rows[i]) \in StatusRow
    BY <1>7, <1>8, <1>9
  <2> QED
    BY <1>9, <2>1, <2>2
<1>12. \A k \in DOMAIN rows : Base[k].id = rows[k].id
  BY <1>7, <1>8, <1>10
<1>13. Distinct(Base)
  BY <1>5, <1>10, <1>12 DEF Distinct
<1>14. ASSUME NEW r \in DOMAIN Base
       PROVE  Base[r].id <= Mark
  <2>1. CASE r \in DOMAIN live
    <3>1. Base[r].id = run.live[r].id /\ r \in DOMAIN run.live
      BY <1>6, <1>10, <1>12, <2>1 DEF live
    <3> QED
      BY <3>1, MarkIs DEF Ids
  <2>2. CASE r \notin DOMAIN live
    <3>1. r - Len(live) \in DOMAIN Again /\ Base[r].id = Again[r - Len(live)].id
      BY <1>6, <1>10, <1>12, <2>2
    <3>2. PICK i \in DOMAIN block.rows : Base[r].id = block.rows[i].id /\ run.sameHead
      BY <3>1, AgainIs
    <3>3. block.written
      BY <3>2 DEF RereviewInv, RunInv
    <3> QED
      BY <3>2, <3>3, MarkIs
  <2> QED
    BY <2>1, <2>2
<1>15. ASSUME NEW i \in DOMAIN block.rows, StillOwed(block.rows[i])
       PROVE  \E r \in DOMAIN Base : Base[r].id = block.rows[i].id /\ Owed(Base[r].tier)
  <2> DEFINE id == block.rows[i].id
  <2>1. /\ Owed(block.rows[i].tier) /\ ~Raised(id)
        /\ id \notin run.gone \cup run.worsened /\ id \notin run.released
    BY <1>15 DEF StillOwed
  <2>2. id \notin run.retired
    BY <2>1 DEF RereviewInv, RunInv, CountedInv
  <2>3. CASE id \in Ids(run.live)
    <3>1. PICK k \in DOMAIN live : live[k].id = id
      BY <2>3 DEF Ids, live
    <3>2. Owed(live[k].tier)
      BY <2>1, <3>1 DEF Raised, live
    <3>3. k \in DOMAIN rows /\ rows[k] = live[k] /\ rows[k] \in StatusRow
      BY <1>6, <1>8, <3>1
    <3>4. Base[k] = rows[k]
      BY <1>7, <1>10, <2>1, <3>1, <3>3
    <3> QED
      BY <1>10, <3>1, <3>2, <3>3, <3>4
  <2>4. CASE id \notin Ids(run.live)
    <3>1. run.posted
      BY <2>2, <2>4 DEF RereviewInv, RunInv, CountedInv, Remembered, Ids
    <3>2. run.sameHead
      BY <3>1 DEF RereviewInv, RunInv, CountedInv
    <3>3. PICK j \in DOMAIN Again : Again[j].id = id /\ Again[j].tier = block.rows[i].tier
      BY <2>2, <2>4, <3>2, AgainIs
    <3>4. Len(live) + j \in DOMAIN rows /\ rows[Len(live) + j] = Again[j]
      BY <1>6, <3>3
    <3>5. Base[Len(live) + j] = Again[j]
      BY <1>7, <1>8, <1>10, <2>1, <3>3, <3>4
    <3> QED
      BY <1>10, <2>1, <3>3, <3>4, <3>5
  <2> QED
    BY <2>3, <2>4
<1> QED
  BY <1>11, <1>13, <1>14, <1>15

-----------------------------------------------------------------------------
(* The post: the merge.                                                    *)

\* Which finding updates which row: one each, near each other, and a finding that
\* takes a row the gate counts is blocking.
Updates(pairs, found, base) ==
  /\ pairs \in SUBSET ((1 .. Len(found)) \X (DOMAIN base))
  /\ \A p, q \in pairs : p[1] = q[1] \/ p[2] = q[2] => p = q
  /\ \A p \in pairs : /\ found[p[1]].tier = "blocking" \/ base[p[2]].tier = "advisory"
                      /\ Matches(base[p[2]].issue, found[p[1]].issue)

\* Blocking findings alone take rows, one each, near them.
LEMMA PairBlockingIs ==
  ASSUME NEW S, NEW T, NEW found \in Seq(S), NEW rows \in Seq(T)
  PROVE  /\ PairBlocking(found, rows) \in SUBSET ((1 .. Len(found)) \X (DOMAIN rows))
         /\ \A p, q \in PairBlocking(found, rows) : p[1] = q[1] \/ p[2] = q[2] => p = q
         /\ \A p \in PairBlocking(found, rows) :
              found[p[1]].tier = "blocking" /\ Matches(rows[p[2]].issue, found[p[1]].issue)
<1> DEFINE prefs == [f \in DOMAIN found |-> IF found[f].tier = "blocking"
                       THEN <<"blocking", "unrecoverable", "advisory">> ELSE <<>>]
           ps == PairBlocking(found, rows)
<1>1. /\ DOMAIN found = 1 .. Len(found) /\ Len(found) \in Nat
      /\ DOMAIN rows \in SUBSET Nat
  OBVIOUS
<1>2. ps = PairInto(found, rows, prefs, DOMAIN rows)
  BY DEF PairBlocking
<1>3. \A f \in 1 .. Len(found) :
        /\ DOMAIN prefs[f] \in SUBSET Nat
        /\ found[f].tier # "blocking" => DOMAIN prefs[f] = {}
  BY <1>1
<1> HIDE DEF prefs
<1>4. Paired(ps, found, rows, prefs, DOMAIN rows, Len(found))
  BY <1>1, <1>2, <1>3, PairIntoIs
<1> HIDE DEF ps
<1>5. ASSUME NEW p \in ps
      PROVE  found[p[1]].tier = "blocking" /\ Matches(rows[p[2]].issue, found[p[1]].issue)
  <2>1. p[1] \in 1 .. Len(found) /\ DOMAIN prefs[p[1]] # {}
    BY <1>4 DEF Paired
  <2>2. Matches(rows[p[2]].issue, found[p[1]].issue)
    BY <1>4 DEF Paired
  <2> QED
    BY <1>3, <2>1, <2>2
<1>6. /\ ps \in SUBSET ((1 .. Len(found)) \X (DOMAIN rows))
      /\ \A p, q \in ps : p[1] = q[1] \/ p[2] = q[2] => p = q
  BY <1>4 DEF Paired
<1> QED
  BY <1>5, <1>6 DEF ps

\* No finding that is not blocking takes a row the gate counts.
LEMMA MergePairsIs ==
  ASSUME NEW base \in Seq(StatusRow), run.fresh \in Seq(DocType)
  PROVE  Updates(MergePairs(base), run.fresh, base)
<1> DEFINE found == run.fresh
           blocking == PairBlocking(found, base)
           free == DOMAIN base \ {p[2] : p \in blocking}
           prefs == [f \in DOMAIN found |-> AdvisoryTakes(found[f])]
           advisory == PairInto(found, base, prefs, free)
<1>1. /\ DOMAIN found = 1 .. Len(found) /\ Len(found) \in Nat /\ free \in SUBSET Nat
  OBVIOUS
<1>2. MergePairs(base) = blocking \cup advisory
  BY DEF MergePairs
<1>3. /\ blocking \in SUBSET ((1 .. Len(found)) \X (DOMAIN base))
      /\ \A p, q \in blocking : p[1] = q[1] \/ p[2] = q[2] => p = q
      /\ \A p \in blocking :
           found[p[1]].tier = "blocking" /\ Matches(base[p[2]].issue, found[p[1]].issue)
  BY PairBlockingIs
<1>4. ASSUME NEW f \in 1 .. Len(found)
      PROVE  /\ DOMAIN prefs[f] \in SUBSET Nat
             /\ DOMAIN prefs[f] # {} => found[f].tier = "advisory"
             /\ \A k \in DOMAIN prefs[f] : prefs[f][k] = "advisory"
  <2>1. CASE found[f].tier = "advisory"
    <3>1. prefs[f] = <<"advisory">>
      BY <1>1, <2>1 DEF AdvisoryTakes
    <3>2. DOMAIN <<"advisory">> = {1} /\ <<"advisory">>[1] = "advisory"
      OBVIOUS
    <3> HIDE DEF prefs
    <3>3. DOMAIN prefs[f] = {1} /\ prefs[f][1] = "advisory"
      BY <3>1, <3>2
    <3> QED
      BY <2>1, <3>3
  <2>2. CASE found[f].tier # "advisory"
    <3>1. prefs[f] = <<>>
      BY <1>1, <2>2 DEF AdvisoryTakes
    <3> QED
      BY <3>1
  <2> QED
    BY <2>1, <2>2
<1> HIDE DEF prefs, found, blocking
<1>5. Paired(advisory, found, base, prefs, free, Len(found))
  <2> HIDE DEF free
  <2> QED
    BY <1>1, <1>4, PairIntoIs
<1> HIDE DEF advisory
<1>6. ASSUME NEW p \in advisory
      PROVE  /\ found[p[1]].tier = "advisory" /\ base[p[2]].tier = "advisory"
             /\ Matches(base[p[2]].issue, found[p[1]].issue)
             /\ \A q \in blocking : p[2] # q[2]
  <2>1. /\ p[1] \in 1 .. Len(found) /\ p[2] \in free
        /\ \E k \in DOMAIN prefs[p[1]] : base[p[2]].tier = prefs[p[1]][k]
        /\ Matches(base[p[2]].issue, found[p[1]].issue)
    BY <1>5 DEF Paired
  <2>2. \A q \in blocking : p[2] # q[2]
    BY <2>1
  <2> QED
    BY <1>4, <2>1, <2>2
<1>7. advisory \in SUBSET ((1 .. Len(found)) \X (DOMAIN base))
  BY <1>5 DEF Paired
<1>8. ASSUME NEW p \in blocking \cup advisory, NEW q \in blocking \cup advisory,
             p[1] = q[1] \/ p[2] = q[2]
      PROVE  p = q
  <2>1. CASE p \in blocking /\ q \in blocking
    BY <1>3, <1>8, <2>1
  <2>2. CASE p \in advisory /\ q \in advisory
    BY <1>5, <1>8, <2>2 DEF Paired
  <2>3. CASE p \in blocking /\ q \in advisory
    BY <1>3, <1>6, <1>8, <2>3
  <2>4. CASE p \in advisory /\ q \in blocking
    BY <1>3, <1>6, <1>8, <2>4
  <2> QED
    BY <2>1, <2>2, <2>3, <2>4
<1>9. \A p \in blocking \cup advisory :
        /\ found[p[1]].tier = "blocking" \/ base[p[2]].tier = "advisory"
        /\ Matches(base[p[2]].issue, found[p[1]].issue)
  BY <1>3, <1>6
<1>10. blocking \cup advisory \in SUBSET ((1 .. Len(found)) \X (DOMAIN base))
  BY <1>3, <1>7
<1>11. Updates(blocking \cup advisory, found, base)
  BY <1>8, <1>9, <1>10 DEF Updates
<1> QED
  BY <1>2, <1>11 DEF found

\* An update keeps the id of a row, and a row the gate counts stays counted.
LEMMA UpdatedIs ==
  ASSUME NEW base \in Seq(StatusRow), run.fresh \in Seq(DocType),
         NEW pairs, Updates(pairs, run.fresh, base)
  PROVE  /\ Updated(base, pairs) \in Seq(StatusRow)
         /\ DOMAIN Updated(base, pairs) = DOMAIN base
         /\ \A r \in DOMAIN base :
              /\ Updated(base, pairs)[r].id = base[r].id
              /\ Owed(base[r].tier) => Owed(Updated(base, pairs)[r].tier)
         /\ \A p \in pairs : Updated(base, pairs)[p[2]].issue = run.fresh[p[1]].issue
<1> DEFINE fresh == run.fresh
           By(r) == {p[1] : p \in {q \in pairs : q[2] = r}}
           U == Updated(base, pairs)
           n == Len(base)
<1>1. /\ DOMAIN base = 1 .. n /\ n \in Nat
      /\ DOMAIN fresh = 1 .. Len(fresh) /\ Len(fresh) \in Nat
  OBVIOUS
<1>2. U = [r \in 1 .. n |->
             IF By(r) = {} THEN base[r] ELSE Update(base[r], fresh[Lowest(By(r))])]
  BY <1>1 DEF Updated
<1>3. ASSUME NEW r \in 1 .. n, By(r) # {}
      PROVE  \E p \in pairs : p[2] = r /\ Lowest(By(r)) = p[1]
  <2>1. By(r) \in SUBSET Nat
    BY DEF Updates
  <2> HIDE DEF By
  <2>2. Lowest(By(r)) \in By(r)
    BY <1>3, <2>1, LowestIs
  <2> QED
    BY <2>2 DEF By
<1>4. ASSUME NEW row \in StatusRow, NEW f \in DocType
      PROVE  /\ Update(row, f) \in StatusRow
             /\ Update(row, f).id = row.id /\ Update(row, f).issue = f.issue
             /\ (f.tier = "blocking" \/ row.tier = "advisory") /\ Owed(row.tier) =>
                  Owed(Update(row, f).tier)
  <2>1. CASE row.status = "suppressed"
    <3>1. Update(row, f) = [row EXCEPT !.issue = f.issue]
      BY <2>1 DEF Update
    <3> QED
      BY <3>1 DEF StatusRow, DocType
  <2>2. CASE row.status # "suppressed"
    <3>1. Update(row, f) = [row EXCEPT !.issue = f.issue, !.sev = f.sev, !.tier = f.tier]
      BY <2>2 DEF Update
    <3>2. f.issue \in Issues /\ f.sev \in Severities /\ f.tier \in {"blocking", "advisory"}
      BY DEF DocType
    <3>3. Update(row, f) \in StatusRow /\ Update(row, f).id = row.id
      BY <3>1, <3>2 DEF StatusRow, Tiers
    <3>4. Update(row, f).issue = f.issue /\ Update(row, f).tier = f.tier
      BY <3>1 DEF StatusRow
    <3> QED
      BY <3>3, <3>4 DEF Owed
  <2> QED
    BY <2>1, <2>2
<1>5. ASSUME NEW r \in 1 .. n
      PROVE  /\ U[r] \in StatusRow /\ U[r].id = base[r].id
             /\ Owed(base[r].tier) => Owed(U[r].tier)
             /\ \A p \in pairs : p[2] = r => U[r].issue = fresh[p[1]].issue
  <2>0. base[r] \in StatusRow
    BY <1>1
  <2>1. CASE By(r) = {}
    <3>1. U[r] = base[r]
      BY <1>2, <2>1
    <3>2. \A p \in pairs : p[2] # r
      BY <2>1
    <3> QED
      BY <2>0, <3>1, <3>2
  <2>2. CASE By(r) # {}
    <3>1. PICK p \in pairs : p[2] = r /\ Lowest(By(r)) = p[1]
      BY <1>3, <2>2
    <3>2. U[r] = Update(base[r], fresh[p[1]])
      <4> HIDE DEF U, By, n
      <4> QED
        BY <1>2, <2>2, <3>1
    <3>3. /\ p[1] \in DOMAIN fresh
          /\ fresh[p[1]].tier = "blocking" \/ base[r].tier = "advisory"
          /\ \A q \in pairs : q[2] = r => q = p
      BY <1>1, <3>1 DEF Updates
    <3>4. fresh[p[1]] \in DocType
      BY <3>3
    <3> HIDE DEF U, fresh, By
    <3> QED
      BY <1>4, <2>0, <3>2, <3>3, <3>4
  <2> QED
    BY <2>1, <2>2
<1>6. DOMAIN U = 1 .. n
  BY <1>2
<1>7. U \in Seq(StatusRow)
  <2>1. U = [r \in 1 .. n |-> U[r]]
    BY <1>2
  <2>2. \A r \in 1 .. n : U[r] \in StatusRow
    BY <1>5
  <2> HIDE DEF U, n
  <2> QED
    BY <1>1, <2>1, <2>2
<1>8. \A p \in pairs : p[2] \in 1 .. n
  BY <1>1 DEF Updates
<1> HIDE DEF U
<1> QED
  BY <1>1, <1>5, <1>6, <1>7, <1>8 DEF U

\* A row of a block under construction: its id may be above every bound.
OpenRow == [id : Nat \ {0}, sev : Severities \cup {Unrecoverable}, tier : Tiers,
            issue : Issues, status : Live]

\* The rows of the findings that took none, numbered above the mark.
LEMMA AppendedIs ==
  ASSUME Mark \in Nat, run.fresh \in Seq(DocType), NEW pairs
  PROVE  /\ Appended(pairs) \in Seq(OpenRow) /\ Distinct(Appended(pairs))
         /\ \A k \in DOMAIN Appended(pairs) : Appended(pairs)[k].id = Mark + k
         /\ \A f \in DOMAIN run.fresh : (\A p \in pairs : p[1] # f) =>
              \E k \in DOMAIN Appended(pairs) : Appended(pairs)[k].issue = run.fresh[f].issue
<1> DEFINE fresh == run.fresh
           S == {f \in DOMAIN fresh : \A p \in pairs : p[1] # f}
           new == At(fresh, S)
           A == Appended(pairs)
           row(k) == [id |-> Mark + k, sev |-> new[k].sev, tier |-> new[k].tier,
                      issue |-> new[k].issue, status |-> "unconfirmed"]
<1>1. A = [k \in DOMAIN new |-> row(k)]
  BY DEF Appended
<1>2. S \in SUBSET DOMAIN fresh /\ fresh \in Seq(DocType)
  OBVIOUS
<1> HIDE DEF fresh, S
<1>3. /\ new \in Seq(DocType)
      /\ InOrder(S) \in [DOMAIN new -> S]
      /\ \A k \in DOMAIN new : new[k] = fresh[InOrder(S)[k]]
      /\ \A i \in S : \E k \in DOMAIN new : InOrder(S)[k] = i
  BY <1>2, AtIs
<1> HIDE DEF new
<1>4. DOMAIN new = 1 .. Len(new) /\ Len(new) \in Nat
  BY <1>3
<1>5. ASSUME NEW k \in 1 .. Len(new)
      PROVE  row(k) \in OpenRow
  <2>1. new[k] \in DocType
    BY <1>3, <1>4
  <2>2. Mark + k \in Nat \ {0}
    BY <1>4
  <2> QED
    BY <2>1, <2>2 DEF DocType, OpenRow, Tiers, Live
<1>6. A = [k \in 1 .. Len(new) |-> row(k)]
  BY <1>1, <1>4
<1>7. \A k \in 1 .. Len(new) : A[k].id = Mark + k /\ A[k].issue = new[k].issue
  BY <1>6
<1> HIDE DEF row
<1>8. A \in Seq(OpenRow) /\ DOMAIN A = 1 .. Len(new)
  BY <1>4, <1>5, <1>6
<1> HIDE DEF A
<1>9. Distinct(A)
  <2> SUFFICES ASSUME NEW j \in 1 .. Len(new), NEW k \in 1 .. Len(new), A[j].id = A[k].id
               PROVE  j = k
    BY <1>8 DEF Distinct
  <2>1. Mark + j = Mark + k
    BY <1>7
  <2> QED
    BY <1>4, <2>1
<1>10. ASSUME NEW f \in DOMAIN fresh, \A p \in pairs : p[1] # f
       PROVE  \E k \in DOMAIN A : A[k].issue = fresh[f].issue
  <2>1. f \in S
    BY <1>10 DEF S
  <2>2. PICK k \in DOMAIN new : InOrder(S)[k] = f
    BY <1>3, <2>1
  <2>3. k \in 1 .. Len(new) /\ k \in DOMAIN A /\ new[k] = fresh[f]
    BY <1>3, <1>4, <1>8, <2>2
  <2>4. A[k].issue = fresh[f].issue
    BY <1>7, <2>3
  <2> QED
    BY <2>3, <2>4
<1> QED
  BY <1>7, <1>8, <1>9, <1>10 DEF A, fresh

\* The merge: ids stay apart, counted rows stay counted, findings become rows.
LEMMA MergedIs ==
  ASSUME RereviewInv, run.phase = "counted"
  PROVE  /\ Merged.rows \in Seq(OpenRow) /\ Distinct(Merged.rows)
         /\ Merged.hw \in Nat /\ Mark <= Merged.hw
         /\ \A r \in DOMAIN Merged.rows : Merged.rows[r].id <= Merged.hw
         /\ \A id \in Merged.appended : id \in Nat /\ id > Mark
         /\ \A f \in DOMAIN run.fresh : \E r \in DOMAIN Merged.rows :
              /\ Merged.rows[r].issue = run.fresh[f].issue
              /\ Merged.rows[r].id \in Merged.touched
         /\ \A b \in DOMAIN Base : Owed(Base[b].tier) =>
              \E r \in DOMAIN Merged.rows :
                Merged.rows[r].id = Base[b].id /\ Owed(Merged.rows[r].tier)
<1> DEFINE base == Base
           fresh == run.fresh
           pairs == MergePairs(base)
           U == Updated(base, pairs)
           A == Appended(pairs)
           rows == U \o A
           mark == Mark
           touched == Ids(A) \cup {base[p[2]].id : p \in pairs}
<1>1. /\ base \in Seq(StatusRow) /\ Distinct(base)
      /\ \A r \in DOMAIN base : base[r].id <= mark
  BY BaseIs
<1>2. fresh \in Seq(DocType) /\ mark \in Nat /\ MaxId \in Nat
  BY MarkIs, BoundsAreNat DEF RereviewInv, RunInv, CountedInv
<1>3. Merged = [rows |-> rows, hw |-> mark + Len(A), appended |-> Ids(A), touched |-> touched]
  BY DEF Merged
<1> HIDE DEF base, mark
<1>4. Updates(pairs, fresh, base)
  BY <1>1, <1>2, MergePairsIs
<1>5. /\ U \in Seq(StatusRow) /\ DOMAIN U = DOMAIN base
      /\ \A r \in DOMAIN base :
           U[r].id = base[r].id /\ (Owed(base[r].tier) => Owed(U[r].tier))
      /\ \A p \in pairs : U[p[2]].issue = fresh[p[1]].issue
  <2> HIDE DEF pairs
  <2> QED
    BY <1>1, <1>2, <1>4, UpdatedIs
<1>6. /\ A \in Seq(OpenRow) /\ Distinct(A)
      /\ \A k \in DOMAIN A : A[k].id = mark + k
      /\ \A f \in DOMAIN fresh : (\A p \in pairs : p[1] # f) =>
           \E k \in DOMAIN A : A[k].issue = fresh[f].issue
  <2> HIDE DEF pairs
  <2> QED
    BY <1>2, AppendedIs DEF mark
<1> HIDE DEF pairs, fresh, A, U
<1>7. U \in Seq(OpenRow) /\ \A r \in DOMAIN U : U[r].id \in Nat
  <2>1. StatusRow \subseteq OpenRow
    <3>1. 1 .. MaxId \subseteq Nat \ {0}
      BY <1>2
    <3> QED
      BY <3>1 DEF StatusRow, OpenRow
  <2>2. \A r \in DOMAIN U : U[r] \in OpenRow
    BY <1>5, <2>1
  <2> QED
    <3>1. U \in Seq(OpenRow)
      BY <1>5, <2>2
    <3>2. \A r \in DOMAIN U : U[r].id \in Nat
      BY <2>2 DEF OpenRow
    <3> QED
      BY <3>1, <3>2
<1>8. DOMAIN A = 1 .. Len(A) /\ Len(A) \in Nat
  BY <1>6
<1>9. Distinct(U)
  BY <1>1, <1>5 DEF Distinct
<1>10. \A i \in DOMAIN U : \A j \in DOMAIN A : U[i].id # A[j].id
  <2> SUFFICES ASSUME NEW i \in DOMAIN U, NEW j \in DOMAIN A
               PROVE  U[i].id # A[j].id
    OBVIOUS
  <2>1. U[i].id <= mark /\ U[i].id \in Nat
    BY <1>1, <1>5, <1>7
  <2>2. A[j].id = mark + j /\ j \in Nat \ {0}
    BY <1>6, <1>8
  <2> QED
    BY <1>2, <2>1, <2>2
<1>11. Distinct(rows)
  BY <1>6, <1>7, <1>9, <1>10, DistinctJoin
<1>12. /\ rows \in Seq(OpenRow)
       /\ \A i \in DOMAIN U : i \in DOMAIN rows /\ rows[i] = U[i]
       /\ \A j \in DOMAIN A : Len(U) + j \in DOMAIN rows /\ rows[Len(U) + j] = A[j]
       /\ \A k \in DOMAIN rows :
            k \in DOMAIN U \/ (k - Len(U) \in DOMAIN A /\ rows[k] = A[k - Len(U)])
  BY <1>6, <1>7, JoinIs
<1> HIDE DEF rows
<1>13. ASSUME NEW r \in DOMAIN rows
       PROVE  rows[r].id <= mark + Len(A)
  <2>1. CASE r \in DOMAIN U
    <3>1. rows[r].id <= mark /\ rows[r].id \in Nat
      BY <1>1, <1>5, <1>7, <1>12, <2>1
    <3> QED
      BY <1>2, <1>8, <3>1
  <2>2. CASE r \notin DOMAIN U
    <3>1. r - Len(U) \in 1 .. Len(A) /\ rows[r].id = mark + (r - Len(U))
      BY <1>6, <1>8, <1>12, <2>2
    <3> QED
      BY <1>2, <1>8, <3>1
  <2> QED
    BY <2>1, <2>2
<1>14. ASSUME NEW id \in Ids(A)
       PROVE  id \in Nat /\ id > mark
  <2>1. PICK k \in 1 .. Len(A) : id = mark + k
    BY <1>6, <1>8 DEF Ids
  <2> QED
    BY <1>2, <1>8, <2>1
<1>15. ASSUME NEW f \in DOMAIN fresh
       PROVE  \E r \in DOMAIN rows : rows[r].issue = fresh[f].issue /\ rows[r].id \in touched
  <2>1. CASE \E p \in pairs : p[1] = f
    <3>1. PICK p \in pairs : p[1] = f
      BY <2>1
    <3>2. p[2] \in DOMAIN base
      BY <1>4 DEF Updates
    <3>3. /\ p[2] \in DOMAIN rows /\ rows[p[2]].issue = fresh[f].issue
          /\ rows[p[2]].id = base[p[2]].id
      BY <1>5, <1>12, <3>1, <3>2
    <3>4. base[p[2]].id \in touched
      OBVIOUS
    <3> HIDE DEF touched
    <3> QED
      BY <3>3, <3>4
  <2>2. CASE \A p \in pairs : p[1] # f
    <3>1. PICK k \in DOMAIN A : A[k].issue = fresh[f].issue
      BY <1>6, <2>2
    <3>2. A[k].id \in touched
      BY DEF Ids
    <3> HIDE DEF touched
    <3> QED
      BY <1>12, <3>1, <3>2
  <2> QED
    BY <2>1, <2>2
<1>16. ASSUME NEW b \in DOMAIN base, Owed(base[b].tier)
       PROVE  \E r \in DOMAIN rows : rows[r].id = base[b].id /\ Owed(rows[r].tier)
  BY <1>5, <1>12, <1>16
<1>17. mark + Len(A) \in Nat /\ mark <= mark + Len(A)
  BY <1>2, <1>8
<1> HIDE DEF touched
<1> QED
  BY <1>3, <1>11, <1>12, <1>13, <1>14, <1>15, <1>16, <1>17 DEF base, fresh, mark

-----------------------------------------------------------------------------
(* The post: the cap and the write.                                        *)

\* The rows that the gate counts, or that the review touched, are in what is left.
Leaves(merged, left) ==
  \A r \in DOMAIN merged.rows :
    Owed(merged.rows[r].tier) \/ merged.rows[r].id \in merged.touched =>
      \E k \in DOMAIN left : /\ left[k].id = merged.rows[r].id
                             /\ left[k].tier = merged.rows[r].tier
                             /\ left[k].issue = merged.rows[r].issue

\* The cap takes no row that the gate counts and none that the review touched.
LEMMA CappedIs ==
  ASSUME NEW merged, merged.rows \in Seq(OpenRow), Distinct(merged.rows),
         \A r \in DOMAIN merged.rows : merged.rows[r].id <= merged.hw,
         merged.hw \in 0 .. MaxId, NEW room
  PROVE  LET C == Capped(merged, room)
         IN /\ C \in Seq(RowType) /\ Distinct(C)
            /\ \A k \in DOMAIN C : C[k].id <= merged.hw
            /\ Leaves(merged, C)
<1> DEFINE rows == merged.rows
           Before(q, r) == \/ rows[q].status = rows[r].status /\ q > r
                           \/ rows[q].status = "unconfirmed" /\ rows[r].status = "carried"
           candidates == Evictable(merged, "unconfirmed") \cup Evictable(merged, "carried")
           over == Len(rows) - room
           gone == {r \in candidates : Cardinality({q \in candidates : Before(q, r)}) < over}
           bare == [r \in DOMAIN rows |-> WithoutStatus(rows[r])]
           S == DOMAIN rows \ gone
           C == Capped(merged, room)
<1>1. C = At(bare, S)
  BY DEF Capped
<1>2. /\ DOMAIN rows = 1 .. Len(rows) /\ Len(rows) \in Nat
      /\ MaxId \in Nat /\ S \in SUBSET DOMAIN rows
  BY BoundsAreNat
<1>3. ASSUME NEW r \in DOMAIN rows
      PROVE  /\ WithoutStatus(rows[r]) \in RowType
             /\ WithoutStatus(rows[r]).id = rows[r].id
             /\ WithoutStatus(rows[r]).tier = rows[r].tier
             /\ WithoutStatus(rows[r]).issue = rows[r].issue
  <2>1. rows[r] \in OpenRow
    OBVIOUS
  <2>2. rows[r].id \in 1 .. MaxId
    <3>1. rows[r].id \in Nat \ {0} /\ rows[r].id <= merged.hw
      BY <2>1 DEF OpenRow
    <3> QED
      BY <1>2, <3>1
  <2> QED
    BY <2>1, <2>2 DEF OpenRow, RowType, WithoutStatus
<1>4. ASSUME NEW r \in DOMAIN rows, Owed(rows[r].tier) \/ rows[r].id \in merged.touched
      PROVE  r \in S
  <2>1. r \notin candidates
    BY <1>4 DEF Evictable, Owed
  <2> QED
    BY <2>1
<1> HIDE DEF S
<1>5. bare \in Seq(RowType) /\ DOMAIN bare = DOMAIN rows
  BY <1>2, <1>3
<1>6. /\ C \in Seq(RowType)
      /\ InOrder(S) \in [DOMAIN C -> S]
      /\ \A k \in DOMAIN C : C[k] = bare[InOrder(S)[k]]
      /\ \A i \in S : \E k \in DOMAIN C : InOrder(S)[k] = i
      /\ \A j, k \in DOMAIN C : InOrder(S)[j] = InOrder(S)[k] => j = k
  <2> HIDE DEF bare, C
  <2> QED
    BY <1>1, <1>2, <1>5, AtIs
<1> HIDE DEF C
<1>7. ASSUME NEW k \in DOMAIN C
      PROVE  /\ InOrder(S)[k] \in DOMAIN rows
             /\ C[k].id = rows[InOrder(S)[k]].id
             /\ C[k].tier = rows[InOrder(S)[k]].tier
             /\ C[k].issue = rows[InOrder(S)[k]].issue
  <2>1. InOrder(S)[k] \in DOMAIN rows
    BY <1>2, <1>6
  <2>2. C[k] = WithoutStatus(rows[InOrder(S)[k]])
    BY <1>6, <2>1
  <2> HIDE DEF rows
  <2> QED
    BY <1>3, <2>1, <2>2
<1> HIDE DEF rows
<1>8. Distinct(C)
  <2> SUFFICES ASSUME NEW j \in DOMAIN C, NEW k \in DOMAIN C, C[j].id = C[k].id
               PROVE  j = k
    BY DEF Distinct
  <2>1. InOrder(S)[j] = InOrder(S)[k]
    BY <1>7 DEF Distinct, rows
  <2> QED
    BY <1>6, <2>1
<1>9. \A k \in DOMAIN C : C[k].id <= merged.hw
  BY <1>7 DEF rows
<1>10. ASSUME NEW r \in DOMAIN rows, Owed(rows[r].tier) \/ rows[r].id \in merged.touched
       PROVE  \E k \in DOMAIN C : /\ C[k].id = rows[r].id /\ C[k].tier = rows[r].tier
                                  /\ C[k].issue = rows[r].issue
  <2>1. PICK k \in DOMAIN C : InOrder(S)[k] = r
    BY <1>4, <1>6, <1>10
  <2> QED
    BY <1>7, <2>1
<1>11. Leaves(merged, C)
  BY <1>10 DEF Leaves, rows
<1> QED
  BY <1>6, <1>8, <1>9, <1>11 DEF C

\* The block and the mark that a post leaves.
LEMMA PostWrites ==
  ASSUME RereviewInv, Post
  PROVE  /\ run.phase = "counted" /\ Merged.hw \in 0 .. MaxId
         /\ \E room : block' = [written |-> TRUE, rows |-> Capped(Merged, room),
                                hw |-> Merged.hw]
         /\ issued' = Highest({issued, Merged.hw})
         /\ run' = [run EXCEPT !.posted = TRUE, !.sameHead = TRUE]
<1>1. run.phase = "counted"
  BY DEF Post
<1>2. Merged.hw <= MaxId /\ Merged.hw \in Nat /\ MaxId \in Nat
  BY <1>1, MergedIs, BoundsAreNat DEF Post
<1>3. Merged.hw \in 0 .. MaxId
  BY <1>2
<1>4. PICK room \in 0 .. Len(Merged.rows) :
        block' = [written |-> TRUE, rows |-> Capped(Merged, room), hw |-> Merged.hw]
  BY DEF Post
<1>5. /\ issued' = Highest({issued, Merged.hw})
      /\ run' = [run EXCEPT !.posted = TRUE, !.sameHead = TRUE]
  BY DEF Post
<1> QED
  BY <1>1, <1>3, <1>4, <1>5

\* A post keeps the invariant.
LEMMA PostKeeps == RereviewInv /\ Post => RereviewInv'
<1> SUFFICES ASSUME RereviewInv, Post PROVE RereviewInv'
  OBVIOUS
<1>1. PICK room : block' = [written |-> TRUE, rows |-> Capped(Merged, room), hw |-> Merged.hw]
  BY PostWrites
<1>2. /\ run.phase = "counted" /\ Merged.hw \in 0 .. MaxId
      /\ issued' = Highest({issued, Merged.hw})
      /\ run' = [run EXCEPT !.posted = TRUE, !.sameHead = TRUE]
  BY PostWrites
<1>3. /\ Capped(Merged, room) \in Seq(RowType) /\ Distinct(Capped(Merged, room))
      /\ \A k \in DOMAIN Capped(Merged, room) : Capped(Merged, room)[k].id <= Merged.hw
  <2>1. /\ Merged.rows \in Seq(OpenRow) /\ Distinct(Merged.rows)
        /\ \A r \in DOMAIN Merged.rows : Merged.rows[r].id <= Merged.hw
    BY <1>2, MergedIs
  <2> QED
    BY <1>2, <2>1, CappedIs
<1>4. issued' \in 0 .. MaxId /\ issued' <= Merged.hw
  <2>1. issued \in 0 .. MaxId /\ MaxId \in Nat
    BY BoundsAreNat DEF RereviewInv, BlockInv
  <2>2. Mark \in Nat /\ issued <= Mark /\ Mark <= Merged.hw
    BY <1>2, <2>1, MarkIs, MergedIs
  <2>3. issued <= Merged.hw
    BY <1>2, <2>1, <2>2
  <2>4. issued' \in {issued, Merged.hw}
    <3>1. {issued, Merged.hw} \in SUBSET (0 .. MaxId)
      BY <1>2, <2>1
    <3> QED
      BY <1>2, <2>1, <3>1, HighestIs
  <2> QED
    BY <1>2, <2>1, <2>3, <2>4
<1>5. BlockInv'
  BY <1>1, <1>2, <1>3, <1>4 DEF BlockInv, Distinct
<1>6. /\ run'.phase = "counted" /\ run'.sameHead = TRUE /\ run'.posted = TRUE
      /\ run'.live = run.live /\ run'.retired = run.retired /\ run'.fresh = run.fresh
      /\ run'.gone = run.gone /\ run'.worsened = run.worsened
      /\ DOMAIN run' = DOMAIN run
  BY <1>2 DEF RereviewInv, RunInv, CountedInv
<1>7. CountedInv'
  BY <1>2, <1>6 DEF RereviewInv, RunInv, CountedInv, Distinct
<1>8. RunInv'
  BY <1>1, <1>6, <1>7 DEF RunInv
<1> QED
  BY <1>5, <1>8 DEF RereviewInv

-----------------------------------------------------------------------------
(* The gate's count.                                                       *)

\* A demoted finding releases one blocking row that nothing guards.
LEMMA ReleasedIs ==
  ASSUME NEW S, NEW T, NEW found \in Seq(S), NEW rows \in Seq(T), NEW carried
  PROVE  LET ps == Released(found, rows, carried)
         IN /\ ps \in SUBSET ((1 .. Len(found)) \X (DOMAIN rows))
            /\ \A p, q \in ps : p[1] = q[1] \/ p[2] = q[2] => p = q
            /\ \A p \in ps : /\ found[p[1]].demoted /\ rows[p[2]].tier = "blocking"
                             /\ Releasable(rows[p[2]])
<1> DEFINE prefs == [f \in DOMAIN found |->
                       IF found[f].demoted THEN <<"blocking">> ELSE <<>>]
           allowed == {r \in DOMAIN rows : Releasable(rows[r])} \ {p[2] : p \in carried}
           ps == Released(found, rows, carried)
<1>1. /\ DOMAIN found = 1 .. Len(found) /\ Len(found) \in Nat
      /\ allowed \in SUBSET Nat /\ allowed \in SUBSET DOMAIN rows
  OBVIOUS
<1>2. ps = PairInto(found, rows, prefs, allowed)
  BY DEF Released
<1>3. ASSUME NEW f \in 1 .. Len(found)
      PROVE  /\ DOMAIN prefs[f] \in SUBSET Nat
             /\ DOMAIN prefs[f] # {} => found[f].demoted
             /\ \A k \in DOMAIN prefs[f] : prefs[f][k] = "blocking"
  <2>1. CASE found[f].demoted
    <3>1. prefs[f] = <<"blocking">>
      BY <1>1, <2>1
    <3>2. DOMAIN <<"blocking">> = {1} /\ <<"blocking">>[1] = "blocking"
      OBVIOUS
    <3> HIDE DEF prefs
    <3>3. DOMAIN prefs[f] = {1} /\ prefs[f][1] = "blocking"
      BY <3>1, <3>2
    <3> QED
      BY <2>1, <3>3
  <2>2. CASE ~found[f].demoted
    <3>1. prefs[f] = <<>>
      BY <1>1, <2>2
    <3> HIDE DEF prefs
    <3> QED
      BY <3>1
  <2> QED
    BY <2>1, <2>2
<1> HIDE DEF prefs
<1>4. Paired(ps, found, rows, prefs, allowed, Len(found))
  <2> HIDE DEF allowed
  <2> QED
    BY <1>1, <1>2, <1>3, PairIntoIs
<1> HIDE DEF ps
<1>5. ASSUME NEW p \in ps
      PROVE  /\ found[p[1]].demoted /\ rows[p[2]].tier = "blocking"
             /\ Releasable(rows[p[2]])
  <2>1. /\ p[1] \in 1 .. Len(found) /\ p[2] \in allowed
        /\ \E k \in DOMAIN prefs[p[1]] : rows[p[2]].tier = prefs[p[1]][k]
    BY <1>4 DEF Paired
  <2> QED
    BY <1>3, <2>1
<1>6. /\ ps \in SUBSET ((1 .. Len(found)) \X (DOMAIN rows))
      /\ \A p, q \in ps : p[1] = q[1] \/ p[2] = q[2] => p = q
  <2> HIDE DEF allowed
  <2> QED
    BY <1>1, <1>4 DEF Paired
<1> QED
  BY <1>5, <1>6 DEF ps

\* Findings that take one row each take at most as many rows as there are findings.
LEMMA TakenAtMost ==
  ASSUME NEW F, IsFiniteSet(F), NEW R, NEW pairs \in SUBSET (F \X R),
         \A p, q \in pairs : p[1] = q[1] \/ p[2] = q[2] => p = q
  PROVE  /\ IsFiniteSet({p[2] : p \in pairs})
         /\ Cardinality({p[2] : p \in pairs}) <= Cardinality(F)
<1> DEFINE taken == {p[2] : p \in pairs}
           by == [r \in taken |-> CHOOSE f \in F : <<f, r>> \in pairs]
<1>1. ASSUME NEW r \in taken
      PROVE  by[r] \in F /\ <<by[r], r>> \in pairs
  <2>1. PICK p \in pairs : p[2] = r
    OBVIOUS
  <2>2. p[1] \in F /\ <<p[1], r>> \in pairs
    BY <2>1
  <2>3. \E f \in F : <<f, r>> \in pairs
    BY <2>2
  <2> QED
    BY <2>3
<1>2. \A r, s \in taken : by[r] = by[s] => r = s
  <2> SUFFICES ASSUME NEW r \in taken, NEW s \in taken, by[r] = by[s]
               PROVE  r = s
    OBVIOUS
  <2> DEFINE p == <<by[r], r>>
             q == <<by[s], s>>
  <2>1. p \in pairs /\ q \in pairs /\ p[1] = q[1] /\ p[2] = r /\ q[2] = s
    BY <1>1
  <2> HIDE DEF p, q
  <2>2. p = q
    BY <2>1
  <2> QED
    BY <2>1, <2>2
<1>3. by \in Injection(taken, F)
  <2>1. by \in [taken -> F]
    BY <1>1
  <2> HIDE DEF by, taken
  <2> QED
    BY <1>2, <2>1 DEF Injection, IsInjective
<1> HIDE DEF by
<1> QED
  BY <1>3, FS_Injection

\* The count misses at most one owed row for each finding demoted from blocking.
LEMMA CountIs ==
  ASSUME NEW doc \in Seq(DocType), NEW rows \in Seq(RowType)
  PROVE  LET carried == PairBlocking(doc, rows)
             released == Released(doc, rows, carried)
             demoted == {f \in DOMAIN doc : doc[f].demoted}
         IN /\ Count(doc, rows, carried, released) + Cardinality(demoted) \in Nat
            /\ Count(doc, rows, carried, released) + Cardinality(demoted)
                 >= Cardinality({r \in DOMAIN rows : Owed(rows[r].tier)})
<1> DEFINE carried == PairBlocking(doc, rows)
           released == Released(doc, rows, carried)
           blocking == {f \in DOMAIN doc : doc[f].tier = "blocking"}
           demoted == {f \in DOMAIN doc : doc[f].demoted}
           C == {p[2] : p \in carried}
           R == {p[2] : p \in released}
           paired == {p[2] : p \in carried \cup released}
           owed == {r \in DOMAIN rows : Owed(rows[r].tier)}
           left == {r \in DOMAIN rows : Owed(rows[r].tier) /\ r \notin paired}
<1>1. IsFiniteSet(DOMAIN doc) /\ IsFiniteSet(DOMAIN rows)
  <2>1. /\ DOMAIN doc = 1 .. Len(doc) /\ DOMAIN rows = 1 .. Len(rows)
        /\ Len(doc) \in Int /\ Len(rows) \in Int
    OBVIOUS
  <2> QED
    BY <2>1, FS_Interval
<1>2. /\ blocking \in SUBSET DOMAIN doc /\ demoted \in SUBSET DOMAIN doc
      /\ owed \in SUBSET DOMAIN rows /\ left \in SUBSET DOMAIN rows
  OBVIOUS
<1>3. /\ IsFiniteSet(blocking) /\ Cardinality(blocking) \in Nat
      /\ IsFiniteSet(demoted) /\ Cardinality(demoted) \in Nat
      /\ IsFiniteSet(owed) /\ Cardinality(owed) \in Nat
      /\ IsFiniteSet(left) /\ Cardinality(left) \in Nat
  <2> HIDE DEF blocking, demoted, owed, left
  <2> QED
    BY <1>1, <1>2, FS_Subset, FS_CardinalityType
<1>4. Count(doc, rows, carried, released) = Cardinality(blocking) + Cardinality(left)
  BY DEF Count
<1>5. IsFiniteSet(C) /\ Cardinality(C) <= Cardinality(blocking)
  <2>1. /\ carried \in SUBSET ((1 .. Len(doc)) \X (DOMAIN rows))
        /\ \A p, q \in carried : p[1] = q[1] \/ p[2] = q[2] => p = q
        /\ \A p \in carried : doc[p[1]].tier = "blocking"
    BY PairBlockingIs
  <2>2. carried \in SUBSET (blocking \X (DOMAIN rows))
    <3> HIDE DEF carried
    <3> QED
      BY <2>1
  <2> HIDE DEF carried, blocking
  <2> QED
    BY <1>3, <2>1, <2>2, TakenAtMost
<1>6. IsFiniteSet(R) /\ Cardinality(R) <= Cardinality(demoted)
  <2>1. /\ released \in SUBSET ((1 .. Len(doc)) \X (DOMAIN rows))
        /\ \A p, q \in released : p[1] = q[1] \/ p[2] = q[2] => p = q
        /\ \A p \in released : doc[p[1]].demoted
    <3> HIDE DEF carried
    <3> QED
      BY ReleasedIs
  <2>2. released \in SUBSET (demoted \X (DOMAIN rows))
    <3> HIDE DEF released
    <3> QED
      BY <2>1
  <2> HIDE DEF released, demoted
  <2> QED
    BY <1>3, <2>1, <2>2, TakenAtMost
<1> HIDE DEF carried, released
<1>7. owed \in SUBSET (left \cup (C \cup R))
  OBVIOUS
<1> HIDE DEF blocking, demoted, C, R, paired, owed, left
<1>8. /\ Cardinality(C) \in Nat /\ Cardinality(R) \in Nat
      /\ IsFiniteSet(C \cup R) /\ Cardinality(C \cup R) <= Cardinality(C) + Cardinality(R)
      /\ Cardinality(C \cup R) \in Nat
  <2>1. Cardinality(C) \in Nat /\ Cardinality(R) \in Nat
    BY <1>5, <1>6, FS_CardinalityType
  <2>2. Cardinality(C \cap R) \in Nat
    BY <1>5, FS_Intersection, FS_CardinalityType
  <2>3. /\ IsFiniteSet(C \cup R)
        /\ Cardinality(C \cup R) = Cardinality(C) + Cardinality(R) - Cardinality(C \cap R)
    BY <1>5, <1>6, FS_Union
  <2>4. Cardinality(C \cup R) \in Nat
    BY <2>3, FS_CardinalityType
  <2> QED
    BY <2>1, <2>2, <2>3, <2>4
<1>9. /\ IsFiniteSet(left \cup (C \cup R))
      /\ Cardinality(left \cup (C \cup R)) <= Cardinality(left) + Cardinality(C \cup R)
      /\ Cardinality(left \cup (C \cup R)) \in Nat
  <2>1. Cardinality(left \cap (C \cup R)) \in Nat
    BY <1>3, FS_Intersection, FS_CardinalityType
  <2>2. /\ IsFiniteSet(left \cup (C \cup R))
        /\ Cardinality(left \cup (C \cup R)) =
             Cardinality(left) + Cardinality(C \cup R) - Cardinality(left \cap (C \cup R))
    BY <1>3, <1>8, FS_Union
  <2>3. Cardinality(left \cup (C \cup R)) \in Nat
    BY <2>2, FS_CardinalityType
  <2> QED
    BY <1>3, <1>8, <2>1, <2>2, <2>3
<1>10. Cardinality(owed) <= Cardinality(left \cup (C \cup R))
  BY <1>7, <1>9, FS_Subset
<1>11. Cardinality(blocking) + Cardinality(left) + Cardinality(demoted) >= Cardinality(owed)
  BY <1>3, <1>5, <1>6, <1>8, <1>9, <1>10
<1>12. Cardinality(blocking) + Cardinality(left) + Cardinality(demoted) \in Nat
  BY <1>3
<1> QED
  BY <1>4, <1>11, <1>12 DEF carried, released, blocking, demoted, owed

-----------------------------------------------------------------------------
(* The theorems.                                                           *)

\* Every step keeps the invariant.
LEMMA InvNext == RereviewInv /\ [Next]_vars => RereviewInv'
<1> SUFFICES ASSUME RereviewInv, [Next]_vars PROVE RereviewInv'
  OBVIOUS
<1>1. CASE Classify
  BY <1>1, ClassifyKeeps
<1>2. CASE Pipeline
  BY <1>2, PipelineKeeps
<1>3. CASE Post
  BY <1>3, PostKeeps
<1>4. CASE EndReview
  BY <1>4, EndReviewKeeps
<1>5. CASE UNCHANGED vars
  BY <1>5 DEF vars, RereviewInv, BlockInv, RunInv, CountedInv, Remembered, Distinct, Ids
<1> QED
  BY <1>1, <1>2, <1>3, <1>4, <1>5 DEF Next

\* RereviewInv holds of every state.
THEOREM RereviewInductive == Spec => []RereviewInv
  BY InvInit, InvNext, PTL DEF Spec

\* The block, the review and the mark keep their types (TypeOK), whatever is lost
\* or posted again.
THEOREM RereviewTypeCorrect == Spec => []TypeOK
  BY RereviewInductive, InvImpliesType, PTL

\* A step within the counted phase is a post.
LEMMA OnlyPostPosts == [Next]_vars /\ Posts => Post \/ UNCHANGED vars
  BY DEF Posts, Next, Classify, Pipeline, EndReview, NoRun

\* A review is counted by the pipeline alone.
LEMMA OnlyPipelineCounts == [Next]_vars /\ Counts => Pipeline
<1> SUFFICES ASSUME [Next]_vars, Counts PROVE Pipeline
  OBVIOUS
<1>1. run.phase = "classified" /\ run'.phase = "counted"
  BY DEF Counts
<1> QED
  BY <1>1 DEF Next, Classify, Post, EndReview, NoRun, vars

\* What a post leaves of the merged rows: those the gate counts, and those the
\* review touched.
LEMMA PostLeaves ==
  ASSUME RereviewInv, Post, NEW r \in DOMAIN Merged.rows,
         Owed(Merged.rows[r].tier) \/ Merged.rows[r].id \in Merged.touched
  PROVE  \E j \in DOMAIN block'.rows : /\ block'.rows[j].id = Merged.rows[r].id
                                       /\ block'.rows[j].tier = Merged.rows[r].tier
                                       /\ block'.rows[j].issue = Merged.rows[r].issue
<1>1. run.phase = "counted" /\ Merged.hw \in 0 .. MaxId
  BY PostWrites
<1>2. PICK room : block' = [written |-> TRUE, rows |-> Capped(Merged, room), hw |-> Merged.hw]
  BY PostWrites
<1>3. /\ Merged.rows \in Seq(OpenRow) /\ Distinct(Merged.rows)
      /\ \A q \in DOMAIN Merged.rows : Merged.rows[q].id <= Merged.hw
  BY <1>1, MergedIs
<1>4. Leaves(Merged, Capped(Merged, room))
  BY <1>1, <1>3, CappedIs
<1> QED
  BY <1>2, <1>4 DEF Leaves

\* R2-S1, mergeStateFindings: an id names one finding for good.  Whatever markers,
\* losses and reviews came before, a first post names no finding with an id that a
\* block or a re-review has named (IdsAreNeverReused).
THEOREM IdsNameOneFinding == Spec => IdsAreNeverReused
<1>1. RereviewInv /\ [Next]_vars =>
        [(Posts /\ ~run.posted) => \A id \in Merged.appended : id > issued]_vars
  <2> SUFFICES ASSUME RereviewInv, [Next]_vars, Posts, NEW id \in Merged.appended
               PROVE  id > issued
    OBVIOUS
  <2>1. run.phase = "counted"
    BY DEF Posts
  <2>2. id > Mark /\ issued <= Mark /\ Mark \in 0 .. MaxId
    BY <2>1, MergedIs, MarkIs
  <2>3. issued \in 0 .. MaxId /\ MaxId \in Nat
    BY BoundsAreNat DEF RereviewInv, BlockInv
  <2>4. id \in Nat
    BY <2>1, MergedIs
  <2> QED
    BY <2>2, <2>3, <2>4
<1> QED
  BY <1>1, RereviewInductive, PTL DEF Spec, IdsAreNeverReused

\* Every finding the review posts is a row of the block it leaves, however little
\* room the comment has (PostedFindingsAreRows).
THEOREM PostedFindingsStay == Spec => PostedFindingsAreRows
<1>1. RereviewInv /\ [Next]_vars =>
        [Posts => \A f \in DOMAIN run.fresh :
           \E j \in DOMAIN block'.rows : block'.rows[j].issue = run.fresh[f].issue]_vars
  <2> SUFFICES ASSUME RereviewInv, Post, NEW f \in DOMAIN run.fresh
               PROVE  \E j \in DOMAIN block'.rows :
                        block'.rows[j].issue = run.fresh[f].issue
    BY OnlyPostPosts
  <2>1. PICK r \in DOMAIN Merged.rows : /\ Merged.rows[r].issue = run.fresh[f].issue
                                        /\ Merged.rows[r].id \in Merged.touched
    BY PostWrites, MergedIs
  <2> QED
    BY <2>1, PostLeaves
<1> QED
  BY <1>1, RereviewInductive, PTL DEF Spec, PostedFindingsAreRows

\* S7: no triage, severity, size cap or re-post clears a row the gate counts; only
\* evidence, a release or a worsening does (OnlyEvidenceClears).
THEOREM EvidenceClears == Spec => OnlyEvidenceClears
<1>1. RereviewInv /\ [Next]_vars =>
        [Posts => \A i \in DOMAIN block.rows :
           Owed(block.rows[i].tier) /\ ~Raised(block.rows[i].id) =>
             \/ \E j \in DOMAIN block'.rows :
                  block'.rows[j].id = block.rows[i].id /\ Owed(block'.rows[j].tier)
             \/ block.rows[i].id \in run.gone \cup run.released \cup run.worsened]_vars
  <2> SUFFICES ASSUME RereviewInv, Post, NEW i \in DOMAIN block.rows,
                      StillOwed(block.rows[i])
               PROVE  \E j \in DOMAIN block'.rows :
                        block'.rows[j].id = block.rows[i].id /\ Owed(block'.rows[j].tier)
    BY OnlyPostPosts DEF StillOwed
  <2>1. run.phase = "counted"
    BY PostWrites
  <2>2. PICK b \in DOMAIN Base : Base[b].id = block.rows[i].id /\ Owed(Base[b].tier)
    BY <2>1, BaseIs
  <2>3. PICK r \in DOMAIN Merged.rows :
          Merged.rows[r].id = Base[b].id /\ Owed(Merged.rows[r].tier)
    BY <2>1, <2>2, MergedIs
  <2>4. PICK j \in DOMAIN block'.rows : /\ block'.rows[j].id = Merged.rows[r].id
                                        /\ block'.rows[j].tier = Merged.rows[r].tier
    BY <2>3, PostLeaves
  <2> QED
    BY <2>2, <2>3, <2>4
<1> QED
  BY <1>1, RereviewInductive, PTL DEF Spec, OnlyEvidenceClears

\* The rows of the priors that the gate still counts are among its rows.
LEMMA GateRowsAre ==
  ASSUME RereviewInv, run.phase = "classified", NEW found \in Seq(SurvivorType),
         NEW worsened \in SUBSET DOMAIN block.rows,
         NEW verdict \in [DOMAIN block.rows -> Verdicts]
  PROVE  LET status == Statuses(run.settled, worsened, verdict)
             S == {i \in DOMAIN block.rows : status[i] \notin {"verified-gone", "ci-dismissed"}}
             G == GateRows(block.rows, status)
         IN /\ G \in Seq(RowType)
            /\ InOrder(S) \in [DOMAIN G -> S]
            /\ \A k \in DOMAIN G : G[k] = block.rows[InOrder(S)[k]]
            /\ \A i \in S : \E k \in DOMAIN G : InOrder(S)[k] = i
            /\ \A i \in DOMAIN block.rows :
                 (/\ "verified-gone" \notin {run.settled[i].status, verdict[i]}
                  /\ run.settled[i].status # "ci-dismissed") => i \in S
<1> DEFINE status == Statuses(run.settled, worsened, verdict)
           S == {i \in DOMAIN block.rows : status[i] \notin {"verified-gone", "ci-dismissed"}}
           G == GateRows(block.rows, status)
<1>1. /\ block.rows \in Seq(RowType)
      /\ run.settled \in [DOMAIN block.rows -> SettledType]
  BY DEF RereviewInv, BlockInv, RunInv
<1>2. G = At(block.rows, S)
  BY DEF GateRows
<1>3. \A i \in DOMAIN block.rows :
        (/\ "verified-gone" \notin {run.settled[i].status, verdict[i]}
         /\ run.settled[i].status # "ci-dismissed") => i \in S
  <2> SUFFICES ASSUME NEW i \in DOMAIN block.rows,
                      "verified-gone" \notin {run.settled[i].status, verdict[i]},
                      run.settled[i].status # "ci-dismissed"
               PROVE  i \in S
    OBVIOUS
  <2> DEFINE n == DOMAIN block.rows
             settled == run.settled
  <2>0. settled \in [n -> SettledType] /\ worsened \in SUBSET n
        /\ verdict \in [n -> Verdicts] /\ i \in n
    BY <1>1
  <2>1. /\ status[i] = "verified-gone" =>
             "verified-gone" \in {settled[i].status, verdict[i]}
        /\ status[i] = "ci-dismissed" => settled[i].status = "ci-dismissed"
    <3> HIDE DEF n, settled
    <3>1. /\ Statuses(settled, worsened, verdict)[i] = "verified-gone" =>
               "verified-gone" \in {settled[i].status, verdict[i]}
          /\ Statuses(settled, worsened, verdict)[i] = "ci-dismissed" =>
               settled[i].status = "ci-dismissed"
      BY <2>0, KeptIs
    <3> QED
      BY <3>1 DEF settled
  <2> QED
    BY <2>1
<1>4. S \in SUBSET DOMAIN block.rows
  OBVIOUS
<1> HIDE DEF S, G
<1>5. /\ G \in Seq(RowType)
      /\ InOrder(S) \in [DOMAIN G -> S]
      /\ \A k \in DOMAIN G : G[k] = block.rows[InOrder(S)[k]]
      /\ \A i \in S : \E k \in DOMAIN G : InOrder(S)[k] = i
  BY <1>1, <1>2, <1>4, AtIs
<1> QED
  BY <1>3, <1>5 DEF S, G

\* Gate: a review counts every prior that neither evidence nor the CI adjudicator
\* cleared, less one for each finding demoted from blocking, and releases none that
\* is guarded or whose claim it cannot read (GateCountsWhatIsOwed).
THEOREM GateCounts == Spec => GateCountsWhatIsOwed
<1> DEFINE rows == block.rows
           owed == {i \in DOMAIN rows : /\ Owed(rows[i].tier)
                                        /\ rows[i].id \notin run'.gone
                                        /\ run.settled[i].status # "ci-dismissed"}
           OK == /\ run'.count + run'.demoted >= Cardinality(owed)
                 /\ \A i \in DOMAIN rows : rows[i].id \in run'.released =>
                      /\ rows[i].tier = "blocking"
                      /\ rows[i].issue \notin Guarded \cup Unreadable
<1>1. ASSUME RereviewInv, [Next]_vars, Counts
      PROVE  OK
  <2>0. Pipeline /\ run.phase = "classified"
    BY <1>1, OnlyPipelineCounts DEF Counts
  <2>1. PICK found \in Seq(SurvivorType), worsened \in SUBSET DOMAIN block.rows,
             verdict \in [DOMAIN block.rows -> Verdicts] :
               run' = Counted(found, worsened, verdict)
    BY <2>0, PipelineCounts
  <2> DEFINE status == Statuses(run.settled, worsened, verdict)
             S == {i \in DOMAIN rows : status[i] \notin {"verified-gone", "ci-dismissed"}}
             G == GateRows(rows, status)
             doc == Document(found)
             carried == PairBlocking(doc, G)
             released == Released(doc, G, carried)
             inGate == {r \in DOMAIN G : Owed(G[r].tier)}
  <2>2. /\ run'.count = Count(doc, G, carried, released)
        /\ run'.demoted = Cardinality({f \in DOMAIN doc : doc[f].demoted})
        /\ run'.released = {G[p[2]].id : p \in released}
        /\ run'.gone = {rows[i].id : i \in {j \in DOMAIN rows :
                          "verified-gone" \in {run.settled[j].status, verdict[j]}}}
    BY <2>1 DEF Counted
  <2>3. /\ G \in Seq(RowType)
        /\ InOrder(S) \in [DOMAIN G -> S]
        /\ \A k \in DOMAIN G : G[k] = rows[InOrder(S)[k]]
        /\ \A i \in S : \E k \in DOMAIN G : InOrder(S)[k] = i
        /\ \A i \in DOMAIN rows :
             (/\ "verified-gone" \notin {run.settled[i].status, verdict[i]}
              /\ run.settled[i].status # "ci-dismissed") => i \in S
    BY <1>1, <2>0, GateRowsAre
  <2>4. doc \in Seq(DocType)
    BY DocumentIs
  <2>5. S \in SUBSET DOMAIN rows
    OBVIOUS
  <2> HIDE DEF status, S, G, doc
  <2>6. run'.count + run'.demoted >= Cardinality(inGate)
    BY <2>2, <2>3, <2>4, CountIs
  <2>7. IsFiniteSet(inGate) /\ Cardinality(inGate) \in Nat
    <3>1. DOMAIN G = 1 .. Len(G) /\ Len(G) \in Int
      BY <2>3
    <3>2. IsFiniteSet(DOMAIN G) /\ inGate \in SUBSET DOMAIN G
      BY <3>1, FS_Interval
    <3> HIDE DEF inGate
    <3> QED
      BY <3>2, FS_Subset, FS_CardinalityType
  <2>8. ASSUME NEW i \in owed
        PROVE  \E r \in inGate : InOrder(S)[r] = i
    <3>1. "verified-gone" \notin {run.settled[i].status, verdict[i]}
      BY <2>2
    <3>2. PICK r \in DOMAIN G : InOrder(S)[r] = i
      BY <2>3, <3>1
    <3> QED
      BY <2>3, <3>2
  <2> DEFINE place == [i \in owed |-> CHOOSE r \in inGate : InOrder(S)[r] = i]
  <2> HIDE DEF owed, inGate, rows
  <2>9. place \in Injection(owed, inGate)
    <3>1. \A i \in owed : place[i] \in inGate /\ InOrder(S)[place[i]] = i
      BY <2>8
    <3>2. place \in [owed -> inGate]
      BY <3>1
    <3>3. \A i, j \in owed : place[i] = place[j] => i = j
      BY <3>1
    <3> QED
      BY <3>2, <3>3 DEF Injection, IsInjective
  <2> HIDE DEF place
  <2>10. Cardinality(owed) <= Cardinality(inGate) /\ Cardinality(owed) \in Nat
    <3>1. IsFiniteSet(owed) /\ Cardinality(owed) <= Cardinality(inGate)
      BY <2>7, <2>9, FS_Injection
    <3> QED
      BY <3>1, FS_CardinalityType
  <2>11. run'.count + run'.demoted \in Nat
    BY <2>2, <2>3, <2>4, CountIs
  <2>12. run'.count + run'.demoted >= Cardinality(owed)
    BY <2>6, <2>7, <2>10, <2>11
  <2>13. ASSUME NEW i \in DOMAIN rows, rows[i].id \in run'.released
         PROVE  rows[i].tier = "blocking" /\ rows[i].issue \notin Guarded \cup Unreadable
    <3>1. PICK p \in released : rows[i].id = G[p[2]].id
      BY <2>2, <2>13
    <3>2. p[2] \in DOMAIN G /\ G[p[2]].tier = "blocking" /\ Releasable(G[p[2]])
      <4>1. /\ released \in SUBSET ((1 .. Len(doc)) \X (DOMAIN G))
            /\ \A q \in released : G[q[2]].tier = "blocking" /\ Releasable(G[q[2]])
        <5> HIDE DEF carried
        <5> QED
          BY <2>3, <2>4, ReleasedIs
      <4> HIDE DEF released
      <4> QED
        BY <4>1
    <3>3. /\ InOrder(S)[p[2]] \in DOMAIN rows
          /\ G[p[2]] = rows[InOrder(S)[p[2]]]
      BY <2>3, <2>5, <3>2
    <3>4. InOrder(S)[p[2]] = i
      BY <1>1, <3>1, <3>3 DEF RereviewInv, BlockInv, Distinct, rows
    <3> QED
      BY <3>2, <3>3, <3>4 DEF Releasable
  <2> QED
    BY <2>12, <2>13 DEF owed, rows
<1>2. RereviewInv /\ [Next]_vars => [Counts => OK]_vars
  BY <1>1
<1> QED
  BY <1>2, RereviewInductive, PTL DEF Spec, GateCountsWhatIsOwed
=============================================================================

------------------------ MODULE MCConcurrencyLimiter ------------------------
EXTENDS ConcurrencyLimiter, TLC

CONSTANTS a1, a2, a3, b1, b2, bktA, bktB

\* A bucket with three callers and one with two.
MCSteps == {a1, a2, a3, b1, b2}
MCBuckets == {bktA, bktB}
MCBucketOf == [s \in MCSteps |-> IF s \in {b1, b2} THEN bktB ELSE bktA]

\* Callers of one bucket are interchangeable.
Symmetry == Permutations({a1, a2, a3}) \cup Permutations({b1, b2})
=============================================================================

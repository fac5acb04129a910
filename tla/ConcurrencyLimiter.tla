------------------------- MODULE ConcurrencyLimiter -------------------------
(***************************************************************************)
(* The per-bucket and global concurrency limiter every provider attempt    *)
(* passes (src/src/execution/concurrency-limiter.ts), together with the    *)
(* admission gate that wraps it (src/src/execution/admission.ts).          *)
(*                                                                         *)
(* The limiter is synchronous JavaScript: acquire, the abort listener,     *)
(* tripBreaker and release each run to completion, pumping included, so    *)
(* each is one action.  What interleaves is the order of these calls.      *)
(*                                                                         *)
(* A step is a caller.  It has one request at a time and may ask again     *)
(* once that request is released or rejected, as a retry does.             *)
(***************************************************************************)
EXTENDS Integers, Sequences, FiniteSets, SequencesExt

CONSTANTS
  Steps,          \* callers of the limiter
  Buckets,        \* provider buckets
  BucketOf,       \* the bucket each step's attempts are admitted to
  BucketCeiling,  \* ConcurrencyLimiterOptions.bucketCeiling
  GlobalCeiling   \* globalCeiling; at least |Steps| stands for "no global cap"

ASSUME StepsAssumption == IsFiniteSet(Steps)
ASSUME BucketOfAssumption == BucketOf \in [Steps -> Buckets]
ASSUME CeilingAssumption == BucketCeiling \in Nat /\ GlobalCeiling \in Nat

VARIABLES
  inUse,        \* bucketInUse
  globalInUse,  \* globalInUse
  queue,        \* bucketQueues: the FIFO of each bucket
  order,        \* the key order of the bucketQueues Map (first acquire first)
  tripped,      \* trippedBuckets
  aborted,      \* the steps whose AbortSignal has fired
  status        \* what became of each step's latest request

vars == <<inUse, globalInUse, queue, order, tripped, aborted, status>>

Status == {"idle", "queued", "held", "released", "aborted", "breaker"}

Lesser(m, n) == IF m <= n THEN m ELSE n

\* Mutant: pump() forgets the global ceiling.
AdmitsPastGlobal(q, u, g) ==
  IF BucketCeiling <= u THEN 0 ELSE Lesser(Len(q), BucketCeiling - u)

\* The number of requests one pump call shifts off a queue q whose bucket has
\* u slots in use, when g slots are in use overall.
Admits(q, u, g) ==
  LET room == Lesser(BucketCeiling - u, GlobalCeiling - g)
  IN  IF room <= 0 THEN 0 ELSE Lesser(Len(q), room)

First(q, n) == {q[i] : i \in 1..n}
AfterFirst(q, n) == SubSeq(q, n + 1, Len(q))

-----------------------------------------------------------------------------
Init ==
  /\ inUse = [b \in Buckets |-> 0]
  /\ globalInUse = 0
  /\ queue = [b \in Buckets |-> <<>>]
  /\ order = <<>>
  /\ tripped = {}
  /\ aborted = {}
  /\ status = [s \in Steps |-> "idle"]

Asks(s) == status[s] \notin {"queued", "held"}

\* acquire() on a tripped bucket, or with a signal that already fired: the
\* promise is rejected and nothing is queued.
AcquireRefused(s) ==
  /\ Asks(s)
  /\ \/ /\ BucketOf[s] \in tripped
        /\ status' = [status EXCEPT ![s] = "breaker"]
     \/ /\ BucketOf[s] \notin tripped
        /\ s \in aborted
        /\ status' = [status EXCEPT ![s] = "aborted"]
  /\ UNCHANGED <<inUse, globalInUse, queue, order, tripped, aborted>>

\* acquire(): queue the request behind the others and pump its own bucket.
Acquire(s) ==
  LET b == BucketOf[s]
      q == Append(queue[b], s)
      n == Admits(q, inUse[b], globalInUse)
  IN  /\ Asks(s)
      /\ b \notin tripped
      /\ s \notin aborted
      /\ order' = IF b \in ToSet(order) THEN order ELSE Append(order, b)
      /\ queue' = [queue EXCEPT ![b] = AfterFirst(q, n)]
      /\ status' = [t \in Steps |-> IF t \in First(q, n) THEN "held"
                                    ELSE IF t = s THEN "queued" ELSE status[t]]
      /\ inUse' = [inUse EXCEPT ![b] = @ + n]
      /\ globalInUse' = globalInUse + n
      /\ UNCHANGED <<tripped, aborted>>

\* The caller's AbortSignal fires.  A queued request leaves its queue and is
\* rejected; one that was granted has detached its listener and keeps its slot.
Abort(s) ==
  LET b == BucketOf[s]
  IN  /\ s \notin aborted
      /\ aborted' = aborted \cup {s}
      /\ \/ /\ status[s] = "queued"
            /\ \E i \in 1..Len(queue[b]) :
                 /\ queue[b][i] = s
                 /\ queue' = [queue EXCEPT ![b] = RemoveAt(queue[b], i)]
            /\ status' = [status EXCEPT ![s] = "aborted"]
         \/ /\ status[s] # "queued"
            /\ UNCHANGED <<queue, status>>
      /\ UNCHANGED <<inUse, globalInUse, order, tripped>>

\* tripBreaker(): for the rest of the run; every queued request is rejected.
TripBreaker(b) ==
  /\ b \notin tripped
  /\ tripped' = tripped \cup {b}
  /\ queue' = [queue EXCEPT ![b] = <<>>]
  /\ status' = [s \in Steps |-> IF s \in ToSet(queue[b]) THEN "breaker"
                                ELSE status[s]]
  /\ UNCHANGED <<inUse, globalInUse, order, aborted>>

\* Mutant: release() pumps its own bucket only.
PumpedOwnOnly(b, own) == [i \in 0..Len(order) |-> globalInUse - 1 + own]

\* The loop of release(): the bucket that released is pumped first, with own
\* admissions, then every other bucket in Map order.  The i-th value is the
\* number of slots in use after the i-th bucket of that order was pumped.
PumpedInOrder(b, own) ==
  LET g[i \in 0..Len(order)] ==
        IF i = 0 THEN globalInUse - 1 + own
        ELSE g[i - 1] + (IF order[i] = b THEN 0
                         ELSE Admits(queue[order[i]], inUse[order[i]], g[i - 1]))
  IN  g

\* lease.release() of a live lease.
Release(s) ==
  LET b   == BucketOf[s]
      own == Admits(queue[b], inUse[b] - 1, globalInUse - 1)
      g   == PumpedInOrder(b, own)
      Taken(x) ==
        IF x = b THEN own
        ELSE IF x \in ToSet(order)
               THEN LET i == CHOOSE j \in 1..Len(order) : order[j] = x
                    IN  g[i] - g[i - 1]
               ELSE 0
  IN  /\ status[s] = "held"
      /\ queue' = [x \in Buckets |-> AfterFirst(queue[x], Taken(x))]
      /\ status' = [t \in Steps |->
           IF t \in First(queue[BucketOf[t]], Taken(BucketOf[t]))
             THEN "held"
             ELSE IF t = s THEN "released" ELSE status[t]]
      /\ inUse' = [x \in Buckets |->
           inUse[x] + Taken(x) - (IF x = b THEN 1 ELSE 0)]
      /\ globalInUse' = g[Len(order)]
      /\ UNCHANGED <<order, tripped, aborted>>

\* Mutant: no released flag.
ReleaseCountsTwice(s) ==
  /\ status[s] = "released"
  /\ inUse' = [inUse EXCEPT ![BucketOf[s]] = @ - 1]
  /\ globalInUse' = globalInUse - 1
  /\ UNCHANGED <<queue, order, tripped, aborted, status>>

\* A second release() of a lease already released returns at once.
ReleaseAgain(s) ==
  /\ status[s] = "released"
  /\ UNCHANGED vars

Next ==
  \/ \E s \in Steps :
       AcquireRefused(s) \/ Acquire(s) \/ Abort(s) \/ Release(s) \/ ReleaseAgain(s)
  \/ \E b \in Buckets : TripBreaker(b)

Spec == Init /\ [][Next]_vars

-----------------------------------------------------------------------------
Held == {s \in Steps : status[s] = "held"}
HeldIn(b) == {s \in Held : BucketOf[s] = b}
Queued == {s \in Steps : status[s] = "queued"}

TypeOK ==
  /\ inUse \in [Buckets -> Nat]
  /\ globalInUse \in Nat
  /\ queue \in [Buckets -> Seq(Steps)]
  /\ order \in Seq(Buckets)
  /\ tripped \subseteq Buckets
  /\ aborted \subseteq Steps
  /\ status \in [Steps -> Status]

\* A queue holds the waiting requests of its bucket, each once: an aborted,
\* rejected or granted request has left it, and nobody waits on a tripped bucket.
QueueIsWaiters ==
  \A b \in Buckets :
    /\ ToSet(queue[b]) = {s \in Queued : BucketOf[s] = b}
    /\ \A i, j \in 1..Len(queue[b]) : queue[b][i] = queue[b][j] => i = j
    /\ b \in tripped => queue[b] = <<>>

\* The state is well-formed, the two counters count leases and the queues hold
\* the waiters: every slot counted is a lease somebody holds, whatever was aborted,
\* rejected or released twice on the way.
SlotAccounting ==
  /\ TypeOK
  /\ \A b \in Buckets : inUse[b] = Cardinality(HeldIn(b))
  /\ globalInUse = Cardinality(Held)
  /\ QueueIsWaiters

\* No request waits while its bucket and the run both have a free slot: every
\* call that frees capacity hands it on, also to buckets other than its own.
NoIdleCapacity ==
  \A b \in Buckets :
    queue[b] # <<>> => inUse[b] = BucketCeiling \/ globalInUse = GlobalCeiling

Slots == INSTANCE AdmissionSlots
           WITH holders <- Held, waiters <- Queued, shut <- tripped

\* Every call to the limiter is a step of the abstract slot allocator: it keeps
\* both ceilings and hands out at once whatever capacity is free and wanted.
ImplementsSlots == Slots!Spec
=============================================================================

--------------------------- MODULE TransportLeases ---------------------------
(***************************************************************************)
(* The leases of one route's cached transport: MultiProviderRunner.run and *)
(* DefaultActiveTransportLeaseTracker of src/src/production-runtime.ts     *)
(* over the route cache of src/src/transport-registry.ts.                  *)
(*                                                                         *)
(* Every step of the route acquires the cached transport, runs, tears the  *)
(* shared server down if it is the last one, and ends its lease.  The last *)
(* two go through a promise chain per route, which is a FIFO mutex.        *)
(* Acquiring does not: it is synchronous and may fall anywhere.            *)
(***************************************************************************)
EXTENDS Integers, Sequences, FiniteSets

CONSTANT Steps   \* the steps of the run on this route, each run once

ASSUME LeaseStepsAssumption == IsFiniteSet(Steps)

VARIABLES
  refcount,  \* refcounts[routeKey]
  gate,      \* the promise chain: who holds it, then who waits
  cached,    \* routeInstances[routeKey]: a transport instance, 0 if none
  made,      \* instances constructed so far
  inst,      \* the instance each step was given
  open,      \* instances whose server runs
  pc         \* where each step is

leaseVars == <<refcount, gate, cached, made, inst, open, pc>>

LeaseInit ==
  /\ refcount = 0 /\ gate = <<>> /\ cached = 0 /\ made = 0
  /\ inst = [s \in Steps |-> 0]
  /\ open = {}
  /\ pc = [s \in Steps |-> "idle"]

Goto(s, label) == pc' = [pc EXCEPT ![s] = label]
AtGate(s) == gate # <<>> /\ Head(gate) = s

\* FrozenRuntimeBinding.acquire: take the cached instance or make one, and
\* register the lease, in one turn.
Acquire(s) ==
  /\ pc[s] = "idle"
  /\ LET i == IF cached = 0 THEN made + 1 ELSE cached
     IN  /\ cached' = i
         /\ made' = IF cached = 0 THEN i ELSE made
         /\ inst' = [inst EXCEPT ![s] = i]
  /\ refcount' = refcount + 1
  /\ Goto(s, "leased")
  /\ UNCHANGED <<gate, open>>

\* The first session launches the server; a session that completes leaves it up.
Use(s) ==
  /\ pc[s] = "leased"
  /\ open' = open \cup {inst[s]}
  /\ Goto(s, "using")
  /\ UNCHANGED <<refcount, gate, cached, made, inst>>

\* harness.run is over, by return or by throw: its hook asks for the teardown.
EndRun(s) ==
  /\ pc[s] \in {"leased", "using"}
  /\ gate' = Append(gate, s)
  /\ Goto(s, "teardown")
  /\ UNCHANGED <<refcount, cached, made, inst, open>>

\* harness.run refused the step before its credential projection: no hook runs.
Refused(s) ==
  /\ pc[s] = "leased"
  /\ gate' = Append(gate, s)
  /\ Goto(s, "ending")
  /\ UNCHANGED <<refcount, cached, made, inst, open>>

\* Mutant: the teardown does not ask whether it is the last.
TeardownAlways(s) ==
  /\ pc[s] = "teardown" /\ AtGate(s)
  /\ open' = open \ {inst[s]}
  /\ Goto(s, "disposing")
  /\ UNCHANGED <<refcount, gate, cached, made, inst>>

\* teardownTransportIfLast, holding the gate: the check and the start of the
\* dispose are one turn, the dispose keeps the gate until it is through.
Teardown(s) ==
  /\ pc[s] = "teardown" /\ AtGate(s)
  /\ IF refcount = 1
       THEN /\ open' = open \ {inst[s]}
            /\ Goto(s, "disposing")
            /\ UNCHANGED gate
       ELSE /\ gate' = Tail(gate)
            /\ Goto(s, "torndown")
            /\ UNCHANGED open
  /\ UNCHANGED <<refcount, cached, made, inst>>

\* Mutant: no finally around dispose(); the gate stays shut when it throws.
DisposedStuck(s) ==
  /\ pc[s] = "disposing"
  /\ \/ gate' = Tail(gate)
     \/ UNCHANGED gate
  /\ Goto(s, "torndown")
  /\ UNCHANGED <<refcount, cached, made, inst, open>>

\* dispose() resolved or threw; the finally block opens the gate either way.
Disposed(s) ==
  /\ pc[s] = "disposing"
  /\ gate' = Tail(gate)
  /\ Goto(s, "torndown")
  /\ UNCHANGED <<refcount, cached, made, inst, open>>

\* The credential projection is destroyed; then the runner disposes the lease.
DisposeLease(s) ==
  /\ pc[s] = "torndown"
  /\ gate' = Append(gate, s)
  /\ Goto(s, "ending")
  /\ UNCHANGED <<refcount, cached, made, inst, open>>

\* endLease, holding the gate: the last lease evicts the route's instance.
EndLease(s) ==
  /\ pc[s] = "ending" /\ AtGate(s)
  /\ refcount' = IF refcount <= 1 THEN 0 ELSE refcount - 1
  /\ cached' = IF refcount <= 1 THEN 0 ELSE cached
  /\ gate' = Tail(gate)
  /\ Goto(s, "done")
  /\ UNCHANGED <<made, inst, open>>

Proceeds(s) ==
  Use(s) \/ EndRun(s) \/ Refused(s) \/ Teardown(s) \/ Disposed(s)
  \/ DisposeLease(s) \/ EndLease(s)

LeaseNext == \E s \in Steps : Acquire(s) \/ Proceeds(s)

\* A started step settles (StepHarness) and its dispose answers; whether another
\* step is ever started is the pipeline's business.
LeaseSpec == LeaseInit /\ [][LeaseNext]_leaseVars /\ \A s \in Steps : WF_leaseVars(Proceeds(s))

-----------------------------------------------------------------------------
Holders == {s \in Steps : pc[s] \notin {"idle", "done"}}

LeaseTypeOK ==
  /\ refcount \in Nat
  /\ gate \in Seq(Steps)
  /\ \A i, j \in 1..Len(gate) : gate[i] = gate[j] => i = j
  /\ cached \in Nat /\ made \in Nat
  /\ inst \in [Steps -> Nat]
  /\ open \subseteq Nat
  /\ pc \in [Steps -> {"idle", "leased", "using", "teardown", "disposing",
                       "torndown", "ending", "done"}]

\* The count is the number of leases out, and all of them are on the instance
\* the registry hands out: nobody is left on an evicted transport.
LeasesShareTheCached ==
  /\ refcount = Cardinality(Holders)
  /\ \A s \in Holders : inst[s] = cached

\* No teardown closes the server under a step that is using it, although a step
\* may acquire the transport between another's check and its lease's end.
ServerStaysUpForUsers == \A s \in Steps : pc[s] = "using" => inst[s] \in open

\* The gate is never abandoned: every step that took a lease gives it back.
LeaseEnds == \A s \in Steps : pc[s] = "leased" ~> pc[s] = "done"

\* The comments "tear down the shared client/server ... when this step is the last
\* active lease" (execution/harness.ts) and "disposes stream/client/server before
\* credential projection destroy" (production-runtime.ts): once no lease is out,
\* no server is left running.
LastLeaseDisposes == Holders = {} => open = {}
=============================================================================

----------------------------- MODULE Resilience ------------------------------
(***************************************************************************)
(* The parts of packages/resilience side by side: circuit, bulkhead, retry *)
(* and the pods that share a circuit.  What is promised of each is stated  *)
(* here under its own name.                                                *)
(***************************************************************************)
EXTENDS CircuitBreaker, BulkheadConfig

CONSTANTS MaxAttempts,                                            \* of Retry
          Pods, Behind, Quota, MaxFailures, MaxProbes, MaxTroubles  \* of CircuitFleet

VARIABLES part,  \* which of them a behaviour is of
          inFlight, queue, woken, pc, calm,
          attempts, at, attempt, lastErr, timer, aborted, ran,
          podState, podInFlight, probes, last, read, store, late, clock, failures, delays, acts

bulkheadVars == <<inFlight, queue, woken, pc, calm>>
circuitVars  == vars
retryVars    == <<attempts, at, attempt, lastErr, timer, aborted, ran>>
fleetVars    == <<podState, podInFlight, probes, last, read, store, late, clock, failures, delays, acts>>

Bulkhead == INSTANCE Bulkhead

Retry == INSTANCE Retry

Fleet == INSTANCE CircuitFleet WITH
    HalfOpenAfter <- Quota, state <- podState, inFlight <- podInFlight

ASSUME AttemptsAssumption == MaxAttempts \in Nat \ {0}

\* With one probe at a time, calls that settle within `timeout` and no operator
\* the circuit is the machine drawn in its header (circuit-breaker.ts:15-31).
PromptDiagram ==
    /\ part = "prompt" => Diagram!Init
    /\ [][part = "prompt" => [Diagram!Next]_(Diagram!vars)]_<<part, circuitVars>>

ImplementsSemaphore == Bulkhead!ImplementsSemaphore
DeadlineStops       == Retry!DeadlineStops
==============================================================================

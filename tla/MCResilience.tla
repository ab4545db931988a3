---------------------------- MODULE MCResilience -----------------------------
(***************************************************************************)
(* The parts of packages/resilience in one configuration.  A behaviour     *)
(* exercises the part named by `part`; the variables of the others rest.   *)
(***************************************************************************)
EXTENDS Resilience, TLC

CONSTANTS p1, p2

VARIABLE watched  \* the caller of the bulkhead whose wait is followed, any of them

all == <<part, watched, bulkheadVars, circuitVars, retryVars, fleetVars>>

\* The clock of one pod is behind that of the other.
MCBehind == p1 :> 0 @@ p2 :> 1

\* The circuit of the configuration has the default quota of one probe and no
\* operator, and calls shorter than the timeout where `part` is "prompt"; this one
\* two probes, stragglers of every period and an operator.
Straggling == INSTANCE CircuitBreaker WITH
    HalfOpenAfter <- 2, WindowBound <- 5, Operator <- TRUE

PartsInit ==
    /\ part \in {"bulkhead", "circuit", "prompt", "retry", "fleet"}
    /\ watched \in Callers
    /\ Bulkhead!Init /\ (part # "bulkhead" => calm /\ watched = CHOOSE c \in Callers : TRUE)
    /\ Init
    /\ Retry!Init /\ (part # "retry" => attempts = 1 /\ timer = "none")
    /\ Fleet!Init

Bulkheads == part = "bulkhead" /\ Bulkhead!Next /\ UNCHANGED <<part, circuitVars, retryVars, fleetVars>>
Circuits  == part = "circuit" /\ Straggling!Next /\ UNCHANGED <<part, bulkheadVars, retryVars, fleetVars>>
Prompts   == part = "prompt" /\ PromptNext /\ UNCHANGED <<part, bulkheadVars, retryVars, fleetVars>>
Retries   == part = "retry" /\ Retry!Next /\ UNCHANGED <<part, bulkheadVars, circuitVars, fleetVars>>
Fleets    == part = "fleet" /\ Fleet!Next /\ UNCHANGED <<part, bulkheadVars, circuitVars, retryVars>>

\* A retry that has settled is at rest, and so are pods with closed circuits.
Rest ==
    /\ \/ part = "retry" /\ Retry!Settled
       \/ part = "fleet" /\ \A p \in {p1, p2} : podState[p] = "closed"
    /\ UNCHANGED all

PartsNext ==
    /\ Bulkheads \/ Circuits \/ Prompts \/ Retries \/ Fleets \/ Rest
    /\ UNCHANGED watched

\* The fairness of each part, as its module states it, and for prompt calls too.
BulkheadFairness ==
    /\ WF_bulkheadVars(part = "bulkhead" /\ \E c \in Callers : Bulkhead!Resume(c))
    /\ \A c \in Callers : WF_bulkheadVars(part = "bulkhead" /\ Bulkhead!Finish(c))

CircuitFairness ==
    /\ WF_circuitVars(part = "circuit" /\ Straggling!Cool)
    /\ WF_circuitVars(part = "prompt" /\ Busy = {} /\ Cool)
    /\ \A c \in Calls :
          WF_circuitVars(\E sample \in Samples :
                             \/ part = "circuit" /\ Straggling!Settle(c, sample)
                             \/ part = "prompt" /\ Settle(c, sample))

RetryFairness ==
    /\ WF_retryVars(part = "retry" /\ (Retry!Attempt \/ Retry!Wake))
    /\ WF_retryVars(part = "retry" /\ (Retry!Return \/ \E retryable \in BOOLEAN : Retry!Throw(retryable)))

FleetFairness ==
    \A p \in {p1, p2} :
        /\ WF_fleetVars(part = "fleet" /\ Fleet!SyncLate(p))
        /\ WF_fleetVars(part = "fleet" /\ Fleet!Cool(p))
        /\ WF_fleetVars(part = "fleet" /\ Fleet!Probe(p))
        /\ WF_fleetVars(part = "fleet" /\ \E ok \in BOOLEAN : Fleet!ProbeEnds(p, ok))

PartsSpec ==
    /\ PartsInit /\ [][PartsNext]_all
    /\ BulkheadFairness /\ CircuitFairness /\ RetryFairness /\ FleetFairness

\* Every caller is watched in some behaviour, so that all waiters run in the end
\* if the one that is watched does (EveryWaiterRuns of Bulkhead).
EveryWaiterRuns == pc[watched] = "queued" ~> pc[watched] = "running"

\* Every call of retry() settles if every fn() does (CallSettles of Retry).
CallSettles   == part = "retry" => Retry!CallSettles

\* When failures have stopped, every circuit of the fleet closes and stays closed
\* (FleetRecovers of CircuitFleet).
FleetRecovers == part = "fleet" => Fleet!FleetRecovers
==============================================================================

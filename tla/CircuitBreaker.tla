--------------------------- MODULE CircuitBreaker ----------------------------
(***************************************************************************)
(* One circuit of packages/resilience/src/circuit-breaker.ts in a process  *)
(* of its own (no cross-pod store: `_store` is undefined, so execute() and *)
(* transition() touch local state only).                                   *)
(*                                                                         *)
(* execute() is two runs of JavaScript: up to the await of fn(), and the   *)
(* finally block that calls record() once fn() has settled.  Any number of *)
(* calls may be between the two, each with the state it saw when it        *)
(* started (stateAtCall), whatever has become of the circuit since.        *)
(*                                                                         *)
(* Time is abstracted to what the code asks of it.  `cooled` says whether  *)
(* `timeout` ms have passed since openedAt; and each record() finds that   *)
(* some of the oldest samples have left the rolling window.                *)
(***************************************************************************)
EXTENDS Naturals, Sequences, FiniteSets

CONSTANTS Calls,          \* callers of execute(), one call each at a time
          HalfOpenAfter,  \* config.halfOpenAfter
          MinCalls,       \* config.minCalls
          ThresholdNum,   \* config.threshold, as the fraction
          ThresholdDen,   \*   ThresholdNum / ThresholdDen
          WindowBound,    \* bound: samples that one rolling window may hold
          Operator        \* whether somebody calls forceOpen, forceClose, reset

ASSUME CircuitAssumption ==
    /\ HalfOpenAfter \in Nat
    /\ MinCalls \in Nat
    /\ ThresholdNum \in Nat
    /\ ThresholdDen \in Nat
    /\ WindowBound \in Nat \ {0}
    /\ Operator \in BOOLEAN

VARIABLES state,             \* this.state
          samples,           \* this.samples, oldest first: how each call ended
          cooled,            \* Date.now() - this.openedAt >= config.timeout
          halfOpenInFlight,  \* this.halfOpenInFlight
          halfOpenAllowed,   \* this.halfOpenAllowed
          call,              \* each caller: not in execute(), or its stateAtCall
          fresh              \* history: probes let in since the circuit last
                             \*   became half-open and still running

circuit == <<state, samples, cooled, halfOpenInFlight, halfOpenAllowed>>
vars == <<state, samples, cooled, halfOpenInFlight, halfOpenAllowed, call, fresh>>

States  == {"closed", "open", "half-open"}
Outside == {"idle", "refused"}
Busy    == {c \in Calls : call[c] \notin Outside}
Probes  == {c \in Calls : call[c] = "half-open"}

Init ==
    /\ state = "closed"
    /\ samples = <<>>
    /\ cooled = FALSE
    /\ halfOpenInFlight = 0
    /\ halfOpenAllowed = 0
    /\ call = [c \in Calls |-> "idle"]
    /\ fresh = {}

------------------------------------------------------------------------------
(* The getter currentState: what it returns and what it leaves behind *)

\* It finds the circuit open and the timeout elapsed.
Flips == state = "open" /\ cooled

StateNow    == IF Flips THEN "half-open" ELSE state
QuotaNow    == IF Flips THEN HalfOpenAfter ELSE halfOpenAllowed
InFlightNow == IF Flips THEN 0 ELSE halfOpenInFlight
FreshNow    == IF Flips THEN {} ELSE fresh

\* Mutant: off by one.
QuotaLeftOffByOne == InFlightNow <= QuotaNow

\* Half-open lets this many calls in.
QuotaLeft == InFlightNow < QuotaNow

\* metrics(), which reads currentState and so may be what flips it.
Peek ==
    /\ Flips
    /\ state' = StateNow
    /\ halfOpenAllowed' = QuotaNow
    /\ halfOpenInFlight' = InFlightNow
    /\ fresh' = FreshNow
    /\ UNCHANGED <<samples, cooled, call>>

------------------------------------------------------------------------------
(* execute(), up to the await of fn() *)

EnterClosed(c) ==
    /\ call[c] \in Outside
    /\ StateNow = "closed"
    /\ call' = [call EXCEPT ![c] = "closed"]
    /\ UNCHANGED <<circuit, fresh>>

EnterProbe(c) ==
    /\ call[c] \in Outside
    /\ StateNow = "half-open"
    /\ QuotaLeft
    /\ state' = StateNow
    /\ halfOpenAllowed' = QuotaNow
    /\ halfOpenInFlight' = InFlightNow + 1
    /\ call' = [call EXCEPT ![c] = "half-open"]
    /\ fresh' = FreshNow \union {c}
    /\ UNCHANGED <<samples, cooled>>

\* throw new CircuitOpenError
Refuse(c) ==
    /\ call[c] \in Outside
    /\ \/ StateNow = "open"
       \/ StateNow = "half-open" /\ ~QuotaLeft
    /\ state' = StateNow
    /\ halfOpenAllowed' = QuotaNow
    /\ halfOpenInFlight' = InFlightNow
    /\ call' = [call EXCEPT ![c] = "refused"]
    /\ fresh' = FreshNow
    /\ UNCHANGED <<samples, cooled>>

------------------------------------------------------------------------------
(* record(), in the finally block of execute() *)

\* What record() is told of a call: whether fn() threw.  The configured
\* predicate isFailure is not asked: the constructor stores it, nobody calls it.
Samples == {"ok", "failed"}

\* The window after the sample is pushed and the k oldest have aged out.
Windows(sample) ==
    {Append(SubSeq(samples, k + 1, Len(samples)), sample) :
        k \in {n \in 0..Len(samples) : Len(samples) - n < WindowBound}}

Failures(w) == Cardinality({i \in 1..Len(w) : w[i] = "failed"})

Trips(w) ==
    /\ Len(w) >= MinCalls
    /\ Failures(w) * ThresholdDen >= ThresholdNum * Len(w)

\* samples.slice(-minCalls), where slice(-0) is the whole array
LastOnes(w) ==
    IF MinCalls = 0 THEN w ELSE SubSeq(w, Len(w) - MinCalls + 1, Len(w))

\* Mutants: no lower bound; no decrement.
ProbesLeftUnclamped == halfOpenInFlight - 1
ProbesLeftStuck     == halfOpenInFlight

\* Math.max(0, this.halfOpenInFlight - 1)
ProbesLeft == IF halfOpenInFlight = 0 THEN 0 ELSE halfOpenInFlight - 1

SettleProbe(c, sample) ==
    /\ call[c] = "half-open"
    /\ halfOpenInFlight' = ProbesLeft
    /\ \E w \in Windows(sample) :
          \/ /\ sample = "failed"
             /\ state' = "open" /\ cooled' = FALSE /\ samples' = w
          \/ /\ sample = "ok" /\ ProbesLeft = 0
             /\ state' = "closed" /\ samples' = <<>> /\ UNCHANGED cooled
          \/ /\ sample = "ok" /\ ProbesLeft > 0
             /\ samples' = w /\ UNCHANGED <<state, cooled>>
    /\ UNCHANGED halfOpenAllowed

\* Mutant: the window is judged before the failure is pushed.
SettleClosedEarly(c, sample) ==
    /\ call[c] = "closed"
    /\ \E w \in Windows(sample) :
          \/ /\ sample = "failed" /\ Trips(samples)
             /\ state' = "open" /\ cooled' = FALSE /\ samples' = w
          \/ /\ sample = "ok" \/ ~Trips(samples)
             /\ samples' = w /\ UNCHANGED <<state, cooled>>
    /\ UNCHANGED <<halfOpenInFlight, halfOpenAllowed>>

SettleClosed(c, sample) ==
    /\ call[c] = "closed"
    /\ \E w \in Windows(sample) :
          \/ /\ sample = "failed" /\ Trips(w)
             /\ state' = "open" /\ cooled' = FALSE /\ samples' = w
          \/ /\ sample = "failed" /\ ~Trips(w)
             /\ samples' = w /\ UNCHANGED <<state, cooled>>
          \/ /\ sample = "ok"
             /\ samples' = IF Len(w) > MinCalls * 4 THEN LastOnes(w) ELSE w
             /\ UNCHANGED <<state, cooled>>
    /\ UNCHANGED <<halfOpenInFlight, halfOpenAllowed>>

Settle(c, sample) ==
    /\ SettleProbe(c, sample) \/ SettleClosed(c, sample)
    /\ call' = [call EXCEPT ![c] = "idle"]
    /\ fresh' = fresh \ {c}

------------------------------------------------------------------------------
(* The admin API, and time *)

ForceOpen ==
    /\ Operator
    /\ state' = "open"
    /\ cooled' = FALSE
    /\ halfOpenInFlight' = 0
    /\ UNCHANGED <<samples, halfOpenAllowed, call, fresh>>

\* forceClose() sets openedAt to 0, which lies longer back than any timeout.
ForceClose ==
    /\ Operator
    /\ state' = "closed"
    /\ cooled' = TRUE
    /\ halfOpenInFlight' = 0
    /\ samples' = <<>>
    /\ UNCHANGED <<halfOpenAllowed, call, fresh>>

Reset ==
    /\ Operator
    /\ state' = "closed"
    /\ cooled' = TRUE
    /\ halfOpenInFlight' = 0
    /\ halfOpenAllowed' = 0
    /\ samples' = <<>>
    /\ UNCHANGED <<call, fresh>>

\* `timeout` ms have gone by since openedAt.
Cool ==
    /\ ~cooled
    /\ cooled' = TRUE
    /\ UNCHANGED <<state, samples, halfOpenInFlight, halfOpenAllowed, call, fresh>>

------------------------------------------------------------------------------
CallStep(c) ==
    \/ EnterClosed(c)
    \/ EnterProbe(c)
    \/ Refuse(c)
    \/ \E sample \in Samples : Settle(c, sample)

Admin == ForceOpen \/ ForceClose \/ Reset

Next == Peek \/ Admin \/ Cool \/ \E c \in Calls : CallStep(c)

Spec == Init /\ [][Next]_vars

\* Clocks advance and every call that was let in settles; nobody has to call.
Fairness ==
    /\ WF_vars(Cool)
    /\ \A c \in Calls : WF_vars(\E sample \in Samples : Settle(c, sample))

FairSpec == Spec /\ Fairness

\* The circuits whose calls are shorter than `timeout`: whatever runs when the
\* circuit opens has settled before the circuit becomes half-open.
PromptNext ==
    \/ Peek
    \/ Admin
    \/ Busy = {} /\ Cool
    \/ \E c \in Calls : CallStep(c)

PromptSpec == Init /\ [][PromptNext]_vars

------------------------------------------------------------------------------
(* Properties *)

TypeOK ==
    /\ state \in States
    /\ samples \in Seq(Samples)
    /\ cooled \in BOOLEAN
    /\ halfOpenInFlight \in Nat
    /\ halfOpenAllowed \in Nat
    /\ call \in [Calls -> Outside \union {"closed", "half-open"}]
    /\ fresh \subseteq Calls

\* The counter of probes never claims a probe that is not running.  If it did,
\* the circuit would refuse every call and no call would be left to decrement
\* it: half-open for good (circuit-breaker.ts:101, 117-120, 172, 179, 215).
ProbesAreRunning ==
    /\ IsFiniteSet(Probes)
    /\ halfOpenInFlight <= Cardinality(Probes)

\* A half-open circuit has its quota, although the state and the quota are
\* written by different lines and reset() clears the quota
\* (circuit-breaker.ts:99-100, 186-189).
QuotaIsSet == state = "half-open" => halfOpenAllowed = HalfOpenAfter

\* The samples of a closed circuit whose last recorded call failed do not trip:
\* no failure goes unjudged, whichever call it came from and whatever happened
\* to the circuit while that call ran (circuit-breaker.ts:207-236).
FailuresAreJudged ==
    state = "closed" /\ samples # <<>> /\ samples[Len(samples)] = "failed" =>
        ~Trips(samples)

\* A caller that arrives now would be let in.
Admits ==
    \/ StateNow = "closed"
    \/ StateNow = "half-open" /\ QuotaLeft

\* The circuit never refuses everybody for ever: stragglers that reopen it,
\* probes of an earlier half-open period and operators cannot wedge it
\* (circuit-breaker.ts:92-104, 116-121, 197-224).
NeverWedged == []<>Admits

\* circuit-breaker.ts:29 "at most `halfOpenAfter` calls are allowed", read in
\* its weakest sense: so many at a time.
ProbeLimit == state = "half-open" => Cardinality(fresh) <= HalfOpenAfter

\* circuit-breaker.ts:30 "If any of them fails -> back to `open`", and the
\* diagram above it, which has no arrow from open to closed: a call that settles
\* never closes a circuit that stands open.
OpenIsNotClosed ==
    [][state = "open" /\ ~Flips /\ state' = "closed" => Admin]_vars

\* The circuit as the machine of its header.
Diagram == INSTANCE CircuitDiagram WITH probing <- Probes # {}

\* With one probe at a time, calls that settle within `timeout` and no
\* operator, the circuit is that machine (circuit-breaker.ts:15-31).
ImplementsDiagram == Diagram!Spec
==============================================================================

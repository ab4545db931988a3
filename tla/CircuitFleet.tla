---------------------------- MODULE CircuitFleet -----------------------------
(***************************************************************************)
(* The circuit of one name in several pods that share a store: the cross-  *)
(* pod part of packages/resilience/src/circuit-breaker.ts, and what the    *)
(* stores of stores/ keep.  A transition sends a snapshot to the store and *)
(* does not wait for it, so that snapshots land in any order or never; a   *)
(* call, before it is let in, may read the store, and takes over what it   *)
(* has read, at once or when other calls have gone on.                     *)
(*                                                                         *)
(* CircuitBreaker has the circuit of one pod in detail.  Here the          *)
(* judgement of failures is a choice: a call that fails may open its       *)
(* circuit, MaxFailures times in all.  A snapshot bears the time of the    *)
(* clock of its pod, at another millisecond than the one before it.        *)
(***************************************************************************)
EXTENDS Naturals, FiniteSets

CONSTANTS Pods,
          Behind,         \* by how much the clock of each pod is behind
          HalfOpenAfter,  \* config.halfOpenAfter
          MaxFailures,    \* bound on the failures that open a circuit
          MaxProbes,      \* bound on the probes of a pod that run at one time
          MaxTroubles     \* bound on the snapshots that come late, are taken late or
                          \* expire and the calls of an operator, together

VARIABLES state,     \* state of each pod
          inFlight,  \* halfOpenInFlight
          probes,    \* calls that began when their circuit was half-open and run
          last,      \* _lastRemoteUpdate
          read,      \* what getSnapshot() has returned to a call that has not gone on
          store,     \* the snapshot in the store
          late,      \* a snapshot that is late
          clock,
          failures,
          delays,    \* how many snapshots were late or have expired
          acts       \* how often an operator has called

vars == <<state, inFlight, probes, last, read, store, late, clock, failures, delays, acts>>

States   == {"closed", "open", "half-open"}
Snapshot == [state : States, updatedAt : Nat]
Nobody   == [state |-> "closed", updatedAt |-> 0] \* null: it is newer than nothing

Init ==
    /\ state = [p \in Pods |-> "closed"]
    /\ inFlight = [p \in Pods |-> 0] /\ probes = [p \in Pods |-> 0]
    /\ last = [p \in Pods |-> 0] /\ read = [p \in Pods |-> Nobody]
    /\ store = Nobody /\ late = Nobody /\ clock = 1 /\ failures = 0
    /\ delays = 0 /\ acts = 0

------------------------------------------------------------------------------
Delayed == delays + acts < MaxTroubles /\ delays' = delays + 1

\* _saveToStore(): the snapshot lands at once, later, or never.  Time passes from
\* one snapshot to the next that lands.
Save(p, to) ==
    LET snap == [state |-> to, updatedAt |-> clock + 1 - Behind[p]] IN
    \/ store' = snap /\ clock' = clock + 1 /\ UNCHANGED <<late, delays>>
    \/ Delayed /\ late = Nobody /\ late' = snap /\ clock' = clock + 1 /\ UNCHANGED store
    \/ UNCHANGED <<store, late, clock, delays>>

Land ==
    /\ late # Nobody /\ late' = Nobody
    /\ store' = late
    /\ UNCHANGED <<state, inFlight, probes, last, read, clock, failures, delays, acts>>

\* transition()
Transition(p, to) ==
    IF state[p] = to THEN UNCHANGED <<state, store, late, clock, delays>>
    ELSE state' = [state EXCEPT ![p] = to] /\ Save(p, to)

\* Mutant: a snapshot is taken over although it is the one of the last time.
NewerOrSame(p, snap) == snap # Nobody /\ snap.updatedAt >= last[p]

Newer(p, snap) == snap.updatedAt > last[p]

\* What _maybeSyncFromStore() does with an answer.
Take(p, snap) ==
    /\ last' = [last EXCEPT ![p] = snap.updatedAt]
    /\ state' = [state EXCEPT ![p] = snap.state]
    /\ inFlight' = [inFlight EXCEPT ![p] = IF snap.state = "half-open" THEN 0 ELSE @]

\* _maybeSyncFromStore(), which takes the answer at once, or waits for it while
\* other calls go on.  An answer that is not newer changes nothing.
Sync(p) ==
    /\ read[p] = Nobody /\ Newer(p, store)
    /\ \/ Take(p, store) /\ UNCHANGED <<read, delays>>
       \/ /\ Delayed /\ read' = [read EXCEPT ![p] = store]
          /\ UNCHANGED <<last, state, inFlight>>
    /\ UNCHANGED <<probes, store, late, clock, failures, acts>>

SyncLate(p) ==
    /\ read[p] # Nobody /\ read' = [read EXCEPT ![p] = Nobody]
    /\ Take(p, read[p])
    /\ UNCHANGED <<probes, store, late, clock, failures, delays, acts>>

------------------------------------------------------------------------------
\* currentState, once the timeout of an open circuit is over.
Cool(p) ==
    /\ state[p] = "open"
    /\ Transition(p, "half-open")
    /\ inFlight' = [inFlight EXCEPT ![p] = 0]
    /\ UNCHANGED <<probes, last, read, failures, acts>>

\* execute() of a half-open circuit
Probe(p) ==
    /\ state[p] = "half-open" /\ inFlight[p] < HalfOpenAfter /\ probes[p] < MaxProbes
    /\ inFlight' = [inFlight EXCEPT ![p] = @ + 1]
    /\ probes' = [probes EXCEPT ![p] = @ + 1]
    /\ UNCHANGED <<state, last, read, store, late, clock, failures, delays, acts>>

\* record() of a call that began when the circuit was half-open.
ProbeEnds(p, ok) ==
    LET left == IF inFlight[p] > 0 THEN inFlight[p] - 1 ELSE 0 IN
    /\ probes[p] > 0 /\ probes' = [probes EXCEPT ![p] = @ - 1]
    /\ inFlight' = [inFlight EXCEPT ![p] = left]
    /\ IF ok
       THEN /\ IF left = 0 THEN Transition(p, "closed") ELSE UNCHANGED <<state, store, late, clock, delays>>
            /\ UNCHANGED failures
       ELSE /\ failures < MaxFailures /\ failures' = failures + 1
            /\ Transition(p, "open")
    /\ UNCHANGED <<last, read, acts>>

\* record() of a failure of a call that began when the circuit was closed.
Fail(p) ==
    /\ failures < MaxFailures /\ failures' = failures + 1
    /\ Transition(p, "open")
    /\ UNCHANGED <<inFlight, probes, last, read, acts>>

------------------------------------------------------------------------------
(* The operator of a pod, and the lifetime of what is stored *)

ForceOpen(p) ==
    /\ failures < MaxFailures /\ failures' = failures + 1
    /\ Transition(p, "open")
    /\ inFlight' = [inFlight EXCEPT ![p] = 0]
    /\ UNCHANGED <<probes, last, read, acts>>

Acts(p) ==
    /\ delays + acts < MaxTroubles /\ acts' = acts + 1
    /\ inFlight' = [inFlight EXCEPT ![p] = 0]
    /\ UNCHANGED <<probes, last, read, failures>>

ForceClose(p) == Acts(p) /\ Transition(p, "closed")

\* reset(), which no other pod hears of.
Reset(p) ==
    /\ Acts(p)
    /\ state' = [state EXCEPT ![p] = "closed"]
    /\ UNCHANGED <<store, late, clock, delays>>

\* Redis drops a snapshot when its ttlSeconds are over.
Expire ==
    /\ store # Nobody /\ Delayed
    /\ store' = Nobody
    /\ UNCHANGED <<state, inFlight, probes, last, read, late, clock, failures, acts>>

Next ==
    \/ Land \/ Expire
    \/ \E p \in Pods : \/ ForceOpen(p) \/ ForceClose(p) \/ Reset(p)
                       \/ Sync(p) \/ SyncLate(p) \/ Cool(p) \/ Probe(p) \/ Fail(p)
                       \/ \E ok \in BOOLEAN : ProbeEnds(p, ok)

\* Calls keep coming, and come to an end; a store that was asked answers.
Fairness ==
    \A p \in Pods :
        /\ WF_vars(SyncLate(p)) /\ WF_vars(Cool(p)) /\ WF_vars(Probe(p))
        /\ WF_vars(\E ok \in BOOLEAN : ProbeEnds(p, ok))

FairSpec == Init /\ [][Next]_vars /\ Fairness

------------------------------------------------------------------------------
TypeOK ==
    /\ state \in [Pods -> States] /\ store \in Snapshot /\ late \in Snapshot
    /\ read \in [Pods -> Snapshot] /\ last \in [Pods -> Nat]
    /\ inFlight \in [Pods -> 0..HalfOpenAfter] /\ probes \in [Pods -> Nat]

\* When the failures have stopped, every circuit closes and stays closed: pods
\* cannot keep one another open, or send one another back to half-open for ever,
\* with snapshots that come late, come in the wrong order or never come, from
\* clocks that differ, or from a store that takes no more writes.
FleetRecovers == <>[](\A p \in Pods : state[p] = "closed")
==============================================================================

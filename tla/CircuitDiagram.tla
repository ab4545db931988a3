--------------------------- MODULE CircuitDiagram ----------------------------
(***************************************************************************)
(* The state machine drawn in the header of                                *)
(* packages/resilience/src/circuit-breaker.ts (lines 15-23), for a circuit *)
(* that lets one call probe the upstream at a time (halfOpenAfter = 1, the *)
(* default).                                                               *)
(***************************************************************************)
VARIABLES state,   \* "closed", "open" or "half-open"
          probing  \* a probe is under way

vars == <<state, probing>>

Init == state = "closed" /\ probing = FALSE

\* failures >= threshold
Trip == state = "closed" /\ state' = "open" /\ UNCHANGED probing

\* after `timeout` ms, with or without a call that is the first probe
CoolOff == state = "open" /\ state' = "half-open" /\ probing' \in BOOLEAN

Probe == state = "half-open" /\ ~probing /\ probing' = TRUE /\ UNCHANGED state

\* The probe decides.
Verdict ==
    /\ state = "half-open"
    /\ probing
    /\ state' \in {"closed", "open"}
    /\ probing' = FALSE

Next == Trip \/ CoolOff \/ Probe \/ Verdict

Spec == Init /\ [][Next]_vars
==============================================================================

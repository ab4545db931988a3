----------------------------- MODULE SessionLife -----------------------------
(***************************************************************************)
(* What SessionService of packages/session promises of a login, whichever  *)
(* records and ids stand for it: it begins, gathers data, and ends; what   *)
(* has ended does not begin again, and no data is lost on the way.         *)
(***************************************************************************)
CONSTANTS Logins, Fields

VARIABLES phase, gathered

vars == <<phase, gathered>>

Init ==
    /\ phase = [l \in Logins |-> "none"]
    /\ gathered = [l \in Logins |-> {}]

Begin(l) ==
    /\ phase[l] = "none"
    /\ phase' = [phase EXCEPT ![l] = "live"]
    /\ \E fs \in SUBSET Fields : gathered' = [gathered EXCEPT ![l] = fs]

Patch(l) ==
    /\ phase[l] = "live"
    /\ \E fs \in SUBSET Fields : gathered' = [gathered EXCEPT ![l] = @ \union fs]
    /\ UNCHANGED phase

End(l) ==
    /\ phase[l] = "live"
    /\ phase' = [phase EXCEPT ![l] = "over"]
    /\ gathered' = [gathered EXCEPT ![l] = {}]

Next == \E l \in Logins : Begin(l) \/ Patch(l) \/ End(l)

Spec == Init /\ [][Next]_vars
==============================================================================

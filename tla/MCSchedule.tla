----------------------------- MODULE MCSchedule ------------------------------
(* Schedule with an expression that matches every second instant and one that *)
(* matches every third.                                                       *)
EXTENDS Schedule

CONSTANTS often, seldom

Every(p) == {p * k : k \in 1..(MaxTime + 5)}

MCMatches ==
    [e \in Exprs |-> IF e = often THEN Every(2) ELSE Every(3)]
==============================================================================

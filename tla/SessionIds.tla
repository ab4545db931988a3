----------------------------- MODULE SessionIds ------------------------------
\* What stands for a session: the ids that may be drawn, none of which is the
\* mark of an id that stands for no login yet.
CONSTANT Ids

NoLogin == "-"

ASSUME IdsAssumption == NoLogin \notin Ids
==============================================================================

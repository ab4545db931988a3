---------------------------- MODULE FairSemaphore ----------------------------
(***************************************************************************)
(* What the header of packages/resilience/src/bulkhead.ts promises of a    *)
(* bulkhead, with none of its machinery: a counting semaphore with a       *)
(* bounded FIFO line.  At most Slots clients hold a slot, and a slot that  *)
(* is given back goes to the client that has waited longest.               *)
(***************************************************************************)
EXTENDS Naturals, Sequences, FiniteSets

CONSTANTS Clients,  \* whoever calls execute()
          Slots,    \* how many may hold a slot at once
          Room      \* how many may wait

VARIABLES holders,  \* the clients that hold a slot
          line      \* the clients that wait, the longest wait first

vars == <<holders, line>>

InLine == {line[i] : i \in 1..Len(line)}

Init == holders = {} /\ line = <<>>

\* A free slot is taken at once, but never past somebody who waits.
Acquire(c) ==
    /\ c \notin holders \union InLine
    /\ line = <<>>
    /\ Cardinality(holders) < Slots
    /\ holders' = holders \union {c}
    /\ UNCHANGED line

Wait(c) ==
    /\ c \notin holders \union InLine
    /\ Cardinality(holders) >= Slots
    /\ Len(line) < Room
    /\ line' = Append(line, c)
    /\ UNCHANGED holders

\* The slot goes straight to the head of the line, if there is one.
Release(c) ==
    /\ c \in holders
    /\ \/ /\ line = <<>>
          /\ holders' = holders \ {c}
          /\ UNCHANGED line
       \/ /\ line # <<>>
          /\ holders' = (holders \ {c}) \union {Head(line)}
          /\ line' = Tail(line)

Next == \E c \in Clients : Acquire(c) \/ Wait(c) \/ Release(c)

Spec == Init /\ [][Next]_vars
==============================================================================

--------------------------- MODULE BulkheadProofs ----------------------------
(***************************************************************************)
(* Proofs about Bulkhead, for any set of callers and any limits.           *)
(***************************************************************************)
EXTENDS Bulkhead, FiniteSetTheorems, TLAPS

\* The inductive invariant.  The type of inFlight depends on SlotAccounting
\* (a decrement is of a positive count), SlotAccounting on NoLostWaiter (a
\* waiter that resumes was not running), and so they are proved together.
IInv ==
    /\ TypeOK
    /\ NoLostWaiter
    /\ IsFiniteSet(Running)
    /\ SlotAccounting
    /\ WorkConserving

------------------------------------------------------------------------------
(* Facts about the two queues *)

\* A waiter that joins the queue is its only new element.
LEMMA AppendFacts ==
    ASSUME NEW S, NEW s \in Seq(S), NEW e \in S,
           Distinct(s), e \notin Elements(s)
    PROVE  /\ Append(s, e) \in Seq(S)
           /\ Len(Append(s, e)) = Len(s) + 1
           /\ Distinct(Append(s, e))
           /\ Elements(Append(s, e)) = Elements(s) \union {e}
  BY DEF Distinct, Elements

\* Taking the head of a line removes that element and no other.
LEMMA TailFacts ==
    ASSUME NEW S, NEW s \in Seq(S), s # <<>>, Distinct(s)
    PROVE  /\ Tail(s) \in Seq(S)
           /\ Len(Tail(s)) = Len(s) - 1
           /\ Head(s) \in S
           /\ Head(s) \in Elements(s)
           /\ Distinct(Tail(s))
           /\ Elements(Tail(s)) = Elements(s) \ {Head(s)}
<1>1. Len(s) \in Nat /\ Len(s) > 0 /\ 1 \in 1..Len(s) /\ Head(s) = s[1]
  OBVIOUS
<1>2. /\ Tail(s) \in Seq(S)
      /\ Len(Tail(s)) = Len(s) - 1
      /\ \A i \in 1..(Len(s) - 1) : Tail(s)[i] = s[i + 1]
  BY <1>1
<1>3. Head(s) \in S /\ Head(s) \in Elements(s)
  BY <1>1 DEF Elements
<1>4. Distinct(Tail(s))
  BY <1>1, <1>2 DEF Distinct
<1>5. ASSUME NEW x \in Elements(Tail(s)) PROVE x \in Elements(s) \ {Head(s)}
  BY <1>1, <1>2 DEF Elements, Distinct
<1>6. ASSUME NEW x \in Elements(s) \ {Head(s)} PROVE x \in Elements(Tail(s))
  <2>1. PICK i \in 1..Len(s) : x = s[i]
    BY DEF Elements
  <2>2. i # 1 /\ i - 1 \in 1..(Len(s) - 1)
    BY <1>1, <1>6, <2>1
  <2>3. x = Tail(s)[i - 1]
    BY <1>2, <2>1, <2>2
  <2> QED
    BY <1>2, <2>2, <2>3 DEF Elements
<1> QED
  BY <1>2, <1>3, <1>4, <1>5, <1>6

------------------------------------------------------------------------------
(* The invariant *)

\* Before anybody calls execute(), the bulkhead is empty.
LEMMA InitInv == Init => IInv
<1> SUFFICES ASSUME Init PROVE IInv
  OBVIOUS
<1>1. TypeOK
  BY ConfigAssumption DEF Init, TypeOK, Statuses, Idle
<1>2. Running = {}
  BY DEF Init, Running
<1>3. IsFiniteSet(Running) /\ SlotAccounting
  BY <1>2, FS_EmptySet DEF SlotAccounting, Init
<1>4. NoLostWaiter
  BY DEF Init, NoLostWaiter, Distinct, Elements
<1>5. WorkConserving
  BY DEF Init, WorkConserving
<1> QED
  BY <1>1, <1>3, <1>4, <1>5 DEF IInv

\* A caller that finds a slot free takes it.
LEMMA EnterFastInv ==
    ASSUME IInv, NEW c \in Callers, EnterFast(c) PROVE IInv'
<1> USE DEF IInv, EnterFast
<1>1. TypeOK'
  BY DEF TypeOK, Statuses
<1>2. Running' = Running \union {c} /\ c \notin Running
  BY DEF Running, TypeOK, Idle
<1>3. IsFiniteSet(Running)' /\ SlotAccounting'
  BY <1>2, FS_AddElement DEF SlotAccounting
<1>4. NoLostWaiter'
  BY DEF NoLostWaiter, TypeOK, Idle
<1>5. WorkConserving'
  BY ConfigAssumption DEF WorkConserving, TypeOK
<1> QED
  BY <1>1, <1>3, <1>4, <1>5

\* A caller that is turned away changes nothing but its own status.
LEMMA RejectInv ==
    ASSUME IInv, NEW c \in Callers, Reject(c) PROVE IInv'
<1> USE DEF IInv, Reject
<1>1. TypeOK'
  BY DEF TypeOK, Statuses, Idle
<1>2. Running' = Running
  BY DEF Running, TypeOK, Idle
<1>3. IsFiniteSet(Running)' /\ SlotAccounting'
  BY <1>2 DEF SlotAccounting
<1>4. NoLostWaiter'
  BY DEF NoLostWaiter, TypeOK, Idle
<1>5. WorkConserving'
  BY DEF WorkConserving
<1> QED
  BY <1>1, <1>3, <1>4, <1>5

\* A caller joins the queue only when every slot is taken.
LEMMA EnqueueInv ==
    ASSUME IInv, NEW c \in Callers, Enqueue(c) PROVE IInv'
<1> USE DEF IInv, Enqueue
<1>1. c \notin Elements(queue)
  BY DEF NoLostWaiter, Idle
<1>2. /\ queue' \in Seq(Callers)
      /\ Distinct(queue')
      /\ Elements(queue') = Elements(queue) \union {c}
  BY <1>1, AppendFacts DEF TypeOK, NoLostWaiter
<1>3. TypeOK'
  BY <1>2 DEF TypeOK, Statuses
<1>4. Running' = Running
  BY DEF Running, TypeOK, Idle
<1>5. IsFiniteSet(Running)' /\ SlotAccounting'
  BY <1>4 DEF SlotAccounting
<1>6. NoLostWaiter'
  BY <1>2 DEF NoLostWaiter, TypeOK, Idle
<1>7. WorkConserving'
  BY ConfigAssumption DEF WorkConserving, SlotFree, TypeOK
<1> QED
  BY <1>3, <1>5, <1>6, <1>7

\* A waiter that resumes turns the slot it was promised into one it holds.
LEMMA ResumeInv ==
    ASSUME IInv, NEW c \in Callers, Resume(c) PROVE IInv'
<1> USE DEF IInv, Resume
<1>1. /\ woken' \in Seq(Callers)
      /\ Len(woken') = Len(woken) - 1
      /\ Len(woken) \in Nat
      /\ c \in Elements(woken)
      /\ Distinct(woken')
      /\ Elements(woken') = Elements(woken) \ {c}
  BY TailFacts DEF TypeOK, NoLostWaiter
<1>2. pc[c] = "woken"
  BY <1>1 DEF NoLostWaiter
<1>3. TypeOK'
  BY <1>1 DEF TypeOK, Statuses
<1>4. Running' = Running \union {c} /\ c \notin Running
  BY <1>2 DEF Running, TypeOK
<1>5. IsFiniteSet(Running)' /\ SlotAccounting'
  BY <1>4, FS_AddElement DEF SlotAccounting
<1>6. NoLostWaiter'
  BY <1>1, <1>2 DEF NoLostWaiter, TypeOK
<1>7. WorkConserving'
  BY <1>1 DEF WorkConserving, TypeOK
<1> QED
  BY <1>3, <1>5, <1>6, <1>7

\* A caller that finishes frees its slot and promises it to the head of the
\* queue, unless the count is above the limit.
LEMMA FinishInv ==
    ASSUME IInv, NEW c \in Callers, Finish(c) PROVE IInv'
<1> USE DEF IInv, Finish
<1>1. /\ c \in Running
      /\ Cardinality(Running) \in Nat
      /\ Cardinality(Running \ {c}) = Cardinality(Running) - 1
      /\ IsFiniteSet(Running \ {c})
  BY FS_RemoveElement, FS_CardinalityType DEF Running
<1>2. Cardinality(Running) # 0
  BY <1>1, FS_EmptySet
<1>3. inFlight' \in Nat /\ inFlight' = inFlight - 1 /\ inFlight \in Nat
  BY <1>1, <1>2 DEF SlotAccounting
<1>4. CASE inFlight - 1 < MaxConcurrent /\ queue # <<>>
  <2> DEFINE h == Head(queue)
  <2>1. /\ queue' = Tail(queue)
        /\ woken' = Append(woken, h)
        /\ pc' = [pc EXCEPT ![c] = "idle", ![h] = "woken"]
    BY <1>4 DEF DrainAfter
  <2>2. /\ queue' \in Seq(Callers)
        /\ h \in Callers
        /\ h \in Elements(queue)
        /\ Distinct(queue')
        /\ Elements(queue') = Elements(queue) \ {h}
    BY <1>4, <2>1, TailFacts DEF TypeOK, NoLostWaiter
  <2>3. pc[h] = "queued" /\ h \notin Elements(woken) /\ h # c
    BY <2>2 DEF NoLostWaiter
  <2>4. /\ woken' \in Seq(Callers)
        /\ Len(woken') = Len(woken) + 1
        /\ Len(woken) \in Nat
        /\ Distinct(woken')
        /\ Elements(woken') = Elements(woken) \union {h}
    BY <2>1, <2>2, <2>3, AppendFacts DEF TypeOK, NoLostWaiter
  <2>5. pc' \in [Callers -> Statuses]
    BY <2>1, <2>2 DEF TypeOK, Statuses, Idle
  <2>6. \A d \in Callers :
           pc'[d] = IF d = h THEN "woken" ELSE IF d = c THEN "idle" ELSE pc[d]
    BY <2>1, <2>2, <2>3 DEF TypeOK
  <2>7. TypeOK'
    BY <1>3, <2>2, <2>4, <2>5 DEF TypeOK
  <2>8. Running' = Running \ {c}
    BY <2>3, <2>6 DEF Running
  <2>9. IsFiniteSet(Running)' /\ SlotAccounting'
    BY <1>1, <1>3, <2>8 DEF SlotAccounting
  <2>10. NoLostWaiter'
    BY <2>2, <2>3, <2>4, <2>6 DEF NoLostWaiter
  <2>11. WorkConserving'
    BY <1>3, <1>4, <2>4, ConfigAssumption DEF WorkConserving
  <2> QED
    BY <2>7, <2>9, <2>10, <2>11
<1>5. CASE ~(inFlight - 1 < MaxConcurrent /\ queue # <<>>)
  <2>1. pc' = [pc EXCEPT ![c] = "idle"] /\ UNCHANGED <<queue, woken>>
    BY <1>5 DEF DrainAfter
  <2>2. TypeOK'
    BY <1>3, <2>1 DEF TypeOK, Statuses, Idle
  <2>3. Running' = Running \ {c}
    BY <2>1 DEF Running, TypeOK
  <2>4. IsFiniteSet(Running)' /\ SlotAccounting'
    BY <1>1, <1>3, <2>3 DEF SlotAccounting
  <2>5. NoLostWaiter'
    BY <2>1 DEF NoLostWaiter, TypeOK
  <2>6. WorkConserving'
    BY <1>3, <1>5, <2>1, ConfigAssumption DEF WorkConserving, TypeOK
  <2> QED
    BY <2>2, <2>4, <2>5, <2>6
<1> QED
  BY <1>4, <1>5

\* Every step keeps the invariant.
LEMMA NextInv == IInv /\ [Next]_vars => IInv'
<1> SUFFICES ASSUME IInv, [Next]_vars PROVE IInv'
  OBVIOUS
<1>1. CASE UNCHANGED vars
  <2>1. UNCHANGED <<inFlight, queue, woken, pc, Running>>
    BY <1>1 DEF vars, Running
  <2> QED
    BY <2>1 DEF IInv, TypeOK, NoLostWaiter, SlotAccounting, WorkConserving
<1>2. ASSUME NEW c \in Callers, Arrive(c) PROVE IInv'
  BY <1>2, EnterFastInv, RejectInv, EnqueueInv DEF Arrive
<1>3. ASSUME NEW c \in Callers, Resume(c) PROVE IInv'
  BY <1>3, ResumeInv
<1>4. ASSUME NEW c \in Callers, Finish(c) PROVE IInv'
  BY <1>4, FinishInv
<1> QED
  BY <1>1, <1>2, <1>3, <1>4 DEF Next

\* The bookkeeping of the bulkhead is right in every reachable state.
THEOREM Invariance == Spec => []IInv
  BY InitInv, NextInv, PTL DEF Spec

\* The state keeps its type; in particular the count of calls in flight never
\* goes below zero (bulkhead.ts:75, 92).
THEOREM TypeCorrect == Spec => []TypeOK
  BY Invariance, PTL DEF IInv

\* No waiter is lost, woken twice or left behind in the queue when it starts
\* (bulkhead.ts:85-94, 128-131).
THEOREM NoWaiterLost == Spec => []NoLostWaiter
  BY Invariance, PTL DEF IInv

\* inFlight is the number of calls whose function runs (bulkhead.ts:71-92).
THEOREM SlotsAccounted == Spec => []SlotAccounting
  BY Invariance, PTL DEF IInv

\* While somebody waits, no slot is idle (bulkhead.ts:123-134): waking one
\* waiter per call of drain() is enough.
THEOREM AlwaysWorkConserving == Spec => []WorkConserving
  BY Invariance, PTL DEF IInv

------------------------------------------------------------------------------
(* The bulkhead of a calm program *)

Promised == inFlight + Len(woken) <= MaxConcurrent
CalmInv == IInv /\ (calm => Promised)

\* `calm` is a parameter.
LEMMA CalmStays == ASSUME [Next]_vars PROVE calm' = calm
  BY DEF Next, Arrive, EnterFast, Reject, Enqueue, Resume, Finish, vars

\* In a calm program a slot that is promised is not taken by anybody else.
LEMMA PromisedStep ==
    ASSUME IInv, calm, Promised, [Next]_vars PROVE Promised'
<1> USE ConfigAssumption DEF IInv
<1>1. CASE UNCHANGED vars
  BY <1>1 DEF vars, Promised
<1>2. ASSUME NEW c \in Callers, Arrive(c) PROVE Promised'
  <2>1. woken = <<>>
    BY <1>2 DEF Arrive, EnterFast, Reject, Enqueue, MayCall
  <2>2. woken' = woken /\ Len(woken) = 0
    BY <1>2, <2>1 DEF Arrive, EnterFast, Reject, Enqueue
  <2>3. inFlight' = inFlight \/ (inFlight < MaxConcurrent /\ inFlight' = inFlight + 1)
    BY <1>2 DEF Arrive, EnterFast, Reject, Enqueue, SlotFree
  <2> QED
    BY <2>2, <2>3 DEF Promised, TypeOK
<1>3. ASSUME NEW c \in Callers, Resume(c) PROVE Promised'
  BY <1>3 DEF Resume, Promised, TypeOK
<1>4. ASSUME NEW c \in Callers, Finish(c) PROVE Promised'
  <2>1. inFlight' = inFlight - 1 /\ inFlight \in Nat /\ Len(woken) \in Nat
    BY <1>4 DEF Finish, TypeOK
  <2>2. Len(woken') = Len(woken) \/ Len(woken') = Len(woken) + 1
    BY <1>4 DEF Finish, DrainAfter, TypeOK
  <2> QED
    BY <2>1, <2>2 DEF Promised
<1> QED
  BY <1>1, <1>2, <1>3, <1>4 DEF Next

\* The invariant of programs that never call inside a release holds of all their behaviours.
THEOREM CalmInvariance == Spec => []CalmInv
<1>1. Init => CalmInv
  <2>1. ASSUME Init PROVE Promised
    <3>1. inFlight = 0 /\ Len(woken) = 0
      BY <2>1 DEF Init
    <3> QED
      BY <3>1, ConfigAssumption DEF Promised
  <2> QED
    BY <2>1, InitInv DEF CalmInv
<1>2. CalmInv /\ [Next]_vars => CalmInv'
  BY NextInv, CalmStays, PromisedStep DEF CalmInv
<1> QED
  BY <1>1, <1>2, PTL DEF Spec

\* bulkhead.ts:11: in a program that makes its calls in macrotasks of their own,
\* at most maxConcurrent of them run at once.
THEOREM AlwaysCalmLimit == Spec => []CalmLimit
<1>1. CalmInv => CalmLimit
  BY ConfigAssumption DEF CalmInv, Promised, IInv, TypeOK, CalmLimit, ConcurrencyLimit
<1> QED
  BY <1>1, CalmInvariance, PTL

\* A finished call hands its slot to the head of the queue, or gives it back.
LEMMA FinishReleases ==
    ASSUME IInv, Promised, NEW c \in Callers, Finish(c) PROVE Semaphore!Release(c)
<1> USE DEF IInv
<1> DEFINE held == {d \in Callers : pc[d] \in {"woken", "running"}}
<1>1. c \in held /\ pc[c] = "running"
  BY DEF Finish
<1>2. inFlight - 1 < MaxConcurrent
  BY ConfigAssumption DEF Promised, TypeOK
<1>3. CASE queue = <<>>
  <2>1. pc' = [pc EXCEPT ![c] = "idle"] /\ UNCHANGED queue
    BY <1>3 DEF Finish, DrainAfter
  <2>2. held' = held \ {c}
    BY <1>1, <2>1 DEF TypeOK
  <2> QED
    BY <1>1, <1>3, <2>1, <2>2 DEF Semaphore!Release
<1>4. CASE queue # <<>>
  <2> DEFINE h == Head(queue)
  <2>1. queue' = Tail(queue) /\ pc' = [pc EXCEPT ![c] = "idle", ![h] = "woken"]
    BY <1>2, <1>4 DEF Finish, DrainAfter
  <2>2. h \in Callers /\ h \in Elements(queue)
    BY <1>4, TailFacts DEF TypeOK, NoLostWaiter
  <2>3. h # c
    BY <1>1, <2>2 DEF NoLostWaiter
  <2>4. held' = (held \ {c}) \union {h}
    BY <1>1, <2>1, <2>2, <2>3 DEF TypeOK
  <2> QED
    BY <1>1, <1>4, <2>1, <2>4 DEF Semaphore!Release
<1> QED
  BY <1>3, <1>4

\* bulkhead.ts:10-19: a calm program gets the semaphore of the header, with
\* its limit, its bounded line and its hand-over in order of arrival.
THEOREM CalmRefinement == Spec => ImplementsSemaphore
<1> DEFINE held == {d \in Callers : pc[d] \in {"woken", "running"}}
<1>1. Init => Semaphore!Init
  BY DEF Init, Semaphore!Init
<1>2. ASSUME IInv, calm, Promised, [Next]_vars PROVE [Semaphore!Next]_(Semaphore!vars)
  <2> USE <1>2 DEF IInv
  <2>1. CASE UNCHANGED vars
    BY <2>1 DEF vars, Semaphore!vars
  <2>2. ASSUME NEW c \in Callers, Arrive(c)
        PROVE  [Semaphore!Next]_(Semaphore!vars)
    <3>0. woken = <<>>
      BY <2>2 DEF Arrive, EnterFast, Reject, Enqueue, MayCall
    <3>1. held = Running
      BY <3>0 DEF NoLostWaiter, Elements, Running
    <3>2. Semaphore!Cardinality(held) = inFlight
      <4>1. Semaphore!Cardinality(held) = Cardinality(held)
        BY DEF Semaphore!Cardinality, Cardinality
      <4> QED
        BY <3>1, <4>1 DEF SlotAccounting
    <3>3. ASSUME pc[c] \in Idle
          PROVE  c \notin held \union Elements(queue)
      BY <3>3 DEF Idle, NoLostWaiter
    <3>4. CASE EnterFast(c)
      <4>1. queue = <<>>
        BY <3>0, <3>4, ConfigAssumption
           DEF EnterFast, SlotFree, WorkConserving, TypeOK
      <4>2. held' = held \union {c}
        BY <3>4 DEF EnterFast, TypeOK
      <4>3. Semaphore!Acquire(c)
        BY <3>2, <3>3, <3>4, <4>1, <4>2
           DEF EnterFast, SlotFree, Semaphore!Acquire, Semaphore!InLine, Elements
      <4> QED
        BY <4>3 DEF Semaphore!Next
    <3>5. CASE Enqueue(c)
      <4>1. held' = held
        BY <3>5 DEF Enqueue, TypeOK, Idle
      <4>2. inFlight >= MaxConcurrent /\ Len(queue) < MaxQueued
        BY <3>5, ConfigAssumption DEF Enqueue, SlotFree, Full, TypeOK
      <4>3. Semaphore!Wait(c)
        BY <3>2, <3>3, <3>5, <4>1, <4>2
           DEF Enqueue, Semaphore!Wait, Semaphore!InLine, Elements
      <4> QED
        BY <4>3 DEF Semaphore!Next
    <3>6. CASE Reject(c)
      <4>1. held' = held /\ queue' = queue
        BY <3>6 DEF Reject, TypeOK, Idle
      <4> QED
        BY <4>1 DEF Semaphore!vars
    <3> QED
      BY <2>2, <3>4, <3>5, <3>6 DEF Arrive
  <2>3. ASSUME NEW c \in Callers, Resume(c)
        PROVE  [Semaphore!Next]_(Semaphore!vars)
    <3>1. c \in Elements(woken)
      BY <2>3, TailFacts DEF Resume, TypeOK, NoLostWaiter
    <3>2. pc[c] = "woken"
      BY <3>1 DEF NoLostWaiter
    <3>3. held' = held /\ queue' = queue
      BY <2>3, <3>2 DEF Resume, TypeOK
    <3> QED
      BY <3>3 DEF Semaphore!vars
  <2>4. ASSUME NEW c \in Callers, Finish(c)
        PROVE  [Semaphore!Next]_(Semaphore!vars)
    BY <2>4, FinishReleases DEF Semaphore!Next
  <2> QED
    BY <1>2, <2>1, <2>2, <2>3, <2>4 DEF Next
<1>3. CalmInv /\ [Next]_vars => [calm => [Semaphore!Next]_(Semaphore!vars)]_vars
  BY <1>2 DEF CalmInv
<1>4. Init => (calm => Semaphore!Init)
  BY <1>1
<1> QED
  BY <1>3, <1>4, CalmInvariance, PTL DEF Spec, ImplementsSemaphore
==============================================================================

------------------------------ MODULE Bulkhead -------------------------------
(***************************************************************************)
(* The concurrency limiter packages/resilience/src/bulkhead.ts.            *)
(*                                                                         *)
(* One action is one run of JavaScript between two awaits.  The await that *)
(* matters is the one of line 86: drain() resolves the promise of the      *)
(* waiter at the head of the queue, but the waiter's continuation, which   *)
(* is what increments inFlight, runs in a microtask of its own.  `woken`   *)
(* holds the waiters whose microtask is pending; microtasks run in the     *)
(* order in which they were queued, so only its head may resume.           *)
(*                                                                         *)
(* SlotToken.cancelled is never set: enqueue() hands the cancel method to  *)
(* execute() alone, which does not call it.                                *)
(***************************************************************************)
EXTENDS Sequences, FiniteSets, BulkheadConfig

VARIABLES inFlight,  \* this.inFlight
          queue,     \* this.queue, a token named by its caller
          woken,     \* callers whose token is resolved and not yet resumed
          pc,        \* where each caller stands in execute()
          calm       \* parameter: no call falls between a wake and its resumption

vars == <<inFlight, queue, woken, pc, calm>>

Idle     == {"idle", "rejected"}
Statuses == Idle \union {"queued", "woken", "running"}

Running == {c \in Callers : pc[c] = "running"}

Init ==
    /\ inFlight = 0
    /\ queue = <<>>
    /\ woken = <<>>
    /\ pc = [c \in Callers |-> "idle"]
    /\ calm \in BOOLEAN

------------------------------------------------------------------------------
(* execute(), up to its first await.  config.rejectOnFull has no part in it:  *)
(* no line of the class reads it.                                             *)

SlotFree == inFlight < MaxConcurrent
Full     == Len(queue) >= MaxQueued

\* A program is calm when each call is the first thing a macrotask does (a timer,
\* an incoming request): no microtask is pending.
MayCall == calm => woken = <<>>

\* The fast path: a slot is free, whoever may be waiting.
EnterFast(c) ==
    /\ pc[c] \in Idle /\ MayCall
    /\ SlotFree
    /\ inFlight' = inFlight + 1
    /\ pc' = [pc EXCEPT ![c] = "running"]
    /\ UNCHANGED <<queue, woken, calm>>

\* throw new BulkheadFullError
Reject(c) ==
    /\ pc[c] \in Idle /\ MayCall
    /\ ~SlotFree
    /\ Full
    /\ pc' = [pc EXCEPT ![c] = "rejected"]
    /\ UNCHANGED <<inFlight, queue, woken, calm>>

\* enqueue() and the await of token.acquire()
Enqueue(c) ==
    /\ pc[c] \in Idle /\ MayCall
    /\ ~SlotFree
    /\ ~Full
    /\ queue' = Append(queue, c)
    /\ pc' = [pc EXCEPT ![c] = "queued"]
    /\ UNCHANGED <<inFlight, woken, calm>>

------------------------------------------------------------------------------
(* the rest of execute() *)

\* The continuation of `await token.acquire()`.
Resume(c) ==
    /\ woken # <<>>
    /\ c = Head(woken)
    /\ woken' = Tail(woken)
    /\ inFlight' = inFlight + 1
    /\ pc' = [pc EXCEPT ![c] = "running"]
    /\ UNCHANGED <<queue, calm>>

\* Mutants: the waiter is taken off the queue and its promise never resolved;
\* drain() called before the decrement.
DrainForgets(c, n) ==
    /\ queue' = IF n < MaxConcurrent /\ queue # <<>> THEN Tail(queue) ELSE queue
    /\ pc' = [pc EXCEPT ![c] = "idle"]
    /\ UNCHANGED woken

DrainEarly(c, n) ==
    IF n + 1 < MaxConcurrent /\ queue # <<>>
    THEN /\ queue' = Tail(queue)
         /\ woken' = Append(woken, Head(queue))
         /\ pc' = [pc EXCEPT ![c] = "idle", ![Head(queue)] = "woken"]
    ELSE pc' = [pc EXCEPT ![c] = "idle"] /\ UNCHANGED <<queue, woken>>

\* drain(), called by c with the count n it has just stored in inFlight: at
\* most one waiter is taken off the queue.  The status of c becomes idle.
DrainAfter(c, n) ==
    \/ /\ n < MaxConcurrent /\ queue # <<>>
       /\ queue' = Tail(queue)
       /\ woken' = Append(woken, Head(queue))
       /\ pc' = [pc EXCEPT ![c] = "idle", ![Head(queue)] = "woken"]
    \/ /\ ~(n < MaxConcurrent /\ queue # <<>>)
       /\ pc' = [pc EXCEPT ![c] = "idle"]
       /\ UNCHANGED <<queue, woken>>

\* fn() has settled, either way: the finally block.
Finish(c) ==
    /\ pc[c] = "running"
    /\ inFlight' = inFlight - 1
    /\ DrainAfter(c, inFlight - 1)
    /\ UNCHANGED calm

------------------------------------------------------------------------------
Arrive(c) == EnterFast(c) \/ Reject(c) \/ Enqueue(c)

Next == \E c \in Callers : Arrive(c) \/ Resume(c) \/ Finish(c)

\* Microtasks are run, and every fn() settles.  Nobody has to call execute().
Fairness ==
    /\ WF_vars(\E c \in Callers : Resume(c))
    /\ \A c \in Callers : WF_vars(Finish(c))

Spec == Init /\ [][Next]_vars
FairSpec == Spec /\ Fairness

------------------------------------------------------------------------------
(* Properties *)

Elements(s) == {s[i] : i \in 1..Len(s)}
Distinct(s) == \A i, j \in 1..Len(s) : s[i] = s[j] => i = j

TypeOK ==
    /\ inFlight \in Nat
    /\ queue \in Seq(Callers)
    /\ woken \in Seq(Callers)
    /\ pc \in [Callers -> Statuses]

\* A caller whose promise is pending is in exactly one place, once: no waiter
\* is lost or resolved twice, whatever the order of arrivals, wakes and
\* settlements (bulkhead.ts:85-94, 128-131).
NoLostWaiter ==
    /\ Distinct(queue)
    /\ Distinct(woken)
    /\ \A c \in Callers : pc[c] = "queued" <=> c \in Elements(queue)
    /\ \A c \in Callers : pc[c] = "woken" <=> c \in Elements(woken)

\* The counter that admits calls counts the calls that run, although it is
\* incremented on two paths and decremented on two (bulkhead.ts:71, 75, 88, 92).
SlotAccounting == inFlight = Cardinality(Running)

\* Nobody waits while a slot stands idle: a queue that is not empty means that
\* all slots are taken or promised to a waiter about to resume.  drain() wakes
\* one waiter per call and only below the limit, so a count that overshot the
\* limit, or two releases in one turn, could have left a slot unused for good
\* (bulkhead.ts:123-134).
WorkConserving == queue # <<>> => inFlight + Len(woken) >= MaxConcurrent

\* Every caller that was queued runs in the end, even when newcomers keep
\* taking the fast path past it (bulkhead.ts:86, 123-134).
EveryWaiterRuns ==
    \A c \in Callers : pc[c] = "queued" ~> pc[c] = "running"

\* bulkhead.ts:11 "how many `execute()` calls may be in-flight at once".
ConcurrencyLimit == inFlight <= MaxConcurrent

\* A calm program never exceeds it (bulkhead.ts:70, 88).
CalmLimit == calm => ConcurrencyLimit

\* The bulkhead as the semaphore its header describes: a woken waiter already
\* owns the slot it was promised.
Semaphore == INSTANCE FairSemaphore WITH
    Clients <- Callers, Slots <- MaxConcurrent, Room <- MaxQueued,
    holders <- {c \in Callers : pc[c] \in {"woken", "running"}}, line <- queue

\* In a calm program the bulkhead implements that semaphore: limit, line and
\* hand-over (bulkhead.ts:10-19).  `calm` never changes, so this is
\* calm => Semaphore!Spec.
ImplementsSemaphore ==
    /\ calm => Semaphore!Init
    /\ [][calm => [Semaphore!Next]_(Semaphore!vars)]_vars
==============================================================================

---------------------------- MODULE QueueService -----------------------------
(***************************************************************************)
(* packages/queue/src/queue.service.ts over its memory backend.            *)
(*                                                                         *)
(* stop() polls the backend's drain() every 50 ms.  From the poll that     *)
(* finds it drained to the clearInterval of the backend's stop() there are *)
(* only microtasks: no timer, hence no tick and no other poll, but other   *)
(* microtasks may add jobs.                                                *)
(*                                                                         *)
(* A call of stop() is named by the call of start() whose `started` it     *)
(* takes back.                                                             *)
(***************************************************************************)
EXTENDS MemoryQueue

CONSTANT MaxStarts  \* bound: how many calls of start() find it not started

ASSUME StartsAssumption == MaxStarts \in Nat

VARIABLES started,   \* this.#started
          bridges,   \* listeners that start() has put on the backend
          stopper,   \* where each call of stop() stands
          accepted   \* history: the jobs already added when it was called

svars == <<started, bridges, stopper, accepted>>
vars == <<qvars, svars>>

Calls == 1..MaxStarts

Init ==
    /\ QueueInit
    /\ started = FALSE
    /\ bridges = 0
    /\ stopper = [k \in Calls |-> "none"]
    /\ accepted = [k \in Calls |-> {}]

\* No microtask of a stop() is pending.
TimersMayFire == sweep = {} /\ \A k \in Calls : stopper[k] # "closing"

------------------------------------------------------------------------------
\* start(): the backend's tick, cleared by an earlier stop(), stays cleared.
StartService ==
    /\ ~started
    /\ bridges < MaxStarts
    /\ started' = TRUE
    /\ bridges' = bridges + 1
    /\ UNCHANGED <<qvars, stopper, accepted>>

\* stop(), up to the first await in drain(): its loop may end at once.
Stop ==
    /\ started
    /\ started' = FALSE
    /\ stopper' = [stopper EXCEPT ![bridges] = IF Drained THEN "closing" ELSE "draining"]
    /\ accepted' = [accepted EXCEPT ![bridges] = {j \in Jobs : status[j] # "new"}]
    /\ UNCHANGED <<qvars, bridges>>

\* Mutant: stop() does not wait for the drain.
PollImpatient(k) ==
    /\ TimersMayFire
    /\ stopper[k] = "draining"
    /\ stopper' = [stopper EXCEPT ![k] = "closing"]
    /\ UNCHANGED <<qvars, started, bridges, accepted>>

\* The timer of drain() fires and its loop ends.
Poll(k) ==
    /\ TimersMayFire
    /\ stopper[k] = "draining"
    /\ Drained
    /\ stopper' = [stopper EXCEPT ![k] = "closing"]
    /\ UNCHANGED <<qvars, started, bridges, accepted>>

\* Every handle is closed and the backend is stopped.
Close(k) ==
    /\ sweep = {}
    /\ stopper[k] = "closing"
    /\ stopper' = [stopper EXCEPT ![k] = "stopped"]
    /\ StopTick
    /\ UNCHANGED <<started, bridges, accepted>>

Tick == TimersMayFire /\ TickBegin /\ UNCHANGED svars
Sweep == SweepStep /\ UNCHANGED svars
Settle(j) == (Finish(j) \/ Throw(j)) /\ UNCHANGED svars
Enqueue(j) == Add(j) /\ UNCHANGED svars
Ripen(j) == Mature(j) /\ UNCHANGED svars
Register(n) == Process(n) /\ UNCHANGED svars

Next ==
    \/ StartService \/ Stop \/ Tick \/ Sweep
    \/ \E k \in Calls : Poll(k) \/ Close(k)
    \/ \E j \in Jobs : Enqueue(j) \/ Ripen(j) \/ Settle(j)
    \/ \E n \in Names : Register(n)

\* Timers fire, time passes, handlers settle, microtasks and loops run.  Nobody
\* has to add a job, register a worker or call start() or stop().  A sweep only
\* delays a settlement: the microtask is run when the loop ends, before another
\* timer fires, hence strong fairness.
Fairness ==
    /\ WF_vars(Tick)
    /\ WF_vars(Sweep)
    /\ \A k \in Calls : WF_vars(Poll(k)) /\ WF_vars(Close(k))
    /\ \A j \in Jobs : WF_vars(Ripen(j)) /\ SF_vars(Settle(j))

Spec == Init /\ [][Next]_vars
FairSpec == Spec /\ Fairness

------------------------------------------------------------------------------
(* Properties *)

StopperStates == {"none", "draining", "closing", "stopped"}

TypeOK ==
    /\ queue \in Seq(Jobs)
    /\ sweep \subseteq Jobs
    /\ due \subseteq Jobs
    /\ status \in [Jobs -> Statuses]
    /\ runs \in [Jobs -> Nat]
    /\ handlers \subseteq Names
    /\ inFlight \in Nat
    /\ ticking \in BOOLEAN
    /\ started \in BOOLEAN
    /\ bridges \in 0..MaxStarts
    /\ stopper \in [Calls -> StopperStates]
    /\ accepted \in [Calls -> SUBSET Jobs]

\* A job is in the queue once, and exactly while it waits to be run: taking it
\* off, putting it back in front and pushing it again for a retry lose none and
\* double none (memory.ts:158, 164, 235).
JobsAccounted ==
    /\ Distinct(queue)
    /\ Elements(queue) = Queued

\* The counter that drain() and the dispatch trust is the number of handlers
\* that are running, whichever way they settle (memory.ts:172, 238).
InFlightAccounted == inFlight = Cardinality(Running)

\* A worker never runs more jobs at once than the concurrency it was registered
\* with, although one counter serves the workers of all names (types.ts:84,
\* memory.ts:162).
ConcurrencyRespected ==
    \A n \in Names :
        Cardinality({j \in Running : NameOf[j] = n}) <= Concurrency[n]

\* A job that was not given a second attempt has its handler called at most
\* once, however often it was put back (memory.ts:164, 220).
AtMostOnce == \A j \in Jobs : Attempts[j] <= 1 => runs[j] <= 1

\* No handler is running once the tick is cleared: not one that a job added
\* during the shutdown, or a later start(), has brought about
\* (queue.service.ts:123-127).
NothingRunsAfterStop == ~ticking => Running = {}

\* queue.service.ts:119 "Drain in-flight jobs": when a stop() has returned,
\* every job added before it was called is settled, delayed and retried ones
\* too.
StopSettles ==
    \A k \in Calls : stopper[k] = "stopped" =>
        \A j \in accepted[k] : status[j] \in Settled

\* A job is settled in the end as long as the backend ticks, although jobs that
\* find the queue busy are put in front of those that wait (memory.ts:164).
EveryJobSettles ==
    \A j \in Jobs : status[j] = "queued" ~> (status[j] \in Settled \/ ~ticking)

\* Every stop() returns, whatever is added, delayed or retried meanwhile, unless
\* another stop() has cleared the tick that would have drained the queue: two
\* are in progress when start() is called between them (queue.service.ts:120).
StopReturns ==
    \A k \in Calls :
        stopper[k] = "draining" ~> (stopper[k] = "stopped" \/ ~ticking)

\* types.ts:64 "Max attempts before the job is dead-lettered."
AttemptsBounded == \A j \in Jobs : runs[j] >= 1 => runs[j] <= Attempts[j]
==============================================================================

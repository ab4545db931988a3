----------------------------- MODULE MemoryQueue -----------------------------
(***************************************************************************)
(* The in-memory job queue packages/queue/src/backends/memory.ts.          *)
(*                                                                         *)
(* #tick() takes the due jobs off the queue one by one, in one synchronous *)
(* loop: `sweep` holds those it has not come to yet, and while it is not   *)
(* empty nothing else happens but what the loop itself calls, the handlers *)
(* and the event listeners, which may add jobs.  The loop visits the due   *)
(* jobs in the order they had when it began; a job it puts back goes to    *)
(* the front, one added or retried goes to the end, so the next to visit   *)
(* is always the first in the queue that `sweep` holds.                    *)
(*                                                                         *)
(* Time is the set `due`.  Left out: the events emitted, the job's data,   *)
(* and WorkerHandle's #running, which close(), pause() and resume() set    *)
(* and no line of the dispatch reads.                                      *)
(***************************************************************************)
EXTENDS Naturals, Sequences, FiniteSets

CONSTANTS Jobs,         \* the jobs, one for each call of add()
          Names,        \* the job names
          NameOf,       \* the name of a job
          Attempts,     \* options.attempts ?? 1 of a job
          Concurrency,  \* options.concurrency ?? 1 of the worker of a name; 1 for
                        \* a worker that QueueService.process registers, which
                        \* hands no options on
          MaxRuns       \* bound: the MaxRuns-th run of a job does not throw

ASSUME JobsAssumption ==
    /\ IsFiniteSet(Jobs)
    /\ NameOf \in [Jobs -> Names]
    /\ Attempts \in [Jobs -> Nat]
    /\ Concurrency \in [Names -> Nat \ {0}]
    /\ MaxRuns \in Nat

VARIABLES queue,     \* this.#queue
          sweep,     \* the due jobs that the tick in progress has yet to visit
          due,       \* the jobs whose resolveAt has come
          status,    \* what has become of each job
          runs,      \* how often its handler was called
          handlers,  \* the keys of this.#handlers
          inFlight,  \* this.#inFlight
          ticking    \* this.#tickHandle # null

qvars == <<queue, sweep, due, status, runs, handlers, inFlight, ticking>>

Settled  == {"completed", "failed", "dropped"}
Statuses == {"new", "queued", "running"} \union Settled

Queued  == {j \in Jobs : status[j] = "queued"}
Running == {j \in Jobs : status[j] = "running"}

Elements(s) == {s[i] : i \in 1..Len(s)}
Distinct(s) == \A a, b \in 1..Len(s) : s[a] = s[b] => a = b

QueueInit ==
    /\ queue = <<>>
    /\ sweep = {}
    /\ due = {}
    /\ status = [j \in Jobs |-> "new"]
    /\ runs = [j \in Jobs |-> 0]
    /\ handlers = {}
    /\ inFlight = 0
    /\ ticking = TRUE

------------------------------------------------------------------------------
(* add(), addBatch(), process() *)

\* this.#queue.push with resolveAt = now + a delay, zero or not.
Push(j, q) ==
    /\ queue' = Append(q, j)
    /\ due' \in {due \ {j}, due \union {j}}

Add(j) ==
    /\ status[j] = "new"
    /\ Push(j, queue)
    /\ status' = [status EXCEPT ![j] = "queued"]
    /\ UNCHANGED <<sweep, runs, handlers, inFlight, ticking>>

\* Time passes: the resolveAt of a queued job comes.
Mature(j) ==
    /\ status[j] = "queued"
    /\ due' = due \union {j}
    /\ j \notin due
    /\ UNCHANGED <<queue, sweep, status, runs, handlers, inFlight, ticking>>

\* A second registration for the name changes nothing that is modelled.
Process(n) ==
    /\ n \notin handlers
    /\ handlers' = handlers \union {n}
    /\ UNCHANGED <<queue, sweep, due, status, runs, inFlight, ticking>>

------------------------------------------------------------------------------
(* #tick() and, up to its await, #runJob() *)

TickBegin ==
    /\ ticking
    /\ sweep = {}
    /\ sweep' = Elements(queue) \intersect due
    /\ sweep' # {}
    /\ UNCHANGED <<queue, due, status, runs, handlers, inFlight, ticking>>

\* The queue without its i-th element: this.#queue.filter((j) => j !== job).
Without(i) == SubSeq(queue, 1, i - 1) \o SubSeq(queue, i + 1, Len(queue))

\* The loop is at the job queue[i].
Visits(i) ==
    /\ queue[i] \in sweep
    /\ \A k \in 1..(i - 1) : queue[k] \notin sweep

\* if (!handler) continue: the job is gone.
Drop(i) ==
    /\ NameOf[queue[i]] \notin handlers
    /\ queue' = Without(i)
    /\ status' = [status EXCEPT ![queue[i]] = "dropped"]
    /\ UNCHANGED <<due, runs, inFlight>>

\* Mutant: the job is not taken off before it is put back.
RequeueTwice(i) ==
    /\ NameOf[queue[i]] \in handlers
    /\ inFlight >= Concurrency[NameOf[queue[i]]]
    /\ queue' = <<queue[i]>> \o queue
    /\ UNCHANGED <<due, status, runs, inFlight>>

\* #inFlight counts the jobs of every name, the limit is that of one.
Busy(j) == inFlight >= Concurrency[NameOf[j]]

\* this.#queue.unshift(job)
Requeue(i) ==
    /\ NameOf[queue[i]] \in handlers
    /\ Busy(queue[i])
    /\ queue' = <<queue[i]>> \o Without(i)
    /\ UNCHANGED <<due, status, runs, inFlight>>

\* #runJob() calls the handler, which awaits something.
Start(i) ==
    /\ NameOf[queue[i]] \in handlers
    /\ ~Busy(queue[i])
    /\ queue' = Without(i)
    /\ inFlight' = inFlight + 1
    /\ status' = [status EXCEPT ![queue[i]] = "running"]
    /\ runs' = [runs EXCEPT ![queue[i]] = @ + 1]
    /\ UNCHANGED due

\* Mutant: a retried job is lost.
RetryLost(j, q) ==
    /\ queue' = q
    /\ status' = [status EXCEPT ![j] = IF Attempts[j] > 1 THEN "queued" ELSE "failed"]
    /\ UNCHANGED due

\* The catch block: the job goes back to the queue, which is q, whenever it
\* was given more than one attempt.  The attempts it has used are not counted.
Fail(j, q) ==
    \/ /\ Attempts[j] > 1
       /\ Push(j, q)
       /\ status' = [status EXCEPT ![j] = "queued"]
    \/ /\ ~(Attempts[j] > 1)
       /\ queue' = q
       /\ status' = [status EXCEPT ![j] = "failed"]
       /\ UNCHANGED due

\* #runJob() calls a handler that throws before it returns a promise: the
\* catch and finally blocks run within the loop.
StartThrows(i) ==
    /\ NameOf[queue[i]] \in handlers
    /\ ~Busy(queue[i])
    /\ runs[queue[i]] + 1 < MaxRuns
    /\ runs' = [runs EXCEPT ![queue[i]] = @ + 1]
    /\ Fail(queue[i], Without(i))
    /\ UNCHANGED inFlight

SweepStep ==
    \E i \in 1..Len(queue) :
        /\ Visits(i)
        /\ sweep' = sweep \ {queue[i]}
        /\ Drop(i) \/ Requeue(i) \/ Start(i) \/ StartThrows(i)
        /\ UNCHANGED <<handlers, ticking>>

------------------------------------------------------------------------------
(* #runJob() after its await *)

\* Mutant: the finally block is missing where the handler has not thrown.
FinishLeaks(j) ==
    /\ status[j] = "running"
    /\ sweep = {}
    /\ status' \in {[status EXCEPT ![j] = s] : s \in {"completed", "failed"}}
    /\ UNCHANGED <<queue, sweep, due, runs, handlers, inFlight, ticking>>

\* The handler's promise is fulfilled, { status: 'failed' } or with anything
\* else; { status: 'retry' } is completed.
Finish(j) ==
    /\ status[j] = "running"
    /\ sweep = {}
    /\ inFlight' = inFlight - 1
    /\ status' \in {[status EXCEPT ![j] = s] : s \in {"completed", "failed"}}
    /\ UNCHANGED <<queue, sweep, due, runs, handlers, ticking>>

\* The handler's promise is rejected.
Throw(j) ==
    /\ status[j] = "running"
    /\ sweep = {}
    /\ runs[j] < MaxRuns
    /\ inFlight' = inFlight - 1
    /\ Fail(j, queue)
    /\ UNCHANGED <<sweep, runs, handlers, ticking>>

------------------------------------------------------------------------------
(* drain() and stop() *)

\* Mutant: only the queue is looked at.
DrainedQueue == queue = <<>>

\* The loop of drain() ends.
Drained == inFlight = 0 /\ queue = <<>>

\* clearInterval
StopTick ==
    /\ ticking' = FALSE
    /\ UNCHANGED <<queue, sweep, due, status, runs, handlers, inFlight>>
==============================================================================

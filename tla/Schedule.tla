------------------------------- MODULE Schedule ------------------------------
(***************************************************************************)
(* The in-process scheduler packages/schedule/src/backends/memory.ts with  *)
(* the start() and stop() of schedule.service.ts.                          *)
(*                                                                         *)
(* A cron task is looked for by the tick, one synchronous loop over the    *)
(* Map of tasks in the order of their ids; intervals and timeouts have     *)
(* timers of their own.  Whatever calls a handler runs its synchronous     *)
(* part at once, and that part may call the scheduler: `cursor` is where   *)
(* the loop stands, `removing` the timeout task whose handler has been     *)
(* called and which is still to be removed; while either is set, no timer  *)
(* fires and no handler settles.                                           *)
(*                                                                         *)
(* A cron expression is the set of the instants that match it.  Left out:  *)
(* events, invocation counts, errors, and the nextRunAt of intervals and   *)
(* timeouts, which no line reads.                                          *)
(***************************************************************************)
EXTENDS Integers

CONSTANTS Names,     \* task names
          Exprs,     \* cron expressions
          Matches,   \* the instants that match an expression
          Delays,    \* the ms of intervals and timeouts
          MaxDrift,  \* maxDriftMs
          Fallback,  \* the 60_000 ms of memory.ts:87, 320 and 322
          MaxTasks,  \* bound: how many tasks are ever added
          MaxTime,   \* bound: the clock stops there
          MaxRuns    \* bound: the runs of one task in progress at once

ASSUME ScheduleAssumption ==
    /\ Matches \in [Exprs -> SUBSET Nat]
    /\ Delays \subseteq Nat \ {0}
    /\ MaxDrift \in Nat /\ Fallback \in Nat \ {0}
    /\ MaxTasks \in Nat /\ MaxTime \in Nat \ {0} /\ MaxRuns \in Nat
    /\ Names # {} /\ Exprs # {}

Ids == 1..MaxTasks

VARIABLES now,        \* Date.now()
          nextId,     \* this.#nextId
          live,       \* the keys of this.#tasks
          kind, name, expr, delay, status, nextRunAt,  \* the fields of each task
          timer,      \* when the timer armed for it fires next; 0 when none is
          byName,     \* this.#byName; 0 for a name it does not have
          cursor,     \* where the loop of the tick stands; 0 outside of it
          removing,   \* the timeout task whose handler was called just now, or 0
          ticking,    \* this.#tickHandle # null
          started,    \* ScheduleService.#started
          runs,       \* the calls of its handler that have not settled
          calm,       \* parameter: handlers settle before anything else happens
          shared,     \* history: a task was added under the name of a live one
          lastRun     \* history: when a cron task was last run, or was added

tvars == <<nextId, kind, name, expr, delay>>
hvars == <<calm, shared>>
vars == <<now, live, status, nextRunAt, timer, byName, cursor, removing, ticking,
          started, runs, lastRun, tvars, hvars>>

Init ==
    /\ now = 1 /\ nextId = 1 /\ cursor = 0 /\ removing = 0
    /\ live = {}
    /\ kind = [i \in Ids |-> "none"]
    /\ name = [i \in Ids |-> CHOOSE n \in Names : TRUE]
    /\ expr = [i \in Ids |-> CHOOSE e \in Exprs : TRUE]
    /\ delay = [i \in Ids |-> 0]
    /\ status = [i \in Ids |-> "stopped"]
    /\ nextRunAt = [i \in Ids |-> 0]
    /\ timer = [i \in Ids |-> 0]
    /\ byName = [n \in Names |-> 0]
    /\ ticking = FALSE /\ started = FALSE
    /\ runs = [i \in Ids |-> 0]
    /\ calm \in BOOLEAN
    /\ shared = FALSE
    /\ lastRun = [i \in Ids |-> 0]

\* No loop of the scheduler is on the stack.
Settling == cursor = 0 /\ removing = 0

\* A caller of the scheduler: a handler, or whoever runs between them.
MayCall == calm => Settling /\ \A i \in Ids : runs[i] = 0

\* The event loop takes the next timer.
TimersMayFire == Settling /\ MayCall

------------------------------------------------------------------------------
(* cron-parser.ts *)

\* Mutant: a match at `t` itself counts.
FirstFrom(e, t) == {m \in Matches[e] : m >= t /\ \A n \in Matches[e] : n >= t => m <= n}

\* next(): the first match after `t`, if there is one; Date steps forward from
\* the second, or minute, that follows.
First(e, t) == {m \in Matches[e] : m > t /\ \A n \in Matches[e] : n > t => m <= n}

Upcoming(e, t) == IF First(e, t) = {} THEN {now + Fallback} ELSE First(e, t)

------------------------------------------------------------------------------
(* addCron(), addInterval(), addTimeout(), delete(), pause(), resume() *)

Register(k, n) ==
    /\ MayCall
    /\ nextId <= MaxTasks
    /\ nextId' = nextId + 1
    /\ live' = live \union {nextId}
    /\ kind' = [kind EXCEPT ![nextId] = k]
    /\ name' = [name EXCEPT ![nextId] = n]
    /\ status' = [status EXCEPT ![nextId] = "running"]
    /\ byName' = [byName EXCEPT ![n] = nextId]
    /\ shared' = (shared \/ \E i \in live : name[i] = n)
    /\ UNCHANGED <<now, cursor, removing, ticking, started, runs, calm>>

\* With runOnInit the search starts one second earlier.
AddCron(n, e) ==
    /\ Register("cron", n)
    /\ expr' = [expr EXCEPT ![nextId] = e]
    /\ \E lead \in {0, 1} : \E m \in Upcoming(e, now - lead) :
           nextRunAt' = [nextRunAt EXCEPT ![nextId] = m]
    /\ lastRun' = [lastRun EXCEPT ![nextId] = now - 1]
    /\ UNCHANGED <<delay, timer>>

AddTimer(n, d) ==
    /\ \E k \in {"interval", "timeout"} : Register(k, n)
    /\ delay' = [delay EXCEPT ![nextId] = d]
    /\ timer' = [timer EXCEPT ![nextId] = now + d]
    /\ UNCHANGED <<expr, nextRunAt, lastRun>>

\* Mutant: the name keeps leading to the task.
ForgetTaskOnly(i) == live' = live \ {i} /\ UNCHANGED byName

\* A task leaves this.#tasks; its name is forgotten, whichever task has it.
Forget(i) ==
    /\ live' = live \ {i}
    /\ byName' = [byName EXCEPT ![name[i]] = 0]

\* Mutant: the timer is not cleared.
DeleteArmed(i) ==
    /\ MayCall
    /\ i \in live
    /\ Forget(i)
    /\ UNCHANGED <<now, status, nextRunAt, timer, cursor, removing, ticking, started,
                   runs, lastRun, tvars, hvars>>

Delete(i) ==
    /\ MayCall
    /\ i \in live
    /\ Forget(i)
    /\ timer' = [timer EXCEPT ![i] = 0]
    /\ UNCHANGED <<now, status, nextRunAt, cursor, removing, ticking, started,
                   runs, lastRun, tvars, hvars>>

Pause(i) ==
    /\ MayCall
    /\ i \in live
    /\ status' = [status EXCEPT ![i] = "paused"]
    /\ timer' = [timer EXCEPT ![i] = 0]
    /\ UNCHANGED <<now, live, nextRunAt, byName, cursor, removing, ticking, started,
                   runs, lastRun, tvars, hvars>>

\* The timer of a timeout stays cleared.
Resume(i) ==
    /\ MayCall
    /\ i \in live
    /\ status' = [status EXCEPT ![i] = "running"]
    /\ timer' = IF kind[i] = "interval" /\ timer[i] = 0
                THEN [timer EXCEPT ![i] = now + delay[i]] ELSE timer
    /\ UNCHANGED <<now, live, nextRunAt, byName, cursor, removing, ticking, started,
                   runs, lastRun, tvars, hvars>>

------------------------------------------------------------------------------
(* #runTask() *)

\* Up to the await: the handler is called, unless the task is gone.
Invoke(i) ==
    IF i \in live
    THEN /\ runs' = [runs EXCEPT ![i] = @ + 1]
         /\ lastRun' = [lastRun EXCEPT ![i] = IF kind[i] = "cron" THEN now ELSE 0]
    ELSE UNCHANGED <<runs, lastRun>>

\* From the await on: the handler has returned or thrown, and a cron task that
\* is not paused is given its next run.
Settle(i) ==
    /\ Settling
    /\ runs[i] > 0
    /\ runs' = [runs EXCEPT ![i] = @ - 1]
    /\ IF kind[i] = "cron" /\ status[i] = "running"
       THEN \E m \in Upcoming(expr[i], now) :
                nextRunAt' = [nextRunAt EXCEPT ![i] =
                                  IF m - now > MaxDrift THEN now + Fallback ELSE m]
       ELSE UNCHANGED nextRunAt
    /\ UNCHANGED <<now, live, status, timer, byName, cursor, removing, ticking,
                   started, lastRun, tvars, hvars>>

------------------------------------------------------------------------------
(* #tick(), the callbacks of the timers, #runOnceAndRemove() *)

Due ==
    {i \in live : /\ status[i] = "running" /\ kind[i] = "cron"
                  /\ nextRunAt[i] <= now /\ runs[i] < MaxRuns}

Ahead == {i \in Due : cursor <= i}

\* Mutant: a tick does nothing while a handler is running.
TickBeginIdle ==
    /\ TimersMayFire
    /\ ticking
    /\ Due # {}
    /\ \A i \in Ids : runs[i] = 0
    /\ cursor' = 1
    /\ UNCHANGED <<now, live, status, nextRunAt, timer, byName, removing, ticking,
                   started, runs, lastRun, tvars, hvars>>

\* A tick that finds nothing due changes nothing.
TickBegin ==
    /\ TimersMayFire
    /\ ticking
    /\ Due # {}
    /\ cursor' = 1
    /\ UNCHANGED <<now, live, status, nextRunAt, timer, byName, removing, ticking,
                   started, runs, lastRun, tvars, hvars>>

Visit(i) ==
    /\ i \in Ahead
    /\ \A j \in Ahead : i <= j
    /\ cursor' = i + 1
    /\ Invoke(i)

TickEnd ==
    /\ Ahead = {}
    /\ cursor' = 0
    /\ UNCHANGED <<runs, lastRun>>

TickLoop ==
    /\ cursor # 0
    /\ (\E i \in Ids : Visit(i)) \/ TickEnd
    /\ UNCHANGED <<now, live, status, nextRunAt, timer, byName, removing, ticking,
                   started, tvars, hvars>>

Fires(i, k) ==
    /\ TimersMayFire
    /\ kind[i] = k
    /\ timer[i] # 0 /\ timer[i] <= now
    /\ runs[i] < MaxRuns
    /\ Invoke(i)

FireInterval(i) ==
    /\ Fires(i, "interval")
    /\ timer' = [timer EXCEPT ![i] = now + delay[i]]
    /\ UNCHANGED <<now, live, status, nextRunAt, byName, cursor, removing, ticking,
                   started, tvars, hvars>>

FireTimeout(i) ==
    /\ Fires(i, "timeout")
    /\ timer' = [timer EXCEPT ![i] = 0]
    /\ removing' = i
    /\ UNCHANGED <<now, live, status, nextRunAt, byName, cursor, ticking, started,
                   tvars, hvars>>

\* Mutant: the task is not removed.
RemoveNothing ==
    /\ removing # 0
    /\ removing' = 0
    /\ UNCHANGED <<now, live, status, nextRunAt, timer, byName, cursor, ticking,
                   started, runs, lastRun, tvars, hvars>>

\* After the synchronous part of its handler.
Remove ==
    /\ removing # 0
    /\ IF removing \in live THEN Forget(removing) ELSE UNCHANGED <<live, byName>>
    /\ removing' = 0
    /\ UNCHANGED <<now, status, nextRunAt, timer, cursor, ticking, started, runs,
                   lastRun, tvars, hvars>>

------------------------------------------------------------------------------
(* ScheduleService.start() and stop(); the clock *)

Start ==
    /\ MayCall
    /\ ~started
    /\ started' = TRUE
    /\ ticking' = TRUE
    /\ UNCHANGED <<now, live, status, nextRunAt, timer, byName, cursor, removing,
                   runs, lastRun, tvars, hvars>>

Stop ==
    /\ MayCall
    /\ started
    /\ started' = FALSE
    /\ ticking' = FALSE
    /\ timer' = [i \in Ids |-> IF i \in live THEN 0 ELSE timer[i]]
    /\ live' = {}
    /\ byName' = [n \in Names |-> 0]
    /\ UNCHANGED <<now, status, nextRunAt, cursor, removing, runs, lastRun, tvars, hvars>>

Advance ==
    /\ TimersMayFire
    /\ now < MaxTime
    /\ now' = now + 1
    /\ UNCHANGED <<live, status, nextRunAt, timer, byName, cursor, removing, ticking,
                   started, runs, lastRun, tvars, hvars>>

Next ==
    \/ \E n \in Names : \/ \E e \in Exprs : AddCron(n, e)
                        \/ \E d \in Delays : AddTimer(n, d)
    \/ \E i \in Ids : \/ Delete(i) \/ Pause(i) \/ Resume(i) \/ Settle(i)
                      \/ FireInterval(i) \/ FireTimeout(i)
    \/ TickBegin \/ TickLoop \/ Remove \/ Start \/ Stop \/ Advance

\* Timers fire and synchronous loops end; a loop only delays the timers that
\* have expired, hence strong fairness for them.  A handler settles only where
\* `calm` says so, and nobody has to call the scheduler.
Fairness ==
    /\ WF_vars(TickBegin) /\ WF_vars(TickLoop) /\ WF_vars(Remove)
    /\ \A i \in Ids : SF_vars(FireTimeout(i)) /\ WF_vars(calm /\ Settle(i))

Spec == Init /\ [][Next]_vars
FairSpec == Spec /\ Fairness

------------------------------------------------------------------------------
(* Properties *)

Kinds == {"none", "cron", "interval", "timeout"}

TypeOK ==
    /\ now \in 1..MaxTime /\ nextId \in 1..(MaxTasks + 1)
    /\ live \subseteq 1..(nextId - 1)
    /\ kind \in [Ids -> Kinds] /\ name \in [Ids -> Names]
    /\ expr \in [Ids -> Exprs] /\ delay \in [Ids -> Nat]
    /\ status \in [Ids -> {"stopped", "running", "paused"}]
    /\ nextRunAt \in [Ids -> Nat] /\ timer \in [Ids -> Nat]
    /\ byName \in [Names -> 0..MaxTasks]
    /\ cursor \in 0..(MaxTasks + 1) /\ removing \in 0..MaxTasks
    /\ ticking \in BOOLEAN /\ started \in BOOLEAN
    /\ runs \in [Ids -> Nat]
    /\ calm \in BOOLEAN /\ shared \in BOOLEAN
    /\ lastRun \in [Ids -> Nat]

NameIndexSound ==
    \A n \in Names : byName[n] # 0 => byName[n] \in live /\ name[byName[n]] = n

NameIndexComplete == ~shared => \A i \in live : byName[name[i]] = i

\* A name leads to a task that exists and bears it, also when names are shared
\* and when a handler deletes or replaces tasks while it is run; and as long as
\* no task is added under the name of another, every task is found by its name:
\* delete(), pause() and resume() reach it (memory.ts:93, 161, 244, 333).
NamesConsistent == NameIndexSound /\ NameIndexComplete

\* A timer is armed for no task but a running interval or timeout that exists,
\* and a running interval never lacks its own (memory.ts:159, 182, 193, 206).
TimersOwned ==
    /\ \A i \in Ids : timer[i] # 0 =>
           i \in live /\ status[i] = "running" /\ kind[i] \in {"interval", "timeout"}
    /\ \A i \in live : kind[i] = "interval" /\ status[i] = "running" => timer[i] # 0

\* The handler of a task that is paused or gone is not called: no timer and no
\* tick that was under way does it (memory.ts:182, 277).
RunsOnlyRunning ==
    [][\A i \in Ids : runs'[i] > runs[i] => i \in live /\ status[i] = "running"]_vars

\* No expression lets more than maxDriftMs pass between two matches.
Steady(e) ==
    \A t \in 0..MaxTime : \E m \in First(e, t) : m - t <= MaxDrift

\* One match, one run: when handlers settle at once, a cron task that is run has
\* had a match since its last run, however late ticks come and however often it
\* was paused and resumed (memory.ts:279, 316).
RunsOnMatch(E) ==
    \A i \in Ids :
        calm /\ runs'[i] > runs[i] /\ kind[i] = "cron" /\ expr[i] \in E =>
            \E m \in Matches[expr[i]] : lastRun[i] < m /\ m <= now

SteadyRunPerMatch == [][RunsOnMatch({e \in Exprs : Steady(e)})]_vars

\* A due cron task is run, paused or removed as long as the backend ticks,
\* whatever other handlers do and even if they never settle (memory.ts:280).
EveryDueRuns ==
    \A i \in Ids : (i \in Due /\ ticking) ~> (runs[i] > 0 \/ i \notin Due \/ ~ticking)

\* A timeout whose time has come is run once and removed, unless it is paused
\* or deleted first (memory.ts:328).
TimeoutsEnd ==
    \A i \in Ids : (kind[i] = "timeout" /\ timer[i] # 0 /\ timer[i] <= now) ~>
                       (i \notin live \/ status[i] = "paused")

\* What is due comes, whichever kind it is of.
DueTasksRun == EveryDueRuns /\ TimeoutsEnd

\* docs/user-guide/schedule.md:77 "`0 * * * *` | every hour (at minute 0)": a
\* task is run when its expression matches, however rare the matches are.
CronFollowsExpression == [][RunsOnMatch(Exprs)]_vars
==============================================================================

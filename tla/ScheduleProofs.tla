---------------------------- MODULE ScheduleProofs ---------------------------
(***************************************************************************)
(* Proofs about Schedule, for any tasks, names and expressions, and any    *)
(* interleaving of callers, ticks, timers and handlers.                    *)
(***************************************************************************)
EXTENDS Schedule, TLAPS

\* The timeout task that is about to be removed has used up its timer.
RemovingSpent ==
    removing # 0 =>
        removing < nextId /\ kind[removing] = "timeout" /\ timer[removing] = 0

\* Where handlers settle at once: a cron task that is being run was started at
\* most once, by the loop that has passed it; one that is not waits for a match
\* later than its last run.
CalmTask(i) ==
    /\ runs[i] > 0 =>
           /\ runs[i] = 1 /\ status[i] = "running" /\ lastRun[i] <= now
           /\ cursor # 0 => i < cursor
    /\ runs[i] = 0 /\ Steady(expr[i]) =>
           nextRunAt[i] \in Matches[expr[i]] /\ lastRun[i] < nextRunAt[i]

CalmTasks == calm => \A i \in live : kind[i] = "cron" => CalmTask(i)

\* The ids not yet given out have not been run.
NotYetRun == \A i \in Ids : i >= nextId => runs[i] = 0

\* The inductive invariant.
IInv ==
    /\ TypeOK
    /\ NameIndexSound
    /\ NameIndexComplete
    /\ TimersOwned
    /\ RemovingSpent
    /\ CalmTasks
    /\ NotYetRun

USE ScheduleAssumption

------------------------------------------------------------------------------
(* Facts *)

\* What the search for the next match returns.
LEMMA UpcomingFacts ==
    ASSUME TypeOK, NEW e \in Exprs, NEW t \in 0..MaxTime
    PROVE  /\ \A m \in Upcoming(e, t) : m \in Nat
           /\ Steady(e) => \A m \in Upcoming(e, t) :
                               m \in Matches[e] /\ t < m /\ m - t <= MaxDrift
<1>1. \A m \in First(e, t) : m \in Nat /\ m \in Matches[e] /\ t < m
  BY DEF First
<1>2. now + Fallback \in Nat
  BY DEF TypeOK
<1>3. ASSUME Steady(e) PROVE \A m \in First(e, t) : m - t <= MaxDrift
  <2>1. PICK n \in First(e, t) : n - t <= MaxDrift
    BY <1>3 DEF Steady
  <2>2. \A m \in First(e, t) : m <= n
    BY <1>1, <2>1 DEF First
  <2> QED
    BY <1>1, <2>1, <2>2
<1>4. Steady(e) => First(e, t) # {}
  BY DEF Steady
<1> QED
  BY <1>1, <1>2, <1>3, <1>4 DEF Upcoming

\* Ids of tasks are given out in order.
LEMMA IdFacts ==
    ASSUME TypeOK
    PROVE  /\ live \subseteq Ids /\ Ids \subseteq Nat
           /\ \A i \in live : i < nextId /\ i # nextId /\ i <= MaxTasks
           /\ nextId \in Nat /\ (nextId <= MaxTasks => nextId \in Ids)
  BY DEF TypeOK, Ids

\* A step that leaves the index, the names and the tasks alone keeps the index.
LEMMA IndexKept ==
    ASSUME NameIndexSound, NameIndexComplete, UNCHANGED <<live, name, byName, shared>>
    PROVE  NameIndexSound' /\ NameIndexComplete'
  BY DEF NameIndexSound, NameIndexComplete

\* So does forgetting a task.
LEMMA IndexForget ==
    ASSUME TypeOK, NameIndexSound, NameIndexComplete, NEW i \in live, Forget(i),
           UNCHANGED <<name, shared>>
    PROVE  NameIndexSound' /\ NameIndexComplete' /\ byName' \in [Names -> 0..MaxTasks]
<1>1. /\ live' = live \ {i} /\ byName' = [byName EXCEPT ![name[i]] = 0]
      /\ name' = name /\ shared' = shared
  BY DEF Forget
<1>2. i \in Ids /\ name[i] \in Names /\ byName \in [Names -> 0..MaxTasks]
  BY DEF TypeOK, Ids
<1>3. NameIndexSound'
  <2>1. ASSUME NEW n \in Names, byName'[n] # 0
        PROVE  byName'[n] \in live' /\ name'[byName'[n]] = n
    <3>1. n # name[i] /\ byName'[n] = byName[n]
      BY <1>1, <1>2, <2>1
    <3>2. byName[n] \in live /\ name[byName[n]] = n
      BY <2>1, <3>1 DEF NameIndexSound
    <3> QED
      BY <1>1, <3>1, <3>2
  <2> QED
    BY <2>1 DEF NameIndexSound
<1>4. NameIndexComplete'
  <2>1. ASSUME ~shared, NEW j \in live, j # i PROVE byName'[name[j]] = j
    <3>1. byName[name[j]] = j /\ byName[name[i]] = i
      BY <2>1 DEF NameIndexComplete
    <3>2. name[j] \in Names
      BY <2>1 DEF TypeOK, Ids
    <3> QED
      BY <1>1, <1>2, <2>1, <3>1, <3>2
  <2> QED
    BY <1>1, <2>1 DEF NameIndexComplete
<1>5. byName' \in [Names -> 0..MaxTasks]
  BY <1>1, <1>2
<1> QED
  BY <1>3, <1>4, <1>5

\* What is said of calm tasks survives a step that adds and runs none, if it
\* changes no status and moves no loop, or is taken when none is being run.
LEMMA CalmKept ==
    ASSUME IInv, calm' = calm, live' \subseteq live,
           UNCHANGED <<kind, expr, nextRunAt, runs, lastRun>>, now' \in Nat, now <= now',
           calm => \/ status' = status /\ (cursor' = cursor \/ cursor' = 0)
                   \/ \A i \in Ids : runs[i] = 0
    PROVE  CalmTasks'
<1>1. ASSUME calm, NEW i \in live', kind'[i] = "cron" PROVE CalmTask(i)'
  <2>1. i \in live /\ i \in Ids /\ kind[i] = "cron"
    BY <1>1, IdFacts DEF IInv
  <2>2. CalmTask(i)
    BY <1>1, <2>1 DEF IInv, CalmTasks
  <2>3. runs[i] \in Nat /\ lastRun[i] \in Nat /\ now \in Nat
    BY <2>1 DEF IInv, TypeOK
  <2>4. Steady(expr[i])' <=> Steady(expr[i])
    BY DEF Steady, First
  <2> QED
    BY <1>1, <2>1, <2>2, <2>3, <2>4 DEF CalmTask
<1> QED
  BY <1>1 DEF CalmTasks

------------------------------------------------------------------------------
(* The steps *)

\* What adding a task does to everything but its own fields.
LEMMA RegisterInv ==
    ASSUME IInv, NEW k \in Kinds, NEW n \in Names, Register(k, n)
    PROVE  /\ nextId \in Ids /\ nextId \notin live /\ timer[nextId] = 0
           /\ runs[nextId] = 0 /\ removing # nextId
           /\ now' \in 1..MaxTime /\ nextId' \in 1..(MaxTasks + 1)
           /\ live' \subseteq 1..(nextId' - 1)
           /\ kind' \in [Ids -> Kinds] /\ name' \in [Ids -> Names]
           /\ status' \in [Ids -> {"stopped", "running", "paused"}]
           /\ byName' \in [Names -> 0..MaxTasks]
           /\ shared' \in BOOLEAN
           /\ NameIndexSound' /\ NameIndexComplete' /\ NotYetRun'
<1>1. /\ nextId <= MaxTasks /\ nextId' = nextId + 1 /\ live' = live \union {nextId}
      /\ kind' = [kind EXCEPT ![nextId] = k] /\ name' = [name EXCEPT ![nextId] = n]
      /\ status' = [status EXCEPT ![nextId] = "running"]
      /\ byName' = [byName EXCEPT ![n] = nextId]
      /\ shared' = (shared \/ \E i \in live : name[i] = n)
      /\ now' = now /\ runs' = runs
  BY DEF Register
<1>2. nextId \in Ids /\ nextId \notin live
  BY <1>1 DEF IInv, TypeOK, Ids
<1>3. timer[nextId] = 0 /\ runs[nextId] = 0 /\ removing # nextId
  BY <1>2 DEF IInv, TypeOK, TimersOwned, RemovingSpent, NotYetRun, Ids
<1>4. /\ now' \in 1..MaxTime /\ nextId' \in 1..(MaxTasks + 1)
      /\ live' \subseteq 1..(nextId' - 1)
  BY <1>1, <1>2 DEF IInv, TypeOK, Ids
<1>5. /\ kind' \in [Ids -> Kinds] /\ name' \in [Ids -> Names]
      /\ status' \in [Ids -> {"stopped", "running", "paused"}]
      /\ byName' \in [Names -> 0..MaxTasks]
  BY <1>1, <1>2 DEF IInv, TypeOK, Ids
<1>6. shared' \in BOOLEAN
  BY <1>1 DEF IInv, TypeOK
<1>7. NameIndexSound'
  <2>1. ASSUME NEW m \in Names, byName'[m] # 0
        PROVE  byName'[m] \in live' /\ name'[byName'[m]] = m
    <3>1. CASE m = n
      BY <1>1, <1>2, <3>1 DEF IInv, TypeOK
    <3>2. CASE m # n
      <4>1. byName'[m] = byName[m]
        BY <1>1, <2>1, <3>2 DEF IInv, TypeOK
      <4>2. byName[m] \in live /\ name[byName[m]] = m
        BY <2>1, <4>1 DEF IInv, NameIndexSound
      <4>3. name \in [Ids -> Names] /\ byName[m] \in Ids /\ byName[m] # nextId
        BY <1>2, <4>2, IdFacts DEF IInv, TypeOK
      <4>4. name'[byName[m]] = name[byName[m]]
        BY <1>1, <4>3
      <4> QED
        BY <1>1, <4>1, <4>2, <4>4
    <3> QED
      BY <3>1, <3>2
  <2> QED
    BY <2>1 DEF NameIndexSound
<1>8. NameIndexComplete'
  <2>1. ASSUME ~shared', NEW i \in live' PROVE byName'[name'[i]] = i
    <3>1. CASE i = nextId
      BY <1>1, <1>2, <3>1 DEF IInv, TypeOK
    <3>2. CASE i # nextId
      <4>1. i \in live /\ i \in Ids /\ ~shared /\ name[i] # n
        <5>1. i \in live /\ i \in Ids
          BY <1>1, <3>2, IdFacts DEF IInv
        <5>2. ~(shared \/ \E j \in live : name[j] = n)
          BY <1>1, <2>1
        <5> QED
          BY <5>1, <5>2
      <4>2. byName[name[i]] = i /\ name'[i] = name[i]
        <5>1. name \in [Ids -> Names] /\ nextId \in Ids
          BY <1>2 DEF IInv, TypeOK
        <5>2. name'[i] = name[i]
          BY <1>1, <3>2, <4>1, <5>1
        <5> QED
          BY <4>1, <5>2 DEF IInv, NameIndexComplete
      <4>3. byName \in [Names -> 0..MaxTasks] /\ name[i] \in Names
        BY <4>1 DEF IInv, TypeOK
      <4> QED
        BY <1>1, <4>1, <4>2, <4>3
    <3> QED
      BY <3>1, <3>2
  <2> QED
    BY <2>1 DEF NameIndexComplete
<1>9. NotYetRun'
  BY <1>1 DEF IInv, TypeOK, NotYetRun, Ids
<1> QED
  BY <1>2, <1>3, <1>4, <1>5, <1>6, <1>7, <1>8, <1>9

\* addCron() (memory.ts:71-102).
LEMMA AddCronInv ==
    ASSUME IInv, NEW n \in Names, NEW e \in Exprs, AddCron(n, e) PROVE IInv'
<1>0. PICK lead \in {0, 1} : \E m \in Upcoming(e, now - lead) :
          nextRunAt' = [nextRunAt EXCEPT ![nextId] = m]
  BY DEF AddCron
<1>1. PICK m \in Upcoming(e, now - lead) :
          nextRunAt' = [nextRunAt EXCEPT ![nextId] = m]
  BY <1>0
<1>2. Register("cron", n)
  BY DEF AddCron
<1>3. "cron" \in Kinds
  BY DEF Kinds
<1>a. /\ nextId \in Ids /\ nextId \notin live /\ timer[nextId] = 0
      /\ runs[nextId] = 0 /\ removing # nextId
      /\ now' \in 1..MaxTime /\ nextId' \in 1..(MaxTasks + 1)
      /\ live' \subseteq 1..(nextId' - 1)
      /\ kind' \in [Ids -> Kinds] /\ name' \in [Ids -> Names]
      /\ status' \in [Ids -> {"stopped", "running", "paused"}]
      /\ byName' \in [Names -> 0..MaxTasks]
      /\ shared' \in BOOLEAN
  BY <1>2, <1>3, RegisterInv
<1>b. NameIndexSound' /\ NameIndexComplete' /\ NotYetRun'
  BY <1>2, <1>3, RegisterInv
<1>c. /\ nextId' = nextId + 1 /\ live' = live \union {nextId}
      /\ kind' = [kind EXCEPT ![nextId] = "cron"]
      /\ status' = [status EXCEPT ![nextId] = "running"]
      /\ UNCHANGED <<now, cursor, removing, ticking, started, runs, calm>>
  BY <1>2 DEF Register
<1>d. /\ expr' = [expr EXCEPT ![nextId] = e]
      /\ lastRun' = [lastRun EXCEPT ![nextId] = now - 1]
      /\ UNCHANGED <<delay, timer>>
  BY DEF AddCron
<1>4. now - lead \in 0..MaxTime /\ now - 1 \in Nat /\ now - 1 <= now - lead
  BY DEF IInv, TypeOK
<1>5. m \in Nat /\ (Steady(e) => m \in Matches[e] /\ now - 1 < m)
  BY <1>4, UpcomingFacts DEF IInv, TypeOK
<1>6. TypeOK'
  <2>1. nextRunAt' \in [Ids -> Nat] /\ lastRun' \in [Ids -> Nat] /\ expr' \in [Ids -> Exprs]
    BY <1>1, <1>d, <1>4, <1>5 DEF IInv, TypeOK
  <2> QED
    BY <1>a, <1>c, <1>d, <2>1 DEF IInv, TypeOK
<1>e. /\ kind \in [Ids -> Kinds] /\ live \subseteq Ids
      /\ status \in [Ids -> {"stopped", "running", "paused"}]
      /\ removing # 0 => removing \in Ids
  <2>1. removing # 0 => removing \in Ids
    BY DEF IInv, TypeOK, Ids
  <2> QED
    BY <2>1, IdFacts DEF IInv, TypeOK
<1>7. TimersOwned'
  <2>1. \A i \in Ids : i # nextId => kind'[i] = kind[i] /\ status'[i] = status[i]
    BY <1>c, <1>e
  <2>2. kind'[nextId] = "cron"
    BY <1>a, <1>c, <1>e
  <2>3. TimersOwned
    BY DEF IInv
  <2>4. ASSUME NEW i \in Ids, timer'[i] # 0
        PROVE  i \in live' /\ status'[i] = "running" /\ kind'[i] \in {"interval", "timeout"}
    BY <1>a, <1>c, <1>d, <2>1, <2>3, <2>4 DEF TimersOwned
  <2>5. ASSUME NEW i \in live', kind'[i] = "interval", status'[i] = "running"
        PROVE  timer'[i] # 0
    BY <1>a, <1>c, <1>d, <1>e, <2>1, <2>2, <2>3, <2>5 DEF TimersOwned
  <2> QED
    BY <2>4, <2>5 DEF TimersOwned
<1>8. RemovingSpent'
  BY <1>a, <1>c, <1>d, <1>e, IdFacts DEF IInv, RemovingSpent
<1>9. CalmTasks'
  <2>1. ASSUME calm, NEW i \in live', kind'[i] = "cron" PROVE CalmTask(i)'
    <3>1. CASE i = nextId
      <4>1. runs'[i] = 0 /\ expr'[i] = e /\ nextRunAt'[i] = m /\ lastRun'[i] = now - 1
        BY <1>a, <1>c, <1>d, <1>1, <3>1 DEF IInv, TypeOK
      <4>2. Steady(e)' <=> Steady(e)
        BY DEF Steady, First
      <4> QED
        BY <1>5, <4>1, <4>2 DEF CalmTask
    <3>2. CASE i # nextId
      <4>1. /\ i \in live /\ i \in Ids /\ kind[i] = "cron"
            /\ expr'[i] = expr[i] /\ nextRunAt'[i] = nextRunAt[i]
            /\ lastRun'[i] = lastRun[i] /\ status'[i] = status[i]
        BY <1>c, <1>d, <1>1, <2>1, <3>2 DEF IInv, TypeOK, Ids
      <4>2. CalmTask(i)
        BY <2>1, <4>1 DEF IInv, CalmTasks
      <4> QED
        BY <1>c, <4>1, <4>2 DEF CalmTask, Steady, First
    <3> QED
      BY <3>1, <3>2
  <2> QED
    BY <1>c, <2>1 DEF CalmTasks
<1> QED
  BY <1>6, <1>7, <1>8, <1>9, <1>b DEF IInv

\* addInterval() and addTimeout() (memory.ts:104-152).
LEMMA AddTimerInv ==
    ASSUME IInv, NEW n \in Names, NEW d \in Delays, AddTimer(n, d) PROVE IInv'
<1>1. PICK k \in {"interval", "timeout"} : Register(k, n)
  BY DEF AddTimer
<1>2. k \in Kinds
  BY DEF Kinds
<1>a. /\ nextId \in Ids /\ nextId \notin live /\ timer[nextId] = 0
      /\ runs[nextId] = 0 /\ removing # nextId
      /\ now' \in 1..MaxTime /\ nextId' \in 1..(MaxTasks + 1)
      /\ live' \subseteq 1..(nextId' - 1)
      /\ kind' \in [Ids -> Kinds] /\ name' \in [Ids -> Names]
      /\ status' \in [Ids -> {"stopped", "running", "paused"}]
      /\ byName' \in [Names -> 0..MaxTasks]
      /\ shared' \in BOOLEAN
  BY <1>1, <1>2, RegisterInv
<1>b. NameIndexSound' /\ NameIndexComplete' /\ NotYetRun'
  BY <1>1, <1>2, RegisterInv
<1>c. /\ nextId' = nextId + 1 /\ live' = live \union {nextId}
      /\ kind' = [kind EXCEPT ![nextId] = k]
      /\ status' = [status EXCEPT ![nextId] = "running"]
      /\ UNCHANGED <<now, cursor, removing, ticking, started, runs, calm>>
  BY <1>1 DEF Register
<1>d. /\ delay' = [delay EXCEPT ![nextId] = d]
      /\ timer' = [timer EXCEPT ![nextId] = now + d]
      /\ UNCHANGED <<expr, nextRunAt, lastRun>>
  BY DEF AddTimer
<1>e. /\ kind \in [Ids -> Kinds] /\ live \subseteq Ids /\ timer \in [Ids -> Nat]
      /\ status \in [Ids -> {"stopped", "running", "paused"}]
      /\ removing # 0 => removing \in Ids
  <2>1. removing # 0 => removing \in Ids
    BY DEF IInv, TypeOK, Ids
  <2> QED
    BY <2>1, IdFacts DEF IInv, TypeOK
<1>f. /\ \A i \in Ids : i # nextId =>
             kind'[i] = kind[i] /\ status'[i] = status[i] /\ timer'[i] = timer[i]
      /\ kind'[nextId] = k /\ status'[nextId] = "running" /\ timer'[nextId] = now + d
  BY <1>a, <1>c, <1>d, <1>e
<1>3. now + d \in Nat \ {0} /\ d \in Nat
  BY DEF IInv, TypeOK
<1>4. TypeOK'
  <2>1. delay' \in [Ids -> Nat] /\ timer' \in [Ids -> Nat]
    BY <1>a, <1>d, <1>3 DEF IInv, TypeOK
  <2> QED
    BY <1>a, <1>c, <1>d, <2>1 DEF IInv, TypeOK
<1>5. TimersOwned'
  <2>1. TimersOwned
    BY DEF IInv
  <2>2. ASSUME NEW i \in Ids, timer'[i] # 0
        PROVE  i \in live' /\ status'[i] = "running" /\ kind'[i] \in {"interval", "timeout"}
    BY <1>c, <1>f, <2>1, <2>2 DEF TimersOwned
  <2>3. ASSUME NEW i \in live', kind'[i] = "interval", status'[i] = "running"
        PROVE  timer'[i] # 0
    BY <1>c, <1>e, <1>f, <1>3, <2>1, <2>3 DEF TimersOwned
  <2> QED
    BY <2>2, <2>3 DEF TimersOwned
<1>6. RemovingSpent'
  BY <1>a, <1>c, <1>e, <1>f, IdFacts DEF IInv, RemovingSpent
<1>7. CalmTasks'
  <2>1. ASSUME calm, NEW i \in live', kind'[i] = "cron" PROVE CalmTask(i)'
    <3>1. i # nextId /\ i \in live /\ i \in Ids /\ kind[i] = "cron"
      BY <1>c, <1>e, <1>f, <2>1
    <3>2. CalmTask(i)
      BY <2>1, <3>1 DEF IInv, CalmTasks
    <3> QED
      BY <1>c, <1>d, <1>f, <3>1, <3>2 DEF CalmTask, Steady, First
  <2> QED
    BY <1>c, <2>1 DEF CalmTasks
<1> QED
  BY <1>4, <1>5, <1>6, <1>7, <1>b DEF IInv

\* delete() (memory.ts:154-164).
LEMMA DeleteInv ==
    ASSUME IInv, NEW i \in Ids, Delete(i) PROVE IInv'
<1>1. /\ i \in live /\ Forget(i) /\ live' = live \ {i}
      /\ timer' = [timer EXCEPT ![i] = 0]
      /\ UNCHANGED <<now, status, nextRunAt, cursor, removing, ticking, started,
                     runs, lastRun, tvars, hvars>>
  BY DEF Delete, Forget
<1>2. NameIndexSound' /\ NameIndexComplete' /\ byName' \in [Names -> 0..MaxTasks]
  BY <1>1, IndexForget DEF IInv, tvars, hvars
<1>3. TypeOK'
  <2>1. timer' \in [Ids -> Nat]
    BY <1>1 DEF IInv, TypeOK
  <2>2. live' \subseteq 1..(nextId' - 1)
    BY <1>1 DEF IInv, TypeOK, tvars
  <2> QED
    BY <1>1, <1>2, <2>1, <2>2 DEF IInv, TypeOK, tvars, hvars
<1>4. timer \in [Ids -> Nat] /\ live \subseteq Ids
  BY IdFacts DEF IInv, TypeOK
<1>5. TimersOwned' /\ RemovingSpent'
  BY <1>1, <1>4 DEF IInv, TimersOwned, RemovingSpent, tvars
<1>6. CalmTasks'
  BY <1>1, CalmKept DEF IInv, TypeOK, tvars, hvars
<1>7. NotYetRun'
  BY <1>1 DEF IInv, NotYetRun, tvars
<1> QED
  BY <1>2, <1>3, <1>5, <1>6, <1>7 DEF IInv

\* pause() (memory.ts:177-186).
LEMMA PauseInv ==
    ASSUME IInv, NEW i \in Ids, Pause(i) PROVE IInv'
<1>1. /\ status' = [status EXCEPT ![i] = "paused"]
      /\ timer' = [timer EXCEPT ![i] = 0]
      /\ UNCHANGED <<now, live, nextRunAt, byName, cursor, removing, ticking, started,
                     runs, lastRun, tvars, hvars>>
  BY DEF Pause
<1>2. TypeOK'
  <2>1. timer' \in [Ids -> Nat] /\ status' \in [Ids -> {"stopped", "running", "paused"}]
    BY <1>1 DEF IInv, TypeOK
  <2> QED
    BY <1>1, <2>1 DEF IInv, TypeOK, tvars, hvars
<1>3. NameIndexSound' /\ NameIndexComplete'
  BY <1>1, IndexKept DEF IInv, tvars, hvars
<1>4. /\ timer \in [Ids -> Nat] /\ live \subseteq Ids
      /\ status \in [Ids -> {"stopped", "running", "paused"}]
  BY IdFacts DEF IInv, TypeOK
<1>5. TimersOwned' /\ RemovingSpent'
  BY <1>1, <1>4 DEF IInv, TimersOwned, RemovingSpent, tvars
<1>6. CalmTasks'
  <2>1. calm => \A j \in Ids : runs[j] = 0
    BY DEF Pause, MayCall
  <2> QED
    BY <1>1, <2>1, CalmKept DEF IInv, TypeOK, tvars, hvars
<1>7. NotYetRun'
  BY <1>1 DEF IInv, NotYetRun, tvars
<1> QED
  BY <1>2, <1>3, <1>5, <1>6, <1>7 DEF IInv

\* resume() (memory.ts:188-202).
LEMMA ResumeInv ==
    ASSUME IInv, NEW i \in Ids, Resume(i) PROVE IInv'
<1>1. /\ i \in live
      /\ status' = [status EXCEPT ![i] = "running"]
      /\ timer' = IF kind[i] = "interval" /\ timer[i] = 0
                  THEN [timer EXCEPT ![i] = now + delay[i]] ELSE timer
      /\ UNCHANGED <<now, live, nextRunAt, byName, cursor, removing, ticking, started,
                     runs, lastRun, tvars, hvars>>
  BY DEF Resume
<1>2. /\ timer \in [Ids -> Nat] /\ live \subseteq Ids
      /\ status \in [Ids -> {"stopped", "running", "paused"}]
      /\ now + delay[i] \in Nat \ {0}
  BY IdFacts DEF IInv, TypeOK
<1>3. TypeOK'
  <2>1. timer' \in [Ids -> Nat] /\ status' \in [Ids -> {"stopped", "running", "paused"}]
    BY <1>1, <1>2
  <2> QED
    BY <1>1, <2>1 DEF IInv, TypeOK, tvars, hvars
<1>4. NameIndexSound' /\ NameIndexComplete'
  BY <1>1, IndexKept DEF IInv, tvars, hvars
<1>5. /\ \A j \in Ids : j # i => timer'[j] = timer[j] /\ status'[j] = status[j]
      /\ status'[i] = "running"
      /\ kind[i] = "interval" => timer'[i] # 0
      /\ kind[i] # "interval" => timer'[i] = timer[i]
  BY <1>1, <1>2
<1>6. TimersOwned'
  BY <1>1, <1>2, <1>5 DEF IInv, TimersOwned, tvars
<1>7. RemovingSpent'
  <2>1. removing # 0 => removing \in Ids
    BY DEF IInv, TypeOK, Ids
  <2> QED
    BY <1>1, <1>5, <2>1 DEF IInv, RemovingSpent, tvars
<1>8. CalmTasks'
  <2>1. calm => \A j \in Ids : runs[j] = 0
    BY DEF Resume, MayCall
  <2> QED
    BY <1>1, <2>1, CalmKept DEF IInv, TypeOK, tvars, hvars
<1>9. NotYetRun'
  BY <1>1 DEF IInv, NotYetRun, tvars
<1> QED
  BY <1>3, <1>4, <1>6, <1>7, <1>8, <1>9 DEF IInv

\* The end of #runTask() (memory.ts:296-326).
LEMMA SettleInv ==
    ASSUME IInv, NEW i \in Ids, Settle(i) PROVE IInv'
<1>1. /\ Settling /\ runs[i] > 0
      /\ runs' = [runs EXCEPT ![i] = @ - 1]
      /\ UNCHANGED <<now, live, status, timer, byName, cursor, removing, ticking,
                     started, lastRun, tvars, hvars>>
  BY DEF Settle
<1>2. /\ runs \in [Ids -> Nat] /\ nextRunAt \in [Ids -> Nat] /\ live \subseteq Ids
      /\ expr \in [Ids -> Exprs] /\ now \in Nat /\ now \in 0..MaxTime
      /\ lastRun \in [Ids -> Nat]
  BY IdFacts DEF IInv, TypeOK
<1>3. /\ \A m \in Upcoming(expr[i], now) : m \in Nat
      /\ Steady(expr[i]) => \A m \in Upcoming(expr[i], now) :
             m \in Matches[expr[i]] /\ now < m /\ m - now <= MaxDrift
  BY <1>2, UpcomingFacts DEF IInv
<1>4. /\ nextRunAt' \in [Ids -> Nat]
      /\ \A j \in Ids : j # i => nextRunAt'[j] = nextRunAt[j]
      /\ kind[i] = "cron" /\ status[i] = "running" /\ Steady(expr[i]) =>
             nextRunAt'[i] \in Matches[expr[i]] /\ now < nextRunAt'[i]
  <2>1. CASE kind[i] = "cron" /\ status[i] = "running"
    <3>1. PICK m \in Upcoming(expr[i], now) :
              nextRunAt' = [nextRunAt EXCEPT ![i] =
                                IF m - now > MaxDrift THEN now + Fallback ELSE m]
      BY <2>1 DEF Settle
    <3>2. (IF m - now > MaxDrift THEN now + Fallback ELSE m) \in Nat
      BY <1>2, <1>3
    <3>3. nextRunAt'[i] = IF m - now > MaxDrift THEN now + Fallback ELSE m
      BY <1>2, <3>1
    <3>4. Steady(expr[i]) => nextRunAt'[i] = m
      BY <1>2, <1>3, <3>3
    <3> QED
      BY <1>2, <1>3, <3>1, <3>2, <3>4
  <2>2. CASE ~(kind[i] = "cron" /\ status[i] = "running")
    BY <1>2, <2>2 DEF Settle
  <2> QED
    BY <2>1, <2>2
<1>5. TypeOK'
  <2>1. runs' \in [Ids -> Nat]
    BY <1>1, <1>2
  <2> QED
    BY <1>1, <1>4, <2>1 DEF IInv, TypeOK, tvars, hvars
<1>6. NameIndexSound' /\ NameIndexComplete'
  BY <1>1, IndexKept DEF IInv, tvars, hvars
<1>7. TimersOwned' /\ RemovingSpent'
  BY <1>1 DEF IInv, TimersOwned, RemovingSpent, tvars
<1>8. CalmTasks'
  <2>1. ASSUME calm, NEW j \in live, kind[j] = "cron" PROVE CalmTask(j)'
    <3>1. j \in Ids /\ CalmTask(j) /\ runs[j] \in Nat
      BY <1>2, <2>1 DEF IInv, CalmTasks
    <3>2. CASE j # i
      <4>1. runs'[j] = runs[j] /\ nextRunAt'[j] = nextRunAt[j]
        BY <1>1, <1>2, <1>4, <3>1, <3>2
      <4> QED
        BY <1>1, <3>1, <4>1 DEF CalmTask, Steady, First, tvars
    <3>3. CASE j = i
      <4>1. runs[i] = 1 /\ runs'[i] = 0 /\ status[i] = "running" /\ lastRun[i] <= now
        BY <1>1, <1>2, <3>1, <3>3 DEF CalmTask
      <4>2. Steady(expr[i]) =>
                nextRunAt'[i] \in Matches[expr[i]] /\ lastRun[i] < nextRunAt'[i]
        BY <1>2, <1>4, <2>1, <3>3, <4>1
      <4> QED
        BY <1>1, <3>3, <4>1, <4>2 DEF CalmTask, Steady, First, tvars
    <3> QED
      BY <3>2, <3>3
  <2> QED
    BY <1>1, <2>1 DEF CalmTasks, tvars, hvars
<1>9. NotYetRun'
  <2>1. i < nextId
    BY <1>1, <1>2 DEF IInv, TypeOK, NotYetRun, Ids
  <2> QED
    BY <1>1, <1>2, <2>1 DEF IInv, NotYetRun, TypeOK, Ids, tvars
<1> QED
  BY <1>5, <1>6, <1>7, <1>8, <1>9 DEF IInv

\* #tick(), before its loop (memory.ts:274-276).
LEMMA TickBeginInv == ASSUME IInv, TickBegin PROVE IInv'
<1>1. /\ cursor' = 1
      /\ UNCHANGED <<now, live, status, nextRunAt, timer, byName, removing, ticking,
                     started, runs, lastRun, tvars, hvars>>
  BY DEF TickBegin
<1>2. TypeOK'
  BY <1>1 DEF IInv, TypeOK, tvars, hvars
<1>3. NameIndexSound' /\ NameIndexComplete'
  BY <1>1, IndexKept DEF IInv, tvars, hvars
<1>4. TimersOwned' /\ RemovingSpent' /\ NotYetRun'
  BY <1>1 DEF IInv, TimersOwned, RemovingSpent, NotYetRun, tvars
<1>5. CalmTasks'
  <2>1. calm => \A j \in Ids : runs[j] = 0
    BY DEF TickBegin, TimersMayFire, MayCall
  <2> QED
    BY <1>1, <2>1, CalmKept DEF IInv, TypeOK, tvars, hvars
<1> QED
  BY <1>2, <1>3, <1>4, <1>5 DEF IInv

\* What every call of #runTask() keeps, but for CalmTasks.
LEMMA InvokeInv ==
    ASSUME IInv, NEW i \in live, Invoke(i), UNCHANGED nextId
    PROVE  /\ runs' \in [Ids -> Nat] /\ lastRun' \in [Ids -> Nat]
           /\ runs'[i] = runs[i] + 1
           /\ kind[i] = "cron" => lastRun'[i] = now
           /\ \A j \in Ids : j # i => runs'[j] = runs[j] /\ lastRun'[j] = lastRun[j]
           /\ NotYetRun'
<1>1. /\ runs' = [runs EXCEPT ![i] = @ + 1]
      /\ lastRun' = [lastRun EXCEPT ![i] = IF kind[i] = "cron" THEN now ELSE 0]
  BY DEF Invoke
<1>2. /\ runs \in [Ids -> Nat] /\ lastRun \in [Ids -> Nat] /\ i \in Ids /\ now \in Nat
      /\ i < nextId /\ nextId \in Nat /\ Ids \subseteq Nat
  BY IdFacts DEF IInv, TypeOK
<1>3. NotYetRun'
  BY <1>1, <1>2 DEF IInv, NotYetRun
<1> QED
  BY <1>1, <1>2, <1>3

\* The loop of #tick() (memory.ts:276-282).
LEMMA TickLoopInv == ASSUME IInv, TickLoop PROVE IInv'
<1>1. UNCHANGED <<now, live, status, nextRunAt, timer, byName, removing, ticking,
                  started, tvars, hvars>>
  BY DEF TickLoop
<1>2. NameIndexSound' /\ NameIndexComplete'
  BY <1>1, IndexKept DEF IInv, tvars, hvars
<1>3. TimersOwned' /\ RemovingSpent'
  BY <1>1 DEF IInv, TimersOwned, RemovingSpent, tvars
<1>4. CASE \E i \in Ids : Visit(i)
  <2>1. PICK i \in Ids : Visit(i)
    BY <1>4
  <2>2. /\ i \in live /\ status[i] = "running" /\ kind[i] = "cron" /\ cursor <= i
        /\ cursor' = i + 1 /\ Invoke(i) /\ cursor # 0
    BY <2>1 DEF Visit, Ahead, Due, TickLoop
  <2>3. /\ runs' \in [Ids -> Nat] /\ lastRun' \in [Ids -> Nat]
        /\ runs'[i] = runs[i] + 1 /\ lastRun'[i] = now
        /\ \A j \in Ids : j # i => runs'[j] = runs[j] /\ lastRun'[j] = lastRun[j]
        /\ NotYetRun'
    BY <1>1, <2>2, InvokeInv DEF tvars
  <2>4. TypeOK'
    <3>1. cursor' \in 0..(MaxTasks + 1)
      BY <2>2 DEF Ids
    <3> QED
      BY <1>1, <2>3, <3>1 DEF IInv, TypeOK, tvars, hvars
  <2>5. CalmTasks'
    <3>1. ASSUME calm, NEW j \in live, kind[j] = "cron" PROVE CalmTask(j)'
      <4>1. /\ j \in Ids /\ CalmTask(j) /\ runs[j] \in Nat /\ j \in Nat /\ i \in Nat
            /\ now \in Nat /\ cursor \in Nat
        BY <3>1, IdFacts DEF IInv, TypeOK, CalmTasks
      <4>2. CASE j # i
        <5>1. runs'[j] = runs[j] /\ lastRun'[j] = lastRun[j]
          BY <2>3, <4>1, <4>2
        <5>2. j < cursor => j < cursor'
          BY <2>2, <4>1
        <5> QED
          BY <1>1, <2>2, <4>1, <5>1, <5>2 DEF CalmTask, Steady, First, tvars
      <4>3. CASE j = i
        <5>1. runs[i] = 0
          BY <2>2, <4>1, <4>3 DEF CalmTask
        <5> QED
          BY <1>1, <2>2, <2>3, <4>1, <4>3, <5>1 DEF CalmTask
      <4> QED
        BY <4>2, <4>3
    <3> QED
      BY <1>1, <3>1 DEF CalmTasks, tvars, hvars
  <2> QED
    BY <1>2, <1>3, <2>3, <2>4, <2>5 DEF IInv
<1>5. CASE TickEnd
  <2>1. cursor' = 0 /\ UNCHANGED <<runs, lastRun>>
    BY <1>5 DEF TickEnd
  <2>2. TypeOK'
    BY <1>1, <2>1 DEF IInv, TypeOK, tvars, hvars
  <2>3. CalmTasks'
    BY <1>1, <2>1, CalmKept DEF IInv, TypeOK, tvars, hvars
  <2>4. NotYetRun'
    BY <1>1, <2>1 DEF IInv, NotYetRun, tvars
  <2> QED
    BY <1>2, <1>3, <2>2, <2>3, <2>4 DEF IInv
<1> QED
  BY <1>4, <1>5 DEF TickLoop

\* The callback of an interval or a timeout: nothing of a cron task changes.
LEMMA FireCalm ==
    ASSUME IInv, NEW i \in live, kind[i] # "cron", Invoke(i),
           UNCHANGED <<now, live, status, nextRunAt, cursor, tvars, hvars>>
    PROVE  CalmTasks'
<1>1. ASSUME calm, NEW j \in live, kind[j] = "cron" PROVE CalmTask(j)'
  <2>1. j \in Ids /\ j # i /\ CalmTask(j)
    BY <1>1, IdFacts DEF IInv, CalmTasks
  <2>2. runs'[j] = runs[j] /\ lastRun'[j] = lastRun[j]
    BY <2>1, InvokeInv DEF tvars
  <2> QED
    BY <2>1, <2>2 DEF CalmTask, Steady, First, tvars
<1> QED
  BY <1>1 DEF CalmTasks, tvars, hvars

\* memory.ts:116.
LEMMA FireIntervalInv ==
    ASSUME IInv, NEW i \in Ids, FireInterval(i) PROVE IInv'
<1>1. /\ kind[i] = "interval" /\ timer[i] # 0 /\ Invoke(i)
      /\ timer' = [timer EXCEPT ![i] = now + delay[i]]
      /\ UNCHANGED <<now, live, status, nextRunAt, byName, cursor, removing, ticking,
                     started, tvars, hvars>>
  BY DEF FireInterval, Fires
<1>2. i \in live /\ status[i] = "running"
  BY <1>1 DEF IInv, TimersOwned
<1>3. timer \in [Ids -> Nat] /\ live \subseteq Ids /\ now + delay[i] \in Nat \ {0}
  BY IdFacts DEF IInv, TypeOK
<1>4. runs' \in [Ids -> Nat] /\ lastRun' \in [Ids -> Nat] /\ NotYetRun'
  BY <1>1, <1>2, InvokeInv DEF tvars
<1>5. TypeOK'
  <2>1. timer' \in [Ids -> Nat]
    BY <1>1, <1>3
  <2> QED
    BY <1>1, <1>4, <2>1 DEF IInv, TypeOK, tvars, hvars
<1>6. NameIndexSound' /\ NameIndexComplete'
  BY <1>1, IndexKept DEF IInv, tvars, hvars
<1>7. TimersOwned' /\ RemovingSpent'
  <2>1. removing # 0 => removing \in Ids /\ removing # i
    BY <1>1 DEF IInv, TypeOK, RemovingSpent, Ids
  <2> QED
    BY <1>1, <1>2, <1>3, <2>1 DEF IInv, TimersOwned, RemovingSpent, tvars
<1>8. CalmTasks'
  BY <1>1, <1>2, FireCalm
<1> QED
  BY <1>4, <1>5, <1>6, <1>7, <1>8 DEF IInv

\* memory.ts:141, 329.
LEMMA FireTimeoutInv ==
    ASSUME IInv, NEW i \in Ids, FireTimeout(i) PROVE IInv'
<1>1. /\ kind[i] = "timeout" /\ timer[i] # 0 /\ Invoke(i)
      /\ timer' = [timer EXCEPT ![i] = 0]
      /\ removing' = i
      /\ UNCHANGED <<now, live, status, nextRunAt, byName, cursor, ticking, started,
                     tvars, hvars>>
  BY DEF FireTimeout, Fires
<1>2. i \in live
  BY <1>1 DEF IInv, TimersOwned
<1>3. timer \in [Ids -> Nat] /\ live \subseteq Ids /\ i < nextId
  BY <1>2, IdFacts DEF IInv, TypeOK
<1>4. runs' \in [Ids -> Nat] /\ lastRun' \in [Ids -> Nat] /\ NotYetRun'
  BY <1>1, <1>2, InvokeInv DEF tvars
<1>5. TypeOK'
  <2>1. timer' \in [Ids -> Nat] /\ removing' \in 0..MaxTasks
    BY <1>1, <1>3 DEF Ids
  <2> QED
    BY <1>1, <1>4, <2>1 DEF IInv, TypeOK, tvars, hvars
<1>6. NameIndexSound' /\ NameIndexComplete'
  BY <1>1, IndexKept DEF IInv, tvars, hvars
<1>7. TimersOwned' /\ RemovingSpent'
  BY <1>1, <1>2, <1>3 DEF IInv, TimersOwned, RemovingSpent, tvars
<1>8. CalmTasks'
  BY <1>1, <1>2, FireCalm
<1> QED
  BY <1>4, <1>5, <1>6, <1>7, <1>8 DEF IInv

\* The end of #runOnceAndRemove() (memory.ts:330-336).
LEMMA RemoveInv == ASSUME IInv, Remove PROVE IInv'
<1>1. /\ removing # 0 /\ removing' = 0
      /\ UNCHANGED <<now, status, nextRunAt, timer, cursor, ticking, started, runs,
                     lastRun, tvars, hvars>>
  BY DEF Remove
<1>2. /\ NameIndexSound' /\ NameIndexComplete' /\ byName' \in [Names -> 0..MaxTasks]
      /\ live' = live \ {removing}
  <2>1. CASE removing \in live
    <3>1. Forget(removing)
      BY <2>1 DEF Remove
    <3>2. live' = live \ {removing}
      BY <3>1 DEF Forget
    <3> QED
      BY <1>1, <2>1, <3>1, <3>2, IndexForget DEF IInv, tvars, hvars
  <2>2. CASE removing \notin live
    <3>1. UNCHANGED <<live, byName>>
      BY <2>2 DEF Remove
    <3> QED
      BY <1>1, <2>2, <3>1, IndexKept DEF IInv, TypeOK, tvars, hvars
  <2> QED
    BY <2>1, <2>2
<1>3. TypeOK'
  <2>1. live' \subseteq 1..(nextId' - 1)
    BY <1>1, <1>2 DEF IInv, TypeOK, tvars
  <2> QED
    BY <1>1, <1>2, <2>1 DEF IInv, TypeOK, tvars, hvars
<1>4. TimersOwned' /\ RemovingSpent'
  BY <1>1, <1>2 DEF IInv, TimersOwned, RemovingSpent, tvars
<1>5. CalmTasks'
  BY <1>1, <1>2, CalmKept DEF IInv, TypeOK, tvars, hvars
<1>6. NotYetRun'
  BY <1>1 DEF IInv, NotYetRun, tvars
<1> QED
  BY <1>2, <1>3, <1>4, <1>5, <1>6 DEF IInv

\* start() and the clock (schedule.service.ts:133-138).
LEMMA StartAdvanceInv == ASSUME IInv, Start \/ Advance PROVE IInv'
<1>1. /\ UNCHANGED <<live, status, nextRunAt, timer, byName, cursor, removing,
                     runs, lastRun, tvars, hvars>>
      /\ now' \in 1..MaxTime /\ now <= now'
      /\ started' \in BOOLEAN /\ ticking' \in BOOLEAN
  <2>1. CASE Start
    BY <2>1 DEF Start, IInv, TypeOK
  <2>2. CASE Advance
    BY <2>2 DEF Advance, IInv, TypeOK
  <2> QED
    BY <2>1, <2>2
<1>2. TypeOK'
  BY <1>1 DEF IInv, TypeOK, tvars, hvars
<1>3. NameIndexSound' /\ NameIndexComplete'
  BY <1>1, IndexKept DEF IInv, tvars, hvars
<1>4. TimersOwned' /\ RemovingSpent' /\ NotYetRun'
  BY <1>1 DEF IInv, TimersOwned, RemovingSpent, NotYetRun, tvars
<1>5. CalmTasks'
  BY <1>1, CalmKept DEF IInv, TypeOK, tvars, hvars
<1> QED
  BY <1>2, <1>3, <1>4, <1>5 DEF IInv

\* stop() (schedule.service.ts:140-144, memory.ts:204-212).
LEMMA StopInv == ASSUME IInv, Stop PROVE IInv'
<1>1. /\ started' = FALSE /\ ticking' = FALSE /\ live' = {}
      /\ timer' = [i \in Ids |-> IF i \in live THEN 0 ELSE timer[i]]
      /\ byName' = [n \in Names |-> 0]
      /\ UNCHANGED <<now, status, nextRunAt, cursor, removing, runs, lastRun, tvars, hvars>>
  BY DEF Stop
<1>2. timer \in [Ids -> Nat]
  BY DEF IInv, TypeOK
<1>3. TypeOK'
  <2>1. timer' \in [Ids -> Nat] /\ byName' \in [Names -> 0..MaxTasks]
    BY <1>1, <1>2
  <2> QED
    BY <1>1, <2>1 DEF IInv, TypeOK, tvars, hvars
<1>4. NameIndexSound' /\ NameIndexComplete' /\ CalmTasks'
  BY <1>1 DEF NameIndexSound, NameIndexComplete, CalmTasks
<1>5. \A i \in Ids : timer'[i] = 0
  BY <1>1 DEF IInv, TimersOwned
<1>6. TimersOwned'
  BY <1>1, <1>5 DEF TimersOwned
<1>7. RemovingSpent' /\ NotYetRun'
  <2>1. removing # 0 => removing \in Ids
    BY DEF IInv, TypeOK, Ids
  <2> QED
    BY <1>1, <1>5, <2>1 DEF IInv, RemovingSpent, NotYetRun, tvars
<1> QED
  BY <1>3, <1>4, <1>6, <1>7 DEF IInv

------------------------------------------------------------------------------
(* The theorems *)

\* The invariant holds at first.
LEMMA InitInv == ASSUME Init PROVE IInv
<1>1. (CHOOSE n \in Names : TRUE) \in Names /\ (CHOOSE e \in Exprs : TRUE) \in Exprs
  OBVIOUS
<1>2. /\ name \in [Ids -> Names] /\ expr \in [Ids -> Exprs]
      /\ kind \in [Ids -> Kinds] /\ delay \in [Ids -> Nat]
  BY <1>1 DEF Init, Kinds
<1>3. /\ status \in [Ids -> {"stopped", "running", "paused"}]
      /\ nextRunAt \in [Ids -> Nat] /\ timer \in [Ids -> Nat]
      /\ byName \in [Names -> 0..MaxTasks] /\ runs \in [Ids -> Nat]
      /\ lastRun \in [Ids -> Nat]
  BY DEF Init
<1>4. TypeOK
  <2>1. /\ now \in 1..MaxTime /\ nextId \in 1..(MaxTasks + 1) /\ live \subseteq 1..(nextId - 1)
        /\ cursor \in 0..(MaxTasks + 1) /\ removing \in 0..MaxTasks
    BY DEF Init
  <2>2. /\ ticking \in BOOLEAN /\ started \in BOOLEAN
        /\ calm \in BOOLEAN /\ shared \in BOOLEAN
    BY DEF Init
  <2> QED
    BY <1>2, <1>3, <2>1, <2>2 DEF TypeOK
<1>5. NameIndexSound /\ NameIndexComplete /\ CalmTasks
  BY DEF Init, NameIndexSound, NameIndexComplete, CalmTasks
<1>6. TimersOwned /\ RemovingSpent /\ NotYetRun
  BY DEF Init, TimersOwned, RemovingSpent, NotYetRun
<1> QED
  BY <1>4, <1>5, <1>6 DEF IInv

\* Every step keeps the invariant.
LEMMA StepInv == ASSUME IInv, [Next]_vars PROVE IInv'
<1>1. CASE \E n \in Names : \E e \in Exprs : AddCron(n, e)
  BY <1>1, AddCronInv
<1>2. CASE \E n \in Names : \E d \in Delays : AddTimer(n, d)
  BY <1>2, AddTimerInv
<1>3. CASE \E i \in Ids : Delete(i) \/ Pause(i) \/ Resume(i)
  BY <1>3, DeleteInv, PauseInv, ResumeInv
<1>4. CASE \E i \in Ids : Settle(i) \/ FireInterval(i) \/ FireTimeout(i)
  BY <1>4, SettleInv, FireIntervalInv, FireTimeoutInv
<1>5. CASE TickBegin \/ TickLoop \/ Remove
  BY <1>5, TickBeginInv, TickLoopInv, RemoveInv
<1>6. CASE Start \/ Stop \/ Advance
  BY <1>6, StartAdvanceInv, StopInv
<1>7. CASE UNCHANGED vars
  <2>1. UNCHANGED <<now, live, status, nextRunAt, timer, byName, cursor, removing,
                    ticking, started, runs, lastRun, tvars, hvars>>
    BY <1>7 DEF vars
  <2>2. TypeOK'
    BY <2>1 DEF IInv, TypeOK, tvars, hvars
  <2>3. NameIndexSound' /\ NameIndexComplete'
    BY <2>1, IndexKept DEF IInv, tvars, hvars
  <2>4. TimersOwned' /\ RemovingSpent' /\ NotYetRun'
    BY <2>1 DEF IInv, TimersOwned, RemovingSpent, NotYetRun, tvars
  <2>5. CalmTasks'
    BY <2>1, CalmKept DEF IInv, TypeOK, tvars, hvars
  <2> QED
    BY <2>2, <2>3, <2>4, <2>5 DEF IInv
<1> QED
  BY <1>1, <1>2, <1>3, <1>4, <1>5, <1>6, <1>7 DEF Next

\* The inductive invariant holds of every reachable state.
THEOREM Invariance == Spec => []IInv
<1>1. Init => IInv
  BY InitInv
<1>2. IInv /\ [Next]_vars => IInv'
  BY StepInv
<1> QED
  BY <1>1, <1>2, PTL DEF Spec

\* The scheduler's state keeps its type.
THEOREM TypeCorrect == Spec => []TypeOK
<1>1. IInv => TypeOK
  BY DEF IInv
<1> QED
  BY <1>1, Invariance, PTL

\* A name leads to a task that exists and bears it, whatever handlers do while
\* they are run; and as long as no live task's name is taken again, every task
\* is found by its name (memory.ts:93, 161, 244, 333).
THEOREM NamesAlwaysConsistent == Spec => []NamesConsistent
<1>1. IInv => NamesConsistent
  BY DEF IInv, NamesConsistent
<1> QED
  BY <1>1, Invariance, PTL

\* Timers are armed for running intervals and timeouts that exist, and for every
\* running interval (memory.ts:159, 182, 193, 206).
THEOREM TimersAlwaysOwned == Spec => []TimersOwned
<1>1. IInv => TimersOwned
  BY DEF IInv
<1> QED
  BY <1>1, Invariance, PTL

\* What a step that runs a task's handler is.
LEMMA RunSteps ==
    ASSUME IInv, [Next]_vars, NEW i \in Ids, runs'[i] > runs[i]
    PROVE  /\ i \in live /\ status[i] = "running"
           /\ kind[i] = "cron" => cursor # 0 /\ cursor <= i /\ nextRunAt[i] <= now
<1>1. runs \in [Ids -> Nat]
  BY DEF IInv, TypeOK
<1>2. ASSUME NEW j \in Ids, Invoke(j) PROVE j = i /\ i \in live
  BY <1>1, <1>2 DEF Invoke
<1>3. runs' # runs
  BY <1>1
<1>4. CASE \E j \in Ids : FireInterval(j) \/ FireTimeout(j)
  <2>1. PICK j \in Ids : Fires(j, "interval") \/ Fires(j, "timeout")
    BY <1>4 DEF FireInterval, FireTimeout
  <2>2. Invoke(j) /\ timer[j] # 0 /\ kind[j] # "cron"
    BY <2>1 DEF Fires
  <2> QED
    BY <1>2, <2>2 DEF IInv, TimersOwned
<1>5. CASE TickLoop
  <2>1. PICK j \in Ids : Visit(j)
    BY <1>3, <1>5 DEF TickLoop, TickEnd
  <2>2. j = i
    BY <1>2, <2>1 DEF Visit
  <2> QED
    BY <1>5, <2>1, <2>2 DEF Visit, Ahead, Due, TickLoop
<1>6. ASSUME NEW j \in Ids, Settle(j) PROVE FALSE
  BY <1>1, <1>6 DEF Settle
<1>7. ASSUME UNCHANGED vars PROVE FALSE
  BY <1>3, <1>7 DEF vars
<1>8. ASSUME NEW n \in Names,
             (\E e \in Exprs : AddCron(n, e)) \/ (\E d \in Delays : AddTimer(n, d))
      PROVE  FALSE
  BY <1>3, <1>8 DEF AddCron, AddTimer, Register
<1>9. ASSUME NEW j \in Ids, Delete(j) \/ Pause(j) \/ Resume(j) PROVE FALSE
  BY <1>3, <1>9 DEF Delete, Pause, Resume
<1>10. ASSUME TickBegin \/ Remove \/ Start \/ Stop \/ Advance PROVE FALSE
  BY <1>3, <1>10 DEF TickBegin, Remove, Start, Stop, Advance
<1> QED
  BY <1>4, <1>5, <1>6, <1>7, <1>8, <1>9, <1>10 DEF Next

\* No handler of a task that is paused or gone is called (memory.ts:182, 277).
THEOREM AlwaysRunsOnlyRunning == Spec => RunsOnlyRunning
<1>1. IInv /\ [Next]_vars =>
          [\A i \in Ids : runs'[i] > runs[i] => i \in live /\ status[i] = "running"]_vars
  BY RunSteps
<1> QED
  BY <1>1, Invariance, PTL DEF Spec, RunsOnlyRunning

\* One match, one run, for expressions that never let more than maxDriftMs pass
\* between matches and handlers that settle at once (memory.ts:279, 316).
THEOREM AlwaysRunsPerMatch == Spec => SteadyRunPerMatch
<1>1. ASSUME IInv, [Next]_vars PROVE RunsOnMatch({e \in Exprs : Steady(e)})
  <2>1. ASSUME NEW i \in Ids, calm, runs'[i] > runs[i], kind[i] = "cron", Steady(expr[i])
        PROVE  \E m \in Matches[expr[i]] : lastRun[i] < m /\ m <= now
    <3>1. i \in live /\ cursor # 0 /\ cursor <= i /\ nextRunAt[i] <= now
      BY <1>1, <2>1, RunSteps
    <3>2. CalmTask(i)
      BY <1>1, <2>1, <3>1 DEF IInv, CalmTasks
    <3>3. runs[i] = 0
      <4>1. runs[i] \in Nat /\ cursor \in Nat /\ i \in Nat
        BY <1>1 DEF IInv, TypeOK, Ids
      <4> QED
        BY <3>1, <3>2, <4>1 DEF CalmTask
    <3> QED
      BY <2>1, <3>1, <3>2, <3>3 DEF CalmTask
  <2> QED
    BY <2>1 DEF RunsOnMatch
<1>2. IInv /\ [Next]_vars => [RunsOnMatch({e \in Exprs : Steady(e)})]_vars
  BY <1>1
<1> QED
  BY <1>2, Invariance, PTL DEF Spec, SteadyRunPerMatch
==============================================================================

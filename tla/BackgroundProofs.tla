-------------------------- MODULE BackgroundProofs ---------------------------
(***************************************************************************)
(* Proofs about QueueService over MemoryQueue, for any jobs, names,        *)
(* attempts and concurrencies and any number of restarts; about a stream   *)
(* of server-sent events; about a streaming gRPC call, for any number of   *)
(* messages in either direction; and about the search for the next instant *)
(* of a cron expression, for any expression and any calendar.              *)
(***************************************************************************)
EXTENDS Background, FiniteSetTheorems, WellFoundedInduction, TLAPS

\* The jobs a sweep has yet to visit are waiting jobs.
SweepQueued == sweep \subseteq Queued

\* A job without a second attempt has not been run before it is dispatched.
RunsCounted ==
    \A j \in Jobs : Attempts[j] <= 1 =>
        /\ runs[j] <= 1
        /\ status[j] \in {"new", "queued"} => runs[j] = 0

\* From the last poll of a stop() on, no sweep and no handler is in progress.
Shutdown ==
    (~ticking \/ \E k \in Calls : stopper[k] = "closing")
        => sweep = {} /\ Running = {}

\* What a stop() has waited for is settled from its last poll on.
AcceptedSettled ==
    \A k \in Calls : \A j \in accepted[k] :
        /\ status[j] # "new"
        /\ stopper[k] \in {"closing", "stopped"} => status[j] \in Settled

\* The inductive invariant.  The count of the running handlers is what makes
\* `inFlight = 0` a reason to close, the accounting of the queue is what makes
\* `queue = <<>>` one.
IInv ==
    /\ TypeOK
    /\ JobsAccounted
    /\ SweepQueued
    /\ IsFiniteSet(Running)
    /\ InFlightAccounted
    /\ ConcurrencyRespected
    /\ RunsCounted
    /\ Shutdown
    /\ AcceptedSettled

------------------------------------------------------------------------------
(* Facts about sequences without repetition *)

\* Pushing a new element at the end.
LEMMA AppendFacts ==
    ASSUME NEW S, NEW s \in Seq(S), NEW e \in S,
           Distinct(s), e \notin Elements(s)
    PROVE  /\ Append(s, e) \in Seq(S)
           /\ Distinct(Append(s, e))
           /\ Elements(Append(s, e)) = Elements(s) \union {e}
  BY DEF Distinct, Elements

\* Putting a new element in front.
LEMMA PrependFacts ==
    ASSUME NEW S, NEW s \in Seq(S), NEW e \in S,
           Distinct(s), e \notin Elements(s)
    PROVE  /\ <<e>> \o s \in Seq(S)
           /\ Distinct(<<e>> \o s)
           /\ Elements(<<e>> \o s) = Elements(s) \union {e}
<1> DEFINE t == <<e>> \o s
<1>1. /\ t \in Seq(S)
      /\ Len(t) = Len(s) + 1
      /\ Len(s) \in Nat
      /\ t[1] = e
      /\ \A a \in 1..Len(s) : t[a + 1] = s[a]
      /\ \A a \in 1..Len(t) : a # 1 => a - 1 \in 1..Len(s) /\ t[a] = s[a - 1]
  OBVIOUS
<1> HIDE DEF t
<1>2. Distinct(t)
  <2>1. ASSUME NEW a \in 1..Len(s) PROVE s[a] # e
    BY DEF Elements
  <2>2. ASSUME NEW a \in 1..Len(t), NEW b \in 1..Len(t), t[a] = t[b], a # 1, b # 1
        PROVE  a = b
    BY <1>1, <2>2, s[a - 1] = s[b - 1] DEF Distinct
  <2>3. ASSUME NEW a \in 1..Len(t), NEW b \in 1..Len(t), t[a] = t[b], a = 1 \/ b = 1
        PROVE  a = b
    BY <1>1, <2>1, <2>3
  <2> QED
    BY <2>2, <2>3 DEF Distinct
<1>3. Elements(t) \subseteq Elements(s) \union {e}
  BY <1>1 DEF Elements
<1>4. Elements(s) \union {e} \subseteq Elements(t)
  <2>1. e \in Elements(t)
    BY <1>1 DEF Elements
  <2>2. ASSUME NEW a \in 1..Len(s) PROVE s[a] \in Elements(t)
    BY <1>1, a + 1 \in 1..Len(t) DEF Elements
  <2> QED
    BY <2>1, <2>2 DEF Elements
<1> QED
  BY <1>1, <1>2, <1>3, <1>4 DEF t

\* Concatenation, place by place.
LEMMA ConcatFacts ==
    ASSUME NEW S, NEW l \in Seq(S), NEW r \in Seq(S)
    PROVE  /\ l \o r \in Seq(S)
           /\ Len(l \o r) = Len(l) + Len(r)
           /\ \A a \in 1..(Len(l) + Len(r)) :
                 (l \o r)[a] = IF a <= Len(l) THEN l[a] ELSE r[a - Len(l)]
  OBVIOUS

\* Taking out the element at one place.
LEMMA WithoutFacts ==
    ASSUME queue \in Seq(Jobs), Distinct(queue), NEW i \in 1..Len(queue)
    PROVE  /\ Without(i) \in Seq(Jobs)
           /\ Distinct(Without(i))
           /\ Elements(Without(i)) = Elements(queue) \ {queue[i]}
           /\ queue[i] \in Jobs
           /\ queue[i] \in Elements(queue)
<1> DEFINE s == queue
           l == SubSeq(s, 1, i - 1)
           r == SubSeq(s, i + 1, Len(s))
           t == l \o r
<1>1. Len(s) \in Nat /\ i \in Nat /\ 1 <= i /\ i <= Len(s) /\ s[i] \in Jobs
  OBVIOUS
<1>2. /\ l \in Seq(Jobs)
      /\ Len(l) = i - 1
      /\ \A a \in 1..(i - 1) : l[a] = s[a]
  BY <1>1
<1>3. /\ r \in Seq(Jobs)
      /\ Len(r) = Len(s) - i
      /\ \A a \in 1..(Len(s) - i) : r[a] = s[a + i]
  BY <1>1
<1> HIDE DEF l, r
<1>4. /\ t \in Seq(Jobs)
      /\ Len(t) = Len(s) - 1
      /\ \A a \in 1..Len(t) : t[a] = IF a < i THEN s[a] ELSE s[a + 1]
  <2>0. /\ t \in Seq(Jobs)
        /\ Len(t) = Len(l) + Len(r)
        /\ \A a \in 1..(Len(l) + Len(r)) :
              t[a] = IF a <= Len(l) THEN l[a] ELSE r[a - Len(l)]
    BY <1>2, <1>3, ConcatFacts
  <2> HIDE DEF t
  <2>1. t \in Seq(Jobs) /\ Len(t) = Len(s) - 1
    BY <1>1, <1>2, <1>3, <2>0
  <2>2. \A a \in 1..Len(t) : t[a] = IF a <= Len(l) THEN l[a] ELSE r[a - Len(l)]
    BY <2>0
  <2>3. ASSUME NEW a \in 1..Len(t), a < i PROVE t[a] = s[a]
    BY <1>1, <1>2, <2>1, <2>2, <2>3
  <2>4. ASSUME NEW a \in 1..Len(t), ~(a < i) PROVE t[a] = s[a + 1]
    BY <1>1, <1>2, <1>3, <2>1, <2>2, <2>4, a - (i - 1) \in 1..(Len(s) - i)
  <2> QED
    BY <2>1, <2>3, <2>4
<1> HIDE DEF t
<1>5. Distinct(t)
  <2> SUFFICES ASSUME NEW a \in 1..Len(t), NEW b \in 1..Len(t), t[a] = t[b]
               PROVE  a = b
    BY DEF Distinct
  <2> DEFINE at(c) == IF c < i THEN c ELSE c + 1
  <2>1. /\ at(a) \in 1..Len(s) /\ t[a] = s[at(a)]
        /\ at(b) \in 1..Len(s) /\ t[b] = s[at(b)]
    BY <1>1, <1>4
  <2>2. at(a) = at(b)
    <3> HIDE DEF at
    <3> QED
      BY <2>1 DEF Distinct
  <2> QED
    BY <1>1, <2>2
<1>6. ASSUME NEW a \in 1..Len(t) PROVE t[a] \in Elements(s) \ {s[i]}
  BY <1>1, <1>4 DEF Elements, Distinct
<1>7. ASSUME NEW b \in 1..Len(s), s[b] # s[i] PROVE s[b] \in Elements(t)
  <2>1. CASE b < i
    BY <1>1, <1>4, <2>1, b \in 1..Len(t), t[b] = s[b] DEF Elements
  <2>2. CASE ~(b < i)
    <3>1. b # i
      BY <1>7
    <3>2. b - 1 \in 1..Len(t) /\ t[b - 1] = s[b]
      BY <1>1, <1>4, <2>2, <3>1
    <3> QED
      BY <3>2 DEF Elements
  <2> QED
    BY <2>1, <2>2
<1>8. Elements(t) = Elements(s) \ {s[i]}
  BY <1>6, <1>7 DEF Elements
<1>9. t = Without(i)
  BY DEF t, l, r, Without
<1> QED
  BY <1>1, <1>4, <1>5, <1>8, <1>9 DEF Elements

------------------------------------------------------------------------------
(* Facts about the running handlers *)

\* A set of jobs of one name among the running ones is no larger than a set of
\* running ones that holds it.
LEMMA SmallerSet ==
    ASSUME NEW A, NEW B, IsFiniteSet(B), A \subseteq B
    PROVE  IsFiniteSet(A) /\ Cardinality(A) <= Cardinality(B)
  BY FS_Subset

\* A handler that is called is one more, and below the limit of its worker.
LEMMA OneMoreRunning ==
    ASSUME IInv, NEW j \in Jobs, j \notin Running, ~Busy(j),
           inFlight' = inFlight + 1, Running' = Running \union {j},
           \A x \in Jobs : x # j => status'[x] = status[x]
    PROVE  IsFiniteSet(Running)' /\ InFlightAccounted' /\ ConcurrencyRespected'
<1>1. IsFiniteSet(Running') /\ Cardinality(Running') = Cardinality(Running) + 1
  BY FS_AddElement DEF IInv
<1>2. InFlightAccounted'
  BY <1>1 DEF IInv, InFlightAccounted
<1>3. ASSUME NEW n \in Names
      PROVE  Cardinality({x \in Running' : NameOf[x] = n}) <= Concurrency[n]
  <2>1. CASE n = NameOf[j]
    <3>1. Cardinality({x \in Running' : NameOf[x] = n}) <= inFlight + 1
      BY <1>1, <1>2, SmallerSet DEF InFlightAccounted
    <3>2. inFlight < Concurrency[n]
      BY <2>1, JobsAssumption DEF IInv, TypeOK, Busy
    <3>3. Cardinality({x \in Running' : NameOf[x] = n}) \in Nat
      BY <1>1, SmallerSet, FS_CardinalityType
    <3> QED
      BY <3>1, <3>2, <3>3, JobsAssumption DEF IInv, TypeOK
  <2>2. CASE n # NameOf[j]
    <3>1. {x \in Running' : NameOf[x] = n} = {x \in Running : NameOf[x] = n}
      BY <2>2
    <3> QED
      BY <3>1 DEF IInv, ConcurrencyRespected
  <2> QED
    BY <2>1, <2>2
<1> QED
  BY <1>1, <1>2, <1>3 DEF ConcurrencyRespected

\* A handler that settles is one less, and the count was not zero.
LEMMA OneLessRunning ==
    ASSUME IInv, NEW j \in Running,
           inFlight' = inFlight - 1, Running' = Running \ {j}
    PROVE  /\ IsFiniteSet(Running)' /\ InFlightAccounted' /\ ConcurrencyRespected'
           /\ inFlight' \in Nat
<1>1. IsFiniteSet(Running') /\ Cardinality(Running') = Cardinality(Running) - 1
  BY FS_RemoveElement DEF IInv
<1>2. InFlightAccounted' /\ inFlight' \in Nat
  BY <1>1, FS_CardinalityType DEF IInv, InFlightAccounted
<1>3. ASSUME NEW n \in Names
      PROVE  Cardinality({x \in Running' : NameOf[x] = n}) <= Concurrency[n]
  <2>1. IsFiniteSet({x \in Running : NameOf[x] = n})
    BY SmallerSet DEF IInv
  <2>2. Cardinality({x \in Running' : NameOf[x] = n})
           <= Cardinality({x \in Running : NameOf[x] = n})
    BY <2>1, SmallerSet
  <2>3. /\ Cardinality({x \in Running' : NameOf[x] = n}) \in Nat
        /\ Cardinality({x \in Running : NameOf[x] = n}) \in Nat
    BY <1>1, <2>1, SmallerSet, FS_CardinalityType
  <2> QED
    BY <2>2, <2>3, JobsAssumption DEF IInv, ConcurrencyRespected
<1> QED
  BY <1>1, <1>2, <1>3 DEF ConcurrencyRespected

\* Where the handlers that run are the same, so is all that is said of them.
LEMMA SameRunning ==
    ASSUME IInv, inFlight' = inFlight, Running' = Running
    PROVE  IsFiniteSet(Running)' /\ InFlightAccounted' /\ ConcurrencyRespected'
  BY DEF IInv, InFlightAccounted, ConcurrencyRespected

\* No handler runs when the count is zero.
LEMMA NoneRunning == IInv /\ inFlight = 0 => Running = {}
  BY FS_EmptySet DEF IInv, InFlightAccounted

\* What became of a job is never taken back, so that a step of the queue leaves
\* the promise of a stop() alone.
LEMMA PromiseKept ==
    ASSUME IInv, UNCHANGED svars,
           \A x \in Jobs : status[x] \in Settled => status'[x] = status[x],
           \A x \in Jobs : status[x] # "new" => status'[x] # "new"
    PROVE  AcceptedSettled'
<1>1. \A k \in Calls : accepted[k] \subseteq Jobs
  BY DEF IInv, TypeOK
<1> QED
  BY <1>1 DEF IInv, AcceptedSettled, svars

\* A failed run: what the catch block does with the queue that is left.
LEMMA FailFacts ==
    ASSUME IInv, NEW j \in Jobs, NEW q \in Seq(Jobs), Distinct(q),
           Elements(q) = Queued \ {j}, Fail(j, q)
    PROVE  /\ queue' \in Seq(Jobs)
           /\ due' \subseteq Jobs
           /\ status' \in [Jobs -> Statuses]
           /\ status'[j] \in {"queued", "failed"}
           /\ Attempts[j] <= 1 => status'[j] = "failed"
           /\ \A x \in Jobs : x # j => status'[x] = status[x]
           /\ JobsAccounted'
<1>1. CASE Attempts[j] > 1 /\ Push(j, q) /\ status' = [status EXCEPT ![j] = "queued"]
  <2>1. /\ queue' \in Seq(Jobs)
        /\ Distinct(queue')
        /\ Elements(queue') = Elements(q) \union {j}
    BY <1>1, AppendFacts DEF Push
  <2>2. Queued' = Queued \union {j}
    BY <1>1 DEF IInv, TypeOK, Queued
  <2>3. Elements(queue') = Queued'
    BY <2>1, <2>2 DEF Queued
  <2>4. due' \subseteq Jobs
    BY <1>1 DEF Push, IInv, TypeOK
  <2>5. ~(Attempts[j] <= 1)
    BY <1>1, JobsAssumption
  <2> QED
    BY <1>1, <2>1, <2>3, <2>4, <2>5 DEF IInv, TypeOK, Statuses, JobsAccounted
<1>2. CASE /\ ~(Attempts[j] > 1) /\ queue' = q
           /\ status' = [status EXCEPT ![j] = "failed"] /\ UNCHANGED due
  <2>1. Queued' = Queued \ {j}
    BY <1>2 DEF IInv, TypeOK, Queued
  <2> QED
    BY <1>2, <2>1 DEF IInv, TypeOK, Statuses, Settled, JobsAccounted
<1> QED
  BY <1>1, <1>2 DEF Fail

------------------------------------------------------------------------------
(* The steps of the queue *)

\* The state in which a sweep visits a place of the queue.
LEMMA VisitFacts ==
    ASSUME IInv, NEW i \in 1..Len(queue), Visits(i)
    PROVE  /\ queue[i] \in Jobs
           /\ status[queue[i]] = "queued"
           /\ queue[i] \notin Running
           /\ ticking
           /\ \A k \in Calls : stopper[k] # "closing"
           /\ Without(i) \in Seq(Jobs)
           /\ Distinct(Without(i))
           /\ Elements(Without(i)) = Queued \ {queue[i]}
<1>1. /\ Without(i) \in Seq(Jobs)
      /\ Distinct(Without(i))
      /\ Elements(Without(i)) = Queued \ {queue[i]}
      /\ queue[i] \in Jobs
      /\ queue[i] \in Queued
  BY WithoutFacts DEF IInv, TypeOK, JobsAccounted
<1>2. sweep # {}
  BY DEF Visits
<1> QED
  BY <1>1, <1>2 DEF IInv, Shutdown, Queued, Running

\* A due job without a handler leaves the queue (memory.ts:159).
LEMMA DropInv ==
    ASSUME IInv, UNCHANGED svars, UNCHANGED <<handlers, ticking>>,
           NEW i \in 1..Len(queue), Visits(i), sweep' = sweep \ {queue[i]}, Drop(i)
    PROVE  IInv'
<1> DEFINE j == queue[i]
<1>1. /\ j \in Jobs /\ status[j] = "queued" /\ j \notin Running
      /\ ticking /\ \A k \in Calls : stopper[k] # "closing"
      /\ Without(i) \in Seq(Jobs) /\ Distinct(Without(i))
      /\ Elements(Without(i)) = Queued \ {j}
  BY VisitFacts
<1>2. /\ queue' = Without(i) /\ status' = [status EXCEPT ![j] = "dropped"]
      /\ UNCHANGED <<due, runs, inFlight>>
  BY DEF Drop
<1> HIDE DEF j
<1>3. TypeOK'
  BY <1>1, <1>2 DEF IInv, TypeOK, svars, Statuses, Settled
<1>4. Queued' = Queued \ {j} /\ Running' = Running
  BY <1>1, <1>2 DEF IInv, TypeOK, Queued, Running
<1>5. JobsAccounted' /\ SweepQueued'
  BY <1>1, <1>2, <1>4 DEF IInv, JobsAccounted, SweepQueued, j
<1>6. IsFiniteSet(Running)' /\ InFlightAccounted' /\ ConcurrencyRespected'
  BY <1>2, <1>4, SameRunning
<1>7. RunsCounted'
  BY <1>1, <1>2 DEF IInv, TypeOK, RunsCounted
<1>8. Shutdown'
  BY <1>1 DEF Shutdown, svars
<1>9. AcceptedSettled'
  BY <1>1, <1>2, PromiseKept DEF IInv, TypeOK, Settled
<1> QED
  BY <1>3, <1>5, <1>6, <1>7, <1>8, <1>9 DEF IInv

\* A due job that finds the queue busy goes to its front (memory.ts:162-166).
LEMMA RequeueInv ==
    ASSUME IInv, UNCHANGED svars, UNCHANGED <<handlers, ticking>>,
           NEW i \in 1..Len(queue), Visits(i), sweep' = sweep \ {queue[i]}, Requeue(i)
    PROVE  IInv'
<1> DEFINE j == queue[i]
<1>1. /\ j \in Jobs /\ status[j] = "queued"
      /\ ticking /\ \A k \in Calls : stopper[k] # "closing"
      /\ Without(i) \in Seq(Jobs) /\ Distinct(Without(i))
      /\ Elements(Without(i)) = Queued \ {j}
  BY VisitFacts
<1>2. queue' = <<j>> \o Without(i) /\ UNCHANGED <<due, status, runs, inFlight>>
  BY DEF Requeue
<1> HIDE DEF j
<1>3. /\ queue' \in Seq(Jobs)
      /\ Distinct(queue')
      /\ Elements(queue') = Elements(Without(i)) \union {j}
  BY <1>1, <1>2, PrependFacts
<1>4. Queued' = Queued /\ Running' = Running /\ j \in Queued
  BY <1>1, <1>2 DEF Queued, Running
<1>5. TypeOK'
  BY <1>2, <1>3 DEF IInv, TypeOK, svars
<1>6. Elements(queue') = Queued'
  BY <1>1, <1>3, <1>4
<1>7. JobsAccounted' /\ SweepQueued'
  BY <1>3, <1>4, <1>6 DEF IInv, JobsAccounted, SweepQueued
<1>8. IsFiniteSet(Running)' /\ InFlightAccounted' /\ ConcurrencyRespected'
  BY <1>2, <1>4, SameRunning
<1>9. RunsCounted' /\ Shutdown'
  BY <1>1, <1>2 DEF IInv, RunsCounted, Shutdown, svars
<1>10. AcceptedSettled'
  BY <1>2, PromiseKept
<1> QED
  BY <1>5, <1>7, <1>8, <1>9, <1>10 DEF IInv

\* A due job is handed to its handler (memory.ts:167-187).
LEMMA StartInv ==
    ASSUME IInv, UNCHANGED svars, UNCHANGED <<handlers, ticking>>,
           NEW i \in 1..Len(queue), Visits(i), sweep' = sweep \ {queue[i]}, Start(i)
    PROVE  IInv'
<1> DEFINE j == queue[i]
<1>1. /\ j \in Jobs /\ status[j] = "queued" /\ j \notin Running
      /\ ticking /\ \A k \in Calls : stopper[k] # "closing"
      /\ Without(i) \in Seq(Jobs) /\ Distinct(Without(i))
      /\ Elements(Without(i)) = Queued \ {j}
  BY VisitFacts
<1>2. /\ ~Busy(j) /\ queue' = Without(i) /\ inFlight' = inFlight + 1
      /\ status' = [status EXCEPT ![j] = "running"]
      /\ runs' = [runs EXCEPT ![j] = @ + 1] /\ UNCHANGED due
  BY DEF Start
<1> HIDE DEF j
<1>3. TypeOK'
  BY <1>1, <1>2 DEF IInv, TypeOK, svars, Statuses
<1>4. Queued' = Queued \ {j} /\ Running' = Running \union {j}
  BY <1>1, <1>2 DEF IInv, TypeOK, Queued, Running
<1>5. JobsAccounted' /\ SweepQueued'
  BY <1>1, <1>2, <1>4 DEF IInv, JobsAccounted, SweepQueued, j
<1>6. IsFiniteSet(Running)' /\ InFlightAccounted' /\ ConcurrencyRespected'
  BY <1>1, <1>2, <1>4, OneMoreRunning DEF IInv, TypeOK
<1>7. RunsCounted'
  BY <1>1, <1>2 DEF IInv, TypeOK, RunsCounted
<1>8. Shutdown'
  BY <1>1 DEF Shutdown, svars
<1>9. AcceptedSettled'
  BY <1>1, <1>2, PromiseKept DEF IInv, TypeOK, Settled
<1> QED
  BY <1>3, <1>5, <1>6, <1>7, <1>8, <1>9 DEF IInv

\* A handler that throws at once (memory.ts:188, 217-239).
LEMMA StartThrowsInv ==
    ASSUME IInv, UNCHANGED svars, UNCHANGED <<handlers, ticking>>,
           NEW i \in 1..Len(queue), Visits(i), sweep' = sweep \ {queue[i]},
           StartThrows(i)
    PROVE  IInv'
<1> DEFINE j == queue[i]
<1>1. /\ j \in Jobs /\ status[j] = "queued" /\ j \notin Running
      /\ ticking /\ \A k \in Calls : stopper[k] # "closing"
      /\ Without(i) \in Seq(Jobs) /\ Distinct(Without(i))
      /\ Elements(Without(i)) = Queued \ {j}
  BY VisitFacts
<1>2. /\ runs' = [runs EXCEPT ![j] = @ + 1]
      /\ Fail(j, Without(i)) /\ UNCHANGED inFlight
  BY DEF StartThrows
<1> HIDE DEF j
<1>3. /\ queue' \in Seq(Jobs)
      /\ due' \subseteq Jobs
      /\ status' \in [Jobs -> Statuses]
      /\ status'[j] \in {"queued", "failed"}
      /\ Attempts[j] <= 1 => status'[j] = "failed"
      /\ \A x \in Jobs : x # j => status'[x] = status[x]
      /\ JobsAccounted'
  BY <1>1, <1>2, FailFacts
<1>4. TypeOK'
  <2>1. runs' \in [Jobs -> Nat] /\ sweep' \subseteq Jobs
    BY <1>1, <1>2 DEF IInv, TypeOK
  <2> QED
    BY <1>2, <1>3, <2>1 DEF IInv, TypeOK, svars
<1>5. Running' = Running
  BY <1>1, <1>3 DEF Running
<1>6. SweepQueued'
  <2>1. sweep' = sweep \ {j}
    BY DEF j
  <2>2. ASSUME NEW x \in sweep' PROVE x \in Jobs /\ status'[x] = "queued"
    BY <1>3, <2>1 DEF IInv, SweepQueued, Queued
  <2> QED
    BY <2>2 DEF SweepQueued, Queued
<1>7. IsFiniteSet(Running)' /\ InFlightAccounted' /\ ConcurrencyRespected'
  BY <1>2, <1>5, SameRunning
<1>8. RunsCounted'
  BY <1>1, <1>2, <1>3 DEF IInv, TypeOK, RunsCounted
<1>9. Shutdown'
  BY <1>1 DEF Shutdown, svars
<1>10. AcceptedSettled'
  BY <1>1, <1>3, PromiseKept DEF Settled
<1> QED
  BY <1>3, <1>4, <1>6, <1>7, <1>8, <1>9, <1>10 DEF IInv

\* One turn of the loop of #tick() (memory.ts:156-168).
LEMMA SweepInv == IInv /\ Sweep => IInv'
<1> SUFFICES ASSUME IInv, Sweep PROVE IInv'
  OBVIOUS
<1>1. PICK i \in 1..Len(queue) :
         /\ Visits(i)
         /\ sweep' = sweep \ {queue[i]}
         /\ Drop(i) \/ Requeue(i) \/ Start(i) \/ StartThrows(i)
         /\ UNCHANGED <<handlers, ticking>>
         /\ UNCHANGED svars
  BY DEF Sweep, SweepStep
<1> QED
  BY <1>1, DropInv, RequeueInv, StartInv, StartThrowsInv

\* The timer fires (memory.ts:152-156).
LEMMA TickInv == IInv /\ Tick => IInv'
<1> SUFFICES ASSUME IInv, Tick PROVE IInv'
  OBVIOUS
<1>1. /\ ticking /\ \A k \in Calls : stopper[k] # "closing"
      /\ sweep' = Elements(queue) \intersect due
      /\ UNCHANGED <<queue, due, status, runs, handlers, inFlight, ticking>>
      /\ UNCHANGED svars
  BY DEF Tick, TimersMayFire, TickBegin
<1>2. Queued' = Queued /\ Running' = Running
  BY <1>1 DEF Queued, Running
<1>3. TypeOK'
  BY <1>1 DEF IInv, TypeOK, svars
<1>4. JobsAccounted' /\ SweepQueued'
  BY <1>1, <1>2 DEF IInv, JobsAccounted, SweepQueued
<1>5. IsFiniteSet(Running)' /\ InFlightAccounted' /\ ConcurrencyRespected'
  BY <1>1, <1>2, SameRunning
<1>6. RunsCounted' /\ Shutdown'
  BY <1>1 DEF IInv, RunsCounted, Shutdown, svars
<1>7. AcceptedSettled'
  BY <1>1, PromiseKept
<1> QED
  BY <1>3, <1>4, <1>5, <1>6, <1>7 DEF IInv

\* add() (memory.ts:77-93).
LEMMA EnqueueInv == ASSUME IInv, NEW j \in Jobs, Enqueue(j) PROVE IInv'
<1>1. /\ status[j] = "new"
      /\ queue' = Append(queue, j)
      /\ due' \in {due \ {j}, due \union {j}}
      /\ status' = [status EXCEPT ![j] = "queued"]
      /\ UNCHANGED <<sweep, runs, handlers, inFlight, ticking>>
      /\ UNCHANGED svars
  BY DEF Enqueue, Add, Push
<1>2. Queued' = Queued \union {j} /\ Running' = Running /\ j \notin Queued
  BY <1>1 DEF IInv, TypeOK, Queued, Running
<1>3. /\ queue' \in Seq(Jobs)
      /\ Distinct(queue')
      /\ Elements(queue') = Elements(queue) \union {j}
  BY <1>1, <1>2, AppendFacts DEF IInv, TypeOK, JobsAccounted
<1>4. TypeOK'
  BY <1>1, <1>3 DEF IInv, TypeOK, svars, Statuses
<1>5. Elements(queue') = Queued'
  BY <1>2, <1>3 DEF IInv, JobsAccounted
<1>6. JobsAccounted' /\ SweepQueued'
  BY <1>1, <1>2, <1>3, <1>5 DEF IInv, JobsAccounted, SweepQueued
<1>7. IsFiniteSet(Running)' /\ InFlightAccounted' /\ ConcurrencyRespected'
  BY <1>1, <1>2, SameRunning
<1>8. RunsCounted'
  BY <1>1 DEF IInv, TypeOK, RunsCounted
<1>9. Shutdown'
  BY <1>1, <1>2 DEF IInv, Shutdown, svars
<1>10. AcceptedSettled'
  BY <1>1, PromiseKept DEF IInv, TypeOK, Settled
<1> QED
  BY <1>4, <1>6, <1>7, <1>8, <1>9, <1>10 DEF IInv

\* A delay runs out (memory.ts:155).
LEMMA RipenInv == ASSUME IInv, NEW j \in Jobs, Ripen(j) PROVE IInv'
<1>1. /\ due' = due \union {j}
      /\ UNCHANGED <<queue, sweep, status, runs, handlers, inFlight, ticking>>
      /\ UNCHANGED svars
  BY DEF Ripen, Mature
<1>2. Queued' = Queued /\ Running' = Running
  BY <1>1 DEF Queued, Running
<1>3. TypeOK' /\ JobsAccounted' /\ SweepQueued' /\ RunsCounted' /\ Shutdown'
  BY <1>1, <1>2
  DEF IInv, TypeOK, JobsAccounted, SweepQueued, RunsCounted, Shutdown, svars
<1>4. IsFiniteSet(Running)' /\ InFlightAccounted' /\ ConcurrencyRespected'
  BY <1>1, <1>2, SameRunning
<1>5. AcceptedSettled'
  BY <1>1, PromiseKept
<1> QED
  BY <1>3, <1>4, <1>5 DEF IInv

\* process() (memory.ts:105-119).
LEMMA RegisterInv == ASSUME IInv, NEW n \in Names, Register(n) PROVE IInv'
<1>1. /\ handlers' = handlers \union {n}
      /\ UNCHANGED <<queue, sweep, due, status, runs, inFlight, ticking>>
      /\ UNCHANGED svars
  BY DEF Register, Process
<1>2. Queued' = Queued /\ Running' = Running
  BY <1>1 DEF Queued, Running
<1>3. TypeOK' /\ JobsAccounted' /\ SweepQueued' /\ RunsCounted' /\ Shutdown'
  BY <1>1, <1>2
  DEF IInv, TypeOK, JobsAccounted, SweepQueued, RunsCounted, Shutdown, svars
<1>4. IsFiniteSet(Running)' /\ InFlightAccounted' /\ ConcurrencyRespected'
  BY <1>1, <1>2, SameRunning
<1>5. AcceptedSettled'
  BY <1>1, PromiseKept
<1> QED
  BY <1>3, <1>4, <1>5 DEF IInv

\* A handler returns (memory.ts:189-216, 238).
LEMMA FinishInv ==
    ASSUME IInv, UNCHANGED svars, NEW j \in Jobs, Finish(j) PROVE IInv'
<1>1. /\ status[j] = "running" /\ j \in Running
      /\ inFlight' = inFlight - 1
      /\ UNCHANGED <<queue, sweep, due, runs, handlers, ticking>>
  BY DEF Finish, Running
<1>2. PICK s \in {"completed", "failed"} : status' = [status EXCEPT ![j] = s]
  BY DEF Finish
<1>3. Queued' = Queued /\ Running' = Running \ {j}
  BY <1>1, <1>2 DEF IInv, TypeOK, Queued, Running
<1>4. /\ IsFiniteSet(Running)' /\ InFlightAccounted' /\ ConcurrencyRespected'
      /\ inFlight' \in Nat
  BY <1>1, <1>3, OneLessRunning
<1>5. TypeOK'
  BY <1>1, <1>2, <1>4 DEF IInv, TypeOK, svars, Statuses, Settled
<1>6. JobsAccounted' /\ SweepQueued'
  BY <1>1, <1>3 DEF IInv, JobsAccounted, SweepQueued
<1>7. RunsCounted'
  BY <1>1, <1>2 DEF IInv, TypeOK, RunsCounted
<1>8. Shutdown'
  BY <1>1, <1>3 DEF IInv, Shutdown, svars
<1>9. AcceptedSettled'
  BY <1>1, <1>2, PromiseKept DEF IInv, TypeOK, Settled
<1> QED
  BY <1>4, <1>5, <1>6, <1>7, <1>8, <1>9 DEF IInv

\* A handler rejects (memory.ts:217-239).
LEMMA ThrowInv ==
    ASSUME IInv, UNCHANGED svars, NEW j \in Jobs, Throw(j) PROVE IInv'
<1>1. /\ status[j] = "running" /\ j \in Running
      /\ inFlight' = inFlight - 1 /\ Fail(j, queue)
      /\ UNCHANGED <<sweep, runs, handlers, ticking>>
  BY DEF Throw, Running
<1>2. Elements(queue) = Queued \ {j} /\ Distinct(queue) /\ queue \in Seq(Jobs)
  BY <1>1 DEF IInv, TypeOK, JobsAccounted, Queued
<1>3. /\ queue' \in Seq(Jobs)
      /\ due' \subseteq Jobs
      /\ status' \in [Jobs -> Statuses]
      /\ status'[j] \in {"queued", "failed"}
      /\ Attempts[j] <= 1 => status'[j] = "failed"
      /\ \A x \in Jobs : x # j => status'[x] = status[x]
      /\ JobsAccounted'
  BY <1>1, <1>2, FailFacts
<1>4. Running' = Running \ {j}
  BY <1>3 DEF Running
<1>5. /\ IsFiniteSet(Running)' /\ InFlightAccounted' /\ ConcurrencyRespected'
      /\ inFlight' \in Nat
  BY <1>1, <1>4, OneLessRunning
<1>6. TypeOK'
  BY <1>1, <1>3, <1>5 DEF IInv, TypeOK, svars
<1>7. SweepQueued'
  <2>1. ASSUME NEW x \in sweep' PROVE x \in Jobs /\ status'[x] = "queued"
    BY <1>1, <1>3 DEF IInv, SweepQueued, Queued
  <2> QED
    BY <2>1 DEF SweepQueued, Queued
<1>8. RunsCounted'
  BY <1>1, <1>3 DEF IInv, TypeOK, RunsCounted
<1>9. Shutdown'
  BY <1>1, <1>4 DEF IInv, Shutdown, svars
<1>10. AcceptedSettled'
  BY <1>1, <1>3, PromiseKept DEF Settled
<1> QED
  BY <1>3, <1>5, <1>6, <1>7, <1>8, <1>9, <1>10 DEF IInv

------------------------------------------------------------------------------
(* The steps of the service *)

\* A step that leaves the backend alone disturbs only what is said of stop().
LEMMA BackendUntouched ==
    ASSUME IInv, UNCHANGED qvars
    PROVE  /\ JobsAccounted' /\ SweepQueued' /\ RunsCounted'
           /\ IsFiniteSet(Running)' /\ InFlightAccounted' /\ ConcurrencyRespected'
           /\ Queued' = Queued /\ Running' = Running
<1>1. Queued' = Queued /\ Running' = Running
  BY DEF Queued, Running, qvars
<1>2. JobsAccounted' /\ SweepQueued' /\ RunsCounted'
  BY <1>1 DEF IInv, JobsAccounted, SweepQueued, RunsCounted, qvars
<1>3. IsFiniteSet(Running)' /\ InFlightAccounted' /\ ConcurrencyRespected'
  BY <1>1, SameRunning DEF qvars
<1> QED
  BY <1>1, <1>2, <1>3

\* A drained backend is quiet, and all that was ever added to it is settled.
LEMMA DrainedFacts ==
    ASSUME IInv, Drained
    PROVE  /\ sweep = {} /\ Running = {}
           /\ \A j \in Jobs : status[j] # "new" => status[j] \in Settled
<1>1. Running = {}
  BY NoneRunning DEF Drained
<1>2. Queued = {}
  BY DEF IInv, JobsAccounted, Elements, Drained
<1>3. sweep = {}
  BY <1>2 DEF IInv, SweepQueued
<1>4. ASSUME NEW j \in Jobs, status[j] # "new" PROVE status[j] \in Settled
  BY <1>1, <1>2, <1>4 DEF Running, Queued, IInv, TypeOK, Statuses
<1> QED
  BY <1>1, <1>3, <1>4

\* start() (queue.service.ts:112-117).
LEMMA StartServiceInv == IInv /\ StartService => IInv'
<1> SUFFICES ASSUME IInv, StartService PROVE IInv'
  OBVIOUS
<1>1. /\ UNCHANGED <<qvars, stopper, accepted>> /\ started' = TRUE
      /\ bridges' = bridges + 1 /\ bridges < MaxStarts
  BY DEF StartService
<1>2. TypeOK'
  BY <1>1, StartsAssumption DEF IInv, TypeOK, qvars
<1>3. Shutdown' /\ AcceptedSettled'
  BY <1>1, BackendUntouched DEF IInv, Shutdown, AcceptedSettled, qvars
<1> QED
  BY <1>1, <1>2, <1>3, BackendUntouched DEF IInv

\* stop(), up to its first await (queue.service.ts:120-123).
LEMMA StopInv == IInv /\ Stop => IInv'
<1> SUFFICES ASSUME IInv, Stop PROVE IInv'
  OBVIOUS
<1>1. /\ started' = FALSE
      /\ stopper' = [stopper EXCEPT ![bridges] = IF Drained THEN "closing" ELSE "draining"]
      /\ accepted' = [accepted EXCEPT ![bridges] = {j \in Jobs : status[j] # "new"}]
      /\ UNCHANGED qvars /\ UNCHANGED bridges
  BY DEF Stop
<1>2. TypeOK'
  BY <1>1 DEF IInv, TypeOK, StopperStates, qvars
<1>3. Shutdown'
  <2>1. CASE Drained
    BY <1>1, <2>1, DrainedFacts, BackendUntouched DEF Shutdown, qvars
  <2>2. CASE ~Drained
    BY <1>1, <2>2, BackendUntouched DEF IInv, TypeOK, Shutdown, qvars
  <2> QED
    BY <2>1, <2>2
<1>4. AcceptedSettled'
  <2> SUFFICES ASSUME NEW k \in Calls, NEW j \in accepted'[k]
               PROVE  /\ status'[j] # "new"
                      /\ stopper'[k] \in {"closing", "stopped"} => status'[j] \in Settled
    BY DEF AcceptedSettled
  <2>1. CASE k # bridges
    BY <1>1, <2>1 DEF IInv, TypeOK, AcceptedSettled, qvars
  <2>2. CASE k = bridges
    <3>1. /\ j \in Jobs /\ status[j] # "new"
          /\ stopper'[k] = IF Drained THEN "closing" ELSE "draining"
      BY <1>1, <2>2 DEF IInv, TypeOK
    <3> QED
      BY <1>1, <3>1, DrainedFacts DEF qvars
  <2> QED
    BY <2>1, <2>2
<1> QED
  BY <1>1, <1>2, <1>3, <1>4, BackendUntouched DEF IInv

\* The last poll of drain() (memory.ts:125-129).
LEMMA PollInv == ASSUME IInv, NEW k \in Calls, Poll(k) PROVE IInv'
<1>1. /\ Drained /\ stopper' = [stopper EXCEPT ![k] = "closing"]
      /\ UNCHANGED <<qvars, started, bridges, accepted>>
  BY DEF Poll
<1>2. TypeOK'
  BY <1>1 DEF IInv, TypeOK, StopperStates, qvars
<1>3. Shutdown'
  BY <1>1, DrainedFacts, BackendUntouched DEF Shutdown, qvars
<1>4. AcceptedSettled'
  BY <1>1, DrainedFacts DEF IInv, TypeOK, AcceptedSettled, qvars
<1> QED
  BY <1>1, <1>2, <1>3, <1>4, BackendUntouched DEF IInv

\* The end of stop() (queue.service.ts:124-129).
LEMMA CloseInv == ASSUME IInv, NEW k \in Calls, Close(k) PROVE IInv'
<1>1. /\ stopper[k] = "closing"
      /\ stopper' = [stopper EXCEPT ![k] = "stopped"]
      /\ ticking' = FALSE
      /\ UNCHANGED <<queue, sweep, due, status, runs, handlers, inFlight>>
      /\ UNCHANGED <<started, bridges, accepted>>
  BY DEF Close, StopTick
<1>2. Queued' = Queued /\ Running' = Running
  BY <1>1 DEF Queued, Running
<1>3. TypeOK'
  BY <1>1 DEF IInv, TypeOK, StopperStates
<1>4. JobsAccounted' /\ SweepQueued' /\ RunsCounted'
  BY <1>1, <1>2 DEF IInv, JobsAccounted, SweepQueued, RunsCounted
<1>5. IsFiniteSet(Running)' /\ InFlightAccounted' /\ ConcurrencyRespected'
  BY <1>1, <1>2, SameRunning
<1>6. Shutdown'
  BY <1>1, <1>2 DEF IInv, Shutdown
<1>7. AcceptedSettled'
  BY <1>1 DEF IInv, TypeOK, AcceptedSettled
<1> QED
  BY <1>3, <1>4, <1>5, <1>6, <1>7 DEF IInv

\* A new service over a new backend.
LEMMA InitInv == Init => IInv
<1> SUFFICES ASSUME Init PROVE IInv
  OBVIOUS
<1> USE DEF Init, QueueInit
<1>1. TypeOK
  <2>1. <<>> \in Seq(Jobs)
    OBVIOUS
  <2>2. queue \in Seq(Jobs)
    BY <2>1
  <2>3. bridges \in 0..MaxStarts /\ inFlight \in Nat
    BY StartsAssumption
  <2>4. ticking \in BOOLEAN /\ started \in BOOLEAN
    OBVIOUS
  <2>5. status \in [Jobs -> Statuses] /\ runs \in [Jobs -> Nat]
    BY DEF Statuses
  <2>6. stopper \in [Calls -> StopperStates] /\ accepted \in [Calls -> SUBSET Jobs]
    BY DEF StopperStates
  <2> QED
    BY <2>2, <2>3, <2>4, <2>5, <2>6 DEF TypeOK
<1>2. Running = {} /\ Queued = {}
  BY DEF Running, Queued
<1>3. JobsAccounted /\ SweepQueued
  BY <1>2 DEF JobsAccounted, SweepQueued, Distinct, Elements
<1>4. IsFiniteSet(Running) /\ InFlightAccounted
  BY <1>2, FS_EmptySet DEF InFlightAccounted
<1>5. ConcurrencyRespected
  <2>1. ASSUME NEW n \in Names
        PROVE  Cardinality({j \in Running : NameOf[j] = n}) <= Concurrency[n]
    <3>1. {j \in Running : NameOf[j] = n} = {}
      BY <1>2
    <3>2. Cardinality({j \in Running : NameOf[j] = n}) = 0
      BY <3>1, FS_EmptySet
    <3> QED
      BY <3>2, JobsAssumption
  <2> QED
    BY <2>1 DEF ConcurrencyRespected
<1>6. RunsCounted /\ Shutdown /\ AcceptedSettled
  BY DEF RunsCounted, Shutdown, AcceptedSettled
<1> QED
  BY <1>1, <1>3, <1>4, <1>5, <1>6 DEF IInv

\* Every step keeps the invariant.
LEMMA NextInv == IInv /\ [Next]_vars => IInv'
<1> SUFFICES ASSUME IInv, [Next]_vars PROVE IInv'
  OBVIOUS
<1>1. ASSUME NEW j \in Jobs, Settle(j) PROVE IInv'
  BY <1>1, FinishInv, ThrowInv DEF Settle
<1>2. CASE Next
  BY <1>1, <1>2, StartServiceInv, StopInv, TickInv, SweepInv, PollInv, CloseInv,
     EnqueueInv, RipenInv, RegisterInv DEF Next
<1>3. CASE UNCHANGED vars
  <2>1. UNCHANGED qvars /\ UNCHANGED svars
    BY <1>3 DEF vars
  <2>2. TypeOK' /\ Shutdown' /\ AcceptedSettled'
    BY <2>1, BackendUntouched DEF IInv, TypeOK, Shutdown, AcceptedSettled, qvars, svars
  <2> QED
    BY <2>1, <2>2, BackendUntouched DEF IInv
<1> QED
  BY <1>2, <1>3

------------------------------------------------------------------------------
(* Theorems *)

\* The invariant holds throughout.
LEMMA Invariance == Spec => []IInv
<1> QED
  BY InitInv, NextInv, PTL DEF Spec

\* Type correctness.
THEOREM TypeCorrect == Spec => []TypeOK
<1>1. IInv => TypeOK
  BY DEF IInv
<1> QED
  BY <1>1, Invariance, PTL

\* No job is lost or doubled by the sweep, the requeue or the retry
\* (memory.ts:152-169, 217-236).
THEOREM JobsAlwaysAccounted == Spec => []JobsAccounted
<1>1. IInv => JobsAccounted
  BY DEF IInv
<1> QED
  BY <1>1, Invariance, PTL

\* inFlight counts the running handlers, however they settle (memory.ts:172, 238).
THEOREM InFlightAlwaysAccounted == Spec => []InFlightAccounted
<1>1. IInv => InFlightAccounted
  BY DEF IInv
<1> QED
  BY <1>1, Invariance, PTL

\* No worker runs more jobs than its concurrency (memory.ts:160-166).
THEOREM ConcurrencyAlwaysRespected == Spec => []ConcurrencyRespected
<1>1. IInv => ConcurrencyRespected
  BY DEF IInv
<1> QED
  BY <1>1, Invariance, PTL

\* A job without a second attempt is run at most once (memory.ts:220).
THEOREM RunAtMostOnce == Spec => []AtMostOnce
<1>1. IInv => AtMostOnce
  BY DEF IInv, RunsCounted, AtMostOnce
<1> QED
  BY <1>1, Invariance, PTL

\* No handler runs once the tick is cleared (queue.service.ts:120-129).
THEOREM QuietAfterStop == Spec => []NothingRunsAfterStop
<1>1. IInv => NothingRunsAfterStop
  BY DEF IInv, Shutdown, NothingRunsAfterStop
<1> QED
  BY <1>1, Invariance, PTL

\* When a stop() has returned, what was added before it is settled
\* (queue.service.ts:119-129).
THEOREM StopAlwaysSettles == Spec => []StopSettles
<1>1. IInv => StopSettles
  BY DEF IInv, AcceptedSettled, StopSettles
<1> QED
  BY <1>1, Invariance, PTL

------------------------------------------------------------------------------
(* Server-sent events *)

\* Where each callback stands: not yet given to onClose(), waiting for the end
\* of the stream, or called.
CallbackOnce ==
    \A cb \in Callbacks :
        /\ cb \in fresh => ran[cb] = 0 /\ cb \notin registered
        /\ cb \in registered => ran[cb] = 0
        /\ cb \notin fresh \union registered => ran[cb] = 1

\* Who is still waiting when the stream is over: nobody.
OverIsClosed ==
    /\ closing # "no" \/ aborted => closed
    /\ closing = "closed" \/ aborted => registered = {}
    /\ closing = "closed" => pending = 0

\* The inductive invariant of a stream.
SseInv ==
    /\ Sse!TypeOK /\ ran \in [Callbacks -> Nat]
    /\ CallbackOnce /\ OverIsClosed

\* #fireClose() calls those who wait, and nobody waits after it.
LEMMA FireCloseOnce ==
    ASSUME SseInv, Sse!FireClose, fresh' = fresh
    PROVE  /\ ran' \in [Callbacks -> Nat] /\ CallbackOnce'
           /\ closed' /\ registered' = {}
  BY DEF SseInv, CallbackOnce, Sse!FireClose, Sse!Call, Sse!TypeOK

\* close(), whoever calls it, keeps the invariant.
LEMMA CloseKeeps ==
    ASSUME SseInv, Sse!Close, UNCHANGED <<aborted, pending, fresh>>,
           asked' \in BOOLEAN, handler' \in {"running", "finished"}
    PROVE  SseInv'
<1>1. CASE closed
  BY <1>1 DEF SseInv, CallbackOnce, OverIsClosed, Sse!Close, Sse!TypeOK
<1>2. CASE ~closed /\ pending > 0
  BY <1>2 DEF SseInv, CallbackOnce, OverIsClosed, Sse!Close, Sse!TypeOK
<1>3. CASE ~closed /\ ~(pending > 0)
  <2>1. Sse!FireClose /\ closing' = "closed" /\ pending = 0
    BY <1>3 DEF Sse!Close, SseInv, Sse!TypeOK
  <2> QED
    BY <2>1, FireCloseOnce DEF SseInv, OverIsClosed, Sse!TypeOK
<1> QED
  BY <1>1, <1>2, <1>3

\* Every event of a stream keeps the invariant.
LEMMA SseStep ==
    ASSUME SseInv, [Sse!Next]_sseVars PROVE SseInv'
<1>1. CASE UNCHANGED sseVars
  BY <1>1 DEF sseVars, SseInv, CallbackOnce, OverIsClosed, Sse!TypeOK
<1>2. CASE Sse!Send
  BY <1>2, WritesAssumption DEF Sse!Send, SseInv, CallbackOnce, OverIsClosed, Sse!TypeOK
<1>3. CASE Sse!Written
  BY <1>3, WritesAssumption DEF Sse!Written, SseInv, CallbackOnce, OverIsClosed, Sse!TypeOK
<1>4. ASSUME NEW cb \in Callbacks, Sse!OnClose(cb) PROVE SseInv'
  BY <1>4 DEF Sse!OnClose, Sse!Call, SseInv, CallbackOnce, OverIsClosed, Sse!TypeOK
<1>5. CASE Sse!CloseByProgram
  <2>1. /\ Sse!Close /\ UNCHANGED <<aborted, pending, fresh>>
        /\ asked' \in BOOLEAN /\ handler' \in {"running", "finished"}
    BY <1>5 DEF Sse!CloseByProgram, SseInv, Sse!TypeOK
  <2> QED
    BY <2>1, CloseKeeps
<1>6. CASE Sse!HandlerFinishes
  <2>1. /\ Sse!Close /\ UNCHANGED <<aborted, pending, fresh>>
        /\ asked' \in BOOLEAN /\ handler' \in {"running", "finished"}
    BY <1>6 DEF Sse!HandlerFinishes, SseInv, Sse!TypeOK
  <2> QED
    BY <2>1, CloseKeeps
<1>7. CASE Sse!Flush
  BY <1>7, FireCloseOnce DEF Sse!Flush, SseInv, OverIsClosed, Sse!TypeOK
<1>8. CASE Sse!Abort
  BY <1>8, FireCloseOnce DEF Sse!Abort, SseInv, OverIsClosed, Sse!TypeOK
<1> QED
  BY <1>1, <1>2, <1>3, <1>4, <1>5, <1>6, <1>7, <1>8 DEF Sse!Next

\* However and however often a stream is closed, each callback of onClose() runs
\* once and what was sent is written first (sse-stream.ts).
THEOREM StreamsCloseCleanly == Sse!Spec => []ClosesCleanly
<1>1. Sse!Init => SseInv
  <2> SUFFICES ASSUME Sse!Init PROVE SseInv
    OBVIOUS
  <2>1. Sse!TypeOK
    <3>1. pending \in 0..MaxWrites
      BY WritesAssumption DEF Sse!Init
    <3>2. asked \in BOOLEAN /\ closed \in BOOLEAN /\ aborted \in BOOLEAN
      BY Zenon DEF Sse!Init
    <3> QED
      BY <3>1, <3>2 DEF Sse!Init, Sse!TypeOK
  <2>2. ran \in [Callbacks -> Nat] /\ CallbackOnce /\ OverIsClosed
    BY DEF Sse!Init, CallbackOnce, OverIsClosed
  <2> QED
    BY <2>1, <2>2 DEF SseInv
<1>2. SseInv /\ [Sse!Next]_(Sse!vars) => SseInv'
  BY SseStep DEF Sse!vars, sseVars
<1>3. SseInv => ClosesCleanly
  BY DEF SseInv, CallbackOnce, OverIsClosed, ClosesCleanly, Sse!ClosesCleanly
<1> QED
  BY <1>1, <1>2, <1>3, PTL DEF Sse!Spec

------------------------------------------------------------------------------
(***************************************************************************)
(* Streaming gRPC calls.                                                   *)
(*                                                                         *)
(* The invariant says of each direction where the messages are.  Those     *)
(* already taken, those received and those on the wire are consecutive     *)
(* numbers, up to the last one written, and on the wire the events by      *)
(* which the other side finished follow them.  A connection that broke     *)
(* leaves a prefix of that, and a failure instead of the rest.             *)
(***************************************************************************)

\* s holds the numbers after n.
Numbered(s, n) == \A i \in 1..Len(s) : s[i] = n + i

\* The wire carries the messages after n, up to total, and then the events of tail.
Carries(wire, tail, n, total) ==
    /\ n <= total /\ Len(wire) = (total - n) + Len(tail)
    /\ \A i \in 1..(total - n) : wire[i] = Grpc!Data(n + i)
    /\ \A j \in 1..Len(tail) : wire[(total - n) + j] = tail[j]

Tails == {<<>>, <<Grpc!End>>, <<Grpc!Failure, Grpc!End>>}

HadUp   == Len(seen) + Len(requests.queue)
HadDown == Len(got) + Len(responses.queue)

\* Whether the client has ended its side of the call.
Closed == kind # "server" /\ (source = "ended" \/ (source = "failed" /\ kind = "bidi"))

UpTail == IF Closed THEN <<Grpc!End>> ELSE <<>>
DownTail ==
    IF method \in {"running", "told"} THEN <<>>
    ELSE IF method = "returned" THEN <<Grpc!End>> ELSE <<Grpc!Failure, Grpc!End>>

Ups ==
    /\ kind = "server" => source = "ended"
    /\ Numbered(seen, 0) /\ Numbered(requests.queue, Len(seen)) /\ HadUp <= sent
    /\ broken => up = <<>>
    /\ ~broken => ~requests.failed
    /\ requests.ended => Closed /\ up = <<>> /\ HadUp = sent
    /\ ~broken /\ ~requests.ended => Carries(up, UpTail, HadUp, sent)
    /\ method = "told" /\ kind # "server" => requests.ended /\ requests.queue = <<>>

Downs ==
    /\ Numbered(got, 0) /\ Numbered(responses.queue, Len(got)) /\ HadDown <= written
    /\ kind = "client" /\ method # "returned" => written = 0
    /\ responses.ended => down = <<>>
    /\ responses.failed /\ ~responses.ended => down = <<Grpc!End>>
    /\ responses.failed => broken \/ method = "threw"
    /\ responses.ended /\ ~responses.failed => method = "returned" /\ HadDown = written
    /\ ~responses.ended /\ ~responses.failed =>
          IF broken THEN down = <<Grpc!Failure, Grpc!End>>
          ELSE Carries(down, DownTail, HadDown, written)
    /\ consumer \in {"awaiting", "done"} =>
          responses.ended /\ responses.queue = <<>> /\ (kind = "bidi" \/ ~responses.failed)

StreamInv == Grpc!TypeOK /\ Ups /\ Downs

------------------------------------------------------------------------------
(* Numbers and wires *)

\* The events are events, and differ.
LEMMA EventsAreEvents ==
    /\ Grpc!End \in Grpc!Events /\ Grpc!Failure \in Grpc!Events /\ Grpc!End # Grpc!Failure
    /\ \A n \in Nat : Grpc!Data(n) \in Grpc!Events /\ Grpc!Data(n) # Grpc!End /\ Grpc!Data(n) # Grpc!Failure
    /\ \A n \in Nat : Grpc!Data(n)[1] = "data" /\ Grpc!Data(n)[2] = n
    /\ Grpc!End[1] = "end" /\ Grpc!Failure[1] = "error"
BY DEF Grpc!End, Grpc!Failure, Grpc!Data, Grpc!Events

\* What may follow the messages is a sequence of events.
LEMMA TailsAreWires ==
    ASSUME NEW t \in Tails
    PROVE  t \in Seq(Grpc!Events) /\ Len(t) \in 0..2
<1>1. ASSUME NEW S, NEW d \in S, NEW e \in S
      PROVE  /\ <<>> \in Seq(S) /\ Len(<<>>) \in 0..2
             /\ <<d>> \in Seq(S) /\ Len(<<d>>) \in 0..2
             /\ <<d, e>> \in Seq(S) /\ Len(<<d, e>>) \in 0..2
  OBVIOUS
<1>2. /\ <<>> \in Seq(Grpc!Events) /\ <<Grpc!End>> \in Seq(Grpc!Events) /\ <<Grpc!Failure, Grpc!End>> \in Seq(Grpc!Events)
      /\ Len(<<>>) \in 0..2 /\ Len(<<Grpc!End>>) \in 0..2 /\ Len(<<Grpc!Failure, Grpc!End>>) \in 0..2
  BY <1>1, EventsAreEvents
<1> QED BY <1>2 DEF Tails

\* What is taken from a numbered sequence is the next number.
LEMMA TakeNumber ==
    ASSUME NEW s \in Seq(Nat), NEW n \in Nat, Numbered(s, n), s # <<>>
    PROVE  /\ Head(s) = n + 1 /\ Numbered(Tail(s), n + 1)
           /\ Tail(s) \in Seq(Nat) /\ Len(Tail(s)) = Len(s) - 1 /\ Len(s) > 0
BY DEF Numbered

\* The next number may be put behind a numbered sequence.
LEMMA PutNumber ==
    ASSUME NEW s \in Seq(Nat), NEW n \in Nat, Numbered(s, n), NEW m \in Nat, m = n + Len(s) + 1
    PROVE  /\ Numbered(Append(s, m), n) /\ Append(s, m) \in Seq(Nat)
           /\ Len(Append(s, m)) = Len(s) + 1
BY DEF Numbered

\* While messages are on the wire, its first event is the next of them.
LEMMA WireHead ==
    ASSUME NEW w \in Seq(Grpc!Events), NEW t \in Tails, NEW n \in Nat, NEW total \in Nat,
           Carries(w, t, n, total), n < total
    PROVE  /\ w # <<>> /\ Head(w) = Grpc!Data(n + 1)
           /\ Carries(Tail(w), t, n + 1, total)
<1>1. Len(t) \in 0..2 /\ t \in Seq(Grpc!Events)
  BY TailsAreWires
<1>2. /\ Len(w) = (total - n) + Len(t) /\ total - n >= 1 /\ Len(w) > 0
      /\ \A i \in 1..(total - n) : w[i] = Grpc!Data(n + i)
      /\ \A j \in 1..Len(t) : w[(total - n) + j] = t[j]
  BY <1>1 DEF Carries
<1>3. w # <<>> /\ Head(w) = Grpc!Data(n + 1)
  <2>1. w # <<>> /\ Head(w) = w[1] /\ 1 \in 1..(total - n)
    BY <1>2
  <2> QED BY <1>2, <2>1
<1>4. Len(Tail(w)) = Len(w) - 1 /\ \A k \in 1..(Len(w) - 1) : Tail(w)[k] = w[k + 1]
  BY <1>2, <1>3
<1>5. \A i \in 1..(total - (n + 1)) : Tail(w)[i] = Grpc!Data((n + 1) + i)
  <2>1. SUFFICES ASSUME NEW i \in 1..(total - (n + 1)) PROVE Tail(w)[i] = Grpc!Data((n + 1) + i)
    OBVIOUS
  <2>2. i + 1 \in 1..(total - n) /\ i \in 1..(Len(w) - 1) /\ n + (i + 1) = (n + 1) + i
    BY <1>1, <1>2
  <2> QED BY <1>2, <1>4, <2>2
<1>6. \A j \in 1..Len(t) : Tail(w)[(total - (n + 1)) + j] = t[j]
  <2>1. SUFFICES ASSUME NEW j \in 1..Len(t) PROVE Tail(w)[(total - (n + 1)) + j] = t[j]
    OBVIOUS
  <2>2. /\ (total - (n + 1)) + j \in 1..(Len(w) - 1)
        /\ ((total - (n + 1)) + j) + 1 = (total - n) + j
    BY <1>1, <1>2
  <2> QED BY <1>2, <1>4, <2>2
<1>7. n + 1 <= total /\ Len(Tail(w)) = (total - (n + 1)) + Len(t)
  BY <1>1, <1>2, <1>4
<1>8. Carries(Tail(w), t, n + 1, total)
  BY <1>5, <1>6, <1>7 DEF Carries
<1> QED BY <1>3, <1>8

\* Then come the events by which the other side finished.
LEMMA WireEnd ==
    ASSUME NEW w \in Seq(Grpc!Events), NEW t \in Tails, NEW n \in Nat, Carries(w, t, n, n)
    PROVE  w = t
<1>1. Len(t) \in Nat /\ t \in Seq(Grpc!Events)
  BY TailsAreWires
<1>2. Len(w) = Len(t) /\ \A j \in 1..Len(t) : w[j] = t[j]
  BY <1>1 DEF Carries
<1> QED BY <1>1, <1>2

\* Writing a message, and
LEMMA WireWrite ==
    ASSUME NEW w \in Seq(Grpc!Events), NEW n \in Nat, NEW total \in Nat, Carries(w, <<>>, n, total)
    PROVE  Carries(w \o <<Grpc!Data(total + 1)>>, <<>>, n, total + 1)
<1>1. /\ n <= total /\ Len(w) = total - n /\ \A i \in 1..(total - n) : w[i] = Grpc!Data(n + i)
  BY DEF Carries
<1> DEFINE v == w \o <<Grpc!Data(total + 1)>>
<1>2. /\ Len(v) = Len(w) + 1 /\ v[Len(w) + 1] = Grpc!Data(total + 1)
      /\ \A i \in 1..Len(w) : v[i] = w[i]
  BY EventsAreEvents
<1>3. \A i \in 1..((total + 1) - n) : v[i] = Grpc!Data(n + i)
  <2>1. SUFFICES ASSUME NEW i \in 1..((total + 1) - n) PROVE v[i] = Grpc!Data(n + i)
    OBVIOUS
  <2>2. CASE i \in 1..Len(w)
    BY <1>1, <1>2, <2>2
  <2>3. CASE i = Len(w) + 1
    <3>1. n + i = total + 1
      BY <1>1, <2>3
    <3> QED BY <1>2, <2>3, <3>1
  <2>4. i \in 1..Len(w) \/ i = Len(w) + 1
    BY <1>1
  <2> QED BY <2>2, <2>3, <2>4
<1>4. Len(v) = ((total + 1) - n) + Len(<<>>) /\ n <= total + 1
  BY <1>1, <1>2
<1> HIDE DEF v
<1>5. Carries(v, <<>>, n, total + 1)
  BY <1>3, <1>4 DEF Carries
<1> QED BY <1>5 DEF v

\* finishing, put events behind what the wire carries.
LEMMA WireFinish ==
    ASSUME NEW w \in Seq(Grpc!Events), NEW t \in Tails, NEW n \in Nat, NEW total \in Nat,
           Carries(w, <<>>, n, total)
    PROVE  Carries(w \o t, t, n, total)
<1>1. /\ n <= total /\ Len(w) = total - n /\ \A i \in 1..(total - n) : w[i] = Grpc!Data(n + i)
  BY DEF Carries
<1>2. Len(t) \in Nat /\ t \in Seq(Grpc!Events)
  BY TailsAreWires
<1> DEFINE v == w \o t
<1>3. /\ Len(v) = Len(w) + Len(t)
      /\ \A i \in 1..Len(w) : v[i] = w[i]
      /\ \A j \in 1..Len(t) : v[Len(w) + j] = t[j]
  BY <1>2
<1> HIDE DEF v
<1>4. Carries(v, t, n, total)
  BY <1>1, <1>2, <1>3 DEF Carries
<1> QED BY <1>4 DEF v

\* Events may be put on a wire together or one by one.
LEMMA OneByOne ==
    ASSUME NEW S, NEW w \in Seq(S), NEW d \in S, NEW e \in S
    PROVE  (w \o <<d>>) \o <<e>> = w \o <<d, e>>
<1> DEFINE u == (w \o <<d>>) \o <<e>>
           v == w \o <<d, e>>
<1>1. w \o <<d>> \in Seq(S) /\ Len(w \o <<d>>) = Len(w) + 1
  OBVIOUS
<1>2. /\ u \in Seq(S) /\ Len(u) = Len(w) + 2 /\ u[Len(w) + 2] = e
      /\ \A i \in 1..(Len(w) + 1) : u[i] = (w \o <<d>>)[i]
  BY <1>1
<1>3. /\ v \in Seq(S) /\ Len(v) = Len(w) + 2 /\ v[Len(w) + 1] = d /\ v[Len(w) + 2] = e
      /\ \A i \in 1..Len(w) : v[i] = w[i]
  OBVIOUS
<1>4. (w \o <<d>>)[Len(w) + 1] = d /\ \A i \in 1..Len(w) : (w \o <<d>>)[i] = w[i]
  OBVIOUS
<1> HIDE DEF u, v
<1>5. ASSUME NEW i \in 1..(Len(w) + 2) PROVE u[i] = v[i]
  <2>1. i \in 1..Len(w) \/ i = Len(w) + 1 \/ i = Len(w) + 2
    OBVIOUS
  <2>2. i \in 1..(Len(w) + 1) => u[i] = (w \o <<d>>)[i]
    BY <1>2
  <2> QED BY <1>2, <1>3, <1>4, <2>1, <2>2
<1>6. u = v
  BY <1>2, <1>3, <1>5
<1> QED BY <1>6 DEF u, v

------------------------------------------------------------------------------
(* What is received *)

\* The fields of what is received, and what a change of one leaves alone.
LEMMA BoxFields ==
    ASSUME NEW b \in Grpc!Boxes
    PROVE  /\ b.queue \in Seq(Nat) /\ b.ended \in BOOLEAN
           /\ b.failed \in BOOLEAN /\ b.asleep \in BOOLEAN
BY DEF Grpc!Boxes

\* A box, and what is left of one, is a sequence of messages.
LEMMA BoxesAreBoxes ==
    ASSUME NEW b \in Grpc!Boxes, NEW q \in Seq(Nat)
    PROVE  [b EXCEPT !.queue = q] \in Grpc!Boxes /\ [b EXCEPT !.asleep = TRUE] \in Grpc!Boxes
BY DEF Grpc!Boxes

\* The queue of a stream after one of its ends has written it.
LEMMA QueueReplaced ==
    ASSUME NEW b \in Grpc!Boxes, NEW q
    PROVE  /\ [b EXCEPT !.queue = q].queue = q
           /\ [b EXCEPT !.queue = q].ended = b.ended /\ [b EXCEPT !.queue = q].failed = b.failed
BY DEF Grpc!Boxes

\* What is taken from a box was in it.
LEMMA TakeFromBox ==
    ASSUME NEW b \in Grpc!Boxes, NEW s \in Seq(Nat), b.queue # <<>>
    PROVE  /\ Append(s, Head(b.queue)) \in Seq(Nat)
           /\ [b EXCEPT !.queue = Tail(@)] \in Grpc!Boxes
<1>1. b.queue \in Seq(Nat)
  BY BoxFields
<1>2. Head(b.queue) \in Nat /\ Tail(b.queue) \in Seq(Nat)
  BY <1>1
<1>3. Append(s, Head(b.queue)) \in Seq(Nat)
  BY <1>2
<1> QED BY <1>2, <1>3, BoxesAreBoxes

\* What each event does to what was received.
LEMMA Received ==
    ASSUME NEW b \in Grpc!Boxes, NEW n \in Nat
    PROVE  /\ Grpc!Receive(b, Grpc!Data(n)) \in Grpc!Boxes
           /\ Grpc!Receive(b, Grpc!Data(n)).queue = Append(b.queue, n)
           /\ Grpc!Receive(b, Grpc!Data(n)).ended = b.ended /\ Grpc!Receive(b, Grpc!Data(n)).failed = b.failed
           /\ Grpc!Receive(b, Grpc!End) \in Grpc!Boxes /\ Grpc!Receive(b, Grpc!End).queue = b.queue
           /\ Grpc!Receive(b, Grpc!End).ended = TRUE /\ Grpc!Receive(b, Grpc!End).failed = b.failed
           /\ Grpc!Receive(b, Grpc!Failure) \in Grpc!Boxes /\ Grpc!Receive(b, Grpc!Failure).queue = b.queue
           /\ Grpc!Receive(b, Grpc!Failure).ended = b.ended /\ Grpc!Receive(b, Grpc!Failure).failed = TRUE
<1>1. /\ b.queue \in Seq(Nat) /\ b.ended \in BOOLEAN
      /\ b.failed \in BOOLEAN /\ b.asleep \in BOOLEAN /\ Append(b.queue, n) \in Seq(Nat)
  BY BoxFields
<1>2. Grpc!Receive(b, Grpc!Data(n)) =
          [queue |-> Append(b.queue, n), ended |-> b.ended, failed |-> b.failed, asleep |-> FALSE]
  BY <1>1, EventsAreEvents DEF Grpc!Receive
<1>3. Grpc!Receive(b, Grpc!End) =
          [queue |-> b.queue, ended |-> TRUE, failed |-> b.failed, asleep |-> FALSE]
  BY <1>1, EventsAreEvents DEF Grpc!Receive
<1>4. Grpc!Receive(b, Grpc!Failure) =
          [queue |-> b.queue, ended |-> b.ended, failed |-> TRUE, asleep |-> FALSE]
  BY <1>1, EventsAreEvents DEF Grpc!Receive
<1>5. \A q \in Seq(Nat), e \in BOOLEAN, f \in BOOLEAN :
          [queue |-> q, ended |-> e, failed |-> f, asleep |-> FALSE] \in Grpc!Boxes
  BY DEF Grpc!Boxes
<1>6. b.queue \in Seq(Nat) /\ Append(b.queue, n) \in Seq(Nat)
  BY <1>1
<1>7. /\ Grpc!Receive(b, Grpc!Data(n)) \in Grpc!Boxes /\ Grpc!Receive(b, Grpc!End) \in Grpc!Boxes
      /\ Grpc!Receive(b, Grpc!Failure) \in Grpc!Boxes
  BY <1>1, <1>2, <1>3, <1>4, <1>5
<1> QED BY <1>2, <1>3, <1>4, <1>7

\* Whatever arrives, it is received.
LEMMA ReceivedIsBox ==
    ASSUME NEW b \in Grpc!Boxes, NEW e \in Grpc!Events
    PROVE  Grpc!Receive(b, e) \in Grpc!Boxes
<1>1. b.queue \in Seq(Nat) /\ b.ended \in BOOLEAN /\ b.failed \in BOOLEAN /\ b.asleep \in BOOLEAN
  BY BoxFields
<1>2. e[2] \in Nat
  BY DEF Grpc!Events
<1>3. (IF e[1] = "data" THEN Append(b.queue, e[2]) ELSE b.queue) \in Seq(Nat)
  BY <1>1, <1>2
<1>4. (b.ended \/ e = Grpc!End) \in BOOLEAN /\ (b.failed \/ e = Grpc!Failure) \in BOOLEAN
  BY <1>1
<1>5. \A q \in Seq(Nat), x \in BOOLEAN, y \in BOOLEAN :
          [queue |-> q, ended |-> x, failed |-> y, asleep |-> FALSE] \in Grpc!Boxes
  BY DEF Grpc!Boxes
<1> QED BY <1>3, <1>4, <1>5 DEF Grpc!Receive

------------------------------------------------------------------------------
(* Types *)

\* Wires carry events.
LEMMA WireTypes ==
    ASSUME NEW w \in Seq(Grpc!Events), NEW n \in Nat
    PROVE  /\ w \o <<Grpc!Data(n)>> \in Seq(Grpc!Events) /\ w \o <<Grpc!End>> \in Seq(Grpc!Events)
           /\ w \o <<Grpc!Failure, Grpc!End>> \in Seq(Grpc!Events) /\ w \o <<Grpc!Data(n), Grpc!End>> \in Seq(Grpc!Events)
           /\ w # <<>> => Head(w) \in Grpc!Events /\ Tail(w) \in Seq(Grpc!Events)
<1>1. ASSUME NEW S, NEW s \in Seq(S), NEW d \in S, NEW e \in S
      PROVE  s \o <<d>> \in Seq(S) /\ s \o <<d, e>> \in Seq(S)
  OBVIOUS
<1>2. Grpc!Data(n) \in Grpc!Events /\ Grpc!End \in Grpc!Events /\ Grpc!Failure \in Grpc!Events
  BY EventsAreEvents
<1> QED BY <1>1, <1>2

\* Every step keeps the types.
LEMMA TypeStep ==
    ASSUME Grpc!TypeOK, [Grpc!Next]_(Grpc!vars)
    PROVE  Grpc!TypeOK'
<1> USE DEF Grpc!TypeOK, Grpc!clientVars, Grpc!serverVars
<1>1. CASE Grpc!EmitUp
  <2>1. Head(up) \in Grpc!Events /\ Tail(up) \in Seq(Grpc!Events)
    BY <1>1, WireTypes DEF Grpc!EmitUp
  <2>2. requests' \in Grpc!Boxes
    BY <1>1, <2>1, ReceivedIsBox DEF Grpc!EmitUp
  <2> QED BY <1>1, <2>1, <2>2 DEF Grpc!EmitUp
<1>2. CASE Grpc!EmitDown
  <2>1. Head(down) \in Grpc!Events /\ Tail(down) \in Seq(Grpc!Events)
    BY <1>2, WireTypes DEF Grpc!EmitDown
  <2>2. responses' \in Grpc!Boxes
    BY <1>2, <2>1, ReceivedIsBox DEF Grpc!EmitDown
  <2> QED BY <1>2, <2>1, <2>2 DEF Grpc!EmitDown
<1>3. CASE Grpc!Break
  <2>1. requests' \in Grpc!Boxes
    BY <1>3, ReceivedIsBox, EventsAreEvents DEF Grpc!Break
  <2>2. <<>> \in Tails /\ <<Grpc!Failure, Grpc!End>> \in Tails
    BY DEF Tails
  <2>3. up' \in Seq(Grpc!Events) /\ down' \in Seq(Grpc!Events)
    <3>1. up' \in Tails /\ down' \in Tails
      BY <1>3, <2>2 DEF Grpc!Break
    <3> QED BY <3>1, TailsAreWires
  <2> QED BY <1>3, <2>1, <2>3 DEF Grpc!Break
<1>4. CASE Grpc!Write
  <2>1. sent' \in Nat
    BY <1>4 DEF Grpc!Write
  <2>2. up' \in Seq(Grpc!Events)
    BY <1>4, <2>1, WireTypes DEF Grpc!Write, Grpc!Upwards
  <2> QED BY <1>4, <2>1, <2>2 DEF Grpc!Write
<1>5. CASE Grpc!SourceEnds
  <2>1. up' \in Seq(Grpc!Events)
    BY <1>5, WireTypes DEF Grpc!SourceEnds, Grpc!Upwards
  <2> QED BY <1>5, <2>1 DEF Grpc!SourceEnds
<1>6. CASE Grpc!SourceFails
  <2>1. up' \in Seq(Grpc!Events)
    BY <1>6, WireTypes DEF Grpc!SourceFails, Grpc!Upwards
  <2> QED BY <1>6, <2>1 DEF Grpc!SourceFails
<1>7. CASE Grpc!ConsumerReads
  <2>1. responses' \in Grpc!Boxes /\ got' \in Seq(Nat)
    <3>1. CASE Grpc!Message(responses) /\ got' = Append(got, Head(responses.queue))
               /\ responses' = [responses EXCEPT !.queue = Tail(@)]
      BY <3>1, TakeFromBox DEF Grpc!Message
    <3>2. CASE UNCHANGED <<got, responses>>
      BY <3>2
    <3>3. CASE UNCHANGED got /\ responses' = [responses EXCEPT !.asleep = TRUE]
      BY <3>3, BoxesAreBoxes, BoxFields
    <3> QED BY <1>7, <3>1, <3>2, <3>3 DEF Grpc!ConsumerReads
  <2> QED BY <1>7, <2>1 DEF Grpc!ConsumerReads
<1>8. CASE Grpc!ConsumerAwaits
  BY <1>8 DEF Grpc!ConsumerAwaits
<1>9. CASE Grpc!ConsumerLeaves
  BY <1>9 DEF Grpc!ConsumerLeaves
<1>10. CASE Grpc!MethodThrows
  <2>1. down' \in Seq(Grpc!Events)
    BY <1>10, WireTypes DEF Grpc!MethodThrows, Grpc!Downwards
  <2> QED BY <1>10, <2>1 DEF Grpc!MethodThrows
<1>11. CASE Grpc!MethodReads
  <2>1. requests' \in Grpc!Boxes /\ seen' \in Seq(Nat)
    <3>1. CASE Grpc!Message(requests) /\ seen' = Append(seen, Head(requests.queue))
               /\ requests' = [requests EXCEPT !.queue = Tail(@)]
      BY <3>1, TakeFromBox DEF Grpc!Message
    <3>2. CASE UNCHANGED <<seen, requests>>
      BY <3>2
    <3>3. CASE UNCHANGED seen /\ requests' = [requests EXCEPT !.asleep = TRUE]
      BY <3>3, BoxesAreBoxes, BoxFields
    <3> QED BY <1>11, <3>1, <3>2, <3>3 DEF Grpc!MethodReads
  <2>2. down' \in Seq(Grpc!Events)
    BY <1>11, WireTypes DEF Grpc!MethodReads, Grpc!Downwards
  <2> QED BY <1>11, <2>1, <2>2 DEF Grpc!MethodReads
<1>12. CASE Grpc!MethodYields
  <2>1. written' \in Nat
    BY <1>12 DEF Grpc!MethodYields
  <2>2. down' \in Seq(Grpc!Events)
    BY <1>12, <2>1, WireTypes DEF Grpc!MethodYields, Grpc!Downwards
  <2> QED BY <1>12, <2>1, <2>2 DEF Grpc!MethodYields
<1>13. CASE Grpc!MethodReturns
  <2>1. written' \in Nat
    BY <1>13 DEF Grpc!MethodReturns
  <2>2. down' \in Seq(Grpc!Events)
    BY <1>13, WireTypes, 1 \in Nat DEF Grpc!MethodReturns, Grpc!Downwards
  <2> QED BY <1>13, <2>1, <2>2 DEF Grpc!MethodReturns
<1>14. CASE UNCHANGED Grpc!vars
  BY <1>14 DEF Grpc!vars
<1> QED
  BY <1>1, <1>2, <1>3, <1>4, <1>5, <1>6, <1>7, <1>8, <1>9, <1>10, <1>11, <1>12, <1>13, <1>14
  DEF Grpc!Next

------------------------------------------------------------------------------
(* Handing over *)

\* A reader takes the next number.
LEMMA Moving ==
    ASSUME NEW q \in Seq(Nat), NEW s \in Seq(Nat), q # <<>>,
           Numbered(s, 0), Numbered(q, Len(s))
    PROVE  /\ Numbered(Append(s, Head(q)), 0)
           /\ Numbered(Tail(q), Len(Append(s, Head(q))))
           /\ Len(Append(s, Head(q))) + Len(Tail(q)) = Len(s) + Len(q)
<1>1. Len(s) \in Nat /\ Len(q) \in Nat
  OBVIOUS
<1>2. /\ Head(q) = Len(s) + 1 /\ Numbered(Tail(q), Len(s) + 1)
      /\ Tail(q) \in Seq(Nat) /\ Len(Tail(q)) = Len(q) - 1
  BY <1>1, TakeNumber
<1>3. Numbered(Append(s, Head(q)), 0) /\ Len(Append(s, Head(q))) = Len(s) + 1
  BY <1>1, <1>2, PutNumber
<1>4. Len(Append(s, Head(q))) + Len(Tail(q)) = Len(s) + Len(q)
  BY <1>1, <1>2, <1>3
<1> QED BY <1>2, <1>3, <1>4

\* A reader that goes to sleep changes nothing else.
LEMMA Sleeping ==
    ASSUME NEW b \in Grpc!Boxes, NEW c, c = [b EXCEPT !.asleep = TRUE]
    PROVE  c.queue = b.queue /\ c.ended = b.ended /\ c.failed = b.failed
BY DEF Grpc!Boxes

\* The number that arrives is the next one,
LEMMA Coming ==
    ASSUME NEW q \in Seq(Nat), NEW n \in Nat, Numbered(q, n)
    PROVE  /\ n + Len(q) + 1 \in Nat
           /\ Numbered(Append(q, n + Len(q) + 1), n)
           /\ n + Len(Append(q, n + Len(q) + 1)) = n + Len(q) + 1
<1>1. n + Len(q) + 1 \in Nat
  OBVIOUS
<1>2. /\ Numbered(Append(q, n + Len(q) + 1), n)
      /\ Len(Append(q, n + Len(q) + 1)) = Len(q) + 1
  BY <1>1, PutNumber
<1>3. n + (Len(q) + 1) = n + Len(q) + 1
  OBVIOUS
<1> QED BY <1>1, <1>2, <1>3, Zenon

\* and so it is received.
LEMMA Arriving ==
    ASSUME NEW b \in Grpc!Boxes, NEW s \in Seq(Nat), Numbered(b.queue, Len(s)),
           NEW c, c = Grpc!Receive(b, Grpc!Data(Len(s) + Len(b.queue) + 1))
    PROVE  /\ c.ended = b.ended /\ c.failed = b.failed
           /\ Numbered(c.queue, Len(s)) /\ Len(s) + Len(c.queue) = Len(s) + Len(b.queue) + 1
<1>1. b.queue \in Seq(Nat) /\ Len(s) \in Nat
  BY BoxFields
<1>2. /\ Len(s) + Len(b.queue) + 1 \in Nat
      /\ Numbered(Append(b.queue, Len(s) + Len(b.queue) + 1), Len(s))
      /\ Len(s) + Len(Append(b.queue, Len(s) + Len(b.queue) + 1)) = Len(s) + Len(b.queue) + 1
  BY <1>1, Coming
<1>3. /\ c.queue = Append(b.queue, Len(s) + Len(b.queue) + 1)
      /\ c.ended = b.ended /\ c.failed = b.failed
  BY <1>2, Received
<1> QED BY <1>2, <1>3, Zenon

\* What the types say, for use below.
LEMMA Counts ==
    ASSUME Grpc!TypeOK
    PROVE  /\ seen \in Seq(Nat) /\ requests \in Grpc!Boxes /\ requests.queue \in Seq(Nat)
           /\ HadUp \in Nat /\ sent \in Nat /\ up \in Seq(Grpc!Events)
           /\ got \in Seq(Nat) /\ responses \in Grpc!Boxes /\ responses.queue \in Seq(Nat)
           /\ HadDown \in Nat /\ written \in Nat /\ down \in Seq(Grpc!Events)
           /\ UpTail \in Tails /\ DownTail \in Tails
           /\ <<Grpc!End>> \in Tails /\ <<Grpc!Failure, Grpc!End>> \in Tails /\ <<>> \in Tails
<1>1. /\ seen \in Seq(Nat) /\ requests \in Grpc!Boxes /\ got \in Seq(Nat) /\ responses \in Grpc!Boxes
      /\ sent \in Nat /\ written \in Nat /\ up \in Seq(Grpc!Events) /\ down \in Seq(Grpc!Events)
  BY DEF Grpc!TypeOK
<1>2. requests.queue \in Seq(Nat) /\ responses.queue \in Seq(Nat)
  BY <1>1, BoxFields
<1>3. HadUp \in Nat /\ HadDown \in Nat
  BY <1>1, <1>2 DEF HadUp, HadDown
<1> QED BY <1>1, <1>2, <1>3 DEF UpTail, DownTail, Tails

------------------------------------------------------------------------------
(* Requests *)

\* An event that reaches the server is the next of its stream.
LEMMA EmitUpKeepsUps ==
    ASSUME StreamInv, Grpc!EmitUp
    PROVE  Ups'
<1> USE DEF StreamInv
<1>1. /\ up # <<>> /\ requests' = Grpc!Receive(requests, Head(up)) /\ up' = Tail(up)
      /\ UNCHANGED <<kind, source, sent, broken, method, seen>>
  BY DEF Grpc!EmitUp, Grpc!clientVars, Grpc!serverVars
<1>2. ~broken /\ ~requests.ended /\ ~requests.failed /\ Carries(up, UpTail, HadUp, sent)
  BY <1>1 DEF Ups
<1>3. HadUp <= sent /\ Numbered(seen, 0) /\ Numbered(requests.queue, Len(seen))
  BY DEF Ups
<1>4. Closed' = Closed /\ UpTail' = UpTail
  BY <1>1 DEF Closed, UpTail
<1>5. CASE HadUp < sent
  <2>1. Head(up) = Grpc!Data(HadUp + 1) /\ Carries(Tail(up), UpTail, HadUp + 1, sent)
    BY <1>2, <1>5, Counts, WireHead
  <2>2. requests' = Grpc!Receive(requests, Grpc!Data(Len(seen) + Len(requests.queue) + 1))
    BY <1>1, <2>1 DEF HadUp
  <2>3. /\ requests'.ended = requests.ended /\ requests'.failed = requests.failed
        /\ Numbered(requests'.queue, Len(seen))
        /\ Len(seen) + Len(requests'.queue) = Len(seen) + Len(requests.queue) + 1
    BY <1>3, <2>2, Counts, Arriving
  <2>4. HadUp' = HadUp + 1
    BY <1>1, <2>3 DEF HadUp
  <2>5. HadUp' <= sent'
    BY <1>1, <1>5, <2>4, Counts
  <2> QED BY <1>1, <1>2, <1>3, <1>4, <2>1, <2>3, <2>4, <2>5 DEF Ups
<1>6. CASE HadUp = sent
  <2>1. up = UpTail
    BY <1>2, <1>6, Counts, WireEnd
  <2>2. Closed /\ up = <<Grpc!End>>
    BY <1>1, <2>1 DEF UpTail
  <2>3. Head(up) = Grpc!End /\ Tail(up) = <<>>
    BY <2>2
  <2>4. requests'.queue = requests.queue /\ requests'.ended /\ requests'.failed = requests.failed
    BY <1>1, <2>3, Counts, Received
  <2>5. HadUp' = HadUp
    BY <1>1, <2>4 DEF HadUp
  <2> QED BY <1>1, <1>2, <1>3, <1>4, <1>6, <2>2, <2>3, <2>4, <2>5 DEF Ups
<1> QED BY <1>3, <1>5, <1>6, Counts

\* Every step keeps the order of the requests.
LEMMA UpsStep ==
    ASSUME StreamInv, [Grpc!Next]_(Grpc!vars)
    PROVE  Ups'
<1> USE DEF StreamInv
<1>1. CASE Grpc!EmitUp
  BY <1>1, EmitUpKeepsUps
<1>2. CASE Grpc!Break
  <2>1. /\ broken' /\ up' = <<>> /\ UNCHANGED <<kind, source, sent, method, seen>>
        /\ requests' = requests \/ requests' = Grpc!Receive(requests, Grpc!Failure)
    BY <1>2 DEF Grpc!Break, Grpc!clientVars, Grpc!serverVars
  <2>2. requests'.queue = requests.queue /\ requests'.ended = requests.ended
    BY <2>1, Counts, Received
  <2>3. HadUp' = HadUp /\ Closed' = Closed
    BY <2>1, <2>2 DEF HadUp, Closed
  <2> QED BY <2>1, <2>2, <2>3 DEF Ups
<1>3. CASE Grpc!Write
  <2>1. /\ source = "open" /\ sent' = sent + 1
        /\ up' = IF broken THEN up ELSE up \o <<Grpc!Data(sent + 1)>>
        /\ UNCHANGED <<kind, source, broken, requests, method, seen>>
    BY <1>3 DEF Grpc!Write, Grpc!Upwards, Grpc!clientVars, Grpc!serverVars
  <2>2. ~Closed /\ ~Closed' /\ UpTail = <<>> /\ UpTail' = <<>> /\ HadUp' = HadUp
    BY <2>1 DEF Closed, UpTail, HadUp
  <2>3. ~requests.ended /\ HadUp <= sent'
    BY <2>1, <2>2, Counts DEF Ups
  <2>4. ~broken => Carries(up', <<>>, HadUp, sent')
    BY <2>1, <2>2, <2>3, Counts, WireWrite DEF Ups
  <2> QED BY <2>1, <2>2, <2>3, <2>4 DEF Ups
<1>4. CASE Grpc!SourceEnds
  <2>1. /\ source = "open" /\ source' = "ended" /\ up' = IF broken THEN up ELSE up \o <<Grpc!End>>
        /\ UNCHANGED <<kind, sent, broken, requests, method, seen>>
    BY <1>4 DEF Grpc!SourceEnds, Grpc!Upwards, Grpc!clientVars, Grpc!serverVars
  <2>2. ~Closed /\ UpTail = <<>> /\ HadUp' = HadUp /\ ~requests.ended
    BY <2>1 DEF Closed, UpTail, HadUp, Ups
  <2>3. Closed' /\ UpTail' = <<Grpc!End>>
    BY <2>1 DEF Closed, UpTail, Ups
  <2>4. ~broken => Carries(up', <<Grpc!End>>, HadUp, sent)
    BY <2>1, <2>2, Counts, WireFinish DEF Ups
  <2> QED BY <2>1, <2>2, <2>3, <2>4 DEF Ups
<1>5. CASE Grpc!SourceFails
  <2>1. /\ source = "open" /\ source' = "failed"
        /\ up' = IF kind = "bidi" /\ ~broken THEN up \o <<Grpc!End>> ELSE up
        /\ UNCHANGED <<kind, sent, broken, requests, method, seen>>
    BY <1>5 DEF Grpc!SourceFails, Grpc!Upwards, Grpc!clientVars, Grpc!serverVars
  <2>2. ~Closed /\ UpTail = <<>> /\ HadUp' = HadUp /\ ~requests.ended
    BY <2>1 DEF Closed, UpTail, HadUp, Ups
  <2>3. Closed' = (kind = "bidi") /\ UpTail' = IF kind = "bidi" THEN <<Grpc!End>> ELSE <<>>
    BY <2>1 DEF Closed, UpTail, Ups
  <2>4. ~broken => Carries(up', UpTail', HadUp, sent)
    BY <2>1, <2>2, <2>3, Counts, WireFinish DEF Ups
  <2> QED BY <2>1, <2>2, <2>3, <2>4 DEF Ups
<1>6. CASE Grpc!MethodReads
  <2>1. UNCHANGED <<kind, source, sent, up, broken>> /\ Closed' = Closed /\ UpTail' = UpTail
    BY <1>6 DEF Grpc!MethodReads, Grpc!clientVars, Closed, UpTail
  <2>2. CASE /\ Grpc!Message(requests) /\ seen' = Append(seen, Head(requests.queue))
             /\ requests' = [requests EXCEPT !.queue = Tail(@)] /\ method' = "running"
    <3>1. /\ requests'.ended = requests.ended /\ requests'.failed = requests.failed
          /\ Numbered(seen', 0) /\ Numbered(requests'.queue, Len(seen'))
          /\ Len(seen') + Len(requests'.queue) = Len(seen) + Len(requests.queue)
      <4>1. /\ requests.queue # <<>> /\ requests.queue \in Seq(Nat) /\ seen \in Seq(Nat)
            /\ Numbered(seen, 0) /\ Numbered(requests.queue, Len(seen))
        BY <2>2, Counts DEF Ups, Grpc!Message
      <4>2. seen' = Append(seen, Head(requests.queue))
        BY <2>2
      <4>3. /\ requests'.queue = Tail(requests.queue)
            /\ requests'.ended = requests.ended /\ requests'.failed = requests.failed
        BY <2>2, Counts, QueueReplaced
      <4>4. /\ Numbered(Append(seen, Head(requests.queue)), 0)
            /\ Numbered(Tail(requests.queue), Len(Append(seen, Head(requests.queue))))
            /\ Len(Append(seen, Head(requests.queue))) + Len(Tail(requests.queue))
                  = Len(seen) + Len(requests.queue)
        BY <4>1, Moving
      <4> QED BY <4>2, <4>3, <4>4, Zenon
    <3>2. HadUp' = HadUp
      BY <3>1 DEF HadUp
    <3> QED BY <2>1, <2>2, <3>1, <3>2 DEF Ups
  <2>3. CASE Grpc!ToldEnd(requests) /\ method' = "told" /\ UNCHANGED <<seen, requests>>
    <3>1. HadUp' = HadUp /\ requests.ended /\ requests.queue = <<>>
      BY <2>3 DEF HadUp, Grpc!ToldEnd, Grpc!Nothing
    <3> QED BY <2>1, <2>3, <3>1 DEF Ups
  <2>4. CASE method' = "threw" /\ UNCHANGED <<seen, requests>>
    <3>1. HadUp' = HadUp
      BY <2>4 DEF HadUp
    <3> QED BY <2>1, <2>4, <3>1 DEF Ups
  <2>5. CASE method' = "running" /\ requests' = [requests EXCEPT !.asleep = TRUE] /\ UNCHANGED seen
    <3>1. /\ requests'.queue = requests.queue /\ requests'.ended = requests.ended
          /\ requests'.failed = requests.failed
      BY <2>5, Counts, Sleeping
    <3>2. HadUp' = HadUp
      BY <2>5, <3>1 DEF HadUp
    <3> QED BY <2>1, <2>5, <3>1, <3>2 DEF Ups
  <2> QED BY <1>6, <2>2, <2>3, <2>4, <2>5 DEF Grpc!MethodReads
<1>7. CASE Grpc!MethodThrows \/ Grpc!MethodReturns
  <2>1. /\ UNCHANGED <<kind, source, sent, up, broken, requests, seen>> /\ method' # "told"
        /\ HadUp' = HadUp /\ Closed' = Closed /\ UpTail' = UpTail
    BY <1>7 DEF Grpc!MethodThrows, Grpc!MethodReturns, Grpc!clientVars, HadUp, Closed, UpTail
  <2> QED BY <2>1 DEF Ups
<1>8. CASE UNCHANGED <<kind, source, sent, up, broken, requests, method, seen>>
  <2>1. HadUp' = HadUp /\ Closed' = Closed /\ UpTail' = UpTail
    BY <1>8 DEF HadUp, Closed, UpTail
  <2> QED BY <1>8, <2>1 DEF Ups
<1>9. \/ Grpc!EmitUp \/ Grpc!Break \/ Grpc!Write \/ Grpc!SourceEnds \/ Grpc!SourceFails \/ Grpc!MethodReads
      \/ Grpc!MethodThrows \/ Grpc!MethodReturns
      \/ UNCHANGED <<kind, source, sent, up, broken, requests, method, seen>>
  BY DEF Grpc!Next, Grpc!vars, Grpc!EmitDown, Grpc!ConsumerReads, Grpc!ConsumerAwaits,
     Grpc!ConsumerLeaves, Grpc!MethodYields,
         Grpc!clientVars, Grpc!serverVars
<1> QED BY <1>1, <1>2, <1>3, <1>4, <1>5, <1>6, <1>7, <1>8, <1>9

------------------------------------------------------------------------------
(* Responses *)

\* An event that reaches the client is the next of its stream.
LEMMA EmitDownKeepsDowns ==
    ASSUME StreamInv, Grpc!EmitDown
    PROVE  Downs'
<1> USE DEF StreamInv
<1>1. /\ down # <<>> /\ responses' = Grpc!Receive(responses, Head(down)) /\ down' = Tail(down)
      /\ UNCHANGED <<kind, consumer, written, broken, method, got>>
  BY DEF Grpc!EmitDown, Grpc!clientVars, Grpc!serverVars
<1>2. ~responses.ended /\ ~(consumer \in {"awaiting", "done"})
  BY <1>1 DEF Downs
<1>3. HadDown <= written /\ Numbered(got, 0) /\ Numbered(responses.queue, Len(got))
      /\ (kind = "client" /\ method # "returned" => written = 0)
  BY DEF Downs
<1>4. CASE responses.failed
  <2>0. down = <<Grpc!End>>
    BY <1>2, <1>4 DEF Downs
  <2>1. Head(down) = Grpc!End /\ Tail(down) = <<>>
    BY <2>0
  <2>2. responses'.queue = responses.queue /\ responses'.ended /\ responses'.failed
    BY <1>1, <1>4, <2>1, Counts, Received
  <2>3. HadDown' = HadDown
    BY <1>1, <2>2 DEF HadDown
  <2> QED BY <1>1, <1>2, <1>3, <1>4, <2>1, <2>2, <2>3 DEF Downs
<1>5. ASSUME down = <<Grpc!Failure, Grpc!End>>, broken \/ method = "threw"
      PROVE  Downs'
  <2>1. Head(down) = Grpc!Failure /\ Tail(down) = <<Grpc!End>>
    BY <1>5
  <2>2. responses'.queue = responses.queue /\ ~responses'.ended /\ responses'.failed
    BY <1>1, <1>2, <2>1, Counts, Received
  <2>3. HadDown' = HadDown
    BY <1>1, <2>2 DEF HadDown
  <2> QED BY <1>1, <1>2, <1>3, <1>5, <2>1, <2>2, <2>3 DEF Downs
<1>6. CASE ~responses.failed /\ broken
  BY <1>2, <1>5, <1>6 DEF Downs
<1>7. CASE ~responses.failed /\ ~broken
  <2>1. Carries(down, DownTail, HadDown, written)
    BY <1>2, <1>7 DEF Downs
  <2>2. DownTail' = DownTail
    BY <1>1 DEF DownTail
  <2>3. CASE HadDown < written
    <3>1. Head(down) = Grpc!Data(HadDown + 1) /\ Carries(Tail(down), DownTail, HadDown + 1, written)
      BY <2>1, <2>3, Counts, WireHead
    <3>2. responses' = Grpc!Receive(responses, Grpc!Data(Len(got) + Len(responses.queue) + 1))
      BY <1>1, <3>1 DEF HadDown
    <3>3. /\ responses'.ended = responses.ended /\ responses'.failed = responses.failed
          /\ Numbered(responses'.queue, Len(got))
          /\ Len(got) + Len(responses'.queue) = Len(got) + Len(responses.queue) + 1
      BY <1>3, <3>2, Counts, Arriving
    <3>4. HadDown' = HadDown + 1
      BY <1>1, <3>3 DEF HadDown
    <3>5. HadDown' <= written'
      BY <1>1, <2>3, <3>4, Counts
    <3> QED BY <1>1, <1>2, <1>3, <1>7, <2>2, <3>1, <3>3, <3>4, <3>5 DEF Downs
  <2>4. CASE HadDown = written
    <3>1. down = DownTail
      BY <2>1, <2>4, Counts, WireEnd
    <3>2. CASE method = "threw"
      BY <1>5, <3>1, <3>2 DEF DownTail
    <3>3. CASE method # "threw"
      <4>1. method = "returned" /\ down = <<Grpc!End>>
        BY <1>1, <3>1, <3>3, Counts DEF DownTail, Grpc!TypeOK
      <4>2. Head(down) = Grpc!End /\ Tail(down) = <<>>
        BY <4>1
      <4>3. /\ responses'.queue = responses.queue /\ responses'.ended
            /\ responses'.failed = responses.failed
        BY <1>1, <4>2, Counts, Received
      <4>4. HadDown' = HadDown
        BY <1>1, <4>3 DEF HadDown
      <4> QED BY <1>1, <1>2, <1>3, <1>7, <2>4, <4>1, <4>2, <4>3, <4>4 DEF Downs
    <3> QED BY <3>2, <3>3
  <2> QED BY <1>3, <2>3, <2>4, Counts
<1>8. responses.failed \in BOOLEAN /\ broken \in BOOLEAN
  BY Counts, BoxFields DEF Grpc!TypeOK
<1> QED BY <1>4, <1>6, <1>7, <1>8

\* Every step keeps the order of the responses.
LEMMA DownsStep ==
    ASSUME StreamInv, [Grpc!Next]_(Grpc!vars)
    PROVE  Downs'
<1> USE DEF StreamInv
<1>1. CASE Grpc!EmitDown
  BY <1>1, EmitDownKeepsDowns
<1>2. CASE Grpc!Break
  <2>1. /\ ~responses.ended /\ ~responses.failed /\ broken' /\ down' = <<Grpc!Failure, Grpc!End>>
        /\ UNCHANGED <<kind, responses, method, written, consumer, got>>
    BY <1>2 DEF Grpc!Break, Grpc!clientVars, Grpc!serverVars
  <2>2. HadDown' = HadDown
    BY <2>1 DEF HadDown
  <2> QED BY <2>1, <2>2 DEF Downs
<1>3. CASE Grpc!ConsumerReads
  <2>1. /\ consumer = "reading" /\ UNCHANGED <<kind, down, broken, method, written>>
        /\ DownTail' = DownTail
    BY <1>3 DEF Grpc!ConsumerReads, Grpc!serverVars, DownTail
  <2>2. CASE /\ Grpc!Message(responses) /\ got' = Append(got, Head(responses.queue))
             /\ responses' = [responses EXCEPT !.queue = Tail(@)] /\ consumer' = consumer
    <3>1. /\ responses'.ended = responses.ended /\ responses'.failed = responses.failed
          /\ Numbered(got', 0) /\ Numbered(responses'.queue, Len(got'))
          /\ Len(got') + Len(responses'.queue) = Len(got) + Len(responses.queue)
      <4>1. /\ responses.queue # <<>> /\ responses.queue \in Seq(Nat) /\ got \in Seq(Nat)
            /\ Numbered(got, 0) /\ Numbered(responses.queue, Len(got))
        BY <2>2, Counts DEF Downs, Grpc!Message
      <4>2. got' = Append(got, Head(responses.queue))
        BY <2>2
      <4>3. /\ responses'.queue = Tail(responses.queue)
            /\ responses'.ended = responses.ended /\ responses'.failed = responses.failed
        BY <2>2, Counts, QueueReplaced
      <4>4. /\ Numbered(Append(got, Head(responses.queue)), 0)
            /\ Numbered(Tail(responses.queue), Len(Append(got, Head(responses.queue))))
            /\ Len(Append(got, Head(responses.queue))) + Len(Tail(responses.queue))
                  = Len(got) + Len(responses.queue)
        BY <4>1, Moving
      <4> QED BY <4>2, <4>3, <4>4, Zenon
    <3>2. HadDown' = HadDown
      BY <3>1 DEF HadDown
    <3>3. ~(consumer' \in {"awaiting", "done"})
      BY <2>1, <2>2
    <3> QED BY <2>1, <3>1, <3>2, <3>3 DEF Downs
  <2>3. CASE /\ Grpc!ToldEnd(responses) /\ UNCHANGED <<got, responses>>
             /\ consumer' = IF kind = "bidi" THEN "awaiting" ELSE "done"
    <3>1. /\ HadDown' = HadDown /\ responses.ended /\ responses.queue = <<>>
          /\ kind = "bidi" \/ ~responses.failed
      BY <2>3 DEF HadDown, Grpc!ToldEnd, Grpc!Nothing
    <3> QED BY <2>1, <2>3, <3>1 DEF Downs
  <2>4. CASE consumer' = "failed" /\ UNCHANGED <<got, responses>>
    <3>1. HadDown' = HadDown
      BY <2>4 DEF HadDown
    <3> QED BY <2>1, <2>4, <3>1 DEF Downs
  <2>5. CASE responses' = [responses EXCEPT !.asleep = TRUE] /\ UNCHANGED <<got, consumer>>
    <3>1. /\ responses'.queue = responses.queue /\ responses'.ended = responses.ended
          /\ responses'.failed = responses.failed
      BY <2>5, Counts, Sleeping
    <3>2. HadDown' = HadDown
      BY <2>5, <3>1 DEF HadDown
    <3> QED BY <2>1, <2>5, <3>1, <3>2 DEF Downs
  <2> QED BY <1>3, <2>2, <2>3, <2>4, <2>5 DEF Grpc!ConsumerReads
<1>4. CASE Grpc!ConsumerAwaits \/ Grpc!ConsumerLeaves \/ Grpc!SourceFails
  <2>1. /\ UNCHANGED <<kind, down, broken, responses, method, written, got>>
        /\ consumer' = consumer \/ consumer' \in {"done", "failed", "left"}
        /\ consumer' = "done" => consumer \in {"awaiting", "done"}
        /\ consumer' = "awaiting" => consumer = "awaiting"
        /\ HadDown' = HadDown /\ DownTail' = DownTail
    BY <1>4 DEF Grpc!ConsumerAwaits, Grpc!ConsumerLeaves, Grpc!SourceFails, Grpc!serverVars,
       HadDown, DownTail
  <2>2. consumer' \in {"awaiting", "done"} => consumer \in {"awaiting", "done"}
    BY <2>1
  <2> QED BY <2>1, <2>2 DEF Downs
<1>5. ASSUME method \in {"running", "told"}, method' = "threw",
   Grpc!Downwards(<<Grpc!Failure, Grpc!End>>),
             UNCHANGED <<kind, broken, responses, written, consumer, got>>
      PROVE  Downs'
  <2>1. HadDown' = HadDown /\ DownTail = <<>> /\ DownTail' = <<Grpc!Failure, Grpc!End>>
    BY <1>5 DEF HadDown, DownTail
  <2>2. broken => down' = down
    BY <1>5 DEF Grpc!Downwards
  <2>3. ~broken => ~responses.ended /\ ~responses.failed
    BY <1>5 DEF Downs
  <2>4. ~broken => Carries(down', <<Grpc!Failure, Grpc!End>>, HadDown, written)
    BY <1>5, <2>1, <2>3, Counts, WireFinish DEF Downs, Grpc!Downwards
  <2>5. responses.ended => responses.failed
    BY <1>5 DEF Downs
  <2> QED BY <1>5, <2>1, <2>2, <2>3, <2>4, <2>5 DEF Downs
<1>6. CASE Grpc!MethodThrows
  BY <1>5, <1>6 DEF Grpc!MethodThrows, Grpc!clientVars
<1>7. CASE Grpc!MethodReads
  <2>1. \/ method' \in {"running", "told"} /\ method = "running" /\ down' = down
        \/ method' = "threw" /\ Grpc!Downwards(<<Grpc!Failure, Grpc!End>>)
    BY <1>7 DEF Grpc!MethodReads
  <2>2. method = "running" /\ UNCHANGED <<kind, broken, responses, written, consumer, got>>
    BY <1>7 DEF Grpc!MethodReads, Grpc!clientVars
  <2>3. CASE method' = "threw" /\ Grpc!Downwards(<<Grpc!Failure, Grpc!End>>)
    BY <1>5, <2>2, <2>3
  <2>4. CASE method' \in {"running", "told"} /\ down' = down
    <3>1. HadDown' = HadDown /\ DownTail' = DownTail
      BY <2>2, <2>4 DEF HadDown, DownTail
    <3> QED BY <2>2, <2>4, <3>1 DEF Downs
  <2> QED BY <2>1, <2>3, <2>4
<1>8. CASE Grpc!MethodYields
  <2>1. /\ method \in {"running", "told"} /\ kind # "client" /\ written' = written + 1
        /\ down' = IF broken THEN down ELSE down \o <<Grpc!Data(written + 1)>>
        /\ UNCHANGED <<kind, method, broken, responses, consumer, got>>
    BY <1>8 DEF Grpc!MethodYields, Grpc!Downwards, Grpc!clientVars
  <2>2. HadDown' = HadDown /\ DownTail = <<>> /\ DownTail' = <<>>
    BY <2>1 DEF HadDown, DownTail
  <2>3. /\ ~broken => ~responses.ended /\ ~responses.failed
        /\ responses.ended => responses.failed
    BY <2>1 DEF Downs
  <2>4. HadDown <= written'
    BY <2>1, Counts DEF Downs
  <2>5. ~broken => Carries(down', <<>>, HadDown, written')
    BY <2>1, <2>2, <2>3, Counts, WireWrite DEF Downs
  <2> QED BY <2>1, <2>2, <2>3, <2>4, <2>5 DEF Downs
<1>9. CASE Grpc!MethodReturns
  <2>1. /\ method \in {"running", "told"} /\ method' = "returned"
        /\ written' = IF kind = "client" THEN 1 ELSE written
        /\ down' = IF broken THEN down
                   ELSE down \o (IF kind = "client" THEN <<Grpc!Data(1), Grpc!End>> ELSE <<Grpc!End>>)
        /\ UNCHANGED <<kind, broken, responses, consumer, got>>
    BY <1>9 DEF Grpc!MethodReturns, Grpc!Downwards, Grpc!clientVars
  <2>2. HadDown' = HadDown /\ DownTail = <<>> /\ DownTail' = <<Grpc!End>>
    BY <2>1 DEF HadDown, DownTail
  <2>3. /\ ~broken => ~responses.ended /\ ~responses.failed
        /\ responses.ended => responses.failed
        /\ kind = "client" => written = 0
    BY <2>1 DEF Downs
  <2>4. HadDown <= written'
    BY <2>1, <2>3, Counts DEF Downs
  <2>5. ~broken => Carries(down, <<>>, HadDown, written)
    BY <2>2, <2>3 DEF Downs
  <2>6. ~broken => Carries(down', <<Grpc!End>>, HadDown, written')
    <3>1. CASE kind # "client" /\ ~broken
      BY <2>1, <2>5, <3>1, Counts, WireFinish
    <3>2. CASE kind = "client" /\ ~broken
      <4>1. Carries(down \o <<Grpc!Data(1)>>, <<>>, HadDown, 1)
        <5>1. Carries(down \o <<Grpc!Data(written + 1)>>, <<>>, HadDown, written + 1)
          BY <2>5, <3>2, Counts, WireWrite
        <5>2. written + 1 = 1
          BY <2>3, <3>2
        <5> QED BY <5>1, <5>2
      <4>2. down \o <<Grpc!Data(1)>> \in Seq(Grpc!Events)
        BY Counts, WireTypes, 1 \in Nat
      <4>3. Carries((down \o <<Grpc!Data(1)>>) \o <<Grpc!End>>, <<Grpc!End>>, HadDown, 1)
        BY <4>1, <4>2, Counts, WireFinish, 1 \in Nat
      <4>4. (down \o <<Grpc!Data(1)>>) \o <<Grpc!End>> = down \o <<Grpc!Data(1), Grpc!End>>
        <5>1. Grpc!Data(1) \in Grpc!Events /\ Grpc!End \in Grpc!Events
          BY EventsAreEvents, 1 \in Nat
        <5> QED BY <5>1, Counts, OneByOne
      <4>5. written' = 1 /\ down' = down \o <<Grpc!Data(1), Grpc!End>>
        BY <2>1, <3>2
      <4> QED BY <4>3, <4>4, <4>5, Zenon
    <3> QED BY <3>1, <3>2
  <2> QED BY <2>1, <2>2, <2>3, <2>4, <2>6 DEF Downs
<1>10. CASE UNCHANGED <<kind, down, broken, responses, method, written, consumer, got>>
  <2>1. HadDown' = HadDown /\ DownTail' = DownTail
    BY <1>10 DEF HadDown, DownTail
  <2> QED BY <1>10, <2>1 DEF Downs
<1>11. \/ Grpc!EmitDown \/ Grpc!Break \/ Grpc!ConsumerReads \/ Grpc!ConsumerAwaits \/ Grpc!ConsumerLeaves \/ Grpc!SourceFails
       \/ Grpc!MethodThrows \/ Grpc!MethodReads \/ Grpc!MethodYields \/ Grpc!MethodReturns
       \/ UNCHANGED <<kind, down, broken, responses, method, written, consumer, got>>
  BY DEF Grpc!Next, Grpc!vars, Grpc!EmitUp, Grpc!Write, Grpc!SourceEnds, Grpc!clientVars,
     Grpc!serverVars
<1> QED BY <1>1, <1>2, <1>3, <1>4, <1>6, <1>7, <1>8, <1>9, <1>10, <1>11

------------------------------------------------------------------------------
(* The theorems *)

\* Nothing was written, sent or received.
LEMMA Initially == Grpc!Init => StreamInv
<1> SUFFICES ASSUME Grpc!Init PROVE StreamInv
  OBVIOUS
<1>1. Grpc!TypeOK
  <2>1. Grpc!Empty \in Grpc!Boxes
    BY DEF Grpc!Empty, Grpc!Boxes
  <2>2. <<>> \in Seq(Grpc!Events) /\ <<>> \in Seq(Nat)
    OBVIOUS
  <2> QED BY <2>1, <2>2 DEF Grpc!Init, Grpc!TypeOK
<1>2. /\ HadUp = 0 /\ HadDown = 0 /\ sent = 0 /\ written = 0
      /\ Numbered(seen, 0) /\ Numbered(requests.queue, Len(seen))
      /\ Numbered(got, 0) /\ Numbered(responses.queue, Len(got))
      /\ ~requests.ended /\ ~requests.failed /\ ~responses.ended /\ ~responses.failed
  BY DEF Grpc!Init, Grpc!Empty, HadUp, HadDown, Numbered
<1>3. up = <<>> /\ down = <<>> /\ UpTail = <<>> /\ DownTail = <<>> /\ ~broken
  BY DEF Grpc!Init, UpTail, DownTail, Closed
<1>4. Carries(<<>>, <<>>, 0, 0)
  BY DEF Carries
<1>5. Ups
  BY <1>2, <1>3, <1>4 DEF Ups, Grpc!Init
<1>6. Downs
  BY <1>2, <1>3, <1>4 DEF Downs, Grpc!Init
<1> QED BY <1>1, <1>5, <1>6 DEF StreamInv

\* The messages of either direction are where the invariant says.
THEOREM StreamInvariance == Grpc!Spec => []StreamInv
<1>1. StreamInv /\ [Grpc!Next]_(Grpc!vars) => StreamInv'
  BY TypeStep, UpsStep, DownsStep DEF StreamInv
<1> QED BY Initially, <1>1, PTL DEF Grpc!Spec

\* A numbered sequence is the beginning of the numbers.
LEMMA FromTheFirst ==
    ASSUME NEW s \in Seq(Nat), Numbered(s, 0)
    PROVE  s = Grpc!FirstOf(Len(s))
<1>1. \A i \in 1..Len(s) : s[i] = i
  BY DEF Numbered
<1> QED BY <1>1 DEF Grpc!FirstOf

\* What the handlers and client methods of a streaming call (service.ts) hand over is
\* what was written, in order and nothing twice, and who is told of a normal end has
\* had all of it, however many messages there are and whenever a connection breaks.
THEOREM MessagesFaithful == Grpc!Spec => []Faithful
<1>1. ASSUME StreamInv PROVE Faithful
  <2>1. seen = Grpc!FirstOf(Len(seen)) /\ got = Grpc!FirstOf(Len(got))
    BY <1>1, Counts, FromTheFirst DEF StreamInv, Ups, Downs
  <2>2. Len(seen) <= sent /\ Len(got) <= written
    <3>1. Len(seen) <= HadUp /\ Len(got) <= HadDown
      BY <1>1, Counts DEF StreamInv, HadUp, HadDown
    <3>2. Len(seen) \in Nat /\ Len(got) \in Nat
      BY <1>1, Counts DEF StreamInv
    <3> QED BY <1>1, <3>1, <3>2, Counts DEF StreamInv, Ups, Downs
  <2>3. method = "told" /\ kind # "server" => source # "open" /\ Len(seen) = sent
    <3> SUFFICES ASSUME method = "told" /\ kind # "server"
                 PROVE  source # "open" /\ Len(seen) = sent
      OBVIOUS
    <3>1. requests.ended /\ requests.queue = <<>>
      BY <1>1 DEF StreamInv, Ups
    <3>2. Closed /\ HadUp = sent
      BY <1>1, <3>1 DEF StreamInv, Ups
    <3>3. HadUp = Len(seen)
      BY <1>1, <3>1, Counts DEF HadUp, StreamInv
    <3> QED BY <3>2, <3>3 DEF Closed
  <2>4. consumer \in {"awaiting", "done"} =>
            \/ method = "returned" /\ Len(got) = written
            \/ kind = "bidi" /\ (broken \/ method = "threw")
    <3> SUFFICES ASSUME consumer \in {"awaiting", "done"}
                 PROVE  \/ method = "returned" /\ Len(got) = written
                        \/ kind = "bidi" /\ (broken \/ method = "threw")
      OBVIOUS
    <3>1. /\ responses.ended /\ responses.queue = <<>> /\ (kind = "bidi" \/ ~responses.failed)
          /\ responses.failed => broken \/ method = "threw"
      BY <1>1 DEF StreamInv, Downs
    <3>2. HadDown = Len(got)
      BY <1>1, <3>1, Counts DEF HadDown, StreamInv
    <3>3. ~responses.failed => method = "returned" /\ HadDown = written
      BY <1>1, <3>1 DEF StreamInv, Downs
    <3> QED BY <3>1, <3>2, <3>3
  <2> QED BY <2>1, <2>2, <2>3, <2>4 DEF Faithful, Grpc!Faithful
<1> QED BY <1>1, StreamInvariance, PTL DEF StreamInv
------------------------------------------------------------------------------
(* The search of a cron expression *)

\* A set of natural numbers that is not empty has a least element.
LEMMA LeastNat ==
    ASSUME NEW S \in SUBSET Nat, S # {}
    PROVE  \E n \in S : \A m \in S : n <= m
<1> DEFINE R == OpToRel(<, Nat)
<1>1. IsWellFoundedOn(R, Nat)
  BY NatLessThanWellFounded, Zenon
<1>2. \A x, y \in Nat : x < y => <<x, y>> \in R
  BY DEF OpToRel
<1> HIDE DEF R
<1>3. PICK n \in S : \A m \in S : ~(<<m, n>> \in R)
  BY <1>1, WFMin
<1>4. ASSUME NEW m \in S PROVE n <= m
  <2>1. m \in Nat /\ n \in Nat /\ ~(<<m, n>> \in R)
    BY <1>3
  <2>2. ~(m < n)
    BY <2>1, <1>2
  <2> QED BY <2>1, <2>2
<1> QED BY <1>4

\* What Min() chooses is the least.
LEMMA MinIsLeast ==
    ASSUME NEW S \in SUBSET Nat, S # {}
    PROVE  Cron!Min(S) \in S /\ \A m \in S : Cron!Min(S) <= m
  BY LeastNat DEF Cron!Min

Months == Len(FirstDay)

\* The calendar, as its assumption has it.
LEMMA Calendar ==
    /\ Months \in Nat /\ Months > 1 /\ Week \in Nat \ {0}
    /\ Hours \in Nat \ {0} /\ Minutes \in Nat \ {0} /\ Span \in Nat
    /\ \A m \in 1..Months : FirstDay[m] \in Nat
    /\ \A m, n \in 1..Months : m < n => FirstDay[m] < FirstDay[n]
<1>1. FirstDay \in Seq(Nat) /\ Len(FirstDay) > 1
  BY CalendarAssumption DEF Cron!CalendarAssumption
<1>2. Len(FirstDay) \in Nat /\ \A m \in 1..Len(FirstDay) : FirstDay[m] \in Nat
  BY <1>1
<1> QED BY <1>1, <1>2, CalendarAssumption DEF Cron!CalendarAssumption, Months

Covered(d) == d \in Nat /\ FirstDay[1] <= d /\ d < FirstDay[Months]

\* A day is in one month only.
LEMMA MonthIs ==
    ASSUME NEW m \in 1..(Months - 1), NEW d \in Nat, FirstDay[m] <= d, d < FirstDay[m + 1]
    PROVE  Cron!Month(d) = m
<1>1. ASSUME NEW n \in 1..(Months - 1), FirstDay[n] <= d, d < FirstDay[n + 1] PROVE n = m
  <2>1. /\ m \in 1..Months /\ m + 1 \in 1..Months /\ n \in 1..Months /\ n + 1 \in 1..Months
    BY Calendar
  <2>2. /\ FirstDay[m] \in Nat /\ FirstDay[m + 1] \in Nat
        /\ FirstDay[n] \in Nat /\ FirstDay[n + 1] \in Nat
    BY <2>1, Calendar
  <2>3. CASE n < m
    <3>1. n + 1 = m \/ n + 1 < m
      BY <2>3, <2>1
    <3>2. FirstDay[n + 1] <= FirstDay[m]
      BY <3>1, <2>1, <2>2, Calendar
    <3> QED BY <3>2, <2>2, <1>1
  <2>4. CASE m < n
    <3>1. m + 1 = n \/ m + 1 < n
      BY <2>4, <2>1
    <3>2. FirstDay[m + 1] <= FirstDay[n]
      BY <3>1, <2>1, <2>2, Calendar
    <3> QED BY <3>2, <2>2, <1>1
  <2> QED BY <2>3, <2>4, <2>1
<1> QED BY <1>1 DEF Cron!Month, Months

\* A day of the calendar is in a month.
LEMMA InMonth ==
    ASSUME NEW d, Covered(d)
    PROVE  /\ Cron!Month(d) \in 1..(Months - 1)
           /\ FirstDay[Cron!Month(d)] <= d /\ d < FirstDay[Cron!Month(d) + 1]
<1> DEFINE S == {m \in 1..Months : d < FirstDay[m]}
<1>1. S \in SUBSET Nat /\ Months \in S
  BY Calendar DEF Covered
<1>2. PICK n \in S : \A m \in S : n <= m
  BY <1>1, LeastNat
<1>3. n \in 1..Months /\ d < FirstDay[n] /\ n # 1
  BY <1>2, Calendar DEF Covered
<1>4. n - 1 \in 1..(Months - 1) /\ n - 1 \in 1..Months /\ (n - 1) + 1 = n /\ ~(n <= n - 1)
  BY <1>3, Calendar
<1>5. n - 1 \notin S
  BY <1>2, <1>4
<1>6. FirstDay[n - 1] <= d /\ d < FirstDay[(n - 1) + 1]
  BY <1>3, <1>4, <1>5, Calendar DEF Covered
<1>7. Cron!Month(d) = n - 1
  BY <1>4, <1>6, MonthIs DEF Covered
<1> QED BY <1>4, <1>6, <1>7

Times == [day : Nat, hour : 0..(Hours - 1), minute : 0..(Minutes - 1)]

\* The search does not go back, and what it has passed is not in all five fields.
SearchInv ==
    /\ expr \in Exprs /\ start \in Starts /\ cur \in Times
    /\ ~Cron!Earlier(cur, start)
    /\ Cron!DaysExist(expr) =>
           \A t \in Times : ~Cron!Earlier(t, start) /\ Cron!Earlier(t, cur) =>
               ~Cron!InFields(expr, t)
    /\ outcome = "found" => Cron!InSpan(cur) /\ Cron!Matches(expr, cur)

\* A step to t that leaves out nothing.
Clear(t) ==
    /\ t \in Times /\ Cron!Earlier(cur, t)
    /\ Cron!DaysExist(expr) =>
           \A u \in Times : ~Cron!Earlier(u, cur) /\ Cron!Earlier(u, t) =>
               ~Cron!InFields(expr, u)

\* While the search goes on, a month and more of the calendar lies ahead.
LEMMA AheadCovered ==
    ASSUME SearchInv, Cron!InSpan(cur)
    PROVE  /\ Covered(cur.day)
           /\ Cron!Month(cur.day) + 1 \in 1..(Months - 1)
<1>1. /\ cur.day \in Nat /\ start.day \in Nat /\ cur.hour \in Nat /\ start.hour \in Nat
      /\ cur.minute \in Nat /\ start.minute \in Nat
      /\ start \in [day : Nat, hour : 0..(Hours - 1), minute : 0..(Minutes - 1)]
  BY CalendarAssumption, Calendar DEF SearchInv, Times, Cron!CalendarAssumption
<1>2. start.day <= cur.day
  BY <1>1 DEF SearchInv, Cron!Earlier
<1> DEFINE end == [start EXCEPT !.day = @ + Span]
<1>3. end.day = start.day + Span
  BY <1>1
<1>4. cur.day <= start.day + Span
  <2>1. Cron!Earlier(cur, end)
    BY DEF Cron!InSpan
  <2> QED BY <2>1, <1>3, <1>1, Calendar DEF Cron!Earlier
<1>5. FirstDay[1] <= start.day /\ start.day + Span < FirstDay[Months - 1]
  BY CalendarAssumption DEF SearchInv, Cron!SpanAssumption, Months
<1>6. Months - 1 \in 1..Months /\ Months \in 1..Months /\ 1 \in 1..Months /\ Months - 1 < Months
  BY Calendar
<1>7. FirstDay[Months - 1] < FirstDay[Months] /\ FirstDay[Months - 1] \in Nat
      /\ FirstDay[Months] \in Nat /\ FirstDay[1] \in Nat
  BY <1>6, Calendar
<1>8. Covered(cur.day) /\ cur.day < FirstDay[Months - 1]
  BY <1>1, <1>2, <1>4, <1>5, <1>7, Calendar DEF Covered
<1>9. PICK m \in 1..(Months - 1) : m = Cron!Month(cur.day) /\ FirstDay[m] <= cur.day
  BY <1>8, InMonth
<1>10. m \in 1..Months /\ FirstDay[m] \in Nat /\ FirstDay[m] < FirstDay[Months - 1]
  BY <1>8, <1>9, <1>7, <1>1, Calendar
<1>11. m < Months - 1
  <2>1. SUFFICES ASSUME m = Months - 1 PROVE FALSE
    BY Calendar
  <2> QED BY <2>1, <1>10
<1> QED BY <1>8, <1>9, <1>11, Calendar

\* The order of instants.
LEMMA Order ==
    ASSUME NEW t \in Times, NEW u \in Times
    PROVE  /\ t.day \in Nat /\ t.hour \in 0..(Hours - 1) /\ t.minute \in 0..(Minutes - 1)
           /\ t.hour \in Nat /\ t.minute \in Nat /\ t.hour < Hours /\ t.minute < Minutes
           /\ Cron!Earlier(t, u) => t.day <= u.day /\ ~Cron!Earlier(u, t)
           /\ ~Cron!Earlier(t, u) => u.day <= t.day
  BY Calendar DEF Times, Cron!Earlier

\* An instant before one that is before a third is before the third.
LEMMA Transitive ==
    ASSUME NEW t \in Times, NEW u \in Times, NEW v \in Times,
           Cron!Earlier(u, v), ~Cron!Earlier(u, t)
    PROVE  Cron!Earlier(t, v)
<1>1. /\ t.day \in Nat /\ t.hour \in Nat /\ t.minute \in Nat
      /\ u.day \in Nat /\ u.hour \in Nat /\ u.minute \in Nat
      /\ v.day \in Nat /\ v.hour \in Nat /\ v.minute \in Nat
  BY Order
<1> QED BY <1>1 DEF Cron!Earlier

\* Midnight of a day is an instant, and earlier than it is the day before it.
LEMMA MidnightIs ==
    ASSUME NEW d \in Nat
    PROVE  /\ Cron!Midnight(d) \in Times
           /\ \A t \in Times : Cron!Earlier(t, Cron!Midnight(d)) <=> t.day < d
<1>1. Cron!Midnight(d) \in Times /\ Cron!Midnight(d).day = d /\ Cron!Midnight(d).hour = 0
      /\ Cron!Midnight(d).minute = 0
  BY Calendar DEF Cron!Midnight, Times
<1>2. ASSUME NEW t \in Times PROVE Cron!Earlier(t, Cron!Midnight(d)) <=> t.day < d
  <2>1. t.day \in Nat /\ t.hour \in Nat /\ t.minute \in Nat
    BY Order
  <2> QED BY <1>1, <2>1 DEF Cron!Earlier
<1> QED BY <1>1, <1>2

\* Of a month that is not asked for no instant is in the fields.
LEMMA MonthClear ==
    ASSUME SearchInv, Cron!Goes, ~Cron!InMonth
    PROVE  Clear(Cron!Midnight(FirstDay[Cron!Month(cur.day) + 1]))
<1>1. cur \in Times /\ cur.day \in Nat /\ Covered(cur.day)
  BY AheadCovered, Order DEF SearchInv, Cron!Goes
<1>2. PICK m \in 1..(Months - 1) :
          /\ m = Cron!Month(cur.day)
          /\ FirstDay[m] <= cur.day /\ cur.day < FirstDay[m + 1]
  BY <1>1, InMonth
<1>3. FirstDay[m] \in Nat /\ FirstDay[m + 1] \in Nat
  BY Calendar
<1> DEFINE to == Cron!Midnight(FirstDay[m + 1])
<1>4. to \in Times /\ Cron!Earlier(cur, to)
  BY <1>1, <1>2, <1>3, MidnightIs
<1>5. ASSUME NEW u \in Times, ~Cron!Earlier(u, cur), Cron!Earlier(u, to)
      PROVE  ~Cron!InFields(expr, u)
  <2>1. u.day \in Nat /\ cur.day <= u.day /\ u.day < FirstDay[m + 1]
    BY <1>1, <1>3, <1>5, MidnightIs, Order
  <2>2. Cron!Month(u.day) = m
    BY <1>1, <1>2, <1>3, <2>1, MonthIs
  <2>3. Cron!MonthOfYear(u.day) = Cron!MonthOfYear(cur.day)
    BY <1>2, <2>2 DEF Cron!MonthOfYear
  <2> QED BY <2>3 DEF Cron!InFields, Cron!InMonth
<1> QED BY <1>2, <1>4, <1>5 DEF Clear

\* A day that every month has.
LEMMA DayExists ==
    ASSUME SearchInv, Cron!DaysExist(expr), ~Cron!InDay, Covered(cur.day),
           NEW d \in expr.dom, NEW n \in 1..(Months - 1)
    PROVE  d <= FirstDay[n + 1] - FirstDay[n]
<1>1. PICK m \in 1..(Months - 1) :
          /\ m = Cron!Month(cur.day)
          /\ FirstDay[m] <= cur.day /\ cur.day < FirstDay[m + 1]
  BY InMonth
<1>2. FirstDay[m] \in Nat /\ FirstDay[m + 1] \in Nat /\ cur.day \in Nat
  BY Calendar DEF Covered
<1>3. Cron!DateOf(cur.day) = cur.day - FirstDay[m] + 1
  BY <1>1 DEF Cron!DateOf
<1>4. FirstDay[m + 1] - FirstDay[m] \in Cron!Lengths
      /\ FirstDay[n + 1] - FirstDay[n] \in Cron!Lengths
  BY DEF Cron!Lengths, Months
<1>5. ~Cron!AnyDate(expr)
  <2>1. Cron!DateOf(cur.day) \in 1..(FirstDay[m + 1] - FirstDay[m])
    BY <1>1, <1>2, <1>3
  <2> QED BY <2>1, <1>4 DEF Cron!AnyDate, Cron!InDay
<1> QED BY <1>4, <1>5 DEF Cron!DaysExist

\* Before the next of the allowed days, in this month or the next one, there is no
\* day that is allowed.
LEMMA DayClear ==
    ASSUME SearchInv, Cron!Goes, Cron!DayJump
    PROVE  Clear(cur')
<1>1. /\ cur \in Times /\ cur.day \in Nat /\ Covered(cur.day)
      /\ Cron!Month(cur.day) + 1 \in 1..(Months - 1)
  BY AheadCovered, Order DEF SearchInv, Cron!Goes
<1>2. PICK m \in 1..(Months - 1) :
          /\ m = Cron!Month(cur.day)
          /\ FirstDay[m] <= cur.day /\ cur.day < FirstDay[m + 1]
  BY <1>1, InMonth
<1>3. /\ m + 1 \in 1..(Months - 1) /\ m + 2 \in 1..Months /\ (m + 1) + 1 = m + 2
      /\ FirstDay[m] \in Nat /\ FirstDay[m + 1] \in Nat /\ FirstDay[m + 2] \in Nat
  BY <1>1, <1>2, Calendar
<1>4. Cron!DateOf(cur.day) = cur.day - FirstDay[m] + 1
  BY <1>2 DEF Cron!DateOf
<1>5. expr.dom \in SUBSET (Nat \ {0}) /\ expr.dom # {}
  <2> DEFINE Doms == (SUBSET (Nat \ {0})) \ {{}}
  <2>1. expr \in [minute : SUBSET Nat, hour : SUBSET Nat, dom : Doms,
                  month : SUBSET Nat, dow : SUBSET Nat]
    BY CalendarAssumption DEF SearchInv, Cron!CalendarAssumption
  <2> HIDE DEF Doms
  <2>2. expr.dom \in Doms
    BY <2>1
  <2> QED BY <2>2 DEF Doms
<1> DEFINE later == {d \in expr.dom : d >= Cron!DateOf(cur.day)}
<1>6. Cron!DateOf(cur.day) \notin expr.dom
  BY DEF Cron!DayJump, Cron!InDay
<1>7. CASE later # {} /\ Cron!GoTo(Cron!Midnight(FirstDay[m] + Cron!Min(later) - 1))
  <2>1. later \in SUBSET Nat
    BY <1>5
  <2> HIDE DEF later
  <2>2. PICK d : d = Cron!Min(later) /\ d \in later /\ \A x \in later : d <= x
    BY <1>7, <2>1, MinIsLeast
  <2>3. d \in expr.dom /\ d \in Nat /\ d > Cron!DateOf(cur.day)
    BY <1>2, <1>3, <1>4, <1>5, <1>6, <1>1, <2>2 DEF later
  <2> DEFINE day == FirstDay[m] + d - 1
  <2>4. day \in Nat /\ cur.day < day /\ cur' = Cron!Midnight(day)
    BY <1>1, <1>2, <1>3, <1>4, <1>7, <2>2, <2>3 DEF Cron!GoTo
  <2>5. cur' \in Times /\ Cron!Earlier(cur, cur')
    BY <1>1, <2>4, MidnightIs
  <2>6. ASSUME Cron!DaysExist(expr), NEW u \in Times, ~Cron!Earlier(u, cur),
               Cron!Earlier(u, cur')
        PROVE  ~Cron!InFields(expr, u)
    <3>1. u.day \in Nat /\ cur.day <= u.day /\ u.day < day
      BY <1>1, <2>4, <2>6, MidnightIs, Order
    <3>2. d <= FirstDay[m + 1] - FirstDay[m]
      BY <1>1, <2>3, <2>6, DayExists DEF Cron!DayJump
    <3>3. u.day < FirstDay[m + 1] /\ FirstDay[m] <= u.day
      BY <1>1, <1>2, <1>3, <2>3, <3>1, <3>2
    <3>4. Cron!DateOf(u.day) = u.day - FirstDay[m] + 1
      BY <3>1, <3>3, MonthIs DEF Cron!DateOf
    <3>5. Cron!DateOf(u.day) >= Cron!DateOf(cur.day) /\ ~(d <= Cron!DateOf(u.day))
      BY <1>1, <1>3, <1>4, <2>3, <3>1, <3>4
    <3>6. Cron!DateOf(u.day) \notin later
      BY <2>2, <3>5
    <3> QED BY <3>5, <3>6 DEF Cron!InFields, later
  <2> QED BY <2>5, <2>6 DEF Clear
<1>8. CASE later = {} /\ Cron!GoTo(Cron!Midnight(FirstDay[m + 1] + Cron!Min(expr.dom) - 1))
  <2>1. PICK d : d = Cron!Min(expr.dom) /\ d \in expr.dom /\ \A x \in expr.dom : d <= x
    BY <1>5, MinIsLeast
  <2>2. d \in Nat \ {0}
    BY <1>5, <2>1
  <2> DEFINE day == FirstDay[m + 1] + d - 1
  <2>3. day \in Nat /\ cur.day < day /\ cur' = Cron!Midnight(day)
    BY <1>1, <1>2, <1>3, <1>8, <2>1, <2>2 DEF Cron!GoTo
  <2>4. cur' \in Times /\ Cron!Earlier(cur, cur')
    BY <1>1, <2>3, MidnightIs
  <2>5. ASSUME Cron!DaysExist(expr), NEW u \in Times, ~Cron!Earlier(u, cur),
               Cron!Earlier(u, cur')
        PROVE  ~Cron!InFields(expr, u)
    <3>1. u.day \in Nat /\ cur.day <= u.day /\ u.day < day
      BY <1>1, <2>3, <2>5, MidnightIs, Order
    <3>2. CASE u.day < FirstDay[m + 1]
      <4>1. Cron!DateOf(u.day) = u.day - FirstDay[m] + 1
        BY <1>1, <1>2, <1>3, <3>1, <3>2, MonthIs DEF Cron!DateOf
      <4>2. Cron!DateOf(u.day) >= Cron!DateOf(cur.day)
        BY <1>1, <1>3, <1>4, <3>1, <4>1
      <4> QED BY <1>8, <4>2 DEF Cron!InFields
    <3>3. CASE FirstDay[m + 1] <= u.day
      <4>1. d <= FirstDay[(m + 1) + 1] - FirstDay[m + 1]
        BY <1>1, <1>3, <2>1, <2>5, DayExists DEF Cron!DayJump
      <4>2. u.day < FirstDay[(m + 1) + 1]
        BY <1>3, <2>2, <3>1, <4>1
      <4>3. Cron!Month(u.day) = m + 1
        BY <1>3, <3>1, <3>3, <4>2, MonthIs
      <4>4. Cron!DateOf(u.day) = u.day - FirstDay[m + 1] + 1
        BY <4>3 DEF Cron!DateOf
      <4>5. ~(d <= Cron!DateOf(u.day))
        BY <1>3, <2>2, <3>1, <4>4
      <4> QED BY <2>1, <4>5 DEF Cron!InFields
    <3> QED BY <1>3, <3>1, <3>2, <3>3
  <2> QED BY <2>4, <2>5 DEF Clear
<1> QED BY <1>2, <1>7, <1>8 DEF Cron!DayJump

\* The instants of an hour, and of a minute.
LEMMA NextHourIs ==
    ASSUME cur \in Times
    PROVE  /\ Cron!NextHour(cur) \in Times /\ Cron!Earlier(cur, Cron!NextHour(cur))
           /\ \A u \in Times : ~Cron!Earlier(u, cur) /\ Cron!Earlier(u, Cron!NextHour(cur)) =>
                  u.day = cur.day /\ u.hour = cur.hour /\ u.minute >= cur.minute
<1>1. /\ cur.day \in Nat /\ cur.hour \in Nat /\ cur.minute \in Nat
      /\ cur.hour < Hours /\ cur.minute < Minutes
      /\ cur = [day |-> cur.day, hour |-> cur.hour, minute |-> cur.minute]
  BY Calendar DEF Times
<1>2. CASE cur.hour + 1 < Hours
  <2> DEFINE to == [day |-> cur.day, hour |-> cur.hour + 1, minute |-> 0]
  <2>1. Cron!NextHour(cur) = to
    BY <1>1, <1>2 DEF Cron!NextHour
  <2>2. to \in Times
    BY <1>1, <1>2, Calendar DEF Times
  <2>3. Cron!Earlier(cur, to)
    BY <1>1 DEF Cron!Earlier
  <2>4. ASSUME NEW u \in Times, ~Cron!Earlier(u, cur), Cron!Earlier(u, to)
        PROVE  u.day = cur.day /\ u.hour = cur.hour /\ u.minute >= cur.minute
    <3>1. u.day \in Nat /\ u.hour \in Nat /\ u.minute \in Nat
      BY Order
    <3> QED BY <1>1, <2>4, <3>1 DEF Cron!Earlier
  <2> QED BY <2>1, <2>2, <2>3, <2>4
<1>3. CASE ~(cur.hour + 1 < Hours)
  <2>1. Cron!NextHour(cur) = Cron!Midnight(cur.day + 1)
    BY <1>3 DEF Cron!NextHour
  <2>2. Cron!NextHour(cur) \in Times /\ Cron!Earlier(cur, Cron!NextHour(cur))
    BY <1>1, <2>1, MidnightIs
  <2>3. ASSUME NEW u \in Times, ~Cron!Earlier(u, cur), Cron!Earlier(u, Cron!NextHour(cur))
        PROVE  u.day = cur.day /\ u.hour = cur.hour /\ u.minute >= cur.minute
    <3>1. u.day \in Nat /\ u.hour \in Nat /\ u.minute \in Nat /\ u.hour < Hours
      BY Order
    <3>2. u.day < cur.day + 1
      BY <1>1, <2>1, <2>3, MidnightIs
    <3> QED BY <1>1, <1>3, <2>3, <3>1, <3>2, Calendar DEF Cron!Earlier
  <2> QED BY <2>2, <2>3
<1> QED BY <1>2, <1>3

\* The next minute is one of the same hour, or begins the next hour.
LEMMA NextMinuteIs ==
    ASSUME cur \in Times
    PROVE  /\ Cron!NextMinute(cur) \in Times /\ Cron!Earlier(cur, Cron!NextMinute(cur))
           /\ \A u \in Times : ~Cron!Earlier(u, cur) /\ Cron!Earlier(u, Cron!NextMinute(cur)) =>
                  u = cur
<1>1. /\ cur.day \in Nat /\ cur.hour \in Nat /\ cur.minute \in Nat
      /\ cur.hour < Hours /\ cur.minute < Minutes
      /\ cur = [day |-> cur.day, hour |-> cur.hour, minute |-> cur.minute]
  BY Calendar DEF Times
<1>2. CASE cur.minute + 1 < Minutes
  <2> DEFINE to == [day |-> cur.day, hour |-> cur.hour, minute |-> cur.minute + 1]
  <2>1. Cron!NextMinute(cur) = to
    BY <1>1, <1>2 DEF Cron!NextMinute
  <2>2. to \in Times
    BY <1>1, <1>2, Calendar DEF Times
  <2>3. Cron!Earlier(cur, to)
    BY <1>1 DEF Cron!Earlier
  <2>4. ASSUME NEW u \in Times, ~Cron!Earlier(u, cur), Cron!Earlier(u, to) PROVE u = cur
    <3>1. u.day \in Nat /\ u.hour \in Nat /\ u.minute \in Nat
      BY Order
    <3>2. u.day = cur.day /\ u.hour = cur.hour /\ u.minute = cur.minute
      BY <1>1, <2>4, <3>1 DEF Cron!Earlier
    <3> QED BY <1>1, <3>2 DEF Times
  <2> QED BY <2>1, <2>2, <2>3, <2>4
<1>3. CASE ~(cur.minute + 1 < Minutes)
  <2>1. Cron!NextMinute(cur) = Cron!NextHour(cur)
    BY <1>3 DEF Cron!NextMinute
  <2>2. ASSUME NEW u \in Times, ~Cron!Earlier(u, cur), Cron!Earlier(u, Cron!NextHour(cur))
        PROVE  u = cur
    <3>1. u.day = cur.day /\ u.hour = cur.hour /\ u.minute >= cur.minute
      BY <2>2, NextHourIs
    <3>2. u.minute \in Nat /\ u.minute < Minutes
      BY Order
    <3>3. u.minute = cur.minute
      BY <1>1, <1>3, <3>1, <3>2, Calendar
    <3> QED BY <1>1, <3>1, <3>3 DEF Times
  <2> QED BY <2>1, <2>2, NextHourIs
<1> QED BY <1>2, <1>3

\* What matches no field but the day of the week is passed alone.
LEMMA SmallClear ==
    ASSUME SearchInv, Cron!Goes, Cron!HourJump \/ Cron!MinuteJump \/ Cron!Stall
    PROVE  Clear(cur')
<1>1. cur \in Times
  BY DEF SearchInv
<1>2. CASE Cron!HourJump
  <2>1. cur' = Cron!NextHour(cur) /\ cur.hour \notin expr.hour
    BY <1>2 DEF Cron!HourJump, Cron!GoTo, Cron!InHour
  <2> QED BY <1>1, <2>1, NextHourIs DEF Clear, Cron!InFields
<1>3. CASE Cron!MinuteJump
  <2>1. cur' = Cron!NextMinute(cur) /\ cur.minute \notin expr.minute
    BY <1>3 DEF Cron!MinuteJump, Cron!GoTo
  <2> QED BY <1>1, <2>1, NextMinuteIs DEF Clear, Cron!InFields
<1>4. CASE Cron!Stall
  <2>1. cur' = Cron!NextMinute(cur) /\ ~Cron!InFields(expr, cur)
    BY <1>4 DEF Cron!Stall, Cron!Goes, Cron!Matches, Cron!InFields
  <2> QED BY <1>1, <2>1, NextMinuteIs DEF Clear
<1> QED BY <1>2, <1>3, <1>4

\* A step that leaves out nothing keeps the promise of the search.
LEMMA ClearKept ==
    ASSUME SearchInv, Clear(cur'), UNCHANGED <<expr, start>>, outcome' # "found"
    PROVE  SearchInv'
<1>1. cur \in Times /\ cur' \in Times /\ start \in Times
  BY CalendarAssumption DEF SearchInv, Clear, Times, Cron!CalendarAssumption
<1>2. ~Cron!Earlier(cur', start)
  <2>1. SUFFICES ASSUME Cron!Earlier(cur', start) PROVE FALSE
    OBVIOUS
  <2>2. ~Cron!Earlier(cur', cur)
    BY <1>1, Order DEF Clear
  <2>3. Cron!Earlier(cur, start)
    BY <1>1, <2>1, <2>2, Transitive
  <2> QED BY <2>3 DEF SearchInv
<1>3. ASSUME Cron!DaysExist(expr), NEW t \in Times, ~Cron!Earlier(t, start),
             Cron!Earlier(t, cur')
      PROVE  ~Cron!InFields(expr, t)
  BY <1>3 DEF SearchInv, Clear
<1>4. Cron!DaysExist(expr)' = Cron!DaysExist(expr)
  BY DEF Cron!DaysExist, Cron!AnyDate, Cron!Earlier
<1>5. ~Cron!Earlier(cur, start)'
  BY <1>2 DEF Cron!Earlier
<1>6. (Cron!DaysExist(expr) => \A t \in Times : ~Cron!Earlier(t, start) /\ Cron!Earlier(t, cur)
          => ~Cron!InFields(expr, t))'
  <2>1. \A t \in Times : /\ Cron!Earlier(t, start)' = Cron!Earlier(t, start)
                         /\ Cron!Earlier(t, cur)' = Cron!Earlier(t, cur')
                         /\ Cron!InFields(expr, t)' = Cron!InFields(expr, t)
    BY DEF Cron!Earlier, Cron!InFields
  <2> QED BY <1>3, <1>4, <2>1 DEF Times
<1> QED BY <1>1, <1>5, <1>6 DEF SearchInv, Times

\* A search begins with nothing left out.
LEMMA SearchInit == ASSUME Cron!Init PROVE SearchInv
<1>1. expr \in Exprs /\ start \in Starts /\ cur = start /\ start \in Times
      /\ outcome # "found"
  BY CalendarAssumption DEF Cron!Init, Times, Cron!CalendarAssumption
<1>2. ~Cron!Earlier(start, start)
  BY <1>1, Order DEF Cron!Earlier
<1> QED BY <1>1, <1>2 DEF SearchInv

\* No round of the search leaves out a match.
LEMMA SearchNext == SearchInv /\ [Cron!Next]_(Cron!vars) => SearchInv'
<1> SUFFICES ASSUME SearchInv, [Cron!Next]_(Cron!vars) PROVE SearchInv'
  OBVIOUS
<1>1. CASE Cron!Found
  BY <1>1 DEF Cron!Found, Cron!Answer, SearchInv, Cron!Earlier, Cron!DaysExist, Cron!AnyDate,
     Cron!InFields, Cron!InSpan, Cron!Matches, Times
<1>2. CASE Cron!GiveUp
  BY <1>2 DEF Cron!GiveUp, Cron!Answer, SearchInv, Cron!Earlier, Cron!DaysExist, Cron!AnyDate,
     Cron!InFields, Times
<1>3. CASE Cron!MonthJump
  <2>1. Cron!Goes /\ ~Cron!InMonth
        /\ cur' = Cron!Midnight(FirstDay[Cron!Month(cur.day) + 1])
        /\ UNCHANGED <<expr, start, outcome>> /\ outcome # "found"
    BY <1>3 DEF Cron!MonthJump, Cron!GoTo, Cron!Goes
  <2>2. Clear(cur')
    BY <2>1, MonthClear
  <2> QED BY <2>1, <2>2, ClearKept
<1>4. CASE Cron!DayJump
  <2>1. Cron!Goes /\ UNCHANGED <<expr, start, outcome>> /\ outcome # "found"
    BY <1>4 DEF Cron!DayJump, Cron!GoTo, Cron!Goes
  <2>2. Clear(cur')
    BY <1>4, <2>1, DayClear
  <2> QED BY <2>1, <2>2, ClearKept
<1>5. CASE Cron!HourJump \/ Cron!MinuteJump \/ Cron!Stall
  <2>1. Cron!Goes /\ UNCHANGED <<expr, start>> /\ outcome' # "found"
    BY <1>5 DEF Cron!HourJump, Cron!MinuteJump, Cron!Stall, Cron!GoTo, Cron!Goes
  <2>2. Clear(cur')
    BY <1>5, <2>1, SmallClear
  <2> QED BY <2>1, <2>2, ClearKept
<1>6. CASE UNCHANGED Cron!vars
  BY <1>6 DEF Cron!vars, SearchInv, Cron!Earlier, Cron!DaysExist, Cron!AnyDate, Cron!InFields,
     Cron!InSpan, Cron!Matches, Times
<1> QED BY <1>1, <1>2, <1>3, <1>4, <1>5, <1>6 DEF Cron!Next

\* Where the month field taken for the day of the week does no harm, what matches is
\* what is meant, and what is meant is in all five fields.
LEMMA Meaning ==
    ASSUME NEW e \in Exprs, Cron!Harmless(e), NEW t \in Times, Covered(t.day)
    PROVE  /\ Cron!Matches(e, t) => Cron!Meant(e, t)
           /\ Cron!Meant(e, t) => Cron!InFields(e, t)
<1> DEFINE w == Cron!WeekDay(t.day)
           d == Cron!DateOf(t.day)
<1>1. w \in 0..(Week - 1) /\ w % Week = w
  BY Calendar DEF Cron!WeekDay, Covered
<1>2. Cron!AnyDate(e) => d \in e.dom
  <2>1. PICK m \in 1..(Months - 1) :
            /\ m = Cron!Month(t.day)
            /\ FirstDay[m] <= t.day /\ t.day < FirstDay[m + 1]
    BY InMonth
  <2>2. FirstDay[m] \in Nat /\ FirstDay[m + 1] \in Nat /\ t.day \in Nat
    BY Calendar DEF Covered
  <2>3. d \in 1..(FirstDay[m + 1] - FirstDay[m])
    BY <2>1, <2>2 DEF Cron!DateOf
  <2>4. FirstDay[m + 1] - FirstDay[m] \in Cron!Lengths
    BY DEF Cron!Lengths, Months
  <2> QED BY <2>3, <2>4 DEF Cron!AnyDate
<1>3. Cron!AnyWeekDay(e) => w \in e.dow /\ Cron!OnWeekDay(e, t)
  BY <1>1 DEF Cron!AnyWeekDay, Cron!OnWeekDay
<1>4. e.dow \in SUBSET Nat
  <2> DEFINE Doms == (SUBSET (Nat \ {0})) \ {{}}
  <2>1. e \in [minute : SUBSET Nat, hour : SUBSET Nat, dom : Doms,
               month : SUBSET Nat, dow : SUBSET Nat]
    BY CalendarAssumption DEF Cron!CalendarAssumption
  <2> HIDE DEF Doms
  <2> QED BY <2>1
<1>5. ~Cron!AnyWeekDay(e) => (Cron!OnWeekDay(e, t) <=> w \in e.dow)
  <2> SUFFICES ASSUME ~Cron!AnyWeekDay(e) PROVE Cron!OnWeekDay(e, t) <=> w \in e.dow
    OBVIOUS
  <2>1. \A n \in e.dow : n \in Nat /\ n < Week
    BY <1>4 DEF Cron!Harmless
  <2>2. \A n \in e.dow : n % Week = n
    BY <2>1, Calendar
  <2> QED BY <2>2 DEF Cron!OnWeekDay
<1>6. Cron!AnyDate(e) \/ (Cron!AnyWeekDay(e) /\ w \notin e.month)
  BY <1>1 DEF Cron!Harmless
<1>7. Cron!Matches(e, t) => Cron!Meant(e, t)
  BY <1>2, <1>3, <1>5, <1>6 DEF Cron!Matches, Cron!Meant, Cron!OnDay
<1>8. Cron!Meant(e, t) => Cron!InFields(e, t)
  BY <1>2, <1>3, <1>5, <1>6 DEF Cron!Meant, Cron!OnDay, Cron!InFields
<1> QED BY <1>7, <1>8

\* The invariant at the end of the search is what is promised.
LEMMA SearchFinds == SearchInv => FindsTheFirst
<1> SUFFICES ASSUME SearchInv PROVE FindsTheFirst
  OBVIOUS
<1>1. cur \in Times /\ start \in Times
  BY CalendarAssumption DEF SearchInv, Times, Cron!CalendarAssumption
<1>2. \A t \in Cron!Passed : /\ t \in Times /\ ~Cron!Earlier(t, start) /\ Cron!Earlier(t, cur)
                             /\ start.day <= t.day /\ t.day <= cur.day
  <2> TAKE t \in Cron!Passed
  <2>1. /\ t \in [day : start.day..cur.day, hour : 0..(Hours - 1), minute : 0..(Minutes - 1)]
        /\ ~Cron!Earlier(t, start) /\ Cron!Earlier(t, cur)
    BY DEF Cron!Passed
  <2>2. start.day \in Nat /\ cur.day \in Nat
    BY <1>1, Order
  <2>3. \A d \in start.day..cur.day : d \in Nat /\ start.day <= d /\ d <= cur.day
    BY <2>2
  <2> QED BY <2>1, <2>3 DEF Times
<1>3. Cron!NothingSkipped
  BY <1>2 DEF Cron!NothingSkipped, SearchInv
<1>4. ASSUME outcome = "found", Cron!Harmless(expr), Cron!DaysExist(expr)
      PROVE  Cron!Meant(expr, cur) /\ \A t \in Cron!Passed : ~Cron!Meant(expr, t)
  <2>1. Cron!InSpan(cur) /\ Cron!Matches(expr, cur) /\ expr \in Exprs
    BY <1>4 DEF SearchInv
  <2>2. Covered(cur.day)
    BY <2>1, AheadCovered
  <2>3. Cron!Meant(expr, cur)
    BY <1>1, <1>4, <2>1, <2>2, Meaning
  <2>4. ASSUME NEW t \in Cron!Passed PROVE ~Cron!Meant(expr, t)
    <3>1. t \in Times /\ start.day <= t.day /\ t.day <= cur.day
      BY <1>2
    <3>2. FirstDay[1] <= start.day /\ FirstDay[1] \in Nat /\ FirstDay[Months] \in Nat
      BY CalendarAssumption, Calendar DEF SearchInv, Cron!SpanAssumption
    <3>3. t.day \in Nat /\ cur.day \in Nat /\ start.day \in Nat
      BY <1>1, <3>1, Order
    <3>4. Covered(t.day)
      BY <2>2, <3>1, <3>2, <3>3 DEF Covered
    <3>5. ~Cron!InFields(expr, t)
      BY <1>3, <1>4 DEF Cron!NothingSkipped
    <3> QED BY <1>4, <2>1, <3>1, <3>4, <3>5, Meaning
  <2> QED BY <2>3, <2>4
<1> QED BY <1>3, <1>4 DEF FindsTheFirst, Cron!FindsTheFirst

\* The search for the next instant of a cron expression leaves out none that is in
\* all five fields, and for expressions whose months and days of the week cannot be
\* mistaken for one another what it finds is what they mean, and the first such
\* instant: for any expression, start and calendar, if every month has the days asked
\* for (cron-parser.ts:111, 129-204).
THEOREM TheFirstIsFound == Cron!Spec => []FindsTheFirst
<1>1. Cron!Spec => []SearchInv
  BY SearchInit, SearchNext, PTL DEF Cron!Spec
<1> QED BY <1>1, SearchFinds, PTL
==============================================================================

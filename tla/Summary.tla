------------------------------- MODULE Summary -------------------------------
(***************************************************************************)
(* The sliding window of packages/metrics/src/summary.ts: observe(), the   *)
(* rendering, reset() and maybeRotate().  The window is a ring of buckets; *)
(* the oldest is emptied when its time has come and somebody calls.        *)
(* Observations do not touch each other, so that the model follows one of  *)
(* them, while the calls that come with any others go on around it.        *)
(* Left out: values, quantiles, labels (each combination has a ring of its *)
(* own) and the format.                                                    *)
(***************************************************************************)
EXTENDS Integers

CONSTANTS AgeBuckets,  \* how many buckets there are
          BucketSize,  \* for how long one of them is the current one
          MaxIdle      \* bound on the time between two calls

VARIABLES elapsed,     \* the time since lastRotation
          current,     \* currentBucket
          marked,      \* the bucket of the observation that is followed, or Nowhere
          age,         \* how long ago it was made
          rendered     \* what a rendering has just said: "with", "without", or "none"

vars == <<elapsed, current, marked, age, rendered>>

Buckets == 0..(AgeBuckets - 1)
Nowhere == -1
Unmade  == -1

\* The first observation makes the ring; the one to follow is among those to come.
Init ==
    /\ elapsed = 0 /\ current = 0
    /\ marked = Nowhere /\ age = Unmade /\ rendered = "none"

Rotations == elapsed \div BucketSize

\* Mutant: a bucket is emptied before the ring moves on.
EmptiedBefore == {(current + i) % AgeBuckets : i \in 0..(Rotations - 1)}

\* The buckets emptied on the way.
Emptied == {(current + i) % AgeBuckets : i \in 1..Rotations}

\* maybeRotate(): what is over of the last round counts for nothing.
Rotate ==
    /\ current' = (current + Rotations) % AgeBuckets
    /\ elapsed' = IF Rotations > 0 THEN 0 ELSE elapsed

Kept == IF marked \in Emptied THEN Nowhere ELSE marked

Tick ==
    /\ elapsed < MaxIdle
    /\ elapsed' = elapsed + 1
    /\ age' = IF marked = Nowhere THEN age ELSE age + 1
    /\ rendered' = "none"
    /\ UNCHANGED <<current, marked>>

\* observe(), of the one that is followed, and of others.
Observe ==
    /\ age = Unmade
    /\ Rotate /\ marked' = current' /\ age' = 0
    /\ rendered' = "none"

ObserveOther ==
    /\ Rotate /\ marked' = Kept
    /\ rendered' = "none"
    /\ UNCHANGED age

\* renderPrometheus()
Render ==
    /\ Rotate /\ marked' = Kept
    /\ rendered' = IF marked' = Nowhere THEN "without" ELSE "with"
    /\ UNCHANGED age

\* reset(), and the observation after it, which makes a new ring.
Reset ==
    /\ elapsed' = 0 /\ current' = 0
    /\ marked' = Nowhere /\ age' = Unmade /\ rendered' = "none"

Next == Tick \/ Observe \/ ObserveOther \/ Render \/ Reset

Spec == Init /\ [][Next]_vars

------------------------------------------------------------------------------
TypeOK ==
    /\ elapsed \in 0..MaxIdle /\ current \in Buckets
    /\ marked \in Buckets \union {Nowhere} /\ age \in Nat \union {Unmade}
    /\ rendered \in {"none", "with", "without"}

\* A rendering has every observation of the last AgeBuckets - 1 buckets, whenever
\* others were made and rendered, and none that is as old as twice the window:
\* a rotation that comes late makes the window longer, up to that
\* (summary.ts:139-149).
WindowKept ==
    age # Unmade =>
        /\ marked = Nowhere => age >= (AgeBuckets - 1) * BucketSize
        /\ rendered = "with" => age < (2 * AgeBuckets - 1) * BucketSize
==============================================================================

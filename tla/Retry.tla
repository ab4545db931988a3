-------------------------------- MODULE Retry --------------------------------
(***************************************************************************)
(* One call of retry(), packages/resilience/src/retry.ts: a loop of        *)
(* attempts and sleeps against an overall timer, which aborts a signal     *)
(* that fn() was given and that only sleep() listens to.                   *)
(*                                                                         *)
(* The loop runs between two events: fn() settles, the sleep's timer or    *)
(* the overall timer fires.  How long a sleep lasts is left out: Wake and  *)
(* Deadline come in either order.                                          *)
(***************************************************************************)
EXTENDS Naturals

CONSTANT MaxAttempts  \* bound: the largest cfg.attempts tried

VARIABLES attempts,  \* Math.max(1, cfg.attempts), a parameter of the call
          at,        \* where the call stands
          attempt,   \* the loop variable
          lastErr,   \* lastErr: nothing yet, what fn() threw, or the abort
          timer,     \* overallTimer
          aborted,   \* ac.signal.aborted
          ran        \* history: how often fn() was called, up to MaxAttempts + 1

vars == <<attempts, at, attempt, lastErr, timer, aborted, ran>>

Init ==
    /\ \E cfg \in 0..MaxAttempts : attempts = IF cfg = 0 THEN 1 ELSE cfg
    /\ at = "loop"
    /\ attempt = 1
    /\ lastErr = "none"
    /\ timer \in {"none", "armed"}
    /\ aborted = FALSE
    /\ ran = 0

\* if (overallTimer) clearTimeout(overallTimer); throw lastErr;
Fail(err) ==
    /\ at' = "failed"
    /\ lastErr' = err
    /\ timer' = IF timer = "armed" THEN "cleared" ELSE timer

\* The head of the loop and, unless the signal is aborted, the call of fn().
Attempt ==
    /\ at = "loop"
    /\ \/ /\ aborted
          /\ Fail(lastErr) /\ UNCHANGED ran
       \/ /\ ~aborted
          /\ at' = "fn" /\ ran' = IF ran > MaxAttempts THEN ran ELSE ran + 1
          /\ UNCHANGED <<lastErr, timer>>
    /\ UNCHANGED <<attempts, attempt, aborted>>

\* return await fn(ac.signal).  The overall timer is left as it is.
Return ==
    /\ at = "fn"
    /\ at' = "returned"
    /\ UNCHANGED <<attempts, attempt, lastErr, timer, aborted, ran>>

ThrowSleeps(retryable) ==
    /\ at = "fn"
    /\ \/ /\ attempt >= attempts \/ ~retryable
          /\ Fail("fn")
       \/ /\ attempt < attempts /\ retryable
          /\ at' = "sleep" /\ lastErr' = "fn" /\ UNCHANGED timer
    /\ UNCHANGED <<attempts, attempt, aborted, ran>>

\* fn() has thrown: the catch block up to the await of sleep(), which rejects at
\* once when the signal is aborted.  onRetry() changes nothing.
Throw(retryable) ==
    /\ at = "fn"
    /\ \/ /\ attempt >= attempts \/ ~retryable
          /\ Fail("fn")
       \/ /\ attempt < attempts /\ retryable /\ aborted
          /\ Fail("abort")
       \/ /\ attempt < attempts /\ retryable /\ ~aborted
          /\ at' = "sleep" /\ lastErr' = "fn" /\ UNCHANGED timer
    /\ UNCHANGED <<attempts, attempt, aborted, ran>>

\* Mutant: the attempt is not counted.
WakeUncounted == at = "sleep" /\ at' = "loop" /\ UNCHANGED <<attempts, attempt, lastErr, timer, aborted, ran>>

\* The sleep is over: back to the head of the loop.
Wake ==
    /\ at = "sleep"
    /\ at' = "loop"
    /\ attempt' = attempt + 1
    /\ UNCHANGED <<attempts, lastErr, timer, aborted, ran>>

\* The overall timer fires.  A sleep is rejected, a fn() that runs may look at
\* its signal or not.
Deadline ==
    /\ timer = "armed" /\ at # "loop"
    /\ timer' = "fired"
    /\ aborted' = TRUE
    /\ \/ /\ at = "sleep" /\ at' = "failed" /\ lastErr' = "abort"
       \/ /\ at # "sleep" /\ UNCHANGED <<at, lastErr>>
    /\ UNCHANGED <<attempts, attempt, ran>>

Settled == at \in {"returned", "failed"}

Next ==
    \/ Attempt
    \/ Return
    \/ \E retryable \in BOOLEAN : Throw(retryable)
    \/ Wake
    \/ Deadline

\* The loop runs on, timers fire, and fn() settles.
Fairness ==
    /\ WF_vars(Attempt)
    /\ WF_vars(Wake)
    /\ WF_vars(Return \/ \E retryable \in BOOLEAN : Throw(retryable))

Spec == Init /\ [][Next]_vars
FairSpec == Spec /\ Fairness

------------------------------------------------------------------------------
(* Properties *)

\* The deadline cuts the loop short: no attempt begins after it, and a call
\* that sleeps has not seen it, whichever of the two timers comes first and
\* wherever in fn() the deadline falls (retry.ts:35-52, 111-138).
DeadlineStops ==
    [][(aborted => ran' = ran) /\ (at' = "sleep" => ~aborted')]_vars

\* Every call settles if every fn() does.
CallSettles == <>Settled
==============================================================================

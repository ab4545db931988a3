------------------------------- MODULE Limiter -------------------------------
(***************************************************************************)
(* One key of the rate limiter, packages/limiter/src: consume() of the     *)
(* memory storage (backends/memory.ts), which is one run of JavaScript,    *)
(* and of the SQL storage (backends/drizzle.ts), which reads the row in    *)
(* one statement and writes it in another.  LimiterService.check() always  *)
(* asks for one point.                                                     *)
(*                                                                         *)
(* Instants are kept as distances from now, so that time has no end: `due` *)
(* is reset_at or updated_at minus now, a log holds ages, each with the    *)
(* caller, who calls at most once per unit of time: this tells the entries *)
(* of a log apart.  What lies a window or more back is as good as for      *)
(* ever.  A consume() takes less than the unit of time.  Tokens are        *)
(* counted in units of 1/Duration.                                         *)
(***************************************************************************)
EXTENDS Integers, Sequences, FiniteSetsExt

CONSTANTS Callers,   \* requests of the key, each at most once per unit of time
          Limit,     \* rule.points
          Duration   \* rule.duration

\* What the parameters must be: a rule lets somebody in.
RuleAssumption == Limit \in Nat \ {0} /\ Duration \in Nat \ {0}

VARIABLES backend,   \* parameter: "memory" or "sql"
          strategy,  \* parameter: rule.strategy
          serial,    \* parameter: no two calls of consume() overlap
          bucket,    \* what the storage holds for the key
          read,      \* what the SELECT of each pending call has returned
          asked,     \* who has called in the present unit of time
          admitted,  \* history: the admitted calls of the last window
          told       \* history: when the last rejected caller was told to retry

vars == <<backend, strategy, serial, bucket, read, asked, admitted, told>>
program == <<backend, strategy, serial>>

Strategies == {"fixed-window", "sliding-window", "token-bucket"}
Nothing    == [here |-> FALSE, count |-> 0, due |-> 0, log |-> {}]
Untold     == Duration + 1

Lesser(a, b)  == IF a < b THEN a ELSE b
Greater(a, b) == IF a < b THEN b ELSE a
Ceil(a, b)    == (a + b - 1) \div b

\* A count beyond the limit decides as the first one beyond it does.
Counted(count) == Lesser(count, Limit) + 1

\* An entry of a log: who has called, and how long ago.
Age(call) == call[2]
Now(c)    == <<c, 0>>

Fresh(log)  == {x \in log : Age(x) < Duration}
Oldest(log) == Max({Age(x) : x \in log})

Init ==
    /\ backend \in {"memory", "sql"}
    /\ strategy \in Strategies
    /\ serial \in BOOLEAN
    /\ bucket = Nothing
    /\ read = [c \in Callers |-> <<>>]
    /\ asked = {}
    /\ admitted = {}
    /\ told = Untold

------------------------------------------------------------------------------
(* MemoryRateLimitStorage: the bucket left behind and the answer *)

\* A counter that is reset when its window is over.
Fixed(b) ==
    LET over  == ~b.here \/ b.due <= 0
        count == IF over THEN 1 ELSE Counted(b.count)
        due   == IF over THEN Duration ELSE b.due
    IN  [bucket |-> [here |-> TRUE, count |-> count, due |-> due, log |-> {}],
         allowed |-> count <= Limit, wait |-> due]

\* Mutant: the window is one unit short.
SlidingShort(b, c) ==
    LET kept == {x \in b.log : Age(x) < Duration - 1}
        ok   == Cardinality(kept) < Limit
    IN  [bucket |-> [b EXCEPT !.here = TRUE, !.log = IF ok THEN kept \union {Now(c)} ELSE kept],
         allowed |-> ok, wait |-> IF ok THEN 0 ELSE Duration - 1 - Oldest(kept)]

\* Mutant: rejected calls are logged as well.
SlidingLogsAll(b, c) ==
    LET kept == Fresh(b.log)
        ok   == Cardinality(kept) < Limit
    IN  [bucket |-> [b EXCEPT !.here = TRUE, !.log = kept \union {Now(c)}],
         allowed |-> ok, wait |-> IF ok THEN 0 ELSE Duration - Oldest(kept)]

\* A log of the admitted calls of the last window.
Sliding(b, c) ==
    LET kept == Fresh(b.log)
        ok   == Cardinality(kept) < Limit
    IN  [bucket |-> [b EXCEPT !.here = TRUE, !.log = IF ok THEN kept \union {Now(c)} ELSE kept],
         allowed |-> ok, wait |-> IF ok THEN 0 ELSE Duration - Oldest(kept)]

\* Tokens that come back at Limit per Duration.
Token(b) ==
    LET full   == Limit * Duration
        tokens == IF b.here THEN Lesser(full, b.count + (-b.due) * Limit) ELSE full
        ok     == tokens >= Duration
    IN  [bucket |-> [here |-> TRUE, count |-> IF ok THEN tokens - Duration ELSE tokens,
                     due |-> 0, log |-> {}],
         allowed |-> ok, wait |-> Ceil(Duration - tokens, Limit)]

InMemory(b, c) ==
    CASE strategy = "fixed-window"   -> Fixed(b)
      [] strategy = "sliding-window" -> Sliding(b, c)
      [] strategy = "token-bucket"   -> Token(b)

------------------------------------------------------------------------------
(* DrizzleRateLimitStorage: the row of a first call; for later calls, the   *)
(* row after an UPDATE decided on the row b that was read, and the answer   *)

First(c) ==
    [here |-> TRUE, due |-> Duration,
     count |-> CASE strategy = "fixed-window" -> 1
                 [] strategy = "token-bucket" -> Duration
                 [] strategy = "sliding-window" -> 0,
     log |-> IF strategy = "sliding-window" THEN {Now(c)} ELSE {}]

\* UPDATE ... WHERE key = ? changes the columns it names, if the row is there.
SqlFixed(b, row) ==
    LET over  == b.due <= 0
        count == IF over THEN 1 ELSE Counted(b.count)
    IN  [bucket |-> [row EXCEPT !.count = count, !.due = IF over THEN Duration ELSE @],
         allowed |-> over \/ count <= Limit, wait |-> b.due]

SqlSliding(b, row, c) ==
    LET log == Fresh(b.log) \union {Now(c)}
    IN  [bucket |-> [row EXCEPT !.log = log],
         allowed |-> Cardinality(log) <= Limit, wait |-> Duration - Oldest(log)]

SqlToken(b, row) ==
    LET tokens == Lesser(Limit * Duration, b.count + Greater(0, -b.due) * Limit)
        ok     == tokens >= Duration
    IN  [bucket |-> [row EXCEPT !.count = IF ok THEN tokens - Duration ELSE tokens,
                                !.due = 0],
         allowed |-> ok, wait |-> Ceil(Duration - tokens, Limit)]

InSql(b, row, c) ==
    CASE strategy = "fixed-window"   -> SqlFixed(b, row)
      [] strategy = "sliding-window" -> SqlSliding(b, row, c)
      [] strategy = "token-bucket"   -> SqlToken(b, row)

------------------------------------------------------------------------------
(* consume() *)

\* Those between the SELECT and their second statement.
Pending == {c \in Callers : read[c] # <<>>}

MayAsk(c) == c \notin asked /\ (serial => Pending = {})

Answer(c, allowed, wait) ==
    /\ admitted' = IF allowed THEN admitted \union {Now(c)} ELSE admitted
    /\ told' = IF allowed THEN Untold ELSE wait

Consume(c) ==
    /\ backend = "memory" /\ MayAsk(c)
    /\ LET a == InMemory(bucket, c)
       IN  bucket' = a.bucket /\ Answer(c, a.allowed, a.wait)
    /\ asked' = asked \union {c}
    /\ UNCHANGED <<program, read>>

\* SELECT * ... WHERE key = ?
Select(c) ==
    /\ backend = "sql" /\ MayAsk(c)
    /\ read' = [read EXCEPT ![c] = <<bucket>>]
    /\ asked' = asked \union {c}
    /\ UNCHANGED <<program, bucket, admitted, told>>

\* INSERT of a key that was not found: somebody else may have inserted it since,
\* and then the statement, and the request, fails.
Insert(c) ==
    /\ read[c] # <<>> /\ ~read[c][1].here
    /\ \/ /\ bucket.here
          /\ UNCHANGED <<bucket, admitted, told>>
       \/ /\ ~bucket.here
          /\ bucket' = First(c)
          /\ Answer(c, TRUE, 0)
    /\ read' = [read EXCEPT ![c] = <<>>]
    /\ UNCHANGED <<program, asked>>

Update(c) ==
    /\ read[c] # <<>> /\ read[c][1].here
    /\ LET a == InSql(read[c][1], bucket, c)
       IN  /\ bucket' = IF bucket.here THEN a.bucket ELSE bucket
           /\ Answer(c, a.allowed, a.wait)
    /\ read' = [read EXCEPT ![c] = <<>>]
    /\ UNCHANGED <<program, asked>>

\* reset(key), which forgives all.
Reset ==
    /\ bucket.here /\ (serial => Pending = {})
    /\ bucket' = Nothing
    /\ admitted' = {}
    /\ told' = Untold
    /\ UNCHANGED <<program, read, asked>>

\* Time goes by.
Aged(log) == {<<x[1], Lesser(Age(x) + 1, Duration)>> : x \in log}

Tick ==
    /\ Pending = {}
    /\ bucket' = [bucket EXCEPT !.due = Greater(@ - 1, -Duration), !.log = Aged(@)]
    /\ asked' = {}
    /\ admitted' = Fresh(Aged(admitted))
    /\ told' = IF told \in 1..Duration THEN told - 1 ELSE told
    /\ UNCHANGED <<program, read>>

Call(c) == Consume(c) \/ Select(c) \/ Insert(c) \/ Update(c)

Next == Tick \/ Reset \/ \E c \in Callers : Call(c)

Spec == Init /\ [][Next]_vars

------------------------------------------------------------------------------
(* Properties *)

\* No two calls of consume() decide on the same bucket.
Atomic == backend = "memory" \/ serial

\* As many calls as any window of this length may see admitted: two windows, or
\* a full bucket and its refill, overlap by all but one.  A bucket that is new in
\* SQL has one token left when the first call has been let in, whatever the limit.
MostInAWindow ==
    CASE strategy = "sliding-window" -> Limit
      [] strategy = "token-bucket" /\ backend = "sql" -> Greater(2, 2 * Limit - 1)
      [] OTHER -> 2 * Limit - 1

\* In whichever window one looks at the key, no more calls than that have been
\* admitted, whatever the rejected calls and resets in between
\* (memory.ts:64-147, drizzle.ts:64-206; types.ts:65 "Implementations must be
\* atomic across concurrent callers").
WindowLimit == Atomic => Cardinality(admitted) <= MostInAWindow

\* Who was told to retry after so long and does, nobody else having called, is
\* admitted (memory.ts:84, 114, 142-144; drizzle.ts:159).  The SQL storage
\* keeps this promise with fixed windows only: it logs rejected calls as well,
\* and a new token bucket is refilled from the end of its first window on.
RetryAfterHonest ==
    told = 0 /\ Atomic => \A c \in Callers :
        /\ backend = "memory" => InMemory(bucket, c).allowed
        /\ backend = "sql" /\ strategy = "fixed-window" => InSql(bucket, bucket, c).allowed

\* A client that calls all the time without waiting is admitted again and again:
\* rejected calls do not push its turn away (memory.ts:103-107).  With the SQL
\* storage's log they do.
Persistent ==
    \/ backend = "sql" /\ strategy = "sliding-window"
    \/ []<>(\E x \in admitted : Age(x) = 0)

\* types.ts:65 of RateLimitStorage: "Implementations must be atomic across
\* concurrent callers."
WindowLimitOfAll == Cardinality(admitted) <= MostInAWindow
==============================================================================

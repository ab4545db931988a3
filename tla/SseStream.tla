------------------------------ MODULE SseStream ------------------------------
(***************************************************************************)
(* One stream of packages/sse/src: sse() of sse.ts, which runs a handler   *)
(* and then closes the stream, and SseStream of sse-stream.ts: send(),     *)
(* close(), onClose(), and the abort of a client that went away.  What the *)
(* handler armed (timers, subscriptions) goes on after it has returned.    *)
(* Hono's stream is external: a write is pending until the client reads or *)
(* is gone, and an abort happens once, as long as the stream is open.      *)
(***************************************************************************)
EXTENDS Naturals, FiniteSets

CONSTANTS Callbacks,  \* what the program may register with onClose()
          MaxWrites   \* bound on the writes that are pending at one time

VARIABLES handler,    \* the callback of sse(): "running" or "finished"
          asked,      \* whether the program has called close()
          closed,     \* #closed
          closing,    \* close(): "no", "flushing", or "closed", after #api.close()
          aborted,    \* whether the client is gone
          pending,    \* #pendingWrites, how many
          registered, \* #onClose
          fresh,      \* callbacks that were not registered yet
          ran         \* how often each callback ran

vars == <<handler, asked, closed, closing, aborted, pending, registered, fresh, ran>>

Init ==
    /\ handler = "running" /\ asked = FALSE /\ closed = FALSE /\ closing = "no"
    /\ aborted = FALSE /\ pending = 0 /\ registered = {} /\ fresh = Callbacks
    /\ ran = [cb \in Callbacks |-> 0]

Call(cbs) == ran' = [cb \in Callbacks |-> IF cb \in cbs THEN ran[cb] + 1 ELSE ran[cb]]

\* Mutant: the list is kept.
FireCloseKeeps ==
    /\ closed' = TRUE
    /\ UNCHANGED registered /\ Call(registered)

\* #fireClose
FireClose ==
    /\ closed' = TRUE
    /\ registered' = {} /\ Call(registered)

\* send()
Send ==
    /\ ~closed /\ pending < MaxWrites
    /\ pending' = pending + 1
    /\ UNCHANGED <<handler, asked, closed, closing, aborted, registered, fresh, ran>>

\* The client reads, or a write fails because it is gone.
Written ==
    /\ pending > 0
    /\ pending' = pending - 1
    /\ UNCHANGED <<handler, asked, closed, closing, aborted, registered, fresh, ran>>

\* onClose(), onAbort()
OnClose(cb) ==
    /\ cb \in fresh
    /\ fresh' = fresh \ {cb}
    /\ IF closed THEN Call({cb}) /\ UNCHANGED registered
       ELSE registered' = registered \union {cb} /\ UNCHANGED ran
    /\ UNCHANGED <<handler, asked, closed, closing, aborted, pending>>

\* close(), until it waits for the pending writes or has closed the stream.
Close ==
    IF closed THEN UNCHANGED <<closed, closing, registered, ran>>
    ELSE IF pending > 0
    THEN closed' = TRUE /\ closing' = "flushing" /\ UNCHANGED <<registered, ran>>
    ELSE FireClose /\ closing' = "closed"

CloseByProgram ==
    /\ ~asked /\ asked' = TRUE
    /\ Close
    /\ UNCHANGED <<handler, aborted, pending, fresh>>

\* `finally` of sse(), whether the handler returned or threw.
HandlerFinishes ==
    /\ handler = "running" /\ handler' = "finished"
    /\ Close
    /\ UNCHANGED <<asked, aborted, pending, fresh>>

\* The rest of close(), once what was pending is written; later sends were refused.
Flush ==
    /\ closing = "flushing" /\ pending = 0
    /\ FireClose /\ closing' = "closed"
    /\ UNCHANGED <<handler, asked, aborted, pending, fresh>>

\* onAbort() of Hono's stream
Abort ==
    /\ ~aborted /\ closing # "closed"
    /\ aborted' = TRUE
    /\ FireClose
    /\ UNCHANGED <<handler, asked, closing, pending, fresh>>

Next ==
    \/ Send \/ Written \/ \E cb \in Callbacks : OnClose(cb)
    \/ CloseByProgram \/ HandlerFinishes \/ Flush \/ Abort

Spec == Init /\ [][Next]_vars

------------------------------------------------------------------------------
TypeOK ==
    /\ handler \in {"running", "finished"} /\ closing \in {"no", "flushing", "closed"}
    /\ asked \in BOOLEAN /\ closed \in BOOLEAN /\ aborted \in BOOLEAN
    /\ pending \in 0..MaxWrites /\ registered \subseteq Callbacks /\ fresh \subseteq Callbacks

\* However often a stream is closed, by the program, by sse() and by a client that
\* goes away while a close() waits for its writes: each callback that was given to
\* onClose(), at any time, has run once as soon as the stream is over, and none
\* twice; and the stream is not torn down under what was sent before close().
ClosesCleanly ==
    /\ \A cb \in Callbacks : ran[cb] <= 1
    /\ aborted \/ closing = "closed" =>
          \A cb \in Callbacks \ fresh : ran[cb] = 1
    /\ closing = "closed" => pending = 0

\* A stream is closed when its program asks for it or the client is gone.  False:
\* sse() closes it as soon as the handler has returned.
OpenUntilAsked == closed => asked \/ aborted
==============================================================================

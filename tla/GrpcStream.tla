----------------------------- MODULE GrpcStream ------------------------------
(***************************************************************************)
(* One streaming call of packages/grpc/src/service.ts: the handlers built  *)
(* by makeServerStreamHandler, makeClientStreamHandler and                 *)
(* makeBidiStreamHandler, the client methods of makeClientMethod, and what *)
(* turns the events of a call into something to iterate over.              *)
(*                                                                         *)
(* The program's parts, which requests its source yields and what its      *)
(* method does with them, are free.  External, from how the code uses it,  *)
(* is grpc-js: a wire keeps the order of its events, a status that is not  *)
(* OK is an "error" followed by an "end", and a connection that breaks     *)
(* loses what is on its way, tells the client and perhaps the server.      *)
(* Messages are numbered.  Left out: unary calls, codes and details.       *)
(***************************************************************************)
EXTENDS Naturals, Sequences

CONSTANTS MaxRequests,  \* bound on the requests of a source
          MaxResponses  \* bound on the responses of a method

VARIABLES kind,         \* "server", "client" or "bidi", the side or sides that stream
          source,       \* the client's requests: "open", "ended" or "failed" (it threw)
          sent,         \* how many of them were written
          up, down,     \* the wires: events that have not been emitted
          broken,       \* whether the connection is
          requests,     \* what the server has received and not handed over
          responses,    \* and the client
          method,       \* "running", "told" (of the end of its requests), "returned", "threw"
          written,      \* how many responses it has written
          consumer,     \* "reading", "awaiting" (writeTask), "done", "failed" or "left"
          seen, got     \* what the method and the consumer were given, in order

vars == <<kind, source, sent, up, down, broken, requests, responses, method, written,
          consumer, seen, got>>
clientVars == <<source, sent, consumer, got>>
serverVars == <<method, written, seen>>

Data(n) == <<"data", n>>
End     == <<"end", 0>>
Failure == <<"error", 0>>

Empty == [queue |-> <<>>, ended |-> FALSE, failed |-> FALSE, asleep |-> FALSE]

Init ==
    /\ kind \in {"server", "client", "bidi"}
    /\ source = IF kind = "server" THEN "ended" ELSE "open"
    /\ method = IF kind = "server" THEN "told" ELSE "running"
    /\ sent = 0 /\ written = 0 /\ up = <<>> /\ down = <<>> /\ broken = FALSE
    /\ requests = Empty /\ responses = Empty
    /\ consumer = "reading" /\ seen = <<>> /\ got = <<>>

------------------------------------------------------------------------------
(* Events and those who wait for them *)

\* Mutant: an end wakes up nobody.
ReceiveQuietly(box, event) ==
    [queue  |-> IF event[1] = "data" THEN Append(box.queue, event[2]) ELSE box.queue,
     ended  |-> box.ended \/ event = End,
     failed |-> box.failed \/ event = Failure,
     asleep |-> box.asleep /\ event = End]

\* call.on("data" | "end" | "error"), each of which wakes up the reader.
Receive(box, event) ==
    [queue  |-> IF event[1] = "data" THEN Append(box.queue, event[2]) ELSE box.queue,
     ended  |-> box.ended \/ event = End,
     failed |-> box.failed \/ event = Failure,
     asleep |-> FALSE]

Nothing(box) == ~box.asleep /\ box.queue = <<>>

\* Mutant: the end is asked for before the queue.
ToldEndEarly(box) == ~box.asleep /\ box.ended /\ (kind = "bidi" \/ ~box.failed)

\* What the next round of a reading loop finds.  iterRequest and bidiClientImpl
\* ask for the end before they ask for an error, an iterator of grpc-js after.
Message(box)  == ~box.asleep /\ box.queue # <<>>
ToldEnd(box)  == Nothing(box) /\ box.ended /\ (kind = "bidi" \/ ~box.failed)
ToldError(box) == Nothing(box) /\ box.failed /\ ~ToldEnd(box)
Sleep(box)    == Nothing(box) /\ ~box.ended /\ ~box.failed

EmitUp ==
    /\ up # <<>>
    /\ requests' = Receive(requests, Head(up)) /\ up' = Tail(up)
    /\ UNCHANGED <<kind, clientVars, serverVars, down, broken, responses>>

EmitDown ==
    /\ down # <<>>
    /\ responses' = Receive(responses, Head(down)) /\ down' = Tail(down)
    /\ UNCHANGED <<kind, clientVars, serverVars, up, broken, requests>>

Upwards(events)   == up' = IF broken THEN up ELSE up \o events
Downwards(events) == down' = IF broken THEN down ELSE down \o events

Break ==
    /\ ~broken /\ ~responses.ended /\ ~responses.failed
    /\ broken' = TRUE /\ up' = <<>> /\ down' = <<Failure, End>>
    /\ requests' \in {requests, Receive(requests, Failure)}
    /\ UNCHANGED <<kind, clientVars, serverVars, responses>>

------------------------------------------------------------------------------
(* The client: writeTask and the loop that yields *)

Write ==
    /\ source = "open" /\ sent < MaxRequests
    /\ sent' = sent + 1 /\ Upwards(<<Data(sent')>>)
    /\ UNCHANGED <<kind, serverVars, source, consumer, got, down, broken, requests, responses>>

SourceEnds ==
    /\ source = "open"
    /\ source' = "ended" /\ Upwards(<<End>>)
    /\ UNCHANGED <<kind, serverVars, sent, consumer, got, down, broken, requests, responses>>

\* Only bidiClientImpl ends the call of a source that throws; the promise of
\* client streaming is rejected instead.
SourceFails ==
    /\ source = "open"
    /\ source' = "failed"
    /\ IF kind = "bidi"
       THEN Upwards(<<End>>) /\ UNCHANGED consumer
       ELSE /\ consumer' = IF consumer = "reading" THEN "failed" ELSE consumer
            /\ UNCHANGED up
    /\ UNCHANGED <<kind, serverVars, sent, got, down, broken, requests, responses>>

ConsumerReads ==
    /\ consumer = "reading"
    /\ \/ /\ Message(responses)
          /\ got' = Append(got, Head(responses.queue))
          /\ responses' = [responses EXCEPT !.queue = Tail(@)]
          /\ UNCHANGED consumer
       \/ /\ ToldEnd(responses)
          /\ consumer' = IF kind = "bidi" THEN "awaiting" ELSE "done"
          /\ UNCHANGED <<got, responses>>
       \/ /\ ToldError(responses)
          /\ consumer' = "failed"
          /\ UNCHANGED <<got, responses>>
       \/ /\ Sleep(responses)
          /\ responses' = [responses EXCEPT !.asleep = TRUE]
          /\ UNCHANGED <<got, consumer>>
    /\ UNCHANGED <<kind, source, sent, serverVars, up, down, broken, requests>>

\* await writeTask
ConsumerAwaits ==
    /\ consumer = "awaiting" /\ source # "open"
    /\ consumer' = IF source = "ended" THEN "done" ELSE "failed"
    /\ UNCHANGED <<kind, source, sent, got, serverVars, up, down, broken, requests, responses>>

\* A `break` out of the loop over the responses.
ConsumerLeaves ==
    /\ consumer = "reading" /\ kind # "client" /\ ~responses.asleep
    /\ consumer' = "left"
    /\ UNCHANGED <<kind, source, sent, got, serverVars, up, down, broken, requests, responses>>

------------------------------------------------------------------------------
(* The server *)

MethodThrows ==
    /\ method \in {"running", "told"}
    /\ method' = "threw" /\ Downwards(<<Failure, End>>)
    /\ UNCHANGED <<kind, clientVars, written, seen, up, broken, requests, responses>>

MethodReads ==
    /\ method = "running"
    /\ \/ /\ Message(requests)
          /\ seen' = Append(seen, Head(requests.queue))
          /\ requests' = [requests EXCEPT !.queue = Tail(@)]
          /\ UNCHANGED <<method, down>>
       \/ /\ ToldEnd(requests)
          /\ method' = "told"
          /\ UNCHANGED <<seen, requests, down>>
       \/ /\ ToldError(requests)
          /\ method' = "threw" /\ Downwards(<<Failure, End>>)
          /\ UNCHANGED <<seen, requests>>
       \/ /\ Sleep(requests)
          /\ requests' = [requests EXCEPT !.asleep = TRUE]
          /\ UNCHANGED <<method, seen, down>>
    /\ UNCHANGED <<kind, clientVars, written, up, broken, responses>>

MethodYields ==
    /\ method \in {"running", "told"} /\ kind # "client" /\ written < MaxResponses
    /\ written' = written + 1 /\ Downwards(<<Data(written')>>)
    /\ UNCHANGED <<kind, clientVars, method, seen, up, broken, requests, responses>>

\* call.end(), or the callback with the one response.
MethodReturns ==
    /\ method \in {"running", "told"}
    /\ method' = "returned"
    /\ IF kind = "client" THEN written' = 1 /\ Downwards(<<Data(1), End>>)
       ELSE Downwards(<<End>>) /\ UNCHANGED written
    /\ UNCHANGED <<kind, clientVars, seen, up, broken, requests, responses>>

Next ==
    \/ EmitUp \/ EmitDown \/ Break
    \/ Write \/ SourceEnds \/ SourceFails \/ ConsumerReads \/ ConsumerAwaits \/ ConsumerLeaves
    \/ MethodThrows \/ MethodReads \/ MethodYields \/ MethodReturns

\* The event loop emits what has arrived and runs who is awake; a method reads
\* its requests to their end, and then returns.
Fairness ==
    /\ WF_vars(EmitUp) /\ WF_vars(EmitDown)
    /\ WF_vars(ConsumerReads) /\ WF_vars(ConsumerAwaits)
    /\ WF_vars(MethodReads) /\ WF_vars(method = "told" /\ MethodReturns)

Spec == Init /\ [][Next]_vars
FairSpec == Spec /\ Fairness

------------------------------------------------------------------------------
Events == {"data", "end", "error"} \X Nat
Boxes  == [queue : Seq(Nat), ended : BOOLEAN, failed : BOOLEAN, asleep : BOOLEAN]

TypeOK ==
    /\ kind \in {"server", "client", "bidi"} /\ source \in {"open", "ended", "failed"}
    /\ method \in {"running", "told", "returned", "threw"}
    /\ consumer \in {"reading", "awaiting", "done", "failed", "left"}
    /\ sent \in Nat /\ written \in Nat /\ broken \in BOOLEAN
    /\ up \in Seq(Events) /\ down \in Seq(Events)
    /\ requests \in Boxes /\ responses \in Boxes
    /\ seen \in Seq(Nat) /\ got \in Seq(Nat)

FirstOf(n) == [i \in 1..n |-> i]

\* What is handed over is what was written, in order and nothing twice; a method
\* is told that its requests end when it has had all of them, also those that
\* had not been read when the end arrived, and a consumer that comes to a normal
\* end has had every response of a method that returned.  An exception: for a
\* bidirectional call the error of a method that threw, or of a connection that
\* broke, is not noticed when the end that follows it is emitted before the
\* reader runs.
Faithful ==
    /\ Len(seen) <= sent /\ seen = FirstOf(Len(seen))
    /\ Len(got) <= written /\ got = FirstOf(Len(got))
    /\ method = "told" /\ kind # "server" => source # "open" /\ Len(seen) = sent
    /\ consumer \in {"awaiting", "done"} =>
          \/ method = "returned" /\ Len(got) = written
          \/ kind = "bidi" /\ (broken \/ method = "threw")

\* Once its source has ended, or has thrown, a call is over for the one who reads
\* the responses, although messages and ends arrive while nobody or somebody
\* waits for them; and so it is for the method, but where the connection broke or
\* a source of client streaming threw, which leaves the server waiting.
EveryCallEnds ==
    source # "open" ~> /\ consumer \in {"done", "failed", "left"}
                       /\ \/ method \in {"returned", "threw"}
                          \/ broken \/ (kind = "client" /\ source = "failed")
==============================================================================

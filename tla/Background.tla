----------------------------- MODULE Background ------------------------------
(***************************************************************************)
(* Work that goes on beside the requests, side by side: the queue service, *)
(* the search for the next instant of a cron expression, a streaming gRPC  *)
(* call and a stream of server-sent events.  What is promised of each is   *)
(* stated here under its own name.                                         *)
(***************************************************************************)
EXTENDS QueueService

CONSTANTS Exprs, Starts, FirstDay, Year, Week, Hours, Minutes, Span, MaxStalls, \* of Cron
          MaxRequests, MaxResponses,                                            \* of GrpcStream
          Callbacks, MaxWrites                                                  \* of SseStream

VARIABLES expr, start, cur, stalls, outcome,
          kind, source, sent, up, down, broken, requests, responses, method, written,
          consumer, seen, got,
          handler, asked, closed, closing, aborted, pending, registered, fresh, ran

queueVars == vars
cronVars  == <<expr, start, cur, stalls, outcome>>
grpcVars  == <<kind, source, sent, up, down, broken, requests, responses, method, written,
               consumer, seen, got>>
sseVars   == <<handler, asked, closed, closing, aborted, pending, registered, fresh, ran>>

Cron == INSTANCE Cron
Grpc == INSTANCE GrpcStream
Sse  == INSTANCE SseStream

ASSUME CalendarAssumption == Cron!CalendarAssumption /\ Cron!SpanAssumption
ASSUME WritesAssumption == MaxWrites \in Nat

FindsTheFirst  == Cron!FindsTheFirst
Faithful       == Grpc!Faithful
ClosesCleanly  == Sse!ClosesCleanly
OpenUntilAsked == Sse!OpenUntilAsked
==============================================================================

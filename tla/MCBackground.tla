---------------------------- MODULE MCBackground -----------------------------
(***************************************************************************)
(* The work beside the requests in one configuration.  A behaviour         *)
(* exercises the part named by `part`; the variables of the others rest.   *)
(***************************************************************************)
EXTENDS Background, MCQueueService, SmallCalendar

VARIABLE part

all == <<part, queueVars, cronVars, grpcVars, sseVars>>

MCStarts == {t \in FirstYear : t.hour = 0 /\ t.minute = 1}

PartsInit ==
    /\ part \in {"queue", "cron", "grpc", "sse"}
    /\ Init
    /\ Cron!Init
    /\ part # "cron" => /\ expr \in Monthly
                       /\ start = [day |-> 0, hour |-> 0, minute |-> 1]
    /\ Grpc!Init /\ (part # "grpc" => kind = "server")
    /\ Sse!Init

Queues   == part = "queue" /\ Next /\ UNCHANGED <<part, cronVars, grpcVars, sseVars>>
Searches == part = "cron" /\ Cron!Next /\ UNCHANGED <<part, queueVars, grpcVars, sseVars>>
Calling  == part = "grpc" /\ Grpc!Next /\ UNCHANGED <<part, queueVars, cronVars, sseVars>>
Sending  == part = "sse" /\ Sse!Next /\ UNCHANGED <<part, queueVars, cronVars, grpcVars>>

PartsNext == Queues \/ Searches \/ Calling \/ Sending

\* The fairness of each part, as its module states it.
QueueFairness ==
    /\ WF_queueVars(part = "queue" /\ Tick)
    /\ WF_queueVars(part = "queue" /\ Sweep)
    /\ \A k \in Calls : /\ WF_queueVars(part = "queue" /\ Poll(k))
                       /\ WF_queueVars(part = "queue" /\ Close(k))
    /\ \A j \in Jobs : /\ WF_queueVars(part = "queue" /\ Ripen(j))
                      /\ SF_queueVars(part = "queue" /\ Settle(j))

CronFairness == WF_cronVars(part = "cron" /\ Cron!Next)

GrpcFairness ==
    /\ WF_grpcVars(part = "grpc" /\ Grpc!EmitUp)
    /\ WF_grpcVars(part = "grpc" /\ Grpc!EmitDown)
    /\ WF_grpcVars(part = "grpc" /\ Grpc!ConsumerReads)
    /\ WF_grpcVars(part = "grpc" /\ Grpc!ConsumerAwaits)
    /\ WF_grpcVars(part = "grpc" /\ Grpc!MethodReads)
    /\ WF_grpcVars(part = "grpc" /\ method = "told" /\ Grpc!MethodReturns)

PartsSpec == PartsInit /\ [][PartsNext]_all /\ QueueFairness /\ CronFairness /\ GrpcFairness

Ends          == part = "cron" => Cron!Ends
EveryCallEnds == part = "grpc" => Grpc!EveryCallEnds
==============================================================================

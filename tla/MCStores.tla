------------------------------ MODULE MCStores -------------------------------
(***************************************************************************)
(* The stores in one configuration.  A behaviour exercises the one named   *)
(* by `part`; the variables of the others rest.                            *)
(***************************************************************************)
EXTENDS Stores

CONSTANT t1

VARIABLE part

all == <<part, limiterVars, cacheVars, sessionVars, roomVars, summaryVars>>

\* Two keys with one tag, in a memory store with room for one of them.
MCTagsOf == [k \in Keys |-> {t1}]

\* Nothing is promised of sessions in Redis to a program that lets operations of
\* a login overlap.
PartsInit ==
    /\ part \in {"limiter", "cache", "session", "rooms", "summary"}
    /\ Limiter!Init
    /\ Init
    /\ Session!Init /\ (sessionOn = "redis" => sessionUse # "any")
    /\ Rooms!Init /\ Summary!Init
    /\ part # "limiter" => limiterOn = "memory" /\ strategy = "fixed-window" /\ serial
    /\ part # "cache" => backend = "memory" /\ program = "any" /\ style = "tagged"
    /\ part # "session" => sessionOn = "memory" /\ sessionUse = "any"
    /\ part # "rooms" => roomUse = "any"

Limits ==
    /\ part = "limiter" /\ Limiter!Next
    /\ UNCHANGED <<part, cacheVars, sessionVars, roomVars, summaryVars>>
Caches ==
    /\ part = "cache" /\ Next
    /\ UNCHANGED <<part, limiterVars, sessionVars, roomVars, summaryVars>>
Sessions ==
    /\ part = "session" /\ Session!Next
    /\ UNCHANGED <<part, limiterVars, cacheVars, roomVars, summaryVars>>
Chats ==
    /\ part = "rooms" /\ Rooms!Next
    /\ UNCHANGED <<part, limiterVars, cacheVars, sessionVars, summaryVars>>
Measures ==
    /\ part = "summary" /\ Summary!Next
    /\ UNCHANGED <<part, limiterVars, cacheVars, sessionVars, roomVars>>

\* The program has used every id, or has stopped changing what is cached.
Rest == part # "limiter" /\ UNCHANGED all

PartsNext == Limits \/ Caches \/ Sessions \/ Chats \/ Measures \/ Rest

\* Time passes for the rate limiter, and the clients go on calling it.
LimiterFairness ==
    /\ WF_limiterVars(part = "limiter" /\ Limiter!Tick)
    /\ WF_limiterVars(part = "limiter" /\ \E c \in Clients : Limiter!Insert(c) \/ Limiter!Update(c))
    /\ WF_limiterVars(part = "limiter" /\ \E c \in Clients : Limiter!Consume(c) \/ Limiter!Select(c))

\* What a client of the cache has begun goes on, and every TTL ends.
CacheFairness ==
    /\ \A c \in Clients : WF_cacheVars(/\ part = "cache"
                                       /\ \/ Fill(c) \/ Write(c)
                                          \/ GcTags(c) \/ GcExists(c) \/ GcSet(c))
    /\ \A k \in Keys : WF_cacheVars(part = "cache" /\ Expire(k))

PartsSpec == PartsInit /\ [][PartsNext]_all /\ LimiterFairness /\ CacheFairness

Persistent == part = "limiter" => Limiter!Persistent
==============================================================================

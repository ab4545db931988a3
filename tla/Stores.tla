------------------------------- MODULE Stores -------------------------------
(***************************************************************************)
(* The packages that keep state, side by side: sessions, cache and rate    *)
(* limiter over their stores, the rooms of the WebSocket service and the   *)
(* window of a summary.  They do not touch each other.  The variables of   *)
(* each are renamed where two of them have one name; what is promised of   *)
(* each is stated here under its own name.                                 *)
(***************************************************************************)
EXTENDS Cache, SessionIds

CONSTANTS Limit, Duration,                \* of Limiter
          Fields,                         \* of Session
          RoomNames,                      \* of Rooms
          AgeBuckets, BucketSize, MaxIdle \* of Summary

VARIABLES limiterOn, strategy, serial, bucket, read, asked, admitted, told,
          sessionOn, sessionUse, store, userIndex, login, ended, using,
          roomUse, socket, clients, joined, rooms,
          elapsed, current, marked, age, rendered

limiterVars == <<limiterOn, strategy, serial, bucket, read, asked, admitted, told>>
cacheVars   == vars
sessionVars == <<sessionOn, sessionUse, store, userIndex, login, ended, using>>
roomVars    == <<roomUse, socket, clients, joined, rooms>>
summaryVars == <<elapsed, current, marked, age, rendered>>

Limiter == INSTANCE Limiter WITH Callers <- Clients, backend <- limiterOn

Session == INSTANCE Session WITH
    backend <- sessionOn, program <- sessionUse, index <- userIndex, op <- using

Rooms == INSTANCE Rooms WITH program <- roomUse

Summary == INSTANCE Summary

ASSUME WindowAssumption ==
    AgeBuckets \in Nat \ {0} /\ BucketSize \in Nat \ {0} /\ MaxIdle \in Nat

ASSUME RuleAssumption == Limiter!RuleAssumption

WindowLimit      == Limiter!WindowLimit
RetryAfterHonest == Limiter!RetryAfterHonest
SignOutHolds     == Session!SignOutHolds
ImplementsLife   == Session!ImplementsLife
RoomsReach       == Rooms!RoomsReach
WindowKept       == Summary!WindowKept
==============================================================================

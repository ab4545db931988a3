------------------------------- MODULE Session -------------------------------
(***************************************************************************)
(* SessionService of packages/session/src over its three server-side       *)
(* storages: backends/memory.ts, where a storage call is one run of        *)
(* JavaScript, backends/redis.ts, where each GET, SET and DEL is an await, *)
(* and backends/drizzle.ts, where each statement is.                       *)
(*                                                                         *)
(* An operation is a plan, the calls it has still to make; between two of  *)
(* them other operations run and sessions lapse.  One user signs in; a     *)
(* record holds the fields patched so far.  Listening, paging and the      *)
(* read that destroy() of the service begins with change nothing.          *)
(***************************************************************************)
EXTENDS Naturals, Sequences, SessionIds

CONSTANTS Clients,
          Fields    \* what dataPatch may add

VARIABLES backend,  \* parameter: "memory", "redis" or "sql"
          program,  \* parameter: what may overlap
          store,    \* the records
          index,    \* redis: the ids under the key of the user
          login,    \* history: the login each id stands for
          ended,    \* history: the ids that were destroyed
          op        \* what each client is doing

vars == <<backend, program, store, index, login, ended, op>>
setting == <<backend, program>>

NoRecord == [here |-> FALSE, user |-> FALSE, data |-> {}]
NoOp     == [plan |-> <<>>, id |-> NoLogin, to |-> NoLogin, add |-> {}, user |-> FALSE,
             rec |-> NoRecord, seen |-> {}, look |-> {}, found |-> {}]

Init ==
    /\ backend \in {"memory", "redis", "sql"}
    /\ program \in {"any", "careful", "serial"}
    /\ store = [id \in Ids |-> NoRecord]
    /\ index = {}
    /\ login = [id \in Ids |-> NoLogin]
    /\ ended = {}
    /\ op = [c \in Clients |-> NoOp]

------------------------------------------------------------------------------
(* Operations.  A careful program has one at a time on each login, a serial *)
(* one has one at a time.                                                   *)

Busy == {c \in Clients : op[c] # NoOp}
Used(id) == login[id] # NoLogin
Unused(id) == ~Used(id) /\ \A c \in Clients : op[c].to # id

MayUse(id) ==
    \/ program = "any"
    \/ program = "careful" /\ \A c \in Busy : login[op[c].id] # login[id]
    \/ Busy = {}

MayBegin == program # "serial" \/ Busy = {}

\* The calls of the operations.
CreatePlan == IF backend = "redis" THEN <<"put", "getindex", "add">> ELSE <<"put">>
PatchPlan  == IF backend = "redis" THEN <<"get", "put", "getindex", "add">> ELSE <<"patch">>
DestroyPlan ==
    CASE backend = "memory" -> <<"del">>
      [] backend = "sql"    -> <<"get", "del">>
      [] backend = "redis"  -> <<"get", "getindex", "remove", "del">>

Begin(c, plan, id, to, add, user) ==
    /\ op[c] = NoOp
    /\ op' = [op EXCEPT ![c] = [NoOp EXCEPT !.plan = plan, !.id = id, !.to = to,
                                            !.add = add, !.user = user]]
    /\ UNCHANGED <<setting, store, index, login, ended>>

\* create(): only Redis stores the user.
Create(c, id, fs) ==
    /\ Unused(id) /\ MayBegin
    /\ \E user \in {FALSE, backend = "redis"} :
          Begin(c, CreatePlan, id, id, fs, user)

\* update() with a patch, or, in Redis, with the user who signs in.
Update(c, id, f) ==
    /\ Used(id) /\ MayUse(id)
    /\ \E user \in {FALSE, backend = "redis"} : Begin(c, PatchPlan, id, id, {f}, user)

\* touch() of Redis; elsewhere it changes times only.
Touch(c, id) ==
    /\ backend = "redis" /\ Used(id) /\ MayUse(id)
    /\ Begin(c, <<"get", "put">>, id, id, {}, FALSE)

Destroy(c, id) == Used(id) /\ MayUse(id) /\ Begin(c, DestroyPlan, id, id, {}, FALSE)

\* rotate(): a new record with the data, but without the user, and destroy().
Rotate(c, id, new) ==
    /\ Used(id) /\ MayUse(id) /\ Unused(new)
    /\ Begin(c, <<"get", "put">> \o DestroyPlan, id, new, {}, FALSE)

\* destroyMany({ userId }), which in memory and in SQL finds nobody.
SignOutAll(c) ==
    /\ backend = "redis" /\ program # "careful" /\ MayBegin
    /\ Begin(c, <<"list">>, NoLogin, NoLogin, {}, FALSE)

------------------------------------------------------------------------------
(* The calls *)

\* The client has made its call; without a plan and a list it returns.
Proceed(c, o) ==
    op' = [op EXCEPT ![c] = IF o.plan = <<>> /\ o.look = {} /\ o.found = {} THEN NoOp ELSE o]

Calls(c, call) == op[c].plan # <<>> /\ Head(op[c].plan) = call
Rest(c) == [op[c] EXCEPT !.plan = Tail(@)]

\* The record; whoever finds none gives up.
Get(c) ==
    /\ Calls(c, "get")
    /\ LET r == store[op[c].id]
       IN  Proceed(c, IF r.here THEN [Rest(c) EXCEPT !.rec = r] ELSE [op[c] EXCEPT !.plan = <<>>])
    /\ UNCHANGED <<setting, store, index, login, ended>>

\* What an operation has read; the memory storage hands out the record itself.
Read(o) == IF backend = "memory" /\ store[o.id].here THEN store[o.id] ELSE o.rec

\* Mutant: the record is written with the patch only.
PutPatch(c) ==
    /\ Calls(c, "put")
    /\ LET o == op[c]
       IN  /\ store' = [store EXCEPT ![o.to] =
                           [here |-> TRUE, user |-> o.user \/ (o.id = o.to /\ o.rec.user),
                            data |-> o.add]]
           /\ login' = [login EXCEPT ![o.to] = IF o.rec.here THEN login[o.id] ELSE o.to]
           /\ Proceed(c, [Rest(c) EXCEPT !.user = store'[o.to].user, !.rec = NoRecord, !.add = {}])
    /\ UNCHANGED <<setting, index, ended>>

\* All of the record that was read is written back, whatever happened since.
Put(c) ==
    /\ Calls(c, "put")
    /\ LET o == op[c]
       IN  /\ store' = [store EXCEPT ![o.to] =
                           [here |-> TRUE, user |-> o.user \/ (o.id = o.to /\ o.rec.user),
                            data |-> Read(o).data \union o.add]]
           /\ login' = [login EXCEPT ![o.to] = IF o.rec.here THEN login[o.id] ELSE o.to]
           /\ Proceed(c, [Rest(c) EXCEPT !.user = store'[o.to].user, !.rec = NoRecord, !.add = {}])
    /\ UNCHANGED <<setting, index, ended>>

\* Mutant: the record is stored again if it has gone.
PatchUpsert(c) ==
    /\ Calls(c, "patch")
    /\ store' = [store EXCEPT ![op[c].id] = [here |-> TRUE, user |-> FALSE,
                                             data |-> @.data \union op[c].add]]
    /\ Proceed(c, Rest(c))
    /\ UNCHANGED <<setting, index, login, ended>>

\* The memory storage merges the patch; the UPDATE of SQL stores it as the data.
Patch(c) ==
    /\ Calls(c, "patch")
    /\ store' = IF store[op[c].id].here
                THEN [store EXCEPT ![op[c].id].data =
                         op[c].add \union (IF backend = "memory" THEN @ ELSE {})]
                ELSE store
    /\ Proceed(c, Rest(c))
    /\ UNCHANGED <<setting, index, login, ended>>

Del(c) ==
    /\ Calls(c, "del")
    /\ store' = [store EXCEPT ![op[c].id] = NoRecord]
    /\ ended' = IF store[op[c].id].here THEN ended \union {op[c].id} ELSE ended
    /\ Proceed(c, Rest(c))
    /\ UNCHANGED <<setting, index, login>>

\* addToIndex, removeFromIndex: GET, if there is a user, then SET or DEL; nothing
\* is removed from an index that is not there.
GetIndex(c) ==
    /\ Calls(c, "getindex")
    /\ Proceed(c, IF op[c].user \/ op[c].rec.user THEN [Rest(c) EXCEPT !.seen = index]
                  ELSE [op[c] EXCEPT !.plan = Tail(Tail(@))])
    /\ UNCHANGED <<setting, store, index, login, ended>>

\* Mutant: the id goes in place of what was read.
SetIndexAlone(c) ==
    /\ Calls(c, "add") \/ Calls(c, "remove")
    /\ index' = IF Calls(c, "add") THEN {op[c].id} ELSE op[c].seen \ {op[c].id}
    /\ Proceed(c, [Rest(c) EXCEPT !.seen = {}])
    /\ UNCHANGED <<setting, store, login, ended>>

SetIndex(c) ==
    /\ Calls(c, "add") \/ Calls(c, "remove")
    /\ index' = IF Calls(c, "add") THEN op[c].seen \union {op[c].id} ELSE IF op[c].seen = {} THEN index
                ELSE op[c].seen \ {op[c].id}
    /\ Proceed(c, [Rest(c) EXCEPT !.seen = {}])
    /\ UNCHANGED <<setting, store, login, ended>>

\* readMany(): the ids of the user, then each record; who has none leaves the index.
List(c) ==
    /\ Calls(c, "list")
    /\ Proceed(c, [Rest(c) EXCEPT !.look = index])
    /\ UNCHANGED <<setting, store, index, login, ended>>

LookNext(c) ==
    /\ op[c].plan = <<>>
    /\ \E id \in op[c].look :
          Proceed(c, IF store[id].here
                     THEN [op[c] EXCEPT !.look = @ \ {id}, !.found = @ \union {id}]
                     ELSE [op[c] EXCEPT !.look = @ \ {id}, !.id = id, !.user = TRUE,
                                        !.plan = <<"getindex", "remove">>])
    /\ UNCHANGED <<setting, store, index, login, ended>>

\* Then destroy() of each that was found.
DestroyNext(c) ==
    /\ op[c].plan = <<>> /\ op[c].look = {}
    /\ \E id \in op[c].found :
          op' = [op EXCEPT ![c] = [NoOp EXCEPT !.plan = DestroyPlan, !.id = id, !.to = id,
                                               !.found = op[c].found \ {id}]]
    /\ UNCHANGED <<setting, store, index, login, ended>>

Work(c) ==
    \/ Get(c) \/ Put(c) \/ Patch(c) \/ Del(c) \/ GetIndex(c) \/ SetIndex(c)
    \/ List(c) \/ LookNext(c) \/ DestroyNext(c)

Operate(c) ==
    \/ \E id \in Ids, fs \in SUBSET Fields : Create(c, id, fs)
    \/ \E id \in Ids, f \in Fields : Update(c, id, f)
    \/ \E id \in Ids : Touch(c, id) \/ Destroy(c, id)
    \/ \E id, new \in Ids : Rotate(c, id, new)
    \/ SignOutAll(c)

\* A record lapses: it is read or swept after its idle or absolute time, Redis
\* evicts it, or the memory storage is full.  SQL, whose reads take no notice of
\* the time, forgets it in gc().
Lapse(id) ==
    /\ store[id].here
    /\ store' = [store EXCEPT ![id] = NoRecord]
    /\ UNCHANGED <<setting, index, login, ended, op>>

Next ==
    \/ \E c \in Clients : Operate(c) \/ Work(c)
    \/ \E id \in Ids : Lapse(id)

Spec == Init /\ [][Next]_vars
------------------------------------------------------------------------------
(* Properties *)

\* An id that was destroyed, by a sign-out or by a rotation, is never good again:
\* in memory and in SQL whatever runs beside it, in Redis if the program runs
\* one operation of a login at a time (memory.ts:129-155, drizzle.ts:141-185,
\* redis.ts:185-225, session.service.ts:200-216).
StaysOut ==
    backend # "redis" \/ program # "any" => \A id \in ended : ~store[id].here

\* Between two operations of a serial program the index of the user has every
\* session signed in, or destroyMany({ userId }) would spare it
\* (redis.ts:127, 147-183, 212-225, 305-327).
IndexReaches ==
    backend = "redis" /\ program = "serial" /\ Busy = {} =>
        \A id \in Ids : store[id].here /\ store[id].user => id \in index

\* Who signs out, or is signed out everywhere, stays out: the two together.
SignOutHolds == StaysOut /\ IndexReaches

\* Those who have read the record and will write it.
Holders(l) ==
    {c \in Busy : /\ op[c].rec.here /\ login[op[c].id] = l
                  /\ \E i \in 1..Len(op[c].plan) : op[c].plan[i] = "put"}
Records(l) == {id \in Ids : login[id] = l /\ store[id].here}

\* A login goes on in its records and in whoever has read one of them to write it.
Live(l) == Records(l) # {} \/ Holders(l) # {}
Phase(l) == IF Live(l) THEN "live" ELSE IF login[l] = l THEN "over" ELSE "none"
Gathered(l) ==
    UNION ({store[id].data : id \in Records(l)} \union {op[c].rec.data : c \in Holders(l)})

Life == INSTANCE SessionLife WITH
    Logins <- Ids,
    phase <- [l \in Ids |-> Phase(l)],
    gathered <- [l \in Ids |-> Gathered(l)]

Promised == program # "any" /\ backend # "sql"

\* With one operation of a login at a time, its records are one login: nothing
\* ends it and lets it go on, under whichever id, and no patch that was answered
\* is lost by a later one, a touch or a rotation.  SQL, where a patch takes
\* the place of the data, keeps no such promise.
ImplementsLife ==
    /\ Promised => Life!Init
    /\ [][Promised => [Life!Next]_(Life!vars)]_vars
==============================================================================

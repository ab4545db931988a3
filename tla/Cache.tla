-------------------------------- MODULE Cache --------------------------------
(***************************************************************************)
(* The stores of packages/cache/src under clients that fill and writers    *)
(* that invalidate: stores/memory.ts, where every operation is one run of  *)
(* JavaScript, stores/redis.ts and stores/drizzle.ts, where every call of  *)
(* the client and every statement is an await at which others run.         *)
(*                                                                         *)
(* A program uses the cache in one of two styles.  "decorated": @Cacheable *)
(* fills through wrap() and @CacheInvalidate clears the pattern of the key *)
(* after the change.  "tagged": fills are get(), compute and set() with    *)
(* tags, and a writer invalidates one of the tags.  Either may delete().   *)
(*                                                                         *)
(* A value is the version of the data it was computed from.  Time is what  *)
(* makes an entry expire; every entry has a TTL (CacheService's default).  *)
(* Which entry the memory store evicts is left open.                       *)
(***************************************************************************)
EXTENDS Naturals, FiniteSets

CONSTANTS Keys, Tags, Clients,
          TagsOf,      \* the tags with which each key is stored
          MaxEntries,  \* opts.max of the memory store
          MaxVersion   \* bound: versions of a datum

ASSUME TagsAssumption == TagsOf \in [Keys -> SUBSET Tags]

VARIABLES backend,  \* parameter: "memory", "redis" or "sql"
          program,  \* parameter: what may overlap
          style,    \* parameter: "decorated" or "tagged"
          data,     \* the entries
          index,    \* tagIndex, the tag keys of Redis, the tags table
          truth,    \* the present version of what is cached under each key
          op        \* what each client is doing

vars == <<backend, program, style, data, index, truth, op>>
setting == <<backend, program, style>>

NoEntry == [ver |-> 0, tags |-> {}, old |-> FALSE]
NoOp    == [do |-> "idle", key |-> "-", ver |-> 0, tag |-> "-", rest |-> {}, seen |-> {}]

Present(k) == data[k].ver # 0

\* Mutant: an entry is good for ever.
LiveForever(k) == Present(k)

\* What get() returns.
Live(k) == Present(k) /\ ~data[k].old

Init ==
    /\ backend \in {"memory", "redis", "sql"}
    /\ program \in {"any", "calm", "serial"}
    /\ style \in {"decorated", "tagged"}
    /\ data = [k \in Keys |-> NoEntry]
    /\ index = [t \in Tags |-> {}]
    /\ truth = [k \in Keys |-> 1]
    /\ op = [c \in Clients |-> NoOp]

------------------------------------------------------------------------------
(* What may overlap.  Writing covers a change and its invalidation.  In a   *)
(* calm program no write overlaps anything; in a serial one nothing does.   *)

Filling == {"compute", "set", "settag", "tagseen", "untag", "tagrow"}
Doing(what) == {c \in Clients : op[c].do \in what}
Busy == {c \in Clients : op[c].do # "idle"}

MayFill  == program = "any" \/ (program = "calm" /\ Busy = Doing(Filling)) \/ Busy = {}
MayWrite == program = "any" \/ Busy = {}

At(c, what) == op[c].do = what

\* The client goes on to its next call.
Goto(c, what) == op' = [op EXCEPT ![c].do = what]
Done(c)       == op' = [op EXCEPT ![c] = NoOp]

------------------------------------------------------------------------------
(* Filling: wrap(), or get(), compute and set() *)

Drop(ks) == [k \in Keys |-> IF k \in ks THEN NoEntry ELSE data[k]]
Unindexed(ks) == [t \in Tags |-> index[t] \ ks]

\* get() finds nothing.  The memory store deletes what has expired, the SQL
\* store begins a delete().
Miss(c, k) ==
    /\ op[c] = NoOp /\ MayFill /\ ~Live(k)
    /\ op' = [op EXCEPT ![c] =
                 [NoOp EXCEPT !.key = k,
                              !.do = IF backend = "sql" /\ Present(k) THEN "expired" ELSE "compute"]]
    /\ data' = IF backend = "memory" THEN Drop({k}) ELSE data
    /\ UNCHANGED <<setting, index, truth>>

\* fn() reads the data.
Compute(c) ==
    /\ At(c, "compute")
    /\ op' = [op EXCEPT ![c].do = "set", ![c].ver = truth[op[c].key]]
    /\ UNCHANGED <<setting, data, index, truth>>

GivenTags(k) == IF style = "tagged" THEN TagsOf[k] ELSE {}
Entry(c) == [ver |-> op[c].ver, tags |-> GivenTags(op[c].key), old |-> FALSE]

\* set() of the memory store, which evicts one entry when it is full, and
\* refreshes the index only if it is given tags.
SetMemory(c) ==
    /\ At(c, "set") /\ backend = "memory"
    /\ LET k    == op[c].key
           full == ~Present(k) /\ Cardinality({x \in Keys : Present(x)}) >= MaxEntries
       IN  \E out \in IF full THEN {{x} : x \in {y \in Keys : Present(y)}} ELSE {{}} :
              /\ data' = [Drop(out) EXCEPT ![k] = Entry(c)]
              /\ index' = [t \in Tags |->
                             IF GivenTags(k) = {} THEN index[t] \ out
                             ELSE (index[t] \ (out \union {k}))
                                     \union (IF t \in GivenTags(k) THEN {k} ELSE {})]
    /\ Done(c)
    /\ UNCHANGED <<setting, truth>>

\* The SET of Redis, the upsert of SQL; the tags follow.
SetRemote(c) ==
    /\ At(c, "set") /\ backend # "memory"
    /\ data' = [data EXCEPT ![op[c].key] = Entry(c)]
    /\ IF GivenTags(op[c].key) = {} THEN Done(c)
       ELSE op' = [op EXCEPT ![c].do = IF backend = "redis" THEN "settag" ELSE "untag",
                             ![c].rest = GivenTags(op[c].key)]
    /\ UNCHANGED <<setting, index, truth>>

\* #addToTagIndex of Redis: GET, then SET of what was read and the key.
TagGet(c) ==
    /\ At(c, "settag")
    /\ \E t \in op[c].rest :
          op' = [op EXCEPT ![c].do = "tagseen", ![c].tag = t, ![c].seen = index[t]]
    /\ UNCHANGED <<setting, data, index, truth>>

\* Mutant: the array that was read is not written back.
TagSetAlone(c) ==
    /\ At(c, "tagseen")
    /\ index' = [index EXCEPT ![op[c].tag] = {op[c].key}]
    /\ IF op[c].rest = {op[c].tag} THEN Done(c)
       ELSE op' = [op EXCEPT ![c].do = "settag", ![c].rest = @ \ {op[c].tag}]
    /\ UNCHANGED <<setting, data, truth>>

TagSet(c) ==
    /\ At(c, "tagseen")
    /\ index' = [index EXCEPT ![op[c].tag] = op[c].seen \union {op[c].key}]
    /\ IF op[c].rest = {op[c].tag} THEN Done(c)
       ELSE op' = [op EXCEPT ![c].do = "settag", ![c].rest = @ \ {op[c].tag}]
    /\ UNCHANGED <<setting, data, truth>>

\* SQL: the tags of the key are deleted, then inserted one by one.
Untag(c) ==
    /\ At(c, "untag")
    /\ index' = Unindexed({op[c].key})
    /\ Goto(c, "tagrow")
    /\ UNCHANGED <<setting, data, truth>>

TagRow(c) ==
    /\ At(c, "tagrow")
    /\ \E t \in op[c].rest :
          /\ index' = [index EXCEPT ![t] = @ \union {op[c].key}]
          /\ IF op[c].rest = {t} THEN Done(c) ELSE op' = [op EXCEPT ![c].rest = @ \ {t}]
    /\ UNCHANGED <<setting, data, truth>>

Fill(c) ==
    \/ \E k \in Keys : Miss(c, k)
    \/ Compute(c) \/ SetMemory(c) \/ SetRemote(c)
    \/ TagGet(c) \/ TagSet(c) \/ Untag(c) \/ TagRow(c)

------------------------------------------------------------------------------
(* Writing: the change, then one invalidation *)

Change(c, k) ==
    /\ op[c] = NoOp /\ MayWrite /\ truth[k] < MaxVersion
    /\ truth' = [truth EXCEPT ![k] = @ + 1]
    /\ \E how \in {"delete"} \union (IF style = "tagged" THEN {"invalidate"} ELSE {"clear"}) :
       \E t \in IF how = "invalidate" THEN TagsOf[k] ELSE {"-"} :
          op' = [op EXCEPT ![c] = [NoOp EXCEPT !.do = how, !.key = k, !.tag = t]]
    /\ UNCHANGED <<setting, data, index>>

\* Mutant: invalidateByTag() drops the tag and keeps the entries.
InvalidateMemoryTagOnly(c) ==
    /\ At(c, "invalidate") /\ backend = "memory"
    /\ index' = [index EXCEPT ![op[c].tag] = {}]
    /\ Done(c)
    /\ UNCHANGED <<setting, data, truth>>

\* The memory store: the entries of the tag go, and the tag; the keys stay under
\* their other tags.
InvalidateMemory(c) ==
    /\ At(c, "invalidate") /\ backend = "memory"
    /\ data' = Drop(index[op[c].tag])
    /\ index' = [index EXCEPT ![op[c].tag] = {}]
    /\ Done(c)
    /\ UNCHANGED <<setting, truth>>

\* Redis reads the tag's array, SQL its rows; with none the call returns.
InvalidateRead(c) ==
    /\ At(c, "invalidate") /\ backend # "memory"
    /\ IF index[op[c].tag] = {} THEN Done(c)
       ELSE op' = [op EXCEPT ![c].do = "sweep", ![c].seen = index[op[c].tag],
                             ![c].rest = index[op[c].tag]]
    /\ UNCHANGED <<setting, data, index, truth>>

\* Redis deletes key after key, SQL all of them in one statement.
InvalidateSweep(c) ==
    /\ At(c, "sweep")
    /\ \E ks \in IF backend = "redis" THEN {{k} : k \in op[c].rest} ELSE {op[c].rest} :
          /\ data' = Drop(ks)
          /\ op' = [op EXCEPT ![c].rest = @ \ ks,
                              ![c].do = IF @ = "sweep" /\ op[c].rest = ks THEN "droptag" ELSE @]
    /\ UNCHANGED <<setting, index, truth>>

\* Redis deletes the tag's array, SQL all tag rows of the keys it has read.
InvalidateDrop(c) ==
    /\ At(c, "droptag")
    /\ index' = IF backend = "redis" THEN [index EXCEPT ![op[c].tag] = {}]
                ELSE Unindexed(op[c].seen)
    /\ Done(c)
    /\ UNCHANGED <<setting, data, truth>>

\* delete() and clear(pattern), of the memory store.
DeleteMemory(c) ==
    /\ At(c, "delete") \/ At(c, "clear")
    /\ backend = "memory"
    /\ data' = Drop({op[c].key})
    /\ index' = IF At(c, "clear") /\ ~Present(op[c].key) THEN index ELSE Unindexed({op[c].key})
    /\ Done(c)
    /\ UNCHANGED <<setting, truth>>

\* delete() of Redis, whose GET decides nothing, leaves the tags; clear(pattern)
\* of SQL leaves them too.
DeleteAlone(c) ==
    /\ \/ At(c, "delete") /\ backend = "redis"
       \/ At(c, "clear") /\ backend = "sql"
    /\ data' = Drop({op[c].key})
    /\ Done(c)
    /\ UNCHANGED <<setting, index, truth>>

\* clear() of Redis takes no pattern: it scans for the prefix and deletes all
\* it finds, the arrays of the tags among them.
ClearRedis(c) ==
    /\ At(c, "clear") /\ backend = "redis"
    /\ \E ks \in SUBSET {k \in Keys : Present(k)} :
          /\ op[c].key \in ks \/ ~Present(op[c].key)
          /\ data' = Drop(ks)
    /\ index' = [t \in Tags |-> {}]
    /\ Done(c)
    /\ UNCHANGED <<setting, truth>>

\* delete() of SQL: a probe, the row, its tags.  get() of an expired row does
\* the same and goes on to compute.
Probe(c) ==
    /\ backend = "sql" /\ (At(c, "delete") \/ At(c, "expired"))
    /\ IF Present(op[c].key) THEN Goto(c, IF At(c, "delete") THEN "delrow" ELSE "oldrow")
       ELSE IF At(c, "delete") THEN Done(c) ELSE Goto(c, "compute")
    /\ UNCHANGED <<setting, data, index, truth>>

DeleteRow(c) ==
    /\ At(c, "delrow") \/ At(c, "oldrow")
    /\ data' = Drop({op[c].key})
    /\ Goto(c, IF At(c, "delrow") THEN "deltags" ELSE "oldtags")
    /\ UNCHANGED <<setting, index, truth>>

DeleteTags(c) ==
    /\ At(c, "deltags") \/ At(c, "oldtags")
    /\ index' = Unindexed({op[c].key})
    /\ IF At(c, "deltags") THEN Done(c) ELSE Goto(c, "compute")
    /\ UNCHANGED <<setting, data, truth>>

Write(c) ==
    \/ InvalidateMemory(c) \/ InvalidateRead(c) \/ InvalidateSweep(c) \/ InvalidateDrop(c)
    \/ DeleteMemory(c) \/ DeleteAlone(c) \/ ClearRedis(c)
    \/ Probe(c) \/ DeleteRow(c) \/ DeleteTags(c)

------------------------------------------------------------------------------
(* Time, and the sweeps *)

\* Redis evicts an entry when its TTL is over; the others find out later.
Expire(k) ==
    /\ Live(k)
    /\ data' = IF backend = "redis" THEN Drop({k}) ELSE [data EXCEPT ![k].old = TRUE]
    /\ UNCHANGED <<setting, index, truth, op>>

Stored == {k \in Keys : Present(k)}

\* sweepExpired() of the memory store.
SweepMemory ==
    /\ backend = "memory"
    /\ data' = Drop({k \in Keys : data[k].old})
    /\ index' = [t \in Tags |-> {k \in index[t] : Live(k)}]
    /\ UNCHANGED <<setting, truth, op>>

\* gc() of SQL: the expired rows, then the tag rows without an entry.
GcRows(c) ==
    /\ op[c] = NoOp /\ backend = "sql" /\ MayWrite
    /\ data' = Drop({k \in Keys : data[k].old})
    /\ op' = [op EXCEPT ![c].do = "dangling"]
    /\ UNCHANGED <<setting, index, truth>>

GcTags(c) ==
    /\ At(c, "dangling")
    /\ index' = [t \in Tags |-> index[t] \intersect Stored]
    /\ Done(c)
    /\ UNCHANGED <<setting, data, truth>>

\* gc() of Redis, for one tag: GET, EXISTS of each key, then SET of those
\* found, if some were not.
GcGet(c, t) ==
    /\ op[c] = NoOp /\ backend = "redis" /\ MayWrite /\ index[t] # {}
    /\ op' = [op EXCEPT ![c] = [NoOp EXCEPT !.do = "exists", !.tag = t, !.rest = index[t],
                                            !.seen = index[t]]]
    /\ UNCHANGED <<setting, data, index, truth>>

GcExists(c) ==
    /\ At(c, "exists") \/ At(c, "prune")
    /\ \E k \in op[c].rest :
          op' = IF Present(k) THEN [op EXCEPT ![c].rest = @ \ {k}]
                ELSE [op EXCEPT ![c].rest = @ \ {k}, ![c].seen = @ \ {k}, ![c].do = "prune"]
    /\ UNCHANGED <<setting, data, index, truth>>

GcSet(c) ==
    /\ At(c, "exists") \/ At(c, "prune")
    /\ op[c].rest = {}
    /\ index' = IF At(c, "prune") THEN [index EXCEPT ![op[c].tag] = op[c].seen] ELSE index
    /\ Done(c)
    /\ UNCHANGED <<setting, data, truth>>

Gc(c) == GcRows(c) \/ GcTags(c) \/ (\E t \in Tags : GcGet(c, t)) \/ GcExists(c) \/ GcSet(c)

Next ==
    \/ \E c \in Clients : Fill(c) \/ (\E k \in Keys : Change(c, k)) \/ Write(c) \/ Gc(c)
    \/ \E k \in Keys : Expire(k)
    \/ SweepMemory

Spec == Init /\ [][Next]_vars

------------------------------------------------------------------------------
(* Properties *)

\* The tag index reaches every entry stored with the tag, or an invalidation
\* would leave it: in the memory store at any moment, through eviction, expiry
\* and sets without tags; in the others, which write entry and index in several
\* calls, whenever a serial program is between two operations
\* (memory.ts:48-151; redis.ts:71-101, 125-194; drizzle.ts:111-164, 204-247).
TagIndexCovers ==
    backend = "memory" \/ (program = "serial" /\ Busy = {}) =>
        \A k \in Keys : Live(k) => \A t \in data[k].tags : k \in index[t]

\* What the cache serves is up to date between two operations, if no fill
\* overlaps a change and its invalidation: for the memory store, and for all
\* stores where nothing overlaps at all
\* (memory.ts:83-130; redis.ts:92-182; drizzle.ts:151-229).
Fresh ==
    Busy = {} /\ (program = "serial" \/ (program = "calm" /\ backend = "memory")) =>
        \A k \in Keys : Live(k) => data[k].ver = truth[k]

\* Whatever overlaps, a stale value does not stay: the TTL ends it, and no fill
\* begun after the last change stores it again (memory.ts:35-46, 109-115; redis.ts:56-69; drizzle.ts:89-109).
StaleEnds == <>[](\A k \in Keys : Live(k) => data[k].ver = truth[k])
==============================================================================

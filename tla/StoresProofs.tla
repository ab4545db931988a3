---------------------------- MODULE StoresProofs -----------------------------
(***************************************************************************)
(* Proofs about the stores: Cache for any keys, tags and clients and any   *)
(* bound on the entries of the memory store, the rooms of the WebSocket    *)
(* service for any clients, the window of a summary for any number and     *)
(* size of buckets, and the rate limiter for any limit, duration and       *)
(* number of callers.                                                      *)
(*                                                                         *)
(* The lemma of a step of a client of the cache has always the same        *)
(* layout: what the step leaves alone and what it writes (1), the client's *)
(* new record (2, 3), its place before the step (4, 5), types (6, 7), and  *)
(* the parts of the invariant that the step could disturb (8 to 13);       *)
(* ClientStep does the rest.  An action whose outcome depends on the state *)
(* has a lemma for each outcome; they meet in FillStep, ChangeStep,        *)
(* WriteStep and GcStep.                                                   *)
(***************************************************************************)
EXTENDS Stores, Integers, FiniteSetTheorems, FunctionTheorems, NaturalsInduction,
        WellFoundedInduction, TLAPS

MemoryCalls == {"compute", "set", "delete", "invalidate", "clear"}
RedisCalls  == MemoryCalls \union {"settag", "tagseen", "sweep", "droptag", "exists", "prune"}
SqlCalls    == MemoryCalls \union {"untag", "tagrow", "sweep", "droptag", "expired", "oldrow",
                                   "oldtags", "delrow", "deltags", "dangling"}
AllCalls    == RedisCalls \union SqlCalls

Entries == [ver : Nat, tags : SUBSET Tags, old : BOOLEAN]

Ops == [do : AllCalls \union {"idle"}, key : Keys \union {"-"}, ver : Nat, tag : Tags \union {"-"},
        rest : SUBSET (Keys \union Tags), seen : SUBSET Keys]

TypeOK ==
    /\ backend \in {"memory", "redis", "sql"} /\ style \in {"decorated", "tagged"}
    /\ data \in [Keys -> Entries]
    /\ index \in [Tags -> SUBSET Keys]
    /\ truth \in [Keys -> Nat \ {0}]
    /\ op \in [Clients -> Ops]

\* Each client makes calls of its store, with the arguments they need.
PlacedAt(c) ==
    /\ backend = "memory" => op[c].do \in MemoryCalls \union {"idle"}
    /\ backend = "redis" => op[c].do \in RedisCalls \union {"idle"}
    /\ backend = "sql" => op[c].do \in SqlCalls \union {"idle"}
    /\ op[c].do \notin {"idle", "dangling", "exists", "prune"} => op[c].key \in Keys
    /\ op[c].do \in {"tagseen", "exists", "prune"} => op[c].tag \in Tags
    /\ op[c].do \in {"invalidate", "sweep", "droptag"} => op[c].tag \in GivenTags(op[c].key)
    /\ op[c].do = "set" => op[c].ver # 0
    /\ op[c].do \in {"settag", "tagseen", "untag", "tagrow"} => op[c].rest \subseteq GivenTags(op[c].key)
    /\ op[c].do = "untag" => op[c].rest = GivenTags(op[c].key)
    /\ op[c].do = "sweep" => op[c].rest \subseteq Keys
    /\ op[c].do = "clear" => style = "decorated"

Placed == \A c \in Clients : PlacedAt(c)

\* An entry has the tags of its key.
Tagged == \A k \in Keys : Present(k) => data[k].tags = GivenTags(k)

\* A serial program does one thing at a time.
Alone == program = "serial" => \A c, d \in Busy : c = d

\* So what it has read of the store is still so.
SteadyAt(c) ==
    /\ op[c].do = "tagseen" => op[c].seen = index[op[c].tag]
    /\ op[c].do \in {"deltags", "oldtags"} => ~Present(op[c].key)
    /\ op[c].do \in {"sweep", "droptag"} =>
           /\ \A k \in Keys : Present(k) /\ op[c].tag \in GivenTags(k) => k \in op[c].rest
           /\ \A k \in op[c].seen : Present(k) => k \in op[c].rest
    /\ op[c].do = "droptag" => op[c].rest = {}
    /\ op[c].do \in {"exists", "prune"} =>
           \A k \in index[op[c].tag] : Present(k) => k \in op[c].seen

Steady == program = "serial" => \A c \in Clients : SteadyAt(c)

\* The tags that a fill has still to index.
Pending(c, k, t) ==
    op[c].do \in {"settag", "tagseen", "untag", "tagrow"} /\ op[c].key = k /\ t \in op[c].rest

\* Every entry is under each of its tags, or is about to be.
Covered ==
    backend = "memory" \/ program = "serial" =>
        \A k \in Keys : \A t \in GivenTags(k) :
            Present(k) => k \in index[t] \/ \E c \in Clients : Pending(c, k, t)

\* In a step of one client the others have nothing pending.
CoveredAt(c) ==
    backend = "memory" \/ program = "serial" =>
        \A k \in Keys : \A t \in GivenTags(k) : Present(k) => k \in index[t] \/ Pending(c, k, t)

\* The client has changed k and has still to undo what the cache holds of it.
Undoing(c, k) == op[c].do \in {"delete", "clear", "delrow", "invalidate", "sweep"} /\ op[c].key = k

Orderly == program = "serial" \/ (program = "calm" /\ backend = "memory")

\* What a fill is about to store is the present value.
Truthful == Orderly => \A c \in Clients : op[c].do = "set" => op[c].ver = truth[op[c].key]

\* Every entry that is served is current, or is about to go.
Current ==
    Orderly => \A k \in Keys : Live(k) => data[k].ver = truth[k] \/ \E c \in Clients : Undoing(c, k)

\* The inductive invariant.
IInv == TypeOK /\ Placed /\ Tagged /\ Alone /\ Steady /\ Covered /\ Truthful /\ Current
------------------------------------------------------------------------------
\* The invariant of the cache holds at first.
LEMMA InitInv == Init => IInv
<1> SUFFICES ASSUME Init PROVE IInv
  OBVIOUS
<1> USE DEF Init
<1>1. TypeOK
  BY DEF TypeOK, NoEntry, NoOp, Entries, AllCalls, RedisCalls, SqlCalls, Ops
<1>2. \A c \in Clients : op[c].do = "idle"
  BY DEF NoOp
<1>3. \A k \in Keys : ~Present(k)
  BY DEF Present, NoEntry
<1>4. Placed
  BY <1>2 DEF Placed, PlacedAt, MemoryCalls, RedisCalls, SqlCalls
<1>5. Tagged /\ Alone /\ Steady /\ Covered /\ Truthful
  BY <1>2, <1>3 DEF Tagged, Alone, Steady, SteadyAt, Covered, Truthful, Busy
<1>6. Current
  BY <1>3 DEF Current, Live
<1> QED
  BY <1>1, <1>4, <1>5, <1>6 DEF IInv

\* Where a client stands that goes on, or begins alone.
Standing(c) ==
    /\ program = "serial" => \A d \in Clients : d # c => op[d].do = "idle"
    /\ PlacedAt(c)
    /\ program = "serial" => SteadyAt(c)
    /\ CoveredAt(c)

\* What a client that does nothing leaves alone keeps standing.
LEMMA Stands ==
    ASSUME IInv, NEW c \in Clients, op[c].do # "idle" \/ (program = "serial" => Busy = {})
    PROVE  Standing(c)
<1> USE DEF IInv
<1>1. program = "serial" => \A d \in Clients : d # c => op[d].do = "idle"
  BY DEF Alone, Busy
<1>2. PlacedAt(c) /\ (program = "serial" => SteadyAt(c))
  BY DEF Placed, Steady
<1>3. CoveredAt(c)
  BY <1>1 DEF Covered, CoveredAt, Pending, Placed, PlacedAt, MemoryCalls
<1> QED
  BY <1>1, <1>2, <1>3 DEF Standing

\* What remains to be shown of a step of one client.
LEMMA ClientStep ==
    ASSUME IInv, NEW c \in Clients, Standing(c), NEW r \in Ops, op' = [op EXCEPT ![c] = r],
           UNCHANGED <<backend, program, style>>,
           data' \in [Keys -> Entries], index' \in [Tags -> SUBSET Keys], truth' \in [Keys -> Nat \ {0}],
           PlacedAt(c)', program = "serial" => SteadyAt(c)', CoveredAt(c)',
           Tagged', Truthful', Current'
    PROVE  IInv'
<1>1. TypeOK'
  BY DEF IInv, TypeOK
<1>2. \A d \in Clients : d # c => op'[d] = op[d]
  BY DEF IInv, TypeOK
<1>3. Placed'
  BY <1>2 DEF IInv, Placed, PlacedAt, GivenTags
<1>4. Alone'
  BY <1>2 DEF Alone, Busy, Standing
<1>5. Steady'
  BY <1>2 DEF Steady, SteadyAt, Standing
<1>6. Covered'
  BY DEF Covered, CoveredAt
<1> QED
  BY <1>1, <1>3, <1>4, <1>5, <1>6 DEF IInv

\* The tags a key is given are tags.
LEMMA GivenTagsType == ASSUME NEW k \in Keys PROVE GivenTags(k) \subseteq Tags
BY TagsAssumption DEF GivenTags

\* A client goes on with a record of the same kind.
LEMMA Records ==
    ASSUME TypeOK, NEW c \in Clients
    PROVE  /\ \A d \in AllCalls, k \in Keys :
              [NoOp EXCEPT !.do = d, !.key = k] \in Ops
           /\ \A d \in AllCalls, v \in Nat :
              [op[c] EXCEPT !.do = d, !.ver = v] \in Ops
           /\ \A d \in AllCalls, t \in Tags \union {"-"}, s \in SUBSET Keys :
              [op[c] EXCEPT !.do = d, !.tag = t, !.seen = s] \in Ops
           /\ NoOp \in Ops
           /\ \A d \in AllCalls, r \in SUBSET (Keys \union Tags) :
              [op[c] EXCEPT !.do = d, !.rest = r] \in Ops
           /\ \A d \in AllCalls :
              [op[c] EXCEPT !.do = d] \in Ops
           /\ \A r \in SUBSET (Keys \union Tags) :
              [op[c] EXCEPT !.rest = r] \in Ops
           /\ \A d \in AllCalls, k \in Keys, t \in Tags \union {"-"} :
              [NoOp EXCEPT !.do = d, !.key = k, !.tag = t] \in Ops
           /\ \A d \in AllCalls, s \in SUBSET Keys, r \in SUBSET (Keys \union Tags) :
              [op[c] EXCEPT !.do = d, !.seen = s, !.rest = r] \in Ops
           /\ \A d \in AllCalls, t \in Tags \union {"-"}, r \in SUBSET (Keys \union Tags), s \in SUBSET Keys :
              [NoOp EXCEPT !.do = d, !.tag = t, !.rest = r, !.seen = s] \in Ops
           /\ \A r \in SUBSET (Keys \union Tags), s \in SUBSET Keys, d \in AllCalls :
              [op[c] EXCEPT !.rest = r, !.seen = s, !.do = d] \in Ops
BY DEF TypeOK, Ops, NoOp

\* A look for an entry that is too old.
LEMMA MissExpired ==
    ASSUME IInv, NEW c \in Clients, NEW k \in Keys, backend = "sql" /\ Present(k), Miss(c, k)
       PROVE IInv'
<1> USE DEF IInv
<1>1. /\ UNCHANGED <<backend, program, style>> /\ UNCHANGED <<index, truth>>
      /\ op[c].do = "idle"
      /\ program = "serial" => Busy = {}
      /\ \A x \in Keys : data'[x] = IF backend = "memory" /\ x = k THEN NoEntry ELSE data[x]
      /\ NoEntry.ver = 0 /\ NoEntry.tags = {} /\ NoEntry.old = FALSE
  BY DEF Miss, setting, Drop, NoEntry, NoOp, MayFill, Doing, Busy
<1>2. op' = [op EXCEPT ![c] = [NoOp EXCEPT !.do = "expired", !.key = k]]
  BY DEF Miss, setting, Drop, NoEntry, NoOp, MayFill, Doing, Busy, TypeOK, Ops
<1>3. /\ op'[c].do = "expired" /\ op'[c].key = k /\ op'[c].ver = 0
      /\ op'[c].tag = "-" /\ op'[c].rest = {} /\ op'[c].seen = {}
      /\ \A d \in Clients : d # c => op'[d] = op[d]
  BY <1>2 DEF TypeOK, Ops, NoOp
<1>4. Standing(c)
  BY <1>1, Stands DEF MayFill, MayWrite, Doing, Busy
<1>6. [NoOp EXCEPT !.do = "expired", !.key = k] \in Ops
  <2>1. "expired" \in AllCalls
    BY DEF AllCalls, RedisCalls, SqlCalls, MemoryCalls
  <2>2. k \in Keys
    BY <1>1, <1>4, GivenTagsType, TagsAssumption DEF TypeOK, Ops, Standing, PlacedAt
  <2> QED
    BY <2>1, <2>2, Records
<1>7. data' \in [Keys -> Entries] /\ index' \in [Tags -> SUBSET Keys] /\ truth' \in [Keys -> Nat \ {0}]
  BY <1>1, <1>4, GivenTagsType DEF Miss, setting, Drop, NoEntry, NoOp, MayFill, Doing, Busy,
     TypeOK, Ops, Entries, NoEntry, Drop, Unindexed, Standing, PlacedAt
<1>8. PlacedAt(c)'
  BY <1>1, <1>3, <1>4, GivenTagsType DEF Standing, PlacedAt, MemoryCalls, RedisCalls, SqlCalls,
     GivenTags
<1>9. program = "serial" => SteadyAt(c)'
  BY <1>1, <1>3, <1>4 DEF Standing, PlacedAt, SteadyAt, Present, GivenTags
<1>10. CoveredAt(c)'
  BY <1>1, <1>3, <1>4, GivenTagsType DEF Standing, CoveredAt, PlacedAt, MemoryCalls, SteadyAt,
     Pending, Present, GivenTags
<1>11. Tagged'
  BY <1>1, <1>3, <1>4 DEF Tagged, TypeOK, Present, GivenTags
<1>12. Truthful'
  BY <1>1, <1>3, <1>4 DEF Truthful, Orderly, Standing, PlacedAt
<1>13. Current'
  BY <1>1, <1>3, <1>4 DEF Current, Orderly, Undoing, Live, Standing, PlacedAt, SteadyAt,
     Present, GivenTags
<1> QED
  BY <1>1, <1>2, <1>4, <1>6, <1>7, <1>8, <1>9, <1>10, <1>11, <1>12, <1>13, ClientStep

\* A look for an entry that is not there.
LEMMA MissAbsent ==
    ASSUME IInv, NEW c \in Clients, NEW k \in Keys, ~(backend = "sql" /\ Present(k)),
       Miss(c, k) PROVE IInv'
<1> USE DEF IInv
<1>1. /\ UNCHANGED <<backend, program, style>> /\ UNCHANGED <<index, truth>>
      /\ op[c].do = "idle"
      /\ program = "serial" => Busy = {}
      /\ \A x \in Keys : data'[x] = IF backend = "memory" /\ x = k THEN NoEntry ELSE data[x]
      /\ NoEntry.ver = 0 /\ NoEntry.tags = {} /\ NoEntry.old = FALSE
  BY DEF Miss, setting, Drop, NoEntry, NoOp, MayFill, Doing, Busy
<1>2. op' = [op EXCEPT ![c] = [NoOp EXCEPT !.do = "compute", !.key = k]]
  BY DEF Miss, setting, Drop, NoEntry, NoOp, MayFill, Doing, Busy, TypeOK, Ops
<1>3. /\ op'[c].do = "compute" /\ op'[c].key = k /\ op'[c].ver = 0
      /\ op'[c].tag = "-" /\ op'[c].rest = {} /\ op'[c].seen = {}
      /\ \A d \in Clients : d # c => op'[d] = op[d]
  BY <1>2 DEF TypeOK, Ops, NoOp
<1>4. Standing(c)
  BY <1>1, Stands DEF MayFill, MayWrite, Doing, Busy
<1>6. [NoOp EXCEPT !.do = "compute", !.key = k] \in Ops
  <2>1. "compute" \in AllCalls
    BY DEF AllCalls, RedisCalls, SqlCalls, MemoryCalls
  <2>2. k \in Keys
    BY <1>1, <1>4, GivenTagsType, TagsAssumption DEF TypeOK, Ops, Standing, PlacedAt
  <2> QED
    BY <2>1, <2>2, Records
<1>7. data' \in [Keys -> Entries] /\ index' \in [Tags -> SUBSET Keys] /\ truth' \in [Keys -> Nat \ {0}]
  BY <1>1, <1>4, GivenTagsType DEF Miss, setting, Drop, NoEntry, NoOp, MayFill, Doing, Busy,
     TypeOK, Ops, Entries, NoEntry, Drop, Unindexed, Standing, PlacedAt
<1>8. PlacedAt(c)'
  BY <1>1, <1>3, <1>4, GivenTagsType DEF Standing, PlacedAt, MemoryCalls, RedisCalls, SqlCalls,
     GivenTags
<1>9. program = "serial" => SteadyAt(c)'
  BY <1>1, <1>3, <1>4 DEF Standing, PlacedAt, SteadyAt, Present, GivenTags
<1>10. CoveredAt(c)'
  BY <1>1, <1>3, <1>4, GivenTagsType DEF Standing, CoveredAt, PlacedAt, MemoryCalls, SteadyAt,
     Pending, Present, GivenTags
<1>11. Tagged'
  BY <1>1, <1>3, <1>4 DEF Tagged, TypeOK, Present, GivenTags
<1>12. Truthful'
  BY <1>1, <1>3, <1>4 DEF Truthful, Orderly, Standing, PlacedAt
<1>13. Current'
  BY <1>1, <1>3, <1>4 DEF Current, Orderly, Undoing, Live, Standing, PlacedAt, SteadyAt,
     Present, GivenTags
<1> QED
  BY <1>1, <1>2, <1>4, <1>6, <1>7, <1>8, <1>9, <1>10, <1>11, <1>12, <1>13, ClientStep

\* The value of a missing entry is computed.
LEMMA ComputeStep ==
    ASSUME IInv, NEW c \in Clients, Compute(c) PROVE IInv'
<1> USE DEF IInv
<1>1. /\ UNCHANGED <<backend, program, style>> /\ UNCHANGED <<data, index, truth>>
      /\ op[c].do = "compute"
  BY DEF Compute, setting, At
<1>2. op' = [op EXCEPT ![c] = [op[c] EXCEPT !.do = "set", !.ver = truth[op[c].key]]]
  BY DEF Compute, setting, At, TypeOK, Ops
<1>3. /\ op'[c].do = "set" /\ op'[c].key = op[c].key /\ op'[c].ver = truth[op[c].key]
      /\ op'[c].tag = op[c].tag /\ op'[c].rest = op[c].rest /\ op'[c].seen = op[c].seen
      /\ \A d \in Clients : d # c => op'[d] = op[d]
  BY <1>2 DEF TypeOK, Ops, NoOp
<1>4. Standing(c)
  BY <1>1, Stands
<1>5. op[c].key \in Keys
  BY <1>1, <1>4 DEF Standing, PlacedAt
<1>6. [op[c] EXCEPT !.do = "set", !.ver = truth[op[c].key]] \in Ops
  <2>1. "set" \in AllCalls
    BY DEF AllCalls, RedisCalls, SqlCalls, MemoryCalls
  <2>2. truth[op[c].key] \in Nat
    BY <1>1, <1>4, <1>5, GivenTagsType, TagsAssumption DEF TypeOK, Ops, Standing, PlacedAt
  <2> QED
    BY <2>1, <2>2, Records
<1>7. data' \in [Keys -> Entries] /\ index' \in [Tags -> SUBSET Keys] /\ truth' \in [Keys -> Nat \ {0}]
  BY <1>1, <1>4, <1>5, GivenTagsType DEF Compute, setting, At, TypeOK, Ops, Entries, NoEntry,
     Drop, Unindexed, Standing, PlacedAt
<1>8. PlacedAt(c)'
  BY <1>1, <1>3, <1>4, <1>5, GivenTagsType DEF Standing, PlacedAt, MemoryCalls, RedisCalls,
     SqlCalls, GivenTags, TypeOK
<1>9. program = "serial" => SteadyAt(c)'
  BY <1>1, <1>3, <1>4, <1>5 DEF Standing, PlacedAt, SteadyAt, Present, GivenTags
<1>10. CoveredAt(c)'
  BY <1>1, <1>3, <1>4, <1>5, GivenTagsType DEF Standing, CoveredAt, PlacedAt, MemoryCalls,
     SteadyAt, Pending, Present, GivenTags
<1>11. Tagged'
  BY <1>1, <1>3, <1>4, <1>5 DEF Tagged, TypeOK, Present, GivenTags
<1>12. Truthful'
  BY <1>1, <1>3, <1>4, <1>5 DEF Truthful, Orderly, Standing, PlacedAt
<1>13. Current'
  BY <1>1, <1>3, <1>4, <1>5 DEF Current, Orderly, Undoing, Live, Standing, PlacedAt, SteadyAt,
     Present, GivenTags
<1> QED
  BY <1>1, <1>2, <1>4, <1>6, <1>7, <1>8, <1>9, <1>10, <1>11, <1>12, <1>13, ClientStep

\* The set of a tag has been read.
LEMMA TagGetStep ==
    ASSUME IInv, NEW c \in Clients, TagGet(c) PROVE IInv'
<1> USE DEF IInv
<1>0. PICK t \in op[c].rest : op' = [op EXCEPT ![c].do = "tagseen", ![c].tag = t, ![c].seen = index[t]]
  BY DEF TagGet, setting, At
<1>1. /\ UNCHANGED <<backend, program, style>> /\ UNCHANGED <<data, index, truth>>
      /\ op[c].do = "settag"
  BY <1>0 DEF TagGet, setting, At
<1>2. op' = [op EXCEPT ![c] = [op[c] EXCEPT !.do = "tagseen", !.tag = t, !.seen = index[t]]]
  BY <1>0 DEF TagGet, setting, At, TypeOK, Ops
<1>3. /\ op'[c].do = "tagseen" /\ op'[c].key = op[c].key /\ op'[c].ver = op[c].ver
      /\ op'[c].tag = t /\ op'[c].rest = op[c].rest /\ op'[c].seen = index[t]
      /\ \A d \in Clients : d # c => op'[d] = op[d]
  BY <1>2 DEF TypeOK, Ops, NoOp
<1>4. Standing(c)
  BY <1>1, Stands
<1>5. op[c].key \in Keys
  BY <1>1, <1>4 DEF Standing, PlacedAt
<1>6. [op[c] EXCEPT !.do = "tagseen", !.tag = t, !.seen = index[t]] \in Ops
  <2>1. "tagseen" \in AllCalls
    BY DEF AllCalls, RedisCalls, SqlCalls, MemoryCalls
  <2>2. t \in (Tags \union {"-"}) /\ index[t] \in SUBSET Keys
    BY <1>1, <1>4, <1>5, <1>0, GivenTagsType, TagsAssumption DEF TypeOK, Ops, Standing, PlacedAt
  <2> QED
    BY <2>1, <2>2, Records
<1>7. data' \in [Keys -> Entries] /\ index' \in [Tags -> SUBSET Keys] /\ truth' \in [Keys -> Nat \ {0}]
  BY <1>1, <1>4, <1>5, <1>0, GivenTagsType DEF TagGet, setting, At, TypeOK, Ops, Entries,
     NoEntry, Drop, Unindexed, Standing, PlacedAt
<1>8. PlacedAt(c)'
  BY <1>1, <1>3, <1>4, <1>5, GivenTagsType DEF Standing, PlacedAt, MemoryCalls, RedisCalls,
     SqlCalls, GivenTags
<1>9. program = "serial" => SteadyAt(c)'
  BY <1>1, <1>3, <1>4, <1>5 DEF Standing, PlacedAt, SteadyAt, Present, GivenTags
<1>10. CoveredAt(c)'
  BY <1>1, <1>3, <1>4, <1>5, GivenTagsType DEF Standing, CoveredAt, PlacedAt, MemoryCalls,
     SteadyAt, Pending, Present, GivenTags
<1>11. Tagged'
  BY <1>1, <1>3, <1>4, <1>5 DEF Tagged, TypeOK, Present, GivenTags
<1>12. Truthful'
  BY <1>1, <1>3, <1>4, <1>5 DEF Truthful, Orderly, Standing, PlacedAt
<1>13. Current'
  BY <1>1, <1>3, <1>4, <1>5 DEF Current, Orderly, Undoing, Live, Standing, PlacedAt, SteadyAt,
     Present, GivenTags
<1> QED
  BY <1>1, <1>2, <1>4, <1>6, <1>7, <1>8, <1>9, <1>10, <1>11, <1>12, <1>13, ClientStep

\* The set of the last tag is written.
LEMMA TagSetDone ==
    ASSUME IInv, NEW c \in Clients, op[c].rest = {op[c].tag}, TagSet(c) PROVE IInv'
<1> USE DEF IInv
<1>1. /\ UNCHANGED <<backend, program, style>> /\ UNCHANGED <<data, truth>>
      /\ op[c].do = "tagseen"
      /\ \A t \in Tags : index'[t] = IF t = op[c].tag THEN op[c].seen \union {op[c].key} ELSE index[t]
  BY DEF TagSet, setting, At, Done, TypeOK
<1>2. op' = [op EXCEPT ![c] = NoOp]
  BY DEF TagSet, setting, At, Done, TypeOK, TypeOK, Ops
<1>3. /\ op'[c].do = "idle" /\ op'[c].key = "-" /\ op'[c].ver = 0
      /\ op'[c].tag = "-" /\ op'[c].rest = {} /\ op'[c].seen = {}
      /\ \A d \in Clients : d # c => op'[d] = op[d]
  BY <1>2 DEF TypeOK, Ops, NoOp
<1>4. Standing(c)
  BY <1>1, Stands
<1>5. op[c].key \in Keys
  BY <1>1, <1>4 DEF Standing, PlacedAt
<1>6. NoOp \in Ops
  BY Records
<1>7. data' \in [Keys -> Entries] /\ index' \in [Tags -> SUBSET Keys] /\ truth' \in [Keys -> Nat \ {0}]
  BY <1>1, <1>4, <1>5, GivenTagsType DEF TagSet, setting, At, Done, TypeOK, TypeOK, Ops,
     Entries, NoEntry, Drop, Unindexed, Standing, PlacedAt
<1>8. PlacedAt(c)'
  BY <1>1, <1>3, <1>4, <1>5, GivenTagsType DEF Standing, PlacedAt, MemoryCalls, RedisCalls,
     SqlCalls, GivenTags
<1>9. program = "serial" => SteadyAt(c)'
  BY <1>1, <1>3, <1>4, <1>5 DEF Standing, PlacedAt, SteadyAt, Present, GivenTags
<1>10. CoveredAt(c)'
  BY <1>1, <1>3, <1>4, <1>5, GivenTagsType DEF Standing, CoveredAt, PlacedAt, MemoryCalls,
     SteadyAt, Pending, Present, GivenTags
<1>11. Tagged'
  BY <1>1, <1>3, <1>4, <1>5 DEF Tagged, TypeOK, Present, GivenTags
<1>12. Truthful'
  BY <1>1, <1>3, <1>4, <1>5 DEF Truthful, Orderly, Standing, PlacedAt
<1>13. Current'
  BY <1>1, <1>3, <1>4, <1>5 DEF Current, Orderly, Undoing, Live, Standing, PlacedAt, SteadyAt,
     Present, GivenTags
<1> QED
  BY <1>1, <1>2, <1>4, <1>6, <1>7, <1>8, <1>9, <1>10, <1>11, <1>12, <1>13, ClientStep

\* The set of a tag is written, and others remain.
LEMMA TagSetMore ==
    ASSUME IInv, NEW c \in Clients, op[c].rest # {op[c].tag}, TagSet(c) PROVE IInv'
<1> USE DEF IInv
<1>1. /\ UNCHANGED <<backend, program, style>> /\ UNCHANGED <<data, truth>>
      /\ op[c].do = "tagseen"
      /\ \A t \in Tags : index'[t] = IF t = op[c].tag THEN op[c].seen \union {op[c].key} ELSE index[t]
  BY DEF TagSet, setting, At, Done, TypeOK
<1>2. op' = [op EXCEPT ![c] = [op[c] EXCEPT !.do = "settag", !.rest = op[c].rest \ {op[c].tag}]]
  BY DEF TagSet, setting, At, Done, TypeOK, TypeOK, Ops
<1>3. /\ op'[c].do = "settag" /\ op'[c].key = op[c].key /\ op'[c].ver = op[c].ver
      /\ op'[c].tag = op[c].tag /\ op'[c].rest = op[c].rest \ {op[c].tag} /\ op'[c].seen = op[c].seen
      /\ \A d \in Clients : d # c => op'[d] = op[d]
  BY <1>2 DEF TypeOK, Ops, NoOp
<1>4. Standing(c)
  BY <1>1, Stands
<1>5. op[c].key \in Keys
  BY <1>1, <1>4 DEF Standing, PlacedAt
<1>6. [op[c] EXCEPT !.do = "settag", !.rest = op[c].rest \ {op[c].tag}] \in Ops
  <2>1. "settag" \in AllCalls
    BY DEF AllCalls, RedisCalls, SqlCalls, MemoryCalls
  <2>2. op[c].rest \ {op[c].tag} \in SUBSET (Keys \union Tags)
    BY <1>1, <1>4, <1>5, GivenTagsType, TagsAssumption DEF TypeOK, Ops, Standing, PlacedAt
  <2> QED
    BY <2>1, <2>2, Records
<1>7. data' \in [Keys -> Entries] /\ index' \in [Tags -> SUBSET Keys] /\ truth' \in [Keys -> Nat \ {0}]
  BY <1>1, <1>4, <1>5, GivenTagsType DEF TagSet, setting, At, Done, TypeOK, TypeOK, Ops,
     Entries, NoEntry, Drop, Unindexed, Standing, PlacedAt
<1>8. PlacedAt(c)'
  BY <1>1, <1>3, <1>4, <1>5, GivenTagsType DEF Standing, PlacedAt, MemoryCalls, RedisCalls,
     SqlCalls, GivenTags
<1>9. program = "serial" => SteadyAt(c)'
  BY <1>1, <1>3, <1>4, <1>5 DEF Standing, PlacedAt, SteadyAt, Present, GivenTags
<1>10. CoveredAt(c)'
  BY <1>1, <1>3, <1>4, <1>5, GivenTagsType DEF Standing, CoveredAt, PlacedAt, MemoryCalls,
     SteadyAt, Pending, Present, GivenTags
<1>11. Tagged'
  BY <1>1, <1>3, <1>4, <1>5 DEF Tagged, TypeOK, Present, GivenTags
<1>12. Truthful'
  BY <1>1, <1>3, <1>4, <1>5 DEF Truthful, Orderly, Standing, PlacedAt
<1>13. Current'
  BY <1>1, <1>3, <1>4, <1>5 DEF Current, Orderly, Undoing, Live, Standing, PlacedAt, SteadyAt,
     Present, GivenTags
<1> QED
  BY <1>1, <1>2, <1>4, <1>6, <1>7, <1>8, <1>9, <1>10, <1>11, <1>12, <1>13, ClientStep

\* An entry is written in memory, and the oldest may have to go.
LEMMA SetMemoryStep ==
    ASSUME IInv, NEW c \in Clients, SetMemory(c) PROVE IInv'
<1> USE DEF IInv
<1>0. PICK out \in IF ~Present(op[c].key) /\ Cardinality({x \in Keys : Present(x)}) >= MaxEntries
                      THEN {{x} : x \in {y \in Keys : Present(y)}} ELSE {{}} :
          /\ data' = [Drop(out) EXCEPT ![op[c].key] = Entry(c)]
          /\ index' = [t \in Tags |->
                         IF GivenTags(op[c].key) = {} THEN index[t] \ out
                         ELSE (index[t] \ (out \union {op[c].key}))
                                 \union (IF t \in GivenTags(op[c].key) THEN {op[c].key} ELSE {})]
  BY DEF SetMemory, setting, At, Done, Entry, Drop, NoEntry, TypeOK, Placed, PlacedAt
<1>1. /\ UNCHANGED <<backend, program, style>> /\ UNCHANGED truth
      /\ op[c].do = "set" /\ backend = "memory"
      /\ data'[op[c].key].ver = op[c].ver /\ data'[op[c].key].tags = GivenTags(op[c].key)
      /\ data'[op[c].key].old = FALSE
      /\ \A x \in Keys : x # op[c].key /\ x \in out => data'[x].ver = 0 /\ data'[x].tags = {}
      /\ \A x \in Keys : x # op[c].key /\ x \notin out => data'[x] = data[x]
      /\ \A t \in Tags : index'[t] = IF GivenTags(op[c].key) = {} THEN index[t] \ out
                             ELSE (index[t] \ (out \union {op[c].key}))
                                      \union (IF t \in GivenTags(op[c].key) THEN {op[c].key} ELSE {})
  BY <1>0 DEF SetMemory, setting, At, Done, Entry, Drop, NoEntry, TypeOK, Placed, PlacedAt
<1>2. op' = [op EXCEPT ![c] = NoOp]
  BY <1>0 DEF SetMemory, setting, At, Done, Entry, Drop, NoEntry, TypeOK, Placed, PlacedAt,
     TypeOK, Ops
<1>3. /\ op'[c].do = "idle" /\ op'[c].key = "-" /\ op'[c].ver = 0
      /\ op'[c].tag = "-" /\ op'[c].rest = {} /\ op'[c].seen = {}
      /\ \A d \in Clients : d # c => op'[d] = op[d]
  BY <1>2 DEF TypeOK, Ops, NoOp
<1>4. Standing(c)
  BY <1>1, Stands
<1>5. op[c].key \in Keys
  BY <1>1, <1>4 DEF Standing, PlacedAt
<1>d. Orderly => op[c].ver = truth[op[c].key]
  BY <1>1 DEF Truthful
<1>6. NoOp \in Ops
  BY Records
<1>7. data' \in [Keys -> Entries] /\ index' \in [Tags -> SUBSET Keys] /\ truth' \in [Keys -> Nat \ {0}]
  <2>1. Drop(out) \in [Keys -> Entries]
    BY DEF Drop, NoEntry, Entries, TypeOK
  <2>2. Entry(c) \in Entries
    BY <1>5, GivenTagsType DEF Entry, Entries, TypeOK, Ops
  <2>3. data' \in [Keys -> Entries]
    BY <1>0, <2>1, <2>2
  <2>4. index' \in [Tags -> SUBSET Keys]
    BY <1>0, <1>5 DEF TypeOK
  <2> QED
    BY <1>1, <2>3, <2>4 DEF TypeOK
<1>8. PlacedAt(c)'
  BY <1>1, <1>3, <1>4, <1>5, <1>d, GivenTagsType DEF Standing, PlacedAt, MemoryCalls,
     RedisCalls, SqlCalls, GivenTags
<1>9. program = "serial" => SteadyAt(c)'
  BY <1>1, <1>3, <1>4, <1>5, <1>d DEF Standing, PlacedAt, SteadyAt, Present, GivenTags
<1>10. CoveredAt(c)'
  <2> SUFFICES ASSUME NEW k \in Keys, NEW t \in GivenTags(k), data'[k].ver # 0 PROVE k \in index'[t]
    BY <1>1 DEF CoveredAt, Present, GivenTags
  <2>1. t \in Tags
    BY GivenTagsType
  <2>2. CASE k = op[c].key
    BY <1>1, <1>5, <2>1, <2>2
  <2>3. CASE k # op[c].key
    <3>1. k \notin out /\ Present(k)
      BY <1>1, <2>3 DEF Present
    <3>2. k \in index[t]
      BY <1>1, <1>4, <3>1 DEF Standing, CoveredAt, Pending
    <3> QED
      BY <1>1, <2>1, <2>3, <3>1, <3>2
  <2> QED
    BY <2>2, <2>3
<1>11. Tagged'
  BY <1>1, <1>3, <1>4, <1>5, <1>d DEF Tagged, TypeOK, Present, GivenTags
<1>12. Truthful'
  BY <1>1, <1>3, <1>4, <1>5, <1>d DEF Truthful, Orderly, Standing, PlacedAt
<1>13. Current'
  BY <1>1, <1>3, <1>4, <1>5, <1>d DEF Current, Orderly, Undoing, Live, Standing, PlacedAt,
     SteadyAt, Present, GivenTags
<1> QED
  BY <1>1, <1>2, <1>4, <1>6, <1>7, <1>8, <1>9, <1>10, <1>11, <1>12, <1>13, ClientStep

\* An entry without tags is written.
LEMMA SetRemoteDone ==
    ASSUME IInv, NEW c \in Clients, GivenTags(op[c].key) = {}, SetRemote(c) PROVE IInv'
<1> USE DEF IInv
<1>1. /\ UNCHANGED <<backend, program, style>> /\ UNCHANGED <<index, truth>>
      /\ op[c].do = "set" /\ backend # "memory"
      /\ data'[op[c].key].ver = op[c].ver /\ data'[op[c].key].tags = GivenTags(op[c].key)
      /\ data'[op[c].key].old = FALSE
      /\ \A x \in Keys : x # op[c].key => data'[x] = data[x]
  BY DEF SetRemote, setting, At, Done, Entry, TypeOK, Placed, PlacedAt
<1>2. op' = [op EXCEPT ![c] = NoOp]
  BY DEF SetRemote, setting, At, Done, Entry, TypeOK, Placed, PlacedAt, TypeOK, Ops
<1>3. /\ op'[c].do = "idle" /\ op'[c].key = "-" /\ op'[c].ver = 0
      /\ op'[c].tag = "-" /\ op'[c].rest = {} /\ op'[c].seen = {}
      /\ \A d \in Clients : d # c => op'[d] = op[d]
  BY <1>2 DEF TypeOK, Ops, NoOp
<1>4. Standing(c)
  BY <1>1, Stands
<1>5. op[c].key \in Keys
  BY <1>1, <1>4 DEF Standing, PlacedAt
<1>d. Orderly => op[c].ver = truth[op[c].key]
  BY <1>1 DEF Truthful
<1>6. NoOp \in Ops
  BY Records
<1>7. data' \in [Keys -> Entries] /\ index' \in [Tags -> SUBSET Keys] /\ truth' \in [Keys -> Nat \ {0}]
  BY <1>1, <1>4, <1>5, GivenTagsType DEF SetRemote, setting, At, Done, Entry, TypeOK, Placed,
     PlacedAt, TypeOK, Ops, Entries, NoEntry, Drop, Unindexed, Standing, PlacedAt
<1>8. PlacedAt(c)'
  BY <1>1, <1>3, <1>4, <1>5, <1>d, GivenTagsType DEF Standing, PlacedAt, MemoryCalls,
     RedisCalls, SqlCalls, GivenTags
<1>9. program = "serial" => SteadyAt(c)'
  BY <1>1, <1>3, <1>4, <1>5, <1>d DEF Standing, PlacedAt, SteadyAt, Present, GivenTags
<1>10. CoveredAt(c)'
  BY <1>1, <1>3, <1>4, <1>5, <1>d, GivenTagsType DEF Standing, CoveredAt, PlacedAt, MemoryCalls,
     SteadyAt, Pending, Present, GivenTags
<1>11. Tagged'
  BY <1>1, <1>3, <1>4, <1>5, <1>d DEF Tagged, TypeOK, Present, GivenTags
<1>12. Truthful'
  BY <1>1, <1>3, <1>4, <1>5, <1>d DEF Truthful, Orderly, Standing, PlacedAt
<1>13. Current'
  BY <1>1, <1>3, <1>4, <1>5, <1>d DEF Current, Orderly, Undoing, Live, Standing, PlacedAt,
     SteadyAt, Present, GivenTags
<1> QED
  BY <1>1, <1>2, <1>4, <1>6, <1>7, <1>8, <1>9, <1>10, <1>11, <1>12, <1>13, ClientStep

\* An entry with tags is written in Redis.
LEMMA SetRedis ==
    ASSUME IInv, NEW c \in Clients, GivenTags(op[c].key) # {}, backend = "redis", SetRemote(c)
       PROVE IInv'
<1> USE DEF IInv
<1>1. /\ UNCHANGED <<backend, program, style>> /\ UNCHANGED <<index, truth>>
      /\ op[c].do = "set" /\ backend # "memory"
      /\ data'[op[c].key].ver = op[c].ver /\ data'[op[c].key].tags = GivenTags(op[c].key)
      /\ data'[op[c].key].old = FALSE
      /\ \A x \in Keys : x # op[c].key => data'[x] = data[x]
  BY DEF SetRemote, setting, At, Done, Entry, TypeOK, Placed, PlacedAt
<1>2. op' = [op EXCEPT ![c] = [op[c] EXCEPT !.do = "settag", !.rest = GivenTags(op[c].key)]]
  BY DEF SetRemote, setting, At, Done, Entry, TypeOK, Placed, PlacedAt, TypeOK, Ops
<1>3. /\ op'[c].do = "settag" /\ op'[c].key = op[c].key /\ op'[c].ver = op[c].ver
      /\ op'[c].tag = op[c].tag /\ op'[c].rest = GivenTags(op[c].key) /\ op'[c].seen = op[c].seen
      /\ \A d \in Clients : d # c => op'[d] = op[d]
  BY <1>2 DEF TypeOK, Ops, NoOp
<1>4. Standing(c)
  BY <1>1, Stands
<1>5. op[c].key \in Keys
  BY <1>1, <1>4 DEF Standing, PlacedAt
<1>d. Orderly => op[c].ver = truth[op[c].key]
  BY <1>1 DEF Truthful
<1>6. [op[c] EXCEPT !.do = "settag", !.rest = GivenTags(op[c].key)] \in Ops
  <2>1. "settag" \in AllCalls
    BY DEF AllCalls, RedisCalls, SqlCalls, MemoryCalls
  <2>2. GivenTags(op[c].key) \in SUBSET (Keys \union Tags)
    BY <1>1, <1>4, <1>5, <1>d, GivenTagsType, TagsAssumption DEF TypeOK, Ops, Standing, PlacedAt
  <2> QED
    BY <2>1, <2>2, Records
<1>7. data' \in [Keys -> Entries] /\ index' \in [Tags -> SUBSET Keys] /\ truth' \in [Keys -> Nat \ {0}]
  BY <1>1, <1>4, <1>5, GivenTagsType DEF SetRemote, setting, At, Done, Entry, TypeOK, Placed,
     PlacedAt, TypeOK, Ops, Entries, NoEntry, Drop, Unindexed, Standing, PlacedAt
<1>8. PlacedAt(c)'
  BY <1>1, <1>3, <1>4, <1>5, <1>d, GivenTagsType DEF Standing, PlacedAt, MemoryCalls,
     RedisCalls, SqlCalls, GivenTags
<1>9. program = "serial" => SteadyAt(c)'
  BY <1>1, <1>3, <1>4, <1>5, <1>d DEF Standing, PlacedAt, SteadyAt, Present, GivenTags
<1>10. CoveredAt(c)'
  BY <1>1, <1>3, <1>4, <1>5, <1>d, GivenTagsType DEF Standing, CoveredAt, PlacedAt, MemoryCalls,
     SteadyAt, Pending, Present, GivenTags
<1>11. Tagged'
  BY <1>1, <1>3, <1>4, <1>5, <1>d DEF Tagged, TypeOK, Present, GivenTags
<1>12. Truthful'
  BY <1>1, <1>3, <1>4, <1>5, <1>d DEF Truthful, Orderly, Standing, PlacedAt
<1>13. Current'
  BY <1>1, <1>3, <1>4, <1>5, <1>d DEF Current, Orderly, Undoing, Live, Standing, PlacedAt,
     SteadyAt, Present, GivenTags
<1> QED
  BY <1>1, <1>2, <1>4, <1>6, <1>7, <1>8, <1>9, <1>10, <1>11, <1>12, <1>13, ClientStep

\* An entry with tags is written in SQL.
LEMMA SetSql ==
    ASSUME IInv, NEW c \in Clients, GivenTags(op[c].key) # {}, backend = "sql", SetRemote(c)
       PROVE IInv'
<1> USE DEF IInv
<1>1. /\ UNCHANGED <<backend, program, style>> /\ UNCHANGED <<index, truth>>
      /\ op[c].do = "set" /\ backend # "memory"
      /\ data'[op[c].key].ver = op[c].ver /\ data'[op[c].key].tags = GivenTags(op[c].key)
      /\ data'[op[c].key].old = FALSE
      /\ \A x \in Keys : x # op[c].key => data'[x] = data[x]
  BY DEF SetRemote, setting, At, Done, Entry, TypeOK, Placed, PlacedAt
<1>2. op' = [op EXCEPT ![c] = [op[c] EXCEPT !.do = "untag", !.rest = GivenTags(op[c].key)]]
  BY DEF SetRemote, setting, At, Done, Entry, TypeOK, Placed, PlacedAt, TypeOK, Ops
<1>3. /\ op'[c].do = "untag" /\ op'[c].key = op[c].key /\ op'[c].ver = op[c].ver
      /\ op'[c].tag = op[c].tag /\ op'[c].rest = GivenTags(op[c].key) /\ op'[c].seen = op[c].seen
      /\ \A d \in Clients : d # c => op'[d] = op[d]
  BY <1>2 DEF TypeOK, Ops, NoOp
<1>4. Standing(c)
  BY <1>1, Stands
<1>5. op[c].key \in Keys
  BY <1>1, <1>4 DEF Standing, PlacedAt
<1>d. Orderly => op[c].ver = truth[op[c].key]
  BY <1>1 DEF Truthful
<1>6. [op[c] EXCEPT !.do = "untag", !.rest = GivenTags(op[c].key)] \in Ops
  <2>1. "untag" \in AllCalls
    BY DEF AllCalls, RedisCalls, SqlCalls, MemoryCalls
  <2>2. GivenTags(op[c].key) \in SUBSET (Keys \union Tags)
    BY <1>1, <1>4, <1>5, <1>d, GivenTagsType, TagsAssumption DEF TypeOK, Ops, Standing, PlacedAt
  <2> QED
    BY <2>1, <2>2, Records
<1>7. data' \in [Keys -> Entries] /\ index' \in [Tags -> SUBSET Keys] /\ truth' \in [Keys -> Nat \ {0}]
  BY <1>1, <1>4, <1>5, GivenTagsType DEF SetRemote, setting, At, Done, Entry, TypeOK, Placed,
     PlacedAt, TypeOK, Ops, Entries, NoEntry, Drop, Unindexed, Standing, PlacedAt
<1>8. PlacedAt(c)'
  BY <1>1, <1>3, <1>4, <1>5, <1>d, GivenTagsType DEF Standing, PlacedAt, MemoryCalls,
     RedisCalls, SqlCalls, GivenTags
<1>9. program = "serial" => SteadyAt(c)'
  BY <1>1, <1>3, <1>4, <1>5, <1>d DEF Standing, PlacedAt, SteadyAt, Present, GivenTags
<1>10. CoveredAt(c)'
  BY <1>1, <1>3, <1>4, <1>5, <1>d, GivenTagsType DEF Standing, CoveredAt, PlacedAt, MemoryCalls,
     SteadyAt, Pending, Present, GivenTags
<1>11. Tagged'
  BY <1>1, <1>3, <1>4, <1>5, <1>d DEF Tagged, TypeOK, Present, GivenTags
<1>12. Truthful'
  BY <1>1, <1>3, <1>4, <1>5, <1>d DEF Truthful, Orderly, Standing, PlacedAt
<1>13. Current'
  BY <1>1, <1>3, <1>4, <1>5, <1>d DEF Current, Orderly, Undoing, Live, Standing, PlacedAt,
     SteadyAt, Present, GivenTags
<1> QED
  BY <1>1, <1>2, <1>4, <1>6, <1>7, <1>8, <1>9, <1>10, <1>11, <1>12, <1>13, ClientStep

\* The old rows of tags of an entry are deleted.
LEMMA UntagStep ==
    ASSUME IInv, NEW c \in Clients, Untag(c) PROVE IInv'
<1> USE DEF IInv
<1>1. /\ UNCHANGED <<backend, program, style>> /\ UNCHANGED <<data, truth>>
      /\ op[c].do = "untag"
      /\ \A t \in Tags : index'[t] = index[t] \ {op[c].key}
  BY DEF Untag, setting, At, Goto, Unindexed
<1>2. op' = [op EXCEPT ![c] = [op[c] EXCEPT !.do = "tagrow"]]
  BY DEF Untag, setting, At, Goto, Unindexed, TypeOK, Ops
<1>3. /\ op'[c].do = "tagrow" /\ op'[c].key = op[c].key /\ op'[c].ver = op[c].ver
      /\ op'[c].tag = op[c].tag /\ op'[c].rest = op[c].rest /\ op'[c].seen = op[c].seen
      /\ \A d \in Clients : d # c => op'[d] = op[d]
  BY <1>2 DEF TypeOK, Ops, NoOp
<1>4. Standing(c)
  BY <1>1, Stands
<1>5. op[c].key \in Keys
  BY <1>1, <1>4 DEF Standing, PlacedAt
<1>6. [op[c] EXCEPT !.do = "tagrow"] \in Ops
  <2>1. "tagrow" \in AllCalls
    BY DEF AllCalls, RedisCalls, SqlCalls, MemoryCalls
  <2> QED
    BY <2>1, Records
<1>7. data' \in [Keys -> Entries] /\ index' \in [Tags -> SUBSET Keys] /\ truth' \in [Keys -> Nat \ {0}]
  BY <1>1, <1>4, <1>5, GivenTagsType DEF Untag, setting, At, Goto, Unindexed, TypeOK, Ops,
     Entries, NoEntry, Drop, Unindexed, Standing, PlacedAt
<1>8. PlacedAt(c)'
  BY <1>1, <1>3, <1>4, <1>5, GivenTagsType DEF Standing, PlacedAt, MemoryCalls, RedisCalls,
     SqlCalls, GivenTags
<1>9. program = "serial" => SteadyAt(c)'
  BY <1>1, <1>3, <1>4, <1>5 DEF Standing, PlacedAt, SteadyAt, Present, GivenTags
<1>10. CoveredAt(c)'
  BY <1>1, <1>3, <1>4, <1>5, GivenTagsType DEF Standing, CoveredAt, PlacedAt, MemoryCalls,
     SteadyAt, Pending, Present, GivenTags
<1>11. Tagged'
  BY <1>1, <1>3, <1>4, <1>5 DEF Tagged, TypeOK, Present, GivenTags
<1>12. Truthful'
  BY <1>1, <1>3, <1>4, <1>5 DEF Truthful, Orderly, Standing, PlacedAt
<1>13. Current'
  BY <1>1, <1>3, <1>4, <1>5 DEF Current, Orderly, Undoing, Live, Standing, PlacedAt, SteadyAt,
     Present, GivenTags
<1> QED
  BY <1>1, <1>2, <1>4, <1>6, <1>7, <1>8, <1>9, <1>10, <1>11, <1>12, <1>13, ClientStep

\* The last row of a tag is written.
LEMMA TagRowDone ==
    ASSUME IInv, NEW c \in Clients, NEW t \in op[c].rest, op[c].rest = {t}, op[c].do = "tagrow",
           UNCHANGED <<setting, data, truth>>, index' = [index EXCEPT ![t] = @ \union {op[c].key}],
           Done(c) PROVE IInv'
<1> USE DEF IInv
<1>1. /\ UNCHANGED <<backend, program, style>> /\ UNCHANGED <<data, truth>>
      /\ op[c].do = "tagrow"
      /\ \A u \in Tags : index'[u] = IF u = t THEN index[u] \union {op[c].key} ELSE index[u]
  BY DEF setting, Done, TypeOK
<1>2. op' = [op EXCEPT ![c] = NoOp]
  BY DEF setting, Done, TypeOK, TypeOK, Ops
<1>3. /\ op'[c].do = "idle" /\ op'[c].key = "-" /\ op'[c].ver = 0
      /\ op'[c].tag = "-" /\ op'[c].rest = {} /\ op'[c].seen = {}
      /\ \A d \in Clients : d # c => op'[d] = op[d]
  BY <1>2 DEF TypeOK, Ops, NoOp
<1>4. Standing(c)
  BY <1>1, Stands
<1>5. op[c].key \in Keys
  BY <1>1, <1>4 DEF Standing, PlacedAt
<1>6. NoOp \in Ops
  BY Records
<1>7. data' \in [Keys -> Entries] /\ index' \in [Tags -> SUBSET Keys] /\ truth' \in [Keys -> Nat \ {0}]
  BY <1>1, <1>4, <1>5, GivenTagsType DEF setting, Done, TypeOK, TypeOK, Ops, Entries, NoEntry,
     Drop, Unindexed, Standing, PlacedAt
<1>8. PlacedAt(c)'
  BY <1>1, <1>3, <1>4, <1>5, GivenTagsType DEF Standing, PlacedAt, MemoryCalls, RedisCalls,
     SqlCalls, GivenTags
<1>9. program = "serial" => SteadyAt(c)'
  BY <1>1, <1>3, <1>4, <1>5 DEF Standing, PlacedAt, SteadyAt, Present, GivenTags
<1>10. CoveredAt(c)'
  BY <1>1, <1>3, <1>4, <1>5, GivenTagsType DEF Standing, CoveredAt, PlacedAt, MemoryCalls,
     SteadyAt, Pending, Present, GivenTags
<1>11. Tagged'
  BY <1>1, <1>3, <1>4, <1>5 DEF Tagged, TypeOK, Present, GivenTags
<1>12. Truthful'
  BY <1>1, <1>3, <1>4, <1>5 DEF Truthful, Orderly, Standing, PlacedAt
<1>13. Current'
  BY <1>1, <1>3, <1>4, <1>5 DEF Current, Orderly, Undoing, Live, Standing, PlacedAt, SteadyAt,
     Present, GivenTags
<1> QED
  BY <1>1, <1>2, <1>4, <1>6, <1>7, <1>8, <1>9, <1>10, <1>11, <1>12, <1>13, ClientStep

\* A row of a tag is written, and others remain.
LEMMA TagRowMore ==
    ASSUME IInv, NEW c \in Clients, NEW t \in op[c].rest, op[c].rest # {t}, op[c].do = "tagrow",
           UNCHANGED <<setting, data, truth>>, index' = [index EXCEPT ![t] = @ \union {op[c].key}],
           op' = [op EXCEPT ![c].rest = @ \ {t}] PROVE IInv'
<1> USE DEF IInv
<1>1. /\ UNCHANGED <<backend, program, style>> /\ UNCHANGED <<data, truth>>
      /\ op[c].do = "tagrow"
      /\ \A u \in Tags : index'[u] = IF u = t THEN index[u] \union {op[c].key} ELSE index[u]
  BY DEF setting, Done, TypeOK
<1>2. op' = [op EXCEPT ![c] = [op[c] EXCEPT !.rest = op[c].rest \ {t}]]
  BY DEF setting, Done, TypeOK, TypeOK, Ops
<1>3. /\ op'[c].do = op[c].do /\ op'[c].key = op[c].key /\ op'[c].ver = op[c].ver
      /\ op'[c].tag = op[c].tag /\ op'[c].rest = op[c].rest \ {t} /\ op'[c].seen = op[c].seen
      /\ \A d \in Clients : d # c => op'[d] = op[d]
  BY <1>2 DEF TypeOK, Ops, NoOp
<1>4. Standing(c)
  BY <1>1, Stands
<1>5. op[c].key \in Keys
  BY <1>1, <1>4 DEF Standing, PlacedAt
<1>6. [op[c] EXCEPT !.rest = op[c].rest \ {t}] \in Ops
  <2>1. op[c].rest \ {t} \in SUBSET (Keys \union Tags)
    BY <1>1, <1>4, <1>5, GivenTagsType, TagsAssumption DEF TypeOK, Ops, Standing, PlacedAt
  <2> QED
    BY <2>1, Records
<1>7. data' \in [Keys -> Entries] /\ index' \in [Tags -> SUBSET Keys] /\ truth' \in [Keys -> Nat \ {0}]
  BY <1>1, <1>4, <1>5, GivenTagsType DEF setting, Done, TypeOK, TypeOK, Ops, Entries, NoEntry,
     Drop, Unindexed, Standing, PlacedAt
<1>8. PlacedAt(c)'
  BY <1>1, <1>3, <1>4, <1>5, GivenTagsType DEF Standing, PlacedAt, MemoryCalls, RedisCalls,
     SqlCalls, GivenTags
<1>9. program = "serial" => SteadyAt(c)'
  BY <1>1, <1>3, <1>4, <1>5 DEF Standing, PlacedAt, SteadyAt, Present, GivenTags
<1>10. CoveredAt(c)'
  BY <1>1, <1>3, <1>4, <1>5, GivenTagsType DEF Standing, CoveredAt, PlacedAt, MemoryCalls,
     SteadyAt, Pending, Present, GivenTags
<1>11. Tagged'
  BY <1>1, <1>3, <1>4, <1>5 DEF Tagged, TypeOK, Present, GivenTags
<1>12. Truthful'
  BY <1>1, <1>3, <1>4, <1>5 DEF Truthful, Orderly, Standing, PlacedAt
<1>13. Current'
  BY <1>1, <1>3, <1>4, <1>5 DEF Current, Orderly, Undoing, Live, Standing, PlacedAt, SteadyAt,
     Present, GivenTags
<1> QED
  BY <1>1, <1>2, <1>4, <1>6, <1>7, <1>8, <1>9, <1>10, <1>11, <1>12, <1>13, ClientStep

\* The truth changes, and the key is to be deleted.
LEMMA ChangeDelete ==
    ASSUME IInv, NEW c \in Clients, NEW k \in Keys, op[c] = NoOp, MayWrite,
           truth' = [truth EXCEPT ![k] = @ + 1], UNCHANGED <<setting, data, index>>,
           op' = [op EXCEPT ![c] = [NoOp EXCEPT !.do = "delete", !.key = k, !.tag = "-"]] PROVE IInv'
<1> USE DEF IInv
<1>1. /\ UNCHANGED <<backend, program, style>> /\ UNCHANGED <<data, index>>
      /\ op[c].do = "idle"
      /\ program # "any" => Busy = {}
      /\ \A x \in Keys : x # k => truth'[x] = truth[x]
  BY DEF setting, NoOp, MayWrite, TypeOK
<1>2. op' = [op EXCEPT ![c] = [NoOp EXCEPT !.do = "delete", !.key = k, !.tag = "-"]]
  BY DEF setting, NoOp, MayWrite, TypeOK, TypeOK, Ops
<1>3. /\ op'[c].do = "delete" /\ op'[c].key = k /\ op'[c].ver = 0
      /\ op'[c].tag = "-" /\ op'[c].rest = {} /\ op'[c].seen = {}
      /\ \A d \in Clients : d # c => op'[d] = op[d]
  BY <1>2 DEF TypeOK, Ops, NoOp
<1>4. Standing(c)
  BY <1>1, Stands DEF MayFill, MayWrite, Doing, Busy
<1>d. Orderly => \A d \in Clients : op[d].do = "idle"
  BY <1>1 DEF Orderly, Busy
<1>6. [NoOp EXCEPT !.do = "delete", !.key = k, !.tag = "-"] \in Ops
  <2>1. "delete" \in AllCalls
    BY DEF AllCalls, RedisCalls, SqlCalls, MemoryCalls
  <2>2. k \in Keys /\ "-" \in (Tags \union {"-"})
    BY <1>1, <1>4, <1>d, GivenTagsType, TagsAssumption DEF TypeOK, Ops, Standing, PlacedAt
  <2> QED
    BY <2>1, <2>2, Records
<1>7. data' \in [Keys -> Entries] /\ index' \in [Tags -> SUBSET Keys] /\ truth' \in [Keys -> Nat \ {0}]
  BY <1>1, <1>4, GivenTagsType DEF setting, NoOp, MayWrite, TypeOK, TypeOK, Ops, Entries,
     NoEntry, Drop, Unindexed, Standing, PlacedAt
<1>8. PlacedAt(c)'
  BY <1>1, <1>3, <1>4, <1>d, GivenTagsType DEF Standing, PlacedAt, MemoryCalls, RedisCalls,
     SqlCalls, GivenTags
<1>9. program = "serial" => SteadyAt(c)'
  BY <1>1, <1>3, <1>4, <1>d DEF Standing, PlacedAt, SteadyAt, Present, GivenTags
<1>10. CoveredAt(c)'
  BY <1>1, <1>3, <1>4, <1>d, GivenTagsType DEF Standing, CoveredAt, PlacedAt, MemoryCalls,
     SteadyAt, Pending, Present, GivenTags
<1>11. Tagged'
  BY <1>1, <1>3, <1>4, <1>d DEF Tagged, TypeOK, Present, GivenTags
<1>12. Truthful'
  BY <1>1, <1>3, <1>4, <1>d DEF Truthful, Orderly, Standing, PlacedAt
<1>13. Current'
  BY <1>1, <1>3, <1>4, <1>d DEF Current, Orderly, Undoing, Live, Standing, PlacedAt, SteadyAt,
     Present, GivenTags
<1> QED
  BY <1>1, <1>2, <1>4, <1>6, <1>7, <1>8, <1>9, <1>10, <1>11, <1>12, <1>13, ClientStep

\* The truth changes, and all is to be cleared.
LEMMA ChangeClear ==
    ASSUME IInv, NEW c \in Clients, NEW k \in Keys, style = "decorated", op[c] = NoOp, MayWrite,
           truth' = [truth EXCEPT ![k] = @ + 1], UNCHANGED <<setting, data, index>>,
           op' = [op EXCEPT ![c] = [NoOp EXCEPT !.do = "clear", !.key = k, !.tag = "-"]] PROVE IInv'
<1> USE DEF IInv
<1>1. /\ UNCHANGED <<backend, program, style>> /\ UNCHANGED <<data, index>>
      /\ op[c].do = "idle"
      /\ program # "any" => Busy = {}
      /\ \A x \in Keys : x # k => truth'[x] = truth[x]
  BY DEF setting, NoOp, MayWrite, TypeOK
<1>2. op' = [op EXCEPT ![c] = [NoOp EXCEPT !.do = "clear", !.key = k, !.tag = "-"]]
  BY DEF setting, NoOp, MayWrite, TypeOK, TypeOK, Ops
<1>3. /\ op'[c].do = "clear" /\ op'[c].key = k /\ op'[c].ver = 0
      /\ op'[c].tag = "-" /\ op'[c].rest = {} /\ op'[c].seen = {}
      /\ \A d \in Clients : d # c => op'[d] = op[d]
  BY <1>2 DEF TypeOK, Ops, NoOp
<1>4. Standing(c)
  BY <1>1, Stands DEF MayFill, MayWrite, Doing, Busy
<1>d. Orderly => \A d \in Clients : op[d].do = "idle"
  BY <1>1 DEF Orderly, Busy
<1>6. [NoOp EXCEPT !.do = "clear", !.key = k, !.tag = "-"] \in Ops
  <2>1. "clear" \in AllCalls
    BY DEF AllCalls, RedisCalls, SqlCalls, MemoryCalls
  <2>2. k \in Keys /\ "-" \in (Tags \union {"-"})
    BY <1>1, <1>4, <1>d, GivenTagsType, TagsAssumption DEF TypeOK, Ops, Standing, PlacedAt
  <2> QED
    BY <2>1, <2>2, Records
<1>7. data' \in [Keys -> Entries] /\ index' \in [Tags -> SUBSET Keys] /\ truth' \in [Keys -> Nat \ {0}]
  BY <1>1, <1>4, GivenTagsType DEF setting, NoOp, MayWrite, TypeOK, TypeOK, Ops, Entries,
     NoEntry, Drop, Unindexed, Standing, PlacedAt
<1>8. PlacedAt(c)'
  BY <1>1, <1>3, <1>4, <1>d, GivenTagsType DEF Standing, PlacedAt, MemoryCalls, RedisCalls,
     SqlCalls, GivenTags
<1>9. program = "serial" => SteadyAt(c)'
  BY <1>1, <1>3, <1>4, <1>d DEF Standing, PlacedAt, SteadyAt, Present, GivenTags
<1>10. CoveredAt(c)'
  BY <1>1, <1>3, <1>4, <1>d, GivenTagsType DEF Standing, CoveredAt, PlacedAt, MemoryCalls,
     SteadyAt, Pending, Present, GivenTags
<1>11. Tagged'
  BY <1>1, <1>3, <1>4, <1>d DEF Tagged, TypeOK, Present, GivenTags
<1>12. Truthful'
  BY <1>1, <1>3, <1>4, <1>d DEF Truthful, Orderly, Standing, PlacedAt
<1>13. Current'
  BY <1>1, <1>3, <1>4, <1>d DEF Current, Orderly, Undoing, Live, Standing, PlacedAt, SteadyAt,
     Present, GivenTags
<1> QED
  BY <1>1, <1>2, <1>4, <1>6, <1>7, <1>8, <1>9, <1>10, <1>11, <1>12, <1>13, ClientStep

\* The truth changes, and a tag is to be invalidated.
LEMMA ChangeInvalidate ==
    ASSUME IInv, NEW c \in Clients, NEW k \in Keys, NEW t, style = "tagged", t \in TagsOf[k],
       op[c] = NoOp, MayWrite,
           truth' = [truth EXCEPT ![k] = @ + 1], UNCHANGED <<setting, data, index>>,
           op' = [op EXCEPT ![c] = [NoOp EXCEPT !.do = "invalidate", !.key = k, !.tag = t]] PROVE IInv'
<1> USE DEF IInv
<1>1. /\ UNCHANGED <<backend, program, style>> /\ UNCHANGED <<data, index>>
      /\ op[c].do = "idle"
      /\ program # "any" => Busy = {}
      /\ \A x \in Keys : x # k => truth'[x] = truth[x]
  BY DEF setting, NoOp, MayWrite, TypeOK
<1>2. op' = [op EXCEPT ![c] = [NoOp EXCEPT !.do = "invalidate", !.key = k, !.tag = t]]
  BY DEF setting, NoOp, MayWrite, TypeOK, TypeOK, Ops
<1>3. /\ op'[c].do = "invalidate" /\ op'[c].key = k /\ op'[c].ver = 0
      /\ op'[c].tag = t /\ op'[c].rest = {} /\ op'[c].seen = {}
      /\ \A d \in Clients : d # c => op'[d] = op[d]
  BY <1>2 DEF TypeOK, Ops, NoOp
<1>4. Standing(c)
  BY <1>1, Stands DEF MayFill, MayWrite, Doing, Busy
<1>d. Orderly => \A d \in Clients : op[d].do = "idle"
  BY <1>1 DEF Orderly, Busy
<1>6. [NoOp EXCEPT !.do = "invalidate", !.key = k, !.tag = t] \in Ops
  <2>1. "invalidate" \in AllCalls
    BY DEF AllCalls, RedisCalls, SqlCalls, MemoryCalls
  <2>2. k \in Keys /\ t \in (Tags \union {"-"})
    BY <1>1, <1>4, <1>d, GivenTagsType, TagsAssumption DEF TypeOK, Ops, Standing, PlacedAt
  <2> QED
    BY <2>1, <2>2, Records
<1>7. data' \in [Keys -> Entries] /\ index' \in [Tags -> SUBSET Keys] /\ truth' \in [Keys -> Nat \ {0}]
  BY <1>1, <1>4, GivenTagsType DEF setting, NoOp, MayWrite, TypeOK, TypeOK, Ops, Entries,
     NoEntry, Drop, Unindexed, Standing, PlacedAt
<1>8. PlacedAt(c)'
  BY <1>1, <1>3, <1>4, <1>d, GivenTagsType DEF Standing, PlacedAt, MemoryCalls, RedisCalls,
     SqlCalls, GivenTags
<1>9. program = "serial" => SteadyAt(c)'
  BY <1>1, <1>3, <1>4, <1>d DEF Standing, PlacedAt, SteadyAt, Present, GivenTags
<1>10. CoveredAt(c)'
  BY <1>1, <1>3, <1>4, <1>d, GivenTagsType DEF Standing, CoveredAt, PlacedAt, MemoryCalls,
     SteadyAt, Pending, Present, GivenTags
<1>11. Tagged'
  BY <1>1, <1>3, <1>4, <1>d DEF Tagged, TypeOK, Present, GivenTags
<1>12. Truthful'
  BY <1>1, <1>3, <1>4, <1>d DEF Truthful, Orderly, Standing, PlacedAt
<1>13. Current'
  BY <1>1, <1>3, <1>4, <1>d DEF Current, Orderly, Undoing, Live, Standing, PlacedAt, SteadyAt,
     Present, GivenTags
<1> QED
  BY <1>1, <1>2, <1>4, <1>6, <1>7, <1>8, <1>9, <1>10, <1>11, <1>12, <1>13, ClientStep

\* A tag is invalidated in memory.
LEMMA InvalidateMemoryStep ==
    ASSUME IInv, NEW c \in Clients, InvalidateMemory(c) PROVE IInv'
<1> USE DEF IInv
<1>1. /\ UNCHANGED <<backend, program, style>> /\ UNCHANGED truth
      /\ op[c].do = "invalidate" /\ backend = "memory"
      /\ \A x \in Keys : data'[x] = IF x \in index[op[c].tag] THEN NoEntry ELSE data[x]
      /\ \A t \in Tags : index'[t] = IF t = op[c].tag THEN {} ELSE index[t]
      /\ NoEntry.ver = 0 /\ NoEntry.tags = {} /\ NoEntry.old = FALSE
  BY DEF InvalidateMemory, TypeOK, setting, At, Done, Goto, Drop, Unindexed, NoEntry
<1>2. op' = [op EXCEPT ![c] = NoOp]
  BY DEF InvalidateMemory, TypeOK, setting, At, Done, Goto, Drop, Unindexed, NoEntry, TypeOK, Ops
<1>3. /\ op'[c].do = "idle" /\ op'[c].key = "-" /\ op'[c].ver = 0
      /\ op'[c].tag = "-" /\ op'[c].rest = {} /\ op'[c].seen = {}
      /\ \A d \in Clients : d # c => op'[d] = op[d]
  BY <1>2 DEF TypeOK, Ops, NoOp
<1>4. Standing(c)
  BY <1>1, Stands
<1>5. op[c].key \in Keys
  BY <1>1, <1>4 DEF Standing, PlacedAt
<1>d. data'[op[c].key].ver = 0
  BY <1>1, <1>4, <1>5, GivenTagsType DEF Standing, PlacedAt, CoveredAt, Pending, Present
<1>6. NoOp \in Ops
  BY Records
<1>7. data' \in [Keys -> Entries] /\ index' \in [Tags -> SUBSET Keys] /\ truth' \in [Keys -> Nat \ {0}]
  BY <1>1, <1>4, <1>5, GivenTagsType DEF InvalidateMemory, TypeOK, setting, At, Done, Goto,
     Drop, Unindexed, NoEntry, TypeOK, Ops, Entries, NoEntry, Drop, Unindexed, Standing,
     PlacedAt
<1>8. PlacedAt(c)'
  BY <1>1, <1>3, <1>4, <1>5, <1>d, GivenTagsType DEF Standing, PlacedAt, MemoryCalls,
     RedisCalls, SqlCalls, GivenTags
<1>9. program = "serial" => SteadyAt(c)'
  BY <1>1, <1>3, <1>4, <1>5, <1>d DEF Standing, PlacedAt, SteadyAt, Present, GivenTags
<1>10. CoveredAt(c)'
  BY <1>1, <1>3, <1>4, <1>5, <1>d, GivenTagsType DEF Standing, CoveredAt, PlacedAt, MemoryCalls,
     SteadyAt, Pending, Present, GivenTags
<1>11. Tagged'
  BY <1>1, <1>3, <1>4, <1>5, <1>d DEF Tagged, TypeOK, Present, GivenTags
<1>12. Truthful'
  BY <1>1, <1>3, <1>4, <1>5, <1>d DEF Truthful, Orderly, Standing, PlacedAt
<1>13. Current'
  BY <1>1, <1>3, <1>4, <1>5, <1>d DEF Current, Orderly, Undoing, Live, Standing, PlacedAt,
     SteadyAt, Present, GivenTags
<1> QED
  BY <1>1, <1>2, <1>4, <1>6, <1>7, <1>8, <1>9, <1>10, <1>11, <1>12, <1>13, ClientStep

\* A tag without keys is invalidated.
LEMMA InvalidateNone ==
    ASSUME IInv, NEW c \in Clients, index[op[c].tag] = {}, InvalidateRead(c) PROVE IInv'
<1> USE DEF IInv
<1>1. /\ UNCHANGED <<backend, program, style>> /\ UNCHANGED <<data, index, truth>>
      /\ op[c].do = "invalidate" /\ backend # "memory"
  BY DEF InvalidateRead, setting, At, Done, Goto, Drop, Unindexed, NoEntry
<1>2. op' = [op EXCEPT ![c] = NoOp]
  BY DEF InvalidateRead, setting, At, Done, Goto, Drop, Unindexed, NoEntry, TypeOK, Ops
<1>3. /\ op'[c].do = "idle" /\ op'[c].key = "-" /\ op'[c].ver = 0
      /\ op'[c].tag = "-" /\ op'[c].rest = {} /\ op'[c].seen = {}
      /\ \A d \in Clients : d # c => op'[d] = op[d]
  BY <1>2 DEF TypeOK, Ops, NoOp
<1>4. Standing(c)
  BY <1>1, Stands
<1>5. op[c].key \in Keys
  BY <1>1, <1>4 DEF Standing, PlacedAt
<1>d. program = "serial" => ~Present(op[c].key)
  BY <1>1, <1>4, <1>5, GivenTagsType DEF Standing, PlacedAt, CoveredAt, Pending, Present
<1>6. NoOp \in Ops
  BY Records
<1>7. data' \in [Keys -> Entries] /\ index' \in [Tags -> SUBSET Keys] /\ truth' \in [Keys -> Nat \ {0}]
  BY <1>1, <1>4, <1>5, GivenTagsType DEF InvalidateRead, setting, At, Done, Goto, Drop,
     Unindexed, NoEntry, TypeOK, Ops, Entries, NoEntry, Drop, Unindexed, Standing, PlacedAt
<1>8. PlacedAt(c)'
  BY <1>1, <1>3, <1>4, <1>5, <1>d, GivenTagsType DEF Standing, PlacedAt, MemoryCalls,
     RedisCalls, SqlCalls, GivenTags
<1>9. program = "serial" => SteadyAt(c)'
  BY <1>1, <1>3, <1>4, <1>5, <1>d DEF Standing, PlacedAt, SteadyAt, Present, GivenTags
<1>10. CoveredAt(c)'
  BY <1>1, <1>3, <1>4, <1>5, <1>d, GivenTagsType DEF Standing, CoveredAt, PlacedAt, MemoryCalls,
     SteadyAt, Pending, Present, GivenTags
<1>11. Tagged'
  BY <1>1, <1>3, <1>4, <1>5, <1>d DEF Tagged, TypeOK, Present, GivenTags
<1>12. Truthful'
  BY <1>1, <1>3, <1>4, <1>5, <1>d DEF Truthful, Orderly, Standing, PlacedAt
<1>13. Current'
  BY <1>1, <1>3, <1>4, <1>5, <1>d DEF Current, Orderly, Undoing, Live, Standing, PlacedAt,
     SteadyAt, Present, GivenTags
<1> QED
  BY <1>1, <1>2, <1>4, <1>6, <1>7, <1>8, <1>9, <1>10, <1>11, <1>12, <1>13, ClientStep

\* The keys of a tag have been read.
LEMMA InvalidateSome ==
    ASSUME IInv, NEW c \in Clients, index[op[c].tag] # {}, InvalidateRead(c) PROVE IInv'
<1> USE DEF IInv
<1>1. /\ UNCHANGED <<backend, program, style>> /\ UNCHANGED <<data, index, truth>>
      /\ op[c].do = "invalidate" /\ backend # "memory"
  BY DEF InvalidateRead, setting, At, Done, Goto, Drop, Unindexed, NoEntry
<1>2. op' = [op EXCEPT ![c] = [op[c] EXCEPT !.do = "sweep", !.seen = index[op[c].tag], !.rest = index[op[c].tag]]]
  BY DEF InvalidateRead, setting, At, Done, Goto, Drop, Unindexed, NoEntry, TypeOK, Ops
<1>3. /\ op'[c].do = "sweep" /\ op'[c].key = op[c].key /\ op'[c].ver = op[c].ver
      /\ op'[c].tag = op[c].tag /\ op'[c].rest = index[op[c].tag] /\ op'[c].seen = index[op[c].tag]
      /\ \A d \in Clients : d # c => op'[d] = op[d]
  BY <1>2 DEF TypeOK, Ops, NoOp
<1>4. Standing(c)
  BY <1>1, Stands
<1>5. op[c].key \in Keys
  BY <1>1, <1>4 DEF Standing, PlacedAt
<1>d. /\ op[c].tag \in Tags /\ index[op[c].tag] \subseteq Keys
      /\ program = "serial" => \A k \in Keys : Present(k) /\ op[c].tag \in GivenTags(k) => k \in index[op[c].tag]
  BY <1>1, <1>4, <1>5, GivenTagsType DEF Standing, PlacedAt, CoveredAt, Pending, TypeOK
<1>6. [op[c] EXCEPT !.do = "sweep", !.seen = index[op[c].tag], !.rest = index[op[c].tag]] \in Ops
  <2>1. "sweep" \in AllCalls
    BY DEF AllCalls, RedisCalls, SqlCalls, MemoryCalls
  <2>2. index[op[c].tag] \in SUBSET Keys /\ index[op[c].tag] \in SUBSET (Keys \union Tags)
    BY <1>1, <1>4, <1>5, <1>d, GivenTagsType, TagsAssumption DEF TypeOK, Ops, Standing, PlacedAt
  <2> QED
    BY <2>1, <2>2, Records
<1>7. data' \in [Keys -> Entries] /\ index' \in [Tags -> SUBSET Keys] /\ truth' \in [Keys -> Nat \ {0}]
  BY <1>1, <1>4, <1>5, GivenTagsType DEF InvalidateRead, setting, At, Done, Goto, Drop,
     Unindexed, NoEntry, TypeOK, Ops, Entries, NoEntry, Drop, Unindexed, Standing, PlacedAt
<1>8. PlacedAt(c)'
  BY <1>1, <1>3, <1>4, <1>5, <1>d, GivenTagsType DEF Standing, PlacedAt, MemoryCalls,
     RedisCalls, SqlCalls, GivenTags
<1>9. program = "serial" => SteadyAt(c)'
  BY <1>1, <1>3, <1>4, <1>5, <1>d DEF Standing, PlacedAt, SteadyAt, Present, GivenTags
<1>10. CoveredAt(c)'
  BY <1>1, <1>3, <1>4, <1>5, <1>d, GivenTagsType DEF Standing, CoveredAt, PlacedAt, MemoryCalls,
     SteadyAt, Pending, Present, GivenTags
<1>11. Tagged'
  BY <1>1, <1>3, <1>4, <1>5, <1>d DEF Tagged, TypeOK, Present, GivenTags
<1>12. Truthful'
  BY <1>1, <1>3, <1>4, <1>5, <1>d DEF Truthful, Orderly, Standing, PlacedAt
<1>13. Current'
  BY <1>1, <1>3, <1>4, <1>5, <1>d DEF Current, Orderly, Undoing, Live, Standing, PlacedAt,
     SteadyAt, Present, GivenTags
<1> QED
  BY <1>1, <1>2, <1>4, <1>6, <1>7, <1>8, <1>9, <1>10, <1>11, <1>12, <1>13, ClientStep

\* The last key of a tag is deleted.
LEMMA SweepLast ==
    ASSUME IInv, NEW c \in Clients, NEW ks \in SUBSET op[c].rest, op[c].rest = ks,
       op[c].do = "sweep",
           UNCHANGED <<setting, index, truth>>, data' = Drop(ks),
           op' = [op EXCEPT ![c].rest = @ \ ks, ![c].do = IF @ = "sweep" /\ op[c].rest = ks THEN "droptag" ELSE @] PROVE IInv'
<1> USE DEF IInv
<1>1. /\ UNCHANGED <<backend, program, style>> /\ UNCHANGED <<index, truth>>
      /\ op[c].do = "sweep"
      /\ \A x \in Keys : data'[x] = IF x \in ks THEN NoEntry ELSE data[x]
      /\ NoEntry.ver = 0 /\ NoEntry.tags = {} /\ NoEntry.old = FALSE
  BY DEF TypeOK, setting, At, Done, Goto, Drop, Unindexed, NoEntry
<1>2. op' = [op EXCEPT ![c] = [op[c] EXCEPT !.do = "droptag", !.rest = op[c].rest \ ks]]
  BY DEF TypeOK, setting, At, Done, Goto, Drop, Unindexed, NoEntry, TypeOK, Ops
<1>3. /\ op'[c].do = "droptag" /\ op'[c].key = op[c].key /\ op'[c].ver = op[c].ver
      /\ op'[c].tag = op[c].tag /\ op'[c].rest = op[c].rest \ ks /\ op'[c].seen = op[c].seen
      /\ \A d \in Clients : d # c => op'[d] = op[d]
  BY <1>2 DEF TypeOK, Ops, NoOp
<1>4. Standing(c)
  BY <1>1, Stands
<1>5. op[c].key \in Keys
  BY <1>1, <1>4 DEF Standing, PlacedAt
<1>d. program = "serial" => data'[op[c].key].ver = 0
  <2> SUFFICES ASSUME program = "serial" PROVE data'[op[c].key].ver = 0
    OBVIOUS
  <2>1. op[c].tag \in GivenTags(op[c].key) /\ SteadyAt(c)
    BY <1>1, <1>4 DEF Standing, PlacedAt
  <2>2. Present(op[c].key) => op[c].key \in ks
    BY <1>1, <1>5, <2>1 DEF SteadyAt
  <2> QED
    BY <1>1, <1>5, <2>2 DEF Present
<1>6. [op[c] EXCEPT !.do = "droptag", !.rest = op[c].rest \ ks] \in Ops
  <2>1. "droptag" \in AllCalls
    BY DEF AllCalls, RedisCalls, SqlCalls, MemoryCalls
  <2>2. op[c].rest \ ks \in SUBSET (Keys \union Tags)
    BY <1>1, <1>4, <1>5, <1>d, GivenTagsType, TagsAssumption DEF TypeOK, Ops, Standing, PlacedAt
  <2> QED
    BY <2>1, <2>2, Records
<1>7. data' \in [Keys -> Entries] /\ index' \in [Tags -> SUBSET Keys] /\ truth' \in [Keys -> Nat \ {0}]
  BY <1>1, <1>4, <1>5, GivenTagsType DEF TypeOK, setting, At, Done, Goto, Drop, Unindexed,
     NoEntry, TypeOK, Ops, Entries, NoEntry, Drop, Unindexed, Standing, PlacedAt
<1>8. PlacedAt(c)'
  BY <1>1, <1>3, <1>4, <1>5, <1>d, GivenTagsType DEF Standing, PlacedAt, MemoryCalls,
     RedisCalls, SqlCalls, GivenTags
<1>9. program = "serial" => SteadyAt(c)'
  <2> SUFFICES ASSUME program = "serial" PROVE SteadyAt(c)'
    OBVIOUS
  <2>1. \A k \in Keys : data'[k].ver # 0 => Present(k) /\ k \notin ks
    BY <1>1 DEF Present
  <2>2. op[c].seen \subseteq Keys /\ SteadyAt(c)
    BY <1>4 DEF TypeOK, Ops, Standing
  <2>3. \A k \in Keys : data'[k].ver # 0 /\ op[c].tag \in GivenTags(k) => k \in op[c].rest \ ks
    BY <1>1, <2>1, <2>2 DEF SteadyAt
  <2>4. \A k \in op[c].seen : data'[k].ver # 0 => k \in op[c].rest \ ks
    BY <1>1, <2>1, <2>2 DEF SteadyAt
  <2>5. /\ op'[c].do = "droptag" /\ op'[c].rest = op[c].rest \ ks /\ op'[c].rest = {}
        /\ op'[c].tag = op[c].tag /\ op'[c].seen = op[c].seen /\ style' = style
    BY <1>1, <1>3, op[c].rest = ks
  <2>6. \A k \in Keys : Present(k)' /\ op'[c].tag \in GivenTags(k)' => k \in op'[c].rest
    <3>1. \A k \in Keys : GivenTags(k)' = GivenTags(k) /\ (Present(k)' <=> data'[k].ver # 0)
      BY <2>5 DEF Present, GivenTags
    <3> QED
      BY <2>3, <2>5, <3>1
  <2>7. \A k \in op'[c].seen : Present(k)' => k \in op'[c].rest
    BY <2>4, <2>5 DEF Present
  <2> QED
    BY <2>5, <2>6, <2>7 DEF SteadyAt
<1>10. CoveredAt(c)'
  BY <1>1, <1>3, <1>4, <1>5, <1>d, GivenTagsType DEF Standing, CoveredAt, PlacedAt, MemoryCalls,
     SteadyAt, Pending, Present, GivenTags
<1>11. Tagged'
  BY <1>1, <1>3, <1>4, <1>5, <1>d DEF Tagged, TypeOK, Present, GivenTags
<1>12. Truthful'
  <2>1. \A d \in Clients : op'[d].do = "set" => op[d].do = "set" /\ op'[d].ver = op[d].ver /\ op'[d].key = op[d].key
    BY <1>1, <1>3
  <2> QED
    BY <1>1, <2>1 DEF Truthful, Orderly
<1>13. Current'
  <2> SUFFICES ASSUME Orderly, NEW k \in Keys, Live(k)'
               PROVE  data'[k].ver = truth'[k] \/ \E d \in Clients : Undoing(d, k)'
    BY <1>1 DEF Current, Orderly
  <2>1. program = "serial"
    BY <1>1, <1>4 DEF Orderly, Standing, PlacedAt, MemoryCalls
  <2>2. data'[k] = data[k] /\ truth'[k] = truth[k] /\ Live(k)
    BY <1>1 DEF Live, Present
  <2>3. data[k].ver = truth[k] \/ Undoing(c, k)
    BY <1>4, <2>1, <2>2 DEF Current, Undoing, Standing
  <2> QED
    BY <1>d, <2>1, <2>2, <2>3 DEF Undoing, Live, Present
<1> QED
  BY <1>1, <1>2, <1>4, <1>6, <1>7, <1>8, <1>9, <1>10, <1>11, <1>12, <1>13, ClientStep

\* A key of a tag is deleted, and others remain.
LEMMA SweepMore ==
    ASSUME IInv, NEW c \in Clients, NEW ks \in SUBSET op[c].rest, op[c].rest # ks,
       op[c].do = "sweep",
           UNCHANGED <<setting, index, truth>>, data' = Drop(ks),
           op' = [op EXCEPT ![c].rest = @ \ ks, ![c].do = IF @ = "sweep" /\ op[c].rest = ks THEN "droptag" ELSE @] PROVE IInv'
<1> USE DEF IInv
<1>1. /\ UNCHANGED <<backend, program, style>> /\ UNCHANGED <<index, truth>>
      /\ op[c].do = "sweep"
      /\ \A x \in Keys : data'[x] = IF x \in ks THEN NoEntry ELSE data[x]
      /\ NoEntry.ver = 0 /\ NoEntry.tags = {} /\ NoEntry.old = FALSE
  BY DEF TypeOK, setting, At, Done, Goto, Drop, Unindexed, NoEntry
<1>2. op' = [op EXCEPT ![c] = [op[c] EXCEPT !.rest = op[c].rest \ ks]]
  BY DEF TypeOK, setting, At, Done, Goto, Drop, Unindexed, NoEntry, TypeOK, Ops
<1>3. /\ op'[c].do = op[c].do /\ op'[c].key = op[c].key /\ op'[c].ver = op[c].ver
      /\ op'[c].tag = op[c].tag /\ op'[c].rest = op[c].rest \ ks /\ op'[c].seen = op[c].seen
      /\ \A d \in Clients : d # c => op'[d] = op[d]
  BY <1>2 DEF TypeOK, Ops, NoOp
<1>4. Standing(c)
  BY <1>1, Stands
<1>5. op[c].key \in Keys
  BY <1>1, <1>4 DEF Standing, PlacedAt
<1>6. [op[c] EXCEPT !.rest = op[c].rest \ ks] \in Ops
  <2>1. op[c].rest \ ks \in SUBSET (Keys \union Tags)
    BY <1>1, <1>4, <1>5, GivenTagsType, TagsAssumption DEF TypeOK, Ops, Standing, PlacedAt
  <2> QED
    BY <2>1, Records
<1>7. data' \in [Keys -> Entries] /\ index' \in [Tags -> SUBSET Keys] /\ truth' \in [Keys -> Nat \ {0}]
  BY <1>1, <1>4, <1>5, GivenTagsType DEF TypeOK, setting, At, Done, Goto, Drop, Unindexed,
     NoEntry, TypeOK, Ops, Entries, NoEntry, Drop, Unindexed, Standing, PlacedAt
<1>8. PlacedAt(c)'
  BY <1>1, <1>3, <1>4, <1>5, GivenTagsType DEF Standing, PlacedAt, MemoryCalls, RedisCalls,
     SqlCalls, GivenTags
<1>9. program = "serial" => SteadyAt(c)'
  <2> SUFFICES ASSUME program = "serial" PROVE SteadyAt(c)'
    OBVIOUS
  <2>1. \A k \in Keys : data'[k].ver # 0 => Present(k) /\ k \notin ks
    BY <1>1 DEF Present
  <2>2. op[c].seen \subseteq Keys /\ SteadyAt(c)
    BY <1>4 DEF TypeOK, Ops, Standing
  <2>3. \A k \in Keys : data'[k].ver # 0 /\ op[c].tag \in GivenTags(k) => k \in op[c].rest \ ks
    BY <1>1, <2>1, <2>2 DEF SteadyAt
  <2>4. \A k \in op[c].seen : data'[k].ver # 0 => k \in op[c].rest \ ks
    BY <1>1, <2>1, <2>2 DEF SteadyAt
  <2>5. /\ op'[c].do = "sweep" /\ op'[c].rest = op[c].rest \ ks /\ op'[c].tag = op[c].tag
        /\ op'[c].seen = op[c].seen /\ style' = style
    BY <1>1, <1>3
  <2>6. \A k \in Keys : Present(k)' /\ op'[c].tag \in GivenTags(k)' => k \in op'[c].rest
    <3>1. \A k \in Keys : GivenTags(k)' = GivenTags(k) /\ (Present(k)' <=> data'[k].ver # 0)
      BY <2>5 DEF Present, GivenTags
    <3> QED
      BY <2>3, <2>5, <3>1
  <2>7. \A k \in op'[c].seen : Present(k)' => k \in op'[c].rest
    BY <2>4, <2>5 DEF Present
  <2> QED
    BY <2>5, <2>6, <2>7 DEF SteadyAt
<1>10. CoveredAt(c)'
  BY <1>1, <1>3, <1>4, <1>5, GivenTagsType DEF Standing, CoveredAt, PlacedAt, MemoryCalls,
     SteadyAt, Pending, Present, GivenTags
<1>11. Tagged'
  BY <1>1, <1>3, <1>4, <1>5 DEF Tagged, TypeOK, Present, GivenTags
<1>12. Truthful'
  <2>1. \A d \in Clients : op'[d].do = "set" => op[d].do = "set" /\ op'[d].ver = op[d].ver /\ op'[d].key = op[d].key
    BY <1>1, <1>3
  <2> QED
    BY <1>1, <2>1 DEF Truthful, Orderly
<1>13. Current'
  <2> SUFFICES ASSUME Orderly, NEW k \in Keys, Live(k)'
               PROVE  data'[k].ver = truth'[k] \/ \E d \in Clients : Undoing(d, k)'
    BY <1>1 DEF Current, Orderly
  <2>1. program = "serial"
    BY <1>1, <1>4 DEF Orderly, Standing, PlacedAt, MemoryCalls
  <2>2. data'[k] = data[k] /\ truth'[k] = truth[k] /\ Live(k)
    BY <1>1 DEF Live, Present
  <2>3. data[k].ver = truth[k] \/ Undoing(c, k)
    BY <1>4, <2>1, <2>2 DEF Current, Undoing, Standing
  <2> QED
    BY <1>1, <1>3, <2>2, <2>3 DEF Undoing
<1> QED
  BY <1>1, <1>2, <1>4, <1>6, <1>7, <1>8, <1>9, <1>10, <1>11, <1>12, <1>13, ClientStep

\* The set of an invalidated tag is deleted.
LEMMA InvalidateDropStep ==
    ASSUME IInv, NEW c \in Clients, InvalidateDrop(c) PROVE IInv'
<1> USE DEF IInv
<1>1. /\ UNCHANGED <<backend, program, style>> /\ UNCHANGED <<data, truth>>
      /\ op[c].do = "droptag"
      /\ \A t \in Tags : index'[t] = IF backend = "redis" THEN IF t = op[c].tag THEN {} ELSE index[t] ELSE index[t] \ op[c].seen
  BY DEF InvalidateDrop, TypeOK, setting, At, Done, Goto, Drop, Unindexed, NoEntry
<1>2. op' = [op EXCEPT ![c] = NoOp]
  BY DEF InvalidateDrop, TypeOK, setting, At, Done, Goto, Drop, Unindexed, NoEntry, TypeOK, Ops
<1>3. /\ op'[c].do = "idle" /\ op'[c].key = "-" /\ op'[c].ver = 0
      /\ op'[c].tag = "-" /\ op'[c].rest = {} /\ op'[c].seen = {}
      /\ \A d \in Clients : d # c => op'[d] = op[d]
  BY <1>2 DEF TypeOK, Ops, NoOp
<1>4. Standing(c)
  BY <1>1, Stands
<1>5. op[c].key \in Keys
  BY <1>1, <1>4 DEF Standing, PlacedAt
<1>6. NoOp \in Ops
  BY Records
<1>7. data' \in [Keys -> Entries] /\ index' \in [Tags -> SUBSET Keys] /\ truth' \in [Keys -> Nat \ {0}]
  BY <1>1, <1>4, <1>5, GivenTagsType DEF InvalidateDrop, TypeOK, setting, At, Done, Goto, Drop,
     Unindexed, NoEntry, TypeOK, Ops, Entries, NoEntry, Drop, Unindexed, Standing, PlacedAt
<1>8. PlacedAt(c)'
  BY <1>1, <1>3, <1>4, <1>5, GivenTagsType DEF Standing, PlacedAt, MemoryCalls, RedisCalls,
     SqlCalls, GivenTags
<1>9. program = "serial" => SteadyAt(c)'
  BY <1>1, <1>3, <1>4, <1>5 DEF Standing, PlacedAt, SteadyAt, Present, GivenTags
<1>10. CoveredAt(c)'
  BY <1>1, <1>3, <1>4, <1>5, GivenTagsType DEF Standing, CoveredAt, PlacedAt, MemoryCalls,
     SteadyAt, Pending, Present, GivenTags
<1>11. Tagged'
  BY <1>1, <1>3, <1>4, <1>5 DEF Tagged, TypeOK, Present, GivenTags
<1>12. Truthful'
  BY <1>1, <1>3, <1>4, <1>5 DEF Truthful, Orderly, Standing, PlacedAt
<1>13. Current'
  BY <1>1, <1>3, <1>4, <1>5 DEF Current, Orderly, Undoing, Live, Standing, PlacedAt, SteadyAt,
     Present, GivenTags
<1> QED
  BY <1>1, <1>2, <1>4, <1>6, <1>7, <1>8, <1>9, <1>10, <1>11, <1>12, <1>13, ClientStep

\* An entry is deleted in memory.
LEMMA DeleteMemoryStep ==
    ASSUME IInv, NEW c \in Clients, DeleteMemory(c) PROVE IInv'
<1> USE DEF IInv
<1>1. /\ UNCHANGED <<backend, program, style>> /\ UNCHANGED truth
      /\ op[c].do \in {"delete", "clear"} /\ backend = "memory"
      /\ \A x \in Keys : data'[x] = IF x = op[c].key THEN NoEntry ELSE data[x]
      /\ \A t \in Tags : index'[t] = index[t] \ {op[c].key} \/ (index'[t] = index[t] /\ ~Present(op[c].key))
      /\ NoEntry.ver = 0 /\ NoEntry.tags = {} /\ NoEntry.old = FALSE
  BY DEF DeleteMemory, TypeOK, setting, At, Done, Goto, Drop, Unindexed, NoEntry
<1>2. op' = [op EXCEPT ![c] = NoOp]
  BY DEF DeleteMemory, TypeOK, setting, At, Done, Goto, Drop, Unindexed, NoEntry, TypeOK, Ops
<1>3. /\ op'[c].do = "idle" /\ op'[c].key = "-" /\ op'[c].ver = 0
      /\ op'[c].tag = "-" /\ op'[c].rest = {} /\ op'[c].seen = {}
      /\ \A d \in Clients : d # c => op'[d] = op[d]
  BY <1>2 DEF TypeOK, Ops, NoOp
<1>4. Standing(c)
  BY <1>1, Stands
<1>5. op[c].key \in Keys
  BY <1>1, <1>4 DEF Standing, PlacedAt
<1>6. NoOp \in Ops
  BY Records
<1>7. data' \in [Keys -> Entries] /\ index' \in [Tags -> SUBSET Keys] /\ truth' \in [Keys -> Nat \ {0}]
  BY <1>1, <1>4, <1>5, GivenTagsType DEF DeleteMemory, TypeOK, setting, At, Done, Goto, Drop,
     Unindexed, NoEntry, TypeOK, Ops, Entries, NoEntry, Drop, Unindexed, Standing, PlacedAt
<1>8. PlacedAt(c)'
  BY <1>1, <1>3, <1>4, <1>5, GivenTagsType DEF Standing, PlacedAt, MemoryCalls, RedisCalls,
     SqlCalls, GivenTags
<1>9. program = "serial" => SteadyAt(c)'
  BY <1>1, <1>3, <1>4, <1>5 DEF Standing, PlacedAt, SteadyAt, Present, GivenTags
<1>10. CoveredAt(c)'
  BY <1>1, <1>3, <1>4, <1>5, GivenTagsType DEF Standing, CoveredAt, PlacedAt, MemoryCalls,
     SteadyAt, Pending, Present, GivenTags
<1>11. Tagged'
  BY <1>1, <1>3, <1>4, <1>5 DEF Tagged, TypeOK, Present, GivenTags
<1>12. Truthful'
  BY <1>1, <1>3, <1>4, <1>5 DEF Truthful, Orderly, Standing, PlacedAt
<1>13. Current'
  BY <1>1, <1>3, <1>4, <1>5 DEF Current, Orderly, Undoing, Live, Standing, PlacedAt, SteadyAt,
     Present, GivenTags
<1> QED
  BY <1>1, <1>2, <1>4, <1>6, <1>7, <1>8, <1>9, <1>10, <1>11, <1>12, <1>13, ClientStep

\* An entry is deleted in one statement.
LEMMA DeleteAloneStep ==
    ASSUME IInv, NEW c \in Clients, DeleteAlone(c) PROVE IInv'
<1> USE DEF IInv
<1>1. /\ UNCHANGED <<backend, program, style>> /\ UNCHANGED <<index, truth>>
      /\ op[c].do \in {"delete", "clear"} /\ backend # "memory"
      /\ \A x \in Keys : data'[x] = IF x = op[c].key THEN NoEntry ELSE data[x]
      /\ NoEntry.ver = 0 /\ NoEntry.tags = {} /\ NoEntry.old = FALSE
  BY DEF DeleteAlone, TypeOK, setting, At, Done, Goto, Drop, Unindexed, NoEntry
<1>2. op' = [op EXCEPT ![c] = NoOp]
  BY DEF DeleteAlone, TypeOK, setting, At, Done, Goto, Drop, Unindexed, NoEntry, TypeOK, Ops
<1>3. /\ op'[c].do = "idle" /\ op'[c].key = "-" /\ op'[c].ver = 0
      /\ op'[c].tag = "-" /\ op'[c].rest = {} /\ op'[c].seen = {}
      /\ \A d \in Clients : d # c => op'[d] = op[d]
  BY <1>2 DEF TypeOK, Ops, NoOp
<1>4. Standing(c)
  BY <1>1, Stands
<1>5. op[c].key \in Keys
  BY <1>1, <1>4 DEF Standing, PlacedAt
<1>6. NoOp \in Ops
  BY Records
<1>7. data' \in [Keys -> Entries] /\ index' \in [Tags -> SUBSET Keys] /\ truth' \in [Keys -> Nat \ {0}]
  BY <1>1, <1>4, <1>5, GivenTagsType DEF DeleteAlone, TypeOK, setting, At, Done, Goto, Drop,
     Unindexed, NoEntry, TypeOK, Ops, Entries, NoEntry, Drop, Unindexed, Standing, PlacedAt
<1>8. PlacedAt(c)'
  BY <1>1, <1>3, <1>4, <1>5, GivenTagsType DEF Standing, PlacedAt, MemoryCalls, RedisCalls,
     SqlCalls, GivenTags
<1>9. program = "serial" => SteadyAt(c)'
  BY <1>1, <1>3, <1>4, <1>5 DEF Standing, PlacedAt, SteadyAt, Present, GivenTags
<1>10. CoveredAt(c)'
  BY <1>1, <1>3, <1>4, <1>5, GivenTagsType DEF Standing, CoveredAt, PlacedAt, MemoryCalls,
     SteadyAt, Pending, Present, GivenTags
<1>11. Tagged'
  BY <1>1, <1>3, <1>4, <1>5 DEF Tagged, TypeOK, Present, GivenTags
<1>12. Truthful'
  BY <1>1, <1>3, <1>4, <1>5 DEF Truthful, Orderly, Standing, PlacedAt
<1>13. Current'
  BY <1>1, <1>3, <1>4, <1>5 DEF Current, Orderly, Undoing, Live, Standing, PlacedAt, SteadyAt,
     Present, GivenTags
<1> QED
  BY <1>1, <1>2, <1>4, <1>6, <1>7, <1>8, <1>9, <1>10, <1>11, <1>12, <1>13, ClientStep

\* All is cleared.
LEMMA ClearRedisStep ==
    ASSUME IInv, NEW c \in Clients, ClearRedis(c) PROVE IInv'
<1> USE DEF IInv
<1>0. PICK ks \in SUBSET {k \in Keys : Present(k)} :
          (op[c].key \in ks \/ ~Present(op[c].key)) /\ data' = Drop(ks)
  BY DEF ClearRedis, TypeOK, setting, At, Done, Goto, Drop, Unindexed, NoEntry
<1>1. /\ UNCHANGED <<backend, program, style>> /\ UNCHANGED truth
      /\ op[c].do = "clear" /\ backend = "redis"
      /\ \A x \in Keys : data'[x] = IF x \in ks THEN NoEntry ELSE data[x] 
      /\ op[c].key \in ks \/ ~Present(op[c].key)
      /\ \A t \in Tags : index'[t] = {}
      /\ NoEntry.ver = 0 /\ NoEntry.tags = {} /\ NoEntry.old = FALSE
  BY <1>0 DEF ClearRedis, TypeOK, setting, At, Done, Goto, Drop, Unindexed, NoEntry
<1>2. op' = [op EXCEPT ![c] = NoOp]
  BY <1>0 DEF ClearRedis, TypeOK, setting, At, Done, Goto, Drop, Unindexed, NoEntry, TypeOK, Ops
<1>3. /\ op'[c].do = "idle" /\ op'[c].key = "-" /\ op'[c].ver = 0
      /\ op'[c].tag = "-" /\ op'[c].rest = {} /\ op'[c].seen = {}
      /\ \A d \in Clients : d # c => op'[d] = op[d]
  BY <1>2 DEF TypeOK, Ops, NoOp
<1>4. Standing(c)
  BY <1>1, Stands
<1>5. op[c].key \in Keys
  BY <1>1, <1>4 DEF Standing, PlacedAt
<1>6. NoOp \in Ops
  BY Records
<1>7. data' \in [Keys -> Entries] /\ index' \in [Tags -> SUBSET Keys] /\ truth' \in [Keys -> Nat \ {0}]
  BY <1>1, <1>4, <1>5, <1>0, GivenTagsType DEF ClearRedis, TypeOK, setting, At, Done, Goto,
     Drop, Unindexed, NoEntry, TypeOK, Ops, Entries, NoEntry, Drop, Unindexed, Standing,
     PlacedAt
<1>8. PlacedAt(c)'
  BY <1>1, <1>3, <1>4, <1>5, GivenTagsType DEF Standing, PlacedAt, MemoryCalls, RedisCalls,
     SqlCalls, GivenTags
<1>9. program = "serial" => SteadyAt(c)'
  BY <1>1, <1>3, <1>4, <1>5 DEF Standing, PlacedAt, SteadyAt, Present, GivenTags
<1>10. CoveredAt(c)'
  BY <1>1, <1>3, <1>4, <1>5, GivenTagsType DEF Standing, CoveredAt, PlacedAt, MemoryCalls,
     SteadyAt, Pending, Present, GivenTags
<1>11. Tagged'
  BY <1>1, <1>3, <1>4, <1>5 DEF Tagged, TypeOK, Present, GivenTags
<1>12. Truthful'
  BY <1>1, <1>3, <1>4, <1>5 DEF Truthful, Orderly, Standing, PlacedAt
<1>13. Current'
  BY <1>1, <1>3, <1>4, <1>5 DEF Current, Orderly, Undoing, Live, Standing, PlacedAt, SteadyAt,
     Present, GivenTags
<1> QED
  BY <1>1, <1>2, <1>4, <1>6, <1>7, <1>8, <1>9, <1>10, <1>11, <1>12, <1>13, ClientStep

\* A key to delete was not there.
LEMMA ProbeNoDelete ==
    ASSUME IInv, NEW c \in Clients, ~Present(op[c].key), At(c, "delete"), Probe(c) PROVE IInv'
<1> USE DEF IInv
<1>1. /\ UNCHANGED <<backend, program, style>> /\ UNCHANGED <<data, index, truth>>
      /\ op[c].do = "delete" /\ backend = "sql"
  BY DEF Probe, setting, At, Done, Goto, Drop, Unindexed, NoEntry
<1>2. op' = [op EXCEPT ![c] = NoOp]
  BY DEF Probe, setting, At, Done, Goto, Drop, Unindexed, NoEntry, TypeOK, Ops
<1>3. /\ op'[c].do = "idle" /\ op'[c].key = "-" /\ op'[c].ver = 0
      /\ op'[c].tag = "-" /\ op'[c].rest = {} /\ op'[c].seen = {}
      /\ \A d \in Clients : d # c => op'[d] = op[d]
  BY <1>2 DEF TypeOK, Ops, NoOp
<1>4. Standing(c)
  BY <1>1, Stands
<1>5. op[c].key \in Keys
  BY <1>1, <1>4 DEF Standing, PlacedAt
<1>6. NoOp \in Ops
  BY Records
<1>7. data' \in [Keys -> Entries] /\ index' \in [Tags -> SUBSET Keys] /\ truth' \in [Keys -> Nat \ {0}]
  BY <1>1, <1>4, <1>5, GivenTagsType DEF Probe, setting, At, Done, Goto, Drop, Unindexed,
     NoEntry, TypeOK, Ops, Entries, NoEntry, Drop, Unindexed, Standing, PlacedAt
<1>8. PlacedAt(c)'
  BY <1>1, <1>3, <1>4, <1>5, GivenTagsType DEF Standing, PlacedAt, MemoryCalls, RedisCalls,
     SqlCalls, GivenTags
<1>9. program = "serial" => SteadyAt(c)'
  BY <1>1, <1>3, <1>4, <1>5 DEF Standing, PlacedAt, SteadyAt, Present, GivenTags
<1>10. CoveredAt(c)'
  BY <1>1, <1>3, <1>4, <1>5, GivenTagsType DEF Standing, CoveredAt, PlacedAt, MemoryCalls,
     SteadyAt, Pending, Present, GivenTags
<1>11. Tagged'
  BY <1>1, <1>3, <1>4, <1>5 DEF Tagged, TypeOK, Present, GivenTags
<1>12. Truthful'
  BY <1>1, <1>3, <1>4, <1>5 DEF Truthful, Orderly, Standing, PlacedAt
<1>13. Current'
  BY <1>1, <1>3, <1>4, <1>5 DEF Current, Orderly, Undoing, Live, Standing, PlacedAt, SteadyAt,
     Present, GivenTags
<1> QED
  BY <1>1, <1>2, <1>4, <1>6, <1>7, <1>8, <1>9, <1>10, <1>11, <1>12, <1>13, ClientStep

\* A key to clean up was not there.
LEMMA ProbeNoExpired ==
    ASSUME IInv, NEW c \in Clients, ~Present(op[c].key), At(c, "expired"), Probe(c) PROVE IInv'
<1> USE DEF IInv
<1>1. /\ UNCHANGED <<backend, program, style>> /\ UNCHANGED <<data, index, truth>>
      /\ op[c].do = "expired" /\ backend = "sql"
  BY DEF Probe, setting, At, Done, Goto, Drop, Unindexed, NoEntry
<1>2. op' = [op EXCEPT ![c] = [op[c] EXCEPT !.do = "compute"]]
  BY DEF Probe, setting, At, Done, Goto, Drop, Unindexed, NoEntry, TypeOK, Ops
<1>3. /\ op'[c].do = "compute" /\ op'[c].key = op[c].key /\ op'[c].ver = op[c].ver
      /\ op'[c].tag = op[c].tag /\ op'[c].rest = op[c].rest /\ op'[c].seen = op[c].seen
      /\ \A d \in Clients : d # c => op'[d] = op[d]
  BY <1>2 DEF TypeOK, Ops, NoOp
<1>4. Standing(c)
  BY <1>1, Stands
<1>5. op[c].key \in Keys
  BY <1>1, <1>4 DEF Standing, PlacedAt
<1>6. [op[c] EXCEPT !.do = "compute"] \in Ops
  <2>1. "compute" \in AllCalls
    BY DEF AllCalls, RedisCalls, SqlCalls, MemoryCalls
  <2> QED
    BY <2>1, Records
<1>7. data' \in [Keys -> Entries] /\ index' \in [Tags -> SUBSET Keys] /\ truth' \in [Keys -> Nat \ {0}]
  BY <1>1, <1>4, <1>5, GivenTagsType DEF Probe, setting, At, Done, Goto, Drop, Unindexed,
     NoEntry, TypeOK, Ops, Entries, NoEntry, Drop, Unindexed, Standing, PlacedAt
<1>8. PlacedAt(c)'
  BY <1>1, <1>3, <1>4, <1>5, GivenTagsType DEF Standing, PlacedAt, MemoryCalls, RedisCalls,
     SqlCalls, GivenTags
<1>9. program = "serial" => SteadyAt(c)'
  BY <1>1, <1>3, <1>4, <1>5 DEF Standing, PlacedAt, SteadyAt, Present, GivenTags
<1>10. CoveredAt(c)'
  BY <1>1, <1>3, <1>4, <1>5, GivenTagsType DEF Standing, CoveredAt, PlacedAt, MemoryCalls,
     SteadyAt, Pending, Present, GivenTags
<1>11. Tagged'
  BY <1>1, <1>3, <1>4, <1>5 DEF Tagged, TypeOK, Present, GivenTags
<1>12. Truthful'
  BY <1>1, <1>3, <1>4, <1>5 DEF Truthful, Orderly, Standing, PlacedAt
<1>13. Current'
  BY <1>1, <1>3, <1>4, <1>5 DEF Current, Orderly, Undoing, Live, Standing, PlacedAt, SteadyAt,
     Present, GivenTags
<1> QED
  BY <1>1, <1>2, <1>4, <1>6, <1>7, <1>8, <1>9, <1>10, <1>11, <1>12, <1>13, ClientStep

\* A key to delete was there.
LEMMA ProbeDelete ==
    ASSUME IInv, NEW c \in Clients, Present(op[c].key), At(c, "delete"), Probe(c) PROVE IInv'
<1> USE DEF IInv
<1>1. /\ UNCHANGED <<backend, program, style>> /\ UNCHANGED <<data, index, truth>>
      /\ op[c].do = "delete" /\ backend = "sql"
  BY DEF Probe, setting, At, Done, Goto, Drop, Unindexed, NoEntry
<1>2. op' = [op EXCEPT ![c] = [op[c] EXCEPT !.do = "delrow"]]
  BY DEF Probe, setting, At, Done, Goto, Drop, Unindexed, NoEntry, TypeOK, Ops
<1>3. /\ op'[c].do = "delrow" /\ op'[c].key = op[c].key /\ op'[c].ver = op[c].ver
      /\ op'[c].tag = op[c].tag /\ op'[c].rest = op[c].rest /\ op'[c].seen = op[c].seen
      /\ \A d \in Clients : d # c => op'[d] = op[d]
  BY <1>2 DEF TypeOK, Ops, NoOp
<1>4. Standing(c)
  BY <1>1, Stands
<1>5. op[c].key \in Keys
  BY <1>1, <1>4 DEF Standing, PlacedAt
<1>6. [op[c] EXCEPT !.do = "delrow"] \in Ops
  <2>1. "delrow" \in AllCalls
    BY DEF AllCalls, RedisCalls, SqlCalls, MemoryCalls
  <2> QED
    BY <2>1, Records
<1>7. data' \in [Keys -> Entries] /\ index' \in [Tags -> SUBSET Keys] /\ truth' \in [Keys -> Nat \ {0}]
  BY <1>1, <1>4, <1>5, GivenTagsType DEF Probe, setting, At, Done, Goto, Drop, Unindexed,
     NoEntry, TypeOK, Ops, Entries, NoEntry, Drop, Unindexed, Standing, PlacedAt
<1>8. PlacedAt(c)'
  BY <1>1, <1>3, <1>4, <1>5, GivenTagsType DEF Standing, PlacedAt, MemoryCalls, RedisCalls,
     SqlCalls, GivenTags
<1>9. program = "serial" => SteadyAt(c)'
  BY <1>1, <1>3, <1>4, <1>5 DEF Standing, PlacedAt, SteadyAt, Present, GivenTags
<1>10. CoveredAt(c)'
  BY <1>1, <1>3, <1>4, <1>5, GivenTagsType DEF Standing, CoveredAt, PlacedAt, MemoryCalls,
     SteadyAt, Pending, Present, GivenTags
<1>11. Tagged'
  BY <1>1, <1>3, <1>4, <1>5 DEF Tagged, TypeOK, Present, GivenTags
<1>12. Truthful'
  BY <1>1, <1>3, <1>4, <1>5 DEF Truthful, Orderly, Standing, PlacedAt
<1>13. Current'
  BY <1>1, <1>3, <1>4, <1>5 DEF Current, Orderly, Undoing, Live, Standing, PlacedAt, SteadyAt,
     Present, GivenTags
<1> QED
  BY <1>1, <1>2, <1>4, <1>6, <1>7, <1>8, <1>9, <1>10, <1>11, <1>12, <1>13, ClientStep

\* A key to clean up was there.
LEMMA ProbeExpired ==
    ASSUME IInv, NEW c \in Clients, Present(op[c].key), At(c, "expired"), Probe(c) PROVE IInv'
<1> USE DEF IInv
<1>1. /\ UNCHANGED <<backend, program, style>> /\ UNCHANGED <<data, index, truth>>
      /\ op[c].do = "expired" /\ backend = "sql"
  BY DEF Probe, setting, At, Done, Goto, Drop, Unindexed, NoEntry
<1>2. op' = [op EXCEPT ![c] = [op[c] EXCEPT !.do = "oldrow"]]
  BY DEF Probe, setting, At, Done, Goto, Drop, Unindexed, NoEntry, TypeOK, Ops
<1>3. /\ op'[c].do = "oldrow" /\ op'[c].key = op[c].key /\ op'[c].ver = op[c].ver
      /\ op'[c].tag = op[c].tag /\ op'[c].rest = op[c].rest /\ op'[c].seen = op[c].seen
      /\ \A d \in Clients : d # c => op'[d] = op[d]
  BY <1>2 DEF TypeOK, Ops, NoOp
<1>4. Standing(c)
  BY <1>1, Stands
<1>5. op[c].key \in Keys
  BY <1>1, <1>4 DEF Standing, PlacedAt
<1>6. [op[c] EXCEPT !.do = "oldrow"] \in Ops
  <2>1. "oldrow" \in AllCalls
    BY DEF AllCalls, RedisCalls, SqlCalls, MemoryCalls
  <2> QED
    BY <2>1, Records
<1>7. data' \in [Keys -> Entries] /\ index' \in [Tags -> SUBSET Keys] /\ truth' \in [Keys -> Nat \ {0}]
  BY <1>1, <1>4, <1>5, GivenTagsType DEF Probe, setting, At, Done, Goto, Drop, Unindexed,
     NoEntry, TypeOK, Ops, Entries, NoEntry, Drop, Unindexed, Standing, PlacedAt
<1>8. PlacedAt(c)'
  BY <1>1, <1>3, <1>4, <1>5, GivenTagsType DEF Standing, PlacedAt, MemoryCalls, RedisCalls,
     SqlCalls, GivenTags
<1>9. program = "serial" => SteadyAt(c)'
  BY <1>1, <1>3, <1>4, <1>5 DEF Standing, PlacedAt, SteadyAt, Present, GivenTags
<1>10. CoveredAt(c)'
  BY <1>1, <1>3, <1>4, <1>5, GivenTagsType DEF Standing, CoveredAt, PlacedAt, MemoryCalls,
     SteadyAt, Pending, Present, GivenTags
<1>11. Tagged'
  BY <1>1, <1>3, <1>4, <1>5 DEF Tagged, TypeOK, Present, GivenTags
<1>12. Truthful'
  BY <1>1, <1>3, <1>4, <1>5 DEF Truthful, Orderly, Standing, PlacedAt
<1>13. Current'
  BY <1>1, <1>3, <1>4, <1>5 DEF Current, Orderly, Undoing, Live, Standing, PlacedAt, SteadyAt,
     Present, GivenTags
<1> QED
  BY <1>1, <1>2, <1>4, <1>6, <1>7, <1>8, <1>9, <1>10, <1>11, <1>12, <1>13, ClientStep

\* The row of a deleted key goes.
LEMMA RowDel ==
    ASSUME IInv, NEW c \in Clients, At(c, "delrow"), DeleteRow(c) PROVE IInv'
<1> USE DEF IInv
<1>1. /\ UNCHANGED <<backend, program, style>> /\ UNCHANGED <<index, truth>>
      /\ op[c].do = "delrow"
      /\ \A x \in Keys : data'[x] = IF x = op[c].key THEN NoEntry ELSE data[x]
      /\ NoEntry.ver = 0 /\ NoEntry.tags = {} /\ NoEntry.old = FALSE
  BY DEF DeleteRow, TypeOK, setting, At, Done, Goto, Drop, Unindexed, NoEntry
<1>2. op' = [op EXCEPT ![c] = [op[c] EXCEPT !.do = "deltags"]]
  BY DEF DeleteRow, TypeOK, setting, At, Done, Goto, Drop, Unindexed, NoEntry, TypeOK, Ops
<1>3. /\ op'[c].do = "deltags" /\ op'[c].key = op[c].key /\ op'[c].ver = op[c].ver
      /\ op'[c].tag = op[c].tag /\ op'[c].rest = op[c].rest /\ op'[c].seen = op[c].seen
      /\ \A d \in Clients : d # c => op'[d] = op[d]
  BY <1>2 DEF TypeOK, Ops, NoOp
<1>4. Standing(c)
  BY <1>1, Stands
<1>5. op[c].key \in Keys
  BY <1>1, <1>4 DEF Standing, PlacedAt
<1>6. [op[c] EXCEPT !.do = "deltags"] \in Ops
  <2>1. "deltags" \in AllCalls
    BY DEF AllCalls, RedisCalls, SqlCalls, MemoryCalls
  <2> QED
    BY <2>1, Records
<1>7. data' \in [Keys -> Entries] /\ index' \in [Tags -> SUBSET Keys] /\ truth' \in [Keys -> Nat \ {0}]
  BY <1>1, <1>4, <1>5, GivenTagsType DEF DeleteRow, TypeOK, setting, At, Done, Goto, Drop,
     Unindexed, NoEntry, TypeOK, Ops, Entries, NoEntry, Drop, Unindexed, Standing, PlacedAt
<1>8. PlacedAt(c)'
  BY <1>1, <1>3, <1>4, <1>5, GivenTagsType DEF Standing, PlacedAt, MemoryCalls, RedisCalls,
     SqlCalls, GivenTags
<1>9. program = "serial" => SteadyAt(c)'
  BY <1>1, <1>3, <1>4, <1>5 DEF Standing, PlacedAt, SteadyAt, Present, GivenTags
<1>10. CoveredAt(c)'
  BY <1>1, <1>3, <1>4, <1>5, GivenTagsType DEF Standing, CoveredAt, PlacedAt, MemoryCalls,
     SteadyAt, Pending, Present, GivenTags
<1>11. Tagged'
  BY <1>1, <1>3, <1>4, <1>5 DEF Tagged, TypeOK, Present, GivenTags
<1>12. Truthful'
  BY <1>1, <1>3, <1>4, <1>5 DEF Truthful, Orderly, Standing, PlacedAt
<1>13. Current'
  BY <1>1, <1>3, <1>4, <1>5 DEF Current, Orderly, Undoing, Live, Standing, PlacedAt, SteadyAt,
     Present, GivenTags
<1> QED
  BY <1>1, <1>2, <1>4, <1>6, <1>7, <1>8, <1>9, <1>10, <1>11, <1>12, <1>13, ClientStep

\* The rows of tags of a deleted key go.
LEMMA TagsDel ==
    ASSUME IInv, NEW c \in Clients, At(c, "deltags"), DeleteTags(c) PROVE IInv'
<1> USE DEF IInv
<1>1. /\ UNCHANGED <<backend, program, style>> /\ UNCHANGED <<data, truth>>
      /\ op[c].do = "deltags"
      /\ \A t \in Tags : index'[t] = index[t] \ {op[c].key}
  BY DEF DeleteTags, TypeOK, setting, At, Done, Goto, Drop, Unindexed, NoEntry
<1>2. op' = [op EXCEPT ![c] = NoOp]
  BY DEF DeleteTags, TypeOK, setting, At, Done, Goto, Drop, Unindexed, NoEntry, TypeOK, Ops
<1>3. /\ op'[c].do = "idle" /\ op'[c].key = "-" /\ op'[c].ver = 0
      /\ op'[c].tag = "-" /\ op'[c].rest = {} /\ op'[c].seen = {}
      /\ \A d \in Clients : d # c => op'[d] = op[d]
  BY <1>2 DEF TypeOK, Ops, NoOp
<1>4. Standing(c)
  BY <1>1, Stands
<1>5. op[c].key \in Keys
  BY <1>1, <1>4 DEF Standing, PlacedAt
<1>6. NoOp \in Ops
  BY Records
<1>7. data' \in [Keys -> Entries] /\ index' \in [Tags -> SUBSET Keys] /\ truth' \in [Keys -> Nat \ {0}]
  BY <1>1, <1>4, <1>5, GivenTagsType DEF DeleteTags, TypeOK, setting, At, Done, Goto, Drop,
     Unindexed, NoEntry, TypeOK, Ops, Entries, NoEntry, Drop, Unindexed, Standing, PlacedAt
<1>8. PlacedAt(c)'
  BY <1>1, <1>3, <1>4, <1>5, GivenTagsType DEF Standing, PlacedAt, MemoryCalls, RedisCalls,
     SqlCalls, GivenTags
<1>9. program = "serial" => SteadyAt(c)'
  BY <1>1, <1>3, <1>4, <1>5 DEF Standing, PlacedAt, SteadyAt, Present, GivenTags
<1>10. CoveredAt(c)'
  BY <1>1, <1>3, <1>4, <1>5, GivenTagsType DEF Standing, CoveredAt, PlacedAt, MemoryCalls,
     SteadyAt, Pending, Present, GivenTags
<1>11. Tagged'
  BY <1>1, <1>3, <1>4, <1>5 DEF Tagged, TypeOK, Present, GivenTags
<1>12. Truthful'
  BY <1>1, <1>3, <1>4, <1>5 DEF Truthful, Orderly, Standing, PlacedAt
<1>13. Current'
  BY <1>1, <1>3, <1>4, <1>5 DEF Current, Orderly, Undoing, Live, Standing, PlacedAt, SteadyAt,
     Present, GivenTags
<1> QED
  BY <1>1, <1>2, <1>4, <1>6, <1>7, <1>8, <1>9, <1>10, <1>11, <1>12, <1>13, ClientStep

\* The row of an expired key goes.
LEMMA RowOld ==
    ASSUME IInv, NEW c \in Clients, At(c, "oldrow"), DeleteRow(c) PROVE IInv'
<1> USE DEF IInv
<1>1. /\ UNCHANGED <<backend, program, style>> /\ UNCHANGED <<index, truth>>
      /\ op[c].do = "oldrow"
      /\ \A x \in Keys : data'[x] = IF x = op[c].key THEN NoEntry ELSE data[x]
      /\ NoEntry.ver = 0 /\ NoEntry.tags = {} /\ NoEntry.old = FALSE
  BY DEF DeleteRow, TypeOK, setting, At, Done, Goto, Drop, Unindexed, NoEntry
<1>2. op' = [op EXCEPT ![c] = [op[c] EXCEPT !.do = "oldtags"]]
  BY DEF DeleteRow, TypeOK, setting, At, Done, Goto, Drop, Unindexed, NoEntry, TypeOK, Ops
<1>3. /\ op'[c].do = "oldtags" /\ op'[c].key = op[c].key /\ op'[c].ver = op[c].ver
      /\ op'[c].tag = op[c].tag /\ op'[c].rest = op[c].rest /\ op'[c].seen = op[c].seen
      /\ \A d \in Clients : d # c => op'[d] = op[d]
  BY <1>2 DEF TypeOK, Ops, NoOp
<1>4. Standing(c)
  BY <1>1, Stands
<1>5. op[c].key \in Keys
  BY <1>1, <1>4 DEF Standing, PlacedAt
<1>6. [op[c] EXCEPT !.do = "oldtags"] \in Ops
  <2>1. "oldtags" \in AllCalls
    BY DEF AllCalls, RedisCalls, SqlCalls, MemoryCalls
  <2> QED
    BY <2>1, Records
<1>7. data' \in [Keys -> Entries] /\ index' \in [Tags -> SUBSET Keys] /\ truth' \in [Keys -> Nat \ {0}]
  BY <1>1, <1>4, <1>5, GivenTagsType DEF DeleteRow, TypeOK, setting, At, Done, Goto, Drop,
     Unindexed, NoEntry, TypeOK, Ops, Entries, NoEntry, Drop, Unindexed, Standing, PlacedAt
<1>8. PlacedAt(c)'
  BY <1>1, <1>3, <1>4, <1>5, GivenTagsType DEF Standing, PlacedAt, MemoryCalls, RedisCalls,
     SqlCalls, GivenTags
<1>9. program = "serial" => SteadyAt(c)'
  BY <1>1, <1>3, <1>4, <1>5 DEF Standing, PlacedAt, SteadyAt, Present, GivenTags
<1>10. CoveredAt(c)'
  BY <1>1, <1>3, <1>4, <1>5, GivenTagsType DEF Standing, CoveredAt, PlacedAt, MemoryCalls,
     SteadyAt, Pending, Present, GivenTags
<1>11. Tagged'
  BY <1>1, <1>3, <1>4, <1>5 DEF Tagged, TypeOK, Present, GivenTags
<1>12. Truthful'
  BY <1>1, <1>3, <1>4, <1>5 DEF Truthful, Orderly, Standing, PlacedAt
<1>13. Current'
  BY <1>1, <1>3, <1>4, <1>5 DEF Current, Orderly, Undoing, Live, Standing, PlacedAt, SteadyAt,
     Present, GivenTags
<1> QED
  BY <1>1, <1>2, <1>4, <1>6, <1>7, <1>8, <1>9, <1>10, <1>11, <1>12, <1>13, ClientStep

\* The rows of tags of an expired key go.
LEMMA TagsOld ==
    ASSUME IInv, NEW c \in Clients, At(c, "oldtags"), DeleteTags(c) PROVE IInv'
<1> USE DEF IInv
<1>1. /\ UNCHANGED <<backend, program, style>> /\ UNCHANGED <<data, truth>>
      /\ op[c].do = "oldtags"
      /\ \A t \in Tags : index'[t] = index[t] \ {op[c].key}
  BY DEF DeleteTags, TypeOK, setting, At, Done, Goto, Drop, Unindexed, NoEntry
<1>2. op' = [op EXCEPT ![c] = [op[c] EXCEPT !.do = "compute"]]
  BY DEF DeleteTags, TypeOK, setting, At, Done, Goto, Drop, Unindexed, NoEntry, TypeOK, Ops
<1>3. /\ op'[c].do = "compute" /\ op'[c].key = op[c].key /\ op'[c].ver = op[c].ver
      /\ op'[c].tag = op[c].tag /\ op'[c].rest = op[c].rest /\ op'[c].seen = op[c].seen
      /\ \A d \in Clients : d # c => op'[d] = op[d]
  BY <1>2 DEF TypeOK, Ops, NoOp
<1>4. Standing(c)
  BY <1>1, Stands
<1>5. op[c].key \in Keys
  BY <1>1, <1>4 DEF Standing, PlacedAt
<1>6. [op[c] EXCEPT !.do = "compute"] \in Ops
  <2>1. "compute" \in AllCalls
    BY DEF AllCalls, RedisCalls, SqlCalls, MemoryCalls
  <2> QED
    BY <2>1, Records
<1>7. data' \in [Keys -> Entries] /\ index' \in [Tags -> SUBSET Keys] /\ truth' \in [Keys -> Nat \ {0}]
  BY <1>1, <1>4, <1>5, GivenTagsType DEF DeleteTags, TypeOK, setting, At, Done, Goto, Drop,
     Unindexed, NoEntry, TypeOK, Ops, Entries, NoEntry, Drop, Unindexed, Standing, PlacedAt
<1>8. PlacedAt(c)'
  BY <1>1, <1>3, <1>4, <1>5, GivenTagsType DEF Standing, PlacedAt, MemoryCalls, RedisCalls,
     SqlCalls, GivenTags
<1>9. program = "serial" => SteadyAt(c)'
  BY <1>1, <1>3, <1>4, <1>5 DEF Standing, PlacedAt, SteadyAt, Present, GivenTags
<1>10. CoveredAt(c)'
  BY <1>1, <1>3, <1>4, <1>5, GivenTagsType DEF Standing, CoveredAt, PlacedAt, MemoryCalls,
     SteadyAt, Pending, Present, GivenTags
<1>11. Tagged'
  BY <1>1, <1>3, <1>4, <1>5 DEF Tagged, TypeOK, Present, GivenTags
<1>12. Truthful'
  BY <1>1, <1>3, <1>4, <1>5 DEF Truthful, Orderly, Standing, PlacedAt
<1>13. Current'
  BY <1>1, <1>3, <1>4, <1>5 DEF Current, Orderly, Undoing, Live, Standing, PlacedAt, SteadyAt,
     Present, GivenTags
<1> QED
  BY <1>1, <1>2, <1>4, <1>6, <1>7, <1>8, <1>9, <1>10, <1>11, <1>12, <1>13, ClientStep

\* The garbage collection deletes expired rows.
LEMMA GcRowsStep ==
    ASSUME IInv, NEW c \in Clients, GcRows(c) PROVE IInv'
<1> USE DEF IInv
<1>1. /\ UNCHANGED <<backend, program, style>> /\ UNCHANGED <<index, truth>>
      /\ op[c].do = "idle" /\ backend = "sql"
      /\ program = "serial" => Busy = {}
      /\ \A x \in Keys : data'[x] = IF data[x].old THEN NoEntry ELSE data[x]
      /\ NoEntry.ver = 0 /\ NoEntry.tags = {} /\ NoEntry.old = FALSE
  BY DEF GcRows, NoOp, MayWrite, TypeOK, setting, At, Done, Goto, Drop, Unindexed, NoEntry
<1>2. op' = [op EXCEPT ![c] = [op[c] EXCEPT !.do = "dangling"]]
  BY DEF GcRows, NoOp, MayWrite, TypeOK, setting, At, Done, Goto, Drop, Unindexed, NoEntry,
     TypeOK, Ops
<1>3. /\ op'[c].do = "dangling" /\ op'[c].key = op[c].key /\ op'[c].ver = op[c].ver
      /\ op'[c].tag = op[c].tag /\ op'[c].rest = op[c].rest /\ op'[c].seen = op[c].seen
      /\ \A d \in Clients : d # c => op'[d] = op[d]
  BY <1>2 DEF TypeOK, Ops, NoOp
<1>4. Standing(c)
  BY <1>1, Stands DEF MayFill, MayWrite, Doing, Busy
<1>6. [op[c] EXCEPT !.do = "dangling"] \in Ops
  <2>1. "dangling" \in AllCalls
    BY DEF AllCalls, RedisCalls, SqlCalls, MemoryCalls
  <2> QED
    BY <2>1, Records
<1>7. data' \in [Keys -> Entries] /\ index' \in [Tags -> SUBSET Keys] /\ truth' \in [Keys -> Nat \ {0}]
  BY <1>1, <1>4, GivenTagsType DEF GcRows, NoOp, MayWrite, TypeOK, setting, At, Done, Goto,
     Drop, Unindexed, NoEntry, TypeOK, Ops, Entries, NoEntry, Drop, Unindexed, Standing,
     PlacedAt
<1>8. PlacedAt(c)'
  BY <1>1, <1>3, <1>4, GivenTagsType DEF Standing, PlacedAt, MemoryCalls, RedisCalls, SqlCalls,
     GivenTags
<1>9. program = "serial" => SteadyAt(c)'
  BY <1>1, <1>3, <1>4 DEF Standing, PlacedAt, SteadyAt, Present, GivenTags
<1>10. CoveredAt(c)'
  BY <1>1, <1>3, <1>4, GivenTagsType DEF Standing, CoveredAt, PlacedAt, MemoryCalls, SteadyAt,
     Pending, Present, GivenTags
<1>11. Tagged'
  BY <1>1, <1>3, <1>4 DEF Tagged, TypeOK, Present, GivenTags
<1>12. Truthful'
  BY <1>1, <1>3, <1>4 DEF Truthful, Orderly, Standing, PlacedAt
<1>13. Current'
  BY <1>1, <1>3, <1>4 DEF Current, Orderly, Undoing, Live, Standing, PlacedAt, SteadyAt,
     Present, GivenTags
<1> QED
  BY <1>1, <1>2, <1>4, <1>6, <1>7, <1>8, <1>9, <1>10, <1>11, <1>12, <1>13, ClientStep

\* The garbage collection deletes rows of tags without a key.
LEMMA GcTagsStep ==
    ASSUME IInv, NEW c \in Clients, GcTags(c) PROVE IInv'
<1> USE DEF IInv
<1>1. /\ UNCHANGED <<backend, program, style>> /\ UNCHANGED <<data, truth>>
      /\ op[c].do = "dangling"
      /\ \A t \in Tags : index'[t] = index[t] \intersect Stored
      /\ \A k \in Keys : k \in Stored <=> Present(k)
  BY DEF GcTags, Stored, TypeOK, setting, At, Done, Goto, Drop, Unindexed, NoEntry
<1>2. op' = [op EXCEPT ![c] = NoOp]
  BY DEF GcTags, Stored, TypeOK, setting, At, Done, Goto, Drop, Unindexed, NoEntry, TypeOK, Ops
<1>3. /\ op'[c].do = "idle" /\ op'[c].key = "-" /\ op'[c].ver = 0
      /\ op'[c].tag = "-" /\ op'[c].rest = {} /\ op'[c].seen = {}
      /\ \A d \in Clients : d # c => op'[d] = op[d]
  BY <1>2 DEF TypeOK, Ops, NoOp
<1>4. Standing(c)
  BY <1>1, Stands
<1>6. NoOp \in Ops
  BY Records
<1>7. data' \in [Keys -> Entries] /\ index' \in [Tags -> SUBSET Keys] /\ truth' \in [Keys -> Nat \ {0}]
  BY <1>1, <1>4, GivenTagsType DEF GcTags, Stored, TypeOK, setting, At, Done, Goto, Drop,
     Unindexed, NoEntry, TypeOK, Ops, Entries, NoEntry, Drop, Unindexed, Standing, PlacedAt
<1>8. PlacedAt(c)'
  BY <1>1, <1>3, <1>4, GivenTagsType DEF Standing, PlacedAt, MemoryCalls, RedisCalls, SqlCalls,
     GivenTags
<1>9. program = "serial" => SteadyAt(c)'
  BY <1>1, <1>3, <1>4 DEF Standing, PlacedAt, SteadyAt, Present, GivenTags
<1>10. CoveredAt(c)'
  BY <1>1, <1>3, <1>4, GivenTagsType DEF Standing, CoveredAt, PlacedAt, MemoryCalls, SteadyAt,
     Pending, Present, GivenTags
<1>11. Tagged'
  BY <1>1, <1>3, <1>4 DEF Tagged, TypeOK, Present, GivenTags
<1>12. Truthful'
  BY <1>1, <1>3, <1>4 DEF Truthful, Orderly, Standing, PlacedAt
<1>13. Current'
  BY <1>1, <1>3, <1>4 DEF Current, Orderly, Undoing, Live, Standing, PlacedAt, SteadyAt,
     Present, GivenTags
<1> QED
  BY <1>1, <1>2, <1>4, <1>6, <1>7, <1>8, <1>9, <1>10, <1>11, <1>12, <1>13, ClientStep

\* The garbage collection has read the keys of a tag.
LEMMA GcGetStep ==
    ASSUME IInv, NEW c \in Clients, NEW t \in Tags, GcGet(c, t) PROVE IInv'
<1> USE DEF IInv
<1>1. /\ UNCHANGED <<backend, program, style>> /\ UNCHANGED <<data, index, truth>>
      /\ op[c].do = "idle" /\ backend = "redis"
      /\ program = "serial" => Busy = {}
  BY DEF GcGet, NoOp, MayWrite, TypeOK, setting, At, Done, Goto, Drop, Unindexed, NoEntry
<1>2. op' = [op EXCEPT ![c] = [NoOp EXCEPT !.do = "exists", !.tag = t, !.rest = index[t], !.seen = index[t]]]
  BY DEF GcGet, NoOp, MayWrite, TypeOK, setting, At, Done, Goto, Drop, Unindexed, NoEntry,
     TypeOK, Ops
<1>3. /\ op'[c].do = "exists" /\ op'[c].key = "-" /\ op'[c].ver = 0
      /\ op'[c].tag = t /\ op'[c].rest = index[t] /\ op'[c].seen = index[t]
      /\ \A d \in Clients : d # c => op'[d] = op[d]
  BY <1>2 DEF TypeOK, Ops, NoOp
<1>4. Standing(c)
  BY <1>1, Stands DEF MayFill, MayWrite, Doing, Busy
<1>6. [NoOp EXCEPT !.do = "exists", !.tag = t, !.rest = index[t], !.seen = index[t]] \in Ops
  <2>1. "exists" \in AllCalls
    BY DEF AllCalls, RedisCalls, SqlCalls, MemoryCalls
  <2>2. t \in (Tags \union {"-"}) /\ index[t] \in SUBSET (Keys \union Tags) /\ index[t] \in SUBSET Keys
    BY <1>1, <1>4, GivenTagsType, TagsAssumption DEF TypeOK, Ops, Standing, PlacedAt
  <2> QED
    BY <2>1, <2>2, Records
<1>7. data' \in [Keys -> Entries] /\ index' \in [Tags -> SUBSET Keys] /\ truth' \in [Keys -> Nat \ {0}]
  BY <1>1, <1>4, GivenTagsType DEF GcGet, NoOp, MayWrite, TypeOK, setting, At, Done, Goto, Drop,
     Unindexed, NoEntry, TypeOK, Ops, Entries, NoEntry, Drop, Unindexed, Standing, PlacedAt
<1>8. PlacedAt(c)'
  BY <1>1, <1>3, <1>4, GivenTagsType DEF Standing, PlacedAt, MemoryCalls, RedisCalls, SqlCalls,
     GivenTags
<1>9. program = "serial" => SteadyAt(c)'
  BY <1>1, <1>3, <1>4 DEF Standing, PlacedAt, SteadyAt, Present, GivenTags
<1>10. CoveredAt(c)'
  BY <1>1, <1>3, <1>4, GivenTagsType DEF Standing, CoveredAt, PlacedAt, MemoryCalls, SteadyAt,
     Pending, Present, GivenTags
<1>11. Tagged'
  BY <1>1, <1>3, <1>4 DEF Tagged, TypeOK, Present, GivenTags
<1>12. Truthful'
  BY <1>1, <1>3, <1>4 DEF Truthful, Orderly, Standing, PlacedAt
<1>13. Current'
  BY <1>1, <1>3, <1>4 DEF Current, Orderly, Undoing, Live, Standing, PlacedAt, SteadyAt,
     Present, GivenTags
<1> QED
  BY <1>1, <1>2, <1>4, <1>6, <1>7, <1>8, <1>9, <1>10, <1>11, <1>12, <1>13, ClientStep

\* The garbage collection finds a key of a tag.
LEMMA GcExistsFound ==
    ASSUME IInv, NEW c \in Clients, NEW k \in op[c].rest, Present(k),
       op[c].do \in {"exists", "prune"}, UNCHANGED <<setting, data, index, truth>>,
           op' = [op EXCEPT ![c].rest = @ \ {k}] PROVE IInv'
<1> USE DEF IInv
<1>1. /\ UNCHANGED <<backend, program, style>> /\ UNCHANGED <<data, index, truth>>
      /\ op[c].do \in {"exists", "prune"}
  BY DEF setting
<1>2. op' = [op EXCEPT ![c] = [op[c] EXCEPT !.rest = op[c].rest \ {k}]]
  BY DEF setting, TypeOK, Ops
<1>3. /\ op'[c].do = op[c].do /\ op'[c].key = op[c].key /\ op'[c].ver = op[c].ver
      /\ op'[c].tag = op[c].tag /\ op'[c].rest = op[c].rest \ {k} /\ op'[c].seen = op[c].seen
      /\ \A d \in Clients : d # c => op'[d] = op[d]
  BY <1>2 DEF TypeOK, Ops, NoOp
<1>4. Standing(c)
  BY <1>1, Stands
<1>6. [op[c] EXCEPT !.rest = op[c].rest \ {k}] \in Ops
  <2>1. op[c].rest \ {k} \in SUBSET (Keys \union Tags)
    BY <1>1, <1>4, GivenTagsType, TagsAssumption DEF TypeOK, Ops, Standing, PlacedAt
  <2> QED
    BY <2>1, Records
<1>7. data' \in [Keys -> Entries] /\ index' \in [Tags -> SUBSET Keys] /\ truth' \in [Keys -> Nat \ {0}]
  BY <1>1, <1>4, GivenTagsType DEF setting, TypeOK, Ops, Entries, NoEntry, Drop, Unindexed,
     Standing, PlacedAt
<1>8. PlacedAt(c)'
  BY <1>1, <1>3, <1>4, GivenTagsType DEF Standing, PlacedAt, MemoryCalls, RedisCalls, SqlCalls,
     GivenTags
<1>9. program = "serial" => SteadyAt(c)'
  BY <1>1, <1>3, <1>4 DEF Standing, PlacedAt, SteadyAt, Present, GivenTags
<1>10. CoveredAt(c)'
  BY <1>1, <1>3, <1>4, GivenTagsType DEF Standing, CoveredAt, PlacedAt, MemoryCalls, SteadyAt,
     Pending, Present, GivenTags
<1>11. Tagged'
  BY <1>1, <1>3, <1>4 DEF Tagged, TypeOK, Present, GivenTags
<1>12. Truthful'
  BY <1>1, <1>3, <1>4 DEF Truthful, Orderly, Standing, PlacedAt
<1>13. Current'
  BY <1>1, <1>3, <1>4 DEF Current, Orderly, Undoing, Live, Standing, PlacedAt, SteadyAt,
     Present, GivenTags
<1> QED
  BY <1>1, <1>2, <1>4, <1>6, <1>7, <1>8, <1>9, <1>10, <1>11, <1>12, <1>13, ClientStep

\* The garbage collection misses a key of a tag.
LEMMA GcExistsGone ==
    ASSUME IInv, NEW c \in Clients, NEW k \in op[c].rest, ~Present(k),
       op[c].do \in {"exists", "prune"}, UNCHANGED <<setting, data, index, truth>>,
           op' = [op EXCEPT ![c].rest = @ \ {k}, ![c].seen = @ \ {k}, ![c].do = "prune"] PROVE IInv'
<1> USE DEF IInv
<1>1. /\ UNCHANGED <<backend, program, style>> /\ UNCHANGED <<data, index, truth>>
      /\ op[c].do \in {"exists", "prune"}
  BY DEF setting
<1>2. op' = [op EXCEPT ![c] = [op[c] EXCEPT !.rest = op[c].rest \ {k}, !.seen = op[c].seen \ {k}, !.do = "prune"]]
  BY DEF setting, TypeOK, Ops
<1>3. /\ op'[c].do = "prune" /\ op'[c].key = op[c].key /\ op'[c].ver = op[c].ver
      /\ op'[c].tag = op[c].tag /\ op'[c].rest = op[c].rest \ {k} /\ op'[c].seen = op[c].seen \ {k}
      /\ \A d \in Clients : d # c => op'[d] = op[d]
  BY <1>2 DEF TypeOK, Ops, NoOp
<1>4. Standing(c)
  BY <1>1, Stands
<1>6. [op[c] EXCEPT !.rest = op[c].rest \ {k}, !.seen = op[c].seen \ {k}, !.do = "prune"] \in Ops
  <2>1. "prune" \in AllCalls
    BY DEF AllCalls, RedisCalls, SqlCalls, MemoryCalls
  <2>2. op[c].rest \ {k} \in SUBSET (Keys \union Tags) /\ op[c].seen \ {k} \in SUBSET Keys
    BY <1>1, <1>4, GivenTagsType, TagsAssumption DEF TypeOK, Ops, Standing, PlacedAt
  <2> QED
    BY <2>1, <2>2, Records
<1>7. data' \in [Keys -> Entries] /\ index' \in [Tags -> SUBSET Keys] /\ truth' \in [Keys -> Nat \ {0}]
  BY <1>1, <1>4, GivenTagsType DEF setting, TypeOK, Ops, Entries, NoEntry, Drop, Unindexed,
     Standing, PlacedAt
<1>8. PlacedAt(c)'
  BY <1>1, <1>3, <1>4, GivenTagsType DEF Standing, PlacedAt, MemoryCalls, RedisCalls, SqlCalls,
     GivenTags
<1>9. program = "serial" => SteadyAt(c)'
  BY <1>1, <1>3, <1>4 DEF Standing, PlacedAt, SteadyAt, Present, GivenTags
<1>10. CoveredAt(c)'
  BY <1>1, <1>3, <1>4, GivenTagsType DEF Standing, CoveredAt, PlacedAt, MemoryCalls, SteadyAt,
     Pending, Present, GivenTags
<1>11. Tagged'
  BY <1>1, <1>3, <1>4 DEF Tagged, TypeOK, Present, GivenTags
<1>12. Truthful'
  BY <1>1, <1>3, <1>4 DEF Truthful, Orderly, Standing, PlacedAt
<1>13. Current'
  <2>1. \A d \in Clients, x \in Keys : Undoing(d, x) => d # c
    BY <1>1 DEF Undoing
  <2>2. \A d \in Clients, x \in Keys : Undoing(d, x) => Undoing(d, x)'
    BY <1>3, <2>1 DEF Undoing
  <2>3. \A x \in Keys : data'[x] = data[x] /\ truth'[x] = truth[x]
    BY <1>1
  <2> QED
    BY <1>1, <2>2, <2>3 DEF Current, Orderly, Live, Present
<1> QED
  BY <1>1, <1>2, <1>4, <1>6, <1>7, <1>8, <1>9, <1>10, <1>11, <1>12, <1>13, ClientStep

\* The garbage collection writes what is left of a tag.
LEMMA GcSetStep ==
    ASSUME IInv, NEW c \in Clients, GcSet(c) PROVE IInv'
<1> USE DEF IInv
<1>1. /\ UNCHANGED <<backend, program, style>> /\ UNCHANGED <<data, truth>>
      /\ op[c].do \in {"exists", "prune"}
      /\ \A t \in Tags : index'[t] = index[t] \/ (t = op[c].tag /\ index'[t] = op[c].seen)
  BY DEF GcSet, TypeOK, setting, At, Done, Goto, Drop, Unindexed, NoEntry
<1>2. op' = [op EXCEPT ![c] = NoOp]
  BY DEF GcSet, TypeOK, setting, At, Done, Goto, Drop, Unindexed, NoEntry, TypeOK, Ops
<1>3. /\ op'[c].do = "idle" /\ op'[c].key = "-" /\ op'[c].ver = 0
      /\ op'[c].tag = "-" /\ op'[c].rest = {} /\ op'[c].seen = {}
      /\ \A d \in Clients : d # c => op'[d] = op[d]
  BY <1>2 DEF TypeOK, Ops, NoOp
<1>4. Standing(c)
  BY <1>1, Stands
<1>6. NoOp \in Ops
  BY Records
<1>7. data' \in [Keys -> Entries] /\ index' \in [Tags -> SUBSET Keys] /\ truth' \in [Keys -> Nat \ {0}]
  BY <1>1, <1>4, GivenTagsType DEF GcSet, TypeOK, setting, At, Done, Goto, Drop, Unindexed,
     NoEntry, TypeOK, Ops, Entries, NoEntry, Drop, Unindexed, Standing, PlacedAt
<1>8. PlacedAt(c)'
  BY <1>1, <1>3, <1>4, GivenTagsType DEF Standing, PlacedAt, MemoryCalls, RedisCalls, SqlCalls,
     GivenTags
<1>9. program = "serial" => SteadyAt(c)'
  BY <1>1, <1>3, <1>4 DEF Standing, PlacedAt, SteadyAt, Present, GivenTags
<1>10. CoveredAt(c)'
  BY <1>1, <1>3, <1>4, GivenTagsType DEF Standing, CoveredAt, PlacedAt, MemoryCalls, SteadyAt,
     Pending, Present, GivenTags
<1>11. Tagged'
  BY <1>1, <1>3, <1>4 DEF Tagged, TypeOK, Present, GivenTags
<1>12. Truthful'
  BY <1>1, <1>3, <1>4 DEF Truthful, Orderly, Standing, PlacedAt
<1>13. Current'
  BY <1>1, <1>3, <1>4 DEF Current, Orderly, Undoing, Live, Standing, PlacedAt, SteadyAt,
     Present, GivenTags
<1> QED
  BY <1>1, <1>2, <1>4, <1>6, <1>7, <1>8, <1>9, <1>10, <1>11, <1>12, <1>13, ClientStep

\* The steps of a fill.
LEMMA FillStep ==
    ASSUME IInv, NEW c \in Clients, Fill(c) PROVE IInv'
<1>1. ASSUME NEW k \in Keys, Miss(c, k) PROVE IInv'
  BY <1>1, MissExpired, MissAbsent
<1>2. CASE SetRemote(c)
  <2>1. backend \in {"memory", "redis", "sql"} /\ backend # "memory"
    BY <1>2 DEF SetRemote, IInv, TypeOK
  <2> QED
    BY <1>2, <2>1, SetRemoteDone, SetRedis, SetSql
<1>3. CASE TagSet(c)
  BY <1>3, TagSetDone, TagSetMore
<1>4. CASE TagRow(c)
  <2>1. PICK t \in op[c].rest :
            /\ index' = [index EXCEPT ![t] = @ \union {op[c].key}]
            /\ IF op[c].rest = {t} THEN Done(c) ELSE op' = [op EXCEPT ![c].rest = @ \ {t}]
    BY <1>4 DEF TagRow
  <2>2. op[c].do = "tagrow" /\ UNCHANGED <<setting, data, truth>>
    BY <1>4 DEF TagRow, At
  <2>3. CASE op[c].rest = {t}
    BY <2>1, <2>2, <2>3, TagRowDone
  <2>4. CASE op[c].rest # {t}
    BY <2>1, <2>2, <2>4, TagRowMore
  <2> QED
    BY <2>3, <2>4
<1> QED
  BY <1>1, <1>2, <1>3, <1>4, ComputeStep, SetMemoryStep, TagGetStep, UntagStep DEF Fill

\* The change that a writer makes.
LEMMA ChangeStep ==
    ASSUME IInv, NEW c \in Clients, NEW k \in Keys, Change(c, k) PROVE IInv'
<1>1. /\ op[c] = NoOp /\ MayWrite /\ truth' = [truth EXCEPT ![k] = @ + 1]
      /\ UNCHANGED <<setting, data, index>>
  BY DEF Change
<1>2. PICK how \in {"delete"} \union (IF style = "tagged" THEN {"invalidate"} ELSE {"clear"}) :
         \E t \in IF how = "invalidate" THEN TagsOf[k] ELSE {"-"} :
            op' = [op EXCEPT ![c] = [NoOp EXCEPT !.do = how, !.key = k, !.tag = t]]
  BY DEF Change
<1>3. PICK t \in IF how = "invalidate" THEN TagsOf[k] ELSE {"-"} :
            op' = [op EXCEPT ![c] = [NoOp EXCEPT !.do = how, !.key = k, !.tag = t]]
  BY <1>2
<1>4. CASE how = "delete"
  BY <1>1, <1>3, <1>4, ChangeDelete
<1>5. CASE how = "invalidate"
  BY <1>1, <1>2, <1>3, <1>5, ChangeInvalidate
<1>6. CASE how = "clear"
  <2>1. style = "decorated"
    BY <1>2, <1>6 DEF IInv, TypeOK
  <2> QED
    BY <1>1, <1>3, <1>6, <2>1, ChangeClear
<1> QED
  BY <1>2, <1>4, <1>5, <1>6

\* The steps of the invalidation that follows.
LEMMA WriteStep ==
    ASSUME IInv, NEW c \in Clients, Write(c) PROVE IInv'
<1>1. CASE InvalidateRead(c)
  BY <1>1, InvalidateNone, InvalidateSome
<1>2. CASE InvalidateSweep(c)
  <2>1. PICK ks \in IF backend = "redis" THEN {{k} : k \in op[c].rest} ELSE {op[c].rest} :
            /\ data' = Drop(ks)
            /\ op' = [op EXCEPT ![c].rest = @ \ ks,
                                ![c].do = IF @ = "sweep" /\ op[c].rest = ks THEN "droptag" ELSE @]
    BY <1>2 DEF InvalidateSweep
  <2>2. op[c].do = "sweep" /\ UNCHANGED <<setting, index, truth>>
    BY <1>2 DEF InvalidateSweep, At
  <2>3. ks \in SUBSET op[c].rest
    BY <2>1
  <2>4. CASE op[c].rest = ks
    BY <2>1, <2>2, <2>3, <2>4, SweepLast
  <2>5. CASE op[c].rest # ks
    BY <2>1, <2>2, <2>3, <2>5, SweepMore
  <2> QED
    BY <2>4, <2>5
<1>3. CASE Probe(c)
  <2>1. At(c, "delete") \/ At(c, "expired")
    BY <1>3 DEF Probe
  <2> QED
    BY <1>3, <2>1, ProbeNoDelete, ProbeNoExpired, ProbeDelete, ProbeExpired
<1>4. CASE DeleteRow(c)
  <2>1. At(c, "delrow") \/ At(c, "oldrow")
    BY <1>4 DEF DeleteRow
  <2> QED
    BY <1>4, <2>1, RowDel, RowOld
<1>5. CASE DeleteTags(c)
  <2>1. At(c, "deltags") \/ At(c, "oldtags")
    BY <1>5 DEF DeleteTags
  <2> QED
    BY <1>5, <2>1, TagsDel, TagsOld
<1> QED
  BY <1>1, <1>2, <1>3, <1>4, <1>5, InvalidateMemoryStep, InvalidateDropStep, DeleteMemoryStep,
     DeleteAloneStep, ClearRedisStep DEF Write

\* The steps of gc().
LEMMA GcStep ==
    ASSUME IInv, NEW c \in Clients, Gc(c) PROVE IInv'
<1>1. CASE GcExists(c)
  <2>1. PICK k \in op[c].rest :
          op' = IF Present(k) THEN [op EXCEPT ![c].rest = @ \ {k}]
                ELSE [op EXCEPT ![c].rest = @ \ {k}, ![c].seen = @ \ {k}, ![c].do = "prune"]
    BY <1>1 DEF GcExists
  <2>2. op[c].do \in {"exists", "prune"} /\ UNCHANGED <<setting, data, index, truth>>
    BY <1>1 DEF GcExists, At
  <2>3. CASE Present(k)
    BY <2>1, <2>2, <2>3, GcExistsFound
  <2>4. CASE ~Present(k)
    BY <2>1, <2>2, <2>4, GcExistsGone
  <2> QED
    BY <2>3, <2>4
<1> QED
  BY <1>1, GcRowsStep, GcTagsStep, GcGetStep, GcSetStep DEF Gc

\* An entry is as it was, has expired or is gone, and the index loses only keys
\* without a live entry: what a step outside the clients may do.
LEMMA Decay ==
    ASSUME IInv, UNCHANGED <<backend, program, style, truth, op>>, TypeOK',
           \A k \in Keys : data'[k] = data[k] \/ data'[k].ver = 0
                           \/ (data'[k].ver = data[k].ver /\ data'[k].tags = data[k].tags /\ data'[k].old),
           \A t \in Tags : index'[t] \subseteq index[t]
                           /\ \A k \in Keys : k \in index[t] /\ data'[k].ver # 0 => k \in index'[t],
           program = "serial" /\ backend # "memory" => index' = index
    PROVE  IInv'
<1> USE DEF IInv
<1>1. \A k \in Keys : Present(k)' => Present(k) /\ data'[k].tags = data[k].tags
  BY DEF Present
<1>2. \A k \in Keys : Live(k)' => Live(k) /\ data'[k].ver = data[k].ver
  BY DEF Live, Present
<1>3. \A c \in Clients : op'[c] = op[c]
  OBVIOUS
<1>4. Placed'
  BY <1>3 DEF Placed, PlacedAt, GivenTags
<1>5. Tagged'
  BY <1>1 DEF Tagged, GivenTags
<1>6. Alone' /\ Truthful'
  BY <1>3 DEF Alone, Busy, Truthful, Orderly
<1>7. Steady'
  <2> SUFFICES ASSUME program = "serial", NEW c \in Clients PROVE SteadyAt(c)'
    BY DEF Steady
  <2>1. SteadyAt(c) /\ PlacedAt(c)
    BY DEF Steady, Placed
  <2>2. op[c] \in Ops
    BY DEF TypeOK
  <2>3. CASE backend = "memory"
    BY <1>3, <2>1, <2>3 DEF SteadyAt, PlacedAt, MemoryCalls
  <2>4. CASE backend # "memory"
    <3>1. index' = index
      BY <2>4
    <3>2. op[c].do \in {"deltags", "oldtags"} => op[c].key \in Keys
      BY <2>1 DEF PlacedAt
    <3>3. op[c].do \in {"exists", "prune"} => index[op[c].tag] \subseteq Keys
      BY <2>1 DEF PlacedAt, TypeOK
    <3>4. op[c].seen \subseteq Keys
      BY <2>2 DEF Ops
    <3> QED
      BY <1>1, <1>3, <2>1, <3>1, <3>2, <3>3, <3>4 DEF SteadyAt, GivenTags
  <2> QED
    BY <2>3, <2>4
<1>8. Covered'
  <2> SUFFICES ASSUME backend = "memory" \/ program = "serial", NEW k \in Keys,
     NEW t \in GivenTags(k), Present(k)'
               PROVE  k \in index'[t] \/ \E c \in Clients : Pending(c, k, t)'
    BY DEF Covered, GivenTags
  <2>1. t \in Tags /\ Present(k)
    BY <1>1, GivenTagsType
  <2>2. k \in index[t] \/ \E c \in Clients : Pending(c, k, t)
    BY <2>1 DEF Covered
  <2>3. \A c \in Clients : Pending(c, k, t) => Pending(c, k, t)'
    BY <1>3 DEF Pending
  <2> QED
    BY <2>1, <2>2, <2>3 DEF Present
<1>9. Current'
  <2>1. \A c \in Clients, k \in Keys : Undoing(c, k) => Undoing(c, k)'
    BY <1>3 DEF Undoing
  <2> QED
    BY <1>2, <2>1 DEF Current, Orderly
<1> QED
  BY <1>4, <1>5, <1>6, <1>7, <1>8, <1>9

\* An entry gets too old.
LEMMA ExpireStep ==
    ASSUME IInv, NEW k \in Keys, Expire(k) PROVE IInv'
<1> USE DEF IInv, setting
<1>1. UNCHANGED <<backend, program, style, truth, op, index>>
  BY DEF Expire
<1>2. CASE backend = "redis"
  <2>1. data' = Drop({k})
    BY <1>2 DEF Expire
  <2>2. TypeOK'
    BY <1>1, <2>1 DEF TypeOK, Drop, NoEntry, Entries
  <2>3. \A x \in Keys : data'[x] = data[x] \/ data'[x].ver = 0
    BY <2>1 DEF Drop, NoEntry
  <2> QED
    BY <1>1, <2>2, <2>3, Decay
<1>3. CASE backend # "redis"
  <2>1. data' = [data EXCEPT ![k].old = TRUE]
    BY <1>3 DEF Expire
  <2>2. data[k] \in Entries
    BY DEF TypeOK
  <2>3. [data[k] EXCEPT !.old = TRUE] \in Entries
    BY <2>2 DEF Entries
  <2>4. TypeOK'
    BY <1>1, <2>1, <2>3 DEF TypeOK
  <2>5. \A x \in Keys : data'[x] = data[x]
                        \/ (data'[x].ver = data[x].ver /\ data'[x].tags = data[x].tags /\ data'[x].old)
    BY <2>1, <2>2 DEF TypeOK, Entries
  <2> QED
    BY <1>1, <2>4, <2>5, Decay
<1> QED
  BY <1>2, <1>3

\* The memory store drops what is too old.
LEMMA SweepMemoryStep ==
    ASSUME IInv, SweepMemory PROVE IInv'
<1> USE DEF IInv, setting
<1>1. /\ UNCHANGED <<backend, program, style, truth, op>> /\ backend = "memory"
      /\ data' = Drop({k \in Keys : data[k].old})
      /\ index' = [t \in Tags |-> {k \in index[t] : Live(k)}]
  BY DEF SweepMemory
<1>2. TypeOK'
  BY <1>1 DEF TypeOK, Drop, NoEntry, Entries
<1>3. \A x \in Keys : data'[x] = data[x] \/ data'[x].ver = 0
  BY <1>1 DEF Drop, NoEntry
<1>4. \A t \in Tags : index'[t] \subseteq index[t]
                      /\ \A k \in Keys : k \in index[t] /\ data'[k].ver # 0 => k \in index'[t]
  BY <1>1 DEF Drop, NoEntry, Live, Present
<1> QED
  BY <1>1, <1>2, <1>3, <1>4, Decay

\* The invariant is inductive.
LEMMA NextInv == IInv /\ [Next]_vars => IInv'
<1> SUFFICES ASSUME IInv, [Next]_vars PROVE IInv'
  OBVIOUS
<1>1. ASSUME NEW c \in Clients, Fill(c) PROVE IInv'
  BY <1>1, FillStep
<1>2. ASSUME NEW c \in Clients, NEW k \in Keys, Change(c, k) PROVE IInv'
  BY <1>2, ChangeStep
<1>3. ASSUME NEW c \in Clients, Write(c) PROVE IInv'
  BY <1>3, WriteStep
<1>4. ASSUME NEW c \in Clients, Gc(c) PROVE IInv'
  BY <1>4, GcStep
<1>5. ASSUME NEW k \in Keys, Expire(k) PROVE IInv'
  BY <1>5, ExpireStep
<1>6. CASE SweepMemory
  BY <1>6, SweepMemoryStep
<1>7. CASE UNCHANGED vars
  <2>1. UNCHANGED <<backend, program, style, data, index, truth, op>>
    BY <1>7 DEF vars
  <2> QED
    BY <2>1 DEF IInv, TypeOK, Placed, PlacedAt, Tagged, Alone, Busy, Steady, SteadyAt, Covered,
       Pending,
                Truthful, Orderly, Current, Undoing, Live, Present, GivenTags
<1> QED
  BY <1>1, <1>2, <1>3, <1>4, <1>5, <1>6, <1>7 DEF Next

\* The inductive invariant holds of every state: calls stand where their store
\* puts them, entries carry the tags of their key, and what the index or the
\* cache lacks is what some client is about to do.
THEOREM Invariance == Spec => []IInv
<1>1. Init => IInv
  BY InitInv
<1>2. IInv /\ [Next]_vars => IInv'
  BY NextInv
<1> QED
  BY <1>1, <1>2, PTL DEF Spec

\* The tag index reaches every entry stored with the tag: at any moment in the
\* memory store, between two operations of a serial program in the others, for
\* any number of keys, tags and clients.
THEOREM IndexCovers == Spec => []TagIndexCovers
<1>1. IInv => TagIndexCovers
  <2> SUFFICES ASSUME IInv, backend = "memory" \/ (program = "serial" /\ Busy = {}),
                      NEW k \in Keys, Live(k), NEW t \in data[k].tags
               PROVE  k \in index[t]
    BY DEF TagIndexCovers
  <2>1. Present(k) /\ t \in GivenTags(k)
    BY DEF IInv, Tagged, Live
  <2>2. \A c \in Clients : ~Pending(c, k, t)
    BY DEF IInv, Placed, PlacedAt, MemoryCalls, Busy, Pending
  <2> QED
    BY <2>1, <2>2 DEF IInv, Covered
<1> QED
  BY <1>1, Invariance, PTL

\* What the cache serves between two operations is up to date, when no fill
\* overlaps a change and its invalidation.
THEOREM AlwaysFresh == Spec => []Fresh
<1>1. IInv => Fresh
  <2> SUFFICES ASSUME IInv, Busy = {}, Orderly, NEW k \in Keys, Live(k)
               PROVE  data[k].ver = truth[k]
    BY DEF Fresh, Orderly
  <2>1. \A c \in Clients : ~Undoing(c, k)
    BY DEF Busy, Undoing
  <2> QED
    BY <2>1 DEF IInv, Current
<1> QED
  BY <1>1, Invariance, PTL

------------------------------------------------------------------------------
(* Rooms *)

\* Nobody is in a room before its socket opens.
NewInNoRoom == \A c \in Clients : socket[c] = "new" => joined[c] = {}

\* The inductive invariant of the rooms: who is registered has an open socket, and
\* what is kept of a room are the clients of a tidy program that know they are in it.
RoomsInv ==
    /\ Rooms!TypeOK
    /\ clients = Rooms!Open
    /\ NewInNoRoom
    /\ \A r \in DOMAIN rooms : rooms[r] # {}
    /\ roomUse = "tidy" =>
          \A r \in RoomNames : Rooms!Members(r) = {c \in Rooms!Open : r \in joined[c]}

\* What a change of some rooms comes to.
LEMMA UpdatedFacts ==
    ASSUME Rooms!TypeOK, \A r \in DOMAIN rooms : rooms[r] # {},
           NEW Rs \in SUBSET RoomNames, NEW members \in [Rs -> SUBSET Clients],
           rooms' = Rooms!Updated(members)
    PROVE  /\ DOMAIN rooms' \subseteq RoomNames
           /\ \A r \in DOMAIN rooms' : rooms'[r] \subseteq Clients /\ rooms'[r] # {}
           /\ \A r \in Rs : Rooms!Members(r)' = members[r]
           /\ \A r \in RoomNames \ Rs : Rooms!Members(r)' = Rooms!Members(r)
<1> DEFINE D == {x \in DOMAIN members \union DOMAIN rooms : Rooms!After(members, x) # {}}
<1>1. DOMAIN rooms' = D /\ \A r \in D : rooms'[r] = Rooms!After(members, r)
  BY DEF Rooms!Updated
<1>2. ASSUME NEW r PROVE Rooms!Members(r)' = Rooms!After(members, r)
  BY <1>1 DEF Rooms!Members, Rooms!After
<1>3. \A r \in D : Rooms!After(members, r) \subseteq Clients /\ r \in RoomNames
  BY DEF Rooms!After, Rooms!Members, Rooms!TypeOK
<1> QED
  BY <1>1, <1>2, <1>3 DEF Rooms!After

\* What somebody leaves.
LEMMA WithoutFacts ==
    ASSUME Rooms!TypeOK, \A r \in DOMAIN rooms : rooms[r] # {},
           NEW c \in Clients, NEW Rs \in SUBSET RoomNames, rooms' = Rooms!Without(c, Rs)
    PROVE  /\ DOMAIN rooms' \subseteq RoomNames
           /\ \A r \in DOMAIN rooms' : rooms'[r] \subseteq Clients /\ rooms'[r] # {}
           /\ \A r \in Rs : Rooms!Members(r)' = Rooms!Members(r) \ {c}
           /\ \A r \in RoomNames \ Rs : Rooms!Members(r)' = Rooms!Members(r)
<1> DEFINE left == [r \in Rs |-> Rooms!Members(r) \ {c}]
<1>1. left \in [Rs -> SUBSET Clients] /\ rooms' = Rooms!Updated(left)
  BY DEF Rooms!Without, Rooms!Members, Rooms!TypeOK
<1>2. \A r \in Rs : left[r] = Rooms!Members(r) \ {c}
  OBVIOUS
<1> HIDE DEF left
<1> QED
  BY <1>1, <1>2, UpdatedFacts

\* Whatever a client or a socket does keeps the invariant.
LEMMA RoomsStep ==
    ASSUME RoomsInv, [Rooms!Next]_roomVars PROVE RoomsInv'
<1> USE DEF RoomsInv, NewInNoRoom
<1>1. CASE UNCHANGED roomVars
  BY <1>1 DEF roomVars, Rooms!TypeOK, Rooms!Open, Rooms!Members
<1>2. ASSUME NEW c \in Clients, Rooms!Connect(c) PROVE RoomsInv'
  <2>1. /\ Rooms!TypeOK' /\ clients' = Rooms!Open' /\ Rooms!Open' = Rooms!Open \union {c}
        /\ UNCHANGED <<rooms, roomUse, joined>>
    BY <1>2 DEF Rooms!Connect, Rooms!TypeOK, Rooms!Open
  <2>5. NewInNoRoom'
    BY <1>2 DEF Rooms!Connect, Rooms!TypeOK
  <2> QED
    BY <2>5, <1>2, <2>1 DEF Rooms!Members, Rooms!Connect
<1>3. ASSUME NEW c \in Clients, Rooms!Close(c) PROVE RoomsInv'
  <2>1. joined[c] \in SUBSET RoomNames /\ rooms' = Rooms!Without(c, joined[c])
    BY <1>3 DEF Rooms!Close, Rooms!TypeOK
  <2>2. /\ clients' = Rooms!Open' /\ Rooms!Open' = Rooms!Open \ {c}
        /\ UNCHANGED <<roomUse, joined>>
    BY <1>3 DEF Rooms!Close, Rooms!TypeOK, Rooms!Open
  <2>3. Rooms!TypeOK'
    BY <1>3, <2>1, WithoutFacts DEF Rooms!Close, Rooms!TypeOK
  <2>5. NewInNoRoom'
    BY <1>3 DEF Rooms!Close, Rooms!TypeOK
  <2> HIDE DEF NewInNoRoom
  <2> QED
    BY <2>5, <2>1, <2>2, <2>3, WithoutFacts
<1>4. ASSUME NEW c \in Clients, Rooms!LeaveAllRooms(c) PROVE RoomsInv'
  <2>1. joined[c] \in SUBSET RoomNames /\ rooms' = Rooms!Without(c, joined[c])
    BY <1>4 DEF Rooms!LeaveAllRooms, Rooms!TypeOK
  <2>2. /\ clients' = Rooms!Open' /\ Rooms!Open' = Rooms!Open /\ roomUse' = roomUse
        /\ joined'[c] = {} /\ \A d \in Clients \ {c} : joined'[d] = joined[d]
    BY <1>4 DEF Rooms!LeaveAllRooms, Rooms!TypeOK, Rooms!Open
  <2>3. Rooms!TypeOK'
    BY <1>4, <2>1, WithoutFacts DEF Rooms!LeaveAllRooms, Rooms!TypeOK
  <2>5. NewInNoRoom'
    BY <1>4 DEF Rooms!LeaveAllRooms, Rooms!TypeOK
  <2> HIDE DEF NewInNoRoom
  <2> QED
    BY <2>5, <2>1, <2>2, <2>3, WithoutFacts DEF Rooms!Open
<1>5. ASSUME NEW c \in Clients, NEW r \in RoomNames, Rooms!JoinRoom(c, r) PROVE RoomsInv'
  <2> DEFINE entered == [x \in {r} |-> Rooms!Members(x) \union {c}]
  <2>1. {r} \in SUBSET RoomNames /\ entered \in [{r} -> SUBSET Clients]
        /\ rooms' = Rooms!Updated(entered) /\ entered[r] = Rooms!Members(r) \union {c}
    BY <1>5 DEF Rooms!JoinRoom, Rooms!TypeOK, Rooms!Members
  <2>2. /\ clients' = Rooms!Open' /\ Rooms!Open' = Rooms!Open /\ roomUse' = roomUse
        /\ joined'[c] = joined[c] \union {r} /\ \A d \in Clients \ {c} : joined'[d] = joined[d]
        /\ roomUse = "tidy" => c \in Rooms!Open
    BY <1>5 DEF Rooms!JoinRoom, Rooms!Known, Rooms!TypeOK, Rooms!Open
  <2> HIDE DEF entered
  <2>3. Rooms!TypeOK'
    BY <1>5, <2>1, UpdatedFacts DEF Rooms!JoinRoom, Rooms!TypeOK
  <2>4. /\ \A x \in DOMAIN rooms' : rooms'[x] # {}
        /\ Rooms!Members(r)' = Rooms!Members(r) \union {c}
        /\ \A x \in RoomNames \ {r} : Rooms!Members(x)' = Rooms!Members(x)
    BY <2>1, UpdatedFacts
  <2>5. NewInNoRoom'
    BY <1>5 DEF Rooms!JoinRoom, Rooms!TypeOK, Rooms!Known
  <2> HIDE DEF NewInNoRoom
  <2> QED
    BY <2>5, <2>2, <2>3, <2>4 DEF Rooms!Open
<1>6. ASSUME NEW c \in Clients, NEW r \in RoomNames, Rooms!LeaveRoom(c, r) PROVE RoomsInv'
  <2>1. {r} \in SUBSET RoomNames /\ rooms' = Rooms!Without(c, {r})
    BY <1>6 DEF Rooms!LeaveRoom
  <2>2. /\ clients' = Rooms!Open' /\ Rooms!Open' = Rooms!Open /\ roomUse' = roomUse
        /\ joined'[c] = joined[c] \ {r} /\ \A d \in Clients \ {c} : joined'[d] = joined[d]
    BY <1>6 DEF Rooms!LeaveRoom, Rooms!TypeOK, Rooms!Open
  <2>3. Rooms!TypeOK'
    BY <1>6, <2>1, WithoutFacts DEF Rooms!LeaveRoom, Rooms!TypeOK
  <2>4. /\ \A x \in DOMAIN rooms' : rooms'[x] # {}
        /\ Rooms!Members(r)' = Rooms!Members(r) \ {c}
        /\ \A x \in RoomNames \ {r} : Rooms!Members(x)' = Rooms!Members(x)
    BY <2>1, WithoutFacts
  <2>5. NewInNoRoom'
    BY <1>6 DEF Rooms!LeaveRoom, Rooms!TypeOK, Rooms!Known
  <2> HIDE DEF NewInNoRoom
  <2> QED
    BY <2>5, <2>2, <2>3, <2>4 DEF Rooms!Open
<1>7. ASSUME NEW c \in Clients, NEW r \in RoomNames, Rooms!ByClient(c, r) PROVE RoomsInv'
  BY <1>7 DEF Rooms!ByClient, Rooms!Known, Rooms!TypeOK, Rooms!Open
<1> QED
  BY <1>1, <1>2, <1>3, <1>4, <1>5, <1>6, <1>7 DEF Rooms!Next

\* What is sent to a room reaches open connections only, and in a tidy program all
\* that have joined (service.ts:86-131, 159-170).
THEOREM RoomsAlwaysReach == Rooms!Spec => []RoomsReach
<1>1. Rooms!Init => RoomsInv
  <2> SUFFICES ASSUME Rooms!Init PROVE RoomsInv
    OBVIOUS
  <2>1. rooms = <<>> /\ DOMAIN rooms = {} /\ clients = {}
    BY DEF Rooms!Init
  <2>2. Rooms!TypeOK /\ NewInNoRoom /\ Rooms!Open = {}
    BY <2>1 DEF Rooms!Init, NewInNoRoom, Rooms!TypeOK, Rooms!Open
  <2> QED
    BY <2>1, <2>2 DEF RoomsInv, Rooms!Members
<1>2. RoomsInv /\ [Rooms!Next]_(Rooms!vars) => RoomsInv'
  BY RoomsStep DEF Rooms!vars, roomVars
<1>3. RoomsInv => RoomsReach
  BY DEF RoomsInv, RoomsReach, Rooms!RoomsReach, Rooms!Reached
<1> QED
  BY <1>1, <1>2, <1>3, PTL DEF Rooms!Spec

------------------------------------------------------------------------------
(* Summaries *)

\* The observation was made d buckets ago: not so long ago that its bucket would
\* have been emptied, and not so recently that the ring could not have moved on.
MadeBuckets(d) ==
    /\ current = (marked + d) % AgeBuckets
    /\ age <= 2 * (d * BucketSize) + elapsed
    /\ age + BucketSize >= d * BucketSize + elapsed + 1

\* The inductive invariant of the window.
SummaryInv ==
    /\ elapsed \in Nat /\ current \in Summary!Buckets
    /\ marked \in Summary!Buckets \union {-1} /\ age \in Nat \union {-1}
    /\ age = -1 => marked = -1 /\ rendered # "with"
    /\ marked # -1 => \E d \in Summary!Buckets : MadeBuckets(d)
    /\ marked = -1 /\ age # -1 => age >= (AgeBuckets - 1) * BucketSize
    /\ rendered = "with" => age < (2 * AgeBuckets - 1) * BucketSize
    /\ rendered = "with" => marked # -1

\* What is left of a division.
LEMMA DivisionFacts ==
    ASSUME NEW n \in Nat \ {0}, NEW x \in Nat
    PROVE  /\ x \div n \in Nat /\ n * (x \div n) <= x /\ x < n * (x \div n) + n
           /\ x % n \in 0..(n - 1)
<1>1. x \div n \in Nat /\ n * (x \div n) <= x /\ x < n * (x \div n) + n
  OBVIOUS
<1>2. x % n \in 0..(n - 1)
  OBVIOUS
<1> QED
  BY <1>1, <1>2

\* Where a walk of less than a round on a ring of n leads.
LEMMA SumFacts ==
    ASSUME NEW n \in Nat \ {0}, NEW a \in 0..(n - 1), NEW b \in 0..n
    PROVE  (a + b) % n = (IF a + b < n THEN a + b ELSE a + b - n)
  OBVIOUS

\* After k rotations at once a bucket that was left d ago is d + k away, or has
\* been emptied.
LEMMA RotateFacts ==
    ASSUME SummaryInv, Summary!Rotate, NEW d \in Summary!Buckets, marked # -1, MadeBuckets(d)
    PROVE  \/ /\ marked \notin Summary!Emptied
              /\ \E e \in Summary!Buckets :
                    /\ current' = (marked + e) % AgeBuckets
                    /\ age <= 2 * (e * BucketSize) + elapsed'
                    /\ age + BucketSize >= e * BucketSize + elapsed' + 1
           \/ /\ marked \in Summary!Emptied
              /\ age >= (AgeBuckets - 1) * BucketSize
<1> DEFINE n == AgeBuckets
<1> DEFINE B == BucketSize
<1> DEFINE k == Summary!Rotations
<1>0. marked # Summary!Nowhere
  BY DEF Summary!Nowhere
<1>1. n \in Nat \ {0} /\ B \in Nat \ {0} /\ elapsed \in Nat /\ d \in 0..(n - 1)
      /\ marked \in 0..(n - 1) /\ age \in Nat
  BY WindowAssumption DEF SummaryInv, Summary!Buckets
<1>2. k \in Nat /\ B * k <= elapsed /\ elapsed < B * k + B
  BY <1>1, DivisionFacts DEF Summary!Rotations
<1>3. current' = (current + k) % n /\ elapsed' = (IF k > 0 THEN 0 ELSE elapsed)
  BY DEF Summary!Rotate
<1>4. current = (IF marked + d < n THEN marked + d ELSE marked + d - n)
  <2>1. current = (marked + d) % n
    BY DEF MadeBuckets
  <2> HIDE DEF n
  <2>0. d \in 0..n
    BY <1>1
  <2>2. (marked + d) % n = (IF marked + d < n THEN marked + d ELSE marked + d - n)
    BY <1>1, <2>0, SumFacts
  <2> QED
    BY <2>1, <2>2
<1>5. \A i \in 0..n : (current + i) % n = (IF current + i < n THEN current + i ELSE current + i - n)
  <2>1. current \in 0..(n - 1)
    BY <1>1, <1>4
  <2> HIDE DEF n
  <2> QED
    BY <1>1, <2>1, SumFacts
<1>6. Summary!Emptied = {(current + i) % n : i \in 1..k}
  BY DEF Summary!Emptied
<1>7. age <= 2 * (d * B) + elapsed /\ age + B >= d * B + elapsed + 1
  BY DEF MadeBuckets
<1> HIDE DEF n, B, k
<1>8. CASE d + k < n
  <2>1. \A i \in 1..k : i \in 0..(n - 1) /\ marked # (current + i) % n
    BY <1>1, <1>2, <1>4, <1>5, <1>8
  <2>2. marked \notin Summary!Emptied
    BY <1>6, <2>1
  <2>3. d + k \in 0..(n - 1) /\ current' = (marked + (d + k)) % n
    <3>1. k \in 0..(n - 1) /\ d + k \in 0..(n - 1)
      BY <1>1, <1>2, <1>8
    <3>2. (marked + (d + k)) % n = (IF marked + (d + k) < n THEN marked + (d + k) ELSE marked + (d + k) - n)
      <4> DEFINE e == d + k
      <4>1. e \in 0..n
        BY <3>1, <1>1
      <4> HIDE DEF e
      <4>2. (marked + e) % n = (IF marked + e < n THEN marked + e ELSE marked + e - n)
        BY <4>1, <1>1, SumFacts
      <4> QED
        BY <4>2 DEF e
    <3> QED
      BY <3>1, <3>2, <1>1, <1>2, <1>3, <1>4, <1>5
  <2>4. /\ age <= 2 * ((d + k) * B) + elapsed'
        /\ age + B >= (d + k) * B + elapsed' + 1
    <3>1. (d + k) * B = d * B + B * k /\ d * B \in Nat /\ B * k \in Nat
      BY <1>1, <1>2
    <3>2. k > 0 => B * k >= B
      BY <1>1, <1>2
    <3>3. k = 0 => B * k = 0
      BY <1>1
    <3> QED
      BY <3>1, <3>2, <3>3, <1>1, <1>2, <1>3, <1>7
  <2>5. d + k \in Summary!Buckets
    BY <2>3 DEF Summary!Buckets, n
  <2> QED
    BY <2>2, <2>3, <2>4, <2>5 DEF n, B
<1>9. CASE d + k >= n
  <2>1. n - d \in 1..k /\ marked = (current + (n - d)) % n
    <3>1. n - d \in 1..k /\ n - d \in Nat
      BY <1>1, <1>2, <1>9
    <3>2. n - d \in 0..n
      BY <1>1
    <3> QED
      BY <3>1, <3>2, <1>1, <1>4, <1>5
  <2>2. marked \in Summary!Emptied
    BY <1>6, <2>1
  <2>3. age >= (n - 1) * B
    <3>1. d * B + B * k = (d + k) * B /\ (d + k) * B \in Nat /\ d * B \in Nat
      BY <1>1, <1>2
    <3>2. (d + k) * B >= n * B /\ n * B = (n - 1) * B + B
      BY <1>1, <1>2, <1>9
    <3> QED
      BY <3>1, <3>2, <1>1, <1>2, <1>7
  <2> QED
    BY <2>2, <2>3 DEF n, B
<1> QED
  BY <1>1, <1>2, <1>8, <1>9

\* The ring after a rotation is a ring, and the time of its new bucket has begun.
LEMMA RingFacts ==
    ASSUME SummaryInv, Summary!Rotate
    PROVE  /\ current' \in Summary!Buckets /\ elapsed' \in Nat /\ elapsed' < BucketSize
           /\ Summary!Emptied \subseteq Summary!Buckets
<1> DEFINE k == Summary!Rotations
<1>1. k \in Nat /\ BucketSize * k <= elapsed /\ elapsed < BucketSize * k + BucketSize
  BY WindowAssumption, DivisionFacts DEF Summary!Rotations, SummaryInv
<1>2. current' = (current + k) % AgeBuckets /\ elapsed' = (IF k > 0 THEN 0 ELSE elapsed)
  BY DEF Summary!Rotate
<1>3. ASSUME NEW i \in Nat PROVE (current + i) % AgeBuckets \in 0..(AgeBuckets - 1)
  BY WindowAssumption, DivisionFacts DEF SummaryInv, Summary!Buckets
<1>4. Summary!Emptied \subseteq Summary!Buckets
  BY <1>1, <1>3 DEF Summary!Emptied, Summary!Buckets
<1> HIDE DEF k
<1>5. elapsed' \in Nat /\ elapsed' < BucketSize
  BY <1>1, <1>2, WindowAssumption DEF SummaryInv
<1>6. current' \in Summary!Buckets
  BY <1>1, <1>2, <1>3 DEF Summary!Buckets
<1> QED
  BY <1>4, <1>5, <1>6

\* A call that makes no new observation.
LEMMA KeptFacts ==
    ASSUME SummaryInv, Summary!Rotate, marked' = Summary!Kept, age' = age
    PROVE  /\ marked' \in Summary!Buckets \union {-1}
           /\ age = -1 => marked' = -1
           /\ marked' # -1 => \E e \in Summary!Buckets : MadeBuckets(e)'
           /\ marked' = -1 /\ age # -1 => age >= (AgeBuckets - 1) * BucketSize
           /\ marked' # -1 => age < (2 * AgeBuckets - 1) * BucketSize
<1>1. CASE marked = -1
  <2>1. marked' = -1
    BY <1>1 DEF Summary!Kept, Summary!Nowhere
  <2> QED
    BY <1>1, <2>1 DEF SummaryInv
<1>2. CASE marked # -1
  <2>0. -1 \notin Summary!Buckets /\ age # -1 /\ age \in Nat /\ marked \in Summary!Buckets
    BY <1>2, WindowAssumption DEF Summary!Buckets, SummaryInv
  <2>1. PICK d \in Summary!Buckets : MadeBuckets(d)
    BY <1>2 DEF SummaryInv
  <2>2. CASE marked \in Summary!Emptied
    <3>1. marked' = -1
      BY <2>2 DEF Summary!Kept, Summary!Nowhere
    <3>2. age >= (AgeBuckets - 1) * BucketSize
      BY <1>2, <2>1, <2>2, RotateFacts
    <3> QED
      BY <2>0, <3>1, <3>2
  <2>3. CASE marked \notin Summary!Emptied
    <3>1. marked' = marked
      BY <2>3 DEF Summary!Kept
    <3>2. PICK e \in Summary!Buckets :
              /\ current' = (marked + e) % AgeBuckets
              /\ age <= 2 * (e * BucketSize) + elapsed'
              /\ age + BucketSize >= e * BucketSize + elapsed' + 1
      BY <1>2, <2>1, <2>3, RotateFacts
    <3>3. MadeBuckets(e)'
      BY <3>1, <3>2 DEF MadeBuckets
    <3>4. age < (2 * AgeBuckets - 1) * BucketSize
      <4>1. e \in Nat /\ e <= AgeBuckets - 1 /\ BucketSize \in Nat \ {0} /\ AgeBuckets \in Nat \ {0}
        BY WindowAssumption DEF Summary!Buckets
      <4>2. e * BucketSize <= (AgeBuckets - 1) * BucketSize /\ e * BucketSize \in Nat
        BY <4>1
      <4>3. (2 * AgeBuckets - 1) * BucketSize = 2 * ((AgeBuckets - 1) * BucketSize) + BucketSize
            /\ (AgeBuckets - 1) * BucketSize \in Nat
        BY <4>1
      <4> QED
        BY <2>0, <3>2, <4>1, <4>2, <4>3, RingFacts
    <3> QED
      BY <2>0, <3>1, <3>3, <3>4
  <2> QED
    BY <2>2, <2>3
<1> QED
  BY <1>1, <1>2

\* Every call, and the time between them, keeps the invariant.
LEMMA SummaryStep ==
    ASSUME SummaryInv, [Summary!Next]_summaryVars PROVE SummaryInv'
<1>1. CASE UNCHANGED summaryVars
  BY <1>1 DEF summaryVars, SummaryInv, MadeBuckets, Summary!Buckets
<1>2. CASE Summary!Tick
  <2>1. /\ elapsed' = elapsed + 1 /\ current' = current /\ marked' = marked /\ rendered' = "none"
        /\ age' = IF marked = -1 THEN age ELSE age + 1
    BY <1>2 DEF Summary!Tick, Summary!Nowhere
  <2>2. CASE marked = -1
    BY <2>1, <2>2 DEF SummaryInv
  <2>3. CASE marked # -1
    <3>1. age \in Nat /\ elapsed \in Nat
      BY <2>3 DEF SummaryInv
    <3>2. PICK d \in Summary!Buckets : MadeBuckets(d)
      BY <2>3 DEF SummaryInv
    <3>3. d * BucketSize \in Nat /\ BucketSize \in Nat
      BY <3>2, WindowAssumption DEF Summary!Buckets
    <3>4. MadeBuckets(d)'
      BY <2>1, <2>3, <3>1, <3>2, <3>3 DEF MadeBuckets
    <3> QED
      BY <2>1, <2>3, <3>1, <3>4 DEF SummaryInv
  <2> QED
    BY <2>2, <2>3
<1>3. CASE Summary!Observe
  <2>1. Summary!Rotate /\ marked' = current' /\ age' = 0 /\ rendered' = "none"
    BY <1>3 DEF Summary!Observe
  <2>2. current' \in Summary!Buckets /\ elapsed' \in Nat /\ elapsed' < BucketSize
    BY <2>1, RingFacts
  <2>3. 0 \in Summary!Buckets /\ current' # -1
    BY <2>2, WindowAssumption DEF Summary!Buckets
  <2>4. (marked' + 0) % AgeBuckets = current'
    <3>1. ASSUME NEW x \in 0..(AgeBuckets - 1) PROVE (x + 0) % AgeBuckets = x
      BY WindowAssumption
    <3> QED
      BY <2>1, <2>2, <3>1 DEF Summary!Buckets
  <2>5. PICK d \in Summary!Buckets, e \in Nat : d = 0 /\ e = elapsed'
    BY <2>2, <2>3
  <2>6. e < BucketSize
    BY <2>2, <2>5
  <2>7. /\ 0 <= 2 * (d * BucketSize) + e
        /\ 0 + BucketSize >= d * BucketSize + e + 1
    <3>1. d * BucketSize = 0 /\ e \in Nat /\ BucketSize \in Nat
      BY <2>5, WindowAssumption
    <3> QED
      BY <2>6, <3>1
  <2>8. MadeBuckets(d)'
    BY <2>1, <2>4, <2>5, <2>7 DEF MadeBuckets
  <2> QED
    BY <2>1, <2>2, <2>3, <2>8 DEF SummaryInv
<1>4. CASE Summary!ObserveOther
  <2>1. Summary!Rotate /\ marked' = Summary!Kept /\ age' = age /\ rendered' = "none"
    BY <1>4 DEF Summary!ObserveOther
  <2> QED
    BY <2>1, RingFacts, KeptFacts DEF SummaryInv
<1>5. CASE Summary!Render
  <2>1. /\ Summary!Rotate /\ marked' = Summary!Kept /\ age' = age
        /\ rendered' = IF marked' = -1 THEN "without" ELSE "with"
    BY <1>5 DEF Summary!Render, Summary!Nowhere
  <2> QED
    BY <2>1, RingFacts, KeptFacts DEF SummaryInv
<1>6. CASE Summary!Reset
  BY <1>6, WindowAssumption DEF Summary!Reset, Summary!Nowhere, Summary!Unmade, Summary!Buckets,
     SummaryInv
<1> QED
  BY <1>1, <1>2, <1>3, <1>4, <1>5, <1>6 DEF Summary!Next

\* No rendering forgets an observation before its time, or keeps one for twice the
\* window (summary.ts:139-149).
THEOREM WindowAlwaysKept == Summary!Spec => []WindowKept
<1>1. Summary!Init => SummaryInv
  BY WindowAssumption DEF Summary!Init, Summary!Nowhere, Summary!Unmade, Summary!Buckets, SummaryInv
<1>2. SummaryInv /\ [Summary!Next]_(Summary!vars) => SummaryInv'
  BY SummaryStep DEF Summary!vars, summaryVars
<1>3. SummaryInv => WindowKept
  BY DEF SummaryInv, WindowKept, Summary!WindowKept, Summary!Nowhere, Summary!Unmade
<1> QED
  BY <1>1, <1>2, <1>3, PTL DEF Summary!Spec

------------------------------------------------------------------------------
(* Sessions *)

Proven == INSTANCE SessionProofs WITH
    backend <- sessionOn, program <- sessionUse, index <- userIndex, op <- using

\* Who signs out, or is signed out everywhere, stays out (session.service.ts:200-216,
\* redis.ts:127-225).  The two instances of Session are one specification.
THEOREM SignOutAlwaysHolds == Proven!Spec => []SignOutHolds
<1>1. Proven!SignOutHolds => SignOutHolds
  BY DEF Proven!SignOutHolds, Proven!StaysOut, Proven!IndexReaches, Proven!Busy, Proven!NoOp,
         Proven!NoRecord, Proven!NoLogin, SignOutHolds, Session!SignOutHolds, Session!StaysOut,
         Session!IndexReaches, Session!Busy, Session!NoOp, Session!NoRecord, Session!NoLogin
<1>2. Proven!NoLogin \notin Ids
  BY IdsAssumption DEF NoLogin, Proven!NoLogin
<1>3. Proven!Spec => []Proven!SignOutHolds
  BY <1>2, Proven!SignOutAlwaysHolds
<1> QED
  BY <1>1, <1>3, PTL

\* The two instances of Session have the same phases.
LEMMA SamePhases ==
  ASSUME NEW l \in Ids
  PROVE  Proven!Phase(l) = Session!Phase(l) /\ Proven!Gathered(l) = Session!Gathered(l)
<1>1. Proven!Records(l) = Session!Records(l) /\ Proven!Holders(l) = Session!Holders(l)
  BY DEF Proven!Records, Session!Records, Proven!Holders, Session!Holders, Proven!Busy,
         Session!Busy, Proven!NoOp, Session!NoOp, Proven!NoRecord, Session!NoRecord,
         Proven!NoLogin, Session!NoLogin
<1> QED
  BY <1>1 DEF Proven!Phase, Session!Phase, Proven!Live, Session!Live, Proven!Gathered,
              Session!Gathered

\* What each login goes through is the same of both instances, now and in the next state.
LEMMA SameLives ==
  /\ [l \in Ids |-> Proven!Phase(l)] = [l \in Ids |-> Session!Phase(l)]
  /\ [l \in Ids |-> Proven!Gathered(l)] = [l \in Ids |-> Session!Gathered(l)]
  BY SamePhases

\* And the same lives after a step.
LEMMA SameLivesNext ==
  (/\ [l \in Ids |-> Proven!Phase(l)] = [l \in Ids |-> Session!Phase(l)]
   /\ [l \in Ids |-> Proven!Gathered(l)] = [l \in Ids |-> Session!Gathered(l)])'
  BY SameLives, PTL

\* With one operation of a login at a time, and a storage that merges patches, nothing
\* ends a login and lets it go on, under whichever id, and no patch that was answered
\* is lost (session.service.ts:93-216).
THEOREM SessionsImplementLife == Proven!Spec => ImplementsLife
<1>1. Proven!Promised <=> Session!Promised
  BY DEF Proven!Promised, Session!Promised
<1>2. Proven!Life!Init => Session!Life!Init
  BY SameLives DEF Proven!Life!Init, Session!Life!Init
<1>3. Proven!Life!Next => Session!Life!Next
  <2>1. ASSUME NEW l \in Ids, Proven!Life!Begin(l) PROVE Session!Life!Begin(l)
    BY <2>1, SameLives, SameLivesNext DEF Proven!Life!Begin, Session!Life!Begin
  <2>2. ASSUME NEW l \in Ids, Proven!Life!Patch(l) PROVE Session!Life!Patch(l)
    BY <2>2, SameLives, SameLivesNext DEF Proven!Life!Patch, Session!Life!Patch
  <2>3. ASSUME NEW l \in Ids, Proven!Life!End(l) PROVE Session!Life!End(l)
    BY <2>3, SameLives, SameLivesNext DEF Proven!Life!End, Session!Life!End
  <2> QED
    BY <2>1, <2>2, <2>3 DEF Proven!Life!Next, Session!Life!Next
<1>4. UNCHANGED Proven!Life!vars => UNCHANGED Session!Life!vars
  BY SameLives, SameLivesNext DEF Proven!Life!vars, Session!Life!vars
<1>5. [Proven!Promised => [Proven!Life!Next]_(Proven!Life!vars)]_(Proven!vars)
        => [Session!Promised => [Session!Life!Next]_(Session!Life!vars)]_(Session!vars)
  BY <1>1, <1>3, <1>4 DEF Proven!vars, Session!vars
<1>6. Proven!NoLogin \notin Ids
  BY IdsAssumption DEF NoLogin, Proven!NoLogin
<1>7. Proven!Spec => Proven!ImplementsLife
  BY <1>6, Proven!SessionsImplementLife
<1>8. Proven!Spec => (Proven!Promised => Proven!Life!Init)
  BY <1>7, PTL DEF Proven!ImplementsLife
<1>9. Proven!Spec => [][Proven!Promised => [Proven!Life!Next]_(Proven!Life!vars)]_(Proven!vars)
  BY <1>7, PTL DEF Proven!ImplementsLife
<1>10. Proven!Spec
         => [][Session!Promised => [Session!Life!Next]_(Session!Life!vars)]_(Session!vars)
  BY <1>5, <1>9, PTL
<1>11. Proven!Spec => (Session!Promised => Session!Life!Init)
  BY <1>1, <1>2, <1>8
<1> QED
  BY <1>10, <1>11, PTL DEF ImplementsLife, Session!ImplementsLife

------------------------------------------------------------------------------
(* The rate limiter *)

Bag == Clients \X Nat

\* The calls of a log that are not older than so.
Young(log, a) == {x \in log : Limiter!Age(x) <= a}

\* What the assumption on the rule comes to.
LEMMA Rule ==
    /\ Limit \in Nat \ {0} /\ Duration \in Nat \ {0}
    /\ Limit * Duration \in Nat /\ Duration <= Limit * Duration
<1>1. Limit \in Nat \ {0} /\ Duration \in Nat \ {0}
  BY RuleAssumption DEF Limiter!RuleAssumption
<1>2. \A m, n \in Nat \ {0} : m * n \in Nat /\ n <= m * n
  OBVIOUS
<1>3. QED
  BY <1>1, <1>2

\* A product grows by a factor as its other factor grows by one.
LEMMA OneMore ==
    ASSUME NEW m \in Int, NEW n \in Int
    PROVE  /\ m * n \in Int /\ m * (n + 1) = m * n + m /\ (n + 1) * m = n * m + m
           /\ m * (n - 1) = m * n - m
OBVIOUS

\* Products of natural numbers are natural numbers.
LEMMA Product == ASSUME NEW m \in Nat, NEW n \in Nat PROVE m * n \in Nat
OBVIOUS

\* A product grows with its factors.
LEMMA Monotone ==
    ASSUME NEW m \in Nat, NEW n \in Int, NEW k \in Int, n <= k
    PROVE  m * n <= m * k /\ n * m <= k * m
OBVIOUS

\* A quotient rounded up is enough.
LEMMA Ceiling ==
    ASSUME NEW a \in Nat, NEW b \in Nat \ {0}
    PROVE  Limiter!Ceil(a, b) \in Nat /\ a <= Limiter!Ceil(a, b) * b
<1>1. a + b - 1 \in Nat
  OBVIOUS
<1>2. \A n \in Nat : n \div b \in Nat /\ n < (n \div b) * b + b
  OBVIOUS
<1>3. QED
  BY <1>1, <1>2 DEF Limiter!Ceil

\* What a log becomes as time goes by.
LEMMA AgedCalls ==
    ASSUME NEW log \in SUBSET Bag
    PROVE  /\ Limiter!Aged(log) \in SUBSET Bag
           /\ \A y \in Limiter!Aged(log) : \E x \in log :
                  /\ y = <<x[1], Limiter!Lesser(Limiter!Age(x) + 1, Duration)>>
                  /\ Limiter!Age(y) = Limiter!Lesser(Limiter!Age(x) + 1, Duration)
           /\ \A x \in log :
                  <<x[1], Limiter!Lesser(Limiter!Age(x) + 1, Duration)>> \in Limiter!Aged(log)
<1>1. \A x \in log : x[1] \in Clients /\ Limiter!Age(x) \in Nat
  BY DEF Bag, Limiter!Age
<1>2. \A x \in log : Limiter!Lesser(Limiter!Age(x) + 1, Duration) \in Nat
  BY <1>1, Rule DEF Limiter!Lesser
<1>3. QED
  BY <1>1, <1>2 DEF Limiter!Aged, Limiter!Age, Bag

\* Time makes no calls.
LEMMA AgedIsSmaller ==
    ASSUME NEW log \in SUBSET Bag, IsFiniteSet(log)
    PROVE  /\ IsFiniteSet(Limiter!Aged(log))
           /\ Cardinality(Limiter!Aged(log)) <= Cardinality(log)
<1> DEFINE f == [x \in log |-> <<x[1], Limiter!Lesser(Limiter!Age(x) + 1, Duration)>>]
<1>1. f \in Surjection(log, Limiter!Aged(log))
  BY AgedCalls DEF Surjection, Limiter!Aged
<1> HIDE DEF f
<1>2. QED
  BY <1>1, FS_Surjection

\* The young ones were younger yet.
LEMMA AgedYoung ==
    ASSUME NEW log \in SUBSET Bag, NEW a \in Nat, a < Duration
    PROVE  Young(Limiter!Aged(log), a) \subseteq Limiter!Aged(Young(log, a - 1))
<1> SUFFICES ASSUME NEW y \in Young(Limiter!Aged(log), a)
             PROVE  y \in Limiter!Aged(Young(log, a - 1))
  OBVIOUS
<1>1. PICK x \in log : /\ y = <<x[1], Limiter!Lesser(Limiter!Age(x) + 1, Duration)>>
                       /\ Limiter!Age(y) = Limiter!Lesser(Limiter!Age(x) + 1, Duration)
  BY AgedCalls DEF Young
<1>2. Limiter!Age(x) \in Nat
  BY DEF Bag, Limiter!Age
<1>3. Limiter!Age(x) <= a - 1
  BY <1>1, <1>2, Rule DEF Young, Limiter!Lesser
<1>4. x \in Young(log, a - 1)
  BY <1>3 DEF Young
<1>5. QED
  BY <1>1, <1>4 DEF Limiter!Aged

\* One call more.
LEMMA OneCall ==
    ASSUME NEW log, IsFiniteSet(log), NEW x
    PROVE  /\ IsFiniteSet(log \union {x})
           /\ Cardinality(log) \in Nat
           /\ Cardinality(log \union {x}) \in Nat
           /\ Cardinality(log \union {x}) <= Cardinality(log) + 1
BY FS_AddElement, FS_CardinalityType

\* A part of a finite set.
LEMMA PartOfLog ==
    ASSUME NEW log, IsFiniteSet(log), NEW part \in SUBSET log
    PROVE  /\ IsFiniteSet(part)
           /\ Cardinality(part) \in Nat /\ Cardinality(log) \in Nat
           /\ Cardinality(part) <= Cardinality(log)
BY FS_Subset, FS_CardinalityType

Buckets == [here : BOOLEAN, count : Nat, due : Int, log : SUBSET Bag]

\* The state of a limiter whose calls do not decide on the same bucket: who has read has
\* read what is there; a key that is not there has let nobody in.
LimiterBase ==
    /\ bucket \in Buckets /\ IsFiniteSet(bucket.log)
    /\ -Duration <= bucket.due /\ bucket.due <= Duration
    /\ read \in [Clients -> {<<>>, <<bucket>>}]
    /\ \A c, d \in Clients : read[c] # <<>> /\ read[d] # <<>> => c = d
    /\ limiterOn = "memory" => \A c \in Clients : read[c] = <<>>
    /\ admitted \in SUBSET Bag /\ IsFiniteSet(admitted)
    /\ \A x \in admitted : Limiter!Age(x) < Duration
    /\ told \in Nat
    /\ ~bucket.here => admitted = {} /\ told > Duration

\* The age of the window of the counter.
Opened == Duration - bucket.due

\* The call that has opened the window is still among the admitted ones, those since are
\* counted, and of the window before all but the first are left at most.
FixedInv ==
    /\ bucket.due > 0 =>
           /\ \E x \in admitted : Limiter!Age(x) = Opened
           /\ Cardinality(Young(admitted, Opened)) <= bucket.count
           /\ Cardinality(Young(admitted, Opened)) <= Limit
           /\ Cardinality(admitted \ Young(admitted, Opened)) <= Limit - 1
    /\ bucket.due <= 0 =>
           /\ Cardinality(admitted) <= Limit - 1
           /\ \A x \in admitted : Limiter!Age(x) >= 1
    /\ told <= Duration => bucket.due <= told

\* The log has all the admitted calls, and the one a rejected caller waits for.
SlidingInv ==
    /\ admitted \subseteq bucket.log
    /\ Cardinality(admitted) <= Limit
    /\ limiterOn = "memory" =>
           /\ Cardinality(bucket.log) <= Limit
           /\ told <= Duration => \E x \in bucket.log : Limiter!Age(x) >= Duration - told

\* The tokens there are when the next call comes.
Tokens(b) ==
    Limiter!Lesser(Limit * Duration, b.count + Limiter!Greater(0, -b.due) * Limit)

\* What a key starts with.
Stock == IF limiterOn = "memory" THEN Limit ELSE Limiter!Greater(2, Limit)

\* Tokens are not made out of nothing: those that are there and those that the calls of any
\* span of time have taken came from the stock or have come back in that span.
TokenInv ==
    /\ bucket.here =>
           \A a \in 0..(Duration - 1) :
               Duration * Cardinality(Young(admitted, a)) + Tokens(bucket)
                   <= Stock * Duration + a * Limit
    /\ limiterOn = "memory" => bucket.due <= 0
    /\ limiterOn = "memory" /\ told <= Duration => Duration <= Tokens(bucket) + told * Limit

LimiterInv ==
    /\ limiterOn \in {"memory", "sql"} /\ strategy \in Limiter!Strategies
    /\ Limiter!Atomic =>
           /\ LimiterBase
           /\ strategy = "fixed-window" => FixedInv
           /\ strategy = "sliding-window" => SlidingInv
           /\ strategy = "token-bucket" => TokenInv

Answered(c, a) == bucket' = a.bucket /\ Limiter!Answer(c, a.allowed, a.wait)

\* What a call of consume() comes to, when it has the bucket for itself.
LEMMA Ruled ==
    ASSUME LimiterInv, Limiter!Atomic, NEW c \in Clients,
           Limiter!Consume(c) \/ Limiter!Insert(c) \/ Limiter!Update(c)
    PROVE  /\ UNCHANGED <<limiterOn, strategy, serial>>
           /\ read' \in [Clients -> {<<>>}]
           /\ \/ /\ limiterOn = "memory"
                 /\ \E a : a = Limiter!InMemory(bucket, c) /\ Answered(c, a)
              \/ /\ limiterOn = "sql" /\ ~bucket.here
                 /\ bucket' = Limiter!First(c) /\ Limiter!Answer(c, TRUE, 0)
              \/ /\ limiterOn = "sql" /\ bucket.here
                 /\ \E a : a = Limiter!InSql(bucket, bucket, c) /\ Answered(c, a)
<1>1. LimiterBase
  BY DEF LimiterInv
<1>2. CASE Limiter!Consume(c)
  BY <1>1, <1>2 DEF Limiter!Consume, Limiter!program, LimiterBase, Answered
<1>3. CASE read[c] # <<>> /\ (Limiter!Insert(c) \/ Limiter!Update(c))
  <2>1. read[c] = <<bucket>> /\ read[c][1] = bucket
    BY <1>1, <1>3 DEF LimiterBase
  <2>2. limiterOn = "sql"
    BY <1>1, <1>3 DEF LimiterBase, LimiterInv
  <2>3. \A d \in Clients \ {c} : read[d] = <<>>
    BY <1>1, <1>3 DEF LimiterBase
  <2>4. read' = [read EXCEPT ![c] = <<>>] /\ UNCHANGED <<limiterOn, strategy, serial>>
    BY <1>3 DEF Limiter!Insert, Limiter!Update, Limiter!program
  <2>5. read' \in [Clients -> {<<>>}]
    BY <1>1, <2>3, <2>4 DEF LimiterBase
  <2>6. CASE Limiter!Insert(c)
    BY <2>1, <2>2, <2>4, <2>5, <2>6 DEF Limiter!Insert
  <2>7. CASE Limiter!Update(c)
    BY <2>1, <2>2, <2>4, <2>5, <2>7 DEF Limiter!Update, Answered
  <2>8. QED
    BY <1>3, <2>6, <2>7
<1>4. QED
  BY <1>2, <1>3 DEF Limiter!Insert, Limiter!Update

\* The common part of the invariant after a call.
LEMMA BaseKept ==
    ASSUME LimiterBase, NEW c \in Clients, read' \in [Clients -> {<<>>}],
           UNCHANGED limiterOn,
           bucket' \in Buckets, IsFiniteSet(bucket'.log), bucket'.here,
           -Duration <= bucket'.due, bucket'.due <= Duration,
           admitted' \in {admitted, admitted \union {Limiter!Now(c)}}, told' \in Nat
    PROVE  LimiterBase'
<1>1. Limiter!Now(c) \in Bag /\ Limiter!Age(Limiter!Now(c)) = 0
  BY DEF Limiter!Now, Limiter!Age, Bag
<1>2. admitted' \in SUBSET Bag /\ IsFiniteSet(admitted')
      /\ \A x \in admitted' : Limiter!Age(x) < Duration
  <2>1. IsFiniteSet(admitted \union {Limiter!Now(c)})
    BY OneCall DEF LimiterBase
  <2>2. admitted' \in SUBSET Bag /\ IsFiniteSet(admitted')
    BY <1>1, <2>1 DEF LimiterBase
  <2>3. \A x \in admitted \union {Limiter!Now(c)} : Limiter!Age(x) < Duration
    BY <1>1, Rule DEF LimiterBase
  <2>4. QED
    BY <2>2, <2>3
<1>3. read' \in [Clients -> {<<>>, <<bucket'>>}] /\ \A d \in Clients : read'[d] = <<>>
  OBVIOUS
<1>4. QED
  BY <1>2, <1>3 DEF LimiterBase

\* In a fixed window the first call after the end of the window opens the next one, and
\* any other is counted.
LEMMA FixedVerdict ==
    ASSUME LimiterInv, Limiter!Atomic, strategy = "fixed-window", NEW c \in Clients,
           Limiter!Consume(c) \/ Limiter!Insert(c) \/ Limiter!Update(c)
    PROVE  \/ /\ ~bucket.here \/ bucket.due <= 0
              /\ bucket' \in Buckets /\ IsFiniteSet(bucket'.log) /\ bucket'.here
              /\ bucket'.count = 1 /\ bucket'.due = Duration
              /\ admitted' = admitted \union {Limiter!Now(c)} /\ told' = Limiter!Untold
           \/ /\ bucket.here /\ bucket.due > 0
              /\ bucket' \in Buckets /\ IsFiniteSet(bucket'.log) /\ bucket'.here
              /\ bucket'.count = Limiter!Counted(bucket.count) /\ bucket'.due = bucket.due
              /\ \/ /\ bucket'.count <= Limit
                    /\ admitted' = admitted \union {Limiter!Now(c)} /\ told' = Limiter!Untold
                 \/ /\ bucket'.count > Limit
                    /\ admitted' = admitted /\ told' = bucket.due
<1>1. LimiterBase
  BY DEF LimiterInv
<1>2. bucket \in Buckets /\ IsFiniteSet(bucket.log) /\ bucket.here \in BOOLEAN
      /\ bucket.due \in Int /\ bucket.count \in Nat /\ bucket.log \in SUBSET Bag
  BY <1>1 DEF LimiterBase, Buckets
<1>3. Limiter!Counted(bucket.count) \in Nat
  BY <1>2, Rule DEF Limiter!Counted, Limiter!Lesser
<1>4. IsFiniteSet({}) /\ {} \in SUBSET Bag
  BY FS_EmptySet
<1>5. CASE /\ limiterOn = "memory"
           /\ \E a : a = Limiter!InMemory(bucket, c) /\ Answered(c, a)
  <2>1. PICK a : a = Limiter!Fixed(bucket) /\ Answered(c, a)
    BY <1>5 DEF Limiter!InMemory
  <2>2. CASE ~bucket.here \/ bucket.due <= 0
    <3>1. a.allowed <=> 1 <= Limit
      BY <2>1, <2>2, Rule DEF Limiter!Fixed
    <3>2. a.bucket = [here |-> TRUE, count |-> 1, due |-> Duration, log |-> {}]
      BY <2>1, <2>2 DEF Limiter!Fixed
    <3>3. a.bucket \in Buckets
      BY <3>2, <1>4, Rule DEF Buckets
    <3>4. QED
      BY <1>4, <2>1, <2>2, <3>1, <3>2, <3>3, Rule DEF Answered, Limiter!Answer
  <2>3. CASE bucket.here /\ bucket.due > 0
    <3>1. ~(~bucket.here \/ bucket.due <= 0)
      BY <1>2, <2>3
    <3>2. /\ a.bucket = [here |-> TRUE, count |-> Limiter!Counted(bucket.count),
                         due |-> bucket.due, log |-> {}]
          /\ a.allowed <=> Limiter!Counted(bucket.count) <= Limit
          /\ a.wait = bucket.due
      BY <1>2, <1>3, <2>1, <3>1, Rule DEF Limiter!Fixed
    <3>3. a.bucket \in Buckets
      BY <3>2, <1>2, <1>3, <1>4 DEF Buckets
    <3>4. QED
      BY <1>3, <1>4, <2>1, <2>3, <3>2, <3>3, Rule DEF Answered, Limiter!Answer
  <2>4. QED
    BY <1>2, <2>2, <2>3
<1>6. CASE /\ limiterOn = "sql" /\ ~bucket.here
           /\ bucket' = Limiter!First(c) /\ Limiter!Answer(c, TRUE, 0)
  <2>1. bucket' = [here |-> TRUE, due |-> Duration, count |-> 1, log |-> {}]
    BY <1>6 DEF Limiter!First
  <2>2. bucket' \in Buckets
    BY <2>1, <1>4, Rule DEF Buckets
  <2>3. QED
    BY <1>4, <1>6, <2>1, <2>2 DEF Limiter!Answer
<1>7. CASE /\ limiterOn = "sql" /\ bucket.here
           /\ \E a : a = Limiter!InSql(bucket, bucket, c) /\ Answered(c, a)
  <2>1. PICK a : a = Limiter!SqlFixed(bucket, bucket) /\ Answered(c, a)
    BY <1>7 DEF Limiter!InSql
  <2>2. CASE bucket.due <= 0
    <3>1. a.bucket = [bucket EXCEPT !.count = 1, !.due = Duration]
      BY <2>1, <2>2 DEF Limiter!SqlFixed
    <3>2. a.allowed
      BY <2>1, <2>2 DEF Limiter!SqlFixed
    <3>3. a.bucket = [here |-> TRUE, count |-> 1, due |-> Duration, log |-> bucket.log]
      BY <1>2, <1>7, <3>1 DEF Buckets
    <3>4. a.bucket \in Buckets
      BY <3>3, <1>2, Rule DEF Buckets
    <3>5. QED
      BY <1>2, <2>1, <2>2, <3>2, <3>3, <3>4 DEF Answered, Limiter!Answer
  <2>3. CASE bucket.due > 0
    <3>1. ~(bucket.due <= 0)
      BY <1>2, <2>3
    <3>2. /\ a.bucket = [bucket EXCEPT !.count = Limiter!Counted(bucket.count), !.due = bucket.due]
          /\ a.allowed <=> Limiter!Counted(bucket.count) <= Limit
          /\ a.wait = bucket.due
      BY <1>2, <1>3, <2>1, <3>1, Rule DEF Limiter!SqlFixed
    <3>3. a.bucket = [here |-> TRUE, count |-> Limiter!Counted(bucket.count),
                      due |-> bucket.due, log |-> bucket.log]
      BY <1>2, <1>7, <3>2 DEF Buckets
    <3>4. a.bucket \in Buckets
      BY <3>3, <1>2, <1>3 DEF Buckets
    <3>5. QED
      BY <1>2, <1>3, <1>7, <2>1, <2>3, <3>2, <3>3, <3>4, Rule DEF Answered, Limiter!Answer
  <2>4. QED
    BY <1>2, <2>2, <2>3
<1>8. QED
  BY <1>5, <1>6, <1>7, Ruled

\* A call keeps the invariant of fixed windows.
LEMMA FixedStep ==
    ASSUME LimiterInv, Limiter!Atomic, strategy = "fixed-window", NEW c \in Clients,
           Limiter!Consume(c) \/ Limiter!Insert(c) \/ Limiter!Update(c)
    PROVE  LimiterBase' /\ FixedInv'
<1>1. LimiterBase /\ FixedInv
  BY DEF LimiterInv
<1>2. UNCHANGED limiterOn /\ read' \in [Clients -> {<<>>}]
  BY Ruled
<1>3. /\ bucket.due \in Int /\ bucket.count \in Nat /\ bucket.due <= Duration
      /\ -Duration <= bucket.due
      /\ Limit \in Nat \ {0} /\ Duration \in Nat \ {0} /\ Limiter!Untold = Duration + 1
  BY <1>1, Rule DEF LimiterBase, Buckets, Limiter!Untold
<1> DEFINE now == Limiter!Now(c)
<1>4. now \in Bag /\ Limiter!Age(now) = 0
  BY DEF Limiter!Now, Limiter!Age, Bag
<1>5. IsFiniteSet(admitted) /\ \A x \in admitted : Limiter!Age(x) \in Nat
  BY <1>1 DEF LimiterBase, Limiter!Age, Bag
<1> HIDE DEF now
<1>6. CASE /\ ~bucket.here \/ bucket.due <= 0
           /\ bucket' \in Buckets /\ IsFiniteSet(bucket'.log) /\ bucket'.here
           /\ bucket'.count = 1 /\ bucket'.due = Duration
           /\ admitted' = admitted \union {now} /\ told' = Limiter!Untold
  <2>1. LimiterBase'
    BY <1>1, <1>2, <1>3, <1>6, BaseKept DEF now
  <2>2. Opened' = 0
    BY <1>3, <1>6 DEF Opened
  <2>3. Cardinality(admitted) <= Limit - 1 /\ \A x \in admitted : Limiter!Age(x) >= 1
    <3>1. Cardinality({}) = 0
      BY FS_EmptySet
    <3>2. QED
      BY <1>1, <1>3, <1>6, <3>1 DEF LimiterBase, FixedInv
  <2>4. Young(admitted', 0) = {now} /\ admitted' \ {now} \in SUBSET admitted
    BY <1>4, <1>5, <1>6, <2>3 DEF Young
  <2>5. Cardinality({now}) = 1
    BY FS_Singleton
  <2>6. Cardinality(admitted' \ {now}) <= Limit - 1
    <3>1. /\ Cardinality(admitted' \ {now}) \in Nat /\ Cardinality(admitted) \in Nat
          /\ Cardinality(admitted' \ {now}) <= Cardinality(admitted)
      BY <1>5, <2>4, PartOfLog
    <3>2. QED
      BY <3>1, <2>3, <1>3
  <2>7. now \in admitted' /\ Limiter!Age(now) = Opened'
    BY <1>4, <1>6, <2>2
  <2>8. FixedInv'
    <3>1. ~(bucket'.due <= 0) /\ ~(told' <= Duration)
      BY <1>3, <1>6
    <3>2. \E x \in admitted' : Limiter!Age(x) = Opened'
      BY <2>7
    <3>3. /\ Cardinality(Young(admitted', Opened')) = 1
          /\ Cardinality(admitted' \ Young(admitted', Opened')) <= Limit - 1
      BY <2>2, <2>4, <2>5, <2>6
    <3>4. QED
      BY <1>3, <1>6, <3>1, <3>2, <3>3 DEF FixedInv
  <2>9. QED
    BY <2>1, <2>8
<1>7. CASE /\ bucket.here /\ bucket.due > 0
           /\ bucket' \in Buckets /\ IsFiniteSet(bucket'.log) /\ bucket'.here
           /\ bucket'.count = Limiter!Counted(bucket.count) /\ bucket'.due = bucket.due
           /\ \/ /\ bucket'.count <= Limit
                 /\ admitted' = admitted \union {now} /\ told' = Limiter!Untold
              \/ /\ bucket'.count > Limit
                 /\ admitted' = admitted /\ told' = bucket.due
  <2>1. LimiterBase'
    BY <1>1, <1>2, <1>3, <1>7, BaseKept DEF now
  <2>2. Opened' = Opened /\ Opened \in Nat
    BY <1>3, <1>7 DEF Opened
  <2> DEFINE young == Young(admitted, Opened)
  <2>3. /\ IsFiniteSet(young) /\ Cardinality(young) \in Nat
        /\ Cardinality(young) <= bucket.count /\ Cardinality(young) <= Limit
        /\ Cardinality(admitted \ young) <= Limit - 1
    BY <1>1, <1>5, <1>7, PartOfLog DEF FixedInv, Young
  <2>4. PICK x \in admitted : Limiter!Age(x) = Opened
    BY <1>1, <1>7 DEF FixedInv
  <2>5. CASE bucket'.count <= Limit /\ admitted' = admitted \union {now} /\ told' = Limiter!Untold
    <3>1. Young(admitted', Opened) = young \union {now}
          /\ admitted' \ (young \union {now}) \in SUBSET (admitted \ young)
      BY <1>4, <2>2, <2>5 DEF Young
    <3>2. /\ Cardinality(young \union {now}) \in Nat
          /\ Cardinality(young \union {now}) <= Cardinality(young) + 1
      BY <2>3, OneCall
    <3>3. bucket.count < Limit /\ bucket'.count = bucket.count + 1
      BY <1>3, <1>7, <2>5 DEF Limiter!Counted, Limiter!Lesser
    <3>4. /\ Cardinality(admitted' \ (young \union {now})) \in Nat
          /\ Cardinality(admitted \ young) \in Nat
          /\ Cardinality(admitted' \ (young \union {now})) <= Cardinality(admitted \ young)
      <4>1. IsFiniteSet(admitted \ young)
        BY <1>5, PartOfLog
      <4>2. QED
        BY <3>1, <4>1, PartOfLog
    <3>5. x \in admitted'
      BY <2>4, <2>5
    <3> HIDE DEF young
    <3>6. \E y \in admitted' : Limiter!Age(y) = Opened'
      BY <2>2, <2>4, <3>5
    <3>7. /\ Cardinality(Young(admitted', Opened')) <= bucket'.count
          /\ Cardinality(Young(admitted', Opened')) <= Limit
          /\ Cardinality(admitted' \ Young(admitted', Opened')) <= Limit - 1
      BY <1>3, <2>2, <2>3, <3>1, <3>2, <3>3, <3>4
    <3>8. ~(bucket'.due <= 0) /\ ~(told' <= Duration)
      BY <1>3, <1>7, <2>5
    <3>9. QED
      BY <2>1, <3>6, <3>7, <3>8 DEF FixedInv
  <2>6. CASE bucket'.count > Limit /\ admitted' = admitted /\ told' = bucket.due
    <3>1. Young(admitted', Opened') = young
      BY <2>2, <2>6
    <3> HIDE DEF young
    <3>2. Limit < bucket'.count /\ bucket'.count \in Nat
      BY <1>7, <2>6 DEF Buckets
    <3>3. \E y \in admitted' : Limiter!Age(y) = Opened'
      BY <2>2, <2>4, <2>6
    <3>4. /\ Cardinality(Young(admitted', Opened')) <= bucket'.count
          /\ Cardinality(Young(admitted', Opened')) <= Limit
          /\ Cardinality(admitted' \ Young(admitted', Opened')) <= Limit - 1
      BY <1>3, <2>3, <2>6, <3>1, <3>2
    <3>5. ~(bucket'.due <= 0) /\ bucket'.due <= told'
      BY <1>3, <1>7, <2>6
    <3>6. QED
      BY <2>1, <3>3, <3>4, <3>5 DEF FixedInv
  <2>7. QED
    BY <1>7, <2>5, <2>6
<1>8. QED
  BY <1>6, <1>7, FixedVerdict DEF now

\* The cardinality of Limiter is the one of the library.
LEMMA SameCount == ASSUME NEW S PROVE Limiter!Cardinality(S) = Cardinality(S)
BY DEF Limiter!Cardinality, Cardinality

\* A set of natural numbers that is not empty has a least element.
LEMMA LeastNat ==
    ASSUME NEW S \in SUBSET Nat, S # {}
    PROVE  \E n \in S : \A m \in S : n <= m
<1> DEFINE R == OpToRel(<, Nat)
<1>1. IsWellFoundedOn(R, Nat)
  BY NatLessThanWellFounded, Zenon
<1>2. \A x, y \in Nat : x < y => <<x, y>> \in R
  BY DEF OpToRel
<1> HIDE DEF R
<1>3. PICK n \in S : \A m \in S : ~(<<m, n>> \in R)
  BY <1>1, WFMin
<1>4. ASSUME NEW m \in S PROVE n <= m
  <2>1. m \in Nat /\ n \in Nat /\ ~(<<m, n>> \in R)
    BY <1>3
  <2>2. ~(m < n)
    BY <2>1, <1>2
  <2>3. QED
    BY <2>1, <2>2
<1>5. QED
  BY <1>4

\* The oldest call of a log is one of them.
LEMMA OldestCall ==
    ASSUME NEW log \in SUBSET Bag, log # {}, \A x \in log : Limiter!Age(x) < Duration
    PROVE  \E x \in log : Limiter!Age(x) = Limiter!Oldest(log)
<1> DEFINE ages == {Limiter!Age(x) : x \in log}
           left == {Duration - n : n \in ages}
<1>1. ages \in SUBSET Nat /\ ages # {} /\ \A n \in ages : n < Duration
  BY DEF Bag, Limiter!Age
<1> HIDE DEF ages
<1>2. left \in SUBSET Nat /\ left # {}
  <2>1. \A n \in ages : Duration - n \in Nat
    BY <1>1, Rule
  <2>2. QED
    BY <1>1, <2>1
<1>3. PICK n \in left : \A m \in left : n <= m
  BY <1>2, LeastNat
<1>4. PICK k \in ages : n = Duration - k
  BY <1>3
<1>5. \A m \in ages : k >= m
  <2>1. \A m \in ages : Duration - m \in left
    OBVIOUS
  <2>2. \A m \in ages : Duration - k <= Duration - m
    BY <1>3, <1>4, <2>1
  <2>3. QED
    BY <1>1, <2>2, Rule
<1>6. Limiter!Max(ages) \in ages
  BY <1>5 DEF Limiter!Max
<1>7. QED
  BY <1>6 DEF Limiter!Oldest, ages

\* The calls of a log that still count.
LEMMA FreshCalls ==
    ASSUME LimiterBase
    PROVE  /\ Limiter!Fresh(bucket.log) \in SUBSET bucket.log
           /\ bucket.log \in SUBSET Bag
           /\ \A x \in Limiter!Fresh(bucket.log) : Limiter!Age(x) < Duration
           /\ IsFiniteSet(Limiter!Fresh(bucket.log))
           /\ Cardinality(Limiter!Fresh(bucket.log)) \in Nat
           /\ Cardinality(bucket.log) \in Nat
           /\ Cardinality(Limiter!Fresh(bucket.log)) <= Cardinality(bucket.log)
<1>1. Limiter!Fresh(bucket.log) \in SUBSET bucket.log
  BY DEF Limiter!Fresh
<1>2. bucket.log \in SUBSET Bag /\ IsFiniteSet(bucket.log)
  BY DEF LimiterBase, Buckets
<1>3. QED
  BY <1>1, <1>2, PartOfLog DEF Limiter!Fresh

\* A call keeps the invariant of sliding windows.
LEMMA SlidingStep ==
    ASSUME LimiterInv, Limiter!Atomic, strategy = "sliding-window", NEW c \in Clients,
           Limiter!Consume(c) \/ Limiter!Insert(c) \/ Limiter!Update(c)
    PROVE  LimiterBase' /\ SlidingInv'
<1>1. LimiterBase /\ SlidingInv
  BY DEF LimiterInv
<1>2. UNCHANGED limiterOn /\ read' \in [Clients -> {<<>>}]
  BY Ruled
<1>3. /\ Limit \in Nat \ {0} /\ Duration \in Nat \ {0} /\ Limiter!Untold = Duration + 1
      /\ bucket \in Buckets /\ -Duration <= bucket.due /\ bucket.due <= Duration
  BY <1>1, Rule DEF LimiterBase, Limiter!Untold
<1> DEFINE now  == Limiter!Now(c)
           kept == Limiter!Fresh(bucket.log)
<1>4. now \in Bag /\ Limiter!Age(now) = 0
  BY DEF Limiter!Now, Limiter!Age, Bag
<1>5. /\ kept \in SUBSET bucket.log /\ kept \in SUBSET Bag /\ IsFiniteSet(kept)
      /\ \A x \in kept : Limiter!Age(x) \in Nat /\ Limiter!Age(x) < Duration
      /\ Cardinality(kept) \in Nat /\ Cardinality(bucket.log) \in Nat
      /\ Cardinality(kept) <= Cardinality(bucket.log)
  BY <1>1, FreshCalls DEF Bag, Limiter!Age
<1>6. admitted \subseteq kept
  BY <1>1 DEF LimiterBase, SlidingInv, Limiter!Fresh
<1> DEFINE more == kept \union {now}
<1>7. /\ more \in SUBSET Bag /\ IsFiniteSet(more) /\ Cardinality(more) \in Nat
      /\ Cardinality(more) <= Cardinality(kept) + 1
      /\ admitted \union {now} \in SUBSET more /\ admitted \in SUBSET more
      /\ more # {} /\ \A x \in more : Limiter!Age(x) \in Nat /\ Limiter!Age(x) < Duration
  <2>1. /\ IsFiniteSet(more) /\ Cardinality(more) \in Nat
        /\ Cardinality(more) <= Cardinality(kept) + 1
    BY <1>5, OneCall
  <2>2. /\ more \in SUBSET Bag /\ more # {}
        /\ admitted \union {now} \in SUBSET more /\ admitted \in SUBSET more
    BY <1>4, <1>5, <1>6
  <2>3. \A x \in more : Limiter!Age(x) \in Nat /\ Limiter!Age(x) < Duration
    BY <1>3, <1>4, <1>5
  <2>4. QED
    BY <2>1, <2>2, <2>3
<1>8. /\ Cardinality(admitted \union {now}) \in Nat
      /\ Cardinality(admitted \union {now}) <= Cardinality(more)
  BY <1>7, PartOfLog
<1> HIDE DEF now, kept, more
<1>9. CASE /\ limiterOn = "memory"
           /\ \E a : a = Limiter!InMemory(bucket, c) /\ Answered(c, a)
  <2>1. PICK a : a = Limiter!Sliding(bucket, c) /\ Answered(c, a)
    BY <1>9 DEF Limiter!InMemory
  <2>2. /\ a.bucket = [bucket EXCEPT !.here = TRUE,
                           !.log = IF Cardinality(kept) < Limit THEN more ELSE kept]
        /\ a.allowed <=> Cardinality(kept) < Limit
        /\ Cardinality(kept) >= Limit => a.wait = Duration - Limiter!Oldest(kept)
    <3>1. a.bucket = [bucket EXCEPT !.here = TRUE,
                          !.log = IF Cardinality(kept) < Limit THEN more ELSE kept]
      BY <2>1, SameCount DEF Limiter!Sliding, kept, now, more
    <3>2. a.allowed <=> Cardinality(kept) < Limit
      BY <1>3, <1>5, <2>1, SameCount DEF Limiter!Sliding, kept
    <3>3. Cardinality(kept) >= Limit => a.wait = Duration - Limiter!Oldest(kept)
      BY <1>3, <1>5, <2>1, SameCount DEF Limiter!Sliding, kept
    <3>4. QED
      BY <3>1, <3>2, <3>3
  <2>3. CASE Cardinality(kept) < Limit
    <3>1. /\ bucket' \in Buckets /\ bucket'.here /\ bucket'.due = bucket.due
          /\ bucket'.log = more
      BY <1>3, <1>7, <2>1, <2>2, <2>3 DEF Buckets, Answered
    <3>2. admitted' = admitted \union {now} /\ told' = Duration + 1
      BY <1>3, <2>1, <2>2, <2>3 DEF Answered, Limiter!Answer, now
    <3>3. LimiterBase'
      BY <1>1, <1>2, <1>3, <1>7, <3>1, <3>2, BaseKept DEF now
    <3>4. ~(told' <= Duration) /\ Cardinality(more) <= Limit
      BY <1>3, <1>5, <1>7, <2>3, <3>2
    <3>5. SlidingInv'
      BY <1>3, <1>7, <1>8, <3>1, <3>2, <3>4 DEF SlidingInv
    <3>6. QED
      BY <3>3, <3>5
  <2>4. CASE ~(Cardinality(kept) < Limit)
    <3>1. kept # {}
      BY <1>3, <2>4, FS_EmptySet
    <3>2. PICK x \in kept : Limiter!Age(x) = Limiter!Oldest(kept)
      BY <1>5, <3>1, OldestCall
    <3>3. /\ bucket' \in Buckets /\ bucket'.here /\ bucket'.due = bucket.due
          /\ bucket'.log = kept
      BY <1>3, <1>5, <2>1, <2>2, <2>4 DEF Buckets, Answered
    <3>4. admitted' = admitted /\ told' = Duration - Limiter!Age(x)
      BY <1>3, <1>5, <2>1, <2>2, <2>4, <3>2 DEF Answered, Limiter!Answer
    <3>5. told' \in Nat /\ Limiter!Age(x) >= Duration - told'
      BY <1>3, <1>5, <3>4
    <3>6. LimiterBase'
      BY <1>1, <1>2, <1>3, <1>5, <3>3, <3>4, <3>5, BaseKept
    <3>7. Cardinality(kept) <= Limit
      BY <1>1, <1>3, <1>5, <1>9 DEF SlidingInv
    <3>8. SlidingInv'
      BY <1>1, <1>6, <3>3, <3>4, <3>5, <3>7 DEF SlidingInv
    <3>9. QED
      BY <3>6, <3>8
  <2>5. QED
    BY <2>3, <2>4
<1>10. CASE /\ limiterOn = "sql" /\ ~bucket.here
            /\ bucket' = Limiter!First(c) /\ Limiter!Answer(c, TRUE, 0)
  <2>1. bucket' = [here |-> TRUE, due |-> Duration, count |-> 0, log |-> {now}]
    BY <1>10 DEF Limiter!First, now
  <2>2. /\ bucket' \in Buckets /\ bucket'.here /\ bucket'.due = Duration
        /\ bucket'.log = {now}
    BY <1>3, <1>4, <2>1 DEF Buckets
  <2>3. IsFiniteSet({now}) /\ Cardinality({now}) = 1
    BY FS_Singleton
  <2>4. admitted' = admitted \union {now} /\ told' = Duration + 1
    BY <1>3, <1>10 DEF Limiter!Answer, now
  <2>5. admitted' = {now}
    BY <1>1, <1>10, <2>4 DEF LimiterBase
  <2>6. LimiterBase'
    <3>1. -Duration <= bucket'.due /\ bucket'.due <= Duration /\ told' \in Nat
      BY <1>3, <2>2, <2>4
    <3>2. QED
      BY <1>1, <1>2, <2>2, <2>3, <2>4, <3>1, BaseKept DEF now
  <2>7. SlidingInv'
    BY <1>2, <1>3, <1>10, <2>2, <2>3, <2>5 DEF SlidingInv
  <2>8. QED
    BY <2>6, <2>7
<1>11. CASE /\ limiterOn = "sql" /\ bucket.here
            /\ \E a : a = Limiter!InSql(bucket, bucket, c) /\ Answered(c, a)
  <2>1. PICK a : a = Limiter!SqlSliding(bucket, bucket, c) /\ Answered(c, a)
    BY <1>11 DEF Limiter!InSql
  <2>2. /\ a.bucket = [bucket EXCEPT !.log = more]
        /\ a.allowed <=> Cardinality(more) <= Limit
        /\ a.wait = Duration - Limiter!Oldest(more)
    BY <1>3, <1>7, <2>1, SameCount DEF Limiter!SqlSliding, kept, now, more
  <2>3. PICK x \in more : Limiter!Age(x) = Limiter!Oldest(more)
    BY <1>7, OldestCall
  <2>4. /\ bucket' \in Buckets /\ bucket'.here /\ bucket'.due = bucket.due
        /\ bucket'.log = more
    BY <1>3, <1>7, <1>11, <2>1, <2>2 DEF Buckets, Answered
  <2>5. CASE Cardinality(more) <= Limit
    <3>1. admitted' = admitted \union {now} /\ told' = Duration + 1
      BY <1>3, <2>1, <2>2, <2>5 DEF Answered, Limiter!Answer, now
    <3>2. LimiterBase'
      BY <1>1, <1>2, <1>3, <1>7, <2>4, <3>1, BaseKept DEF now
    <3>3. SlidingInv'
      BY <1>2, <1>3, <1>7, <1>8, <1>11, <2>4, <2>5, <3>1 DEF SlidingInv
    <3>4. QED
      BY <3>2, <3>3
  <2>6. CASE ~(Cardinality(more) <= Limit)
    <3>1. admitted' = admitted /\ told' = Duration - Limiter!Age(x)
      BY <1>3, <2>1, <2>2, <2>3, <2>6 DEF Answered, Limiter!Answer
    <3>2. told' \in Nat
      BY <1>3, <1>7, <3>1
    <3>3. LimiterBase'
      BY <1>1, <1>2, <1>3, <1>7, <2>4, <3>1, <3>2, BaseKept
    <3>4. SlidingInv'
      BY <1>1, <1>2, <1>7, <1>11, <2>4, <3>1 DEF SlidingInv
    <3>5. QED
      BY <3>3, <3>4
  <2>7. QED
    BY <2>5, <2>6
<1>12. QED
  BY <1>9, <1>10, <1>11, Ruled

\* The tokens after a call that has left so many.
LEMMA TokensLeft ==
    ASSUME NEW b, b.due \in Int, b.due >= 0, NEW n \in Nat, b.count = n, n <= Limit * Duration
    PROVE  Tokens(b) = n
<1>1. Limiter!Greater(0, -b.due) = 0
  BY DEF Limiter!Greater
<1>2. 0 * Limit = 0 /\ Limit * Duration \in Nat
  BY Rule
<1>3. QED
  BY <1>1, <1>2 DEF Tokens, Limiter!Lesser

\* There are never more tokens than the limit.
LEMMA TokensType ==
    ASSUME LimiterBase
    PROVE  Tokens(bucket) \in Nat /\ Tokens(bucket) <= Limit * Duration
<1>1. bucket.due \in Int /\ bucket.count \in Nat
  BY DEF LimiterBase, Buckets
<1>2. Limiter!Greater(0, -bucket.due) \in Nat
  BY <1>1 DEF Limiter!Greater
<1>3. Limiter!Greater(0, -bucket.due) * Limit \in Nat
  BY <1>2, Rule
<1>4. QED
  BY <1>1, <1>3, Rule DEF Tokens, Limiter!Lesser

\* Where so many tokens are left, the stock and what has come back account for all.
Budget(tokens) ==
    \A a \in 0..(Duration - 1) :
        Duration * Cardinality(Young(admitted, a)) + tokens <= Stock * Duration + a * Limit

\* The stock is at least the limit, and two tokens in SQL.
LEMMA StockType == Stock \in Nat /\ Stock >= Limit /\ (limiterOn # "memory" => Stock >= 2)
BY Rule DEF Stock, Limiter!Greater

\* With nobody let in, the tokens may be as many as the stock.
LEMMA FullBudget ==
    ASSUME admitted = {}, NEW tokens \in Nat, tokens <= Stock * Duration
    PROVE  Budget(tokens)
<1> SUFFICES ASSUME NEW a \in 0..(Duration - 1)
             PROVE  Duration * Cardinality(Young(admitted, a)) + tokens
                        <= Stock * Duration + a * Limit
  BY DEF Budget
<1>1. Cardinality(Young(admitted, a)) = 0
  BY FS_EmptySet DEF Young
<1>2. Duration * 0 = 0 /\ Stock * Duration \in Nat /\ a * Limit \in Nat
  BY Rule, StockType
<1>3. QED
  BY <1>1, <1>2

\* In a token bucket a call is let in if there is a token, which it takes.
LEMMA TokenVerdict ==
    ASSUME LimiterInv, Limiter!Atomic, strategy = "token-bucket", NEW c \in Clients,
           Limiter!Consume(c) \/ Limiter!Insert(c) \/ Limiter!Update(c),
           limiterOn = "memory" \/ bucket.here
    PROVE  \E tokens \in Nat :
               /\ tokens <= Limit * Duration /\ Budget(tokens)
               /\ bucket' \in Buckets /\ IsFiniteSet(bucket'.log) /\ bucket'.here
               /\ bucket'.due = 0
               /\ \/ /\ tokens >= Duration /\ bucket'.count = tokens - Duration
                     /\ admitted' = admitted \union {Limiter!Now(c)}
                     /\ told' = Limiter!Untold
                  \/ /\ tokens < Duration /\ bucket'.count = tokens
                     /\ admitted' = admitted
                     /\ told' = Limiter!Ceil(Duration - tokens, Limit)
<1>1. LimiterBase /\ TokenInv
  BY DEF LimiterInv
<1>2. /\ Limit \in Nat \ {0} /\ Duration \in Nat \ {0} /\ Limit * Duration \in Nat
      /\ bucket \in Buckets /\ IsFiniteSet(bucket.log)
  BY <1>1, Rule DEF LimiterBase
<1>3. bucket.here \in BOOLEAN /\ bucket.due \in Int /\ bucket.count \in Nat
      /\ bucket.log \in SUBSET Bag
  BY <1>2 DEF Buckets
<1>4. IsFiniteSet({}) /\ {} \in SUBSET Bag
  BY FS_EmptySet
<1>5. bucket.here => Budget(Tokens(bucket))
  BY <1>1 DEF TokenInv, Budget
<1>6. CASE /\ limiterOn = "memory"
           /\ \E a : a = Limiter!InMemory(bucket, c) /\ Answered(c, a)
  <2>1. PICK a : a = Limiter!Token(bucket) /\ Answered(c, a)
    BY <1>6 DEF Limiter!InMemory
  <2> DEFINE tokens == IF bucket.here
                       THEN Limiter!Lesser(Limit * Duration, bucket.count + (-bucket.due) * Limit)
                       ELSE Limit * Duration
  <2>2. tokens = IF bucket.here THEN Tokens(bucket) ELSE Limit * Duration
    <3>1. Limiter!Greater(0, -bucket.due) = -bucket.due
      BY <1>1, <1>3, <1>6 DEF TokenInv, Limiter!Greater
    <3>2. QED
      BY <3>1 DEF Tokens
  <2>3. tokens \in Nat /\ tokens <= Limit * Duration
    BY <1>1, <1>2, <2>2, TokensType
  <2>4. Budget(tokens)
    <3>1. CASE bucket.here
      BY <1>5, <2>2, <3>1
    <3>2. CASE ~bucket.here
      <4>1. admitted = {} /\ tokens = Limit * Duration /\ Stock = Limit
        BY <1>1, <1>6, <2>2, <3>2 DEF LimiterBase, Stock
      <4>2. QED
        BY <1>2, <4>1, FullBudget
    <3>3. QED
      BY <3>1, <3>2
  <2>5. a.allowed <=> tokens >= Duration
    BY <1>2, <2>1, <2>3 DEF Limiter!Token
  <2>6. a.bucket = [here |-> TRUE, count |-> IF tokens >= Duration THEN tokens - Duration ELSE tokens,
                    due |-> 0, log |-> {}]
    BY <2>1 DEF Limiter!Token
  <2>7. a.wait = Limiter!Ceil(Duration - tokens, Limit)
    BY <2>1 DEF Limiter!Token
  <2> HIDE DEF tokens
  <2>8. a.bucket \in Buckets
    BY <1>2, <1>4, <2>3, <2>6 DEF Buckets
  <2>9. QED
    BY <1>2, <1>4, <2>1, <2>3, <2>4, <2>5, <2>6, <2>7, <2>8 DEF Answered, Limiter!Answer
<1>7. CASE /\ limiterOn = "sql" /\ bucket.here
           /\ \E a : a = Limiter!InSql(bucket, bucket, c) /\ Answered(c, a)
  <2>1. PICK a : a = Limiter!SqlToken(bucket, bucket) /\ Answered(c, a)
    BY <1>7 DEF Limiter!InSql
  <2> DEFINE tokens == Tokens(bucket)
  <2>2. tokens \in Nat /\ tokens <= Limit * Duration
    BY <1>1, TokensType
  <2>3. a.allowed <=> tokens >= Duration
    BY <1>2, <2>1, <2>2 DEF Limiter!SqlToken, Tokens
  <2> DEFINE left == IF tokens >= Duration THEN tokens - Duration ELSE tokens
  <2>4. a.bucket = [bucket EXCEPT !.count = left, !.due = 0]
    BY <2>1 DEF Limiter!SqlToken, Tokens
  <2>5. a.wait = Limiter!Ceil(Duration - tokens, Limit)
    BY <2>1 DEF Limiter!SqlToken, Tokens
  <2> HIDE DEF tokens
  <2>6. /\ a.bucket \in Buckets /\ a.bucket.here /\ a.bucket.due = 0
        /\ a.bucket.count = IF tokens >= Duration THEN tokens - Duration ELSE tokens
        /\ a.bucket.log = bucket.log
    <3>1. left \in Nat
      BY <1>2, <2>2
    <3> HIDE DEF left
    <3>2. a.bucket = [here |-> TRUE, due |-> 0, count |-> left, log |-> bucket.log]
      BY <1>2, <1>7, <2>4 DEF Buckets
    <3>3. a.bucket \in Buckets
      BY <1>3, <3>1, <3>2 DEF Buckets
    <3>4. QED
      BY <3>2, <3>3 DEF left
  <2>7. Budget(tokens)
    BY <1>5, <1>7 DEF tokens
  <2>8. QED
    BY <1>2, <2>1, <2>2, <2>3, <2>5, <2>6, <2>7 DEF Answered, Limiter!Answer
<1>8. QED
  BY <1>6, <1>7, Ruled

\* A call keeps the invariant of token buckets.
LEMMA TokenStep ==
    ASSUME LimiterInv, Limiter!Atomic, strategy = "token-bucket", NEW c \in Clients,
           Limiter!Consume(c) \/ Limiter!Insert(c) \/ Limiter!Update(c)
    PROVE  LimiterBase' /\ TokenInv'
<1>1. LimiterBase /\ TokenInv
  BY DEF LimiterInv
<1>2. UNCHANGED limiterOn /\ read' \in [Clients -> {<<>>}]
  BY Ruled
<1>3. /\ Limit \in Nat \ {0} /\ Duration \in Nat \ {0} /\ Limit * Duration \in Nat
      /\ Duration <= Limit * Duration
      /\ Limiter!Untold = Duration + 1
      /\ IsFiniteSet(admitted)
  BY <1>1, Rule DEF LimiterBase, Limiter!Untold
<1> DEFINE now == Limiter!Now(c)
<1>4. now \in Bag /\ Limiter!Age(now) = 0
  BY DEF Limiter!Now, Limiter!Age, Bag
<1> HIDE DEF now
<1>5. Stock' = Stock /\ Stock \in Nat /\ Stock >= Limit
  BY <1>2, StockType DEF Stock
<1>6. CASE limiterOn = "memory" \/ bucket.here
  <2>1. PICK tokens \in Nat :
               /\ tokens <= Limit * Duration /\ Budget(tokens)
               /\ bucket' \in Buckets /\ IsFiniteSet(bucket'.log) /\ bucket'.here
               /\ bucket'.due = 0
               /\ \/ /\ tokens >= Duration /\ bucket'.count = tokens - Duration
                     /\ admitted' = admitted \union {now}
                     /\ told' = Limiter!Untold
                  \/ /\ tokens < Duration /\ bucket'.count = tokens
                     /\ admitted' = admitted
                     /\ told' = Limiter!Ceil(Duration - tokens, Limit)
    BY <1>6, TokenVerdict DEF now
  <2>2. -Duration <= bucket'.due /\ bucket'.due <= Duration /\ bucket'.due <= 0
        /\ bucket'.due \in Int /\ bucket'.due >= 0
    BY <1>3, <2>1
  <2>3. CASE /\ tokens >= Duration /\ bucket'.count = tokens - Duration
             /\ admitted' = admitted \union {now} /\ told' = Limiter!Untold
    <3>1. Tokens(bucket') = tokens - Duration
      BY <1>3, <2>1, <2>2, <2>3, TokensLeft
    <3>2. told' \in Nat /\ ~(told' <= Duration)
      BY <1>3, <2>3
    <3>3. LimiterBase'
      BY <1>1, <1>2, <2>1, <2>2, <2>3, <3>2, BaseKept DEF now
    <3>4. ASSUME NEW a \in 0..(Duration - 1)
          PROVE  Duration * Cardinality(Young(admitted', a)) + Tokens(bucket')
                     <= Stock * Duration + a * Limit
      <4> DEFINE young == Young(admitted, a)
                 many  == Cardinality(young)
      <4>1. IsFiniteSet(young)
        BY <1>3, PartOfLog DEF Young
      <4>2. Young(admitted', a) = young \union {now}
        BY <1>4, <2>3 DEF Young
      <4>3. /\ many \in Nat /\ Cardinality(young \union {now}) \in Nat
            /\ Cardinality(young \union {now}) <= many + 1
        BY <4>1, OneCall
      <4>4. Duration * many + tokens <= Stock * Duration + a * Limit
        BY <2>1 DEF Budget
      <4> HIDE DEF young, many
      <4>5. /\ Duration * Cardinality(young \union {now}) <= Duration * (many + 1)
            /\ Duration * (many + 1) = Duration * many + Duration
        BY <1>3, <4>3, Monotone, OneMore
      <4>6. /\ Duration * many \in Int /\ Stock * Duration \in Int /\ a * Limit \in Int
            /\ Duration * Cardinality(young \union {now}) \in Int
        BY <1>3, <1>5, <4>3
      <4>7. QED
        BY <1>3, <2>1, <3>1, <4>2, <4>4, <4>5, <4>6
    <3>5. TokenInv'
      BY <1>2, <1>5, <2>2, <3>2, <3>4 DEF TokenInv
    <3>6. QED
      BY <3>3, <3>5
  <2>4. CASE /\ tokens < Duration /\ bucket'.count = tokens
             /\ admitted' = admitted /\ told' = Limiter!Ceil(Duration - tokens, Limit)
    <3>1. Tokens(bucket') = tokens
      BY <2>1, <2>2, <2>4, TokensLeft
    <3>2. Duration - tokens \in Nat
      BY <1>3, <2>4
    <3>3. told' \in Nat /\ Duration - tokens <= told' * Limit
      BY <1>3, <2>4, <3>2, Ceiling
    <3>4. PICK back \in Nat : back = told' * Limit
      BY <1>3, <3>3, Product
    <3>5. Duration <= Tokens(bucket') + told' * Limit
      <4>1. Duration - tokens <= back
        BY <3>3, <3>4
      <4>2. Duration <= tokens + back
        BY <1>3, <4>1
      <4>3. QED
        BY <3>1, <3>4, <4>2
    <3>6. LimiterBase'
      BY <1>1, <1>2, <2>1, <2>2, <2>4, <3>3, BaseKept
    <3>7. TokenInv'
      BY <1>2, <1>5, <2>1, <2>2, <2>4, <3>1, <3>5 DEF TokenInv, Budget
    <3>8. QED
      BY <3>6, <3>7
  <2>5. QED
    BY <2>1, <2>3, <2>4
<1>7. CASE /\ limiterOn = "sql" /\ ~bucket.here
           /\ bucket' = Limiter!First(c) /\ Limiter!Answer(c, TRUE, 0)
  <2>1. bucket' = [here |-> TRUE, due |-> Duration, count |-> Duration, log |-> {}]
    BY <1>7 DEF Limiter!First
  <2>2. IsFiniteSet({}) /\ {} \in SUBSET Bag
    BY FS_EmptySet
  <2>3. /\ bucket' \in Buckets /\ bucket'.here /\ bucket'.due = Duration /\ bucket'.log = {}
        /\ bucket'.count = Duration
    BY <1>3, <2>1, <2>2 DEF Buckets
  <2>4. admitted' = admitted \union {now} /\ told' = Duration + 1
    BY <1>3, <1>7 DEF Limiter!Answer, now
  <2>5. admitted' = {now}
    BY <1>1, <1>7, <2>4 DEF LimiterBase
  <2>6. -Duration <= bucket'.due /\ bucket'.due <= Duration /\ told' \in Nat
        /\ bucket'.due \in Int /\ bucket'.due >= 0
    BY <1>3, <2>3, <2>4
  <2>7. LimiterBase'
    BY <1>1, <1>2, <2>2, <2>3, <2>4, <2>6, BaseKept DEF now
  <2>8. Tokens(bucket') = Duration
    BY <1>3, <2>3, <2>6, TokensLeft
  <2>9. ASSUME NEW a \in 0..(Duration - 1)
        PROVE  Duration * Cardinality(Young(admitted', a)) + Tokens(bucket')
                   <= Stock * Duration + a * Limit
    <3>1. Young(admitted', a) = {now}
      BY <1>4, <2>5 DEF Young
    <3>2. Cardinality(Young(admitted', a)) = 1
      BY <3>1, FS_Singleton
    <3>3. 2 * Duration <= Stock * Duration
      BY <1>3, <1>7, StockType, Monotone
    <3>4. a * Limit \in Nat /\ Stock * Duration \in Nat
      BY <1>3, <1>5
    <3>5. QED
      BY <1>3, <2>8, <3>2, <3>3, <3>4
  <2>10. TokenInv'
    BY <1>2, <1>5, <1>7, <2>9 DEF TokenInv
  <2>11. QED
    BY <2>7, <2>10
<1>8. QED
  BY <1>6, <1>7, Ruled

\* Time goes by for the admitted calls: each is a unit older, and those of a window ago
\* are out of sight.
LEMMA AdmittedAge ==
    ASSUME LimiterBase, admitted' = Limiter!Fresh(Limiter!Aged(admitted))
    PROVE  /\ admitted' \in SUBSET Bag /\ IsFiniteSet(admitted')
           /\ Cardinality(admitted') \in Nat /\ Cardinality(admitted') <= Cardinality(admitted)
           /\ \A y \in admitted' : \E x \in admitted :
                  /\ y = <<x[1], Limiter!Age(x) + 1>>
                  /\ Limiter!Age(y) = Limiter!Age(x) + 1 /\ Limiter!Age(y) < Duration
           /\ \A x \in admitted : Limiter!Age(x) + 1 < Duration =>
                  \E y \in admitted' : Limiter!Age(y) = Limiter!Age(x) + 1
<1>1. /\ admitted \in SUBSET Bag /\ IsFiniteSet(admitted)
      /\ \A x \in admitted : Limiter!Age(x) \in Nat /\ Limiter!Age(x) < Duration
      /\ Duration \in Nat \ {0}
  BY Rule DEF LimiterBase, Bag, Limiter!Age
<1>2. admitted' \in SUBSET Limiter!Aged(admitted)
  BY DEF Limiter!Fresh
<1>3. /\ admitted' \in SUBSET Bag /\ IsFiniteSet(admitted')
      /\ Cardinality(admitted') \in Nat /\ Cardinality(admitted') <= Cardinality(admitted)
  <2>1. /\ Limiter!Aged(admitted) \in SUBSET Bag /\ IsFiniteSet(Limiter!Aged(admitted))
        /\ Cardinality(Limiter!Aged(admitted)) <= Cardinality(admitted)
    BY <1>1, AgedCalls, AgedIsSmaller
  <2>2. Cardinality(admitted) \in Nat
    BY <1>1, FS_CardinalityType
  <2>3. QED
    BY <1>2, <2>1, <2>2, PartOfLog
<1>4. \A x \in admitted : Limiter!Lesser(Limiter!Age(x) + 1, Duration) = Limiter!Age(x) + 1
  BY <1>1 DEF Limiter!Lesser
<1>5. ASSUME NEW y \in admitted'
      PROVE  \E x \in admitted : /\ y = <<x[1], Limiter!Age(x) + 1>>
                                 /\ Limiter!Age(y) = Limiter!Age(x) + 1
                                 /\ Limiter!Age(y) < Duration
  <2>1. y \in Limiter!Aged(admitted) /\ Limiter!Age(y) < Duration
    BY DEF Limiter!Fresh
  <2>2. QED
    BY <1>1, <1>4, <2>1, AgedCalls
<1>6. ASSUME NEW x \in admitted, Limiter!Age(x) + 1 < Duration
      PROVE  \E y \in admitted' : Limiter!Age(y) = Limiter!Age(x) + 1
  <2> DEFINE y == <<x[1], Limiter!Age(x) + 1>>
  <2>1. y \in Limiter!Aged(admitted)
    BY <1>1, <1>4, AgedCalls
  <2>2. Limiter!Age(y) = Limiter!Age(x) + 1
    BY DEF Limiter!Age
  <2>3. QED
    BY <1>6, <2>1, <2>2 DEF Limiter!Fresh
<1>7. QED
  BY <1>3, <1>5, <1>6

\* And no more are young then than were younger before.
LEMMA AdmittedYoung ==
    ASSUME LimiterBase, admitted' = Limiter!Fresh(Limiter!Aged(admitted)),
           NEW a \in Nat, a < Duration
    PROVE  /\ Cardinality(Young(admitted', a)) \in Nat
           /\ Cardinality(Young(admitted, a - 1)) \in Nat
           /\ Cardinality(Young(admitted', a)) <= Cardinality(Young(admitted, a - 1))
<1>1. admitted \in SUBSET Bag /\ IsFiniteSet(admitted)
  BY DEF LimiterBase
<1>2. Young(admitted, a - 1) \in SUBSET admitted
  BY DEF Young
<1>3. /\ IsFiniteSet(Young(admitted, a - 1)) /\ Young(admitted, a - 1) \in SUBSET Bag
      /\ Cardinality(Young(admitted, a - 1)) \in Nat
  BY <1>1, <1>2, PartOfLog
<1>4. /\ IsFiniteSet(Limiter!Aged(Young(admitted, a - 1)))
      /\ Cardinality(Limiter!Aged(Young(admitted, a - 1)))
             <= Cardinality(Young(admitted, a - 1))
  BY <1>3, AgedIsSmaller
<1>5. Young(admitted', a) \subseteq Young(Limiter!Aged(admitted), a)
  BY DEF Young, Limiter!Fresh
<1>6. Young(admitted', a) \in SUBSET Limiter!Aged(Young(admitted, a - 1))
  BY <1>1, <1>5, AgedYoung
<1>7. QED
  BY <1>3, <1>4, <1>6, PartOfLog

\* What time does to a bucket.
LEMMA TickBase ==
    ASSUME LimiterBase, Limiter!Tick
    PROVE  /\ LimiterBase'
           /\ bucket'.due = Limiter!Greater(bucket.due - 1, -Duration)
           /\ bucket'.count = bucket.count /\ bucket'.here = bucket.here
           /\ bucket'.log = Limiter!Aged(bucket.log)
           /\ told' = IF told \in 1..Duration THEN told - 1 ELSE told
           /\ UNCHANGED <<limiterOn, strategy, serial>>
<1>1. /\ bucket \in Buckets /\ IsFiniteSet(bucket.log) /\ Duration \in Nat \ {0}
      /\ -Duration <= bucket.due /\ bucket.due <= Duration /\ told \in Nat
  BY Rule DEF LimiterBase
<1>2. bucket.due \in Int /\ bucket.log \in SUBSET Bag
  BY <1>1 DEF Buckets
<1>3. Limiter!Aged(bucket.log) \in SUBSET Bag /\ IsFiniteSet(Limiter!Aged(bucket.log))
  BY <1>1, <1>2, AgedCalls, AgedIsSmaller
<1> DEFINE due == Limiter!Greater(bucket.due - 1, -Duration)
           aged == Limiter!Aged(bucket.log)
<1>4. due \in Int /\ -Duration <= due /\ due <= Duration
  BY <1>1, <1>2 DEF Limiter!Greater
<1>5. bucket' = [bucket EXCEPT !.due = due, !.log = aged]
  BY DEF Limiter!Tick
<1> HIDE DEF due, aged
<1>6. /\ bucket'.due = due /\ bucket'.log = aged
      /\ bucket'.count = bucket.count /\ bucket'.here = bucket.here
  BY <1>1, <1>5 DEF Buckets
<1>7. bucket' \in Buckets
  BY <1>1, <1>3, <1>4, <1>5 DEF Buckets, aged
<1>8. told' = IF told \in 1..Duration THEN told - 1 ELSE told
  BY DEF Limiter!Tick
<1>9. told' \in Nat /\ (told > Duration => told' > Duration)
  BY <1>1, <1>8
<1>10. read' = read /\ \A c \in Clients : read[c] = <<>>
  BY DEF Limiter!Tick, Limiter!Pending
<1>11. read' \in [Clients -> {<<>>, <<bucket'>>}]
  BY <1>10 DEF LimiterBase
<1>12. admitted' = Limiter!Fresh(Limiter!Aged(admitted))
  BY DEF Limiter!Tick
<1>13. /\ admitted' \in SUBSET Bag /\ IsFiniteSet(admitted')
       /\ \A x \in admitted' : Limiter!Age(x) < Duration
       /\ admitted = {} => admitted' = {}
  BY <1>12, AdmittedAge
<1>14. UNCHANGED <<limiterOn, strategy, serial>>
  BY DEF Limiter!Tick, Limiter!program
<1>15. LimiterBase'
  BY <1>3, <1>4, <1>6, <1>7, <1>9, <1>10, <1>11, <1>13, <1>14 DEF LimiterBase, aged
<1>16. QED
  BY <1>6, <1>8, <1>14, <1>15 DEF due, aged

\* Time keeps the invariant of fixed windows.
LEMMA FixedTick ==
    ASSUME LimiterBase, FixedInv, Limiter!Tick
    PROVE  FixedInv'
<1>1. /\ Limit \in Nat \ {0} /\ Duration \in Nat \ {0} /\ told \in Nat
      /\ bucket.due \in Int /\ bucket.count \in Nat
      /\ -Duration <= bucket.due /\ bucket.due <= Duration
  BY Rule DEF LimiterBase, Buckets
<1>2. /\ bucket'.due = IF bucket.due > -Duration THEN bucket.due - 1 ELSE -Duration
      /\ bucket'.count = bucket.count
      /\ told' = IF told \in 1..Duration THEN told - 1 ELSE told
  BY <1>1, TickBase DEF Limiter!Greater
<1>3. admitted' = Limiter!Fresh(Limiter!Aged(admitted))
  BY DEF Limiter!Tick
<1>4. /\ admitted \in SUBSET Bag /\ IsFiniteSet(admitted)
      /\ \A x \in admitted : Limiter!Age(x) \in Nat /\ Limiter!Age(x) < Duration
      /\ Cardinality(admitted) \in Nat
  BY FS_CardinalityType DEF LimiterBase, Bag, Limiter!Age
<1>5. told' <= Duration => bucket'.due <= told'
  BY <1>1, <1>2 DEF FixedInv
<1>6. \A y \in admitted' : Limiter!Age(y) >= 1
  BY <1>3, <1>4, AdmittedAge
<1>7. CASE bucket.due <= 0
  <2>1. Cardinality(admitted') <= Limit - 1
    BY <1>1, <1>3, <1>4, <1>7, AdmittedAge DEF FixedInv
  <2>2. bucket'.due <= 0 /\ ~(bucket'.due > 0)
    BY <1>1, <1>2, <1>7
  <2>3. QED
    BY <1>5, <1>6, <2>1, <2>2 DEF FixedInv
<1>8. CASE bucket.due = 1
  <2>1. Opened = Duration - 1
    BY <1>8 DEF Opened
  <2>2. Young(admitted, Opened) = admitted
    BY <1>1, <1>4, <2>1 DEF Young
  <2>3. Cardinality(admitted) <= Limit
    BY <1>8, <2>2 DEF FixedInv
  <2>4. PICK x \in admitted : Limiter!Age(x) = Duration - 1
    BY <1>8, <2>1 DEF FixedInv
  <2>5. admitted' \in SUBSET Limiter!Aged(admitted \ {x})
    <3>1. ASSUME NEW y \in admitted' PROVE y \in Limiter!Aged(admitted \ {x})
      <4>1. PICK z \in admitted : /\ y = <<z[1], Limiter!Age(z) + 1>>
                                  /\ Limiter!Age(z) + 1 < Duration
        BY <1>3, AdmittedAge
      <4>2. z \in admitted \ {x}
        BY <1>1, <2>4, <4>1
      <4>3. Limiter!Lesser(Limiter!Age(z) + 1, Duration) = Limiter!Age(z) + 1
        BY <1>1, <1>4, <4>1 DEF Limiter!Lesser
      <4>4. QED
        BY <4>1, <4>2, <4>3 DEF Limiter!Aged
    <3>2. QED
      BY <3>1
  <2>6. /\ IsFiniteSet(admitted \ {x}) /\ admitted \ {x} \in SUBSET Bag
        /\ Cardinality(admitted \ {x}) = Cardinality(admitted) - 1
    BY <1>4, <2>4, FS_RemoveElement
  <2>7. /\ IsFiniteSet(Limiter!Aged(admitted \ {x}))
        /\ Cardinality(Limiter!Aged(admitted \ {x})) <= Cardinality(admitted \ {x})
    BY <2>6, AgedIsSmaller
  <2>8. /\ Cardinality(admitted') \in Nat
        /\ Cardinality(Limiter!Aged(admitted \ {x})) \in Nat
        /\ Cardinality(admitted') <= Cardinality(Limiter!Aged(admitted \ {x}))
    BY <2>5, <2>7, PartOfLog
  <2>9. Cardinality(admitted') <= Limit - 1
    BY <1>1, <1>4, <2>3, <2>6, <2>7, <2>8
  <2>10. bucket'.due <= 0 /\ ~(bucket'.due > 0)
    BY <1>1, <1>2, <1>8
  <2>11. QED
    BY <1>5, <1>6, <2>9, <2>10 DEF FixedInv
<1>9. CASE bucket.due > 1
  <2>1. bucket'.due = bucket.due - 1 /\ bucket'.due > 0 /\ ~(bucket'.due <= 0)
    BY <1>1, <1>2, <1>9
  <2>2. /\ Opened' = Opened + 1 /\ Opened \in Nat /\ Opened' \in Nat /\ Opened' < Duration
        /\ Opened' - 1 = Opened
    BY <1>1, <1>9, <2>1 DEF Opened
  <2>3. PICK w \in Nat : w = Opened'
    BY <2>2
  <2>4. \E y \in admitted' : Limiter!Age(y) = w
    <3>1. PICK x \in admitted : Limiter!Age(x) = Opened
      BY <1>1, <1>9 DEF FixedInv
    <3>2. QED
      BY <1>3, <2>2, <2>3, <3>1, AdmittedAge
  <2>5. /\ Cardinality(Young(admitted', w)) \in Nat
        /\ Cardinality(Young(admitted, Opened)) \in Nat
        /\ Cardinality(Young(admitted', w)) <= Cardinality(Young(admitted, Opened))
    <3>1. w < Duration /\ w - 1 = Opened
      BY <2>2, <2>3
    <3>2. QED
      BY <1>3, <3>1, AdmittedYoung
  <2>6. /\ Cardinality(Young(admitted, Opened)) <= bucket.count
        /\ Cardinality(Young(admitted, Opened)) <= Limit
        /\ Cardinality(admitted \ Young(admitted, Opened)) <= Limit - 1
    BY <1>1, <1>9 DEF FixedInv
  <2> DEFINE before == admitted \ Young(admitted, Opened)
  <2>7. admitted' \ Young(admitted', w) \in SUBSET Limiter!Aged(before)
    <3>1. ASSUME NEW y \in admitted', y \notin Young(admitted', w)
          PROVE  y \in Limiter!Aged(before)
      <4>1. PICK z \in admitted : /\ y = <<z[1], Limiter!Age(z) + 1>>
                                  /\ Limiter!Age(y) = Limiter!Age(z) + 1
                                  /\ Limiter!Age(z) + 1 < Duration
        BY <1>3, AdmittedAge
      <4>2. ~(Limiter!Age(y) <= w)
        BY <3>1 DEF Young
      <4>3. ~(Limiter!Age(z) <= Opened)
        BY <1>4, <2>2, <2>3, <4>1, <4>2
      <4>4. z \in before
        BY <4>3 DEF Young
      <4>5. Limiter!Lesser(Limiter!Age(z) + 1, Duration) = Limiter!Age(z) + 1
        BY <1>1, <1>4, <4>1 DEF Limiter!Lesser
      <4> HIDE DEF before
      <4>6. QED
        BY <4>1, <4>4, <4>5 DEF Limiter!Aged
    <3>2. QED
      BY <3>1
  <2>8. /\ IsFiniteSet(before) /\ before \in SUBSET Bag /\ Cardinality(before) \in Nat
    BY <1>4, PartOfLog
  <2> HIDE DEF before
  <2>9. /\ IsFiniteSet(Limiter!Aged(before))
        /\ Cardinality(Limiter!Aged(before)) <= Cardinality(before)
    BY <2>8, AgedIsSmaller
  <2>10. /\ Cardinality(admitted' \ Young(admitted', w)) \in Nat
         /\ Cardinality(Limiter!Aged(before)) \in Nat
         /\ Cardinality(admitted' \ Young(admitted', w)) <= Cardinality(Limiter!Aged(before))
    BY <2>7, <2>9, PartOfLog
  <2>11. Cardinality(admitted' \ Young(admitted', w)) <= Limit - 1
    BY <1>1, <2>6, <2>8, <2>9, <2>10 DEF before
  <2>12. /\ Cardinality(Young(admitted', w)) <= bucket'.count
         /\ Cardinality(Young(admitted', w)) <= Limit
    BY <1>1, <1>2, <2>5, <2>6
  <2>13. QED
    BY <1>5, <2>1, <2>3, <2>4, <2>11, <2>12 DEF FixedInv
<1>10. QED
  BY <1>1, <1>7, <1>8, <1>9

\* Time keeps the invariant of sliding windows.
LEMMA SlidingTick ==
    ASSUME LimiterBase, SlidingInv, Limiter!Tick
    PROVE  SlidingInv'
<1>1. /\ Limit \in Nat \ {0} /\ Duration \in Nat \ {0} /\ told \in Nat
      /\ bucket.log \in SUBSET Bag /\ IsFiniteSet(bucket.log)
      /\ IsFiniteSet(admitted) /\ Cardinality(admitted) \in Nat /\ Cardinality(bucket.log) \in Nat
  BY Rule, FS_CardinalityType DEF LimiterBase, Buckets
<1>2. /\ bucket'.log = Limiter!Aged(bucket.log) /\ limiterOn' = limiterOn
      /\ told' = IF told \in 1..Duration THEN told - 1 ELSE told
  BY TickBase
<1>3. admitted' = Limiter!Fresh(Limiter!Aged(admitted))
  BY DEF Limiter!Tick
<1>4. admitted' \subseteq bucket'.log
  BY <1>2, <1>3 DEF SlidingInv, Limiter!Fresh, Limiter!Aged
<1>5. Cardinality(admitted') <= Limit
  BY <1>1, <1>3, AdmittedAge DEF SlidingInv
<1>6. limiterOn = "memory" => Cardinality(bucket'.log) <= Limit
  <2>1. /\ IsFiniteSet(Limiter!Aged(bucket.log))
        /\ Cardinality(Limiter!Aged(bucket.log)) <= Cardinality(bucket.log)
    BY <1>1, AgedIsSmaller
  <2>2. Cardinality(Limiter!Aged(bucket.log)) \in Nat
    BY <2>1, FS_CardinalityType
  <2>3. QED
    BY <1>1, <1>2, <2>1, <2>2 DEF SlidingInv
<1>7. ASSUME limiterOn = "memory", told' <= Duration
      PROVE  \E y \in bucket'.log : Limiter!Age(y) >= Duration - told'
  <2>1. told <= Duration
    BY <1>1, <1>2, <1>7
  <2>2. PICK x \in bucket.log : Limiter!Age(x) >= Duration - told
    BY <1>7, <2>1 DEF SlidingInv
  <2> DEFINE y == <<x[1], Limiter!Lesser(Limiter!Age(x) + 1, Duration)>>
  <2>3. y \in bucket'.log /\ Limiter!Age(y) = Limiter!Lesser(Limiter!Age(x) + 1, Duration)
    BY <1>1, <1>2, AgedCalls DEF Limiter!Age
  <2>4. Limiter!Age(x) \in Nat
    BY <1>1 DEF Bag, Limiter!Age
  <2> HIDE DEF y
  <2>5. Limiter!Age(y) >= Duration - told'
    BY <1>1, <1>2, <2>1, <2>2, <2>3, <2>4 DEF Limiter!Lesser
  <2>6. QED
    BY <2>3, <2>5
<1>8. QED
  BY <1>2, <1>4, <1>5, <1>6, <1>7 DEF SlidingInv

\* In a unit of time a unit of tokens comes back, unless the bucket is full.
LEMMA TokensBack ==
    ASSUME LimiterBase, Limiter!Tick
    PROVE  /\ Tokens(bucket) \in Nat /\ Tokens(bucket') \in Nat
           /\ Tokens(bucket') <= Limit * Duration /\ Tokens(bucket') <= Tokens(bucket) + Limit
           /\ Tokens(bucket') >= Tokens(bucket)
           /\ bucket.due <= 0 => \/ Tokens(bucket') = Limit * Duration
                                 \/ Tokens(bucket') = Tokens(bucket) + Limit
<1>1. /\ Limit \in Nat \ {0} /\ Duration \in Nat \ {0} /\ bucket.due \in Int
      /\ bucket.count \in Nat /\ -Duration <= bucket.due /\ bucket.due <= Duration
  BY Rule DEF LimiterBase, Buckets
<1>2. /\ bucket'.due = IF bucket.due > -Duration THEN bucket.due - 1 ELSE -Duration
      /\ bucket'.count = bucket.count
  BY <1>1, TickBase DEF Limiter!Greater
<1>3. LimiterBase'
  BY TickBase
<1>4. /\ Tokens(bucket) \in Nat /\ Tokens(bucket) <= Limit * Duration
      /\ (Tokens(bucket) \in Nat /\ Tokens(bucket) <= Limit * Duration)'
  <2>1. (LimiterBase => Tokens(bucket) \in Nat /\ Tokens(bucket) <= Limit * Duration)'
    BY TokensType, PTL
  <2>2. QED
    BY <1>3, <2>1, TokensType
<1> DEFINE gone  == Limiter!Greater(0, -bucket.due)
           gone2 == Limiter!Greater(0, -bucket'.due)
<1>5. gone \in Nat /\ gone2 \in Nat
  BY <1>1, <1>2 DEF Limiter!Greater
<1>6. \/ gone2 = gone /\ bucket.due > 0
      \/ gone2 = gone /\ gone = Duration
      \/ gone2 = gone + 1
  BY <1>1, <1>2 DEF Limiter!Greater
<1>7. /\ Tokens(bucket) = Limiter!Lesser(Limit * Duration, bucket.count + gone * Limit)
      /\ Tokens(bucket') = Limiter!Lesser(Limit * Duration, bucket.count + gone2 * Limit)
  BY <1>2 DEF Tokens
<1> HIDE DEF gone, gone2
<1>8. gone * Limit \in Nat /\ gone2 * Limit \in Nat /\ Limit * Duration \in Nat
  BY <1>1, <1>5, Product
<1>9. CASE gone2 = gone /\ bucket.due > 0
  BY <1>1, <1>4, <1>7, <1>8, <1>9
<1>10. CASE gone2 = gone /\ gone = Duration
  <2>1. gone * Limit = Limit * Duration
    BY <1>1, <1>10
  <2>2. Tokens(bucket') = Limit * Duration /\ Tokens(bucket) = Limit * Duration
    BY <1>1, <1>7, <1>8, <1>10, <2>1 DEF Limiter!Lesser
  <2>3. QED
    BY <1>1, <1>4, <1>8, <2>2
<1>11. CASE gone2 = gone + 1
  <2>1. gone2 * Limit = gone * Limit + Limit
    BY <1>1, <1>5, <1>11, OneMore
  <2>2. QED
    BY <1>1, <1>4, <1>7, <1>8, <2>1 DEF Limiter!Lesser
<1>12. QED
  BY <1>6, <1>9, <1>10, <1>11

\* Time keeps the invariant of token buckets.
LEMMA TokenTick ==
    ASSUME LimiterBase, TokenInv, Limiter!Tick
    PROVE  TokenInv'
<1>1. /\ Limit \in Nat \ {0} /\ Duration \in Nat \ {0} /\ Limit * Duration \in Nat
      /\ Duration <= Limit * Duration /\ told \in Nat /\ bucket.due \in Int
  BY Rule DEF LimiterBase, Buckets
<1>2. /\ bucket'.due = Limiter!Greater(bucket.due - 1, -Duration)
      /\ bucket'.here = bucket.here /\ limiterOn' = limiterOn
      /\ told' = IF told \in 1..Duration THEN told - 1 ELSE told
  BY TickBase
<1>3. admitted' = Limiter!Fresh(Limiter!Aged(admitted))
  BY DEF Limiter!Tick
<1>4. /\ Tokens(bucket) \in Nat /\ Tokens(bucket') \in Nat
      /\ Tokens(bucket') <= Limit * Duration /\ Tokens(bucket') <= Tokens(bucket) + Limit
      /\ Tokens(bucket') >= Tokens(bucket)
      /\ bucket.due <= 0 => \/ Tokens(bucket') = Limit * Duration
                            \/ Tokens(bucket') = Tokens(bucket) + Limit
  BY TokensBack
<1>5. Stock' = Stock /\ Stock \in Nat /\ Stock >= Limit
  BY <1>2, StockType DEF Stock
<1>6. Stock * Duration \in Nat /\ Limit * Duration <= Stock * Duration
  BY <1>1, <1>5, Product, Monotone
<1>7. ASSUME bucket.here, NEW a \in 0..(Duration - 1)
      PROVE  Duration * Cardinality(Young(admitted', a)) + Tokens(bucket')
                 <= Stock * Duration + a * Limit
  <2>1. CASE a = 0
    <3>1. Young(admitted', 0) = {}
      <4>1. \A y \in admitted' : Limiter!Age(y) >= 1 /\ Limiter!Age(y) \in Nat
        <5>1. \A x \in admitted : Limiter!Age(x) \in Nat
          BY DEF LimiterBase, Bag, Limiter!Age
        <5>2. QED
          BY <1>3, <5>1, AdmittedAge
      <4>2. QED
        BY <4>1 DEF Young
    <3>2. Duration * 0 = 0 /\ a * Limit = 0
      BY <1>1, <2>1
    <3>3. Cardinality(Young(admitted', a)) = 0
      BY <2>1, <3>1, FS_EmptySet
    <3>4. QED
      BY <1>4, <1>6, <1>1, <3>2, <3>3
  <2>2. CASE a > 0
    <3>1. a - 1 \in 0..(Duration - 1) /\ a \in Nat /\ a < Duration
      BY <1>1, <2>2
    <3>2. Duration * Cardinality(Young(admitted, a - 1)) + Tokens(bucket)
              <= Stock * Duration + (a - 1) * Limit
      BY <1>7, <3>1 DEF TokenInv
    <3>3. /\ Cardinality(Young(admitted', a)) \in Nat
          /\ Cardinality(Young(admitted, a - 1)) \in Nat
          /\ Cardinality(Young(admitted', a)) <= Cardinality(Young(admitted, a - 1))
      BY <1>3, <3>1, AdmittedYoung
    <3>4. /\ Duration * Cardinality(Young(admitted', a)) \in Nat
          /\ Duration * Cardinality(Young(admitted, a - 1)) \in Nat
          /\ Duration * Cardinality(Young(admitted', a))
                 <= Duration * Cardinality(Young(admitted, a - 1))
      BY <1>1, <3>3, Product, Monotone
    <3>5. (a - 1) * Limit \in Nat /\ a * Limit = (a - 1) * Limit + Limit
      <4>1. (a - 1) + 1 = a /\ a - 1 \in Nat
        BY <3>1
      <4>2. QED
        BY <1>1, <4>1, OneMore, Product
    <3>6. QED
      BY <1>1, <1>4, <1>6, <3>2, <3>4, <3>5
  <2>3. QED
    BY <1>1, <2>1, <2>2
<1>8. limiterOn = "memory" => bucket'.due <= 0
  BY <1>1, <1>2 DEF TokenInv, Limiter!Greater
<1>9. ASSUME limiterOn = "memory", told' <= Duration
      PROVE  Duration <= Tokens(bucket') + told' * Limit
  <2>1. told <= Duration /\ Duration <= Tokens(bucket) + told * Limit /\ bucket.due <= 0
    BY <1>1, <1>2, <1>9 DEF TokenInv
  <2>2. CASE told = 0
    <3>1. told' = 0 /\ 0 * Limit = 0
      BY <1>1, <1>2, <2>2
    <3>2. QED
      BY <1>1, <1>4, <2>1, <2>2, <3>1
  <2>3. CASE told > 0
    <3>1. told' = told - 1 /\ told' \in Nat
      BY <1>1, <1>2, <2>1, <2>3
    <3>2. PICK n \in Nat : n = told' /\ told = n + 1
      BY <1>1, <3>1
    <3>3. told * Limit = n * Limit + Limit /\ n * Limit \in Nat
      <4>1. Limit \in Int /\ Limit \in Nat
        BY <1>1
      <4>2. (n + 1) * Limit = n * Limit + Limit
        BY <4>1, OneMore
      <4>3. n * Limit \in Nat
        BY <4>1, Product
      <4>4. QED
        BY <3>2, <4>2, <4>3
    <3>4. Duration <= Tokens(bucket') + n * Limit
      BY <1>1, <1>4, <2>1, <3>3
    <3>5. QED
      BY <3>2, <3>4
  <2>4. QED
    BY <1>1, <2>2, <2>3
<1>10. QED
  BY <1>2, <1>5, <1>7, <1>8, <1>9 DEF TokenInv

\* After a reset nobody has been admitted.
LEMMA ResetStep ==
    ASSUME LimiterInv, Limiter!Atomic, Limiter!Reset
    PROVE  LimiterBase' /\ FixedInv' /\ SlidingInv' /\ TokenInv'
<1>1. LimiterBase /\ Limit \in Nat \ {0} /\ Duration \in Nat \ {0}
  BY Rule DEF LimiterInv
<1>2. /\ bucket' = [here |-> FALSE, count |-> 0, due |-> 0, log |-> {}]
      /\ admitted' = {} /\ told' = Duration + 1 /\ UNCHANGED <<limiterOn, read>>
  BY DEF Limiter!Reset, Limiter!Nothing, Limiter!Untold, Limiter!program
<1>3. \A c \in Clients : read[c] = <<>>
  BY <1>1 DEF Limiter!Reset, Limiter!Pending, Limiter!Atomic, LimiterBase
<1>4. IsFiniteSet({}) /\ Cardinality({}) = 0
  BY FS_EmptySet
<1>5. /\ ~bucket'.here /\ bucket'.due = 0 /\ bucket'.log = {} /\ bucket' \in Buckets
      /\ ~(bucket'.due > 0)
  BY <1>2 DEF Buckets
<1>6. told' \in Nat /\ told' > Duration /\ ~(told' <= Duration) /\ -Duration <= 0 /\ 0 <= Duration
  BY <1>1, <1>2
<1>7. read' \in [Clients -> {<<>>, <<bucket'>>}] /\ \A c \in Clients : read'[c] = <<>>
  BY <1>1, <1>2, <1>3 DEF LimiterBase
<1>8. LimiterBase'
  BY <1>2, <1>4, <1>5, <1>6, <1>7 DEF LimiterBase
<1>9. FixedInv' /\ SlidingInv' /\ TokenInv'
  BY <1>1, <1>2, <1>4, <1>5, <1>6 DEF FixedInv, SlidingInv, TokenInv
<1>10. QED
  BY <1>8, <1>9

\* A SELECT only reads.
LEMMA SelectStep ==
    ASSUME LimiterInv, Limiter!Atomic, NEW c \in Clients, Limiter!Select(c)
    PROVE  LimiterInv'
<1>1. LimiterBase
  BY DEF LimiterInv
<1>2. /\ limiterOn = "sql" /\ read' = [read EXCEPT ![c] = <<bucket>>]
      /\ UNCHANGED <<limiterOn, strategy, serial, bucket, admitted, told>>
  BY DEF Limiter!Select, Limiter!program
<1>3. \A d \in Clients : read[d] = <<>>
  BY <1>2 DEF Limiter!Select, Limiter!MayAsk, Limiter!Pending, Limiter!Atomic
<1>4. read' \in [Clients -> {<<>>, <<bucket'>>}] /\ \A d \in Clients \ {c} : read'[d] = <<>>
  BY <1>1, <1>2, <1>3 DEF LimiterBase
<1>5. LimiterBase'
  BY <1>1, <1>2, <1>4 DEF LimiterBase
<1>6. (FixedInv => FixedInv') /\ (SlidingInv => SlidingInv') /\ (TokenInv => TokenInv')
  BY <1>2 DEF FixedInv, Opened, SlidingInv, TokenInv, Stock
<1>7. QED
  BY <1>2, <1>5, <1>6 DEF LimiterInv

\* At first nobody has been admitted.
LEMMA LimiterInit == Limiter!Init => LimiterInv
<1> SUFFICES ASSUME Limiter!Init PROVE LimiterInv
  OBVIOUS
<1>1. Limit \in Nat \ {0} /\ Duration \in Nat \ {0}
  BY Rule
<1>2. /\ bucket = [here |-> FALSE, count |-> 0, due |-> 0, log |-> {}]
      /\ admitted = {} /\ told = Duration + 1 /\ read = [c \in Clients |-> <<>>]
      /\ limiterOn \in {"memory", "sql"} /\ strategy \in Limiter!Strategies
  BY DEF Limiter!Init, Limiter!Nothing, Limiter!Untold
<1>3. IsFiniteSet({}) /\ Cardinality({}) = 0
  BY FS_EmptySet
<1>4. /\ ~bucket.here /\ bucket.due = 0 /\ bucket.log = {} /\ bucket \in Buckets
      /\ ~(bucket.due > 0)
  BY <1>2 DEF Buckets
<1>5. told \in Nat /\ told > Duration /\ ~(told <= Duration) /\ -Duration <= 0 /\ 0 <= Duration
  BY <1>1, <1>2
<1>6. LimiterBase
  BY <1>2, <1>3, <1>4, <1>5 DEF LimiterBase
<1>7. FixedInv /\ SlidingInv /\ TokenInv
  BY <1>1, <1>2, <1>3, <1>4, <1>5 DEF FixedInv, SlidingInv, TokenInv
<1>8. QED
  BY <1>2, <1>6, <1>7 DEF LimiterInv

\* Every step keeps the invariant of the limiter.
LEMMA LimiterNext == LimiterInv /\ [Limiter!Next]_(Limiter!vars) => LimiterInv'
<1> SUFFICES ASSUME LimiterInv, [Limiter!Next]_(Limiter!vars) PROVE LimiterInv'
  OBVIOUS
<1>1. UNCHANGED <<limiterOn, strategy, serial>>
  BY DEF Limiter!Next, Limiter!Call, Limiter!Consume, Limiter!Select, Limiter!Insert,
         Limiter!Update, Limiter!Reset, Limiter!Tick, Limiter!program, Limiter!vars
<1>2. Limiter!Atomic' <=> Limiter!Atomic
  BY <1>1 DEF Limiter!Atomic
<1>3. CASE ~Limiter!Atomic
  BY <1>1, <1>2, <1>3 DEF LimiterInv
<1>4. CASE Limiter!Atomic
  <2>1. CASE Limiter!Tick
    <3>1. LimiterBase'
      BY <1>4, <2>1, TickBase DEF LimiterInv
    <3>2. /\ strategy = "fixed-window" => FixedInv'
          /\ strategy = "sliding-window" => SlidingInv'
          /\ strategy = "token-bucket" => TokenInv'
      BY <1>4, <2>1, FixedTick, SlidingTick, TokenTick DEF LimiterInv
    <3>3. QED
      BY <1>1, <3>1, <3>2 DEF LimiterInv
  <2>2. CASE Limiter!Reset
    BY <1>1, <1>4, <2>2, ResetStep DEF LimiterInv
  <2>3. CASE \E c \in Clients : Limiter!Select(c)
    BY <1>4, <2>3, SelectStep
  <2>4. CASE \E c \in Clients : Limiter!Consume(c) \/ Limiter!Insert(c) \/ Limiter!Update(c)
    <3>1. strategy \in {"fixed-window", "sliding-window", "token-bucket"}
      BY DEF LimiterInv, Limiter!Strategies
    <3>2. CASE strategy = "fixed-window"
      BY <1>1, <1>4, <2>4, <3>2, FixedStep DEF LimiterInv
    <3>3. CASE strategy = "sliding-window"
      BY <1>1, <1>4, <2>4, <3>3, SlidingStep DEF LimiterInv
    <3>4. CASE strategy = "token-bucket"
      BY <1>1, <1>4, <2>4, <3>4, TokenStep DEF LimiterInv
    <3>5. QED
      BY <3>1, <3>2, <3>3, <3>4
  <2>5. CASE UNCHANGED Limiter!vars
    BY <2>5 DEF LimiterInv, Limiter!vars, Limiter!Atomic, LimiterBase, FixedInv, Opened,
                SlidingInv, TokenInv, Stock
  <2>6. QED
    BY <2>1, <2>2, <2>3, <2>4, <2>5 DEF Limiter!Next, Limiter!Call
<1>5. QED
  BY <1>3, <1>4

\* Two windows, or a full bucket and its refill, overlap by all but one.
LEMMA LimitHolds == LimiterInv => WindowLimit
<1> SUFFICES ASSUME LimiterInv, Limiter!Atomic
             PROVE  Cardinality(admitted) <= Limiter!MostInAWindow
  BY SameCount DEF WindowLimit, Limiter!WindowLimit
<1>1. /\ Limit \in Nat \ {0} /\ Duration \in Nat \ {0} /\ Limit * Duration \in Nat
      /\ LimiterBase /\ limiterOn \in {"memory", "sql"}
      /\ strategy \in {"fixed-window", "sliding-window", "token-bucket"}
  BY Rule DEF LimiterInv, Limiter!Strategies
<1>2. /\ IsFiniteSet(admitted) /\ Cardinality(admitted) \in Nat
      /\ \A x \in admitted : Limiter!Age(x) \in Nat /\ Limiter!Age(x) < Duration
      /\ bucket.due \in Int
  BY <1>1, FS_CardinalityType DEF LimiterBase, Bag, Limiter!Age, Buckets
<1>3. CASE strategy = "fixed-window"
  <2>1. FixedInv /\ Limiter!MostInAWindow = 2 * Limit - 1
    BY <1>3 DEF LimiterInv, Limiter!MostInAWindow
  <2>2. CASE bucket.due > 0
    <3> DEFINE young == Young(admitted, Opened)
    <3>1. young \in SUBSET admitted /\ admitted = young \union (admitted \ young)
      BY DEF Young
    <3>2. /\ IsFiniteSet(young) /\ IsFiniteSet(admitted \ young)
          /\ Cardinality(young) \in Nat /\ Cardinality(admitted \ young) \in Nat
      BY <1>2, <3>1, PartOfLog
    <3>3. Cardinality(young) <= Limit /\ Cardinality(admitted \ young) <= Limit - 1
      BY <2>1, <2>2 DEF FixedInv
    <3>4. Cardinality(admitted) <= Cardinality(young) + Cardinality(admitted \ young)
      <4> HIDE DEF young
      <4>1. young \intersect (admitted \ young) = {}
        OBVIOUS
      <4>2. QED
        BY <3>1, <3>2, <4>1, FS_Union, FS_EmptySet
    <3> HIDE DEF young
    <3>5. QED
      BY <1>1, <1>2, <2>1, <3>2, <3>3, <3>4
  <2>3. CASE bucket.due <= 0
    BY <1>1, <1>2, <2>1, <2>3 DEF FixedInv
  <2>4. QED
    BY <1>2, <2>2, <2>3
<1>4. CASE strategy = "sliding-window"
  BY <1>4 DEF LimiterInv, SlidingInv, Limiter!MostInAWindow
<1>5. CASE strategy = "token-bucket"
  <2>1. TokenInv /\ Stock \in Nat
    BY <1>5, StockType DEF LimiterInv
  <2> DEFINE many == Cardinality(admitted)
  <2>2. CASE ~bucket.here
    <3>1. many = 0
      BY <1>1, <2>2, FS_EmptySet DEF LimiterBase
    <3>2. Limiter!MostInAWindow = IF limiterOn = "sql" THEN Limiter!Greater(2, 2 * Limit - 1)
                                  ELSE 2 * Limit - 1
      BY <1>1, <1>5 DEF Limiter!MostInAWindow
    <3>3. QED
      BY <1>1, <3>1, <3>2 DEF Limiter!Greater
  <2>3. CASE bucket.here
    <3>1. Duration - 1 \in 0..(Duration - 1) /\ Young(admitted, Duration - 1) = admitted
      BY <1>1, <1>2 DEF Young
    <3>2. Duration * many + Tokens(bucket) <= Stock * Duration + (Duration - 1) * Limit
      BY <2>1, <2>3, <3>1 DEF TokenInv
    <3>3. Tokens(bucket) \in Nat
      BY <1>1, TokensType
    <3>4. /\ (Duration - 1) * Limit = Duration * Limit - Limit /\ Duration * Limit \in Nat
          /\ Stock * Duration \in Nat /\ Duration * many \in Nat
          /\ Stock * Duration = Duration * Stock
      BY <1>1, <1>2, <2>1, Product, OneMore
    <3>5. Duration * many < Duration * Stock + Duration * Limit
      BY <1>1, <3>2, <3>3, <3>4
    <3>6. many < Stock + Limit
      <4>1. SUFFICES ASSUME many >= Stock + Limit PROVE FALSE
        BY <1>1, <1>2, <2>1
      <4>2. Duration * (Stock + Limit) <= Duration * many
        BY <1>1, <1>2, <2>1, <4>1, Monotone
      <4>3. Duration * (Stock + Limit) = Duration * Stock + Duration * Limit
        BY <1>1, <2>1
      <4> HIDE DEF many
      <4>4. QED
        BY <1>1, <3>4, <3>5, <4>2, <4>3
    <3>7. CASE limiterOn = "memory"
      BY <1>1, <1>2, <1>5, <3>6, <3>7 DEF Limiter!MostInAWindow, Stock
    <3>8. CASE limiterOn = "sql"
      BY <1>1, <1>2, <1>5, <3>6, <3>8 DEF Limiter!MostInAWindow, Stock, Limiter!Greater
    <3>9. QED
      BY <1>1, <3>7, <3>8
  <2>4. QED
    BY <2>2, <2>3
<1>6. QED
  BY <1>1, <1>3, <1>4, <1>5

\* Who waits for the end of the window, for the oldest call to leave it, or for the missing
\* tokens, finds room.
LEMMA RetryHolds == LimiterInv => RetryAfterHonest
<1> SUFFICES ASSUME LimiterInv, told = 0, Limiter!Atomic, NEW c \in Clients
             PROVE  /\ limiterOn = "memory" => Limiter!InMemory(bucket, c).allowed
                    /\ limiterOn = "sql" /\ strategy = "fixed-window" =>
                           Limiter!InSql(bucket, bucket, c).allowed
  BY DEF RetryAfterHonest, Limiter!RetryAfterHonest
<1>1. /\ Limit \in Nat \ {0} /\ Duration \in Nat \ {0} /\ LimiterBase
      /\ strategy \in {"fixed-window", "sliding-window", "token-bucket"} /\ told <= Duration
      /\ bucket.here
  BY Rule DEF LimiterInv, Limiter!Strategies, LimiterBase
<1>2. CASE strategy = "fixed-window"
  <2>1. bucket.due <= 0
    BY <1>1, <1>2 DEF LimiterInv, FixedInv
  <2>2. PICK a : a = Limiter!Fixed(bucket)
    OBVIOUS
  <2>3. a.allowed
    <3>1. a.allowed <=> 1 <= Limit
      BY <1>1, <2>1, <2>2 DEF Limiter!Fixed
    <3>2. QED
      BY <1>1, <3>1
  <2>4. Limiter!InMemory(bucket, c).allowed
    BY <1>2, <2>2, <2>3 DEF Limiter!InMemory
  <2>5. PICK b : b = Limiter!SqlFixed(bucket, bucket)
    OBVIOUS
  <2>6. b.allowed
    BY <2>1, <2>5 DEF Limiter!SqlFixed
  <2>7. Limiter!InSql(bucket, bucket, c).allowed
    BY <1>2, <2>5, <2>6 DEF Limiter!InSql
  <2>8. QED
    BY <2>4, <2>7
<1>3. CASE strategy = "sliding-window"
  <2>1. SUFFICES ASSUME limiterOn = "memory" PROVE Limiter!InMemory(bucket, c).allowed
    BY <1>3
  <2> DEFINE kept == Limiter!Fresh(bucket.log)
  <2>2. PICK x \in bucket.log : Limiter!Age(x) >= Duration
    BY <1>1, <1>3, <2>1 DEF LimiterInv, SlidingInv
  <2>3. bucket.log \in SUBSET Bag /\ IsFiniteSet(bucket.log) /\ Limiter!Age(x) \in Nat
    BY <1>1 DEF LimiterBase, Buckets, Bag, Limiter!Age
  <2>4. kept \in SUBSET (bucket.log \ {x})
    BY <1>1, <2>2, <2>3 DEF Limiter!Fresh
  <2>5. /\ IsFiniteSet(bucket.log \ {x}) /\ Cardinality(bucket.log) \in Nat
        /\ Cardinality(bucket.log \ {x}) = Cardinality(bucket.log) - 1
    BY <2>2, <2>3, FS_RemoveElement, FS_CardinalityType
  <2>6. Cardinality(kept) \in Nat /\ Cardinality(kept) <= Cardinality(bucket.log \ {x})
    BY <2>4, <2>5, PartOfLog
  <2>7. Cardinality(kept) < Limit
    BY <1>1, <1>3, <2>1, <2>5, <2>6 DEF LimiterInv, SlidingInv
  <2>8. PICK a : a = Limiter!Sliding(bucket, c)
    OBVIOUS
  <2>9. a.allowed
    BY <1>1, <2>6, <2>7, <2>8, SameCount DEF Limiter!Sliding
  <2>10. QED
    BY <1>3, <2>8, <2>9 DEF Limiter!InMemory
<1>4. CASE strategy = "token-bucket"
  <2>1. SUFFICES ASSUME limiterOn = "memory" PROVE Limiter!InMemory(bucket, c).allowed
    BY <1>4
  <2>2. bucket.due <= 0 /\ Duration <= Tokens(bucket) + told * Limit
    BY <1>1, <1>4, <2>1 DEF LimiterInv, TokenInv
  <2>3. told * Limit = 0 /\ Tokens(bucket) \in Nat /\ Duration <= Tokens(bucket)
    BY <1>1, <2>2, TokensType
  <2>4. Tokens(bucket) = Limiter!Lesser(Limit * Duration, bucket.count + (-bucket.due) * Limit)
    <3>1. bucket.due \in Int
      BY <1>1 DEF LimiterBase, Buckets
    <3>2. Limiter!Greater(0, -bucket.due) = -bucket.due
      BY <2>2, <3>1 DEF Limiter!Greater
    <3>3. QED
      BY <3>2 DEF Tokens
  <2>5. PICK a : a = Limiter!Token(bucket)
    OBVIOUS
  <2>6. a.allowed <=> Tokens(bucket) >= Duration
    BY <1>1, <2>3, <2>4, <2>5 DEF Limiter!Token
  <2>7. a.allowed
    BY <1>1, <2>3, <2>6
  <2>8. QED
    BY <1>4, <2>5, <2>7 DEF Limiter!InMemory
<1>5. QED
  BY <1>1, <1>2, <1>3, <1>4

\* In whichever window one looks at a key, no more calls have been admitted than two
\* windows, or a full bucket and its refill, may let in: in the memory storage, and in the
\* SQL storage where calls do not overlap (memory.ts:64-147, drizzle.ts:64-206).
THEOREM LimitNeverExceeded == Limiter!Spec => []WindowLimit
BY LimiterInit, LimiterNext, LimitHolds, PTL DEF Limiter!Spec

\* Who was told to retry after so long and does, nobody else having called, is admitted
\* (memory.ts:84, 114, 142-144; drizzle.ts:159).
THEOREM RetryAlwaysHonest == Limiter!Spec => []RetryAfterHonest
BY LimiterInit, LimiterNext, RetryHolds, PTL DEF Limiter!Spec
==============================================================================

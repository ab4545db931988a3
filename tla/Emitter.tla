------------------------------- MODULE Emitter -------------------------------
(***************************************************************************)
(* NexusEventEmitter of packages/events/src/emitter.ts.  emit() takes the  *)
(* matching listeners once, then awaits their guards one after the other   *)
(* and the listeners one after the other; on(), off() and other emits may  *)
(* come in at each of these awaits.  emitSync() awaits nothing.            *)
(*                                                                         *)
(* Guards and listeners are the program's: what they come to is left open. *)
(* The array of listeners is kept sorted; here it is a set whose order is  *)
(* Before, and so is every part of it that emit() works through.           *)
(***************************************************************************)
EXTENDS Naturals, FiniteSets

CONSTANTS Emits,       \* calls of emit() that may be under way together
          Patterns, Names,
          Matching,    \* Matching[pattern]: the names that compilePattern() lets it match
          Priorities,
          MaxPerPattern,
          MaxId        \* bound: listeners ever registered

VARIABLES throwOnError,  \* parameter: EventsConfig.throwOnError
          calm,          \* parameter: no emit overlaps another, and listeners
                         \* that return promises are left to emit()
          listeners,     \* #listeners
          nextId,        \* #nextId
          emit,          \* where each emit() is
          fired,         \* history: the once-listeners that were called
          refired        \* history: one of them was called again

vars == <<throwOnError, calm, listeners, nextId, emit, fired, refired>>
calls == <<fired, refired>>
fixed == <<throwOnError, calm>>

Idle == [at |-> "idle"]

Init ==
    /\ throwOnError \in BOOLEAN /\ calm \in BOOLEAN
    /\ listeners = {} /\ nextId = 1
    /\ emit = [e \in Emits |-> Idle]
    /\ fired = {} /\ refired = FALSE

------------------------------------------------------------------------------
(* on(), once(), off() *)

\* The stable sort: by priority, then in the order of registration.
Before(l, m) == l.priority < m.priority \/ (l.priority = m.priority /\ l.id < m.id)

IsFirst(l, ls) == l \in ls /\ \A m \in ls \ {l} : Before(l, m)

Of(pattern) == {l \in listeners : l.pattern = pattern}

On(pattern, priority, once, guarded) ==
    /\ nextId <= MaxId
    /\ Cardinality(Of(pattern)) < MaxPerPattern
    /\ listeners' = listeners \union
           {[id |-> nextId, pattern |-> pattern, priority |-> priority,
             once |-> once, guarded |-> guarded]}
    /\ nextId' = nextId + 1
    /\ UNCHANGED <<fixed, emit, calls>>

Without(ids) == {l \in listeners : l.id \notin ids}
Ids(ls)      == {l.id : l \in ls}

\* By id, or all of a pattern.
Off(ids) ==
    /\ ids # {} /\ ids \subseteq Ids(listeners)
    /\ listeners' = Without(ids)
    /\ UNCHANGED <<fixed, nextId, emit, calls>>

OffId(i)            == Off({i})
OffPattern(pattern) == Off(Ids(Of(pattern)))

------------------------------------------------------------------------------
(* emit() *)

Quiet == \A e \in Emits : emit[e] = Idle
MayEmit == calm => Quiet
Matches(name) == {l \in listeners : name \in Matching[l.pattern]}
Once(ls) == Ids({l \in ls : l.once})
Called(ls) ==
    /\ fired' = fired \union Once(ls)
    /\ refired' = (refired \/ Once(ls) \intersect fired # {})

\* The next listener is called, of those that wait for it.
Dispatch(e, waiting, gone) ==
    \E l \in waiting :
        /\ IsFirst(l, waiting)
        /\ emit' = [emit EXCEPT ![e] = [at |-> "listener", now |-> l, eligible |-> waiting \ {l},
                                        gone |-> gone]]
        /\ Called({l})
        /\ UNCHANGED listeners

\* A call runs on to its next await: the next guard, or, when all listeners have
\* passed theirs, the call of the first of them, or its end.
Go(e, todo, eligible) ==
    LET guarded == {l \in todo : l.guarded}
    IN  \/ \E l \in guarded :
              /\ IsFirst(l, guarded)
              /\ emit' = [emit EXCEPT ![e] =
                     [at |-> "guard", now |-> l, todo |-> {m \in todo : Before(l, m)},
                      eligible |-> eligible \union {m \in todo : Before(m, l)}]]
              /\ UNCHANGED <<listeners, calls>>
        \/ guarded = {} /\ Dispatch(e, eligible \union todo, {})
        \/ /\ guarded = {} /\ eligible \union todo = {}
           /\ emit' = [emit EXCEPT ![e] = Idle]
           /\ UNCHANGED <<listeners, calls>>

Emit(e, name) ==
    /\ emit[e] = Idle /\ MayEmit /\ Matches(name) # {}
    /\ Go(e, Matches(name), {})
    /\ UNCHANGED <<fixed, nextId>>

\* A guard is false or throws, or lets the listener be called.
Guard(e, ok) ==
    /\ emit[e].at = "guard"
    /\ Go(e, emit[e].todo, emit[e].eligible \union (IF ok THEN {emit[e].now} ELSE {}))
    /\ UNCHANGED <<fixed, nextId>>

\* What follows on a listener: the error is thrown on, which ends the call, and
\* nothing is removed; or the next one; or the end, where those for once go.
Proceed(e, thrown, gone) ==
    /\ emit[e].at = "listener"
    /\ \/ /\ thrown
          /\ emit' = [emit EXCEPT ![e] = Idle]
          /\ UNCHANGED <<listeners, calls>>
       \/ ~thrown /\ Dispatch(e, emit[e].eligible, gone)
       \/ /\ ~thrown /\ emit[e].eligible = {}
          /\ emit' = [emit EXCEPT ![e] = Idle]
          /\ listeners' = Without(gone)
          /\ UNCHANGED calls
    /\ UNCHANGED <<fixed, nextId>>

\* Mutant: a once-listener that fails is kept.
ListenerKept(e, ok) ==
    Proceed(e, ~ok /\ throwOnError, emit[e].gone \union (IF ok THEN Once({emit[e].now}) ELSE {}))

\* A listener returns or fails.
Listener(e, ok) ==
    Proceed(e, ~ok /\ throwOnError, emit[e].gone \union Once({emit[e].now}))

\* emitSync(): all of it at once.  Some are kept out by their guard; of those
\* called, some return promises, which settle too late to be removed.
EmitSync(name, out, promised) ==
    /\ MayEmit /\ Matches(name) # {}
    /\ out \subseteq Ids({l \in Matches(name) : l.guarded})
    /\ promised \subseteq Ids(Matches(name)) \ out /\ (calm => promised = {})
    /\ LET called == {l \in Matches(name) : l.id \notin out}
       IN  /\ Called(called)
           /\ listeners' = Without(Once(called) \ promised)
    /\ UNCHANGED <<fixed, nextId, emit>>

Next ==
    \/ \E p \in Patterns, n \in Priorities, once, guarded \in BOOLEAN : On(p, n, once, guarded)
    \/ \E i \in 1..MaxId : OffId(i)
    \/ \E p \in Patterns : OffPattern(p)
    \/ \E e \in Emits, name \in Names : Emit(e, name)
    \/ \E e \in Emits, ok \in BOOLEAN : Guard(e, ok) \/ Listener(e, ok)
    \/ \E name \in Names, out, promised \in SUBSET (1..MaxId) : EmitSync(name, out, promised)

Spec == Init /\ [][Next]_vars

------------------------------------------------------------------------------
(* Properties *)

\* A once-listener is called at most once, whether it succeeds, fails or is kept
\* out by its guard at first, and whatever is registered and removed during the
\* awaits: where emits do not overlap, and no error is thrown on
\* (emitter.ts:159-197, 213-268).
OnceFiresOnce == refired => throwOnError \/ ~calm

\* docs/user-guide/events.md:136 of a listener with { once: true }: "Runs exactly
\* once."
RunsOnce == ~refired
==============================================================================

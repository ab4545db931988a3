------------------------------ MODULE Container ------------------------------
(***************************************************************************)
(* The dependency injection containers of packages/core/src/di: the        *)
(* scanner gives each module a container whose parent is the root, and     *)
(* exports become factories of the root (scanner.ts); resolve() and        *)
(* instantiate() call each other down the dependencies (container.ts); a   *)
(* request has a cache of its own (request-scope.ts).                      *)
(*                                                                         *)
(* One call of resolve() runs without interruption; its recursion is kept  *)
(* as a stack of frames.  Several requests call it in turn.  A provider is *)
(* a scope and its dependencies; classes, factories and values differ only *)
(* in how they list them, so that here the order of dependencies is left   *)
(* open.  Tokens whose value is undefined are left out.                    *)
(***************************************************************************)
EXTENDS Naturals, Sequences, ContainerGraphs

VARIABLES graph,       \* parameter: per module, its providers and exports
          scanned,     \* modules the scanner is done with
          exported,    \* the exports registered with the root
          singletons,  \* DIContainer.singletons, of modules and root
          shared,      \* the container of each request: its `singletons`
          resolving,   \* DIContainer.resolving
          stack,       \* the frames of the current resolve()
          todo,        \* what the top of the stack does next
          asked,       \* the current call: container, token, and the request
                       \* that AsyncLocalStorage holds
          answer,      \* what the last call has come to
          remade       \* history: an instance that was kept has been replaced

vars == <<graph, scanned, exported, singletons, shared, resolving, stack, todo,
          asked, answer, remade>>

Containers == Modules \union {"root"}
Pairs      == Containers \X Tokens
None       == [of |-> <<>>, reach |-> {}]
Idle       == [do |-> "idle"]
NoAnswer   == [kind |-> "none"]

Init ==
    /\ graph \in Graphs
    /\ scanned = {} /\ exported = <<>>
    /\ singletons = [p \in Pairs |-> None]
    /\ shared = [r \in Requests |-> [t \in Tokens |-> None]]
    /\ resolving = {} /\ stack = <<>> /\ todo = Idle
    /\ asked = <<>> /\ answer = NoAnswer
    /\ remade = FALSE

------------------------------------------------------------------------------
(* Scanning.  Which order the imports impose is left open. *)

\* scanModule(): the module's container, and those of its exports which the
\* root does not have already.
Scan(m) ==
    /\ m \notin scanned
    /\ scanned' = scanned \union {m}
    /\ exported' = [t \in DOMAIN exported \union graph[m].exports |->
                       IF t \in DOMAIN exported THEN exported[t] ELSE m]
    /\ UNCHANGED <<graph, singletons, shared, resolving, stack, todo, asked, answer, remade>>

\* The record of a token in a container: an export is a singleton factory that
\* returns what the module's container resolves.
Registered(c, t) ==
    IF c = "root" THEN t \in DOMAIN exported
    ELSE c \in scanned /\ t \in DOMAIN graph[c].providers

Scope(c, t)    == IF c = "root" THEN "singleton" ELSE graph[c].providers[t].scope
Forwards(c)    == c = "root"
Deps(c, t)     == IF c = "root" THEN {<<exported[t], t>>}
                  ELSE {<<c, d>> : d \in graph[c].providers[t].deps}
Optional(c, t) == IF c = "root" THEN {}
                  ELSE {<<c, d>> : d \in graph[c].providers[t].optional}

------------------------------------------------------------------------------
(* resolve() and instantiate() *)

Top     == stack[Len(stack)]
Popped  == SubSeq(stack, 1, Len(stack) - 1)
Put(f)  == [stack EXCEPT ![Len(stack)] = f]
request == asked[3]
Scoped(c, t) == Registered(c, t) /\ Scope(c, t) = "request" /\ request # Outside

\* What resolve() finds before it instantiates anything.
Cached(c, t) == IF singletons[<<c, t>>] = None /\ Scoped(c, t)
                THEN shared[request][t] ELSE singletons[<<c, t>>]

Frame(c, t, left) == [c |-> c, t |-> t, left |-> left, reach |-> {}, got |-> None,
                      now |-> <<>>]

Returns(inst) == todo' = [do |-> "return", inst |-> inst]
Throws(err)   == todo' = [do |-> "throw", err |-> err]
Calls(c, t)   == todo' = [do |-> "call", c |-> c, t |-> t]

Rest == UNCHANGED <<graph, scanned, exported, asked>>

Resolve(c, t, r) ==
    /\ todo = Idle /\ scanned = Modules
    /\ asked' = <<c, t, r>>
    /\ Calls(c, t)
    /\ answer' = NoAnswer
    /\ UNCHANGED <<graph, scanned, exported, singletons, shared, resolving, stack, remade>>

Calling == todo.do = "call"

Circular ==
    /\ Calling /\ <<todo.c, todo.t>> \in resolving
    /\ Throws("circular")
    /\ Rest /\ UNCHANGED <<singletons, shared, resolving, stack, answer, remade>>

Hit ==
    /\ Calling /\ <<todo.c, todo.t>> \notin resolving
    /\ Cached(todo.c, todo.t) # None
    /\ Returns(Cached(todo.c, todo.t))
    /\ Rest /\ UNCHANGED <<singletons, shared, resolving, stack, answer, remade>>

\* A token without a record is asked of the parent.
Miss ==
    /\ Calling /\ ~Registered(todo.c, todo.t)
    /\ IF todo.c = "root" THEN Throws("missing") /\ UNCHANGED stack
       ELSE Calls("root", todo.t) /\ stack' = Append(stack, Frame("parent", todo.t, {}))
    /\ Rest /\ UNCHANGED <<singletons, shared, resolving, answer, remade>>

\* Mutant: the cache of the request is filled and not looked at.
EnterAnew ==
    /\ Calling /\ <<todo.c, todo.t>> \notin resolving
    /\ Registered(todo.c, todo.t)
    /\ Cached(todo.c, todo.t) = None \/ Scoped(todo.c, todo.t)
    /\ IF Len(stack) >= MaxDepth
       THEN Throws("overflow") /\ UNCHANGED <<stack, resolving>>
       ELSE /\ todo' = [do |-> "work"]
            /\ stack' = Append(stack, Frame(todo.c, todo.t, Deps(todo.c, todo.t)))
            /\ resolving' = IF Scoped(todo.c, todo.t) THEN resolving
                            ELSE resolving \union {<<todo.c, todo.t>>}
    /\ Rest /\ UNCHANGED <<singletons, shared, answer, remade>>

\* instantiate() begins; only outside the request path is the token marked as
\* being resolved.
Enter ==
    /\ Calling /\ <<todo.c, todo.t>> \notin resolving
    /\ Registered(todo.c, todo.t) /\ Cached(todo.c, todo.t) = None
    /\ IF Len(stack) >= MaxDepth
       THEN Throws("overflow") /\ UNCHANGED <<stack, resolving>>
       ELSE /\ todo' = [do |-> "work"]
            /\ stack' = Append(stack, Frame(todo.c, todo.t, Deps(todo.c, todo.t)))
            /\ resolving' = IF Scoped(todo.c, todo.t) THEN resolving
                            ELSE resolving \union {<<todo.c, todo.t>>}
    /\ Rest /\ UNCHANGED <<singletons, shared, answer, remade>>

\* The next dependency.
Inject ==
    /\ todo.do = "work" /\ Top.left # {}
    /\ \E d \in Top.left :
          /\ stack' = Put([Top EXCEPT !.left = @ \ {d}, !.now = d])
          /\ Calls(d[1], d[2])
    /\ Rest /\ UNCHANGED <<singletons, shared, resolving, answer, remade>>

\* What the frame returns: its dependency, or a new instance.  An instance
\* reaches the requests whose instances it holds.
Product ==
    LET p == <<Top.c, Top.t>>
    IN  IF Forwards(Top.c) THEN Top.got
        ELSE [of |-> p,
              reach |-> Top.reach \union (IF Scoped(Top.c, Top.t) THEN {request} ELSE {})]

\* The cell that is to be filled has been filled since the call found it empty.
Refills == Cached(Top.c, Top.t) # None

\* Mutant: transient instances are kept as well.
FinishKeepsAll ==
    /\ todo.do = "work" /\ Top.left = {}
    /\ Returns(Product)
    /\ singletons' = [singletons EXCEPT ![<<Top.c, Top.t>>] = Product]
    /\ remade' = (remade \/ Refills)
    /\ resolving' = resolving \ {<<Top.c, Top.t>>}
    /\ stack' = Popped
    /\ Rest /\ UNCHANGED <<shared, answer>>

\* instantiate() returns, and the instance is kept as long as its scope says.
Finish ==
    /\ todo.do = "work" /\ Top.left = {}
    /\ Returns(Product)
    /\ IF Scoped(Top.c, Top.t)
       THEN /\ shared' = [shared EXCEPT ![request][Top.t] = Product]
            /\ UNCHANGED <<singletons, resolving>>
       ELSE /\ singletons' = IF Scope(Top.c, Top.t) = "singleton"
                             THEN [singletons EXCEPT ![<<Top.c, Top.t>>] = Product]
                             ELSE singletons
            /\ resolving' = resolving \ {<<Top.c, Top.t>>}
            /\ UNCHANGED shared
    /\ remade' = (remade \/ Refills)
    /\ stack' = Popped
    /\ Rest /\ UNCHANGED answer

\* A call comes back to the frame that made it.
Return ==
    /\ todo.do = "return" /\ stack # <<>>
    /\ IF Top.c = "parent" THEN stack' = Popped /\ UNCHANGED todo
       ELSE /\ stack' = Put([Top EXCEPT !.reach = @ \union todo.inst.reach, !.got = todo.inst])
            /\ todo' = [do |-> "work"]
    /\ Rest /\ UNCHANGED <<singletons, shared, resolving, answer, remade>>

\* Mutant: the mark is left behind by an exception.
ThrowMarked ==
    /\ todo.do = "throw" /\ stack # <<>>
    /\ IF Top.c # "parent" /\ Top.now \in Optional(Top.c, Top.t)
       THEN todo' = [do |-> "work"] /\ UNCHANGED stack
       ELSE /\ stack' = Popped
            /\ Throws(IF Top.c = "parent" THEN "missing" ELSE todo.err)
    /\ Rest /\ UNCHANGED <<singletons, shared, resolving, answer, remade>>

\* An exception: the parent's is replaced, that of an optional dependency is
\* swallowed by tryResolve(), and any other clears the mark on its way up.
Throw ==
    /\ todo.do = "throw" /\ stack # <<>>
    /\ IF Top.c # "parent" /\ Top.now \in Optional(Top.c, Top.t)
       THEN todo' = [do |-> "work"] /\ UNCHANGED <<stack, resolving>>
       ELSE /\ stack' = Popped
            /\ Throws(IF Top.c = "parent" THEN "missing" ELSE todo.err)
            /\ resolving' = IF Top.c = "parent" \/ Scoped(Top.c, Top.t) THEN resolving
                            ELSE resolving \ {<<Top.c, Top.t>>}
    /\ Rest /\ UNCHANGED <<singletons, shared, answer, remade>>

\* The call of the program is answered.
Answer ==
    /\ todo.do \in {"return", "throw"} /\ stack = <<>>
    /\ answer' = IF todo.do = "return" THEN [kind |-> "instance", inst |-> todo.inst]
                 ELSE [kind |-> todo.err]
    /\ todo' = Idle
    /\ Rest /\ UNCHANGED <<singletons, shared, resolving, stack, remade>>

Next ==
    \/ \E m \in Modules : Scan(m)
    \/ \E c \in Containers, t \in Tokens, r \in Requests \union {Outside} : Resolve(c, t, r)
    \/ Circular \/ Hit \/ Miss \/ Enter \/ Inject \/ Finish \/ Return \/ Throw \/ Answer

Spec == Init /\ [][Next]_vars

------------------------------------------------------------------------------
(* Properties *)

Target(p) == IF Registered(p[1], p[2]) THEN p ELSE <<"root", p[2]>>
Needs(p)  == {Target(d) : d \in Deps(p[1], p[2]) \ Optional(p[1], p[2])}

Known == {p \in Pairs : Registered(p[1], p[2])}

\* Nothing can be made of a provider from which needed dependencies lead to a
\* token nobody provides or go round in a circle.
Hopeless(p) ==
    p \notin Known \/ \E X \in SUBSET Known :
        p \in X /\ \A x \in X : \E q \in Needs(x) : q \in X \/ q \notin Known

\* The provider that makes the instance: exports only forward to it.
Maker(p) == IF Forwards(p[1]) THEN <<exported[p[2]], p[2]>> ELSE p

\* Two modules provide the token once per request: they share the request's cell.
Clash(t) ==
    \E c, d \in Modules :
        c # d /\ \A m \in {c, d} : Registered(m, t) /\ Scope(m, t) = "request"

\* resolve() answers with an instance exactly when there is one to be had, and
\* the instance is of the container's own provider, or of the first export:
\* whatever was resolved before, cached, attempted in vain or swallowed by
\* tryResolve(), and whichever order modules and dependencies come in; and
\* afterwards nothing is marked as being resolved.  Only where two modules share
\* a cell may what another module has made be answered instead, for a provider
\* of which nothing can be made even (container.ts:186-259; scanner.ts:83-122).
AnswersRight ==
    answer # NoAnswer =>
        LET p == Target(<<asked[1], asked[2]>>)
        IN  /\ answer.kind # "instance" => Hopeless(p)
            /\ answer.kind = "instance" => ~Hopeless(p) \/ \E t \in Tokens : Clash(t)
            /\ answer.kind = "instance" => Clash(p[2]) \/ answer.inst.of = Maker(p)
            /\ resolving = {}

\* Providers that come back to themselves, or lead to some that do.
Circles(p) ==
    \E X \in SUBSET Known :
        p \in X /\ \A x \in X : \E d \in Deps(x[1], x[2]) : Target(d) \in X

\* A container makes one instance of a singleton for ever, and a request one of a
\* request-scoped provider, although the cache is filled only after everything
\* the instance needs was resolved, perhaps through other containers.  Not so
\* where a provider depends on itself and a request makes it, a path on which
\* resolve() marks nothing, or where two modules share a cell (container.ts:195-211, 240-246).
OneInstance ==
    remade => \/ \E p \in Known : Circles(p) /\ Scope(p[1], p[2]) = "request"
              \/ \E t \in Tokens : Clash(t)

\* What is kept beyond a request: singletons, and exports.
Held(p) == Scope(p[1], p[2]) = "singleton"

\* Nothing of a request is held by what outlives it.
NothingHeld ==
    \A p \in Known : Held(p) =>
        \A d \in Deps(p[1], p[2]) : Target(d) \in Known => Held(Target(d))

\* What a request is given holds no instance made for another request, as long
\* as no singleton and no export depends on a provider of a shorter life
\* (container.ts:198-211; request-middleware.ts:60-65).
IsolatedUnlessHeld ==
    answer.kind = "instance" /\ NothingHeld => answer.inst.reach \subseteq {asked[3]}

\* docs/user-guide/request-scope.md:103 of a provider of scope `request` in
\* "Different requests": "Different instances"; its example injects one into a
\* singleton.
RequestIsolated ==
    answer.kind = "instance" => answer.inst.reach \subseteq {asked[3]}
==============================================================================

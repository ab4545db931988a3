--------------------------- MODULE ContainerProofs ---------------------------
(***************************************************************************)
(* Proofs about Container, for any modules, tokens and requests, and any   *)
(* declarations of modules: the depth of the recursion, circles, optional  *)
(* dependencies and exceptions are as they come.                           *)
(*                                                                         *)
(* The stack of frames carries the argument.  Each frame was called by the *)
(* one below, for a dependency of what that one is at work on; what every  *)
(* property says of instances, marks and exceptions is said of each frame. *)
(***************************************************************************)
EXTENDS Container, FiniteSetTheorems, SequenceTheorems, TLAPS

------------------------------------------------------------------------------
(* Types, and the stack of frames *)

Insts  == [of : Pairs \union {<<>>}, reach : SUBSET Requests]
Frames == [c : Containers \union {"parent"}, t : Tokens, left : SUBSET Pairs,
           reach : SUBSET Requests, got : Insts, now : Pairs \union {<<>>}]
Todos  == [do : {"idle", "work"}] \union [do : {"call"}, c : Containers, t : Tokens]
          \union [do : {"return"}, inst : Insts]
          \union [do : {"throw"}, err : {"circular", "missing", "overflow"}]

\* Nothing is asked before every module was scanned.
Typed ==
    /\ graph \in Graphs /\ scanned \subseteq Modules
    /\ DOMAIN exported \subseteq Tokens /\ \A t \in DOMAIN exported : exported[t] \in Modules
    /\ singletons \in [Pairs -> Insts] /\ shared \in [Requests -> [Tokens -> Insts]]
    /\ resolving \subseteq Pairs /\ stack \in Seq(Frames) /\ todo \in Todos
    /\ IF todo.do = "idle" THEN stack = <<>>
       ELSE scanned = Modules /\ request \in Requests \union {Outside}
    /\ todo.do = "work" => stack # <<>> /\ Top.c # "parent"
    /\ scanned # Modules => /\ \A p \in Pairs : singletons[p] = None
                            /\ \A r \in Requests, t \in Tokens : shared[r][t] = None
                            /\ answer = NoAnswer /\ ~remade

\* What a frame is at work on, what it has asked for, and whether it may have.
Goal(f) == IF f.c = "parent" THEN <<"root", f.t>> ELSE <<f.c, f.t>>
Aim(f)  == IF f.c = "parent" THEN <<"root", f.t>> ELSE Target(f.now)
Leads(f, q) == q = Aim(f) /\ (f.c # "parent" => f.now \in Deps(f.c, f.t))
Fits(f) == f.c # "parent" => Registered(f.c, f.t) /\ f.left \subseteq Deps(f.c, f.t)
Link(f, g) == Leads(f, Goal(g)) /\ (f.c = "parent" => g.c # "parent")

\* Each frame was called by the one below.
Linked ==
    /\ \A i \in 1..Len(stack) : Fits(stack[i])
    /\ \A i \in 1..(Len(stack) - 1) : Link(stack[i], stack[i + 1])
    /\ todo.do = "call" /\ stack # <<>> =>
          Leads(Top, Target(<<todo.c, todo.t>>)) /\ (Top.c = "parent" => todo.c = "root")

\* What was scanned does not change while something is resolved.
LEMMA Fixed ==
  ASSUME UNCHANGED <<graph, scanned, exported>>
  PROVE  /\ \A c, t : (Registered(c, t)' <=> Registered(c, t)) /\ Scope(c, t)' = Scope(c, t)
                      /\ Deps(c, t)' = Deps(c, t)
         /\ \A p : Target(p)' = Target(p)
         /\ \A f : Fits(f)' <=> Fits(f)
         /\ \A f, q : Leads(f, q)' <=> Leads(f, q)
         /\ \A f, g : Link(f, g)' <=> Link(f, g)
<1>1. \A c, t : (Registered(c, t)' <=> Registered(c, t)) /\ Scope(c, t)' = Scope(c, t)
                      /\ Deps(c, t)' = Deps(c, t)
  BY DEF Registered, Scope, Deps
<1>2. \A p : Target(p)' = Target(p)
  BY <1>1 DEF Target
<1>3. \A f : Fits(f)' <=> Fits(f)
  BY <1>1 DEF Fits
<1>4. \A f, q : Leads(f, q)' <=> Leads(f, q)
  BY <1>1, <1>2 DEF Leads, Aim
<1>5. \A f, g : Link(f, g)' <=> Link(f, g)
  BY <1>4 DEF Link, Goal
<1> QED BY <1>1, <1>2, <1>3, <1>4, <1>5

\* The operations on the stack.
LEMMA Stacks ==
  ASSUME stack \in Seq(Frames)
  PROVE  /\ Len(stack) \in Nat /\ (stack # <<>> <=> Len(stack) > 0)
         /\ \A i \in 1..Len(stack) : stack[i] \in Frames
         /\ stack # <<>> => /\ Top \in Frames /\ Top = stack[Len(stack)]
                            /\ Popped \in Seq(Frames) /\ Len(Popped) = Len(stack) - 1
                            /\ \A i \in 1..(Len(stack) - 1) : Popped[i] = stack[i]
         /\ \A f \in Frames :
               /\ Append(stack, f) \in Seq(Frames) /\ Len(Append(stack, f)) = Len(stack) + 1
               /\ Append(stack, f)[Len(stack) + 1] = f
               /\ \A i \in 1..Len(stack) : Append(stack, f)[i] = stack[i]
               /\ stack # <<>> => /\ Put(f) \in Seq(Frames) /\ Len(Put(f)) = Len(stack)
                                  /\ Put(f)[Len(stack)] = f
                                  /\ \A i \in 1..(Len(stack) - 1) : Put(f)[i] = stack[i]
<1>1. Len(stack) \in Nat /\ (stack # <<>> <=> Len(stack) > 0)
        /\ \A i \in 1..Len(stack) : stack[i] \in Frames
  BY EmptySeq, LenProperties, ElementOfSeq
<1>2. ASSUME stack # <<>>
      PROVE  /\ Top \in Frames /\ Top = stack[Len(stack)]
             /\ Popped \in Seq(Frames) /\ Len(Popped) = Len(stack) - 1
             /\ \A i \in 1..(Len(stack) - 1) : Popped[i] = stack[i]
  <2>1. stack[Len(stack)] \in Frames
    BY <1>1, <1>2
  <2>2. \A i \in 1..(Len(stack) - 1) : stack[i] \in Frames
    BY <1>1
  <2>3. Popped \in Seq(Frames) /\ Len(Popped) = Len(stack) - 1
        /\ \A i \in 1..(Len(stack) - 1) : Popped[i] = stack[i]
    <3>1. PICK n : n = Len(stack) - 1 /\ n \in Int /\ n >= 0 /\ \A i \in 1..n : stack[i] \in Frames
      BY <1>1, <1>2, <2>2
    <3>2. /\ SubSeq(stack, 1, n) \in Seq(Frames)
               /\ Len(SubSeq(stack, 1, n)) = IF 1 <= n THEN n - 1 + 1 ELSE 0
          /\ \A i \in 1..(n - 1 + 1) : SubSeq(stack, 1, n)[i] = stack[1 + i - 1]
      BY <3>1, SubSeqProperties
    <3> QED BY <1>1, <3>1, <3>2 DEF Popped
  <2> QED BY <2>1, <2>3 DEF Top
<1>3. ASSUME NEW f \in Frames
      PROVE  /\ Append(stack, f) \in Seq(Frames) /\ Len(Append(stack, f)) = Len(stack) + 1
             /\ Append(stack, f)[Len(stack) + 1] = f
             /\ \A i \in 1..Len(stack) : Append(stack, f)[i] = stack[i]
  BY <1>1, AppendProperties
<1>4. ASSUME NEW f \in Frames, stack # <<>>
      PROVE  /\ Put(f) \in Seq(Frames) /\ Len(Put(f)) = Len(stack)
             /\ Put(f)[Len(stack)] = f
             /\ \A i \in 1..(Len(stack) - 1) : Put(f)[i] = stack[i]
  BY <1>1, <1>4, ExceptSeq DEF Put
<1> QED BY <1>1, <1>2, <1>3, <1>4

Still == UNCHANGED <<graph, scanned, exported, asked>>

\* What the operations on the stack do to its links.
LEMMA KeepLinked ==
  ASSUME Typed, Linked, Still, UNCHANGED stack, todo'.do # "call"
  PROVE  Linked'
  BY Fixed DEF Linked, Still

\* A frame that is left.
LEMMA PopLinked ==
  ASSUME Typed, Linked, Still, stack # <<>>, stack' = Popped, todo'.do # "call"
  PROVE  Linked'
<1>1. /\ Len(stack) \in Nat /\ Len(stack') = Len(stack) - 1 /\ Len(stack) > 0
      /\ \A i \in 1..(Len(stack) - 1) : stack'[i] = stack[i]
  BY Stacks DEF Typed
<1>2. ASSUME NEW i \in 1..Len(stack') PROVE Fits(stack[i])'
  <2>1. PICK f : f = stack[i]
    OBVIOUS
  <2>2. stack'[i] = f /\ Fits(f)
    BY <1>1, <2>1 DEF Linked
  <2> QED BY <2>2, Fixed DEF Still
<1>3. ASSUME NEW i \in 1..(Len(stack') - 1) PROVE Link(stack[i], stack[i + 1])'
  <2>1. PICK f, g : f = stack[i] /\ g = stack[i + 1]
    OBVIOUS
  <2>2. stack'[i] = f /\ stack'[i + 1] = g /\ Link(f, g)
    BY <1>1, <2>1 DEF Linked
  <2> QED BY <2>2, Fixed DEF Still
<1> QED BY <1>2, <1>3 DEF Linked

\* A frame that goes on with its next dependency, or with what it was given.
LEMMA PutLinked ==
  ASSUME Typed, Linked, Still, stack # <<>>, NEW f \in Frames, stack' = Put(f),
         f.c = Top.c, f.t = Top.t, f.left \subseteq Top.left,
         todo'.do = "call" =>
             Leads(f, Target(<<todo'.c, todo'.t>>)) /\ (f.c = "parent" => todo'.c = "root")
  PROVE  Linked'
<1>1. /\ Len(stack) \in Nat /\ Len(stack') = Len(stack) /\ Len(stack) > 0
      /\ stack'[Len(stack)] = f
      /\ \A i \in 1..(Len(stack) - 1) : stack'[i] = stack[i]
  BY Stacks DEF Typed
<1>2. PICK g : g = Top /\ g = stack[Len(stack)] /\ Fits(g) /\ f.c = g.c /\ f.t = g.t
             /\ f.left \subseteq g.left
  BY <1>1 DEF Linked, Top
<1>3. Fits(f) /\ Goal(f) = Goal(g) /\ \A q : Link(q, g) => Link(q, f)
  BY <1>2 DEF Fits, Goal, Link
<1>4. ASSUME NEW i \in 1..Len(stack') PROVE Fits(stack[i])'
  <2>1. PICK q : q = stack'[i]
    OBVIOUS
  <2>2. Fits(q)
    BY <1>1, <1>3, <2>1 DEF Linked
  <2> QED BY <2>1, <2>2, Fixed DEF Still
<1>5. ASSUME NEW i \in 1..(Len(stack') - 1) PROVE Link(stack[i], stack[i + 1])'
  <2>1. PICK q, r : q = stack'[i] /\ r = stack'[i + 1]
    OBVIOUS
  <2>2. q = stack[i] /\ Link(q, stack[i + 1]) /\ (i + 1 < Len(stack) => r = stack[i + 1])
        /\ (i + 1 = Len(stack) => r = f)
    BY <1>1, <2>1 DEF Linked
  <2>3. i + 1 < Len(stack) \/ i + 1 = Len(stack)
    BY <1>1
  <2>4. Link(q, r)
    BY <1>2, <1>3, <2>2, <2>3
  <2> QED BY <2>1, <2>4, Fixed DEF Still
<1>6. ASSUME todo'.do = "call"
      PROVE  Leads(Top, Target(<<todo.c, todo.t>>))' /\ (Top'.c = "parent" => todo'.c = "root")
  <2>1. Top' = f
    BY <1>1 DEF Top
  <2>2. PICK c, t : c = todo'.c /\ t = todo'.t
    OBVIOUS
  <2>3. PICK q : q = Target(<<c, t>>) /\ q = Target(<<c, t>>)'
    BY Fixed DEF Still
  <2>4. Leads(f, q)'
    BY <1>6, <2>2, <2>3, Fixed DEF Still
  <2> QED BY <1>6, <2>1, <2>2, <2>3, <2>4
<1> QED BY <1>4, <1>5, <1>6 DEF Linked

\* A frame for what the one below has asked for.
LEMMA PushLinked ==
  ASSUME Typed, Linked, Still, NEW f \in Frames, stack' = Append(stack, f),
         Fits(f), todo.do = "call", Goal(f) = Target(<<todo.c, todo.t>>),
         todo.c = "root" => f.c # "parent",
         todo'.do = "call" =>
             Leads(f, Target(<<todo'.c, todo'.t>>)) /\ (f.c = "parent" => todo'.c = "root")
  PROVE  Linked'
<1>1. /\ Len(stack) \in Nat /\ Len(stack') = Len(stack) + 1
      /\ stack'[Len(stack) + 1] = f /\ (stack # <<>> <=> Len(stack) > 0)
      /\ \A i \in 1..Len(stack) : stack'[i] = stack[i]
  BY Stacks DEF Typed
<1>4. ASSUME NEW i \in 1..Len(stack') PROVE Fits(stack[i])'
  <2>1. PICK q : q = stack'[i]
    OBVIOUS
  <2>2. Fits(q)
    BY <1>1, <2>1 DEF Linked
  <2> QED BY <2>1, <2>2, Fixed DEF Still
<1>5. ASSUME NEW i \in 1..(Len(stack') - 1) PROVE Link(stack[i], stack[i + 1])'
  <2>1. PICK q, r : q = stack'[i] /\ r = stack'[i + 1]
    OBVIOUS
  <2>2. q = stack[i] /\ (i < Len(stack) => r = stack[i + 1] /\ Link(q, r))
          /\ (i = Len(stack) => r = f)
    BY <1>1, <2>1 DEF Linked
  <2>3. i < Len(stack) \/ i = Len(stack)
    BY <1>1
  <2>4. CASE i = Len(stack)
    <3>1. Leads(Top, Target(<<todo.c, todo.t>>)) /\ (Top.c = "parent" => todo.c = "root") /\ Top = q
      BY <1>1, <2>2, <2>4 DEF Linked, Top
    <3>2. Link(q, f)
      BY <3>1 DEF Link
    <3> QED BY <2>1, <2>2, <2>4, <3>2, Fixed DEF Still
  <2>5. CASE i < Len(stack)
    BY <2>1, <2>2, <2>5, Fixed DEF Still
  <2> QED BY <2>3, <2>4, <2>5
<1>6. ASSUME todo'.do = "call"
      PROVE  Leads(Top, Target(<<todo.c, todo.t>>))' /\ (Top'.c = "parent" => todo'.c = "root")
  <2>1. Top' = f
    BY <1>1 DEF Top
  <2>2. PICK c, t : c = todo'.c /\ t = todo'.t
    OBVIOUS
  <2>3. PICK q : q = Target(<<c, t>>) /\ q = Target(<<c, t>>)'
    BY Fixed DEF Still
  <2>4. Leads(f, q)'
    BY <1>6, <2>2, <2>3, Fixed DEF Still
  <2> QED BY <1>6, <2>1, <2>2, <2>3, <2>4
<1> QED BY <1>4, <1>5, <1>6 DEF Linked

\* What graphs are made of.
LEMMA GraphTyped ==
  ASSUME Typed, NEW c \in Containers, NEW t \in Tokens
  PROVE  /\ Registered(c, t) => Deps(c, t) \subseteq Pairs
         /\ Target(<<c, t>>) \in Pairs
         /\ Registered(c, t) => Target(<<c, t>>) = <<c, t>>
         /\ ~Registered(c, t) => Target(<<c, t>>) = <<"root", t>>
         /\ Target(<<"root", t>>) = <<"root", t>>
<1>1. graph \in Graphs /\ scanned \subseteq Modules
      /\ DOMAIN exported \subseteq Tokens /\ \A x \in DOMAIN exported : exported[x] \in Modules
  BY DEF Typed
<1>2. ASSUME Registered(c, t) PROVE Deps(c, t) \subseteq Pairs
  <2>1. CASE c = "root"
    BY <1>1, <1>2, <2>1 DEF Registered, Deps, Pairs, Containers
  <2>2. CASE c # "root"
    <3>1. c \in Modules /\ t \in DOMAIN graph[c].providers
      BY <1>1, <1>2, <2>2 DEF Registered
    <3>2. graph[c].providers[t].deps \subseteq Tokens
      BY <1>1, <3>1, GraphsAssumption
    <3> QED BY <2>2, <3>1, <3>2 DEF Deps, Pairs, Containers
  <2> QED BY <2>1, <2>2
<1> QED BY <1>2 DEF Target, Pairs, Containers

\* A step of a resolution.
LEMMA TypedStep ==
  ASSUME Typed, Still, todo.do # "idle",
         singletons' \in [Pairs -> Insts], shared' \in [Requests -> [Tokens -> Insts]],
         resolving' \subseteq Pairs, stack' \in Seq(Frames), todo' \in Todos,
         todo'.do = "idle" => stack' = <<>>,
         todo'.do = "work" => stack' # <<>> /\ Top'.c # "parent"
  PROVE  Typed'
  BY DEF Typed, Still, request

\* The cell that nothing is kept in.
LEMMA NoneTyped == None \in Insts /\ None.reach = {} /\ None.of = <<>>
  BY DEF None, Insts

\* What may be to do next.
LEMMA TodosTyped ==
  /\ \A c \in Containers, t \in Tokens :
        [do |-> "call", c |-> c, t |-> t] \in Todos
  /\ \A i \in Insts : [do |-> "return", inst |-> i] \in Todos
  /\ \A e \in {"circular", "missing", "overflow"} : [do |-> "throw", err |-> e] \in Todos
  /\ [do |-> "work"] \in Todos /\ Idle \in Todos
  BY DEF Todos, Idle

\* What a call, a return and an exception carry.
LEMMA TodoTyped ==
  ASSUME Typed
  PROVE  /\ todo.do = "call" => todo.c \in Containers /\ todo.t \in Tokens
         /\ todo.do = "return" => todo.inst \in Insts
         /\ todo.do = "throw" => todo.err \in {"circular", "missing", "overflow"}
  BY DEF Typed, Todos

\* What resolve() finds is an instance, or nothing.
LEMMA CachedTyped ==
  ASSUME Typed, todo.do # "idle", NEW c \in Containers, NEW t \in Tokens
  PROVE  Cached(c, t) \in Insts
<1>1. Scoped(c, t) => request \in Requests
  BY DEF Scoped, Typed
<1>2. <<c, t>> \in Pairs
  BY DEF Pairs
<1> QED BY <1>1, <1>2 DEF Cached, Typed

\* The frame at work.
LEMMA TopTyped ==
  ASSUME Typed, Linked, stack # <<>>
  PROVE  /\ Top \in Frames /\ Top.t \in Tokens /\ Top = stack[Len(stack)] /\ Fits(Top)
         /\ Top.c # "parent" => Top.c \in Containers /\ Registered(Top.c, Top.t)
                                /\ Top.left \subseteq Deps(Top.c, Top.t)
<1>1. Top \in Frames /\ Top = stack[Len(stack)] /\ Len(stack) \in 1..Len(stack)
  BY Stacks DEF Typed
<1>2. Fits(Top)
  BY <1>1 DEF Linked
<1> QED BY <1>1, <1>2 DEF Fits, Frames

\* What instantiate() returns is an instance.
LEMMA ProductTyped ==
  ASSUME Typed, Linked, todo.do = "work"
  PROVE  Product \in Insts
<1>1. Top \in Frames /\ Top.c \in Containers /\ Top.t \in Tokens
  BY TopTyped DEF Typed
<1>2. Scoped(Top.c, Top.t) => request \in Requests
  BY DEF Scoped, Typed
<1>3. Top.got \in Insts /\ Top.reach \subseteq Requests
  BY <1>1 DEF Frames
<1>4. <<Top.c, Top.t>> \in Pairs
  BY <1>1 DEF Pairs
<1> QED BY <1>2, <1>3, <1>4 DEF Product, Insts

Base == Typed /\ Linked

\* The stack is in order at the start.
LEMMA BaseInit == Init => Base
<1> SUFFICES ASSUME Init PROVE Base
  OBVIOUS
<1>1. stack = <<>> /\ todo = Idle /\ stack \in Seq(Frames) /\ Len(stack) = 0
  BY DEF Init
<1>2. Linked
  BY <1>1 DEF Linked
<1>3. Typed
  BY <1>1, NoneTyped, TodosTyped DEF Init, Typed, Idle
<1> QED BY <1>2, <1>3 DEF Base

\* Scanning happens before anything is resolved.
LEMMA BaseScan ==
  ASSUME Base, NEW m \in Modules, Scan(m)
  PROVE  Base' /\ todo = Idle /\ stack = <<>> /\ scanned # Modules
<1>1. scanned # Modules /\ todo.do = "idle" /\ stack = <<>>
  BY DEF Base, Typed, Scan
<1>2. UNCHANGED <<graph, singletons, shared, resolving, stack, todo, asked, answer, remade>>
  BY DEF Scan
<1>3. todo = Idle
  BY <1>1 DEF Base, Typed, Todos, Idle
<1>4. Linked'
  BY <1>1, <1>2 DEF Linked
<1>5. DOMAIN exported' \subseteq Tokens /\ \A t \in DOMAIN exported' : exported'[t] \in Modules
  <2>1. exported' = [t \in DOMAIN exported \union graph[m].exports |->
                       IF t \in DOMAIN exported THEN exported[t] ELSE m]
    BY DEF Scan
  <2>2. graph[m].exports \subseteq Tokens
    BY GraphsAssumption DEF Base, Typed
  <2> QED BY <2>1, <2>2 DEF Base, Typed
<1>6. scanned' \subseteq Modules
  BY DEF Scan, Base, Typed
<1>7. Typed'
  BY <1>1, <1>2, <1>5, <1>6 DEF Base, Typed
<1> QED BY <1>1, <1>3, <1>4, <1>7 DEF Base

\* The call of the program finds the stack empty.
LEMMA BaseResolve ==
  ASSUME Base, NEW c \in Containers, NEW t \in Tokens, NEW r \in Requests \union {Outside},
         Resolve(c, t, r)
  PROVE  Base' /\ stack = <<>> /\ scanned = Modules /\ todo'.do = "call" /\ request' = r
<1>1. /\ todo.do = "idle" /\ stack = <<>> /\ scanned = Modules /\ asked' = <<c, t, r>>
      /\ todo' = [do |-> "call", c |-> c, t |-> t] /\ answer' = NoAnswer
      /\ UNCHANGED <<graph, scanned, exported, singletons, shared, resolving, stack, remade>>
  BY DEF Resolve, Calls, Idle, Base, Typed
<1>2. request' = r /\ todo'.do = "call" /\ todo' \in Todos
  BY <1>1, TodosTyped DEF request
<1>3. Linked'
  BY <1>1 DEF Linked
<1>4. Typed'
  BY <1>1, <1>2 DEF Base, Typed
<1> QED BY <1>1, <1>2, <1>3, <1>4 DEF Base

\* A token that is being resolved.
LEMMA BaseCircular ==
  ASSUME Base, Circular
  PROVE  Base'
<1>1. /\ todo.do = "call" /\ todo' = [do |-> "throw", err |-> "circular"] /\ Still
      /\ UNCHANGED <<singletons, shared, resolving, stack, answer, remade>>
  BY DEF Circular, Calling, Throws, Rest, Still
<1>2. todo'.do = "throw" /\ todo' \in Todos
  BY <1>1, TodosTyped
<1>3. Linked'
  BY <1>1, <1>2, KeepLinked DEF Base
<1>4. Typed'
  BY <1>1, <1>2, TypedStep DEF Base, Typed
<1> QED BY <1>3, <1>4 DEF Base

\* A token that was kept.
LEMMA BaseHit ==
  ASSUME Base, Hit
  PROVE  Base'
<1>1. /\ todo.do = "call" /\ todo' = [do |-> "return", inst |-> Cached(todo.c, todo.t)] /\ Still
      /\ UNCHANGED <<singletons, shared, resolving, stack, answer, remade>>
  BY DEF Hit, Calling, Returns, Rest, Still
<1>2. todo.c \in Containers /\ todo.t \in Tokens
  BY <1>1, TodoTyped DEF Base
<1>3. Cached(todo.c, todo.t) \in Insts
  BY <1>1, <1>2, CachedTyped DEF Base
<1>4. todo'.do = "return" /\ todo' \in Todos
  BY <1>1, <1>3, TodosTyped
<1>5. Linked'
  BY <1>1, <1>4, KeepLinked DEF Base
<1>6. Typed'
  BY <1>1, <1>4, TypedStep DEF Base, Typed
<1> QED BY <1>5, <1>6 DEF Base

\* A new frame has nothing yet.
LEMMA FrameTyped ==
  ASSUME NEW c \in Containers \union {"parent"}, NEW t \in Tokens, NEW left \in SUBSET Pairs
  PROVE  /\ Frame(c, t, left) \in Frames /\ Frame(c, t, left).c = c /\ Frame(c, t, left).t = t
         /\ Frame(c, t, left).left = left
         /\ Frame(c, t, left).reach = {} /\ Frame(c, t, left).got = None
  BY NoneTyped DEF Frame, Frames

\* A token without a record: the parent's frame has no dependencies.
LEMMA BaseMiss ==
  ASSUME Base, Miss
  PROVE  Base'
<1>1. /\ todo.do = "call" /\ ~Registered(todo.c, todo.t) /\ Still
      /\ IF todo.c = "root" THEN todo' = [do |-> "throw", err |-> "missing"] /\ UNCHANGED stack
         ELSE /\ todo' = [do |-> "call", c |-> "root", t |-> todo.t]
              /\ stack' = Append(stack, Frame("parent", todo.t, {}))
      /\ UNCHANGED <<singletons, shared, resolving, answer, remade>>
  BY DEF Miss, Calling, Throws, Calls, Rest, Still
<1>2. todo.c \in Containers /\ todo.t \in Tokens /\ "root" \in Containers
  BY <1>1, TodoTyped DEF Base, Containers
<1>3. CASE todo.c = "root"
  <2>1. todo'.do = "throw" /\ todo' \in Todos
    BY <1>1, <1>3, TodosTyped
  <2>2. Linked'
    BY <1>1, <1>3, <2>1, KeepLinked DEF Base
  <2>3. Typed'
    BY <1>1, <1>3, <2>1, TypedStep DEF Base, Typed
  <2> QED BY <2>2, <2>3 DEF Base
<1>4. CASE todo.c # "root"
  <2>1. PICK t : t = todo.t
    OBVIOUS
  <2>2. PICK f : f = Frame("parent", t, {})
    OBVIOUS
  <2>3. f \in Frames /\ f.c = "parent" /\ f.t = t
    BY <1>2, <2>1, <2>2, FrameTyped
  <2>4. todo'.do = "call" /\ todo'.c = "root" /\ todo'.t = t /\ todo' \in Todos
    BY <1>1, <1>2, <1>4, <2>1, TodosTyped
  <2>5. Target(<<todo.c, t>>) = <<"root", t>> /\ Target(<<"root", t>>) = <<"root", t>>
    BY <1>1, <1>2, <2>1, GraphTyped DEF Base
  <2>6. Goal(f) = <<"root", t>> /\ Fits(f) /\ Leads(f, <<"root", t>>)
    BY <2>3 DEF Goal, Fits, Leads, Aim
  <2>7. stack' = Append(stack, f)
    BY <1>1, <1>4, <2>1, <2>2
  <2>8. Linked'
    BY <1>1, <1>4, <2>1, <2>3, <2>4, <2>5, <2>6, <2>7, PushLinked DEF Base
  <2>9. stack' \in Seq(Frames)
    BY <2>3, <2>7, Stacks DEF Base, Typed
  <2>10. Typed'
    BY <1>1, <2>4, <2>9, TypedStep DEF Base, Typed
  <2> QED BY <2>8, <2>10 DEF Base
<1> QED BY <1>3, <1>4

\* What Enter puts on the stack.
LEMMA Entered ==
  ASSUME Base, Enter, todo' = [do |-> "work"]
  PROVE  \E f \in Frames :
            /\ f.c = todo.c /\ f.t = todo.t /\ f.left = Deps(todo.c, todo.t)
            /\ f.reach = {} /\ f.got = None /\ stack' = Append(stack, f)
            /\ f.c \in Containers /\ f.t \in Tokens /\ f.c # "parent"
            /\ Registered(f.c, f.t) /\ Cached(f.c, f.t) = None /\ <<f.c, f.t>> \notin resolving
            /\ resolving' = IF Scoped(f.c, f.t) THEN resolving ELSE resolving \union {<<f.c, f.t>>}
            /\ UNCHANGED <<singletons, shared, answer, remade>> /\ Still
            /\ todo.do = "call" /\ Target(<<f.c, f.t>>) = <<f.c, f.t>>
<1>1. todo.do = "call" /\ todo.c \in Containers /\ todo.t \in Tokens
  BY TodoTyped DEF Enter, Calling, Base
<1>2. PICK c, t : c = todo.c /\ t = todo.t
  OBVIOUS
<1>3. /\ <<c, t>> \notin resolving /\ Registered(c, t) /\ Cached(c, t) = None
      /\ stack' = Append(stack, Frame(c, t, Deps(c, t)))
      /\ resolving' = IF Scoped(c, t) THEN resolving ELSE resolving \union {<<c, t>>}
      /\ UNCHANGED <<singletons, shared, answer, remade>> /\ Still
  <2>1. ~Throws("overflow")
    BY DEF Throws
  <2> QED BY <1>2, <2>1 DEF Enter, Rest, Still
<1>4. PICK f : f = Frame(c, t, Deps(c, t))
  OBVIOUS
<1>5. Deps(c, t) \in SUBSET Pairs /\ Target(<<c, t>>) = <<c, t>> /\ c # "parent"
  BY <1>1, <1>2, <1>3, GraphTyped, GraphsAssumption DEF Base, Containers
<1>6. f \in Frames /\ f.c = c /\ f.t = t /\ f.left = Deps(c, t) /\ f.reach = {} /\ f.got = None
  <2>1. PICK left : left = Deps(c, t)
    OBVIOUS
  <2> QED BY <1>1, <1>2, <1>4, <1>5, <2>1, FrameTyped
<1> QED BY <1>1, <1>2, <1>3, <1>4, <1>5, <1>6

\* An overflow leaves everything as it was.
LEMMA Overflown ==
  ASSUME Base, Enter, todo' # [do |-> "work"]
  PROVE  /\ todo.do = "call" /\ todo' = [do |-> "throw", err |-> "overflow"] /\ Still
         /\ UNCHANGED <<singletons, shared, resolving, stack, answer, remade>>
  BY DEF Enter, Calling, Throws, Rest, Still

\* A frame begins with the dependencies of what was called.
LEMMA BaseEnter ==
  ASSUME Base, Enter
  PROVE  Base'
<1>1. CASE todo' # [do |-> "work"]
  <2>1. /\ todo.do = "call" /\ todo' = [do |-> "throw", err |-> "overflow"] /\ Still
        /\ UNCHANGED <<singletons, shared, resolving, stack, answer, remade>>
    BY <1>1, Overflown
  <2>2. todo'.do = "throw" /\ todo' \in Todos
    BY <2>1, TodosTyped
  <2>3. Linked'
    BY <2>1, <2>2, KeepLinked DEF Base
  <2>4. Typed'
    BY <2>1, <2>2, TypedStep DEF Base, Typed
  <2> QED BY <2>3, <2>4 DEF Base
<1>2. CASE todo' = [do |-> "work"]
  <2>1. PICK f \in Frames :
            /\ f.c = todo.c /\ f.t = todo.t /\ f.left = Deps(todo.c, todo.t)
            /\ f.reach = {} /\ f.got = None /\ stack' = Append(stack, f)
            /\ f.c \in Containers /\ f.t \in Tokens /\ f.c # "parent"
            /\ Registered(f.c, f.t) /\ Cached(f.c, f.t) = None /\ <<f.c, f.t>> \notin resolving
            /\ resolving' = IF Scoped(f.c, f.t) THEN resolving ELSE resolving \union {<<f.c, f.t>>}
            /\ UNCHANGED <<singletons, shared, answer, remade>> /\ Still
            /\ todo.do = "call" /\ Target(<<f.c, f.t>>) = <<f.c, f.t>>
    BY <1>2, Entered
  <2>2. todo'.do = "work" /\ todo' \in Todos
    BY <1>2, TodosTyped
  <2>3. Fits(f) /\ Goal(f) = Target(<<todo.c, todo.t>>)
    BY <2>1 DEF Fits, Goal
  <2>4. Linked'
    BY <2>1, <2>2, <2>3, PushLinked DEF Base
  <2>5. stack' \in Seq(Frames) /\ Len(stack) \in Nat /\ Len(stack') = Len(stack) + 1
        /\ stack'[Len(stack) + 1] = f
    BY <2>1, Stacks DEF Base, Typed
  <2>6. stack' # <<>> /\ Top' = f
    <3>1. Top' = stack'[Len(stack')]
      BY DEF Top
    <3> QED BY <2>5, <3>1, EmptySeq
  <2>7. resolving' \subseteq Pairs
    BY <2>1 DEF Base, Typed, Pairs
  <2>8. Typed'
    BY <2>1, <2>2, <2>5, <2>6, <2>7, TypedStep DEF Base, Typed
  <2> QED BY <2>4, <2>8 DEF Base
<1> QED BY <1>1, <1>2

\* Another frame in place of the one on top.
LEMMA PutTop ==
  ASSUME Typed, stack # <<>>, NEW f \in Frames, stack' = Put(f)
  PROVE  stack' \in Seq(Frames) /\ stack' # <<>> /\ Top' = f
<1>1. /\ stack' \in Seq(Frames) /\ Len(stack') = Len(stack) /\ Len(stack) > 0
      /\ stack'[Len(stack)] = f
  BY Stacks DEF Typed
<1>2. Top' = stack'[Len(stack')]
  BY DEF Top
<1> QED BY <1>1, <1>2, EmptySeq

\* What Inject does.
LEMMA Injected ==
  ASSUME Base, Inject
  PROVE  \E f \in Frames, d \in Pairs :
            /\ todo.do = "work" /\ Still /\ stack # <<>> /\ Top.c # "parent"
                 /\ d \in Deps(Top.c, Top.t)
            /\ f.c = Top.c /\ f.t = Top.t /\ f.left = Top.left \ {d} /\ f.reach = Top.reach
                 /\ f.got = Top.got
            /\ f.now = d /\ stack' = Put(f) /\ todo' = [do |-> "call", c |-> d[1], t |-> d[2]]
            /\ d[1] \in Containers /\ d[2] \in Tokens /\ d = <<d[1], d[2]>>
            /\ UNCHANGED <<singletons, shared, resolving, answer, remade>>
<1>1. PICK d : /\ todo.do = "work" /\ Still /\ d \in Top.left
               /\ stack' = Put([Top EXCEPT !.left = @ \ {d}, !.now = d])
               /\ todo' = [do |-> "call", c |-> d[1], t |-> d[2]]
               /\ UNCHANGED <<singletons, shared, resolving, answer, remade>>
  BY DEF Inject, Calls, Rest, Still
<1>2. stack # <<>> /\ Top.c # "parent"
  BY <1>1 DEF Base, Typed
<1>3. Top \in Frames /\ Top.left \subseteq Deps(Top.c, Top.t)
  BY <1>2, TopTyped DEF Base
<1>4. d \in Pairs /\ d \in Deps(Top.c, Top.t)
  BY <1>1, <1>3 DEF Frames
<1>5. d[1] \in Containers /\ d[2] \in Tokens /\ d = <<d[1], d[2]>>
  BY <1>4 DEF Pairs
<1>6. PICK f : f = [Top EXCEPT !.left = @ \ {d}, !.now = d]
  OBVIOUS
<1>7. f \in Frames /\ f.c = Top.c /\ f.t = Top.t /\ f.left = Top.left \ {d}
      /\ f.reach = Top.reach /\ f.got = Top.got /\ f.now = d
  BY <1>3, <1>4, <1>6 DEF Frames
<1> QED BY <1>1, <1>2, <1>4, <1>5, <1>6, <1>7

\* A dependency is called for the frame that has it.
LEMMA BaseInject ==
  ASSUME Base, Inject
  PROVE  Base'
<1>1. PICK f \in Frames, d \in Pairs :
            /\ todo.do = "work" /\ Still /\ stack # <<>> /\ Top.c # "parent"
                 /\ d \in Deps(Top.c, Top.t)
            /\ f.c = Top.c /\ f.t = Top.t /\ f.left = Top.left \ {d} /\ f.reach = Top.reach
                 /\ f.got = Top.got
            /\ f.now = d /\ stack' = Put(f) /\ todo' = [do |-> "call", c |-> d[1], t |-> d[2]]
            /\ d[1] \in Containers /\ d[2] \in Tokens /\ d = <<d[1], d[2]>>
            /\ UNCHANGED <<singletons, shared, resolving, answer, remade>>
  BY Injected
<1>2. todo'.do = "call" /\ <<todo'.c, todo'.t>> = d /\ todo' \in Todos
  BY <1>1, TodosTyped
<1>3. Leads(f, Target(d)) /\ f.c # "parent"
  BY <1>1 DEF Leads, Aim
<1>4. Linked'
  BY <1>1, <1>2, <1>3, PutLinked DEF Base
<1>5. stack' \in Seq(Frames)
  BY <1>1, PutTop DEF Base
<1>6. Typed'
  BY <1>1, <1>2, <1>5, TypedStep DEF Base, Typed
<1> QED BY <1>4, <1>6 DEF Base

\* The stack without the frame on top.
LEMMA PopTop ==
  ASSUME Typed, stack # <<>>, stack' = Popped
  PROVE  stack' \in Seq(Frames)
  BY Stacks DEF Typed

\* An instance is kept in the cell of its provider.
LEMMA BaseFinish ==
  ASSUME Base, Finish
  PROVE  Base'
<1>1. /\ todo.do = "work" /\ todo' = [do |-> "return", inst |-> Product] /\ stack' = Popped /\ Still
      /\ IF Scoped(Top.c, Top.t)
         THEN /\ shared' = [shared EXCEPT ![request][Top.t] = Product]
              /\ UNCHANGED <<singletons, resolving>>
         ELSE /\ singletons' = IF Scope(Top.c, Top.t) = "singleton"
                               THEN [singletons EXCEPT ![<<Top.c, Top.t>>] = Product]
                               ELSE singletons
              /\ resolving' = resolving \ {<<Top.c, Top.t>>}
              /\ UNCHANGED shared
  BY DEF Finish, Returns, Rest, Still
<1>2. stack # <<>> /\ Product \in Insts
  BY <1>1, ProductTyped DEF Base, Typed
<1>3. todo'.do = "return" /\ todo' \in Todos
  BY <1>1, <1>2, TodosTyped
<1>4. Linked'
  BY <1>1, <1>2, <1>3, PopLinked DEF Base
<1>5. singletons' \in [Pairs -> Insts]
  <2>1. PICK x, i : x = <<Top.c, Top.t>> /\ i = Product
    OBVIOUS
  <2>2. singletons' = singletons \/ singletons' = [singletons EXCEPT ![x] = i]
    BY <1>1, <2>1
  <2> QED BY <1>2, <2>1, <2>2 DEF Base, Typed
<1>6. resolving' \subseteq Pairs
  BY <1>1 DEF Base, Typed
<1>7. shared' \in [Requests -> [Tokens -> Insts]]
  <2>1. PICK r, t, i : r = request /\ t = Top.t /\ i = Product
    OBVIOUS
  <2>2. shared' = shared \/ shared' = [shared EXCEPT ![r][t] = i]
    BY <1>1, <2>1
  <2> QED BY <1>2, <2>1, <2>2 DEF Base, Typed
<1>8. stack' \in Seq(Frames)
  BY <1>1, <1>2, PopTop DEF Base
<1>9. Typed'
  BY <1>1, <1>3, <1>5, <1>6, <1>7, <1>8, TypedStep DEF Base
<1> QED BY <1>4, <1>9 DEF Base

\* What Return does to the frame on top.
LEMMA Returned ==
  ASSUME Base, Return, Top.c # "parent"
  PROVE  \E f \in Frames :
            /\ f.c = Top.c /\ f.t = Top.t /\ f.left = Top.left /\ f.now = Top.now
            /\ f.reach = Top.reach \union todo.inst.reach /\ f.got = todo.inst
            /\ stack' = Put(f) /\ todo' = [do |-> "work"]
<1>1. todo.do = "return" /\ stack # <<>> /\ todo' = [do |-> "work"]
      /\ stack' = Put([Top EXCEPT !.reach = @ \union todo.inst.reach, !.got = todo.inst])
  BY DEF Return
<1>2. Top \in Frames /\ todo.inst \in Insts
  BY <1>1, TopTyped, TodoTyped DEF Base
<1>3. PICK f : f = [Top EXCEPT !.reach = @ \union todo.inst.reach, !.got = todo.inst]
  OBVIOUS
<1>4. f \in Frames /\ f.c = Top.c /\ f.t = Top.t /\ f.left = Top.left /\ f.now = Top.now
            /\ f.reach = Top.reach \union todo.inst.reach /\ f.got = todo.inst
  BY <1>2, <1>3 DEF Frames, Insts
<1> QED BY <1>1, <1>3, <1>4

\* What is returned to the parent's frame goes on to the one below.
LEMMA BaseReturn ==
  ASSUME Base, Return
  PROVE  Base'
<1>1. /\ todo.do = "return" /\ stack # <<>> /\ Still
      /\ UNCHANGED <<singletons, shared, resolving, answer, remade>>
  BY DEF Return, Rest, Still
<1>2. CASE Top.c = "parent"
  <2>1. stack' = Popped /\ UNCHANGED todo
    BY <1>2 DEF Return
  <2>2. Linked'
    BY <1>1, <2>1, PopLinked DEF Base
  <2>3. stack' \in Seq(Frames)
    BY <1>1, <2>1, PopTop DEF Base
  <2>4. Typed'
    BY <1>1, <2>1, <2>3, TypedStep DEF Base, Typed
  <2> QED BY <2>2, <2>4 DEF Base
<1>3. CASE Top.c # "parent"
  <2>1. PICK f \in Frames :
            /\ f.c = Top.c /\ f.t = Top.t /\ f.left = Top.left
            /\ stack' = Put(f) /\ todo' = [do |-> "work"]
    BY <1>3, Returned
  <2>2. todo'.do = "work" /\ todo' \in Todos
    BY <2>1, TodosTyped
  <2>3. Linked'
    BY <1>1, <2>1, <2>2, PutLinked DEF Base
  <2>4. stack' \in Seq(Frames) /\ stack' # <<>> /\ Top' = f
    BY <1>1, <2>1, PutTop DEF Base
  <2>5. Typed'
    BY <1>1, <1>3, <2>1, <2>2, <2>4, TypedStep DEF Base, Typed
  <2> QED BY <2>3, <2>5 DEF Base
<1> QED BY <1>2, <1>3

\* An exception leaves the frames it passes, or goes no further.
LEMMA BaseThrow ==
  ASSUME Base, Throw
  PROVE  Base'
<1>1. /\ todo.do = "throw" /\ stack # <<>> /\ Still
           /\ UNCHANGED <<singletons, shared, answer, remade>>
  BY DEF Throw, Rest, Still
<1>2. CASE Top.c # "parent" /\ Top.now \in Optional(Top.c, Top.t)
  <2>1. todo' = [do |-> "work"] /\ UNCHANGED <<stack, resolving>>
    BY <1>2 DEF Throw
  <2>2. todo'.do = "work" /\ todo' \in Todos
    BY <2>1, TodosTyped
  <2>3. Top' = Top
    BY <2>1 DEF Top
  <2>4. Linked'
    BY <1>1, <2>1, <2>2, KeepLinked DEF Base
  <2>5. Typed'
    BY <1>1, <1>2, <2>1, <2>2, <2>3, TypedStep DEF Base, Typed
  <2> QED BY <2>4, <2>5 DEF Base
<1>3. CASE ~(Top.c # "parent" /\ Top.now \in Optional(Top.c, Top.t))
  <2>1. /\ stack' = Popped /\ resolving' \subseteq resolving
        /\ todo' = [do |-> "throw", err |-> IF Top.c = "parent" THEN "missing" ELSE todo.err]
    BY <1>3 DEF Throw, Throws
  <2>2. todo'.do = "throw" /\ todo' \in Todos
    BY <1>1, <2>1, TodosTyped, TodoTyped DEF Base
  <2>3. Linked'
    BY <1>1, <2>1, <2>2, PopLinked DEF Base
  <2>4. stack' \in Seq(Frames)
    BY <1>1, <2>1, PopTop DEF Base
  <2>5. Typed'
    BY <1>1, <2>1, <2>2, <2>4, TypedStep DEF Base, Typed
  <2> QED BY <2>3, <2>5 DEF Base
<1> QED BY <1>2, <1>3

\* The program is answered when no frame is left.
LEMMA BaseAnswer ==
  ASSUME Base, Answer
  PROVE  Base'
<1>1. /\ todo.do \in {"return", "throw"} /\ stack = <<>> /\ todo' = Idle /\ Still
      /\ UNCHANGED <<singletons, shared, resolving, stack, remade>>
  BY DEF Answer, Rest, Still
<1>2. todo'.do = "idle" /\ todo' \in Todos
  BY <1>1, TodosTyped DEF Idle
<1>3. Linked'
  BY <1>1, <1>2, KeepLinked DEF Base
<1>4. Typed'
  BY <1>1, <1>2, TypedStep DEF Base, Typed
<1> QED BY <1>3, <1>4 DEF Base

\* The stack is in order for ever.
LEMMA BaseNext == Base /\ [Next]_vars => Base'
<1> SUFFICES ASSUME Base, [Next]_vars PROVE Base'
  OBVIOUS
<1>1. CASE \E m \in Modules : Scan(m)
  BY <1>1, BaseScan
<1>2. CASE \E c \in Containers, t \in Tokens, r \in Requests \union {Outside} : Resolve(c, t, r)
  BY <1>2, BaseResolve
<1>3. CASE UNCHANGED vars
  <2>1. UNCHANGED <<stack, todo>> /\ Top' = Top
    BY <1>3 DEF vars, Top
  <2>2. Linked'
    BY <1>3, <2>1, Fixed DEF vars, Base, Linked
  <2>3. Typed'
    BY <1>3, <2>1 DEF vars, Base, Typed, request
  <2> QED BY <2>2, <2>3 DEF Base
<1> QED
  BY <1>1, <1>2, <1>3, BaseCircular, BaseHit, BaseMiss, BaseEnter, BaseInject, BaseFinish,
     BaseReturn, BaseThrow, BaseAnswer DEF Next

------------------------------------------------------------------------------
(* Requests are kept apart *)

\* What a frame is at work on is kept beyond the request; then it holds nothing of it.
Lasting(f) == Held(Goal(f))
FrameClean(f) ==
    /\ f.reach \subseteq {request} /\ f.got.reach \subseteq {request}
    /\ Lasting(f) => f.reach = {} /\ f.got.reach = {}
FramesClean == \A i \in 1..Len(stack) : FrameClean(stack[i])
CacheClean  == /\ \A p \in Pairs : singletons[p].reach = {}
               /\ \A r \in Requests, t \in Tokens : shared[r][t].reach \subseteq {r}
ReturnClean ==
    todo.do = "return" =>
        /\ todo.inst.reach \subseteq {request}
        /\ stack # <<>> /\ Lasting(Top) => todo.inst.reach = {}
AnswerClean == answer.kind = "instance" => answer.inst.reach \subseteq {request}
Clean ==
    NothingHeld /\ scanned = Modules => CacheClean /\ FramesClean /\ ReturnClean /\ AnswerClean

\* What is kept beyond a request is fixed by the declarations.
LEMMA FixedClean ==
  ASSUME Still
  PROVE  /\ NothingHeld' <=> NothingHeld
         /\ \A p : Held(p)' <=> Held(p)
         /\ \A f : Lasting(f)' <=> Lasting(f)
         /\ \A f : FrameClean(f)' <=> FrameClean(f)
         /\ request' = request /\ scanned' = scanned
<1>1. request' = request /\ scanned' = scanned
  BY DEF request, Still
<1>2. \A p : Held(p)' <=> Held(p)
  BY Fixed DEF Held, Still
<1>3. \A f : Lasting(f)' <=> Lasting(f)
  BY <1>2 DEF Lasting, Goal
<1>4. NothingHeld' <=> NothingHeld
  <2>1. Known' = Known
    BY Fixed DEF Known, Still
  <2>2. \A p, d : Held(p)' <=> Held(p)
    BY <1>2
  <2> QED BY <1>2, <2>1, Fixed DEF NothingHeld, Still
<1>5. \A f : FrameClean(f)' <=> FrameClean(f)
  BY <1>1, <1>3 DEF FrameClean
<1> QED BY <1>1, <1>2, <1>3, <1>4, <1>5

\* What is kept leads only to what is kept.
LEMMA LastingLeads ==
  ASSUME NothingHeld, NEW f \in Frames, Fits(f), Lasting(f), NEW q \in Known, Leads(f, q)
  PROVE  Held(q)
<1>1. CASE f.c = "parent"
  BY <1>1 DEF Leads, Aim, Held, Scope
<1>2. CASE f.c # "parent"
  <2>1. <<f.c, f.t>> \in Known /\ Held(<<f.c, f.t>>)
    BY <1>2 DEF Fits, Frames, Known, Pairs, Lasting, Goal
  <2>2. PICK p : p = <<f.c, f.t>>
    OBVIOUS
  <2>3. p[1] = f.c /\ p[2] = f.t
    BY <2>2
  <2>4. \E d \in Deps(p[1], p[2]) : Target(d) = q
    BY <1>2, <2>3 DEF Leads, Aim
  <2> QED BY <2>1, <2>2, <2>4 DEF NothingHeld
<1> QED BY <1>1, <1>2

\* The stack of a clean state.
LEMMA CleanTop ==
  ASSUME Base, Clean, NothingHeld, scanned = Modules, stack # <<>>
  PROVE  FrameClean(Top)
<1>1. Top = stack[Len(stack)] /\ Len(stack) \in 1..Len(stack)
  BY Stacks DEF Base, Typed
<1> QED BY <1>1 DEF Clean, FramesClean

\* Clean frames stay clean, and one more does no harm.
LEMMA CleanKept ==
  ASSUME Base, FramesClean, Still,
         \/ UNCHANGED stack
         \/ stack # <<>> /\ stack' = Popped
         \/ stack # <<>> /\ \E f \in Frames : FrameClean(f) /\ stack' = Put(f)
         \/ \E f \in Frames : FrameClean(f) /\ stack' = Append(stack, f)
  PROVE  FramesClean'
<1>1. ASSUME NEW i \in 1..Len(stack') PROVE \E f : f = stack'[i] /\ FrameClean(f)
  <2>1. CASE UNCHANGED stack
    BY <2>1 DEF FramesClean
  <2>2. CASE stack # <<>> /\ stack' = Popped
    <3>1. /\ Len(stack) \in Nat /\ Len(stack') = Len(stack) - 1
          /\ \A j \in 1..(Len(stack) - 1) : stack'[j] = stack[j]
      BY <2>2, Stacks DEF Base, Typed
    <3>2. i \in 1..Len(stack) /\ stack'[i] = stack[i]
      BY <3>1
    <3> QED BY <3>2 DEF FramesClean
  <2>3. ASSUME stack # <<>>, NEW f \in Frames, FrameClean(f), stack' = Put(f)
        PROVE  \E g : g = stack'[i] /\ FrameClean(g)
    <3>1. /\ Len(stack) \in Nat /\ Len(stack') = Len(stack) /\ stack'[Len(stack)] = f
          /\ \A j \in 1..(Len(stack) - 1) : stack'[j] = stack[j]
      BY <2>3, Stacks DEF Base, Typed
    <3>2. i = Len(stack) \/ i \in 1..(Len(stack) - 1)
      BY <3>1
    <3> QED BY <2>3, <3>1, <3>2 DEF FramesClean
  <2>4. ASSUME NEW f \in Frames, FrameClean(f), stack' = Append(stack, f)
        PROVE  \E g : g = stack'[i] /\ FrameClean(g)
    <3>1. /\ Len(stack) \in Nat /\ Len(stack') = Len(stack) + 1 /\ stack'[Len(stack) + 1] = f
          /\ \A j \in 1..Len(stack) : stack'[j] = stack[j]
      BY <2>4, Stacks DEF Base, Typed
    <3>2. i = Len(stack) + 1 \/ i \in 1..Len(stack)
      BY <3>1
    <3> QED BY <2>4, <3>1, <3>2 DEF FramesClean
  <2> QED BY <2>1, <2>2, <2>3, <2>4
<1>2. ASSUME NEW i \in 1..Len(stack') PROVE FrameClean(stack[i])'
  <2>1. PICK f : f = stack'[i] /\ FrameClean(f)
    BY <1>1
  <2> QED BY <2>1, FixedClean
<1> QED BY <1>2 DEF FramesClean

\* What a step of a resolution has to show.
LEMMA CleanStep ==
  ASSUME Base, Clean, Still, todo.do # "idle",
         NothingHeld /\ scanned = Modules /\ CacheClean /\ FramesClean /\ ReturnClean
           /\ AnswerClean =>
             CacheClean' /\ FramesClean' /\ ReturnClean' /\ AnswerClean'
  PROVE  Clean'
  BY FixedClean DEF Clean

\* Nothing is returned, and nothing else than the stack has changed.
LEMMA CleanQuiet ==
  ASSUME Base, Clean, Still, todo.do # "idle", UNCHANGED <<singletons, shared, answer>>,
         todo'.do # "return",
         \/ UNCHANGED stack
         \/ stack # <<>> /\ stack' = Popped
         \/ stack # <<>> /\ \E f \in Frames : (FrameClean(Top) => FrameClean(f)) /\ stack' = Put(f)
         \/ \E f \in Frames : FrameClean(f) /\ stack' = Append(stack, f)
  PROVE  Clean'
<1> SUFFICES ASSUME NothingHeld, scanned = Modules, CacheClean, FramesClean, AnswerClean
             PROVE  CacheClean' /\ FramesClean' /\ ReturnClean' /\ AnswerClean'
  BY CleanStep
<1>1. CacheClean' /\ AnswerClean' /\ ReturnClean'
  BY FixedClean DEF CacheClean, AnswerClean, ReturnClean
<1>2. FramesClean'
  BY CleanKept, CleanTop
<1> QED BY <1>1, <1>2

\* A frame that holds nothing.
LEMMA EmptyClean ==
  ASSUME NEW f \in Frames, f.reach = {}, f.got = None
  PROVE  FrameClean(f)
  BY NoneTyped DEF FrameClean

\* Nothing is handed out that was not kept.
LEMMA CleanMiss ==
  ASSUME Base, Clean, Circular \/ Miss
  PROVE  Clean'
<1>1. /\ todo.do = "call" /\ todo'.do # "return" /\ Still
      /\ UNCHANGED <<singletons, shared, answer>>
      /\ \/ UNCHANGED stack
         \/ stack' = Append(stack, Frame("parent", todo.t, {}))
  BY DEF Circular, Miss, Calling, Throws, Calls, Rest, Still
<1>2. PICK f : f = Frame("parent", todo.t, {})
  OBVIOUS
<1>3. f \in Frames /\ f.reach = {} /\ f.got = None
  <2>1. PICK t : t = todo.t /\ t \in Tokens
    BY <1>1, TodoTyped DEF Base
  <2> QED BY <1>2, <2>1, FrameTyped
<1>4. FrameClean(f)
  BY <1>3, EmptyClean
<1> QED BY <1>1, <1>2, <1>3, <1>4, CleanQuiet

\* A frame begins with nothing.
LEMMA CleanEnter ==
  ASSUME Base, Clean, Enter
  PROVE  Clean'
<1>1. CASE todo' # [do |-> "work"]
  BY <1>1, Overflown, CleanQuiet
<1>2. CASE todo' = [do |-> "work"]
  <2>1. PICK f \in Frames :
           /\ f.reach = {} /\ f.got = None /\ stack' = Append(stack, f)
           /\ UNCHANGED <<singletons, shared, answer>> /\ Still /\ todo.do = "call"
    BY <1>2, Entered
  <2>2. FrameClean(f)
    BY <2>1, EmptyClean
  <2> QED BY <1>2, <2>1, <2>2, CleanQuiet
<1> QED BY <1>1, <1>2

\* Asking for a dependency adds nothing to the frame.
LEMMA CleanInject ==
  ASSUME Base, Clean, Inject
  PROVE  Clean'
<1>1. PICK f \in Frames :
            /\ todo.do = "work" /\ Still /\ stack # <<>> /\ Top.c # "parent"
            /\ f.c = Top.c /\ f.t = Top.t /\ f.reach = Top.reach /\ f.got = Top.got
            /\ stack' = Put(f) /\ todo'.do = "call"
            /\ UNCHANGED <<singletons, shared, resolving, answer, remade>>
  BY Injected
<1>2. FrameClean(Top) => FrameClean(f)
  BY <1>1 DEF FrameClean, Lasting, Goal
<1> QED BY <1>1, <1>2, CleanQuiet

\* An exception carries no instance.
LEMMA CleanThrow ==
  ASSUME Base, Clean, Throw
  PROVE  Clean'
<1>1. /\ todo.do = "throw" /\ stack # <<>> /\ Still /\ UNCHANGED <<singletons, shared, answer>>
      /\ todo'.do # "return" /\ (UNCHANGED stack \/ stack' = Popped)
  BY DEF Throw, Throws, Rest, Still
<1> QED BY <1>1, CleanQuiet

\* What was kept is handed out.
LEMMA CleanHit ==
  ASSUME Base, Clean, Hit
  PROVE  Clean'
<1>1. /\ todo.do = "call" /\ todo' = [do |-> "return", inst |-> Cached(todo.c, todo.t)] /\ Still
      /\ UNCHANGED <<singletons, shared, resolving, stack, answer, remade>>
  BY DEF Hit, Calling, Returns, Rest, Still
<1> SUFFICES ASSUME NothingHeld, scanned = Modules, CacheClean, FramesClean, AnswerClean
             PROVE  CacheClean' /\ FramesClean' /\ ReturnClean' /\ AnswerClean'
  BY <1>1, CleanStep
<1>2. CacheClean' /\ AnswerClean'
  BY <1>1, FixedClean DEF CacheClean, AnswerClean
<1>3. FramesClean'
  BY <1>1, CleanKept
<1>4. PICK c, t : c = todo.c /\ t = todo.t /\ c \in Containers /\ t \in Tokens /\ <<c, t>> \in Pairs
  BY <1>1, TodoTyped DEF Base, Pairs
<1>5. CASE Scoped(c, t)
  <2>1. request \in Requests /\ Registered(c, t) /\ Scope(c, t) = "request"
    BY <1>1, <1>5 DEF Scoped, Base, Typed
  <2>2. Cached(c, t).reach \subseteq {request}
    BY <1>4, <1>5, <2>1 DEF Cached, CacheClean
  <2>3. stack # <<>> => ~Lasting(Top)
    <3> SUFFICES ASSUME stack # <<>>, Lasting(Top) PROVE FALSE
      OBVIOUS
    <3>1. Leads(Top, Target(<<c, t>>)) /\ Top \in Frames /\ Fits(Top)
      BY <1>1, <1>4, TopTyped DEF Base, Linked
    <3>2. Target(<<c, t>>) = <<c, t>>
      BY <1>4, <2>1, GraphTyped DEF Base
    <3>3. PICK p : p = <<c, t>>
      OBVIOUS
    <3>4. p[1] = c /\ p[2] = t
      BY <3>3
    <3>5. p \in Known
      BY <1>4, <2>1, <3>3, <3>4 DEF Known
    <3>6. Held(p)
      BY <3>1, <3>2, <3>3, <3>5, LastingLeads
    <3> QED BY <2>1, <3>4, <3>6 DEF Held
  <2> QED BY <1>1, <1>2, <1>3, <1>4, <2>2, <2>3, FixedClean DEF ReturnClean, Top
<1>6. CASE ~Scoped(c, t)
  <2>1. Cached(c, t).reach = {}
    BY <1>4, <1>6 DEF Cached, CacheClean
  <2> QED BY <1>1, <1>2, <1>3, <1>4, <2>1 DEF ReturnClean
<1> QED BY <1>5, <1>6

\* What is kept beyond the request was made of what is kept beyond it.
LEMMA CleanFinish ==
  ASSUME Base, Clean, Finish
  PROVE  Clean'
<1>1. /\ todo.do = "work" /\ todo' = [do |-> "return", inst |-> Product] /\ stack' = Popped /\ Still
      /\ IF Scoped(Top.c, Top.t)
         THEN /\ shared' = [shared EXCEPT ![request][Top.t] = Product]
              /\ UNCHANGED <<singletons, resolving>>
         ELSE /\ singletons' = IF Scope(Top.c, Top.t) = "singleton"
                               THEN [singletons EXCEPT ![<<Top.c, Top.t>>] = Product]
                               ELSE singletons
              /\ resolving' = resolving \ {<<Top.c, Top.t>>}
              /\ UNCHANGED shared
      /\ UNCHANGED answer
  BY DEF Finish, Returns, Rest, Still
<1> SUFFICES ASSUME NothingHeld, scanned = Modules, CacheClean, FramesClean, AnswerClean
             PROVE  CacheClean' /\ FramesClean' /\ ReturnClean' /\ AnswerClean'
  BY <1>1, CleanStep
<1>2. stack # <<>> /\ Top \in Frames /\ Top.c # "parent" /\ Top.c \in Containers /\ Top.t \in Tokens
      /\ FrameClean(Top) /\ Registered(Top.c, Top.t)
  BY <1>1, TopTyped, CleanTop DEF Base, Typed
<1>3. PICK g : g = Top
  OBVIOUS
<1>4. PICK P : P = Product
  OBVIOUS
<1>5. Goal(g) = <<g.c, g.t>> /\ (Lasting(g) <=> Scope(g.c, g.t) = "singleton")
  <2>1. PICK p : p = <<g.c, g.t>>
    OBVIOUS
  <2>2. p[1] = g.c /\ p[2] = g.t
    BY <2>1
  <2> QED BY <1>2, <1>3, <2>1, <2>2 DEF Goal, Lasting, Held
<1>6. P.reach \subseteq {request} /\ (Lasting(g) => P.reach = {})
  <2>1. CASE Forwards(g.c)
    <3>1. P = g.got
      BY <1>3, <1>4, <2>1 DEF Product
    <3> QED BY <1>2, <1>3, <3>1 DEF FrameClean
  <2>2. CASE ~Forwards(g.c)
    <3>1. P.reach = g.reach \union (IF Scoped(g.c, g.t) THEN {request} ELSE {})
      BY <1>3, <1>4, <2>2 DEF Product
    <3>2. Lasting(g) => ~Scoped(g.c, g.t)
      BY <1>5 DEF Scoped
    <3> QED BY <1>2, <1>3, <3>1, <3>2 DEF FrameClean
  <2> QED BY <2>1, <2>2
<1>7. CacheClean'
  <2>1. CASE Scoped(g.c, g.t)
    <3>1. request \in Requests /\ shared' = [shared EXCEPT ![request][g.t] = P]
            /\ UNCHANGED singletons
      BY <1>1, <1>3, <1>4, <2>1 DEF Scoped, Base, Typed
    <3>2. \A r \in Requests, t \in Tokens :
             shared'[r][t] = IF r = request /\ t = g.t THEN P ELSE shared[r][t]
      BY <3>1 DEF Base, Typed
    <3> QED BY <1>6, <3>1, <3>2 DEF CacheClean
  <2>2. CASE ~Scoped(g.c, g.t)
    <3>1. UNCHANGED shared /\ singletons' = IF Scope(g.c, g.t) = "singleton"
                               THEN [singletons EXCEPT ![<<g.c, g.t>>] = P] ELSE singletons
      BY <1>1, <1>3, <1>4, <2>2
    <3>2. \A p \in Pairs : singletons'[p] = singletons[p] \/ (singletons'[p] = P
            /\ Scope(g.c, g.t) = "singleton")
      BY <3>1 DEF Base, Typed
    <3> QED BY <1>5, <1>6, <3>1, <3>2 DEF CacheClean
  <2> QED BY <2>1, <2>2
<1>8. FramesClean'
  BY <1>1, <1>2, CleanKept
<1>9. AnswerClean'
  BY <1>1, FixedClean DEF AnswerClean
<1>10. ASSUME stack' # <<>>, Lasting(Top)' PROVE P.reach = {}
  <2>1. Len(stack) \in Nat /\ Len(stack') = Len(stack) - 1 /\ Len(stack) > 0 /\ Len(stack') > 0
        /\ \A j \in 1..(Len(stack) - 1) : stack'[j] = stack[j]
    <3>1. stack' \in Seq(Frames)
      BY <1>1, <1>2, PopTop DEF Base
    <3> QED BY <1>1, <1>2, <1>10, <3>1, EmptySeq, Stacks DEF Base, Typed
  <2>2. PICK n : n = Len(stack) - 1 /\ n \in 1..(Len(stack) - 1) /\ n + 1 = Len(stack)
    BY <2>1
  <2>3. PICK f : f = stack[n]
    OBVIOUS
  <2>4. Top' = f /\ f \in Frames /\ Fits(f) /\ Link(f, g)
    <3>1. Top' = stack'[Len(stack')] /\ g = stack[n + 1]
      BY <1>3, <2>2 DEF Top
    <3>2. Len(stack') = n /\ stack'[n] = f /\ n \in 1..Len(stack)
      BY <2>1, <2>2, <2>3
    <3>3. stack[n] \in Frames
      BY <3>2, Stacks DEF Base, Typed
    <3>4. Fits(stack[n]) /\ Link(stack[n], stack[n + 1])
      BY <2>2, <3>2 DEF Base, Linked
    <3> QED BY <2>3, <3>1, <3>2, <3>3, <3>4
  <2>5. Lasting(f)
    BY <1>1, <1>10, <2>4, FixedClean
  <2>6. PICK p : p = <<g.c, g.t>>
    OBVIOUS
  <2>7. p[1] = g.c /\ p[2] = g.t
    BY <2>6
  <2>8. p \in Known /\ Leads(f, p)
    BY <1>2, <1>3, <1>5, <2>4, <2>6, <2>7 DEF Known, Pairs, Link
  <2>9. Held(p)
    BY <2>4, <2>5, <2>8, LastingLeads
  <2> QED BY <1>5, <1>6, <2>7, <2>9 DEF Held
<1>11. ReturnClean'
  BY <1>1, <1>4, <1>6, <1>10, FixedClean DEF ReturnClean
<1> QED BY <1>7, <1>8, <1>9, <1>11

\* A frame that is kept beyond the request is given nothing of it.
LEMMA CleanReturn ==
  ASSUME Base, Clean, Return
  PROVE  Clean'
<1>1. /\ todo.do = "return" /\ stack # <<>> /\ Still
      /\ UNCHANGED <<singletons, shared, resolving, answer, remade>>
  BY DEF Return, Rest, Still
<1> SUFFICES ASSUME NothingHeld, scanned = Modules, CacheClean, FramesClean, AnswerClean,
                    ReturnClean
             PROVE  CacheClean' /\ FramesClean' /\ ReturnClean' /\ AnswerClean'
  BY <1>1, CleanStep
<1>2. CacheClean' /\ AnswerClean'
  BY <1>1, FixedClean DEF CacheClean, AnswerClean
<1>3. CASE Top.c = "parent"
  <2>1. stack' = Popped /\ UNCHANGED todo
    BY <1>3 DEF Return
  <2>2. FramesClean'
    BY <1>1, <2>1, CleanKept
  <2>3. Lasting(Top)
    BY <1>3 DEF Lasting, Goal, Held, Scope
  <2>4. ReturnClean'
    BY <1>1, <2>1, <2>3 DEF ReturnClean
  <2> QED BY <1>2, <2>2, <2>4
<1>4. CASE Top.c # "parent"
  <2>1. PICK f \in Frames :
            /\ f.c = Top.c /\ f.t = Top.t
            /\ f.reach = Top.reach \union todo.inst.reach /\ f.got = todo.inst
            /\ stack' = Put(f) /\ todo' = [do |-> "work"]
    BY <1>4, Returned
  <2>2. FrameClean(Top) /\ (Lasting(Top) <=> Lasting(f))
    BY <1>1, <2>1, CleanTop DEF Lasting, Goal
  <2>3. FrameClean(f)
    BY <1>1, <2>1, <2>2 DEF FrameClean, ReturnClean
  <2>4. FramesClean'
    BY <1>1, <2>1, <2>3, CleanKept
  <2>5. ReturnClean'
    BY <2>1 DEF ReturnClean
  <2> QED BY <1>2, <2>4, <2>5
<1> QED BY <1>3, <1>4

\* The answer is of the request that has asked.
LEMMA CleanAnswer ==
  ASSUME Base, Clean, Answer
  PROVE  Clean'
<1>1. /\ todo.do \in {"return", "throw"} /\ stack = <<>> /\ todo' = Idle /\ Still
      /\ answer' = IF todo.do = "return" THEN [kind |-> "instance", inst |-> todo.inst]
                   ELSE [kind |-> todo.err]
      /\ UNCHANGED <<singletons, shared, resolving, stack, remade>>
  BY DEF Answer, Rest, Still
<1> SUFFICES ASSUME NothingHeld, scanned = Modules, CacheClean, FramesClean, AnswerClean,
                    ReturnClean
             PROVE  CacheClean' /\ FramesClean' /\ ReturnClean' /\ AnswerClean'
  BY <1>1, CleanStep
<1>2. CacheClean' /\ FramesClean'
  BY <1>1, FixedClean, CleanKept DEF CacheClean
<1>3. ReturnClean'
  BY <1>1 DEF ReturnClean, Idle
<1>4. AnswerClean'
  <2>1. CASE todo.do = "return"
    BY <1>1, <2>1, FixedClean DEF AnswerClean, ReturnClean
  <2>2. CASE todo.do # "return"
    BY <1>1, <2>2, TodoTyped DEF AnswerClean, Base
  <2> QED BY <2>1, <2>2
<1> QED BY <1>2, <1>3, <1>4

\* Nothing is on the stack when the next request asks.
LEMMA CleanResolve ==
  ASSUME Base, Clean, NEW c \in Containers, NEW t \in Tokens, NEW r \in Requests \union {Outside},
         Resolve(c, t, r)
  PROVE  Clean'
<1>1. stack = <<>> /\ scanned = Modules /\ todo'.do = "call" /\ stack' = <<>>
      /\ answer' = NoAnswer /\ UNCHANGED <<graph, scanned, exported, singletons, shared>>
  BY BaseResolve DEF Resolve
<1>2. NothingHeld' <=> NothingHeld
  BY <1>1, Fixed DEF NothingHeld, Held, Known, Target
<1>3. CacheClean' <=> CacheClean
  BY <1>1 DEF CacheClean
<1>4. FramesClean' /\ ReturnClean' /\ AnswerClean'
  <2>1. Len(<<>>) = 0
    BY EmptySeq
  <2> QED BY <1>1, <2>1 DEF FramesClean, ReturnClean, AnswerClean, NoAnswer
<1> QED BY <1>1, <1>2, <1>3, <1>4 DEF Clean

\* Nothing is kept before everything is scanned.
LEMMA CleanScan ==
  ASSUME Base, NEW m \in Modules, Scan(m)
  PROVE  Clean'
<1>1. todo = Idle /\ stack = <<>> /\ scanned # Modules
      /\ UNCHANGED <<graph, singletons, shared, resolving, stack, todo, asked, answer, remade>>
  BY BaseScan DEF Scan
<1>2. /\ \A p \in Pairs : singletons[p] = None
      /\ \A r \in Requests, t \in Tokens : shared[r][t] = None
      /\ answer = NoAnswer
  BY <1>1 DEF Base, Typed
<1>3. CacheClean'
  BY <1>1, <1>2, NoneTyped DEF CacheClean
<1>4. FramesClean' /\ ReturnClean' /\ AnswerClean'
  <2>1. Len(<<>>) = 0
    BY EmptySeq
  <2> QED BY <1>1, <1>2, <2>1 DEF FramesClean, ReturnClean, AnswerClean, NoAnswer, Idle
<1> QED BY <1>3, <1>4 DEF Clean

\* Nothing is kept at the start.
LEMMA CleanInit == Init => Clean
<1> SUFFICES ASSUME Init PROVE Clean
  OBVIOUS
<1>1. CacheClean
  BY NoneTyped DEF Init, CacheClean
<1>2. FramesClean /\ ReturnClean /\ AnswerClean
  <2>1. Len(<<>>) = 0
    BY EmptySeq
  <2> QED BY <2>1 DEF Init, FramesClean, ReturnClean, AnswerClean, NoAnswer, Idle
<1> QED BY <1>1, <1>2 DEF Clean

\* Requests are kept apart by every step.
LEMMA CleanNext == Base /\ Clean /\ [Next]_vars => Clean'
<1> SUFFICES ASSUME Base, Clean, [Next]_vars PROVE Clean'
  OBVIOUS
<1>1. CASE \E m \in Modules : Scan(m)
  BY <1>1, CleanScan
<1>2. CASE \E c \in Containers, t \in Tokens, r \in Requests \union {Outside} : Resolve(c, t, r)
  BY <1>2, CleanResolve
<1>3. CASE UNCHANGED vars
  <2>1. Still /\ UNCHANGED <<stack, todo, singletons, shared, answer>> /\ Top' = Top
    BY <1>3 DEF vars, Top, Still
  <2>2. CacheClean' <=> CacheClean
    BY <2>1 DEF CacheClean
  <2>3. FramesClean' <=> FramesClean
    BY <2>1, FixedClean DEF FramesClean
  <2>4. (ReturnClean' <=> ReturnClean) /\ (AnswerClean' <=> AnswerClean)
    BY <2>1, FixedClean DEF ReturnClean, AnswerClean
  <2> QED BY <2>1, <2>2, <2>3, <2>4, FixedClean DEF Clean
<1> QED
  BY <1>1, <1>2, <1>3, CleanMiss, CleanHit, CleanEnter, CleanInject, CleanFinish,
     CleanReturn, CleanThrow, CleanAnswer DEF Next

\* Where no singleton and no export depends on what lives shorter, a request is
\* never given an instance made for another one (container.ts:198-211).
THEOREM AlwaysIsolated == Spec => []IsolatedUnlessHeld
<1>1. Init => Base /\ Clean
  BY BaseInit, CleanInit
<1>2. Base /\ Clean /\ [Next]_vars => (Base /\ Clean)'
  BY BaseNext, CleanNext
<1>3. Base /\ Clean => IsolatedUnlessHeld
  <2> SUFFICES ASSUME Base, Clean, answer.kind = "instance", NothingHeld PROVE IsolatedUnlessHeld
    BY DEF IsolatedUnlessHeld
  <2>1. scanned = Modules
    BY DEF Base, Typed, NoAnswer
  <2> QED BY <2>1 DEF Clean, AnswerClean, IsolatedUnlessHeld, request
<1> QED BY <1>1, <1>2, <1>3, PTL DEF Spec

------------------------------------------------------------------------------
(* One instance *)

\* No request makes what comes back to itself, and no two modules share a cell.
Straight ==
    /\ \A p \in Known : Circles(p) => Scope(p[1], p[2]) # "request"
    /\ \A t \in Tokens : ~Clash(t)

\* What a frame is about to keep is not kept yet, and marked if it has to be.
FrameOpen(f) ==
    f.c # "parent" =>
        /\ Cached(f.c, f.t) = None
        /\ ~Scoped(f.c, f.t) => <<f.c, f.t>> \in resolving
Apart(f, g) == f.c # "parent" /\ g.c # "parent" => <<f.c, f.t>> # <<g.c, g.t>>
StackOpen ==
    /\ \A i \in 1..Len(stack) : FrameOpen(stack[i])
    /\ \A i, j \in 1..Len(stack) : i # j => Apart(stack[i], stack[j])
KeptOnce ==
    \A p \in Pairs :
        singletons[p] # None => Registered(p[1], p[2]) /\ Scope(p[1], p[2]) = "singleton"
Once == Straight /\ scanned = Modules => KeptOnce /\ StackOpen /\ ~remade

\* Circles, shared cells and scopes are fixed by the declarations.
LEMMA FixedOnce ==
  ASSUME Still
  PROVE  /\ Straight' <=> Straight
         /\ \A c, t : Scoped(c, t)' <=> Scoped(c, t)
         /\ request' = request /\ scanned' = scanned
         /\ UNCHANGED <<singletons, shared>> =>
               (KeptOnce' <=> KeptOnce) /\ \A c, t : Cached(c, t)' = Cached(c, t)
         /\ UNCHANGED <<singletons, shared, resolving>> => \A f : FrameOpen(f)' <=> FrameOpen(f)
<1>1. request' = request /\ scanned' = scanned
  BY DEF request, Still
<1>2. Known' = Known
  BY Fixed DEF Known, Still
<1>3. \A p : Circles(p)' <=> Circles(p)
  BY <1>2, Fixed DEF Circles, Still
<1>4. \A t : Clash(t)' <=> Clash(t)
  BY Fixed DEF Clash, Still
<1>5. Straight' <=> Straight
  BY <1>2, <1>3, <1>4, Fixed DEF Straight, Still
<1>6. \A c, t : Scoped(c, t)' <=> Scoped(c, t)
  BY <1>1, Fixed DEF Scoped, Still
<1>7. ASSUME UNCHANGED <<singletons, shared>>
      PROVE  (KeptOnce' <=> KeptOnce) /\ \A c, t : Cached(c, t)' = Cached(c, t)
  <2>1. \A c, t : Cached(c, t)' = Cached(c, t)
    BY <1>1, <1>6, <1>7 DEF Cached
  <2>2. KeptOnce' <=> KeptOnce
    BY <1>7, Fixed DEF KeptOnce, Still
  <2> QED BY <2>1, <2>2
<1>8. ASSUME UNCHANGED <<singletons, shared, resolving>> PROVE \A f : FrameOpen(f)' <=> FrameOpen(f)
  <2>1. \A c, t : Cached(c, t)' = Cached(c, t)
    BY <1>7, <1>8
  <2> QED BY <1>6, <1>8, <2>1 DEF FrameOpen
<1> QED BY <1>1, <1>5, <1>6, <1>7, <1>8

\* What is done to the stack.
LEMMA PopOpen ==
  ASSUME Base, StackOpen, stack # <<>>, stack' = Popped,
         \A f \in Frames : Fits(f) /\ Apart(f, Top) /\ FrameOpen(f) => FrameOpen(f)'
  PROVE  StackOpen'
<1>1. /\ Len(stack) \in Nat /\ Len(stack') = Len(stack) - 1 /\ Len(stack) > 0
      /\ Top = stack[Len(stack)]
      /\ \A j \in 1..(Len(stack) - 1) : stack'[j] = stack[j] /\ stack[j] \in Frames
  BY Stacks DEF Base, Typed
<1>2. ASSUME NEW i \in 1..Len(stack') PROVE FrameOpen(stack[i])'
  <2>1. i \in 1..(Len(stack) - 1) /\ i \in 1..Len(stack) /\ i # Len(stack)
          /\ Len(stack) \in 1..Len(stack)
    BY <1>1
  <2>2. PICK f : f = stack[i]
    OBVIOUS
  <2>3. f \in Frames /\ Fits(f) /\ Apart(f, Top) /\ FrameOpen(f) /\ stack'[i] = f
    BY <1>1, <2>1, <2>2 DEF StackOpen, Base, Linked
  <2> QED BY <2>3
<1>3. ASSUME NEW i \in 1..Len(stack'), NEW j \in 1..Len(stack'), i # j
      PROVE  Apart(stack[i], stack[j])'
  <2>1. stack'[i] = stack[i] /\ stack'[j] = stack[j] /\ i \in 1..Len(stack) /\ j \in 1..Len(stack)
    BY <1>1
  <2>2. Apart(stack[i], stack[j])
    BY <1>3, <2>1 DEF StackOpen
  <2> QED BY <2>1, <2>2 DEF Apart
<1> QED BY <1>2, <1>3 DEF StackOpen

\* The frame on top goes on: its provider is the same.
LEMMA PutOpen ==
  ASSUME Base, StackOpen, Still, UNCHANGED <<singletons, shared, resolving>>, stack # <<>>,
         NEW f \in Frames, f.c = Top.c, f.t = Top.t, stack' = Put(f)
  PROVE  StackOpen'
<1>1. /\ Len(stack) \in Nat /\ Len(stack') = Len(stack) /\ Len(stack) > 0
      /\ Top = stack[Len(stack)] /\ stack'[Len(stack)] = f
      /\ \A j \in 1..(Len(stack) - 1) : stack'[j] = stack[j]
  BY Stacks DEF Base, Typed
<1>2. ASSUME NEW i \in 1..Len(stack')
      PROVE  stack'[i].c = stack[i].c /\ stack'[i].t = stack[i].t /\ i \in 1..Len(stack)
  <2>1. i = Len(stack) \/ i \in 1..(Len(stack) - 1)
    BY <1>1
  <2> QED BY <1>1, <2>1
<1>3. ASSUME NEW i \in 1..Len(stack') PROVE FrameOpen(stack[i])'
  <2>1. PICK g, h : g = stack[i] /\ h = stack'[i]
    OBVIOUS
  <2>2. FrameOpen(g) /\ g.c = h.c /\ g.t = h.t
    BY <1>2, <2>1 DEF StackOpen
  <2>3. FrameOpen(h)
    BY <2>2 DEF FrameOpen
  <2> QED BY <2>1, <2>3, FixedOnce
<1>4. ASSUME NEW i \in 1..Len(stack'), NEW j \in 1..Len(stack'), i # j
      PROVE  Apart(stack[i], stack[j])'
  <2>1. Apart(stack[i], stack[j])
    BY <1>2, <1>4 DEF StackOpen
  <2> QED BY <1>2, <2>1 DEF Apart
<1> QED BY <1>3, <1>4 DEF StackOpen

\* One more frame, of a provider that no other frame is at work on.
LEMMA PushOpen ==
  ASSUME Base, StackOpen, NEW f \in Frames, stack' = Append(stack, f), FrameOpen(f)',
         \A g \in Frames : FrameOpen(g) => FrameOpen(g)',
         \A i \in 1..Len(stack) : Apart(stack[i], f)
  PROVE  StackOpen'
<1>1. /\ Len(stack) \in Nat /\ Len(stack') = Len(stack) + 1
      /\ stack'[Len(stack) + 1] = f
      /\ \A j \in 1..Len(stack) : stack'[j] = stack[j] /\ stack[j] \in Frames
  BY Stacks DEF Base, Typed
<1>2. ASSUME NEW i \in 1..Len(stack') PROVE FrameOpen(stack[i])'
  <2>1. i = Len(stack) + 1 \/ i \in 1..Len(stack)
    BY <1>1
  <2>2. PICK g : g = stack'[i]
    OBVIOUS
  <2>3. FrameOpen(g)'
    BY <1>1, <2>1, <2>2 DEF StackOpen
  <2> QED BY <2>2, <2>3
<1>3. ASSUME NEW i \in 1..Len(stack'), NEW j \in 1..Len(stack'), i # j
      PROVE  Apart(stack[i], stack[j])'
  <2>1. (i = Len(stack) + 1 \/ i \in 1..Len(stack)) /\ (j = Len(stack) + 1 \/ j \in 1..Len(stack))
    BY <1>1
  <2>2. PICK g, h : g = stack'[i] /\ h = stack'[j]
    OBVIOUS
  <2>3. CASE i \in 1..Len(stack) /\ j \in 1..Len(stack)
    <3>1. Apart(g, h)
      BY <1>1, <1>3, <2>2, <2>3 DEF StackOpen
    <3> QED BY <2>2, <3>1 DEF Apart
  <2>4. CASE i = Len(stack) + 1 /\ j \in 1..Len(stack)
    <3>1. g = f /\ Apart(h, f)
      BY <1>1, <2>2, <2>4
    <3> QED BY <2>2, <3>1 DEF Apart
  <2>5. CASE j = Len(stack) + 1 /\ i \in 1..Len(stack)
    <3>1. h = f /\ Apart(g, f)
      BY <1>1, <2>2, <2>5
    <3> QED BY <2>2, <3>1 DEF Apart
  <2> QED BY <1>3, <2>1, <2>3, <2>4, <2>5
<1> QED BY <1>2, <1>3 DEF StackOpen

\* Who comes back to a provider of the request that is being made has gone round in a circle.
LEMMA NoWayBack ==
  ASSUME Base, Straight, todo.do = "call", Registered(todo.c, todo.t), Scoped(todo.c, todo.t),
         NEW i \in 1..Len(stack), stack[i].c # "parent"
  PROVE  <<stack[i].c, stack[i].t>> # <<todo.c, todo.t>>
<1> SUFFICES ASSUME <<stack[i].c, stack[i].t>> = <<todo.c, todo.t>> PROVE FALSE
  OBVIOUS
<1> DEFINE pair(k) == <<stack[k].c, stack[k].t>>
           K == {k \in 1..Len(stack) : i <= k /\ stack[k].c # "parent"}
           X == {pair(k) : k \in K}
<1>1. /\ Len(stack) \in Nat /\ \A k \in 1..Len(stack) : stack[k] \in Frames /\ Fits(stack[k])
      /\ \A k \in 1..(Len(stack) - 1) : Link(stack[k], stack[k + 1])
      /\ stack # <<>> /\ Top = stack[Len(stack)]
  BY Stacks DEF Base, Typed, Linked
<1>2. PICK p : p = <<todo.c, todo.t>>
  OBVIOUS
<1>3. p[1] = todo.c /\ p[2] = todo.t /\ Target(p) = p /\ Leads(Top, p)
      /\ p \in Known /\ Scope(p[1], p[2]) = "request"
  <2>1. todo.c \in Containers /\ todo.t \in Tokens
    BY TodoTyped DEF Base
  <2>2. p[1] = todo.c /\ p[2] = todo.t /\ p \in Pairs
    BY <1>2, <2>1 DEF Pairs
  <2>3. Target(p) = p
    BY <1>2, <2>1, GraphTyped DEF Base
  <2> QED BY <1>1, <1>2, <2>2, <2>3 DEF Base, Linked, Known, Scoped
<1>4. p \in X
  <2>1. i \in K
    BY <1>1
  <2> QED BY <1>2, <2>1
<1>5. X \subseteq Known
  <2> SUFFICES ASSUME NEW k \in K PROVE pair(k) \in Known
    OBVIOUS
  <2>1. stack[k] \in Frames /\ Fits(stack[k]) /\ stack[k].c # "parent"
    BY <1>1
  <2>2. PICK q : q = pair(k)
    OBVIOUS
  <2>3. q[1] = stack[k].c /\ q[2] = stack[k].t
    BY <2>2
  <2> QED BY <2>1, <2>2, <2>3 DEF Fits, Frames, Known, Pairs
<1>6. ASSUME NEW k \in K PROVE \E d \in Deps(stack[k].c, stack[k].t) : Target(d) \in X
  <2>1. k \in 1..Len(stack) /\ i <= k /\ stack[k].c # "parent"
    BY <1>1
  <2>2. CASE k = Len(stack)
    <3>1. \E d \in Deps(stack[k].c, stack[k].t) : Target(d) = p
      BY <1>1, <1>3, <2>1, <2>2 DEF Leads, Aim
    <3> QED BY <1>4, <3>1
  <2>3. CASE k # Len(stack)
    <3>1. k \in 1..(Len(stack) - 1) /\ k + 1 \in 1..Len(stack) /\ i <= k + 1
      BY <1>1, <2>1, <2>3
    <3>2. PICK g : g = stack[k + 1]
      OBVIOUS
    <3>3. \E d \in Deps(stack[k].c, stack[k].t) : Target(d) = Goal(g)
      BY <1>1, <2>1, <3>1, <3>2 DEF Link, Leads, Aim
    <3>4. Goal(g) \in X
      <4>1. CASE g.c # "parent"
        <5>1. k + 1 \in K /\ Goal(g) = pair(k + 1)
          BY <3>1, <3>2, <4>1 DEF Goal
        <5> QED BY <5>1
      <4>2. CASE g.c = "parent" /\ k + 1 = Len(stack)
        <5>1. Goal(g) = p
          BY <1>1, <1>3, <3>2, <4>2 DEF Leads, Aim, Goal
        <5> QED BY <1>4, <5>1
      <4>3. CASE g.c = "parent" /\ k + 1 # Len(stack)
        <5>1. k + 1 \in 1..(Len(stack) - 1) /\ k + 2 \in 1..Len(stack) /\ i <= k + 2
                /\ (k + 1) + 1 = k + 2
          BY <1>1, <3>1, <4>3
        <5>2. PICK h : h = stack[k + 2]
          OBVIOUS
        <5>3. Link(g, h)
          BY <1>1, <3>2, <5>1, <5>2
        <5>4. h.c # "parent" /\ Goal(h) = Goal(g)
          BY <4>3, <5>3 DEF Link, Leads, Aim, Goal
        <5>5. k + 2 \in K /\ Goal(h) = pair(k + 2)
          BY <5>1, <5>2, <5>4 DEF Goal
        <5> QED BY <5>4, <5>5
      <4> QED BY <4>1, <4>2, <4>3
    <3> QED BY <3>3, <3>4
  <2> QED BY <2>2, <2>3
<1>7. \A x \in X : \E d \in Deps(x[1], x[2]) : Target(d) \in X
  <2> SUFFICES ASSUME NEW k \in K, NEW x, x = pair(k)
               PROVE  \E d \in Deps(x[1], x[2]) : Target(d) \in X
    OBVIOUS
  <2>1. x[1] = stack[k].c /\ x[2] = stack[k].t
    OBVIOUS
  <2> QED BY <1>6, <2>1
<1> HIDE DEF X
<1>8. Circles(p)
  BY <1>4, <1>5, <1>7 DEF Circles
<1> QED BY <1>3, <1>8 DEF Straight

\* A step of a resolution that fills no cache.
LEMMA OnceStep ==
  ASSUME Base, Once, Still, todo.do # "idle", UNCHANGED <<singletons, shared, remade>>,
         Straight /\ StackOpen => StackOpen'
  PROVE  Once'
  BY FixedOnce DEF Once

\* Nothing is kept, and no mark is made or taken away.
LEMMA OnceQuiet ==
  ASSUME Base, Once, Still, todo.do # "idle", UNCHANGED <<singletons, shared, resolving, remade>>,
         \/ UNCHANGED stack
         \/ stack # <<>> /\ stack' = Popped
         \/ stack # <<>> /\ \E f \in Frames : f.c = Top.c /\ f.t = Top.t /\ stack' = Put(f)
         \/ \E f \in Frames : f.c = "parent" /\ stack' = Append(stack, f)
  PROVE  Once'
<1> SUFFICES ASSUME StackOpen PROVE StackOpen'
  BY OnceStep
<1>1. CASE UNCHANGED stack
  BY <1>1, FixedOnce DEF StackOpen, Apart
<1>2. CASE stack # <<>> /\ stack' = Popped
  <2>1. \A f : FrameOpen(f)' <=> FrameOpen(f)
    BY FixedOnce
  <2> QED BY <1>2, <2>1, PopOpen
<1>3. CASE stack # <<>> /\ \E f \in Frames : f.c = Top.c /\ f.t = Top.t /\ stack' = Put(f)
  BY <1>3, PutOpen
<1>4. ASSUME NEW f \in Frames, f.c = "parent", stack' = Append(stack, f) PROVE StackOpen'
  <2>1. \A g : FrameOpen(g)' <=> FrameOpen(g)
    BY FixedOnce
  <2>2. FrameOpen(f) /\ \A i \in 1..Len(stack) : Apart(stack[i], f)
    BY <1>4 DEF FrameOpen, Apart
  <2> QED BY <1>4, <2>1, <2>2, PushOpen
<1> QED BY <1>1, <1>2, <1>3, <1>4

\* A call that makes nothing.
LEMMA OnceMiss ==
  ASSUME Base, Once, Circular \/ Hit \/ Miss
  PROVE  Once'
<1>1. /\ todo.do = "call" /\ Still
      /\ UNCHANGED <<singletons, shared, resolving, remade>>
      /\ \/ UNCHANGED stack
         \/ stack' = Append(stack, Frame("parent", todo.t, {}))
  BY DEF Circular, Hit, Miss, Calling, Rest, Still
<1>2. PICK f : f = Frame("parent", todo.t, {})
  OBVIOUS
<1>3. f \in Frames /\ f.c = "parent"
  <2>1. PICK t : t = todo.t /\ t \in Tokens
    BY <1>1, TodoTyped DEF Base
  <2> QED BY <1>2, <2>1, FrameTyped
<1> QED BY <1>1, <1>2, <1>3, OnceQuiet

\* The frame asks for a dependency.
LEMMA OnceInject ==
  ASSUME Base, Once, Inject
  PROVE  Once'
<1>1. PICK f \in Frames :
            /\ todo.do = "work" /\ Still /\ stack # <<>> /\ f.c = Top.c /\ f.t = Top.t
            /\ stack' = Put(f) /\ UNCHANGED <<singletons, shared, resolving, answer, remade>>
  BY Injected
<1> QED BY <1>1, OnceQuiet

\* The frame is given its dependency.
LEMMA OnceReturn ==
  ASSUME Base, Once, Return
  PROVE  Once'
<1>1. /\ todo.do = "return" /\ stack # <<>> /\ Still
      /\ UNCHANGED <<singletons, shared, resolving, answer, remade>>
  BY DEF Return, Rest, Still
<1>2. stack' = Popped \/ \E f \in Frames : f.c = Top.c /\ f.t = Top.t /\ stack' = Put(f)
  <2>1. CASE Top.c = "parent"
    BY <2>1 DEF Return
  <2>2. CASE Top.c # "parent"
    BY <2>2, Returned
  <2> QED BY <2>1, <2>2
<1> QED BY <1>1, <1>2, OnceQuiet

\* The program is answered.
LEMMA OnceAnswer ==
  ASSUME Base, Once, Answer
  PROVE  Once'
<1>1. /\ todo.do # "idle" /\ Still /\ UNCHANGED <<singletons, shared, resolving, stack, remade>>
  BY DEF Answer, Rest, Still
<1> QED BY <1>1, OnceQuiet

\* The mark of the frame on top goes with it: no other frame has the same.
LEMMA OnceThrow ==
  ASSUME Base, Once, Throw
  PROVE  Once'
<1>1. /\ todo.do = "throw" /\ stack # <<>> /\ Still /\ UNCHANGED <<singletons, shared, remade>>
      /\ \/ UNCHANGED <<stack, resolving>>
         \/ /\ stack' = Popped
            /\ resolving' = IF Top.c = "parent" \/ Scoped(Top.c, Top.t) THEN resolving
                            ELSE resolving \ {<<Top.c, Top.t>>}
  BY DEF Throw, Rest, Still
<1>2. CASE UNCHANGED <<stack, resolving>>
  BY <1>1, <1>2, OnceQuiet
<1>3. CASE ~UNCHANGED <<stack, resolving>>
  <2> SUFFICES ASSUME StackOpen PROVE StackOpen'
    BY <1>1, OnceStep
  <2>1. ASSUME NEW f \in Frames, Fits(f), Apart(f, Top), FrameOpen(f) PROVE FrameOpen(f)'
    <3>1. (Scoped(f.c, f.t)' <=> Scoped(f.c, f.t)) /\ Cached(f.c, f.t)' = Cached(f.c, f.t)
      BY <1>1, FixedOnce
    <3>2. f.c # "parent" /\ <<f.c, f.t>> \in resolving => <<f.c, f.t>> \in resolving'
      BY <1>1, <1>3, <2>1 DEF Apart
    <3> QED BY <2>1, <3>1, <3>2 DEF FrameOpen
  <2> QED BY <1>1, <1>3, <2>1, PopOpen
<1> QED BY <1>2, <1>3

\* Nobody is at work yet on what is about to be made.
LEMMA OnceEnter ==
  ASSUME Base, Once, Enter
  PROVE  Once'
<1>1. CASE todo' # [do |-> "work"]
  BY <1>1, Overflown, OnceQuiet
<1>2. CASE todo' = [do |-> "work"]
  <2>1. PICK f \in Frames :
            /\ f.c = todo.c /\ f.t = todo.t /\ stack' = Append(stack, f)
            /\ f.c \in Containers /\ f.t \in Tokens /\ f.c # "parent"
            /\ Registered(f.c, f.t) /\ Cached(f.c, f.t) = None /\ <<f.c, f.t>> \notin resolving
            /\ resolving' = IF Scoped(f.c, f.t) THEN resolving ELSE resolving \union {<<f.c, f.t>>}
            /\ UNCHANGED <<singletons, shared, answer, remade>> /\ Still /\ todo.do = "call"
    BY <1>2, Entered
  <2> SUFFICES ASSUME Straight, StackOpen PROVE StackOpen'
    BY <2>1, OnceStep
  <2>2. \A c, t : (Scoped(c, t)' <=> Scoped(c, t)) /\ Cached(c, t)' = Cached(c, t)
    BY <2>1, FixedOnce
  <2>3. FrameOpen(f)'
    <3>1. ~Scoped(f.c, f.t) => <<f.c, f.t>> \in resolving'
      BY <2>1
    <3> QED BY <2>1, <2>2, <3>1 DEF FrameOpen
  <2>4. ASSUME NEW g \in Frames, FrameOpen(g) PROVE FrameOpen(g)'
    <3>1. resolving \subseteq resolving'
      BY <2>1
    <3> QED BY <2>2, <2>4, <3>1 DEF FrameOpen
  <2>5. ASSUME NEW i \in 1..Len(stack) PROVE Apart(stack[i], f)
    <3> SUFFICES ASSUME stack[i].c # "parent", <<stack[i].c, stack[i].t>> = <<f.c, f.t>> PROVE FALSE
      BY DEF Apart
    <3>1. FrameOpen(stack[i]) /\ stack[i].c = f.c /\ stack[i].t = f.t
      BY DEF StackOpen
    <3>2. Scoped(f.c, f.t)
      BY <2>1, <3>1 DEF FrameOpen
    <3> QED BY <2>1, <3>1, <3>2, NoWayBack
  <2> QED BY <2>1, <2>3, <2>4, <2>5, PushOpen
<1> QED BY <1>1, <1>2

\* The cell that is filled was empty, and it is nobody else's.
LEMMA OnceFinish ==
  ASSUME Base, Once, Finish
  PROVE  Once'
<1>1. /\ todo.do = "work" /\ stack' = Popped /\ Still
      /\ IF Scoped(Top.c, Top.t)
         THEN /\ shared' = [shared EXCEPT ![request][Top.t] = Product]
              /\ UNCHANGED <<singletons, resolving>>
         ELSE /\ singletons' = IF Scope(Top.c, Top.t) = "singleton"
                               THEN [singletons EXCEPT ![<<Top.c, Top.t>>] = Product]
                               ELSE singletons
              /\ resolving' = resolving \ {<<Top.c, Top.t>>}
              /\ UNCHANGED shared
      /\ remade' = (remade \/ Refills)
  BY DEF Finish, Rest, Still
<1> SUFFICES ASSUME Straight, KeptOnce, StackOpen, ~remade
             PROVE  KeptOnce' /\ StackOpen' /\ ~remade'
  BY <1>1, FixedOnce DEF Once
<1>2. stack # <<>> /\ Top \in Frames /\ Top.c # "parent" /\ Top.c \in Containers /\ Top.t \in Tokens
      /\ Registered(Top.c, Top.t) /\ Top = stack[Len(stack)] /\ Len(stack) \in 1..Len(stack)
  BY <1>1, TopTyped, Stacks DEF Base, Typed
<1>3. PICK g : g = Top
  OBVIOUS
<1>4. PICK P : P = Product
  OBVIOUS
<1>5. ~Refills
  BY <1>2 DEF StackOpen, FrameOpen, Refills
<1>6. ~remade'
  BY <1>1, <1>5
<1>7. KeptOnce'
  <2>1. ASSUME NEW p \in Pairs, singletons'[p] # None
        PROVE  Registered(p[1], p[2]) /\ Scope(p[1], p[2]) = "singleton"
    <3>1. CASE singletons'[p] = singletons[p]
      BY <2>1, <3>1 DEF KeptOnce
    <3>2. CASE singletons'[p] # singletons[p]
      <4>1. Scope(g.c, g.t) = "singleton" /\ p = <<g.c, g.t>>
        BY <1>1, <1>3, <1>4, <3>2 DEF Base, Typed
      <4>2. p[1] = g.c /\ p[2] = g.t
        BY <4>1
      <4> QED BY <1>2, <1>3, <4>1, <4>2
    <3> QED BY <3>1, <3>2
  <2>2. \A c, t : (Registered(c, t)' <=> Registered(c, t)) /\ Scope(c, t)' = Scope(c, t)
    BY <1>1, Fixed DEF Still
  <2> QED BY <2>1, <2>2 DEF KeptOnce
<1>8. ASSUME NEW f \in Frames, Fits(f), Apart(f, Top), FrameOpen(f) PROVE FrameOpen(f)'
  <2> SUFFICES ASSUME f.c # "parent" PROVE FrameOpen(f)'
    BY DEF FrameOpen
  <2>1. <<f.c, f.t>> # <<g.c, g.t>> /\ Registered(f.c, f.t) /\ f.c \in Containers /\ f.t \in Tokens
        /\ Cached(f.c, f.t) = None /\ (~Scoped(f.c, f.t) => <<f.c, f.t>> \in resolving)
    BY <1>2, <1>3, <1>8 DEF Apart, Fits, Frames, FrameOpen
  <2>2. (Scoped(f.c, f.t)' <=> Scoped(f.c, f.t)) /\ request' = request
    BY <1>1, FixedOnce
  <2>3. ~Scoped(f.c, f.t) => <<f.c, f.t>> \in resolving'
    BY <1>1, <1>3, <2>1
  <2>4. singletons'[<<f.c, f.t>>] = singletons[<<f.c, f.t>>]
    <3>1. <<f.c, f.t>> \in Pairs
      BY <2>1 DEF Pairs
    <3> QED BY <1>1, <1>3, <1>4, <2>1, <3>1 DEF Base, Typed
  <2>5. Scoped(f.c, f.t) => shared'[request][f.t] = shared[request][f.t]
    <3> SUFFICES ASSUME Scoped(f.c, f.t), shared'[request][f.t] # shared[request][f.t] PROVE FALSE
      OBVIOUS
    <3>1. Scoped(g.c, g.t) /\ shared' = [shared EXCEPT ![request][g.t] = P] /\ request \in Requests
      BY <1>1, <1>3, <1>4 DEF Scoped, Base, Typed
    <3>2. f.t = g.t
      BY <2>1, <3>1 DEF Base, Typed
    <3>3. f.c # g.c /\ Scope(f.c, f.t) = "request" /\ Scope(g.c, g.t) = "request"
      BY <2>1, <3>1, <3>2 DEF Scoped
    <3>4. f.c \in Modules /\ g.c \in Modules
      BY <1>2, <1>3, <2>1, <3>3 DEF Containers, Scope
    <3>5. PICK t : t = g.t
      OBVIOUS
    <3>6. Clash(t)
      <4>1. \A m \in {f.c, g.c} : Registered(m, t) /\ Scope(m, t) = "request"
        BY <1>2, <1>3, <2>1, <3>2, <3>3, <3>5
      <4> QED BY <3>3, <3>4, <4>1 DEF Clash
    <3> QED BY <1>2, <1>3, <3>5, <3>6 DEF Straight
  <2>6. Cached(f.c, f.t)' = None
    BY <2>1, <2>2, <2>4, <2>5 DEF Cached
  <2> QED BY <2>2, <2>3, <2>6 DEF FrameOpen
<1>9. StackOpen'
  BY <1>1, <1>2, <1>8, PopOpen
<1> QED BY <1>6, <1>7, <1>9

\* The program asks.
LEMMA OnceResolve ==
  ASSUME Base, Once, NEW c \in Containers, NEW t \in Tokens, NEW r \in Requests \union {Outside},
         Resolve(c, t, r)
  PROVE  Once'
<1>1. stack' = <<>> /\ UNCHANGED <<graph, scanned, exported, singletons, shared, remade>>
  BY BaseResolve DEF Resolve
<1>2. Straight' <=> Straight
  <2>1. Known' = Known
    BY <1>1, Fixed DEF Known
  <2>2. \A p : Circles(p)' <=> Circles(p)
    BY <1>1, <2>1, Fixed DEF Circles
  <2>3. \A x : Clash(x)' <=> Clash(x)
    BY <1>1, Fixed DEF Clash
  <2> QED BY <1>1, <2>1, <2>2, <2>3, Fixed DEF Straight
<1>3. KeptOnce' <=> KeptOnce
  BY <1>1, Fixed DEF KeptOnce
<1>4. StackOpen'
  <2>1. Len(<<>>) = 0
    BY EmptySeq
  <2> QED BY <1>1, <2>1 DEF StackOpen
<1> QED BY <1>1, <1>2, <1>3, <1>4 DEF Once

\* Nothing has been made yet.
LEMMA OnceScan ==
  ASSUME Base, NEW m \in Modules, Scan(m)
  PROVE  Once'
<1>1. stack = <<>> /\ scanned # Modules
      /\ UNCHANGED <<singletons, shared, stack, remade>>
  BY BaseScan DEF Scan
<1>2. ~remade /\ \A p \in Pairs : singletons[p] = None
  BY <1>1 DEF Base, Typed
<1>3. StackOpen'
  <2>1. Len(<<>>) = 0
    BY EmptySeq
  <2> QED BY <1>1, <2>1 DEF StackOpen
<1>4. KeptOnce'
  <2>1. None' = None
    BY DEF None
  <2> QED BY <1>1, <1>2, <2>1 DEF KeptOnce
<1> QED BY <1>1, <1>2, <1>3, <1>4 DEF Once

\* Nothing is kept at the start.
LEMMA OnceInit == Init => Once
<1> SUFFICES ASSUME Init PROVE Once
  OBVIOUS
<1>1. KeptOnce /\ ~remade
  BY DEF Init, KeptOnce
<1>2. StackOpen
  <2>1. Len(<<>>) = 0
    BY EmptySeq
  <2> QED BY <2>1 DEF Init, StackOpen
<1> QED BY <1>1, <1>2 DEF Once

\* Every step makes at most the first instance.
LEMMA OnceNext == Base /\ Once /\ [Next]_vars => Once'
<1> SUFFICES ASSUME Base, Once, [Next]_vars PROVE Once'
  OBVIOUS
<1>1. CASE \E m \in Modules : Scan(m)
  BY <1>1, OnceScan
<1>2. CASE \E c \in Containers, t \in Tokens, r \in Requests \union {Outside} : Resolve(c, t, r)
  BY <1>2, OnceResolve
<1>3. CASE UNCHANGED vars
  <2>1. Still /\ UNCHANGED <<stack, singletons, shared, resolving, remade>>
    BY <1>3 DEF vars, Still
  <2>2. StackOpen' <=> StackOpen
    BY <2>1, FixedOnce DEF StackOpen, Apart
  <2> QED BY <2>1, <2>2, FixedOnce DEF Once
<1> QED
  BY <1>1, <1>2, <1>3, OnceMiss, OnceEnter, OnceInject, OnceFinish,
     OnceReturn, OnceThrow, OnceAnswer DEF Next

\* A container makes one instance of a singleton for ever, and a request one of its
\* own, but for circles through a request and cells that two modules share
\* (container.ts:195-211, 240-246).
THEOREM OneInstanceAlways == Spec => []OneInstance
<1>1. Init => Base /\ Once
  BY BaseInit, OnceInit
<1>2. Base /\ Once /\ [Next]_vars => (Base /\ Once)'
  BY BaseNext, OnceNext
<1>3. Base /\ Once => OneInstance
  <2> SUFFICES ASSUME Base, Once, remade, Straight PROVE FALSE
    BY DEF OneInstance, Straight
  <2>1. scanned = Modules
    BY DEF Base, Typed
  <2> QED BY <2>1 DEF Once
<1> QED BY <1>1, <1>2, <1>3, PTL DEF Spec

------------------------------------------------------------------------------
(* What is asked for and what is marked *)

\* The provider the program has asked for, and the one that is asked for now.
Wanted == Target(<<asked[1], asked[2]>>)
Sought == IF stack = <<>> THEN Wanted ELSE Aim(Top)

\* From the call of the program on, each call is made for the one below it.
Bound ==
    /\ stack # <<>> => Goal(stack[1]) = Wanted
    /\ todo.do = "call" => Sought = Target(<<todo.c, todo.t>>)
    /\ todo.do \in {"return", "throw"} /\ stack # <<>> => Leads(Top, Aim(Top))

\* What is marked is being made.
Makes(f, x) == f.c # "parent" /\ ~Scoped(f.c, f.t) /\ x = <<f.c, f.t>>
Marked == \A x \in resolving : \E i \in 1..Len(stack) : Makes(stack[i], x)

Quiet == answer # NoAnswer => todo.do = "idle" /\ scanned = Modules

Sound == Bound /\ Marked /\ Quiet

\* What is asked for, and what a frame has to mark, is fixed by the call.
LEMMA FixedBound ==
  ASSUME Still
  PROVE  /\ Wanted' = Wanted
         /\ \A f : Aim(f)' = Aim(f)
         /\ \A f, x : Makes(f, x)' <=> Makes(f, x)
         /\ \A c, t : Scoped(c, t)' <=> Scoped(c, t)
<1>1. Wanted' = Wanted
  BY Fixed DEF Wanted, Still
<1>2. \A f : Aim(f)' = Aim(f)
  BY Fixed DEF Aim, Still
<1>3. \A c, t : Scoped(c, t)' <=> Scoped(c, t)
  BY Fixed DEF Scoped, request, Still
<1>4. \A f, x : Makes(f, x)' <=> Makes(f, x)
  BY <1>3 DEF Makes
<1> QED BY <1>1, <1>2, <1>3, <1>4

\* The call that comes back to the frame below was made for the one on top.
LEMMA PopBound ==
  ASSUME Base, Bound, Still, stack # <<>>, stack' = Popped
  PROVE  /\ Sought' = Goal(Top)
         /\ stack' # <<>> => Goal(stack[1])' = Wanted' /\ Leads(Top, Aim(Top))'
<1>1. /\ Len(stack) \in Nat /\ Len(stack) > 0 /\ Len(stack') = Len(stack) - 1
      /\ stack' \in Seq(Frames) /\ Top = stack[Len(stack)]
      /\ \A i \in 1..(Len(stack) - 1) : stack'[i] = stack[i]
      /\ stack' = <<>> <=> Len(stack') = 0
  <2>1. stack' \in Seq(Frames)
    BY PopTop DEF Base
  <2> QED BY <2>1, Stacks, EmptySeq DEF Base, Typed
<1>2. CASE Len(stack) = 1
  <2>1. stack' = <<>> /\ Top = stack[1]
    BY <1>1, <1>2
  <2> QED BY <2>1, FixedBound DEF Bound, Sought
<1>3. CASE Len(stack) # 1
  <2>1. PICK n : n = Len(stack) - 1 /\ n \in 1..(Len(stack) - 1) /\ n + 1 = Len(stack)
    BY <1>1, <1>3
  <2>2. PICK f, g : f = stack[n] /\ g = Top
    OBVIOUS
  <2>3. Link(f, g)
    BY <1>1, <2>1, <2>2 DEF Base, Linked
  <2>4. stack' # <<>> /\ Top' = f /\ stack'[1] = stack[1]
    <3>1. Top' = stack'[Len(stack')]
      BY DEF Top
    <3> QED BY <1>1, <2>1, <2>2, <3>1
  <2>5. Goal(g) = Aim(f) /\ Leads(f, Aim(f))
    BY <2>3 DEF Link, Leads
  <2>6. Leads(f, Aim(f))' /\ Aim(f)' = Aim(f)
    BY <2>5, Fixed, FixedBound DEF Still
  <2>7. Sought' = Goal(Top)
    BY <2>2, <2>4, <2>5, <2>6 DEF Sought
  <2>8. Goal(stack[1])' = Wanted'
    BY <2>4, FixedBound DEF Bound, Goal
  <2> QED BY <2>4, <2>6, <2>7, <2>8
<1> QED BY <1>2, <1>3

\* Another frame on top: the one below all others is the same.
LEMMA PutBound ==
  ASSUME Base, Bound, Still, stack # <<>>, NEW f \in Frames, stack' = Put(f),
         f.c = Top.c, f.t = Top.t
  PROVE  stack' # <<>> /\ Top' = f /\ Goal(stack[1])' = Wanted' /\ Sought' = Aim(f)
<1>1. stack' # <<>> /\ Top' = f
  BY PutTop DEF Base
<1>2. PICK g, h : g = stack[1] /\ h = stack'[1]
  OBVIOUS
<1>3. Goal(h) = Goal(g)
  <2>1. /\ Len(stack) \in Nat /\ Len(stack) > 0 /\ Top = stack[Len(stack)]
        /\ stack'[Len(stack)] = f
        /\ \A i \in 1..(Len(stack) - 1) : stack'[i] = stack[i]
    BY Stacks DEF Base, Typed
  <2>2. CASE Len(stack) = 1
    BY <1>2, <2>1, <2>2 DEF Goal
  <2>3. CASE Len(stack) # 1
    <3>1. PICK n : n = Len(stack) /\ n \in Nat /\ n > 0 /\ n # 1
      BY <2>1, <2>3
    <3>2. 1 \in 1..(n - 1)
      BY <3>1
    <3> QED BY <1>2, <2>1, <3>1, <3>2
  <2> QED BY <2>2, <2>3
<1>4. Goal(h) = Wanted'
  BY <1>2, <1>3, FixedBound DEF Bound
<1>5. Sought' = Aim(f)
  BY <1>1, FixedBound DEF Sought
<1> QED BY <1>1, <1>2, <1>4, <1>5 DEF Goal

\* A frame for the call: the one below all others is for the program's.
LEMMA PushBound ==
  ASSUME Base, Bound, Still, NEW f \in Frames, stack' = Append(stack, f),
         todo.do = "call", Goal(f) = Target(<<todo.c, todo.t>>)
  PROVE  stack' # <<>> /\ Top' = f /\ Goal(stack[1])' = Wanted' /\ Sought' = Aim(f)
<1>1. /\ Len(stack) \in Nat /\ Len(stack') = Len(stack) + 1
      /\ stack' \in Seq(Frames) /\ stack'[Len(stack) + 1] = f /\ (stack # <<>> <=> Len(stack) > 0)
      /\ \A i \in 1..Len(stack) : stack'[i] = stack[i]
  BY Stacks DEF Base, Typed
<1>2. stack' # <<>> /\ Top' = f
  <2>1. Top' = stack'[Len(stack')]
    BY DEF Top
  <2> QED BY <1>1, <2>1, EmptySeq
<1>3. PICK h : h = stack'[1]
  OBVIOUS
<1>4. Goal(h) = Wanted
  <2>1. CASE stack = <<>>
    BY <1>1, <1>3, <2>1 DEF Bound, Sought
  <2>2. CASE stack # <<>>
    BY <1>1, <1>3, <2>2 DEF Bound
  <2> QED BY <2>1, <2>2
<1>5. Sought' = Aim(f)
  BY <1>2, FixedBound DEF Sought
<1> QED BY <1>2, <1>3, <1>4, <1>5, FixedBound DEF Goal

\* The marks of the frames that stay.
LEMMA MarkedKept ==
  ASSUME Base, Marked, Still,
         \/ UNCHANGED stack /\ resolving' \subseteq resolving
         \/ /\ stack # <<>> /\ stack' = Popped /\ resolving' \subseteq resolving
            /\ \A x \in resolving' : ~Makes(Top, x)
         \/ /\ stack # <<>> /\ resolving' \subseteq resolving
            /\ \E f \in Frames : f.c = Top.c /\ f.t = Top.t /\ stack' = Put(f)
         \/ \E f \in Frames : /\ stack' = Append(stack, f)
                              /\ \A x \in resolving' : x \in resolving \/ Makes(f, x)
  PROVE  Marked'
<1> SUFFICES ASSUME NEW x \in resolving' PROVE \E i \in 1..Len(stack') : Makes(stack'[i], x)
  BY FixedBound DEF Marked
<1>1. CASE UNCHANGED stack /\ resolving' \subseteq resolving
  BY <1>1 DEF Marked
<1>2. CASE /\ stack # <<>> /\ stack' = Popped /\ resolving' \subseteq resolving
           /\ \A y \in resolving' : ~Makes(Top, y)
  <2>1. PICK i \in 1..Len(stack) : Makes(stack[i], x)
    BY <1>2 DEF Marked
  <2>2. /\ Len(stack) \in Nat /\ Len(stack') = Len(stack) - 1 /\ Top = stack[Len(stack)]
        /\ \A j \in 1..(Len(stack) - 1) : stack'[j] = stack[j]
    BY <1>2, Stacks DEF Base, Typed
  <2>3. i # Len(stack)
    BY <1>2, <2>1, <2>2
  <2>4. i \in 1..Len(stack') /\ stack'[i] = stack[i]
    BY <2>2, <2>3
  <2> QED BY <2>1, <2>4
<1>3. ASSUME stack # <<>>, resolving' \subseteq resolving,
             NEW f \in Frames, f.c = Top.c, f.t = Top.t, stack' = Put(f)
      PROVE  \E i \in 1..Len(stack') : Makes(stack'[i], x)
  <2>1. PICK i \in 1..Len(stack) : Makes(stack[i], x)
    BY <1>3 DEF Marked
  <2>2. /\ Len(stack) \in Nat /\ Len(stack') = Len(stack) /\ Top = stack[Len(stack)]
        /\ stack'[Len(stack)] = f
        /\ \A j \in 1..(Len(stack) - 1) : stack'[j] = stack[j]
    BY <1>3, Stacks DEF Base, Typed
  <2>3. Makes(stack'[i], x)
    <3>1. CASE i = Len(stack)
      BY <1>3, <2>1, <2>2, <3>1 DEF Makes
    <3>2. CASE i # Len(stack)
      BY <2>1, <2>2, <3>2
    <3> QED BY <3>1, <3>2
  <2> QED BY <2>2, <2>3
<1>4. ASSUME NEW f \in Frames, stack' = Append(stack, f),
             \A y \in resolving' : y \in resolving \/ Makes(f, y)
      PROVE  \E i \in 1..Len(stack') : Makes(stack'[i], x)
  <2>1. /\ Len(stack) \in Nat /\ Len(stack') = Len(stack) + 1 /\ stack'[Len(stack) + 1] = f
        /\ \A j \in 1..Len(stack) : stack'[j] = stack[j]
    BY <1>4, Stacks DEF Base, Typed
  <2>2. CASE Makes(f, x)
    <3>1. Len(stack) + 1 \in 1..Len(stack')
      BY <2>1
    <3> QED BY <2>1, <2>2, <3>1
  <2>3. CASE x \in resolving
    <3>1. PICK i \in 1..Len(stack) : Makes(stack[i], x)
      BY <2>3 DEF Marked
    <3>2. i \in 1..Len(stack')
      BY <2>1
    <3> QED BY <2>1, <3>1, <3>2
  <2> QED BY <1>4, <2>2, <2>3
<1> QED BY <1>1, <1>2, <1>3, <1>4

\* The call is turned into an exception, or into an instance.
LEMMA SoundCircular ==
  ASSUME Base, Sound, Circular \/ Hit
  PROVE  Sound'
<1>1. /\ todo.do = "call" /\ todo'.do \in {"throw", "return"} /\ Still
      /\ UNCHANGED <<singletons, shared, resolving, stack, answer, remade>>
  BY DEF Circular, Hit, Calling, Throws, Returns, Rest, Still
<1>2. PICK f : f = Top
  OBVIOUS
<1>3. stack # <<>> => Leads(f, Aim(f))
  BY <1>1, <1>2 DEF Base, Linked, Leads
<1>4. Top' = f /\ (stack # <<>> => Leads(f, Aim(f))')
  BY <1>1, <1>2, <1>3, Fixed, FixedBound DEF Top, Still
<1>5. Bound'
  BY <1>1, <1>4, FixedBound DEF Bound, Sound, Goal
<1>6. Marked' /\ Quiet'
  BY <1>1, MarkedKept DEF Quiet, Sound
<1> QED BY <1>5, <1>6 DEF Sound

\* What is asked of the parent is what was asked for.
LEMMA SoundMiss ==
  ASSUME Base, Sound, Miss
  PROVE  Sound'
<1>1. /\ todo.do = "call" /\ ~Registered(todo.c, todo.t) /\ Still
      /\ IF todo.c = "root" THEN todo' = [do |-> "throw", err |-> "missing"] /\ UNCHANGED stack
         ELSE /\ todo' = [do |-> "call", c |-> "root", t |-> todo.t]
              /\ stack' = Append(stack, Frame("parent", todo.t, {}))
      /\ UNCHANGED <<singletons, shared, resolving, answer, remade>>
  BY DEF Miss, Calling, Throws, Calls, Rest, Still
<1>2. PICK c, t : c = todo.c /\ t = todo.t /\ c \in Containers /\ t \in Tokens
  BY <1>1, TodoTyped DEF Base
<1>3. CASE c = "root"
  <2>1. PICK f : f = Top
    OBVIOUS
  <2>2. stack # <<>> => Leads(f, Aim(f))
    BY <1>1, <2>1 DEF Base, Linked, Leads
  <2>3. Top' = f /\ (stack # <<>> => Leads(f, Aim(f))') /\ todo'.do = "throw"
    BY <1>1, <1>2, <1>3, <2>1, <2>2, Fixed, FixedBound DEF Top, Still
  <2>4. Goal(stack[1])' = Goal(stack[1]) /\ Wanted' = Wanted /\ UNCHANGED stack
    BY <1>1, <1>2, <1>3, FixedBound DEF Goal
  <2>6. Bound'
    BY <2>1, <2>3, <2>4 DEF Bound, Sound
  <2>5. Marked' /\ Quiet'
    BY <1>1, <1>2, <1>3, MarkedKept DEF Quiet, Sound
  <2> QED BY <2>5, <2>6 DEF Sound
<1>4. CASE c # "root"
  <2>1. PICK f : f = Frame("parent", t, {})
    OBVIOUS
  <2>2. f \in Frames /\ f.c = "parent" /\ f.t = t
    <3>1. {} \in SUBSET Pairs /\ t \in Tokens
      BY <1>2
    <3> QED BY <2>1, <3>1, FrameTyped
  <2>3. todo'.do = "call" /\ todo'.c = "root" /\ todo'.t = t
    BY <1>1, <1>2, <1>4
  <2>4. Target(<<c, t>>) = <<"root", t>> /\ Target(<<"root", t>>) = <<"root", t>>
    BY <1>1, <1>2, GraphTyped DEF Base
  <2>5. Goal(f) = <<"root", t>> /\ Aim(f) = <<"root", t>>
    BY <2>2 DEF Goal, Aim
  <2>6. stack' = Append(stack, f)
    BY <1>1, <1>2, <1>4, <2>1
  <2>7. stack' # <<>> /\ Goal(stack[1])' = Wanted' /\ Sought' = Aim(f)
    BY <1>1, <1>2, <2>2, <2>4, <2>5, <2>6, PushBound DEF Sound
  <2>8. Target(<<todo.c, todo.t>>)' = <<"root", t>>
    BY <1>1, <2>3, <2>4, Fixed DEF Still
  <2>9. Bound'
    BY <2>3, <2>5, <2>7, <2>8 DEF Bound
  <2>10. Marked' /\ Quiet'
    BY <1>1, <2>2, <2>6, MarkedKept DEF Quiet, Sound
  <2> QED BY <2>9, <2>10 DEF Sound
<1> QED BY <1>3, <1>4

\* The frame makes what was asked for, and marks it unless it is the request's.
LEMMA SoundEnter ==
  ASSUME Base, Sound, Enter
  PROVE  Sound'
<1>1. CASE todo' # [do |-> "work"]
  <2>1. /\ todo.do = "call" /\ todo'.do = "throw" /\ Still
        /\ UNCHANGED <<singletons, shared, resolving, stack, answer, remade>>
    BY <1>1, Overflown
  <2>2. PICK f : f = Top
    OBVIOUS
  <2>3. stack # <<>> => Leads(f, Aim(f))
    BY <2>1, <2>2 DEF Base, Linked, Leads
  <2>4. Top' = f /\ (stack # <<>> => Leads(f, Aim(f))')
    BY <2>1, <2>2, <2>3, Fixed, FixedBound DEF Top, Still
  <2>5. Bound'
    BY <2>1, <2>4, FixedBound DEF Bound, Sound, Goal
  <2>6. Marked' /\ Quiet'
    BY <2>1, MarkedKept DEF Quiet, Sound
  <2> QED BY <2>5, <2>6 DEF Sound
<1>2. CASE todo' = [do |-> "work"]
  <2>1. PICK f \in Frames :
            /\ f.c = todo.c /\ f.t = todo.t /\ stack' = Append(stack, f)
            /\ f.c \in Containers /\ f.t \in Tokens /\ f.c # "parent"
            /\ resolving' = IF Scoped(f.c, f.t) THEN resolving ELSE resolving \union {<<f.c, f.t>>}
            /\ UNCHANGED <<singletons, shared, answer, remade>> /\ Still
            /\ todo.do = "call" /\ Target(<<f.c, f.t>>) = <<f.c, f.t>>
    BY <1>2, Entered
  <2>2. Goal(f) = Target(<<todo.c, todo.t>>)
    BY <2>1 DEF Goal
  <2>3. stack' # <<>> /\ Goal(stack[1])' = Wanted'
    BY <2>1, <2>2, PushBound DEF Sound
  <2>4. Bound'
    BY <1>2, <2>3 DEF Bound
  <2>5. Marked' /\ Quiet'
    BY <2>1, MarkedKept DEF Quiet, Sound, Makes
  <2> QED BY <2>4, <2>5 DEF Sound
<1> QED BY <1>1, <1>2

\* The frame asks for its dependency.
LEMMA SoundInject ==
  ASSUME Base, Sound, Inject
  PROVE  Sound'
<1>1. PICK f \in Frames, d \in Pairs :
            /\ todo.do = "work" /\ Still /\ stack # <<>> /\ Top.c # "parent"
            /\ f.c = Top.c /\ f.t = Top.t /\ f.now = d
            /\ stack' = Put(f) /\ todo' = [do |-> "call", c |-> d[1], t |-> d[2]]
            /\ d[1] \in Containers /\ d[2] \in Tokens /\ d = <<d[1], d[2]>>
            /\ UNCHANGED <<singletons, shared, resolving, answer, remade>>
  BY Injected
<1>2. todo'.do = "call" /\ <<todo'.c, todo'.t>> = d
  BY <1>1
<1>3. stack' # <<>> /\ Goal(stack[1])' = Wanted' /\ Sought' = Aim(f)
  BY <1>1, PutBound DEF Sound
<1>4. Target(<<todo.c, todo.t>>)' = Target(d)
  BY <1>1, <1>2, Fixed DEF Still
<1>5. Bound'
  BY <1>1, <1>2, <1>3, <1>4 DEF Bound, Aim
<1>6. Marked' /\ Quiet'
  BY <1>1, MarkedKept DEF Quiet, Sound
<1> QED BY <1>5, <1>6 DEF Sound

\* The frame on top takes its mark with it.
LEMMA SoundFinish ==
  ASSUME Base, Sound, Finish
  PROVE  Sound'
<1>1. /\ todo.do = "work" /\ todo'.do = "return" /\ stack' = Popped /\ Still /\ UNCHANGED answer
      /\ resolving' = IF Scoped(Top.c, Top.t) THEN resolving ELSE resolving \ {<<Top.c, Top.t>>}
  BY DEF Finish, Returns, Rest, Still
<1>2. stack # <<>>
  BY <1>1 DEF Base, Typed
<1>3. stack' # <<>> => Goal(stack[1])' = Wanted' /\ Leads(Top, Aim(Top))'
  BY <1>1, <1>2, PopBound DEF Sound
<1>4. Bound'
  BY <1>1, <1>3 DEF Bound
<1>5. Marked' /\ Quiet'
  BY <1>1, <1>2, MarkedKept DEF Quiet, Sound, Makes
<1> QED BY <1>4, <1>5 DEF Sound

\* The frame on top has no mark, or stays.
LEMMA SoundReturn ==
  ASSUME Base, Sound, Return
  PROVE  Sound'
<1>1. /\ todo.do = "return" /\ stack # <<>> /\ Still
      /\ UNCHANGED <<singletons, shared, resolving, answer, remade>>
  BY DEF Return, Rest, Still
<1>2. CASE Top.c = "parent"
  <2>1. stack' = Popped /\ UNCHANGED todo
    BY <1>2 DEF Return
  <2>2. stack' # <<>> => Goal(stack[1])' = Wanted' /\ Leads(Top, Aim(Top))'
    BY <1>1, <2>1, PopBound DEF Sound
  <2>3. Bound'
    BY <1>1, <2>1, <2>2 DEF Bound
  <2>4. Marked' /\ Quiet'
    BY <1>1, <1>2, <2>1, MarkedKept DEF Quiet, Sound, Makes
  <2> QED BY <2>3, <2>4 DEF Sound
<1>3. CASE Top.c # "parent"
  <2>1. PICK f \in Frames :
            /\ f.c = Top.c /\ f.t = Top.t /\ stack' = Put(f) /\ todo' = [do |-> "work"]
    BY <1>3, Returned
  <2>2. Goal(stack[1])' = Wanted'
    BY <1>1, <2>1, PutBound DEF Sound
  <2>3. Bound'
    BY <2>1, <2>2 DEF Bound
  <2>4. Marked' /\ Quiet'
    BY <1>1, <2>1, MarkedKept DEF Quiet, Sound
  <2> QED BY <2>3, <2>4 DEF Sound
<1> QED BY <1>2, <1>3

\* An exception takes the mark of the frame it leaves.
LEMMA SoundThrow ==
  ASSUME Base, Sound, Throw
  PROVE  Sound'
<1>1. todo.do = "throw" /\ stack # <<>> /\ Still /\ UNCHANGED <<singletons, shared, answer, remade>>
  BY DEF Throw, Rest, Still
<1>2. CASE Top.c # "parent" /\ Top.now \in Optional(Top.c, Top.t)
  <2>1. todo' = [do |-> "work"] /\ UNCHANGED <<stack, resolving>>
    BY <1>2 DEF Throw
  <2>2. Bound'
    BY <1>1, <2>1, FixedBound DEF Bound, Sound, Goal
  <2>3. Marked' /\ Quiet'
    BY <1>1, <2>1, MarkedKept DEF Quiet, Sound
  <2> QED BY <2>2, <2>3 DEF Sound
<1>3. CASE ~(Top.c # "parent" /\ Top.now \in Optional(Top.c, Top.t))
  <2>1. /\ stack' = Popped /\ todo'.do = "throw"
        /\ resolving' = IF Top.c = "parent" \/ Scoped(Top.c, Top.t) THEN resolving
                        ELSE resolving \ {<<Top.c, Top.t>>}
    BY <1>3 DEF Throw, Throws
  <2>2. stack' # <<>> => Goal(stack[1])' = Wanted' /\ Leads(Top, Aim(Top))'
    BY <1>1, <2>1, PopBound DEF Sound
  <2>3. Bound'
    BY <2>1, <2>2 DEF Bound
  <2>4. Marked' /\ Quiet'
    BY <1>1, <2>1, MarkedKept DEF Quiet, Sound, Makes
  <2> QED BY <2>3, <2>4 DEF Sound
<1> QED BY <1>2, <1>3

\* The program is answered once everything is scanned.
LEMMA SoundAnswer ==
  ASSUME Base, Sound, Answer
  PROVE  Sound'
<1>1. /\ todo' = Idle /\ stack = <<>> /\ todo.do # "idle" /\ Still
      /\ UNCHANGED <<singletons, shared, resolving, stack, remade>>
  BY DEF Answer, Rest, Still
<1>2. todo'.do = "idle" /\ scanned' = Modules
  BY <1>1 DEF Idle, Base, Typed, Still
<1>3. Bound' /\ Quiet'
  BY <1>1, <1>2 DEF Bound, Quiet
<1>4. Marked'
  BY <1>1, MarkedKept DEF Sound
<1> QED BY <1>3, <1>4 DEF Sound

\* Nothing is marked while nothing is resolved.
LEMMA Unmarked ==
  ASSUME Base, Sound, stack = <<>>
  PROVE  resolving = {}
<1>1. Len(<<>>) = 0
  BY EmptySeq
<1> QED BY <1>1 DEF Sound, Marked

\* The program's call is the one that is wanted.
LEMMA SoundResolve ==
  ASSUME Base, Sound, NEW c \in Containers, NEW t \in Tokens, NEW r \in Requests \union {Outside},
         Resolve(c, t, r)
  PROVE  Sound'
<1>1. /\ stack = <<>> /\ UNCHANGED <<graph, scanned, exported, stack, resolving>>
      /\ asked' = <<c, t, r>> /\ todo' = [do |-> "call", c |-> c, t |-> t] /\ answer' = NoAnswer
  BY BaseResolve DEF Resolve, Calls
<1>2. resolving' = {}
  BY <1>1, Unmarked
<1>3. Wanted' = Target(<<c, t>>)'
  BY <1>1 DEF Wanted
<1>4. Bound'
  BY <1>1, <1>3 DEF Bound, Sought
<1> QED BY <1>1, <1>2, <1>4 DEF Sound, Marked, Quiet, NoAnswer

\* Nothing is asked for or marked.
LEMMA SoundScan ==
  ASSUME Base, Sound, NEW m \in Modules, Scan(m)
  PROVE  Sound'
<1>1. /\ todo = Idle /\ stack = <<>> /\ scanned # Modules
      /\ UNCHANGED <<stack, todo, resolving, answer>>
  BY BaseScan DEF Scan
<1>2. resolving = {} /\ answer = NoAnswer
  BY <1>1, Unmarked DEF Base, Typed
<1> QED BY <1>1, <1>2 DEF Sound, Bound, Marked, Quiet, Idle, NoAnswer

\* Calls and marks are in order after every step.
LEMMA SoundNext == Base /\ Sound /\ [Next]_vars => Sound'
<1> SUFFICES ASSUME Base, Sound, [Next]_vars PROVE Sound'
  OBVIOUS
<1>1. CASE \E m \in Modules : Scan(m)
  BY <1>1, SoundScan
<1>2. CASE \E c \in Containers, t \in Tokens, r \in Requests \union {Outside} : Resolve(c, t, r)
  BY <1>2, SoundResolve
<1>3. CASE UNCHANGED vars
  <2>1. Still /\ UNCHANGED <<stack, todo, resolving, answer>>
    BY <1>3 DEF vars, Still
  <2>2. PICK f : f = Top
    OBVIOUS
  <2>3. Top' = f /\ (Leads(f, Aim(f))' <=> Leads(f, Aim(f))) /\ Sought' = Sought
    BY <2>1, <2>2, Fixed, FixedBound DEF Top, Sought, Still
  <2>4. Target(<<todo.c, todo.t>>)' = Target(<<todo.c, todo.t>>)
    BY <2>1, Fixed DEF Still
  <2>5. Bound'
    BY <2>1, <2>2, <2>3, <2>4, FixedBound DEF Sound, Bound, Goal
  <2>6. Marked' /\ Quiet'
    BY <2>1, MarkedKept DEF Quiet, Sound, Still
  <2> QED BY <2>5, <2>6 DEF Sound
<1> QED
  BY <1>1, <1>2, <1>3, SoundCircular, SoundMiss, SoundEnter, SoundInject, SoundFinish,
     SoundReturn, SoundThrow, SoundAnswer DEF Next

\* Calls and marks are in order at the start.
LEMMA SoundInit == Init => Sound
<1> SUFFICES ASSUME Init PROVE Sound
  OBVIOUS
<1> QED BY DEF Init, Sound, Bound, Marked, Quiet, Idle, NoAnswer

------------------------------------------------------------------------------
(* Instances are the right ones *)

\* Something can be made of a provider, unless two modules share a cell somewhere;
\* and the instance is the provider's own.
Viable(q) == ~Hopeless(q) \/ \E t \in Tokens : Clash(t)
Right(inst, q) == Viable(q) /\ (Clash(q[2]) \/ inst.of = Maker(q))

\* What a frame needs and no longer has to ask for was there, what it waits for apart.
Needed(f) == Deps(f.c, f.t) \ Optional(f.c, f.t)
Served(f) == f.c # "parent" =>
                 \A d \in Needed(f) : d \in f.left \/ d = f.now \/ Viable(Target(d))
Ready(f)  == /\ \A d \in Needed(f) : d \in f.left \/ Viable(Target(d))
             /\ f.c = "root" /\ f.left = {} => Right(f.got, Goal(f))

KeptRight == \A p \in Pairs : singletons[p] # None => p \in Known /\ Right(singletons[p], p)
SharedRight ==
    \A r \in Requests, t \in Tokens, c \in Modules :
        shared[r][t] # None /\ Registered(c, t) /\ Scope(c, t) = "request" =>
            Right(shared[r][t], <<c, t>>)
AllServed == \A i \in 1..Len(stack) : Served(stack[i])
Handed == /\ todo.do = "work" => Ready(Top)
          /\ todo.do = "return" => Right(todo.inst, Sought)
Told == answer.kind = "instance" => Right(answer.inst, Wanted)

Genuine == scanned = Modules => KeptRight /\ SharedRight /\ AllServed /\ Handed /\ Told

\* What can be made, and of what, is fixed by the declarations.
LEMMA FixedGenuine ==
  ASSUME UNCHANGED <<graph, scanned, exported>>
  PROVE  /\ Known' = Known
         /\ \A p : Hopeless(p)' <=> Hopeless(p)
         /\ \A t : Clash(t)' <=> Clash(t)
         /\ \A q : Viable(q)' <=> Viable(q)
         /\ \A i, q : Right(i, q)' <=> Right(i, q)
         /\ \A f : Served(f)' <=> Served(f)
         /\ \A f : Ready(f)' <=> Ready(f)
<1>1. Known' = Known
  BY Fixed DEF Known
<1>2. \A c, t : Optional(c, t)' = Optional(c, t)
  BY DEF Optional
<1>3. \A p : Needs(p)' = Needs(p)
  BY <1>2, Fixed DEF Needs
<1>4. \A p : Hopeless(p)' <=> Hopeless(p)
  BY <1>1, <1>3 DEF Hopeless
<1>5. \A t : Clash(t)' <=> Clash(t)
  BY Fixed DEF Clash
<1>6. \A q : Viable(q)' <=> Viable(q)
  BY <1>4, <1>5 DEF Viable
<1>7. \A q : Maker(q)' = Maker(q)
  BY DEF Maker, Forwards
<1>8. \A i, q : Right(i, q)' <=> Right(i, q)
  BY <1>5, <1>6, <1>7 DEF Right
<1>9. \A f : Needed(f)' = Needed(f)
  BY <1>2, Fixed DEF Needed
<1>10. \A d : Viable(Target(d))' <=> Viable(Target(d))
  BY <1>6, Fixed
<1>11. \A f : Served(f)' <=> Served(f)
  BY <1>9, <1>10 DEF Served
<1>12. \A f : Ready(f)' <=> Ready(f)
  BY <1>8, <1>9, <1>10 DEF Ready, Goal
<1> QED BY <1>1, <1>4, <1>5, <1>6, <1>8, <1>11, <1>12

\* A provider can be made when all it needs can.
LEMMA ViableMade ==
  ASSUME NEW p \in Known, \A d \in Deps(p[1], p[2]) \ Optional(p[1], p[2]) : Viable(Target(d))
  PROVE  Viable(p)
<1> SUFFICES ASSUME Hopeless(p), \A t \in Tokens : ~Clash(t) PROVE FALSE
  BY DEF Viable
<1>1. PICK X \in SUBSET Known :
          p \in X /\ \A x \in X : \E q \in Needs(x) : q \in X \/ q \notin Known
  BY DEF Hopeless
<1>2. PICK q \in Needs(p) : q \in X \/ q \notin Known
  BY <1>1
<1>3. Hopeless(q)
  BY <1>1, <1>2 DEF Hopeless
<1> QED BY <1>2, <1>3 DEF Needs, Viable

\* An export is viable, and its instance the right one, when that is so of what it forwards to.
LEMMA ForwardRight ==
  ASSUME Base, NEW t \in Tokens, Registered("root", t), NEW d \in Deps("root", t), NEW inst,
         Right(inst, Target(d))
  PROVE  Right(inst, <<"root", t>>)
<1>1. PICK m : m = exported[t] /\ m \in Modules /\ d = <<m, t>> /\ m # "root"
  BY GraphsAssumption DEF Base, Typed, Deps, Registered
<1>2. PICK r : r = <<"root", t>>
  OBVIOUS
<1>3. r[1] = "root" /\ r[2] = t /\ r \in Known
  BY <1>2 DEF Known, Pairs, Containers
<1>4. Maker(r) = d
  BY <1>1, <1>3 DEF Maker, Forwards
<1>5. d[1] = m /\ d[2] = t
  BY <1>1
<1>6. (Target(d) = d \/ Target(d) = r) /\ Target(d)[2] = t
  BY <1>2, <1>3, <1>5 DEF Target
<1>7. Maker(Target(d)) = d
  BY <1>1, <1>4, <1>5, <1>6 DEF Maker, Forwards
<1>8. \A x \in Deps(r[1], r[2]) : x = d
  BY <1>1, <1>3 DEF Deps
<1>9. Viable(r)
  BY <1>3, <1>8, ViableMade DEF Right
<1> QED BY <1>2, <1>3, <1>4, <1>6, <1>7, <1>9 DEF Right

\* The frames that stay have asked as before, and one more has its own.
LEMMA ServedKept ==
  ASSUME Base, AllServed, UNCHANGED <<graph, scanned, exported>>,
         \/ UNCHANGED stack
         \/ stack # <<>> /\ stack' = Popped
         \/ stack # <<>> /\ \E f \in Frames : Served(f) /\ stack' = Put(f)
         \/ \E f \in Frames : Served(f) /\ stack' = Append(stack, f)
  PROVE  AllServed'
<1>1. ASSUME NEW i \in 1..Len(stack') PROVE \E f : f = stack'[i] /\ Served(f)
  <2>1. CASE UNCHANGED stack
    BY <2>1 DEF AllServed
  <2>2. CASE stack # <<>> /\ stack' = Popped
    <3>1. /\ Len(stack) \in Nat /\ Len(stack') = Len(stack) - 1
          /\ \A j \in 1..(Len(stack) - 1) : stack'[j] = stack[j]
      BY <2>2, Stacks DEF Base, Typed
    <3>2. i \in 1..Len(stack) /\ stack'[i] = stack[i]
      BY <3>1
    <3> QED BY <3>2 DEF AllServed
  <2>3. ASSUME stack # <<>>, NEW f \in Frames, Served(f), stack' = Put(f)
        PROVE  \E g : g = stack'[i] /\ Served(g)
    <3>1. /\ Len(stack) \in Nat /\ Len(stack') = Len(stack) /\ stack'[Len(stack)] = f
          /\ \A j \in 1..(Len(stack) - 1) : stack'[j] = stack[j]
      BY <2>3, Stacks DEF Base, Typed
    <3>2. i = Len(stack) \/ i \in 1..(Len(stack) - 1)
      BY <3>1
    <3> QED BY <2>3, <3>1, <3>2 DEF AllServed
  <2>4. ASSUME NEW f \in Frames, Served(f), stack' = Append(stack, f)
        PROVE  \E g : g = stack'[i] /\ Served(g)
    <3>1. /\ Len(stack) \in Nat /\ Len(stack') = Len(stack) + 1 /\ stack'[Len(stack) + 1] = f
          /\ \A j \in 1..Len(stack) : stack'[j] = stack[j]
      BY <2>4, Stacks DEF Base, Typed
    <3>2. i = Len(stack) + 1 \/ i \in 1..Len(stack)
      BY <3>1
    <3> QED BY <2>4, <3>1, <3>2 DEF AllServed
  <2> QED BY <2>1, <2>2, <2>3, <2>4
<1>2. ASSUME NEW i \in 1..Len(stack') PROVE Served(stack[i])'
  <2>1. PICK f : f = stack'[i] /\ Served(f)
    BY <1>1
  <2> QED BY <2>1, FixedGenuine
<1> QED BY <1>2 DEF AllServed

\* So has the frame on top.
LEMMA ServedTop ==
  ASSUME Base, AllServed, stack # <<>>
  PROVE  Served(Top)
<1>1. Top = stack[Len(stack)] /\ Len(stack) \in 1..Len(stack)
  BY Stacks DEF Base, Typed
<1> QED BY <1>1 DEF AllServed

\* What a step of a resolution has to show.
LEMMA GenuineStep ==
  ASSUME Base, Genuine, Still, todo.do # "idle",
         KeptRight /\ SharedRight /\ AllServed /\ Handed /\ Told =>
             KeptRight' /\ SharedRight' /\ AllServed' /\ Handed' /\ Told'
  PROVE  Genuine'
  BY DEF Genuine, Base, Typed, Still

\* The caches and the answer stay as they are.
LEMMA RestGenuine ==
  ASSUME UNCHANGED <<graph, scanned, exported, singletons, shared>>
  PROVE  (KeptRight => KeptRight') /\ (SharedRight => SharedRight')
<1>1. KeptRight => KeptRight'
  BY FixedGenuine DEF KeptRight
<1>2. SharedRight => SharedRight'
  BY FixedGenuine, Fixed DEF SharedRight
<1> QED BY <1>1, <1>2

\* An answer stays right.
LEMMA ToldKept ==
  ASSUME Still, UNCHANGED answer
  PROVE  Told => Told'
  BY FixedGenuine, FixedBound DEF Told, Still

\* Nothing is at work or handed over after the step, and nothing is kept.
LEMMA GenuineQuiet ==
  ASSUME Base, Genuine, Still, todo.do # "idle", UNCHANGED <<singletons, shared, answer>>,
         todo'.do \notin {"work", "return"},
         AllServed /\ Handed => AllServed'
  PROVE  Genuine'
<1>1. UNCHANGED <<graph, scanned, exported>>
  BY DEF Still
<1> QED BY <1>1, GenuineStep, RestGenuine, ToldKept DEF Handed

\* Nothing is handed over.
LEMMA GenuineCircular ==
  ASSUME Base, Genuine, Circular
  PROVE  Genuine'
<1>1. /\ todo.do = "call" /\ todo'.do = "throw" /\ Still /\ UNCHANGED <<graph, scanned, exported>>
      /\ UNCHANGED <<singletons, shared, stack, answer>>
  BY DEF Circular, Calling, Throws, Rest, Still
<1> QED BY <1>1, ServedKept, GenuineQuiet

\* The parent's frame needs nothing.
LEMMA GenuineMiss ==
  ASSUME Base, Genuine, Miss
  PROVE  Genuine'
<1>1. /\ todo.do = "call" /\ todo'.do \in {"throw", "call"} /\ Still
      /\ UNCHANGED <<graph, scanned, exported, singletons, shared, answer>>
      /\ \/ UNCHANGED stack
         \/ stack' = Append(stack, Frame("parent", todo.t, {}))
  BY DEF Miss, Calling, Throws, Calls, Rest, Still
<1>2. PICK f : f = Frame("parent", todo.t, {})
  OBVIOUS
<1>3. f \in Frames /\ f.c = "parent"
  <2>1. PICK t : t = todo.t /\ t \in Tokens
    BY <1>1, TodoTyped DEF Base
  <2>2. {} \in SUBSET Pairs
    OBVIOUS
  <2> QED BY <1>2, <2>1, <2>2, FrameTyped
<1>4. Served(f)
  BY <1>3 DEF Served
<1>5. AllServed => AllServed'
  BY <1>1, <1>2, <1>3, <1>4, ServedKept
<1> QED BY <1>1, <1>5, GenuineQuiet

\* All that the frame needs is left to ask for.
LEMMA GenuineEnter ==
  ASSUME Base, Genuine, Enter
  PROVE  Genuine'
<1>1. CASE todo' # [do |-> "work"]
  <2>1. /\ todo.do = "call" /\ todo'.do = "throw" /\ Still /\ UNCHANGED <<graph, scanned, exported>>
        /\ UNCHANGED <<singletons, shared, stack, answer>>
    BY <1>1, Overflown DEF Still
  <2> QED BY <2>1, ServedKept, GenuineQuiet
<1>2. CASE todo' = [do |-> "work"]
  <2>1. PICK f \in Frames :
            /\ f.c = todo.c /\ f.t = todo.t /\ f.left = Deps(todo.c, todo.t)
            /\ stack' = Append(stack, f)
            /\ UNCHANGED <<singletons, shared, answer>> /\ Still
            /\ todo.do = "call"
    BY <1>2, Entered
  <2>2. f.left = Deps(f.c, f.t) /\ UNCHANGED <<graph, scanned, exported>>
    BY <2>1 DEF Still
  <2>3. Served(f)
    BY <2>2 DEF Served, Needed
  <2>4. Ready(f)
    <3>1. f.c = "root" => f.left # {}
      BY <2>2 DEF Deps
    <3> QED BY <2>2, <3>1 DEF Ready, Needed
  <2>5. Top' = f
    <3>1. stack' \in Seq(Frames) /\ Len(stack') = Len(stack) + 1 /\ stack'[Len(stack) + 1] = f
      BY <2>1, Stacks DEF Base, Typed
    <3>2. Top' = stack'[Len(stack')]
      BY DEF Top
    <3> QED BY <3>1, <3>2
  <2>6. Handed'
    BY <1>2, <2>2, <2>4, <2>5, FixedGenuine DEF Handed
  <2>7. AllServed => AllServed'
    BY <2>1, <2>2, <2>3, ServedKept
  <2> QED BY <2>1, <2>2, <2>6, <2>7, GenuineStep, RestGenuine, ToldKept
<1> QED BY <1>1, <1>2

\* The frame waits for the dependency it has asked for.
LEMMA GenuineInject ==
  ASSUME Base, Genuine, Inject
  PROVE  Genuine'
<1>1. PICK f \in Frames, d \in Pairs :
            /\ todo.do = "work" /\ Still /\ stack # <<>>
            /\ f.c = Top.c /\ f.t = Top.t /\ f.left = Top.left \ {d} /\ f.now = d
            /\ stack' = Put(f) /\ todo' = [do |-> "call", c |-> d[1], t |-> d[2]]
            /\ UNCHANGED <<singletons, shared, resolving, answer, remade>>
  BY Injected
<1>2. todo'.do = "call" /\ UNCHANGED <<graph, scanned, exported>>
  BY <1>1 DEF Still
<1>3. ASSUME AllServed, Handed PROVE AllServed'
  <2>1. Ready(Top)
    BY <1>1, <1>3 DEF Handed
  <2>2. Served(f)
    BY <1>1, <2>1 DEF Served, Ready, Needed
  <2> QED BY <1>1, <1>2, <1>3, <2>2, ServedKept
<1> QED BY <1>1, <1>2, <1>3, GenuineQuiet

\* What tryResolve() swallows was not needed.
LEMMA GenuineThrow ==
  ASSUME Base, Sound, Genuine, Throw
  PROVE  Genuine'
<1>1. /\ todo.do = "throw" /\ stack # <<>> /\ Still /\ UNCHANGED <<singletons, shared, answer>>
      /\ UNCHANGED <<graph, scanned, exported>>
  BY DEF Throw, Rest, Still
<1>2. CASE Top.c # "parent" /\ Top.now \in Optional(Top.c, Top.t)
  <2>1. todo' = [do |-> "work"] /\ UNCHANGED stack
    BY <1>2 DEF Throw
  <2>2. PICK f : f = Top
    OBVIOUS
  <2>3. ASSUME AllServed PROVE Handed' /\ AllServed'
    <3>1. Served(f)
      BY <1>1, <2>2, <2>3, ServedTop
    <3>2. f.c # "root"
      BY <1>2, <2>2 DEF Optional
    <3>3. Ready(f)
      BY <1>2, <2>2, <3>1, <3>2 DEF Ready, Served, Needed
    <3>4. Top' = f
      BY <2>1, <2>2 DEF Top
    <3>5. Handed'
      BY <1>1, <2>1, <3>3, <3>4, FixedGenuine DEF Handed
    <3> QED BY <1>1, <2>1, <2>3, <3>5, ServedKept
  <2> QED BY <1>1, <2>1, <2>3, GenuineStep, RestGenuine, ToldKept
<1>3. CASE ~(Top.c # "parent" /\ Top.now \in Optional(Top.c, Top.t))
  <2>1. stack' = Popped /\ todo'.do = "throw"
    BY <1>3 DEF Throw, Throws
  <2> QED BY <1>1, <2>1, ServedKept, GenuineQuiet
<1> QED BY <1>2, <1>3

\* What was kept is right for whoever finds it.
LEMMA GenuineHit ==
  ASSUME Base, Sound, Genuine, Hit
  PROVE  Genuine'
<1>1. /\ todo.do = "call" /\ todo' = [do |-> "return", inst |-> Cached(todo.c, todo.t)] /\ Still
      /\ Cached(todo.c, todo.t) # None
      /\ UNCHANGED <<graph, scanned, exported, singletons, shared, resolving, stack, answer>>
  BY DEF Hit, Calling, Returns, Rest, Still
<1>2. PICK c, t : c = todo.c /\ t = todo.t /\ c \in Containers /\ t \in Tokens /\ <<c, t>> \in Pairs
  BY <1>1, TodoTyped DEF Base, Pairs
<1>3. PICK p : p = <<c, t>>
  OBVIOUS
<1>4. PICK i : i = Cached(c, t)
  OBVIOUS
<1>5. ASSUME KeptRight, SharedRight PROVE Right(i, Target(p))
  <2>1. p[1] = c /\ p[2] = t
    BY <1>3
  <2>2. CASE singletons[p] = None
    <3>1. Scoped(c, t) /\ i = shared[request][t] /\ i # None
      BY <1>1, <1>2, <1>3, <1>4, <2>2 DEF Cached
    <3>2. request \in Requests /\ Registered(c, t) /\ Scope(c, t) = "request"
      BY <1>1, <3>1 DEF Scoped, Base, Typed
    <3>3. c \in Modules
      BY <1>2, <3>2 DEF Containers, Scope
    <3>4. Right(i, p)
      BY <1>2, <1>3, <1>5, <3>1, <3>2, <3>3 DEF SharedRight
    <3> QED BY <1>2, <1>3, <3>2, <3>4, GraphTyped DEF Base
  <2>3. CASE singletons[p] # None
    <3>1. i = singletons[p]
      BY <1>3, <1>4, <2>3 DEF Cached
    <3>2. p \in Known /\ Right(i, p)
      BY <1>2, <1>3, <1>5, <2>3, <3>1 DEF KeptRight
    <3> QED BY <3>2 DEF Known, Target
  <2> QED BY <2>2, <2>3
<1>6. Sought = Target(p) /\ Sought' = Sought
  <2>1. Top' = Top
    BY <1>1 DEF Top
  <2> QED BY <1>1, <1>2, <1>3, <2>1, FixedBound DEF Sound, Bound, Sought
<1>7. ASSUME KeptRight, SharedRight PROVE Handed'
  <2>1. todo'.do = "return" /\ todo'.inst = i
    BY <1>1, <1>2, <1>4
  <2> QED BY <1>1, <1>5, <1>6, <1>7, <2>1, FixedGenuine DEF Handed
<1> QED BY <1>1, <1>7, GenuineStep, RestGenuine, ToldKept, ServedKept

\* The dependency was there; an export hands on what it forwards to.
LEMMA GenuineReturn ==
  ASSUME Base, Sound, Genuine, Return
  PROVE  Genuine'
<1>1. /\ todo.do = "return" /\ stack # <<>> /\ Still
      /\ UNCHANGED <<graph, scanned, exported, singletons, shared, answer>>
  BY DEF Return, Rest, Still
<1>2. CASE Top.c = "parent"
  <2>1. stack' = Popped /\ UNCHANGED todo
    BY <1>2 DEF Return
  <2>2. Sought' = Goal(Top)
    BY <1>1, <2>1, PopBound DEF Sound
  <2>3. Sought = Goal(Top)
    BY <1>1, <1>2 DEF Sought, Aim, Goal
  <2>4. Handed => Handed'
    BY <1>1, <2>1, <2>2, <2>3, FixedGenuine DEF Handed
  <2> QED BY <1>1, <2>1, <2>4, GenuineStep, RestGenuine, ToldKept, ServedKept
<1>3. CASE Top.c # "parent"
  <2>1. PICK f \in Frames :
            /\ f.c = Top.c /\ f.t = Top.t /\ f.left = Top.left /\ f.now = Top.now
            /\ f.got = todo.inst /\ stack' = Put(f) /\ todo' = [do |-> "work"]
    BY <1>3, Returned
  <2>2. PICK i : i = todo.inst
    OBVIOUS
  <2>3. f.now \in Deps(f.c, f.t) /\ Sought = Target(f.now)
    BY <1>1, <1>3, <2>1 DEF Sound, Bound, Leads, Aim, Sought
  <2>4. ASSUME AllServed, Handed PROVE AllServed' /\ Handed'
    <3>1. Right(i, Target(f.now)) /\ Viable(Target(f.now))
      BY <1>1, <2>2, <2>3, <2>4 DEF Handed, Right
    <3>2. Served(f)
      BY <1>1, <2>1, <2>4, ServedTop DEF Served, Needed
    <3>3. \A d \in Needed(f) : d \in f.left \/ Viable(Target(d))
      BY <1>3, <2>1, <3>1, <3>2 DEF Served
    <3>4. f.c = "root" => Right(i, Goal(f))
      <4>1. f.t \in Tokens /\ Registered(f.c, f.t)
        BY <1>1, <1>3, <2>1, TopTyped DEF Base
      <4>2. PICK t, d : t = f.t /\ d = f.now
        OBVIOUS
      <4>3. f.c = "root" => Right(i, <<"root", t>>)
        BY <2>3, <3>1, <4>1, <4>2, ForwardRight
      <4> QED BY <4>2, <4>3 DEF Goal
    <3>5. Ready(f)
      BY <2>1, <2>2, <3>3, <3>4 DEF Ready
    <3>6. Top' = f
      BY <1>1, <2>1, PutTop DEF Base
    <3>7. Handed'
      BY <1>1, <2>1, <3>5, <3>6, FixedGenuine DEF Handed
    <3> QED BY <1>1, <2>1, <2>4, <3>2, <3>7, ServedKept
  <2> QED BY <1>1, <2>4, GenuineStep, RestGenuine, ToldKept
<1> QED BY <1>2, <1>3

\* The program is given what it wanted.
LEMMA GenuineAnswer ==
  ASSUME Base, Sound, Genuine, Answer
  PROVE  Genuine'
<1>1. /\ todo.do \in {"return", "throw"} /\ stack = <<>> /\ todo' = Idle /\ Still
      /\ answer' = IF todo.do = "return" THEN [kind |-> "instance", inst |-> todo.inst]
                   ELSE [kind |-> todo.err]
      /\ UNCHANGED <<graph, scanned, exported, singletons, shared, resolving, stack, remade>>
  BY DEF Answer, Rest, Still
<1>2. Handed => Told'
  <2>1. CASE todo.do = "return"
    <3>1. answer'.kind = "instance" /\ answer'.inst = todo.inst /\ Sought = Wanted
      BY <1>1, <2>1 DEF Sought
    <3> QED BY <1>1, <2>1, <3>1, FixedGenuine, FixedBound DEF Handed, Told
  <2>2. CASE todo.do # "return"
    BY <1>1, <2>2, TodoTyped DEF Told, Base
  <2> QED BY <2>1, <2>2
<1>3. Handed'
  BY <1>1 DEF Handed, Idle
<1> QED BY <1>1, <1>2, <1>3, GenuineStep, RestGenuine, ServedKept

\* What is made, is made of all it needs, and of the provider that was asked for.
LEMMA ProductRight ==
  ASSUME Base, AllServed, Handed, todo.do = "work", Top.left = {}
  PROVE  Right(Product, Goal(Top))
<1>1. PICK g : g = Top /\ Ready(g) /\ g.left = {} /\ g.c # "parent"
             /\ g.c \in Containers /\ g.t \in Tokens /\ Registered(g.c, g.t)
  BY TopTyped DEF Handed, Base, Typed
<1>2. PICK p : p = <<g.c, g.t>>
  OBVIOUS
<1>3. p[1] = g.c /\ p[2] = g.t /\ p = Goal(g)
  BY <1>1, <1>2 DEF Goal
<1>4. CASE g.c = "root"
  <2>1. Product = g.got
    BY <1>1, <1>4 DEF Product, Forwards
  <2> QED BY <1>1, <1>4, <2>1 DEF Ready
<1>5. CASE g.c # "root"
  <2>1. PICK P : P = Product
    OBVIOUS
  <2>2. P.of = p
    BY <1>1, <1>2, <1>5, <2>1 DEF Product, Forwards
  <2>3. Maker(p) = p
    BY <1>3, <1>5 DEF Maker, Forwards
  <2>4. p \in Known
    BY <1>1, <1>2, <1>3 DEF Known, Pairs
  <2>5. Viable(p)
    BY <1>1, <1>3, <2>4, ViableMade DEF Ready, Needed
  <2> QED BY <1>1, <1>3, <2>1, <2>2, <2>3, <2>5 DEF Right
<1> QED BY <1>4, <1>5

\* What is kept is right, for all that find it.
LEMMA GenuineFinish ==
  ASSUME Base, Sound, Genuine, Finish
  PROVE  Genuine'
<1>1. /\ todo.do = "work" /\ todo' = [do |-> "return", inst |-> Product] /\ stack' = Popped /\ Still
      /\ Top.left = {}
      /\ IF Scoped(Top.c, Top.t)
         THEN /\ shared' = [shared EXCEPT ![request][Top.t] = Product]
              /\ UNCHANGED <<singletons, resolving>>
         ELSE /\ singletons' = IF Scope(Top.c, Top.t) = "singleton"
                               THEN [singletons EXCEPT ![<<Top.c, Top.t>>] = Product]
                               ELSE singletons
              /\ resolving' = resolving \ {<<Top.c, Top.t>>}
              /\ UNCHANGED shared
      /\ UNCHANGED <<graph, scanned, exported, answer>>
  BY DEF Finish, Returns, Rest, Still
<1>2. stack # <<>> /\ Top.c # "parent" /\ Top.c \in Containers /\ Top.t \in Tokens
      /\ Registered(Top.c, Top.t)
  BY <1>1, TopTyped DEF Base, Typed
<1> SUFFICES ASSUME KeptRight, SharedRight, AllServed, Handed
             PROVE  KeptRight' /\ SharedRight' /\ AllServed' /\ Handed'
  BY <1>1, GenuineStep, ToldKept
<1>3. PICK g : g = Top
  OBVIOUS
<1>4. PICK P : P = Product
  OBVIOUS
<1>5. PICK q : q = <<g.c, g.t>>
  OBVIOUS
<1>6. q = Goal(g) /\ q[1] = g.c /\ q[2] = g.t /\ q \in Known
  BY <1>2, <1>3, <1>5 DEF Goal, Known, Pairs
<1>7. Right(P, q)
  BY <1>1, <1>3, <1>4, <1>6, ProductRight
<1>8. KeptRight'
  <2>1. \A p \in Pairs : singletons'[p] = singletons[p] \/ (singletons'[p] = P /\ p = q)
    BY <1>1, <1>3, <1>4, <1>5 DEF Base, Typed
  <2>2. \A p \in Pairs : singletons'[p] # None => p \in Known /\ Right(singletons'[p], p)
    BY <1>6, <1>7, <2>1 DEF KeptRight
  <2> QED BY <1>1, <2>2, FixedGenuine DEF KeptRight
<1>9. SharedRight'
  <2>1. CASE UNCHANGED shared
    BY <1>1, <2>1, FixedGenuine, Fixed DEF SharedRight
  <2>2. CASE ~UNCHANGED shared
    <3>1. Scoped(g.c, g.t) /\ request \in Requests /\ shared' = [shared EXCEPT ![request][g.t] = P]
      BY <1>1, <1>3, <1>4, <2>2 DEF Scoped, Base, Typed
    <3>2. \A r \in Requests, t \in Tokens :
             shared'[r][t] = IF r = request /\ t = g.t THEN P ELSE shared[r][t]
      BY <3>1 DEF Base, Typed
    <3>3. ASSUME NEW c \in Modules, Registered(c, g.t), Scope(c, g.t) = "request"
          PROVE  Right(P, <<c, g.t>>)
      <4>1. CASE c = g.c
        BY <1>5, <1>7, <4>1
      <4>2. CASE c # g.c
        <5>1. PICK t : t = g.t /\ t \in Tokens
          BY <1>2, <1>3
        <5>2. g.c \in Modules /\ Registered(g.c, t) /\ Scope(g.c, t) = "request"
          BY <1>2, <1>3, <3>1, <5>1 DEF Scoped, Scope, Containers
        <5>3. \A m \in {c, g.c} : Registered(m, t) /\ Scope(m, t) = "request"
          BY <3>3, <5>1, <5>2
        <5>4. Clash(t)
          BY <4>2, <5>2, <5>3 DEF Clash
        <5>5. Viable(<<c, t>>)
          BY <5>1, <5>4 DEF Viable
        <5>6. PICK x : x = <<c, t>>
          OBVIOUS
        <5>7. x[2] = t
          BY <5>6
        <5> QED BY <5>1, <5>4, <5>5, <5>6, <5>7 DEF Right
      <4> QED BY <4>1, <4>2
    <3>4. \A r \in Requests, t \in Tokens, c \in Modules :
            shared'[r][t] # None /\ Registered(c, t) /\ Scope(c, t) = "request" =>
                Right(shared'[r][t], <<c, t>>)
      BY <3>2, <3>3 DEF SharedRight
    <3> QED BY <1>1, <3>4, FixedGenuine, Fixed DEF SharedRight
  <2> QED BY <2>1, <2>2
<1>10. Handed'
  <2>1. Sought' = q
    BY <1>1, <1>2, <1>3, <1>6, PopBound DEF Sound
  <2>2. todo'.do = "return" /\ todo'.inst = P
    BY <1>1, <1>4
  <2> QED BY <1>1, <1>7, <2>1, <2>2, FixedGenuine DEF Handed
<1>11. AllServed'
  BY <1>1, <1>2, ServedKept
<1> QED BY <1>8, <1>9, <1>10, <1>11

\* The caches are as right as before.
LEMMA GenuineResolve ==
  ASSUME Base, Genuine, NEW c \in Containers, NEW t \in Tokens, NEW r \in Requests \union {Outside},
         Resolve(c, t, r)
  PROVE  Genuine'
<1>1. /\ stack = <<>> /\ scanned = Modules /\ todo'.do = "call" /\ answer' = NoAnswer
      /\ UNCHANGED <<graph, scanned, exported, singletons, shared, stack>>
  BY BaseResolve DEF Resolve
<1>2. Handed' /\ Told'
  BY <1>1 DEF Handed, Told, NoAnswer
<1> QED BY <1>1, <1>2, RestGenuine, ServedKept DEF Genuine

\* Nothing is kept before everything is scanned.
LEMMA GenuineScan ==
  ASSUME Base, NEW m \in Modules, Scan(m)
  PROVE  Genuine'
<1>1. /\ todo = Idle /\ stack = <<>> /\ scanned # Modules
      /\ UNCHANGED <<singletons, shared, stack, todo, answer>>
  BY BaseScan DEF Scan
<1>2. /\ \A p \in Pairs : singletons[p] = None
      /\ \A r \in Requests, t \in Tokens : shared[r][t] = None
      /\ answer = NoAnswer /\ None' = None
  BY <1>1 DEF Base, Typed, None
<1>3. KeptRight' /\ SharedRight'
  BY <1>1, <1>2 DEF KeptRight, SharedRight
<1>4. AllServed'
  <2>1. Len(<<>>) = 0
    BY EmptySeq
  <2> QED BY <1>1, <2>1 DEF AllServed
<1>5. Handed' /\ Told'
  BY <1>1, <1>2 DEF Handed, Told, Idle, NoAnswer
<1> QED BY <1>3, <1>4, <1>5 DEF Genuine

\* Nothing is kept at the start.
LEMMA GenuineInit == Init => Genuine
<1> SUFFICES ASSUME Init PROVE Genuine
  OBVIOUS
<1>1. KeptRight /\ SharedRight
  BY DEF Init, KeptRight, SharedRight
<1>2. AllServed /\ Handed /\ Told
  <2>1. Len(<<>>) = 0
    BY EmptySeq
  <2> QED BY <2>1 DEF Init, AllServed, Handed, Told, Idle, NoAnswer
<1> QED BY <1>1, <1>2 DEF Genuine

\* Instances are right after every step.
LEMMA GenuineNext == Base /\ Sound /\ Genuine /\ [Next]_vars => Genuine'
<1> SUFFICES ASSUME Base, Sound, Genuine, [Next]_vars PROVE Genuine'
  OBVIOUS
<1>1. CASE \E m \in Modules : Scan(m)
  BY <1>1, GenuineScan
<1>2. CASE \E c \in Containers, t \in Tokens, r \in Requests \union {Outside} : Resolve(c, t, r)
  BY <1>2, GenuineResolve
<1>3. CASE UNCHANGED vars
  <2>1. Still /\ UNCHANGED <<graph, scanned, exported, stack, todo, singletons, shared, answer>>
    BY <1>3 DEF vars, Still
  <2>2. PICK f : f = Top
    OBVIOUS
  <2>3. Top' = f /\ Sought' = Sought
    BY <2>1, <2>2, FixedBound DEF Top, Sought
  <2>4. Handed' <=> Handed
    BY <2>1, <2>2, <2>3, FixedGenuine DEF Handed
  <2>5. AllServed => AllServed'
    BY <2>1, ServedKept
  <2> QED BY <2>1, <2>4, <2>5, RestGenuine, ToldKept DEF Genuine
<1> QED
  BY <1>1, <1>2, <1>3, GenuineCircular, GenuineHit, GenuineMiss, GenuineEnter, GenuineInject,
     GenuineFinish, GenuineReturn, GenuineThrow, GenuineAnswer DEF Next

------------------------------------------------------------------------------
(* Exceptions have a reason *)

\* No frame would swallow an exception, or none of those on the stack.
Bare(f) == f.c # "parent" => f.now \notin Optional(f.c, f.t)
Exposed == \A i \in 1..Len(stack) : Bare(stack[i])

\* An exception that nobody swallows has a reason.
Lost == /\ todo.do = "throw" /\ Exposed => Hopeless(Wanted)
        /\ answer = NoAnswer \/ answer.kind = "instance" \/ Hopeless(Wanted)

\* If the calls on the stack lead, by needed dependencies only, to what nobody
\* provides or back to what they make, then nothing can be made of what was wanted.
LEMMA DeadEnd ==
  ASSUME Base, Bound, Exposed, NEW m \in 0..Len(stack), NEW q,
         m = 0 => q = Wanted,
         m > 0 => Leads(stack[m], q),
         q \notin Known \/ \E i \in 1..m : stack[i].c # "parent" /\ q = Goal(stack[i])
  PROVE  Hopeless(Wanted)
<1> DEFINE K == {k \in 1..m : stack[k].c # "parent"}
           X == {Goal(stack[k]) : k \in K}
<1>1. /\ Len(stack) \in Nat /\ m \in Nat /\ \A k \in 1..Len(stack) : stack[k] \in Frames
           /\ Fits(stack[k])
      /\ \A k \in 1..(Len(stack) - 1) : Link(stack[k], stack[k + 1])
      /\ (stack # <<>> <=> Len(stack) > 0)
  BY Stacks DEF Base, Typed, Linked
<1>2. q \in X \/ q \notin Known
  BY <1>1
<1>3. ASSUME NEW k \in K
      PROVE  /\ Goal(stack[k]) \in Known
             /\ \A d : Leads(stack[k], d) => d \in Needs(Goal(stack[k]))
  <2>1. PICK f : f = stack[k]
    OBVIOUS
  <2>2. f \in Frames /\ Fits(f) /\ f.c # "parent" /\ Bare(f)
    BY <1>1, <2>1 DEF Exposed
  <2>3. PICK x : x = Goal(f) /\ x = <<f.c, f.t>>
    BY <2>2 DEF Goal
  <2>4. x[1] = f.c /\ x[2] = f.t
    BY <2>3
  <2>5. x \in Known
    BY <2>2, <2>3, <2>4 DEF Fits, Frames, Known, Pairs
  <2>6. \A d : Leads(f, d) => d \in Needs(x)
    BY <2>2, <2>4 DEF Leads, Aim, Bare, Needs
  <2> QED BY <2>1, <2>3, <2>5, <2>6
<1>4. ASSUME NEW k \in 1..m
      PROVE  \E d : Leads(stack[k], d) /\ (d \in X \/ d \notin Known)
  <2>1. CASE k = m
    BY <1>1, <1>2, <2>1
  <2>2. CASE k # m
    <3>1. PICK n : n = k + 1 /\ n \in 1..m /\ k \in 1..(Len(stack) - 1)
      BY <1>1, <2>2
    <3>2. PICK f, g : f = stack[k] /\ g = stack[n]
      OBVIOUS
    <3>3. Leads(f, Goal(g))
      BY <1>1, <3>1, <3>2 DEF Link
    <3>4. CASE g.c # "parent"
      <4>1. n \in K
        BY <3>1, <3>2, <3>4
      <4> QED BY <3>2, <3>3, <4>1
    <3>5. CASE g.c = "parent" /\ n = m
      <4>1. Leads(g, q)
        BY <1>1, <3>1, <3>2, <3>5
      <4>2. q = Goal(g)
        BY <3>5, <4>1 DEF Leads, Aim, Goal
      <4> QED BY <1>2, <3>2, <3>3, <4>2
    <3>6. CASE g.c = "parent" /\ n # m
      <4>1. PICK l : l = n + 1 /\ l \in 1..m /\ n \in 1..(Len(stack) - 1)
        BY <1>1, <3>1, <3>6
      <4>2. PICK h : h = stack[l]
        OBVIOUS
      <4>3. Link(g, h)
        BY <1>1, <3>2, <4>1, <4>2
      <4>4. h.c # "parent" /\ Goal(h) = Goal(g)
        BY <3>6, <4>3 DEF Link, Leads, Aim, Goal
      <4>5. l \in K
        BY <4>1, <4>2, <4>4
      <4> QED BY <3>2, <3>3, <4>2, <4>4, <4>5
    <3> QED BY <3>4, <3>5, <3>6
  <2> QED BY <2>1, <2>2
<1>5. X \subseteq Known
  BY <1>3
<1>6. \A x \in X : \E d \in Needs(x) : d \in X \/ d \notin Known
  <2> SUFFICES ASSUME NEW k \in K
               PROVE  \E d \in Needs(Goal(stack[k])) : d \in X \/ d \notin Known
    OBVIOUS
  <2> QED BY <1>3, <1>4
<1>7. Wanted \in X \/ Wanted \notin Known
  <2>1. CASE m = 0
    BY <1>2, <2>1
  <2>2. CASE m # 0
    <3>1. PICK f : f = stack[1]
      OBVIOUS
    <3>2. 1 \in 1..m /\ Goal(f) = Wanted
      BY <1>1, <2>2, <3>1 DEF Bound
    <3>3. CASE f.c # "parent"
      <4>1. 1 \in K
        BY <3>1, <3>2, <3>3
      <4> QED BY <3>1, <3>2, <4>1
    <3>4. CASE f.c = "parent"
      <4>1. PICK d : Leads(f, d) /\ (d \in X \/ d \notin Known)
        BY <1>4, <3>1, <3>2
      <4>2. d = Wanted
        BY <3>2, <3>4, <4>1 DEF Leads, Aim, Goal
      <4> QED BY <4>1, <4>2
    <3> QED BY <3>3, <3>4
  <2> QED BY <2>1, <2>2
<1> HIDE DEF X
<1> QED BY <1>5, <1>6, <1>7 DEF Hopeless

\* A stack that is full holds a provider twice.
LEMMA Twice ==
  ASSUME Base, Len(stack) >= MaxDepth
  PROVE  \E i, j \in 1..Len(stack) :
            i < j /\ stack[i].c # "parent" /\ stack[j].c # "parent"
              /\ Goal(stack[i]) = Goal(stack[j])
<1>1. /\ Len(stack) \in Nat /\ \A k \in 1..Len(stack) : stack[k] \in Frames
      /\ \A k \in 1..(Len(stack) - 1) : Link(stack[k], stack[k + 1])
  BY Stacks DEF Base, Typed, Linked
<1>2. PICK n : n = Cardinality(Pairs) /\ n \in Nat /\ IsFiniteSet(Pairs)
             /\ Len(stack) >= 2 * (n + 1)
  <2>1. IsFiniteSet(Pairs) /\ MaxDepth \in Nat /\ MaxDepth >= 2 * (Cardinality(Pairs) + 1)
    BY DepthAssumption DEF Pairs, Containers
  <2>2. PICK n : n = Cardinality(Pairs) /\ n \in Nat
    BY <2>1, FS_CardinalityType
  <2>3. PICK l : l = Len(stack) /\ l \in Nat
    BY <1>1
  <2>4. l >= 2 * (n + 1)
    BY <2>1, <2>2, <2>3
  <2> QED BY <2>1, <2>2, <2>3, <2>4
<1> DEFINE h(i) == IF stack[2 * i - 1].c # "parent" THEN 2 * i - 1 ELSE 2 * i
           S    == 1..(n + 1)
           F    == [i \in S |-> Goal(stack[h(i)])]
<1>3. ASSUME NEW i \in S
      PROVE  /\ h(i) \in 1..Len(stack) /\ (h(i) = 2 * i - 1 \/ h(i) = 2 * i)
             /\ stack[h(i)].c # "parent" /\ Goal(stack[h(i)]) \in Pairs
  <2>1. PICK a, b : a = 2 * i - 1 /\ b = 2 * i /\ b = a + 1 /\ a \in 1..(Len(stack) - 1)
               /\ b \in 1..Len(stack)
                    /\ a \in 1..Len(stack)
    <3>1. PICK l : l = Len(stack) /\ l \in Nat /\ l >= 2 * (n + 1)
      BY <1>1, <1>2
    <3>2. 2 * i - 1 \in 1..(l - 1) /\ 2 * i \in 1..l /\ 2 * i - 1 \in 1..l
            /\ 2 * i = (2 * i - 1) + 1
      BY <1>2, <3>1
    <3> QED BY <3>1, <3>2
  <2>2. Link(stack[a], stack[b])
    BY <1>1, <2>1
  <2>3. h(i) = (IF stack[a].c # "parent" THEN a ELSE b)
    BY <2>1
  <2>4. stack[h(i)].c # "parent" /\ h(i) \in 1..Len(stack) /\ (h(i) = a \/ h(i) = b)
    BY <2>1, <2>2, <2>3 DEF Link
  <2>5. PICK f : f = stack[h(i)] /\ f \in Frames /\ f.c # "parent"
    BY <1>1, <2>4
  <2>6. Goal(f) \in Pairs
    BY <2>5 DEF Goal, Frames, Pairs
  <2> QED BY <2>1, <2>4, <2>5, <2>6
<1>4. IsFiniteSet(S) /\ Cardinality(S) = n + 1
  <2>1. 1 \in Int /\ n + 1 \in Int /\ ~(1 > n + 1) /\ (n + 1) - 1 + 1 = n + 1
    BY <1>2
  <2> QED BY <2>1, FS_Interval
<1> HIDE DEF h
<1>5. F \in [S -> Pairs]
  BY <1>3
<1>6. PICK x \in S, y \in S : x # y /\ F[x] = F[y]
  <2>1. Cardinality(Pairs) < Cardinality(S)
    BY <1>2, <1>4
  <2> HIDE DEF F, S
  <2> QED BY <1>2, <1>4, <1>5, <2>1, FS_PigeonHole
<1>7. Goal(stack[h(x)]) = Goal(stack[h(y)])
  BY <1>6
<1>8. PICK a, b : a = h(x) /\ b = h(y)
  OBVIOUS
<1>9. a < b \/ b < a
  <2>1. x \in Int /\ y \in Int
    BY <1>2
  <2>2. (a = 2 * x - 1 \/ a = 2 * x) /\ (b = 2 * y - 1 \/ b = 2 * y)
    BY <1>3, <1>8
  <2> QED BY <1>6, <2>1, <2>2
<1> QED BY <1>3, <1>7, <1>8, <1>9

\* A step that throws, and one that does not.
LEMMA LostThrown ==
  ASSUME Lost, Still, UNCHANGED <<stack, answer>>, Exposed => Hopeless(Wanted)
  PROVE  Lost'
<1>1. \A f : Bare(f)' <=> Bare(f)
  BY DEF Bare, Optional, Still
<1>2. Exposed' => Exposed
  BY <1>1 DEF Exposed
<1>3. (Hopeless(Wanted)' <=> Hopeless(Wanted)) /\ NoAnswer' = NoAnswer
  BY FixedBound, FixedGenuine DEF Still, NoAnswer
<1> QED BY <1>2, <1>3 DEF Lost

\* A step that throws nothing and answers nothing.
LEMMA LostQuiet ==
  ASSUME Lost, Still, todo'.do # "throw", UNCHANGED answer
  PROVE  Lost'
<1>1. Hopeless(Wanted)' <=> Hopeless(Wanted)
  BY FixedBound, FixedGenuine DEF Still
<1> QED BY <1>1 DEF Lost, NoAnswer

\* What is marked is asked for again by those who make it.
LEMMA LostCircular ==
  ASSUME Base, Sound, Lost, Circular
  PROVE  Lost'
<1>1. /\ todo.do = "call" /\ <<todo.c, todo.t>> \in resolving /\ Still
           /\ UNCHANGED <<stack, answer>>
  BY DEF Circular, Calling, Rest, Still
<1>2. ASSUME Exposed PROVE Hopeless(Wanted)
  <2>1. PICK c, t : c = todo.c /\ t = todo.t /\ c \in Containers /\ t \in Tokens
    BY <1>1, TodoTyped DEF Base
  <2>2. PICK i \in 1..Len(stack) : Makes(stack[i], <<c, t>>)
    BY <1>1, <2>1 DEF Sound, Marked
  <2>3. PICK f : f = stack[i]
    OBVIOUS
  <2>4. f.c # "parent" /\ f.c = c /\ f.t = t /\ Goal(f) = <<c, t>>
    BY <2>2, <2>3 DEF Makes, Goal
  <2>5. Registered(c, t)
    BY <2>3, <2>4 DEF Base, Linked, Fits
  <2>6. Target(<<c, t>>) = <<c, t>>
    BY <2>1, <2>5, GraphTyped DEF Base
  <2>7. PICK m : m = Len(stack) /\ m \in Nat /\ i \in 1..m /\ m > 0
    BY Stacks DEF Base, Typed
  <2>8. Leads(stack[m], <<c, t>>)
    <3>1. stack # <<>>
      BY <2>7, Stacks DEF Base, Typed
    <3> QED BY <1>1, <2>1, <2>6, <2>7, <3>1 DEF Base, Linked, Top
  <2>9. PICK q : q = <<c, t>>
    OBVIOUS
  <2>10. m \in 0..Len(stack) /\ ~(m = 0) /\ Leads(stack[m], q)
         /\ \E k \in 1..m : stack[k].c # "parent" /\ q = Goal(stack[k])
    BY <2>3, <2>4, <2>7, <2>8, <2>9
  <2> HIDE DEF Hopeless, Wanted
  <2> QED BY <1>2, <2>10, DeadEnd DEF Sound
<1> QED BY <1>1, <1>2, LostThrown

\* What the root does not have, nobody provides.
LEMMA LostMiss ==
  ASSUME Base, Sound, Lost, Miss
  PROVE  Lost'
<1>1. /\ todo.do = "call" /\ ~Registered(todo.c, todo.t) /\ Still
      /\ UNCHANGED answer
      /\ IF todo.c = "root" THEN UNCHANGED stack ELSE todo'.do = "call"
  BY DEF Miss, Calling, Rest, Still, Calls
<1>2. CASE todo.c # "root"
  BY <1>1, <1>2, LostQuiet
<1>3. CASE todo.c = "root"
  <2>1. ASSUME Exposed PROVE Hopeless(Wanted)
    <3>1. PICK t : t = todo.t /\ t \in Tokens /\ "root" \in Containers
      BY <1>1, TodoTyped DEF Base, Containers
    <3>2. PICK q : q = <<"root", t>>
      OBVIOUS
    <3>3. q[1] = "root" /\ q[2] = t
      BY <3>2
    <3>4. q \notin Known
      BY <1>1, <1>3, <3>1, <3>3 DEF Known
    <3>5. Target(<<todo.c, todo.t>>) = q
      BY <1>3, <3>1, <3>2, GraphTyped DEF Base
    <3>6. PICK m : m = Len(stack) /\ m \in Nat /\ (stack # <<>> <=> m > 0)
      BY Stacks DEF Base, Typed
    <3>7. m = 0 => q = Wanted
      BY <1>1, <3>5, <3>6 DEF Sound, Bound, Sought
    <3>8. m > 0 => Leads(stack[m], q)
      BY <1>1, <3>5, <3>6 DEF Base, Linked, Top
    <3>9. m \in 0..Len(stack)
      BY <3>6
    <3> QED BY <2>1, <3>4, <3>7, <3>8, <3>9, DeadEnd DEF Sound
  <2> QED BY <1>1, <1>3, <2>1, LostThrown
<1> QED BY <1>2, <1>3

\* What overflows the stack goes round in a circle.
LEMMA LostEnter ==
  ASSUME Base, Sound, Lost, Enter
  PROVE  Lost'
<1>1. CASE todo' # [do |-> "work"]
  <2>1. /\ Still /\ UNCHANGED <<stack, answer>> /\ Len(stack) >= MaxDepth
    <3>1. Len(stack) >= MaxDepth
      BY <1>1 DEF Enter
    <3> QED BY <1>1, <3>1, Overflown
  <2>2. ASSUME Exposed PROVE Hopeless(Wanted)
    <3>1. PICK i \in 1..Len(stack), j \in 1..Len(stack) :
             i < j /\ stack[i].c # "parent" /\ stack[j].c # "parent"
               /\ Goal(stack[i]) = Goal(stack[j])
      BY <2>1, Twice
    <3>2. PICK m : m = j - 1 /\ m \in 0..Len(stack) /\ m \in 1..(Len(stack) - 1) /\ i \in 1..m
                   /\ j = m + 1 /\ ~(m = 0)
      <4>1. PICK n : n = Len(stack) /\ n \in Nat
        BY Stacks DEF Base, Typed
      <4>2. i \in Int /\ j \in Int /\ 1 <= i /\ i < j /\ j <= n
        BY <3>1, <4>1
      <4>3. j - 1 \in 0..n /\ j - 1 \in 1..(n - 1) /\ i \in 1..(j - 1) /\ j = (j - 1) + 1
              /\ ~(j - 1 = 0)
        BY <4>1, <4>2
      <4> QED BY <4>1, <4>3
    <3>3. Link(stack[m], stack[j])
      BY <3>2 DEF Base, Linked
    <3>4. PICK q : q = Goal(stack[j])
      OBVIOUS
    <3>5. Leads(stack[m], q) /\ q = Goal(stack[i])
      BY <3>1, <3>3, <3>4 DEF Link
    <3>6. \E k \in 1..m : stack[k].c # "parent" /\ q = Goal(stack[k])
      BY <3>1, <3>2, <3>5
    <3> QED BY <2>2, <3>2, <3>5, <3>6, DeadEnd DEF Sound
  <2> QED BY <2>1, <2>2, LostThrown
<1>2. CASE todo' = [do |-> "work"]
  <2>1. Still /\ UNCHANGED answer
    BY DEF Enter, Rest, Still
  <2> QED BY <1>2, <2>1, LostQuiet
<1> QED BY <1>1, <1>2

\* The frames left behind swallow nothing.
LEMMA LostThrow ==
  ASSUME Base, Lost, Throw
  PROVE  Lost'
<1>1. todo.do = "throw" /\ stack # <<>> /\ Still /\ UNCHANGED answer
  BY DEF Throw, Rest, Still
<1>2. CASE Top.c # "parent" /\ Top.now \in Optional(Top.c, Top.t)
  <2>1. todo'.do = "work"
    BY <1>2 DEF Throw
  <2> QED BY <1>1, <2>1, LostQuiet
<1>3. CASE ~(Top.c # "parent" /\ Top.now \in Optional(Top.c, Top.t))
  <2>1. stack' = Popped
    BY <1>3 DEF Throw
  <2>2. Bare(Top)
    BY <1>3 DEF Bare
  <2>3. /\ Len(stack) \in Nat /\ Len(stack) > 0 /\ Len(stack') = Len(stack) - 1
        /\ Top = stack[Len(stack)]
        /\ \A i \in 1..(Len(stack) - 1) : stack'[i] = stack[i]
    BY <1>1, <2>1, Stacks DEF Base, Typed
  <2>4. \A f : Bare(f)' <=> Bare(f)
    BY <1>1 DEF Bare, Optional, Still
  <2>5. ASSUME Exposed' PROVE Exposed
    <3>1. ASSUME NEW i \in 1..Len(stack) PROVE Bare(stack[i])
      <4>1. CASE i = Len(stack)
        BY <2>2, <2>3, <4>1
      <4>2. CASE i # Len(stack)
        <5>1. i \in 1..Len(stack') /\ stack'[i] = stack[i]
          BY <2>3, <4>2
        <5>2. Bare(stack[i])'
          BY <2>5, <5>1 DEF Exposed
        <5>3. PICK f : f = stack[i]
          OBVIOUS
        <5> QED BY <2>4, <5>1, <5>2, <5>3
      <4> QED BY <4>1, <4>2
    <3> QED BY <3>1 DEF Exposed
  <2>6. Hopeless(Wanted)' <=> Hopeless(Wanted)
    BY <1>1, FixedBound, FixedGenuine DEF Still
  <2> QED BY <1>1, <2>5, <2>6 DEF Lost, NoAnswer
<1> QED BY <1>2, <1>3

\* What the program is told has a reason.
LEMMA LostAnswer ==
  ASSUME Base, Lost, Answer
  PROVE  Lost'
<1>1. /\ todo.do \in {"return", "throw"} /\ stack = <<>> /\ todo' = Idle /\ Still
      /\ answer' = IF todo.do = "return" THEN [kind |-> "instance", inst |-> todo.inst]
                   ELSE [kind |-> todo.err]
  BY DEF Answer, Rest, Still
<1>2. Exposed
  <2>1. Len(<<>>) = 0
    BY EmptySeq
  <2> QED BY <1>1, <2>1 DEF Exposed
<1>3. todo.do = "throw" => Hopeless(Wanted)
  BY <1>2 DEF Lost
<1>4. todo.do = "return" => answer'.kind = "instance"
  BY <1>1
<1>5. Hopeless(Wanted)' <=> Hopeless(Wanted)
  BY <1>1, FixedBound, FixedGenuine DEF Still
<1> QED BY <1>1, <1>3, <1>4, <1>5 DEF Lost, Idle

\* Exceptions have a reason after every step.
LEMMA LostNext == Base /\ Sound /\ Lost /\ [Next]_vars => Lost'
<1> SUFFICES ASSUME Base, Sound, Lost, [Next]_vars PROVE Lost'
  OBVIOUS
<1>1. CASE \E m \in Modules : Scan(m)
  <2>1. todo'.do = "idle" /\ answer' = NoAnswer
    BY <1>1, BaseScan DEF Scan, Base, Typed, Idle
  <2> QED BY <2>1 DEF Lost, NoAnswer
<1>2. CASE \E c \in Containers, t \in Tokens, r \in Requests \union {Outside} : Resolve(c, t, r)
  BY <1>2 DEF Resolve, Calls, Lost, NoAnswer
<1>3. CASE Hit \/ Inject \/ Finish \/ Return
  <2>1. Still /\ UNCHANGED answer
    BY <1>3 DEF Hit, Inject, Finish, Return, Rest, Still
  <2>2. CASE Hit
    BY <2>1, <2>2, LostQuiet DEF Hit, Returns
  <2>3. CASE Inject
    BY <2>1, <2>3, LostQuiet DEF Inject, Calls
  <2>4. CASE Finish
    BY <2>1, <2>4, LostQuiet DEF Finish, Returns
  <2>5. CASE Return
    <3>1. todo'.do \in {"return", "work"}
      BY <2>5 DEF Return
    <3> QED BY <2>1, <3>1, LostQuiet
  <2> QED BY <1>3, <2>2, <2>3, <2>4, <2>5
<1>4. CASE UNCHANGED vars
  <2>1. Still /\ UNCHANGED <<stack, todo, answer>>
    BY <1>4 DEF vars, Still
  <2>2. CASE todo.do = "throw"
    BY <2>1, <2>2, LostThrown DEF Lost
  <2>3. CASE todo.do # "throw"
    BY <2>1, <2>3, LostQuiet
  <2> QED BY <2>2, <2>3
<1> QED
  BY <1>1, <1>2, <1>3, <1>4, LostCircular, LostMiss, LostEnter, LostThrow, LostAnswer DEF Next

\* The inductive invariant of the answers.
Answered == Base /\ Sound /\ Genuine /\ Lost

\* The parts of the invariant say of an answer all that is promised.
LEMMA AnsweredRight == Answered => AnswersRight
<1> SUFFICES ASSUME Answered, answer # NoAnswer
             PROVE  /\ answer.kind # "instance" => Hopeless(Wanted)
                    /\ answer.kind = "instance" => ~Hopeless(Wanted) \/ \E t \in Tokens : Clash(t)
                    /\ answer.kind = "instance" => Clash(Wanted[2])
                         \/ answer.inst.of = Maker(Wanted)
                    /\ resolving = {}
  BY DEF AnswersRight, Wanted
<1>1. todo.do = "idle" /\ scanned = Modules
  BY DEF Answered, Sound, Quiet
<1>2. resolving = {}
  BY <1>1, Unmarked DEF Answered, Base, Typed
<1>3. answer.kind = "instance" => Right(answer.inst, Wanted)
  BY <1>1 DEF Answered, Genuine, Told
<1>4. answer.kind # "instance" => Hopeless(Wanted)
  BY DEF Answered, Lost
<1> QED BY <1>2, <1>3, <1>4 DEF Right, Viable

\* resolve() answers with an instance exactly when there is one to be had, of the
\* right provider, and leaves nothing marked, but for cells that two modules share
\* (container.ts:186-259; scanner.ts:83-122).
THEOREM AnswersAlwaysRight == Spec => []AnswersRight
<1>1. Init => Answered
  BY BaseInit, SoundInit, GenuineInit DEF Answered, Lost, Init, Idle
<1>2. Answered /\ [Next]_vars => Answered'
  BY BaseNext, SoundNext, GenuineNext, LostNext DEF Answered
<1> QED BY <1>1, <1>2, AnsweredRight, PTL DEF Spec

==============================================================================

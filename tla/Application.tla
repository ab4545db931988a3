----------------------------- MODULE Application -----------------------------
(***************************************************************************)
(* The lifecycle of an application, packages/core/src/application.ts:      *)
(* bootstrap(), listen(), shutdown() and the signal handlers, which run    *)
(* the lifecycle hooks of every provider.                                  *)
(*                                                                         *)
(* Every call is a thread of its own between its awaits: `started` is read *)
(* when a call begins and written when it ends, and nothing keeps two      *)
(* calls from running the hooks side by side.                              *)
(*                                                                         *)
(* callLifecycleOnAll() resolves the providers of the root module's        *)
(* container, then those of the container of every module, the root's      *)
(* again.  Walk is the sequence of the instances this comes upon.  A       *)
(* transient provider is a different instance each time and is left out.   *)
(* What a hook does is left out too, and so is the schedule scanner, which *)
(* is called for the root module's instances after each hook.              *)
(***************************************************************************)
EXTENDS Naturals, Sequences, FiniteSets

CONSTANTS Walk,      \* the instances in the order of callLifecycleOnAll()
          Broken,    \* those whose provider cannot be resolved
          MaxCalls   \* bound: how many lifecycle calls and signals there are

Elements(s) == {s[i] : i \in 1..Len(s)}

ASSUME WalkAssumption == Walk \in Seq(Elements(Walk))
ASSUME CallsAssumption == MaxCalls \in Nat

Calls     == 1..MaxCalls        \* in the order in which they are made
Instances == Elements(Walk)
Hooked    == Instances \ Broken

InitPhases    == {"onModuleInit", "onApplicationInit"}
DestroyPhases == {"beforeApplicationDestroy", "onModuleDestroy", "onApplicationDestroy"}
HookPhases    == InitPhases \union DestroyPhases
Phases        == HookPhases \union {"none", "starting", "returned"}
Kinds         == {"bootstrap", "listen", "shutdown", "signal"}

VARIABLES started,    \* this.started
          handlers,   \* how often registerShutdownHandlers() has run
          listening,  \* the HTTP server accepts requests
          exited,     \* process.exit(0)
          phase,      \* the hook a call is busy with, or where else it is
          kind,       \* what each call is
          pos,        \* its place in Walk
          visited,    \* its `visited` set
          awaiting,   \* it awaits a hook
          serial,     \* parameter: the program makes one call after the other
          done,       \* history: the instances on which each hook has settled
          last        \* history: the hook called last on each instance

control == <<phase, kind, pos, visited, awaiting>>
vars == <<started, handlers, listening, exited, control, serial, done, last>>

Init ==
    /\ started = FALSE
    /\ handlers = 0
    /\ listening = FALSE
    /\ exited = FALSE
    /\ phase = [k \in Calls |-> "none"]
    /\ kind = [k \in Calls |-> "bootstrap"]
    /\ pos = [k \in Calls |-> 1]
    /\ visited = [k \in Calls |-> {}]
    /\ awaiting = [k \in Calls |-> FALSE]
    /\ serial \in BOOLEAN
    /\ done = [h \in HookPhases |-> {}]
    /\ last = [i \in Instances |-> "onApplicationDestroy"]

------------------------------------------------------------------------------
(* The calls, up to the first hook *)

\* k is the next call to be made; where calls are serial, those before it have
\* returned.
MayCall(k) ==
    /\ ~exited
    /\ phase[k] = "none"
    /\ \A m \in 1..(k - 1) :
          phase[m] # "none" /\ (serial => phase[m] = "returned")

Begin(k, what, where) ==
    /\ kind' = [kind EXCEPT ![k] = what]
    /\ phase' = [phase EXCEPT ![k] = where]
    /\ UNCHANGED <<handlers, listening, pos, visited, awaiting, serial, done, last>>

\* bootstrap() and listen(), which starts the server when bootstrap() returns.
Bootstrap(k, what) ==
    /\ MayCall(k)
    /\ \/ ~started /\ Begin(k, what, "onModuleInit")
       \/ started /\ Begin(k, what, IF what = "listen" THEN "starting" ELSE "returned")
    /\ UNCHANGED <<started, exited>>

\* shutdown(), and a signal that calls it and then process.exit(0).  Each
\* registered handler gets the signal: a second handler is another call.
Shutdown(k, what) ==
    /\ MayCall(k)
    /\ what = "signal" => handlers > 0
    /\ \/ /\ started
          /\ Begin(k, what, "beforeApplicationDestroy")
          /\ UNCHANGED exited
       \/ /\ ~started
          /\ Begin(k, what, "returned")
          /\ exited' = (what = "signal")
    /\ UNCHANGED started

------------------------------------------------------------------------------
(* callLifecycleOnAll() *)

InWalk(k) ==
    /\ ~exited
    /\ phase[k] \in HookPhases
    /\ ~awaiting[k]
    /\ pos[k] \in 1..Len(Walk)

\* resolve() throws, or the instance was visited under another token.
Skip(k) ==
    /\ InWalk(k)
    /\ Walk[pos[k]] \in Broken \union visited[k]
    /\ pos' = [pos EXCEPT ![k] = @ + 1]
    /\ UNCHANGED <<started, handlers, listening, exited, phase, kind, visited,
                   awaiting, serial, done, last>>

\* Mutant: nothing asks whether the instance was visited under another token.
VisitAgain(k) ==
    /\ InWalk(k)
    /\ Walk[pos[k]] \notin Broken
    /\ visited' = [visited EXCEPT ![k] = @ \union {Walk[pos[k]]}]
    /\ awaiting' = [awaiting EXCEPT ![k] = TRUE]
    /\ last' = [last EXCEPT ![Walk[pos[k]]] = phase[k]]
    /\ UNCHANGED <<started, handlers, listening, exited, phase, kind, pos, serial, done>>

\* fn(instance) calls the hook, if the instance has it.
Visit(k) ==
    /\ InWalk(k)
    /\ Walk[pos[k]] \notin Broken \union visited[k]
    /\ visited' = [visited EXCEPT ![k] = @ \union {Walk[pos[k]]}]
    /\ awaiting' = [awaiting EXCEPT ![k] = TRUE]
    /\ last' = [last EXCEPT ![Walk[pos[k]]] = phase[k]]
    /\ UNCHANGED <<started, handlers, listening, exited, phase, kind, pos, serial, done>>

\* The hook settles.  If it rejects, the catch block keeps it to itself.
Settle(k) ==
    /\ ~exited
    /\ awaiting[k]
    /\ awaiting' = [awaiting EXCEPT ![k] = FALSE]
    /\ pos' = [pos EXCEPT ![k] = @ + 1]
    /\ done' = [done EXCEPT ![phase[k]] = @ \union {Walk[pos[k]]}]
    /\ UNCHANGED <<started, handlers, listening, exited, phase, kind, visited, serial, last>>

WalkOver(k) ==
    /\ ~exited
    /\ phase[k] \in HookPhases
    /\ ~awaiting[k]
    /\ pos[k] > Len(Walk)

------------------------------------------------------------------------------
(* From one phase to the next *)

Successor(h) ==
    CASE h = "onModuleInit"             -> "onApplicationInit"
      [] h = "beforeApplicationDestroy" -> "onModuleDestroy"
      [] h = "onModuleDestroy"          -> "onApplicationDestroy"

\* Mutant: the visited set is not a new one.
NextPhaseKeeps(k) ==
    /\ WalkOver(k)
    /\ phase[k] \notin {"onApplicationInit", "onApplicationDestroy"}
    /\ phase' = [phase EXCEPT ![k] = Successor(phase[k])]
    /\ pos' = [pos EXCEPT ![k] = 1]
    /\ UNCHANGED <<started, handlers, listening, exited, kind, visited, awaiting,
                   serial, done, last>>

\* The next callLifecycleOnAll() of the same call.
NextPhase(k) ==
    /\ WalkOver(k)
    /\ phase[k] \notin {"onApplicationInit", "onApplicationDestroy"}
    /\ phase' = [phase EXCEPT ![k] = Successor(phase[k])]
    /\ pos' = [pos EXCEPT ![k] = 1]
    /\ visited' = [visited EXCEPT ![k] = {}]
    /\ UNCHANGED <<started, handlers, listening, exited, kind, awaiting, serial, done, last>>

\* The end of bootstrap().
Bootstrapped(k) ==
    /\ WalkOver(k)
    /\ phase[k] = "onApplicationInit"
    /\ started' = TRUE
    /\ handlers' = handlers + 1
    /\ phase' = [phase EXCEPT ![k] = IF kind[k] = "listen" THEN "starting" ELSE "returned"]
    /\ UNCHANGED <<listening, exited, kind, pos, visited, awaiting, serial, done, last>>

\* server.start() has found the runtime and bound the port.
ServerUp(k) ==
    /\ ~exited
    /\ phase[k] = "starting"
    /\ listening' = TRUE
    /\ phase' = [phase EXCEPT ![k] = "returned"]
    /\ UNCHANGED <<started, handlers, exited, kind, pos, visited, awaiting, serial, done, last>>

\* The end of shutdown(), and of the process after a signal.  The server is
\* not told.
Destroyed(k) ==
    /\ WalkOver(k)
    /\ phase[k] = "onApplicationDestroy"
    /\ started' = FALSE
    /\ exited' = (kind[k] = "signal")
    /\ phase' = [phase EXCEPT ![k] = "returned"]
    /\ UNCHANGED <<handlers, listening, kind, pos, visited, awaiting, serial, done, last>>

------------------------------------------------------------------------------
Call(k) ==
    \/ \E what \in {"bootstrap", "listen"} : Bootstrap(k, what)
    \/ \E what \in {"shutdown", "signal"} : Shutdown(k, what)

Proceed(k) ==
    \/ Skip(k) \/ Visit(k) \/ Settle(k)
    \/ NextPhase(k) \/ Bootstrapped(k) \/ ServerUp(k) \/ Destroyed(k)

Next == \E k \in Calls : Call(k) \/ Proceed(k)

Spec == Init /\ [][Next]_vars

------------------------------------------------------------------------------
(* Properties *)

TypeOK ==
    /\ started \in BOOLEAN
    /\ handlers \in Nat
    /\ listening \in BOOLEAN
    /\ exited \in BOOLEAN
    /\ phase \in [Calls -> Phases]
    /\ kind \in [Calls -> Kinds]
    /\ pos \in [Calls -> 1..(Len(Walk) + 1)]
    /\ visited \in [Calls -> SUBSET Instances]
    /\ awaiting \in [Calls -> BOOLEAN]
    /\ serial \in BOOLEAN
    /\ done \in [HookPhases -> SUBSET Instances]
    /\ last \in [Instances -> HookPhases]

\* The hooks that must have settled everywhere before a phase begins.
Before(p) ==
    CASE p = "onApplicationInit"        -> {"onModuleInit"}
      [] p = "beforeApplicationDestroy" -> InitPhases
      [] p = "onModuleDestroy"          -> InitPhases \union {"beforeApplicationDestroy"}
      [] p = "onApplicationDestroy"     -> HookPhases \ {"onApplicationDestroy"}
      [] OTHER                          -> {}

\* docs/user-guide/dependency-injection.md:431 "After all onModuleInit hooks
\* complete": no call enters a phase before the earlier hooks have settled on
\* every provider that can be resolved, also when several calls run the phases
\* side by side and one of them sets `started` for the others
\* (application.ts:200-256).
PhaseBarrier ==
    \A k \in Calls : \A h \in Before(phase[k]) : Hooked \subseteq done[h]

\* lifecycle/index.ts:29 "BEFORE the HTTP server starts": requests are served
\* only after both init hooks have settled everywhere, although a listen() that
\* finds the application started goes straight to the server
\* (application.ts:201, 227-231).
ServerAfterInit ==
    listening => \A h \in InitPhases : Hooked \subseteq done[h]

\* The hook that an instance must have seen before the given one.
Predecessor(h) ==
    CASE h = "onModuleInit"             -> "onApplicationDestroy"
      [] h = "onApplicationInit"        -> "onModuleInit"
      [] h = "beforeApplicationDestroy" -> "onApplicationInit"
      [] h = "onModuleDestroy"          -> "beforeApplicationDestroy"
      [] h = "onApplicationDestroy"     -> "onModuleDestroy"

\* A call that goes on to await a hook has called it in this step.
HookCalled(k) == ~awaiting[k] /\ awaiting'[k]

\* In a program that makes its lifecycle calls one after the other, no hook is
\* called on an instance unless the one before it was the last to be called
\* there: each instance has its hooks in order and once per life, whatever calls
\* come in which order and under however many tokens the instance is found
\* (application.ts:201, 238, 274).
SerialHooksInOrder ==
    [][serial => \A k \in Calls :
          HookCalled(k) => last[Walk[pos[k]]] = Predecessor(phase[k])]_vars
==============================================================================

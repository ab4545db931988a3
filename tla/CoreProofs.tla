----------------------------- MODULE CoreProofs ------------------------------
(***************************************************************************)
(* Proofs about Application, for any walk, any providers that cannot be    *)
(* resolved and any number of concurrent lifecycle calls, and about        *)
(* Pipeline, for any number of guards and filters and any stack of         *)
(* interceptors; what ContainerProofs shows of the container, said of the  *)
(* one of Core; and about Emitter, for any number of emits and listeners.  *)
(***************************************************************************)
EXTENDS Core, SequenceTheorems, TLAPS

Inited == \A h \in InitPhases : Hooked \subseteq done[h]

\* Whoever sees the application started finds every provider initialised.
StartedInited ==
    started \/ listening \/ (\E k \in Calls : phase[k] = "starting") => Inited

\* What a call has walked past has had the hook of its phase, or never will.
WalkedDone ==
    \A k \in Calls : phase[k] \in HookPhases =>
        \A m \in 1..Len(Walk) : m < pos[k] => Walk[m] \in Broken \union done[phase[k]]

\* So has what it has visited, but for the hook it awaits.
VisitedDone ==
    \A k \in Calls : phase[k] \in HookPhases =>
        \A i \in visited[k] :
            i \in done[phase[k]] \/ (awaiting[k] /\ i = Walk[pos[k]])

\* A call awaits a hook only in the middle of a walk.
AwaitingInWalk ==
    \A k \in Calls : awaiting[k] =>
        phase[k] \in HookPhases /\ pos[k] \in 1..Len(Walk)

\* A call begins its first walk at the beginning.
NotYetCalled ==
    \A k \in Calls : phase[k] = "none" =>
        pos[k] = 1 /\ visited[k] = {} /\ ~awaiting[k]

\* The inductive invariant.  The barrier between the phases of one call is what
\* its own walk has done; that another call may skip the walk rests on
\* StartedInited.
IInv ==
    /\ TypeOK
    /\ PhaseBarrier
    /\ StartedInited
    /\ WalkedDone
    /\ VisitedDone
    /\ AwaitingInWalk
    /\ NotYetCalled

------------------------------------------------------------------------------
(* Facts *)

\* Lengths and places of the walk.
LEMMA WalkFacts ==
    /\ Len(Walk) \in Nat
    /\ \A m \in 1..Len(Walk) : Walk[m] \in Instances
    /\ \A i \in Instances : \E m \in 1..Len(Walk) : Walk[m] = i
  BY WalkAssumption DEF Instances, Elements

\* The phases are different words.
LEMMA PhaseFacts ==
    /\ HookPhases \subseteq Phases
    /\ InitPhases \subseteq HookPhases
    /\ \A h \in HookPhases : h \notin {"none", "starting", "returned"}
    /\ Before("none") = {} /\ Before("starting") = {} /\ Before("returned") = {}
    /\ Before("onModuleInit") = {}
    /\ Before("onApplicationInit") = {"onModuleInit"}
    /\ Before("beforeApplicationDestroy") = InitPhases
    /\ Before("onModuleDestroy") = InitPhases \union {"beforeApplicationDestroy"}
    /\ Before("onApplicationDestroy") = HookPhases \ {"onApplicationDestroy"}
    /\ \A p \in Phases : Before(p) \subseteq HookPhases
  BY DEF HookPhases, Phases, InitPhases, DestroyPhases, Before

\* A walk that is over has had its hook on every provider there is.
LEMMA OverDone ==
    ASSUME IInv, NEW k \in Calls, WalkOver(k)
    PROVE  Hooked \subseteq done[phase[k]]
<1>1. ASSUME NEW i \in Hooked PROVE i \in done[phase[k]]
  <2>1. PICK m \in 1..Len(Walk) : Walk[m] = i
    BY WalkFacts DEF Hooked
  <2>2. m < pos[k]
    BY WalkFacts, <2>1 DEF WalkOver, IInv, TypeOK
  <2> QED
    BY <2>1, <2>2 DEF WalkOver, IInv, WalkedDone, Hooked
<1> QED
  BY <1>1

\* The histories and the flags: a step that leaves `done` alone and starts or
\* ends no call keeps what is said of them.
LEMMA BarrierKept ==
    ASSUME IInv, UNCHANGED <<started, listening>>, phase' = phase,
           \A h \in HookPhases : done[h] \subseteq done'[h]
    PROVE  PhaseBarrier' /\ StartedInited'
<1>1. PhaseBarrier'
  BY PhaseFacts DEF IInv, TypeOK, PhaseBarrier
<1>2. StartedInited'
  BY PhaseFacts DEF IInv, StartedInited, Inited
<1> QED
  BY <1>1, <1>2

------------------------------------------------------------------------------
(* The steps *)

\* A call is made: it goes where Begin sends it.
LEMMA BeginInv ==
    ASSUME IInv, NEW k \in Calls, phase[k] = "none", started' = started,
           exited' \in BOOLEAN, NEW what \in Kinds,
           NEW where \in {"onModuleInit", "beforeApplicationDestroy", "starting", "returned"},
           where \in {"beforeApplicationDestroy", "starting"} => started,
           Begin(k, what, where)
    PROVE  IInv'
<1>1. /\ kind' = [kind EXCEPT ![k] = what]
      /\ phase' = [phase EXCEPT ![k] = where]
      /\ UNCHANGED <<handlers, listening, pos, visited, awaiting, serial, done, last>>
  BY DEF Begin
<1>2. where \in Phases
  BY DEF Phases, HookPhases, InitPhases, DestroyPhases
<1>3. TypeOK'
  BY <1>1, <1>2 DEF IInv, TypeOK
<1>4. /\ phase'[k] = where
      /\ \A m \in Calls : m # k => phase'[m] = phase[m]
      /\ pos[k] = 1 /\ visited[k] = {} /\ awaiting[k] = FALSE
  BY <1>1 DEF IInv, TypeOK, NotYetCalled
<1>5. started => Inited
  BY DEF IInv, StartedInited
<1>6. PhaseBarrier'
  <2>1. ASSUME NEW h \in Before(where) PROVE Hooked \subseteq done[h]
    BY <1>5, <2>1, PhaseFacts DEF Inited
  <2> QED
    BY <1>1, <1>4, <2>1 DEF IInv, PhaseBarrier
<1>7. StartedInited'
  BY <1>1, <1>4, <1>5 DEF IInv, StartedInited, Inited
<1>8. WalkedDone' /\ VisitedDone'
  BY <1>1, <1>4, WalkFacts DEF IInv, WalkedDone, VisitedDone
<1>9. AwaitingInWalk' /\ NotYetCalled'
  BY <1>1, <1>4, PhaseFacts DEF IInv, AwaitingInWalk, NotYetCalled
<1> QED
  BY <1>3, <1>6, <1>7, <1>8, <1>9 DEF IInv

\* bootstrap(), listen(), shutdown() or a signal (application.ts:200-201,
\* 222-231, 237-238, 308-311).
LEMMA CallInv == ASSUME IInv, NEW k \in Calls, Call(k) PROVE IInv'
<1>1. exited \in BOOLEAN
  BY DEF IInv, TypeOK
<1>2. ASSUME NEW what \in {"bootstrap", "listen"}, Bootstrap(k, what) PROVE IInv'
  <2>1. phase[k] = "none" /\ started' = started /\ exited' \in BOOLEAN /\ what \in Kinds
    BY <1>1, <1>2 DEF Bootstrap, MayCall, Kinds
  <2>2. CASE Begin(k, what, "onModuleInit")
    BY <2>1, <2>2, BeginInv
  <2>3. CASE started /\ what = "listen" /\ Begin(k, what, "starting")
    BY <2>1, <2>3, BeginInv
  <2>4. CASE Begin(k, what, "returned")
    BY <2>1, <2>4, BeginInv
  <2> QED
    BY <1>2, <2>2, <2>3, <2>4 DEF Bootstrap
<1>3. ASSUME NEW what \in {"shutdown", "signal"}, Shutdown(k, what) PROVE IInv'
  <2>1. phase[k] = "none" /\ started' = started /\ exited' \in BOOLEAN /\ what \in Kinds
    BY <1>1, <1>3 DEF Shutdown, MayCall, Kinds
  <2>2. CASE started /\ Begin(k, what, "beforeApplicationDestroy")
    BY <2>1, <2>2, BeginInv
  <2>3. CASE Begin(k, what, "returned")
    BY <2>1, <2>3, BeginInv
  <2> QED
    BY <1>3, <2>2, <2>3 DEF Shutdown
<1> QED
  BY <1>2, <1>3 DEF Call

\* The walk passes over a place (application.ts:274, 281, 293, 297).
LEMMA SkipInv == ASSUME IInv, NEW k \in Calls, Skip(k) PROVE IInv'
<1>1. /\ phase[k] \in HookPhases /\ ~awaiting[k] /\ pos[k] \in 1..Len(Walk)
      /\ Walk[pos[k]] \in Broken \union visited[k]
      /\ pos' = [pos EXCEPT ![k] = @ + 1]
      /\ UNCHANGED <<started, handlers, listening, exited, phase, kind, visited,
                     awaiting, serial, done, last>>
  BY DEF Skip, InWalk
<1>2. TypeOK'
  BY <1>1, WalkFacts DEF IInv, TypeOK
<1>3. PhaseBarrier' /\ StartedInited'
  BY <1>1, BarrierKept
<1>4. Walk[pos[k]] \in Broken \union done[phase[k]]
  BY <1>1 DEF IInv, VisitedDone
<1>5. WalkedDone'
  BY <1>1, <1>4, WalkFacts DEF IInv, TypeOK, WalkedDone
<1>6. VisitedDone' /\ AwaitingInWalk' /\ NotYetCalled'
  BY <1>1, PhaseFacts DEF IInv, TypeOK, VisitedDone, AwaitingInWalk, NotYetCalled
<1> QED
  BY <1>2, <1>3, <1>5, <1>6 DEF IInv

\* A hook is called (application.ts:274-277, 293-295).
LEMMA VisitInv == ASSUME IInv, NEW k \in Calls, Visit(k) PROVE IInv'
<1>1. /\ phase[k] \in HookPhases /\ ~awaiting[k] /\ pos[k] \in 1..Len(Walk)
      /\ visited' = [visited EXCEPT ![k] = @ \union {Walk[pos[k]]}]
      /\ awaiting' = [awaiting EXCEPT ![k] = TRUE]
      /\ last' = [last EXCEPT ![Walk[pos[k]]] = phase[k]]
      /\ UNCHANGED <<started, handlers, listening, exited, phase, kind, pos, serial, done>>
  BY DEF Visit, InWalk
<1>2. TypeOK'
  BY <1>1, WalkFacts DEF IInv, TypeOK
<1>3. PhaseBarrier' /\ StartedInited'
  BY <1>1, BarrierKept
<1>4. WalkedDone'
  BY <1>1 DEF IInv, WalkedDone
<1>5. VisitedDone'
  BY <1>1 DEF IInv, TypeOK, VisitedDone
<1>6. AwaitingInWalk' /\ NotYetCalled'
  BY <1>1, PhaseFacts DEF IInv, TypeOK, AwaitingInWalk, NotYetCalled
<1> QED
  BY <1>2, <1>3, <1>4, <1>5, <1>6 DEF IInv

\* A hook settles (application.ts:277, 281, 295, 297).
LEMMA SettleInv == ASSUME IInv, NEW k \in Calls, Settle(k) PROVE IInv'
<1>1. /\ phase[k] \in HookPhases /\ pos[k] \in 1..Len(Walk) /\ awaiting[k]
      /\ awaiting' = [awaiting EXCEPT ![k] = FALSE]
      /\ pos' = [pos EXCEPT ![k] = @ + 1]
      /\ done' = [done EXCEPT ![phase[k]] = @ \union {Walk[pos[k]]}]
      /\ UNCHANGED <<started, handlers, listening, exited, phase, kind, visited, serial, last>>
  BY DEF Settle, IInv, AwaitingInWalk
<1>2. TypeOK'
  BY <1>1, WalkFacts DEF IInv, TypeOK
<1>3. /\ \A h \in HookPhases : done[h] \subseteq done'[h]
      /\ Walk[pos[k]] \in done'[phase[k]]
  BY <1>1 DEF IInv, TypeOK
<1>4. PhaseBarrier' /\ StartedInited'
  BY <1>1, <1>3, BarrierKept
<1>5. WalkedDone'
  <2> SUFFICES ASSUME NEW n \in Calls, phase[n] \in HookPhases,
                      NEW m \in 1..Len(Walk), m < pos'[n]
               PROVE  Walk[m] \in Broken \union done'[phase[n]]
    BY <1>1 DEF WalkedDone
  <2>1. CASE m < pos[n]
    BY <1>3, <2>1 DEF IInv, WalkedDone
  <2>2. CASE ~(m < pos[n])
    <3>1. n = k /\ m = pos[k]
      BY <1>1, <2>2, WalkFacts DEF IInv, TypeOK
    <3> QED
      BY <1>3, <3>1
  <2> QED
    BY <2>1, <2>2
<1>6. VisitedDone'
  <2> SUFFICES ASSUME NEW n \in Calls, phase[n] \in HookPhases, NEW i \in visited[n]
               PROVE  i \in done'[phase[n]] \/ (awaiting'[n] /\ i = Walk[pos'[n]])
    BY <1>1 DEF VisitedDone
  <2>1. CASE n = k
    BY <1>1, <1>3, <2>1 DEF IInv, VisitedDone
  <2>2. CASE n # k
    BY <1>1, <1>3, <2>2 DEF IInv, TypeOK, VisitedDone
  <2> QED
    BY <2>1, <2>2
<1>7. AwaitingInWalk' /\ NotYetCalled'
  BY <1>1, PhaseFacts DEF IInv, TypeOK, AwaitingInWalk, NotYetCalled
<1> QED
  BY <1>2, <1>4, <1>5, <1>6, <1>7 DEF IInv

\* From one phase to the next (application.ts:204-211, 241-253).
LEMMA NextPhaseInv == ASSUME IInv, NEW k \in Calls, NextPhase(k) PROVE IInv'
<1> DEFINE next == Successor(phase[k])
<1>1. /\ phase[k] \in {"onModuleInit", "beforeApplicationDestroy", "onModuleDestroy"}
      /\ ~awaiting[k]
      /\ phase' = [phase EXCEPT ![k] = next]
      /\ pos' = [pos EXCEPT ![k] = 1]
      /\ visited' = [visited EXCEPT ![k] = {}]
      /\ UNCHANGED <<started, handlers, listening, exited, kind, awaiting, serial, done, last>>
  BY DEF NextPhase, WalkOver, HookPhases, InitPhases, DestroyPhases
<1>2. Hooked \subseteq done[phase[k]]
  BY OverDone DEF NextPhase
<1>3. /\ next \in HookPhases
      /\ next # "starting"
      /\ Before(next) \subseteq Before(phase[k]) \union {phase[k]}
  BY <1>1, PhaseFacts DEF Successor, HookPhases, InitPhases, DestroyPhases
<1> HIDE DEF next
<1>4. /\ phase'[k] = next
      /\ \A m \in Calls : m # k => phase'[m] = phase[m]
  BY <1>1 DEF IInv, TypeOK
<1>5. TypeOK'
  BY <1>1, <1>3, WalkFacts, PhaseFacts DEF IInv, TypeOK
<1>6. PhaseBarrier'
  <2>1. ASSUME NEW h \in Before(next) PROVE Hooked \subseteq done[h]
    BY <1>2, <1>3, <2>1 DEF IInv, PhaseBarrier
  <2> QED
    BY <1>1, <1>4, <2>1 DEF IInv, PhaseBarrier
<1>7. StartedInited'
  BY <1>1, <1>3, <1>4 DEF IInv, StartedInited, Inited
<1>8. WalkedDone'
  BY <1>1, <1>4, WalkFacts DEF IInv, TypeOK, WalkedDone
<1>9. VisitedDone'
  BY <1>1, <1>4 DEF IInv, TypeOK, VisitedDone
<1>10. AwaitingInWalk' /\ NotYetCalled'
  BY <1>1, <1>3, <1>4, PhaseFacts DEF IInv, TypeOK, AwaitingInWalk, NotYetCalled
<1> QED
  BY <1>5, <1>6, <1>7, <1>8, <1>9, <1>10 DEF IInv

\* A call leaves its last walk, for the server or for good.
LEMMA LeaveInv ==
    ASSUME IInv, NEW k \in Calls, ~awaiting[k], phase[k] # "none",
           NEW where \in {"starting", "returned"},
           phase' = [phase EXCEPT ![k] = where],
           started' \in BOOLEAN, handlers' \in Nat, listening' \in BOOLEAN,
           exited' \in BOOLEAN, started' \/ listening' \/ where = "starting" => Inited,
           UNCHANGED <<kind, pos, visited, awaiting, serial, done, last>>
    PROVE  IInv'
<1>1. /\ phase'[k] = where
      /\ \A m \in Calls : m # k => phase'[m] = phase[m]
  BY DEF IInv, TypeOK
<1>2. where \in Phases /\ Before(where) = {} /\ where \notin HookPhases /\ where # "none"
  BY PhaseFacts DEF Phases
<1>3. TypeOK'
  BY <1>2 DEF IInv, TypeOK
<1>4. PhaseBarrier' /\ StartedInited'
  BY <1>1, <1>2 DEF IInv, PhaseBarrier, StartedInited, Inited
<1>5. WalkedDone' /\ VisitedDone'
  BY <1>1, <1>2 DEF IInv, WalkedDone, VisitedDone
<1>6. AwaitingInWalk' /\ NotYetCalled'
  BY <1>1, <1>2 DEF IInv, AwaitingInWalk, NotYetCalled
<1> QED
  BY <1>3, <1>4, <1>5, <1>6 DEF IInv

\* The end of bootstrap() (application.ts:213-214).
LEMMA BootstrappedInv == ASSUME IInv, NEW k \in Calls, Bootstrapped(k) PROVE IInv'
<1>1. Inited
  <2>1. Hooked \subseteq done["onApplicationInit"]
    BY OverDone DEF Bootstrapped
  <2>2. Hooked \subseteq done["onModuleInit"]
    BY PhaseFacts DEF Bootstrapped, IInv, PhaseBarrier
  <2> QED
    BY <2>1, <2>2 DEF Inited, InitPhases
<1>2. ~awaiting[k] /\ phase[k] # "none"
  BY DEF Bootstrapped, WalkOver
<1>3. /\ started' = TRUE /\ handlers' = handlers + 1
      /\ UNCHANGED <<listening, exited, kind, pos, visited, awaiting, serial, done, last>>
      /\ phase' = [phase EXCEPT ![k] = IF kind[k] = "listen" THEN "starting" ELSE "returned"]
  BY DEF Bootstrapped
<1>4. started' \in BOOLEAN /\ handlers' \in Nat /\ listening' \in BOOLEAN /\ exited' \in BOOLEAN
  BY <1>3 DEF IInv, TypeOK
<1>5. PICK where \in {"starting", "returned"} : phase' = [phase EXCEPT ![k] = where]
  BY <1>3
<1> QED
  BY <1>1, <1>2, <1>3, <1>4, <1>5, LeaveInv

\* The server is up (server.ts:81-91).
LEMMA ServerUpInv == ASSUME IInv, NEW k \in Calls, ServerUp(k) PROVE IInv'
<1>1. /\ phase[k] = "starting" /\ listening' = TRUE
      /\ phase' = [phase EXCEPT ![k] = "returned"]
      /\ UNCHANGED <<started, handlers, exited, kind, pos, visited, awaiting, serial, done, last>>
  BY DEF ServerUp
<1>2. Inited
  BY <1>1 DEF IInv, StartedInited
<1>3. ~awaiting[k]
  BY <1>1, PhaseFacts DEF IInv, AwaitingInWalk
<1>4. started' \in BOOLEAN /\ handlers' \in Nat /\ listening' \in BOOLEAN /\ exited' \in BOOLEAN
  BY <1>1 DEF IInv, TypeOK
<1> QED
  BY <1>1, <1>2, <1>3, <1>4, LeaveInv

\* The end of shutdown() (application.ts:255, 311).
LEMMA DestroyedInv == ASSUME IInv, NEW k \in Calls, Destroyed(k) PROVE IInv'
<1>1. /\ phase[k] = "onApplicationDestroy" /\ ~awaiting[k]
      /\ started' = FALSE /\ exited' \in BOOLEAN
      /\ phase' = [phase EXCEPT ![k] = "returned"]
      /\ UNCHANGED <<handlers, listening, kind, pos, visited, awaiting, serial, done, last>>
  BY DEF Destroyed, WalkOver
<1>2. Inited
  BY <1>1, PhaseFacts DEF IInv, PhaseBarrier, Inited, InitPhases, HookPhases
<1>3. handlers' \in Nat /\ listening' \in BOOLEAN
  BY <1>1 DEF IInv, TypeOK
<1> QED
  BY <1>1, <1>2, <1>3, LeaveInv

\* An application that was just constructed.
LEMMA InitInv == Init => IInv
<1> SUFFICES ASSUME Init PROVE IInv
  OBVIOUS
<1> USE DEF Init
<1>1. TypeOK
  <2>1. pos \in [Calls -> 1..(Len(Walk) + 1)]
    BY WalkFacts
  <2>2. phase \in [Calls -> Phases] /\ kind \in [Calls -> Kinds]
    BY DEF Phases, Kinds
  <2>3. done \in [HookPhases -> SUBSET Instances] /\ visited \in [Calls -> SUBSET Instances]
    OBVIOUS
  <2>4. last \in [Instances -> HookPhases]
    BY DEF HookPhases, DestroyPhases
  <2>5. started \in BOOLEAN /\ listening \in BOOLEAN /\ exited \in BOOLEAN /\ serial \in BOOLEAN
    OBVIOUS
  <2>6. awaiting \in [Calls -> BOOLEAN] /\ handlers \in Nat
    OBVIOUS
  <2> QED
    BY <2>1, <2>2, <2>3, <2>4, <2>5, <2>6 DEF TypeOK
<1>2. PhaseBarrier /\ StartedInited
  BY PhaseFacts DEF PhaseBarrier, StartedInited
<1>3. WalkedDone /\ VisitedDone /\ AwaitingInWalk /\ NotYetCalled
  BY PhaseFacts DEF WalkedDone, VisitedDone, AwaitingInWalk, NotYetCalled
<1> QED
  BY <1>1, <1>2, <1>3 DEF IInv

\* Every step keeps the invariant.
LEMMA NextInv == IInv /\ [Next]_vars => IInv'
<1> SUFFICES ASSUME IInv, [Next]_vars PROVE IInv'
  OBVIOUS
<1>1. ASSUME NEW k \in Calls, Proceed(k) PROVE IInv'
  BY <1>1, SkipInv, VisitInv, SettleInv, NextPhaseInv, BootstrappedInv,
     ServerUpInv, DestroyedInv DEF Proceed
<1>2. CASE Next
  BY <1>1, <1>2, CallInv DEF Next
<1>3. CASE UNCHANGED vars
  <2>1. UNCHANGED <<started, handlers, listening, exited, phase, kind, pos,
                    visited, awaiting, serial, done, last>>
    BY <1>3 DEF vars, control
  <2>2. PhaseBarrier' /\ StartedInited'
    BY <2>1, BarrierKept
  <2>3. TypeOK'
    BY <2>1 DEF IInv, TypeOK
  <2>4. WalkedDone' /\ VisitedDone' /\ AwaitingInWalk' /\ NotYetCalled'
    BY <2>1 DEF IInv, WalkedDone, VisitedDone, AwaitingInWalk, NotYetCalled
  <2> QED
    BY <2>2, <2>3, <2>4 DEF IInv
<1> QED
  BY <1>2, <1>3

------------------------------------------------------------------------------
(* Serial programs: where each instance stands in its life *)

\* Calls are made, and return, in turn.
InTurn ==
    serial => \A m, k \in Calls : m < k /\ phase[k] # "none" => phase[m] = "returned"

\* What a walk has passed, and what it awaits, it has visited.
PassedVisited ==
    \A k \in Calls : phase[k] \in HookPhases =>
        /\ \A m \in 1..Len(Walk) : m < pos[k] => Walk[m] \in Broken \union visited[k]
        /\ awaiting[k] => Walk[pos[k]] \in visited[k]

\* A walk finds the application in the state its hooks are for, and its
\* instances have had the hook if they were visited, or else the one before it.
MidLife ==
    serial => \A k \in Calls : phase[k] \in HookPhases =>
        /\ started <=> phase[k] \in DestroyPhases
        /\ \A i \in Hooked :
              last[i] = IF i \in visited[k] THEN phase[k] ELSE Predecessor(phase[k])

\* Between two walks each instance is either alive or not.
Settled == \A i \in Hooked : last[i] = IF started THEN "onApplicationInit" ELSE "onApplicationDestroy"

BetweenLives ==
    serial /\ (\A k \in Calls : phase[k] \notin HookPhases) => Settled

SerialInv == InTurn /\ PassedVisited /\ MidLife /\ BetweenLives

\* The hook before each hook, and that the order has no ties.
LEMMA PredecessorFacts ==
    /\ Predecessor("onModuleInit") = "onApplicationDestroy"
    /\ Predecessor("onApplicationInit") = "onModuleInit"
    /\ Predecessor("beforeApplicationDestroy") = "onApplicationInit"
    /\ Predecessor("onModuleDestroy") = "beforeApplicationDestroy"
    /\ Predecessor("onApplicationDestroy") = "onModuleDestroy"
    /\ \A p \in {"onModuleInit", "beforeApplicationDestroy", "onModuleDestroy"} :
          /\ Predecessor(Successor(p)) = p
          /\ Successor(p) \in HookPhases
          /\ Successor(p) \in DestroyPhases <=> p \in DestroyPhases
  BY DEF Predecessor, Successor, HookPhases, InitPhases, DestroyPhases

\* In a serial program at most one call is under way.
LEMMA OneAtATime ==
    ASSUME IInv, InTurn, serial, NEW k \in Calls, phase[k] \notin {"none", "returned"}
    PROVE  \A n \in Calls : n # k => phase[n] \in {"none", "returned"}
<1>1. Calls \subseteq Nat
  BY DEF Calls
<1> SUFFICES ASSUME NEW n \in Calls, n # k PROVE phase[n] \in {"none", "returned"}
  OBVIOUS
<1>2. CASE n < k
  BY <1>2 DEF InTurn
<1>3. CASE k < n
  BY <1>3 DEF InTurn
<1> QED
  BY <1>1, <1>2, <1>3

\* A walk that is over has visited every provider there is.
LEMMA OverVisited ==
    ASSUME IInv, PassedVisited, NEW k \in Calls, WalkOver(k)
    PROVE  Hooked \subseteq visited[k]
<1>1. ASSUME NEW i \in Hooked PROVE i \in visited[k]
  <2>1. PICK m \in 1..Len(Walk) : Walk[m] = i
    BY WalkFacts DEF Hooked
  <2>2. m < pos[k]
    BY WalkFacts, <2>1 DEF WalkOver, IInv, TypeOK
  <2> QED
    BY <2>1, <2>2 DEF WalkOver, PassedVisited, Hooked
<1> QED
  BY <1>1

\* A call is made when nothing else is under way.
LEMMA BeginSerial ==
    ASSUME IInv, SerialInv, NEW k \in Calls, MayCall(k), started' = started, NEW what \in Kinds,
           NEW where \in {"onModuleInit", "beforeApplicationDestroy", "starting", "returned"},
           where = "onModuleInit" => ~started,
           where = "beforeApplicationDestroy" => started,
           Begin(k, what, where)
    PROVE  SerialInv'
<1>1. /\ phase[k] = "none"
      /\ \A m \in 1..(k - 1) : phase[m] # "none" /\ (serial => phase[m] = "returned")
      /\ phase' = [phase EXCEPT ![k] = where]
      /\ UNCHANGED <<pos, visited, awaiting, serial, last>>
  BY DEF Begin, MayCall
<1>2. /\ phase'[k] = where
      /\ \A m \in Calls : m # k => phase'[m] = phase[m]
      /\ pos[k] = 1 /\ visited[k] = {} /\ awaiting[k] = FALSE
  BY <1>1 DEF IInv, TypeOK, NotYetCalled
<1>3. Calls \subseteq Nat /\ \A m \in Calls : m < k => m \in 1..(k - 1)
  BY DEF Calls
<1>4. serial => \A n \in Calls : n # k => phase[n] \in {"none", "returned"}
  <2> SUFFICES ASSUME serial, NEW n \in Calls, n # k PROVE phase[n] \in {"none", "returned"}
    OBVIOUS
  <2>1. CASE n < k
    BY <1>1, <1>3, <2>1
  <2>2. CASE k < n
    BY <1>1, <2>2 DEF SerialInv, InTurn
  <2> QED
    BY <1>3, <2>1, <2>2
<1>5. InTurn'
  <2> SUFFICES ASSUME serial, NEW m \in Calls, NEW n \in Calls, m < n, phase'[n] # "none"
               PROVE  phase'[m] = "returned"
    BY <1>1 DEF InTurn
  <2>1. CASE n = k
    BY <1>1, <1>2, <1>3, <2>1
  <2>2. CASE n # k
    <3>1. phase[m] = "returned"
      BY <1>2, <2>2 DEF SerialInv, InTurn
    <3> QED
      BY <1>1, <1>2, <3>1
  <2> QED
    BY <2>1, <2>2
<1>6. PassedVisited'
  BY <1>1, <1>2, WalkFacts DEF SerialInv, PassedVisited
<1>7. serial => Settled
  BY <1>1, <1>4, PhaseFacts DEF SerialInv, BetweenLives
<1>8. MidLife'
  <2> SUFFICES ASSUME serial, NEW n \in Calls, phase'[n] \in HookPhases
               PROVE  /\ started <=> phase'[n] \in DestroyPhases
                      /\ \A i \in Hooked :
                            last[i] = IF i \in visited[n] THEN phase'[n] ELSE Predecessor(phase'[n])
    BY <1>1 DEF MidLife
  <2>1. n = k
    BY <1>2, <1>4, PhaseFacts
  <2>2. CASE where = "onModuleInit"
    BY <1>2, <1>7, <2>1, <2>2, PredecessorFacts DEF Settled, DestroyPhases
  <2>3. CASE where = "beforeApplicationDestroy"
    BY <1>2, <1>7, <2>1, <2>3, PredecessorFacts DEF Settled, DestroyPhases
  <2> QED
    BY <1>2, <2>1, <2>2, <2>3, PhaseFacts
<1>9. BetweenLives'
  BY <1>1, <1>7 DEF BetweenLives, Settled
<1> QED
  BY <1>5, <1>6, <1>8, <1>9 DEF SerialInv

\* A call that begins a walk keeps the order.
LEMMA CallSerial == ASSUME IInv, SerialInv, NEW k \in Calls, Call(k) PROVE SerialInv'
<1>1. ASSUME NEW what \in {"bootstrap", "listen"}, Bootstrap(k, what) PROVE SerialInv'
  <2>1. MayCall(k) /\ started' = started /\ what \in Kinds
    BY <1>1 DEF Bootstrap, Kinds
  <2>2. CASE ~started /\ Begin(k, what, "onModuleInit")
    BY <2>1, <2>2, BeginSerial
  <2>3. CASE Begin(k, what, "starting")
    BY <2>1, <2>3, BeginSerial
  <2>4. CASE Begin(k, what, "returned")
    BY <2>1, <2>4, BeginSerial
  <2> QED
    BY <1>1, <2>2, <2>3, <2>4 DEF Bootstrap
<1>2. ASSUME NEW what \in {"shutdown", "signal"}, Shutdown(k, what) PROVE SerialInv'
  <2>1. MayCall(k) /\ started' = started /\ what \in Kinds
    BY <1>2 DEF Shutdown, Kinds
  <2>2. CASE started /\ Begin(k, what, "beforeApplicationDestroy")
    BY <2>1, <2>2, BeginSerial
  <2>3. CASE Begin(k, what, "returned")
    BY <2>1, <2>3, BeginSerial
  <2> QED
    BY <1>2, <2>2, <2>3 DEF Shutdown
<1> QED
  BY <1>1, <1>2 DEF Call

\* A provider that is not resolved is passed over without a hook.
LEMMA SkipSerial == ASSUME IInv, SerialInv, NEW k \in Calls, Skip(k) PROVE SerialInv'
<1>1. /\ phase[k] \in HookPhases /\ ~awaiting[k] /\ pos[k] \in 1..Len(Walk)
      /\ Walk[pos[k]] \in Broken \union visited[k]
      /\ pos' = [pos EXCEPT ![k] = @ + 1]
      /\ UNCHANGED <<started, phase, visited, awaiting, serial, last>>
  BY DEF Skip, InWalk
<1>2. InTurn' /\ MidLife' /\ BetweenLives'
  BY <1>1 DEF SerialInv, InTurn, MidLife, BetweenLives, Settled
<1>3. PassedVisited'
  BY <1>1, WalkFacts DEF IInv, TypeOK, SerialInv, PassedVisited
<1> QED
  BY <1>2, <1>3 DEF SerialInv

\* The hook called is the one after the one the instance has had last.
LEMMA VisitSerial ==
    ASSUME IInv, SerialInv, NEW k \in Calls, Visit(k)
    PROVE  /\ SerialInv'
           /\ serial => \A n \in Calls : HookCalled(n) => last[Walk[pos[n]]] = Predecessor(phase[n])
<1> DEFINE i == Walk[pos[k]]
<1>1. /\ phase[k] \in HookPhases /\ ~awaiting[k] /\ pos[k] \in 1..Len(Walk)
      /\ i \notin Broken \union visited[k]
      /\ visited' = [visited EXCEPT ![k] = @ \union {i}]
      /\ awaiting' = [awaiting EXCEPT ![k] = TRUE]
      /\ last' = [last EXCEPT ![i] = phase[k]]
      /\ UNCHANGED <<started, phase, pos, serial>>
  BY DEF Visit, InWalk
<1>2. i \in Hooked
  BY <1>1, WalkFacts DEF Hooked
<1> HIDE DEF i
<1>3. /\ last'[i] = phase[k] /\ \A j \in Instances : j # i => last'[j] = last[j]
      /\ visited'[k] = visited[k] \union {i} /\ \A n \in Calls : n # k => visited'[n] = visited[n]
      /\ \A n \in Calls : n # k => awaiting'[n] = awaiting[n]
  BY <1>1, <1>2 DEF IInv, TypeOK, Hooked
<1>4. InTurn' /\ BetweenLives'
  BY <1>1 DEF SerialInv, InTurn, BetweenLives
<1>5. PassedVisited'
  BY <1>1, <1>3 DEF SerialInv, PassedVisited, i
<1>6. MidLife'
  <2> SUFFICES ASSUME serial, NEW n \in Calls, phase[n] \in HookPhases
               PROVE  /\ started <=> phase[n] \in DestroyPhases
                      /\ \A j \in Hooked :
                            last'[j] = IF j \in visited'[n] THEN phase[n] ELSE Predecessor(phase[n])
    BY <1>1 DEF MidLife
  <2>1. n = k
    <3>1. phase[k] \notin {"none", "returned"} /\ phase[n] \notin {"none", "returned"}
      BY <1>1, PhaseFacts
    <3> QED
      BY <3>1, OneAtATime DEF SerialInv
  <2> QED
    BY <1>2, <1>3, <2>1 DEF SerialInv, MidLife, Hooked
<1>7. serial => last[i] = Predecessor(phase[k])
  BY <1>1, <1>2 DEF SerialInv, MidLife
<1>8. \A n \in Calls : HookCalled(n) => n = k
  BY <1>3 DEF HookCalled
<1> QED
  BY <1>4, <1>5, <1>6, <1>7, <1>8 DEF SerialInv, i

\* A hook that settles moves the walk on and calls nothing.
LEMMA SettleSerial == ASSUME IInv, SerialInv, NEW k \in Calls, Settle(k) PROVE SerialInv'
<1>1. /\ phase[k] \in HookPhases /\ pos[k] \in 1..Len(Walk) /\ awaiting[k]
      /\ awaiting' = [awaiting EXCEPT ![k] = FALSE]
      /\ pos' = [pos EXCEPT ![k] = @ + 1]
      /\ UNCHANGED <<started, phase, visited, serial, last>>
  BY DEF Settle, IInv, AwaitingInWalk
<1>2. InTurn' /\ MidLife' /\ BetweenLives'
  BY <1>1 DEF SerialInv, InTurn, MidLife, BetweenLives, Settled
<1>3. PassedVisited'
  BY <1>1, WalkFacts DEF IInv, TypeOK, SerialInv, PassedVisited
<1> QED
  BY <1>2, <1>3 DEF SerialInv

\* A call under way that goes on, or returns, leaves the turn to nobody else.
LEMMA TurnKept ==
    ASSUME IInv, InTurn, NEW k \in Calls, phase[k] \notin {"none", "returned"},
           NEW where \in Phases \ {"none"}, phase' = [phase EXCEPT ![k] = where], serial' = serial
    PROVE  InTurn'
<1>1. /\ phase'[k] = where
      /\ \A m \in Calls : m # k => phase'[m] = phase[m]
  BY DEF IInv, TypeOK
<1> QED
  BY <1>1 DEF InTurn

\* The walk of the next phase finds every instance at the end of this one.
LEMMA NextPhaseSerial == ASSUME IInv, SerialInv, NEW k \in Calls, NextPhase(k) PROVE SerialInv'
<1> DEFINE next == Successor(phase[k])
<1>1. /\ phase[k] \in {"onModuleInit", "beforeApplicationDestroy", "onModuleDestroy"}
      /\ ~awaiting[k]
      /\ phase' = [phase EXCEPT ![k] = next]
      /\ pos' = [pos EXCEPT ![k] = 1]
      /\ visited' = [visited EXCEPT ![k] = {}]
      /\ UNCHANGED <<started, awaiting, serial, last>>
  BY DEF NextPhase, WalkOver, HookPhases, InitPhases, DestroyPhases
<1>2. /\ Predecessor(next) = phase[k] /\ next \in HookPhases
      /\ next \in DestroyPhases <=> phase[k] \in DestroyPhases
  BY <1>1, PredecessorFacts
<1> HIDE DEF next
<1>3. /\ phase'[k] = next /\ \A m \in Calls : m # k => phase'[m] = phase[m]
      /\ pos'[k] = 1 /\ \A m \in Calls : m # k => pos'[m] = pos[m]
      /\ visited'[k] = {} /\ \A m \in Calls : m # k => visited'[m] = visited[m]
  BY <1>1 DEF IInv, TypeOK
<1>4. Hooked \subseteq visited[k]
  BY OverVisited DEF NextPhase, SerialInv
<1>5. phase[k] \in HookPhases
  BY DEF NextPhase, WalkOver
<1>6. InTurn'
  BY <1>1, <1>2, <1>5, PhaseFacts, TurnKept DEF SerialInv
<1>7. PassedVisited'
  BY <1>1, <1>3, WalkFacts DEF SerialInv, PassedVisited
<1>8. MidLife'
  <2> SUFFICES ASSUME serial, NEW n \in Calls, phase'[n] \in HookPhases
               PROVE  /\ started <=> phase'[n] \in DestroyPhases
                      /\ \A j \in Hooked :
                            last[j] = IF j \in visited'[n] THEN phase'[n] ELSE Predecessor(phase'[n])
    BY <1>1 DEF MidLife
  <2>1. n = k
    BY <1>3, <1>5, PhaseFacts, OneAtATime DEF SerialInv
  <2>2. \A j \in Hooked : last[j] = phase[k]
    BY <1>4, <1>5 DEF SerialInv, MidLife
  <2>3. started <=> phase[k] \in DestroyPhases
    BY <1>5 DEF SerialInv, MidLife
  <2> QED
    BY <1>2, <1>3, <2>1, <2>2, <2>3
<1>9. BetweenLives'
  BY <1>2, <1>3 DEF BetweenLives
<1> QED
  BY <1>6, <1>7, <1>8, <1>9 DEF SerialInv

\* A call leaves its last walk: the instances are as `started` says.
LEMMA LeaveSerial ==
    ASSUME IInv, SerialInv, NEW k \in Calls, phase[k] \notin {"none", "returned"},
           NEW where \in {"starting", "returned"}, phase' = [phase EXCEPT ![k] = where],
           UNCHANGED <<pos, visited, awaiting, serial, last>>, serial => Settled'
    PROVE  SerialInv'
<1>1. /\ phase'[k] = where
      /\ \A m \in Calls : m # k => phase'[m] = phase[m]
  BY DEF IInv, TypeOK
<1>2. where \in Phases \ {"none"} /\ where \notin HookPhases
  BY PhaseFacts DEF Phases
<1>3. InTurn'
  BY <1>2, TurnKept DEF SerialInv
<1>4. PassedVisited'
  BY <1>1, <1>2 DEF SerialInv, PassedVisited
<1>5. MidLife'
  <2>1. serial => \A n \in Calls : phase'[n] \notin HookPhases
    BY <1>1, <1>2, PhaseFacts, OneAtATime DEF SerialInv
  <2> QED
    BY <2>1 DEF MidLife
<1> QED
  BY <1>3, <1>4, <1>5 DEF SerialInv, BetweenLives

\* bootstrap() ends its walks with the instances initialised.
LEMMA BootstrappedSerial == ASSUME IInv, SerialInv, NEW k \in Calls, Bootstrapped(k) PROVE SerialInv'
<1>1. /\ phase[k] = "onApplicationInit" /\ phase[k] \in HookPhases /\ started' = TRUE
      /\ UNCHANGED <<pos, visited, awaiting, serial, last>>
  BY DEF Bootstrapped, WalkOver
<1>2. PICK where \in {"starting", "returned"} : phase' = [phase EXCEPT ![k] = where]
  BY DEF Bootstrapped
<1>3. serial => Settled'
  BY <1>1, OverVisited DEF Bootstrapped, SerialInv, MidLife, Settled
<1> QED
  BY <1>1, <1>2, <1>3, PhaseFacts, LeaveSerial

\* shutdown() returns with the instances torn down.
LEMMA DestroyedSerial == ASSUME IInv, SerialInv, NEW k \in Calls, Destroyed(k) PROVE SerialInv'
<1>1. /\ phase[k] = "onApplicationDestroy" /\ phase[k] \in HookPhases /\ started' = FALSE
      /\ phase' = [phase EXCEPT ![k] = "returned"]
      /\ UNCHANGED <<pos, visited, awaiting, serial, last>>
  BY DEF Destroyed, WalkOver
<1>2. serial => Settled'
  BY <1>1, OverVisited DEF Destroyed, SerialInv, MidLife, Settled
<1> QED
  BY <1>1, <1>2, PhaseFacts, LeaveSerial

\* listen() ends with the server up and calls no hook.
LEMMA ServerUpSerial == ASSUME IInv, SerialInv, NEW k \in Calls, ServerUp(k) PROVE SerialInv'
<1>1. /\ phase[k] = "starting" /\ phase' = [phase EXCEPT ![k] = "returned"]
      /\ UNCHANGED <<started, pos, visited, awaiting, serial, last>>
  BY DEF ServerUp
<1>2. serial => \A n \in Calls : phase[n] \notin HookPhases
  BY <1>1, PhaseFacts, OneAtATime DEF SerialInv
<1>3. serial => Settled'
  BY <1>1, <1>2 DEF SerialInv, BetweenLives, Settled
<1> QED
  BY <1>1, <1>3, LeaveSerial

\* No instance has had a hook before the first call.
LEMMA SerialInit == Init => SerialInv
<1> SUFFICES ASSUME Init PROVE SerialInv
  OBVIOUS
<1>1. InTurn /\ PassedVisited /\ MidLife
  BY PhaseFacts DEF Init, InTurn, PassedVisited, MidLife
<1>2. BetweenLives
  BY DEF Init, BetweenLives, Settled, Hooked
<1> QED
  BY <1>1, <1>2 DEF SerialInv

\* Every step keeps the order of the hooks.
LEMMA SerialNext ==
    ASSUME IInv, SerialInv, [Next]_vars
    PROVE  /\ SerialInv'
           /\ serial => \A n \in Calls : HookCalled(n) => last[Walk[pos[n]]] = Predecessor(phase[n])
<1>1. ASSUME NEW k \in Calls, Call(k) PROVE SerialInv' /\ \A n \in Calls : ~HookCalled(n)
  BY <1>1, CallSerial DEF Call, Bootstrap, Shutdown, Begin, HookCalled
<1>2. ASSUME NEW k \in Calls, Proceed(k), ~Visit(k)
      PROVE  SerialInv' /\ \A n \in Calls : ~HookCalled(n)
  <2>1. awaiting' = awaiting \/ awaiting' = [awaiting EXCEPT ![k] = FALSE]
    BY <1>2 DEF Proceed, Skip, Settle, NextPhase, Bootstrapped, ServerUp, Destroyed
  <2>2. \A n \in Calls : ~HookCalled(n)
    BY <2>1 DEF HookCalled, IInv, TypeOK
  <2> QED
    BY <1>2, <2>2, SkipSerial, SettleSerial, NextPhaseSerial, BootstrappedSerial,
       ServerUpSerial, DestroyedSerial DEF Proceed
<1>3. ASSUME UNCHANGED vars PROVE SerialInv' /\ \A n \in Calls : ~HookCalled(n)
  BY <1>3 DEF vars, control, SerialInv, InTurn, PassedVisited, MidLife, BetweenLives, Settled,
      HookCalled
<1> QED
  BY <1>1, <1>2, <1>3, VisitSerial DEF Next

------------------------------------------------------------------------------
(* Theorems *)

\* The invariant holds throughout.
LEMMA Invariance == Spec => []IInv
<1> QED
  BY InitInv, NextInv, PTL DEF Spec

\* Type correctness.
THEOREM TypeCorrect == Spec => []TypeOK
<1>1. IInv => TypeOK
  BY DEF IInv
<1> QED
  BY <1>1, Invariance, PTL

\* No phase begins before the earlier hooks have settled everywhere
\* (application.ts:200-256).
THEOREM BarrierHolds == Spec => []PhaseBarrier
<1>1. IInv => PhaseBarrier
  BY DEF IInv
<1> QED
  BY <1>1, Invariance, PTL

\* Requests are served only by an initialised application
\* (application.ts:222-232).
THEOREM ServesAfterInit == Spec => []ServerAfterInit
<1>1. IInv => ServerAfterInit
  BY DEF IInv, StartedInited, Inited, ServerAfterInit
<1> QED
  BY <1>1, Invariance, PTL

\* In a serial program every hook is called when the one before it was the last
\* to be called on its instance: in order and once per life, although the walk
\* comes upon an instance again (application.ts:201, 238, 274).
THEOREM HooksAlwaysInOrder == Spec => SerialHooksInOrder
<1>1. Spec => []SerialInv
  <2>1. Init => IInv /\ SerialInv
    BY InitInv, SerialInit
  <2>2. (IInv /\ SerialInv) /\ [Next]_vars => (IInv /\ SerialInv)'
    BY NextInv, SerialNext
  <2> QED
    BY <2>1, <2>2, PTL DEF Spec
<1>2. IInv /\ SerialInv /\ [Next]_vars =>
        [serial => \A k \in Calls :
            HookCalled(k) => last[Walk[pos[k]]] = Predecessor(phase[k])]_vars
  BY SerialNext
<1> QED
  BY <1>1, <1>2, Invariance, PTL DEF Spec, SerialHooksInOrder, HookCalled

------------------------------------------------------------------------------
(* The request pipeline *)

Answers == Pipeline!Results \union {"none", "403"}

\* The state has its type; an interceptor that is about to be called exists.
RequestTyped ==
    /\ guards \in Nat /\ filters \in Nat /\ passed \in 0..guards
    /\ interceptors \in Seq(Pipeline!Kinds)
    /\ stage.at \in {"guards", "inward", "core", "handler", "filters", "over"}
    /\ stage.at = "inward" => stage.level \in 1..(Pipeline!Core - 1)
    /\ stage.at = "filters" => \E n \in Nat : stage = [at |-> "filters", next |-> n]
    /\ call \in [1..Pipeline!Core -> Pipeline!Results \union {"none"}]
    /\ response \in Answers

Refused   == {"denied", "guard threw"}
Unfit     == {"invalid", "unresolved"}
CoreFails == Unfit \union {"handler threw"}

\* What has been noted of a request by the time it has come to its stage.
SoFar ==
    /\ stage.at \in {"guards", "inward", "core"} =>
           log \intersect (Refused \union CoreFails \union {"handler"}) = {}
    /\ stage.at \notin {"guards", "over"} => passed = guards
    /\ stage.at = "handler" => "handler" \in log
    /\ stage.at = "filters" => log \intersect CoreFails # {}

\* An error, an answer of a filter and a value that are on their way out have
\* their reason at every level they have reached.
OnTheWayOut ==
    \A i \in 1..Pipeline!Core :
        /\ call[i] = "error" => log \intersect {"interceptor threw", "timeout"} # {}
        /\ call[i] \in {"filtered", "default"} => log \intersect CoreFails # {}
        /\ call[i] = "value" =>
               "handler" \in log \/ \E j \in DOMAIN interceptors : interceptors[j] = "wrap"

\* The inductive invariant.
RequestInv ==
    /\ RequestTyped
    /\ SoFar
    /\ Pipeline!Guarded
    /\ OnTheWayOut
    /\ Pipeline!AnswerHasReason

------------------------------------------------------------------------------
\* The stack of interceptors is a sequence of any length.
LEMMA RequestInit == Pipeline!Init => RequestInv
<1> SUFFICES ASSUME Pipeline!Init PROVE RequestInv
  OBVIOUS
<1>1. interceptors \in Seq(Pipeline!Kinds)
  BY DEF Pipeline!Init
<1>3. RequestTyped
  BY <1>1 DEF Pipeline!Init, RequestTyped, Pipeline!Core, Answers, Pipeline!Results
<1>4. SoFar /\ Pipeline!Guarded /\ OnTheWayOut /\ Pipeline!AnswerHasReason
  BY DEF Pipeline!Init, SoFar, Pipeline!Guarded, OnTheWayOut, Pipeline!AnswerHasReason
<1> QED
  BY <1>3, <1>4 DEF RequestInv

\* An interceptor has a call of its own, the core the last one.
LEMMA CoreType ==
    ASSUME RequestInv
    PROVE  /\ Pipeline!Core \in Nat \ {0}
           /\ DOMAIN interceptors = 1..(Pipeline!Core - 1)
           /\ \A i \in 1..(Pipeline!Core - 1) : interceptors[i] \in Pipeline!Kinds
BY DEF RequestInv, RequestTyped, Pipeline!Core

\* A guard lets the request pass or not.
LEMMA GuardStep ==
    ASSUME RequestInv, NEW verdict \in {"true", "false", "throw"}, Pipeline!Guard(verdict)
    PROVE  RequestInv'
<1> USE DEF RequestInv
<1>1. UNCHANGED <<Pipeline!route, call>> /\ UNCHANGED <<guards, interceptors, filters>>
      /\ Pipeline!Core' = Pipeline!Core
  BY DEF Pipeline!Guard, Pipeline!route, Pipeline!Core
<1>2. stage.at = "guards" /\ passed < guards
  BY DEF Pipeline!Guard
<1>3. stage.at = "guards" /\ passed < guards /\ "handler" \notin log /\ "denied" \notin log
  BY <1>2 DEF SoFar, Refused
<1>4. CASE verdict = "true"
  <2>1. UNCHANGED <<stage, response, log>>
    BY <1>4 DEF Pipeline!Guard
  <2>2. RequestTyped'
    BY <1>1, <1>2, <1>4, <2>1 DEF Pipeline!Guard, RequestTyped
  <2> QED
    BY <1>1, <1>3, <2>1, <2>2 DEF SoFar, Pipeline!Guarded, OnTheWayOut, Pipeline!AnswerHasReason
<1>5. CASE verdict = "false"
  <2>1. /\ response' = "403" /\ log' = log \union {"denied"}
        /\ stage' = [at |-> "over"] /\ passed' = passed
    BY <1>5 DEF Pipeline!Guard, Pipeline!Note
  <2>0. RequestTyped'
    BY <1>1, <1>5, <2>1 DEF RequestTyped, Answers, Pipeline!Results
  <2>2. SoFar' /\ Pipeline!Guarded'
    BY <1>1, <1>3, <2>1 DEF SoFar, Pipeline!Guarded
  <2>3. OnTheWayOut'
    BY <1>1, <2>1 DEF OnTheWayOut
  <2> QED
    BY <2>0, <2>1, <2>2, <2>3 DEF Pipeline!AnswerHasReason
<1>6. CASE verdict = "throw"
  <2>1. /\ response' = "error" /\ log' = log \union {"guard threw"}
        /\ stage' = [at |-> "over"] /\ passed' = passed
    BY <1>6 DEF Pipeline!Guard, Pipeline!Note
  <2>0. RequestTyped'
    BY <1>1, <1>6, <2>1 DEF RequestTyped, Answers, Pipeline!Results
  <2>2. SoFar' /\ Pipeline!Guarded'
    BY <1>1, <1>3, <2>1 DEF SoFar, Pipeline!Guarded
  <2>3. OnTheWayOut'
    BY <1>1, <2>1 DEF OnTheWayOut
  <2> QED
    BY <2>0, <1>3, <2>1, <2>2, <2>3 DEF Pipeline!AnswerHasReason
<1> QED
  BY <1>4, <1>5, <1>6
\* Steps that move the innermost call and note nothing of importance.
LEMMA InwardStep == ASSUME RequestInv, Pipeline!Inward \/ Pipeline!Straight PROVE RequestInv'
<1> USE DEF RequestInv
<1>1. /\ UNCHANGED <<guards, interceptors, filters, passed, call, response, log>>
      /\ Pipeline!Core' = Pipeline!Core /\ Pipeline!Allowed
  BY DEF Pipeline!Inward, Pipeline!Straight, Pipeline!Allowed, Pipeline!route, Pipeline!Core
<1>2. Pipeline!Core \in Nat \ {0} /\ passed = guards
  BY CoreType, <1>1 DEF Pipeline!Allowed, SoFar
<1>3. stage' = [at |-> "core"] \/ \E l \in 1..(Pipeline!Core - 1) : stage' = [at |-> "inward",
   level |-> l]
  <2>1. CASE Pipeline!Straight
    BY <2>1 DEF Pipeline!Straight
  <2>2. CASE Pipeline!Inward
    <3>1. Pipeline!Depth \in Nat /\ Pipeline!Depth < Pipeline!Core
      BY <2>2, <1>2 DEF Pipeline!Inward, Pipeline!Allowed, Pipeline!Depth, RequestTyped
    <3> QED
      BY <3>1, <2>2, <1>2 DEF Pipeline!Inward, Pipeline!Entering
  <2> QED
    BY <2>1, <2>2
<1>4. RequestTyped'
  BY <1>1, <1>3 DEF RequestTyped
<1>5. stage'.at \in {"core", "inward"}
  BY <1>3
<1>6. SoFar'
  BY <1>1, <1>2, <1>5 DEF SoFar, Pipeline!Allowed
<1> QED
  BY <1>1, <1>2, <1>4, <1>6 DEF Pipeline!Guarded, OnTheWayOut, Pipeline!AnswerHasReason

\* An interceptor answers without calling the handler.
LEMMA ShortCircuitStep ==
    ASSUME RequestInv, NEW what \in {"value", "error"}, Pipeline!ShortCircuit(what)
    PROVE RequestInv'
<1> USE DEF RequestInv
<1>1. /\ UNCHANGED <<guards, interceptors, filters, passed, response>>
      /\ Pipeline!Core' = Pipeline!Core /\ Pipeline!Allowed /\ Pipeline!Depth < Pipeline!Core
      /\ interceptors[Pipeline!Depth] = "wrap"
      /\ call' = [call EXCEPT ![Pipeline!Depth] = what] /\ stage' = [at |-> "over"]
      /\ log' = log \union {IF what = "error" THEN "interceptor threw" ELSE "short cut"}
  BY DEF Pipeline!ShortCircuit, Pipeline!Settles, Pipeline!Note, Pipeline!route, Pipeline!Core
<1>2. Pipeline!Core \in Nat \ {0} /\ Pipeline!Depth \in 1..(Pipeline!Core - 1)
      /\ Pipeline!Depth \in DOMAIN interceptors
  <2>1. Pipeline!Core \in Nat \ {0} /\ DOMAIN interceptors = 1..(Pipeline!Core - 1)
    BY CoreType
  <2>2. Pipeline!Depth \in Nat \ {0}
    <3>1. stage.at = "guards" \/ stage.level \in 1..(Pipeline!Core - 1)
      BY <1>1 DEF Pipeline!Allowed, RequestTyped
    <3> QED
      BY <2>1, <3>1 DEF Pipeline!Depth
  <2>3. Pipeline!Depth < Pipeline!Core
    BY <1>1
  <2> QED
    BY <2>1, <2>2, <2>3
<1>3. RequestTyped'
  BY <1>1, <1>2 DEF RequestTyped, Pipeline!Results
<1>4. "handler" \notin log
  BY <1>1 DEF Pipeline!Allowed, SoFar
<1>5. SoFar' /\ Pipeline!Guarded'
  BY <1>1, <1>4 DEF SoFar, Pipeline!Guarded
<1>6. OnTheWayOut'
  BY <1>1, <1>2 DEF OnTheWayOut, RequestTyped
<1>7. Pipeline!AnswerHasReason'
  BY <1>1 DEF Pipeline!AnswerHasReason
<1> QED
  BY <1>3, <1>5, <1>6, <1>7

\* An interceptor gets the answer back.
LEMMA OutwardStep ==
    ASSUME RequestInv, NEW i \in 1..Len(interceptors),
           NEW what \in Pipeline!Results, Pipeline!Outward(i, what)
    PROVE  RequestInv'
<1> USE DEF RequestInv
<1>1. /\ UNCHANGED <<guards, interceptors, filters, passed, response, stage>>
      /\ Pipeline!Core' = Pipeline!Core /\ i < Pipeline!Core
      /\ what = call[i + 1] \/ (interceptors[i] = "wrap" /\ what \in {"value", "error"})
      /\ call' = [call EXCEPT ![i] = what]
  BY DEF Pipeline!Outward, Pipeline!Settles, Pipeline!route, Pipeline!Core
<1>2. log' = IF what = "error" /\ call[i + 1] # "error"
      THEN log \union {"interceptor threw"} ELSE log
  BY DEF Pipeline!Outward, Pipeline!Note
<1>3. Pipeline!Core \in Nat \ {0} /\ i \in 1..(Pipeline!Core - 1)
      /\ i + 1 \in 1..Pipeline!Core /\ i \in DOMAIN interceptors
  BY CoreType, <1>1
<1>4. RequestTyped'
  BY <1>1, <1>3 DEF RequestTyped, Pipeline!Results
<1>5. SoFar' /\ Pipeline!Guarded'
  BY <1>1, <1>2 DEF SoFar, Pipeline!Guarded, Refused, CoreFails, Unfit
<1>6. OnTheWayOut'
  <2> SUFFICES ASSUME NEW j \in 1..Pipeline!Core
               PROVE  /\ call'[j] = "error" =>
                             log' \intersect {"interceptor threw", "timeout"} # {}
                      /\ call'[j] \in {"filtered", "default"} => log' \intersect CoreFails # {}
                      /\ call'[j] = "value" => \/ "handler" \in log'
                                               \/ \E m \in DOMAIN interceptors : interceptors[m] = "wrap"
    BY <1>1 DEF OnTheWayOut
  <2>1. call'[j] = IF j = i THEN what ELSE call[j]
    BY <1>1 DEF RequestTyped
  <2>2. log \subseteq log'
    BY <1>2
  <2>3. CASE what = call[i + 1]
    BY <1>3, <2>1, <2>2, <2>3 DEF OnTheWayOut
  <2>4. CASE what # call[i + 1]
    BY <1>1, <1>2, <1>3, <2>1, <2>2, <2>4 DEF OnTheWayOut
  <2> QED
    BY <2>3, <2>4
<1>7. Pipeline!AnswerHasReason'
  BY <1>1, <1>2 DEF Pipeline!AnswerHasReason
<1> QED
  BY <1>4, <1>5, <1>6, <1>7

\* The timeout of an interceptor is over before the handler has answered.
LEMMA TimeoutStep ==
    ASSUME RequestInv, NEW i \in 1..Len(interceptors), Pipeline!Timeout(i) PROVE RequestInv'
<1> USE DEF RequestInv
<1>1. /\ UNCHANGED <<guards, interceptors, filters, passed, response, stage>>
      /\ Pipeline!Core' = Pipeline!Core /\ i < Pipeline!Core
      /\ call' = [call EXCEPT ![i] = "error"] /\ log' = log \union {"timeout"}
  BY
     DEF Pipeline!Timeout, Pipeline!Waiting, Pipeline!Settles, Pipeline!Note, Pipeline!route,
        Pipeline!Core
<1>2. Pipeline!Core \in Nat \ {0} /\ i \in 1..Pipeline!Core
  BY CoreType, <1>1
<1>3. RequestTyped'
  BY <1>1, <1>2 DEF RequestTyped, Pipeline!Results
<1>4. SoFar' /\ Pipeline!Guarded'
  BY <1>1 DEF SoFar, Pipeline!Guarded, Refused, CoreFails, Unfit
<1>5. OnTheWayOut'
  BY <1>1, <1>2 DEF OnTheWayOut, RequestTyped
<1>6. Pipeline!AnswerHasReason'
  BY <1>1 DEF Pipeline!AnswerHasReason
<1> QED
  BY <1>3, <1>4, <1>5, <1>6

\* The response is sent.
LEMMA AnswerStep == ASSUME RequestInv, Pipeline!Answer PROVE RequestInv'
<1> USE DEF RequestInv
<1>1. /\ UNCHANGED <<guards, interceptors, filters, passed, call, stage, log>>
      /\ Pipeline!Core' = Pipeline!Core
      /\ response = "none" /\ call[1] # "none" /\ response' = call[1]
  BY DEF Pipeline!Answer, Pipeline!route, Pipeline!Core
<1>2. call[1] \in Pipeline!Results
  BY CoreType, <1>1 DEF RequestTyped
<1>3. RequestTyped'
  BY <1>1, <1>2 DEF RequestTyped, Answers
<1>4. SoFar' /\ Pipeline!Guarded' /\ OnTheWayOut'
  BY <1>1 DEF SoFar, Pipeline!Guarded, OnTheWayOut
<1>5. Pipeline!AnswerHasReason'
  <2>1. 1 \in 1..Pipeline!Core /\ response' \in Pipeline!Results /\ response' = call[1]
        /\ log' = log
    BY <1>1, <1>2, CoreType
  <2>2. /\ response' = "error" => log \intersect {"interceptor threw", "timeout"} # {}
        /\ response' \in {"filtered", "default"} => log \intersect CoreFails # {}
        /\ response' = "value" =>
           "handler" \in log \/ \E j \in DOMAIN interceptors : interceptors[j] = "wrap"
    BY <2>1 DEF OnTheWayOut
  <2>3. response' # "403" /\ "denied" \notin log
    BY <1>1, <2>1 DEF Pipeline!AnswerHasReason, Pipeline!Results
  <2> QED
    BY <1>1, <2>2, <2>3 DEF Pipeline!AnswerHasReason, CoreFails, Unfit
<1> QED
  BY <1>3, <1>4, <1>5
\* Steps of the core: arguments, the handler, the filters.
LEMMA PrepareStep ==
    ASSUME RequestInv, (\E valid \in BOOLEAN : Pipeline!Prepare(valid)) \/ Pipeline!Unresolved
    PROVE RequestInv'
<1> USE DEF RequestInv
<1>1. /\ UNCHANGED <<guards, interceptors, filters, passed, call, response>>
      /\ Pipeline!Core' = Pipeline!Core
      /\ stage.at = "core"
  BY DEF Pipeline!Prepare, Pipeline!Unresolved, Pipeline!route, Pipeline!Core
<1>2. \/ stage' = [at |-> "handler"] /\ log' = log \union {"handler"}
      \/ stage' = [at |-> "filters", next |-> 1] /\ log' = log \union {"invalid"}
      \/ stage' = [at |-> "filters", next |-> 1] /\ log' = log \union {"unresolved"}
  BY DEF Pipeline!Prepare, Pipeline!Unresolved, Pipeline!Fails, Pipeline!Note
<1>3. RequestTyped'
  BY <1>1, <1>2 DEF RequestTyped
<1>4. passed = guards /\ log \intersect (Refused \union CoreFails \union {"handler"}) = {}
  BY <1>1 DEF SoFar
<1>5. stage'.at \in {"handler", "filters"}
  BY <1>2
<1>8. SoFar'
  <2>1. CASE stage' = [at |-> "handler"] /\ log' = log \union {"handler"}
    BY <1>1, <1>4, <2>1 DEF SoFar
  <2>2. CASE stage'.at = "filters" /\ log' \intersect Unfit # {}
    BY <1>1, <1>4, <2>2 DEF SoFar, CoreFails
  <2> QED
    BY <1>2, <2>1, <2>2 DEF Unfit
<1>9. Pipeline!Guarded'
  <2>1. CASE log' = log \union {"handler"}
    BY <1>1, <1>4, <2>1 DEF Pipeline!Guarded, Refused, CoreFails, Unfit
  <2>2. CASE "handler" \notin log'
    BY <2>2 DEF Pipeline!Guarded
  <2> QED
    BY <1>2, <1>4, <2>1, <2>2
<1>6. OnTheWayOut'
  BY <1>1, <1>2 DEF OnTheWayOut
<1>7. Pipeline!AnswerHasReason'
  BY <1>1, <1>2 DEF Pipeline!AnswerHasReason
<1> QED
  BY <1>3, <1>6, <1>7, <1>8, <1>9

\* The handler returns or throws.
LEMMA HandlerStep == ASSUME RequestInv, NEW ok \in BOOLEAN, Pipeline!Handler(ok) PROVE RequestInv'
<1> USE DEF RequestInv
<1>1. /\ UNCHANGED <<guards, interceptors, filters, passed, response>>
      /\ Pipeline!Core' = Pipeline!Core
      /\ stage.at = "handler" /\ "handler" \in log
  BY DEF Pipeline!Handler, Pipeline!route, Pipeline!Core, SoFar
<1>2. \/ call' = [call EXCEPT ![Pipeline!Core] = "value"] /\ stage' = [at |-> "over"] /\ UNCHANGED log
      \/ /\ call' = call /\ stage' = [at |-> "filters", next |-> 1]
         /\ log' = log \union {"handler threw"}
  BY DEF Pipeline!Handler, Pipeline!Settles, Pipeline!Fails, Pipeline!Note
<1>3. Pipeline!Core \in Nat \ {0}
  BY CoreType
<1>4. RequestTyped'
  <2>1. call' \in [1..Pipeline!Core -> Pipeline!Results \union {"none"}]
    BY <1>2, <1>3 DEF RequestTyped, Pipeline!Results
  <2>0. stage' = [at |-> "over"] \/ stage' = [at |-> "filters", next |-> 1]
    BY <1>2
  <2>2. /\ stage'.at \in {"filters", "over"}
        /\ stage'.at = "filters" => \E n \in Nat : stage' = [at |-> "filters", next |-> n]
    BY <2>0
  <2> QED
    BY <1>1, <2>1, <2>2 DEF RequestTyped
<1>5. SoFar' /\ Pipeline!Guarded'
  <2>1. CASE stage' = [at |-> "over"] /\ log' = log
    BY <1>1, <2>1 DEF SoFar, Pipeline!Guarded
  <2>2. CASE stage' = [at |-> "filters", next |-> 1] /\ log' = log \union {"handler threw"}
    BY <1>1, <2>2 DEF SoFar, Pipeline!Guarded, CoreFails
  <2> QED
    BY <1>2, <2>1, <2>2
<1>6. OnTheWayOut'
  BY <1>1, <1>2, <1>3 DEF OnTheWayOut, RequestTyped
<1>7. Pipeline!AnswerHasReason'
  BY <1>1, <1>2 DEF Pipeline!AnswerHasReason
<1> QED
  BY <1>4, <1>5, <1>6, <1>7

\* A filter handles an exception or passes it on.
LEMMA FilterStep ==
    ASSUME RequestInv, NEW responds \in BOOLEAN, Pipeline!Filter(responds)
    PROVE RequestInv'
<1> USE DEF RequestInv
<1>1. /\ UNCHANGED <<guards, interceptors, filters, passed, response, log>>
      /\ Pipeline!Core' = Pipeline!Core
      /\ stage.at = "filters" /\ log \intersect CoreFails # {}
  BY DEF Pipeline!Filter, Pipeline!route, Pipeline!Core, SoFar
<1>2. \/ stage' = [at |-> "over"] /\ \E what \in {"filtered", "default"} :
            call' = [call EXCEPT ![Pipeline!Core] = what]
      \/ call' = call /\ stage' = [stage EXCEPT !.next = @ + 1]
  BY DEF Pipeline!Filter, Pipeline!Settles
<1>3. Pipeline!Core \in Nat \ {0}
  BY CoreType
<1>4. PICK n \in Nat : stage = [at |-> "filters", next |-> n]
  BY <1>1 DEF RequestTyped
<1>5. \/ stage' = [at |-> "over"]
      \/ call' = call /\ stage' = [at |-> "filters", next |-> n + 1] /\ n + 1 \in Nat
  BY <1>2, <1>4
<1>6. RequestTyped'
  <2>1. call' \in [1..Pipeline!Core -> Pipeline!Results \union {"none"}]
    BY <1>2, <1>3 DEF RequestTyped, Pipeline!Results
  <2>2. /\ stage'.at \in {"filters", "over"}
        /\ stage'.at = "filters" => \E m \in Nat : stage' = [at |-> "filters", next |-> m]
    BY <1>5
  <2> QED
    BY <1>1, <2>1, <2>2 DEF RequestTyped
<1>7. SoFar' /\ Pipeline!Guarded'
  <2>1. stage'.at \in {"filters", "over"}
    BY <1>5
  <2> QED
    BY <1>1, <2>1 DEF SoFar, Pipeline!Guarded
<1>8. OnTheWayOut'
  BY <1>1, <1>2, <1>3 DEF OnTheWayOut, RequestTyped
<1>9. Pipeline!AnswerHasReason'
  BY <1>1 DEF Pipeline!AnswerHasReason
<1> QED
  BY <1>6, <1>7, <1>8, <1>9

\* Every step of a request keeps its invariant.
LEMMA RequestNext == RequestInv /\ [Pipeline!Next]_(Pipeline!vars) => RequestInv'
<1> SUFFICES ASSUME RequestInv, [Pipeline!Next]_(Pipeline!vars) PROVE RequestInv'
  OBVIOUS
<1>1. CASE UNCHANGED Pipeline!vars
  BY <1>1
     DEF RequestInv, Pipeline!vars, RequestTyped, SoFar, Pipeline!Guarded, OnTheWayOut,
        Pipeline!AnswerHasReason, Pipeline!Core
<1>2. CASE Pipeline!Next
  BY <1>2, GuardStep, InwardStep, ShortCircuitStep, OutwardStep, TimeoutStep, AnswerStep,
     PrepareStep, HandlerStep, FilterStep DEF Pipeline!Next
<1> QED
  BY <1>1, <1>2

\* The inductive invariant holds of every state: where the request is in its
\* layers, what has happened to it, and what it may be answered with.
THEOREM RequestInvariance == Pipeline!Spec => []RequestInv
  BY RequestInit, RequestNext, PTL DEF Pipeline!Spec

\* A handler runs only for a request that every guard has let pass, whose
\* controller was resolved and whose arguments were accepted, whatever timeouts
\* and interceptors have answered meanwhile (router.ts:355-361, 380-385).
THEOREM HandlerIsGuarded == Pipeline!Spec => []Pipeline!Guarded
<1>1. RequestInv => Pipeline!Guarded
  BY DEF RequestInv
<1> QED
  BY <1>1, RequestInvariance, PTL

\* Nothing but guards, interceptors and timeouts sends an error past the
\* exception filters, only the refused get 403, and filters answer only errors of
\* the core, through any stack of interceptors (router.ts:355-407).
THEOREM AnswersHaveReasons == Pipeline!Spec => []AnswerHasReason
<1>1. RequestInv => AnswerHasReason
  BY DEF RequestInv, AnswerHasReason
<1> QED
  BY <1>1, RequestInvariance, PTL

------------------------------------------------------------------------------
(* The container *)

Proven == INSTANCE ContainerProofs

\* What is assumed of the declarations is assumed of both instances of Container.
LEMMA SameAssumptions == Proven!GraphsAssumption /\ Proven!DepthAssumption
<1>1. Proven!GraphsAssumption
  BY GraphsAssumption DEF Outside, Proven!Outside
<1>2. Proven!DepthAssumption
  <2>1. ASSUME NEW S PROVE Proven!Cardinality(S) = Cardinality(S)
    BY DEF Proven!Cardinality, Cardinality
  <2>2. ASSUME NEW S PROVE Proven!IsFiniteSet(S) <=> IsFiniteSet(S)
    BY DEF Proven!IsFiniteSet, IsFiniteSet
  <2> QED
    BY <2>1, <2>2, DepthAssumption
<1> QED
  BY <1>1, <1>2

\* Both instances look at declarations alike.
LEMMA SameGraphs ==
  /\ \A c, t : (Proven!Registered(c, t) <=> Container!Registered(c, t))
              /\ Proven!Scope(c, t) = Container!Scope(c, t)
              /\ Proven!Deps(c, t) = Container!Deps(c, t)
              /\ Proven!Optional(c, t) = Container!Optional(c, t)
  /\ \A p : Proven!Target(p) = Container!Target(p)
  /\ Proven!Known = Container!Known
  /\ \A t : Proven!Clash(t) <=> Container!Clash(t)
<1>1. \A c, t : (Proven!Registered(c, t) <=> Container!Registered(c, t))
              /\ Proven!Scope(c, t) = Container!Scope(c, t)
              /\ Proven!Deps(c, t) = Container!Deps(c, t)
              /\ Proven!Optional(c, t) = Container!Optional(c, t)
  BY DEF Proven!Registered, Container!Registered, Proven!Scope, Container!Scope, Proven!Deps,
         Container!Deps, Proven!Optional, Container!Optional
<1>2. \A p : Proven!Target(p) = Container!Target(p)
  BY <1>1 DEF Proven!Target, Container!Target
<1>3. Proven!Known = Container!Known
  BY <1>1 DEF Proven!Known, Container!Known, Proven!Pairs, Container!Pairs,
              Proven!Containers, Container!Containers
<1>4. \A t : Proven!Clash(t) <=> Container!Clash(t)
  BY <1>1 DEF Proven!Clash, Container!Clash
<1> QED
  BY <1>1, <1>2, <1>3, <1>4

\* What a request is given holds no instance made for another one, unless a
\* singleton or an export depends on a provider of a shorter life
\* (container.ts:198-211; request-middleware.ts:60-65).
THEOREM IsolationHolds == Proven!Spec => []IsolatedUnlessHeld
<1>1. Proven!NothingHeld <=> Container!NothingHeld
  <2>1. \A p : Proven!Held(p) <=> Container!Held(p)
    BY SameGraphs DEF Proven!Held, Container!Held
  <2> QED
    BY <2>1, SameGraphs DEF Proven!NothingHeld, Container!NothingHeld
<1>2. Proven!IsolatedUnlessHeld => IsolatedUnlessHeld
  BY <1>1 DEF IsolatedUnlessHeld, Proven!IsolatedUnlessHeld, Container!IsolatedUnlessHeld
<1>3. Proven!Spec => []Proven!IsolatedUnlessHeld
  BY SameAssumptions, Proven!AlwaysIsolated
<1> QED
  BY <1>2, <1>3, PTL

\* A container makes one instance of a singleton for ever, and a request one of a
\* request-scoped provider, unless it comes back to itself on the path that marks
\* nothing or shares its cell (container.ts:195-211, 240-246).
THEOREM OneInstanceHolds == Proven!Spec => []OneInstance
<1>1. \A p : Proven!Circles(p) <=> Container!Circles(p)
  BY SameGraphs DEF Proven!Circles, Container!Circles
<1>2. Proven!OneInstance => OneInstance
  BY <1>1, SameGraphs DEF OneInstance, Proven!OneInstance, Container!OneInstance
<1>3. Proven!Spec => []Proven!OneInstance
  BY SameAssumptions, Proven!OneInstanceAlways
<1> QED
  BY <1>2, <1>3, PTL

\* resolve() answers with an instance exactly when there is one to be had, and of
\* the right provider, whatever was resolved, kept, attempted in vain or swallowed
\* before (container.ts:186-259; scanner.ts:83-122).
THEOREM AnswersHold == Proven!Spec => []AnswersRight
<1>1. \A p : Proven!Needs(p) = Container!Needs(p)
  BY SameGraphs DEF Proven!Needs, Container!Needs
<1>2. \A p : Proven!Hopeless(p) <=> Container!Hopeless(p)
  BY <1>1, SameGraphs DEF Proven!Hopeless, Container!Hopeless
<1>3. \A p : Proven!Maker(p) = Container!Maker(p)
  BY DEF Proven!Maker, Container!Maker, Proven!Forwards, Container!Forwards
<1>4. Proven!AnswersRight => AnswersRight
  BY <1>2, <1>3, SameGraphs
     DEF AnswersRight, Proven!AnswersRight, Container!AnswersRight, Proven!NoAnswer,
         Container!NoAnswer
<1>5. Proven!Spec => []Proven!AnswersRight
  BY SameAssumptions, Proven!AnswersAlwaysRight
<1> QED
  BY <1>4, <1>5, PTL

------------------------------------------------------------------------------
(* The event emitter *)

\* Where emits do not overlap and no error is thrown on.
Careful == calm /\ ~throwOnError

Registered == [id : Nat, pattern : Patterns, priority : Priorities, once : BOOLEAN,
               guarded : BOOLEAN]

EmitFrames ==
    {Emitter!Idle}
    \union [at : {"guard"}, now : Registered, todo : SUBSET Registered,
            eligible : SUBSET Registered]
    \union [at : {"listener"}, now : Registered, eligible : SUBSET Registered,
            gone : SUBSET Nat]

EmitterTypes ==
    /\ throwOnError \in BOOLEAN /\ calm \in BOOLEAN /\ refired \in BOOLEAN
    /\ nextId \in Nat /\ fired \subseteq Nat
    /\ listeners \subseteq Registered
    /\ emit \in [Emits -> EmitFrames]

\* Registrations with ids of their own, given out before next.
Numbered(ls, next) ==
    /\ \A l, m \in ls : l.id = m.id => l = m
    /\ \A l \in ls : l.id < next

\* None of them has been called for once.
Unfired(ls, ids) == \A l \in ls : l.id \notin ids

\* Whom an emit may still call.
Waiting(e) ==
    CASE emit[e].at = "guard"    -> {emit[e].now} \union emit[e].todo \union emit[e].eligible
      [] emit[e].at = "listener" -> emit[e].eligible
      [] OTHER                   -> {}

\* What an emit is to remove when it has called them all.
Doomed(e) ==
    IF emit[e].at = "listener" THEN emit[e].gone \union Emitter!Once({emit[e].now}) ELSE {}

Numbers ==
    /\ Numbered(listeners, nextId) /\ \A i \in fired : i < nextId
    /\ \A e \in Emits : Numbered(Waiting(e), nextId)

\* One emit at a time.
Apart == \A e, f \in Emits : emit[e] # Emitter!Idle /\ emit[f] # Emitter!Idle => e = f

\* A listener that was called for once waits in no emit, and is still registered only
\* as long as the emit that has called it is to remove it.
FiredIsOver ==
    /\ \A e \in Emits : Unfired(Waiting(e), fired)
    /\ \A l \in listeners : l.id \in fired => \E e \in Emits : l.id \in Doomed(e)

EmitterInv ==
    /\ EmitterTypes
    /\ Numbers
    /\ Careful => ~refired /\ Apart /\ FiredIsOver

\* Numbered and unfired registrations are so in part, too.
LEMMA PartOfThem ==
    ASSUME NEW ls, NEW ms \in SUBSET ls, NEW next, NEW ids
    PROVE  /\ Numbered(ls, next) => Numbered(ms, next)
           /\ Unfired(ls, ids) => Unfired(ms, ids)
BY DEF Numbered, Unfired

\* To call the first of those that wait keeps the invariant, when all that has been
\* called and is still registered is among those to be removed.
LEMMA DispatchKeeps ==
    ASSUME EmitterInv, NEW e \in Emits, NEW waiting \in SUBSET Registered,
           NEW gone \in SUBSET Nat,
           Numbered(waiting, nextId),
           Careful => /\ Unfired(waiting, fired)
                      /\ \A f \in Emits \ {e} : emit[f] = Emitter!Idle
                      /\ \A l \in listeners : l.id \in fired => l.id \in gone,
           Emitter!Dispatch(e, waiting, gone),
           UNCHANGED <<throwOnError, calm, nextId>>
    PROVE  EmitterInv'
<1>1. PICK l \in waiting :
          /\ emit' = [emit EXCEPT ![e] = [at |-> "listener", now |-> l,
                                          eligible |-> waiting \ {l}, gone |-> gone]]
          /\ Emitter!Called({l})
          /\ UNCHANGED listeners
  BY DEF Emitter!Dispatch
<1>2. l \in Registered /\ l.id \in Nat /\ l.id < nextId
  BY DEF Registered, Numbered
<1>3. Emitter!Once({l}) \subseteq {l.id}
  BY DEF Emitter!Once, Emitter!Ids
<1>4. fired' = fired \union Emitter!Once({l}) /\ fired' \subseteq Nat
  BY <1>1, <1>2, <1>3 DEF Emitter!Called, EmitterInv, EmitterTypes
<1>5. refired' \in BOOLEAN
  BY <1>1 DEF Emitter!Called, EmitterInv, EmitterTypes
<1> DEFINE frame == [at |-> "listener", now |-> l, eligible |-> waiting \ {l}, gone |-> gone]
<1>6. frame \in EmitFrames
  BY <1>2 DEF EmitFrames
<1>7. emit' \in [Emits -> EmitFrames] /\ emit'[e] = frame
      /\ \A f \in Emits \ {e} : emit'[f] = emit[f]
  BY <1>1, <1>6 DEF EmitterInv, EmitterTypes
<1> HIDE DEF frame
<1>8. frame.at = "listener" /\ frame.now = l /\ frame.eligible = waiting \ {l} /\ frame.gone = gone
  BY DEF frame
<1>9. Waiting(e)' = waiting \ {l} /\ Doomed(e)' = gone \union Emitter!Once({l})
  BY <1>7, <1>8 DEF Waiting, Doomed, Emitter!Once, Emitter!Ids
<1>10. \A f \in Emits \ {e} : Waiting(f)' = Waiting(f)
  BY <1>7 DEF Waiting
<1>11. EmitterTypes'
  BY <1>1, <1>4, <1>5, <1>7 DEF EmitterInv, EmitterTypes
<1>12. Numbers'
  <2>1. Numbered(listeners, nextId)'
    BY <1>1 DEF EmitterInv, Numbers, Numbered
  <2>2. \A i \in fired' : i < nextId'
    BY <1>2, <1>3, <1>4 DEF EmitterInv, Numbers
  <2>3. Numbered(waiting \ {l}, nextId)
    BY PartOfThem
  <2>4. \A f \in Emits : Numbered(Waiting(f), nextId)'
    BY <2>3, <1>9, <1>10 DEF EmitterInv, Numbers, Numbered
  <2>5. QED
    BY <2>1, <2>2, <2>4 DEF Numbers
<1>13. ASSUME Careful' PROVE (~refired /\ Apart /\ FiredIsOver)'
  <2>1. Careful
    BY <1>13 DEF Careful
  <2>2. ~refired'
    BY <2>1, <1>1, <1>3 DEF Emitter!Called, EmitterInv, Unfired
  <2>3. Apart'
    BY <2>1, <1>7 DEF Apart
  <2>4. Unfired(waiting \ {l}, fired')
    BY <2>1, <1>3, <1>4 DEF Unfired, Numbered
  <2>5. \A f \in Emits \ {e} : Waiting(f) = {}
    BY <2>1 DEF Waiting, Emitter!Idle
  <2>6. \A f \in Emits : Unfired(Waiting(f), fired)'
    BY <2>4, <2>5, <1>9, <1>10 DEF Unfired
  <2>7. \A m \in listeners' : m.id \in fired' => m.id \in Doomed(e)'
    BY <2>1, <1>1, <1>4, <1>9
  <2>8. FiredIsOver'
    BY <2>6, <2>7 DEF FiredIsOver
  <2>9. QED
    BY <2>2, <2>3, <2>8
<1>14. QED
  BY <1>11, <1>12, <1>13 DEF EmitterInv

\* So does the end of an emit that removes those who were called for once.
LEMMA EndKeeps ==
    ASSUME EmitterInv, NEW e \in Emits,
           emit' = [emit EXCEPT ![e] = Emitter!Idle],
           listeners' \subseteq listeners,
           Careful => /\ \A f \in Emits \ {e} : emit[f] = Emitter!Idle
                      /\ \A l \in listeners' : l.id \notin fired,
           UNCHANGED <<throwOnError, calm, nextId, fired, refired>>
    PROVE  EmitterInv'
<1>1. Emitter!Idle \in EmitFrames
  BY DEF EmitFrames
<1>2. emit' \in [Emits -> EmitFrames] /\ emit'[e] = Emitter!Idle
      /\ \A f \in Emits \ {e} : emit'[f] = emit[f]
  BY <1>1 DEF EmitterInv, EmitterTypes
<1>3. Waiting(e)' = {} /\ \A f \in Emits \ {e} : Waiting(f)' = Waiting(f)
  BY <1>2 DEF Waiting, Emitter!Idle
<1>4. EmitterTypes'
  BY <1>2 DEF EmitterInv, EmitterTypes
<1>5. Numbers'
  BY <1>3 DEF EmitterInv, Numbers, Numbered
<1>6. ASSUME Careful' PROVE (~refired /\ Apart /\ FiredIsOver)'
  <2>1. Careful
    BY <1>6 DEF Careful
  <2>2. ~refired' /\ Apart'
    BY <2>1, <1>2 DEF EmitterInv, Apart
  <2>3. FiredIsOver'
    BY <2>1, <1>3 DEF EmitterInv, FiredIsOver, Unfired
  <2>4. QED
    BY <2>2, <2>3
<1>7. QED
  BY <1>4, <1>5, <1>6 DEF EmitterInv

\* A call runs on to its next await.
LEMMA GoKeeps ==
    ASSUME EmitterInv, NEW e \in Emits, NEW rest \in SUBSET Registered,
           NEW eligible \in SUBSET Registered,
           Numbered(rest \union eligible, nextId),
           Careful => /\ Unfired(rest \union eligible, fired)
                      /\ \A f \in Emits \ {e} : emit[f] = Emitter!Idle
                      /\ \A l \in listeners : l.id \notin fired,
           Emitter!Go(e, rest, eligible),
           UNCHANGED <<throwOnError, calm, nextId>>
    PROVE  EmitterInv'
<1> DEFINE guarded == {l \in rest : l.guarded}
<1>1. CASE /\ \E l \in guarded :
                 emit' = [emit EXCEPT ![e] =
                     [at |-> "guard", now |-> l, todo |-> {m \in rest : Emitter!Before(l, m)},
                      eligible |-> eligible \union {m \in rest : Emitter!Before(m, l)}]]
           /\ UNCHANGED <<listeners, fired, refired>>
  <2>1. PICK l \in guarded :
            emit' = [emit EXCEPT ![e] =
                [at |-> "guard", now |-> l, todo |-> {m \in rest : Emitter!Before(l, m)},
                 eligible |-> eligible \union {m \in rest : Emitter!Before(m, l)}]]
    BY <1>1
  <2> DEFINE later == {m \in rest : Emitter!Before(l, m)}
             ready == eligible \union {m \in rest : Emitter!Before(m, l)}
  <2>2. l \in Registered /\ l \in rest /\ later \subseteq rest /\ ready \subseteq rest \union eligible
    OBVIOUS
  <2> HIDE DEF later, ready
  <2> DEFINE frame == [at |-> "guard", now |-> l, todo |-> later, eligible |-> ready]
  <2>3. frame \in EmitFrames
    BY <2>2 DEF EmitFrames
  <2>4. emit' = [emit EXCEPT ![e] = frame]
    BY <2>1 DEF later, ready
  <2>5. emit' \in [Emits -> EmitFrames] /\ emit'[e] = frame
        /\ \A f \in Emits \ {e} : emit'[f] = emit[f]
    BY <2>3, <2>4 DEF EmitterInv, EmitterTypes
  <2>6. frame.at = "guard" /\ frame.now = l /\ frame.todo = later /\ frame.eligible = ready
    OBVIOUS
  <2> HIDE DEF frame
  <2>7. /\ Waiting(e)' \subseteq rest \union eligible /\ Doomed(e)' = {}
        /\ \A f \in Emits \ {e} : Waiting(f)' = Waiting(f)
    BY <2>2, <2>5, <2>6 DEF Waiting, Doomed
  <2>8. EmitterTypes'
    BY <2>5, <1>1 DEF EmitterInv, EmitterTypes
  <2>9. Numbered(Waiting(e)', nextId) /\ (Careful => Unfired(Waiting(e)', fired))
    BY <2>7, PartOfThem
  <2>10. Numbers'
    BY <2>7, <2>9, <1>1 DEF EmitterInv, Numbers, Numbered
  <2>11. ASSUME Careful' PROVE (~refired /\ Apart /\ FiredIsOver)'
    <3>1. Careful
      BY <2>11 DEF Careful
    <3>2. ~refired' /\ Apart'
      BY <3>1, <2>5, <1>1 DEF EmitterInv, Apart
    <3>3. FiredIsOver'
      BY <3>1, <2>7, <2>9, <1>1 DEF EmitterInv, FiredIsOver, Unfired
    <3>4. QED
      BY <3>2, <3>3
  <2>12. QED
    BY <2>8, <2>10, <2>11 DEF EmitterInv
<1>2. CASE Emitter!Dispatch(e, eligible \union rest, {})
  <2>1. rest \union eligible = eligible \union rest /\ eligible \union rest \in SUBSET Registered
        /\ {} \in SUBSET Nat
    OBVIOUS
  <2>2. Careful => \A l \in listeners : l.id \in fired => l.id \in {}
    OBVIOUS
  <2>3. QED
    BY <1>2, <2>1, <2>2, DispatchKeeps
<1>3. CASE /\ emit' = [emit EXCEPT ![e] = Emitter!Idle]
           /\ UNCHANGED <<listeners, fired, refired>>
  BY <1>3, EndKeeps
<1>4. QED
  BY <1>1, <1>2, <1>3 DEF Emitter!Go, Emitter!calls

\* In a careful program an emit starts when nothing is under way, and then no registered
\* listener has been called for once.
LEMMA QuietIsClean ==
    ASSUME EmitterInv, Careful, Emitter!MayEmit
    PROVE  \A l \in listeners : l.id \notin fired
<1>1. \A e \in Emits : emit[e] = Emitter!Idle
  BY DEF Careful, Emitter!MayEmit, Emitter!Quiet
<1>2. \A e \in Emits : Doomed(e) = {}
  BY <1>1 DEF Doomed, Emitter!Idle
<1>3. QED
  BY <1>2 DEF EmitterInv, FiredIsOver

\* An emit begins with the listeners that match.
LEMMA EmitKeeps ==
    ASSUME EmitterInv, NEW e \in Emits, NEW name, Emitter!Emit(e, name)
    PROVE  EmitterInv'
<1> DEFINE found == Emitter!Matches(name)
<1>1. found \subseteq listeners /\ found \union {} = found
  BY DEF Emitter!Matches
<1>2. found \in SUBSET Registered /\ {} \in SUBSET Registered
  BY <1>1 DEF EmitterInv, EmitterTypes
<1>3. Numbered(found \union {}, nextId)
  BY <1>1, PartOfThem DEF EmitterInv, Numbers
<1>4. Careful => /\ Unfired(found \union {}, fired)
                 /\ \A f \in Emits \ {e} : emit[f] = Emitter!Idle
                 /\ \A l \in listeners : l.id \notin fired
  <2> SUFFICES ASSUME Careful
               PROVE  /\ Unfired(found \union {}, fired)
                      /\ \A f \in Emits \ {e} : emit[f] = Emitter!Idle
                      /\ \A l \in listeners : l.id \notin fired
    OBVIOUS
  <2>1. \A l \in listeners : l.id \notin fired
    BY QuietIsClean DEF Emitter!Emit
  <2>2. \A f \in Emits : emit[f] = Emitter!Idle
    BY DEF Careful, Emitter!Emit, Emitter!MayEmit, Emitter!Quiet
  <2>3. Unfired(found \union {}, fired)
    BY <2>1, <1>1 DEF Unfired
  <2>4. QED
    BY <2>1, <2>2, <2>3
<1>5. Emitter!Go(e, found, {}) /\ UNCHANGED <<throwOnError, calm, nextId>>
  BY DEF Emitter!Emit, Emitter!fixed
<1> HIDE DEF found
<1>6. QED
  BY <1>2, <1>3, <1>4, <1>5, GoKeeps

\* While an emit is under way in a careful program, no other one is.
LEMMA OthersAreIdle ==
    ASSUME EmitterInv, Careful, NEW e \in Emits, emit[e].at \in {"guard", "listener"}
    PROVE  /\ \A f \in Emits \ {e} : emit[f] = Emitter!Idle
           /\ \A l \in listeners : l.id \in fired => l.id \in Doomed(e)
<1>1. emit[e] # Emitter!Idle
  BY DEF Emitter!Idle
<1>2. \A f \in Emits \ {e} : emit[f] = Emitter!Idle
  BY <1>1 DEF EmitterInv, Apart
<1>3. \A f \in Emits \ {e} : Doomed(f) = {}
  BY <1>2 DEF Doomed, Emitter!Idle
<1>4. QED
  BY <1>2, <1>3 DEF EmitterInv, FiredIsOver

\* What a frame at a guard or at a listener holds.
LEMMA FrameFields ==
    ASSUME EmitterInv, NEW e \in Emits
    PROVE  /\ emit[e].at = "guard" => /\ emit[e].now \in Registered
                                      /\ emit[e].todo \subseteq Registered
                                      /\ emit[e].eligible \subseteq Registered
           /\ emit[e].at = "listener" => /\ emit[e].now \in Registered
                                         /\ emit[e].eligible \subseteq Registered
                                         /\ emit[e].gone \subseteq Nat
<1>1. emit[e] \in EmitFrames
  BY DEF EmitterInv, EmitterTypes
<1>2. QED
  BY <1>1 DEF EmitFrames, Emitter!Idle

\* A guard lets its listener be called or not.
LEMMA GuardKeeps ==
    ASSUME EmitterInv, NEW e \in Emits, NEW ok \in BOOLEAN, Emitter!Guard(e, ok)
    PROVE  EmitterInv'
<1> DEFINE rest     == emit[e].todo
           eligible == emit[e].eligible \union (IF ok THEN {emit[e].now} ELSE {})
<1>1. emit[e].at = "guard"
  BY DEF Emitter!Guard
<1>2. rest \in SUBSET Registered /\ eligible \in SUBSET Registered
  BY <1>1, FrameFields
<1>3. rest \union eligible \in SUBSET Waiting(e)
  BY <1>1 DEF Waiting
<1>4. Numbered(rest \union eligible, nextId)
  BY <1>3, PartOfThem DEF EmitterInv, Numbers
<1>5. Careful => /\ Unfired(rest \union eligible, fired)
                 /\ \A f \in Emits \ {e} : emit[f] = Emitter!Idle
                 /\ \A l \in listeners : l.id \notin fired
  <2> SUFFICES ASSUME Careful
               PROVE  /\ Unfired(rest \union eligible, fired)
                      /\ \A f \in Emits \ {e} : emit[f] = Emitter!Idle
                      /\ \A l \in listeners : l.id \notin fired
    OBVIOUS
  <2>1. Unfired(rest \union eligible, fired)
    BY <1>3, PartOfThem DEF EmitterInv, FiredIsOver
  <2>2. Doomed(e) = {}
    BY <1>1 DEF Doomed
  <2>3. QED
    BY <2>1, <2>2, <1>1, OthersAreIdle
<1>6. Emitter!Go(e, rest, eligible) /\ UNCHANGED <<throwOnError, calm, nextId>>
  BY DEF Emitter!Guard, Emitter!fixed
<1> HIDE DEF rest, eligible
<1>7. QED
  BY <1>2, <1>4, <1>5, <1>6, GoKeeps

\* A listener returns or fails.
LEMMA ListenerKeeps ==
    ASSUME EmitterInv, NEW e \in Emits, NEW ok \in BOOLEAN, Emitter!Listener(e, ok)
    PROVE  EmitterInv'
<1> DEFINE thrown == ~ok /\ throwOnError
           gone   == emit[e].gone \union Emitter!Once({emit[e].now})
<1>1. emit[e].at = "listener" /\ Emitter!Proceed(e, thrown, gone)
      /\ UNCHANGED <<throwOnError, calm, nextId>>
  BY DEF Emitter!Listener, Emitter!Proceed, Emitter!fixed
<1>2. /\ emit[e].now \in Registered /\ emit[e].eligible \in SUBSET Registered
      /\ emit[e].gone \subseteq Nat
  BY <1>1, FrameFields
<1>3. gone \in SUBSET Nat
  BY <1>2 DEF Registered, Emitter!Once, Emitter!Ids
<1>4. Doomed(e) = gone /\ Waiting(e) = emit[e].eligible
  BY <1>1 DEF Doomed, Waiting
<1>5. Careful => ~thrown
  BY DEF Careful
<1>6. Careful => /\ \A f \in Emits \ {e} : emit[f] = Emitter!Idle
                 /\ \A l \in listeners : l.id \in fired => l.id \in gone
  BY <1>1, <1>4, OthersAreIdle
<1>7. /\ Numbered(emit[e].eligible, nextId)
      /\ Careful => Unfired(emit[e].eligible, fired)
  BY <1>4 DEF EmitterInv, Numbers, FiredIsOver
<1> HIDE DEF thrown, gone
<1>8. CASE /\ thrown
           /\ emit' = [emit EXCEPT ![e] = Emitter!Idle]
           /\ UNCHANGED <<listeners, fired, refired>>
  BY <1>1, <1>5, <1>8, EndKeeps
<1>9. CASE Emitter!Dispatch(e, emit[e].eligible, gone)
  BY <1>1, <1>2, <1>3, <1>6, <1>7, <1>9, DispatchKeeps
<1>10. CASE /\ emit' = [emit EXCEPT ![e] = Emitter!Idle]
            /\ listeners' = Emitter!Without(gone)
            /\ UNCHANGED <<fired, refired>>
  <2>1. listeners' \subseteq listeners /\ \A l \in listeners' : l.id \notin gone
    BY <1>10 DEF Emitter!Without
  <2>2. QED
    BY <1>1, <1>6, <1>10, <2>1, EndKeeps
<1>11. QED
  BY <1>1, <1>8, <1>9, <1>10 DEF Emitter!Proceed, Emitter!calls

\* All listeners are called at once.
LEMMA EmitSyncKeeps ==
    ASSUME EmitterInv, NEW name, NEW out, NEW promised, Emitter!EmitSync(name, out, promised)
    PROVE  EmitterInv'
<1> DEFINE called == {l \in Emitter!Matches(name) : l.id \notin out}
           ids    == Emitter!Once(called)
<1>1. /\ Emitter!MayEmit /\ (calm => promised = {})
      /\ Emitter!Called(called)
      /\ listeners' = Emitter!Without(ids \ promised)
      /\ UNCHANGED <<throwOnError, calm, nextId, emit>>
  BY DEF Emitter!EmitSync, Emitter!fixed
<1>2. called \subseteq listeners
  BY DEF Emitter!Matches
<1>3. \A i \in ids : \E l \in listeners : i = l.id
  BY <1>2 DEF Emitter!Once, Emitter!Ids
<1>4. ids \subseteq Nat /\ \A i \in ids : i < nextId
  BY <1>3 DEF EmitterInv, EmitterTypes, Registered, Numbers, Numbered
<1> HIDE DEF called, ids
<1>5. fired' = fired \union ids /\ refired' = (refired \/ ids \intersect fired # {})
  BY <1>1 DEF Emitter!Called, ids
<1>6. listeners' \subseteq listeners /\ \A l \in listeners' : l.id \notin ids \ promised
  BY <1>1 DEF Emitter!Without
<1>7. refired' \in BOOLEAN
  BY <1>5 DEF EmitterInv, EmitterTypes
<1>8. EmitterTypes'
  BY <1>1, <1>4, <1>5, <1>6, <1>7 DEF EmitterInv, EmitterTypes
<1>9. \A e \in Emits : Waiting(e)' = Waiting(e)
  BY <1>1 DEF Waiting
<1>10. Numbers'
  <2>1. Numbered(listeners, nextId)'
    BY <1>1, <1>6 DEF EmitterInv, Numbers, Numbered
  <2>2. \A i \in fired' : i < nextId'
    BY <1>1, <1>4, <1>5 DEF EmitterInv, Numbers
  <2>3. \A e \in Emits : Numbered(Waiting(e), nextId)'
    BY <1>1, <1>9 DEF EmitterInv, Numbers, Numbered
  <2>4. QED
    BY <2>1, <2>2, <2>3 DEF Numbers
<1>11. ASSUME Careful' PROVE (~refired /\ Apart /\ FiredIsOver)'
  <2>1. Careful /\ promised = {}
    BY <1>1, <1>11 DEF Careful
  <2>2. \A l \in listeners : l.id \notin fired
    BY <2>1, <1>1, QuietIsClean
  <2>3. ~refired'
    BY <2>1, <2>2, <1>3, <1>5 DEF EmitterInv
  <2>4. Apart'
    BY <2>1, <1>1 DEF EmitterInv, Apart
  <2>5. \A e \in Emits : Waiting(e)' = {}
    BY <2>1, <1>1, <1>9 DEF Careful, Emitter!MayEmit, Emitter!Quiet, Waiting, Emitter!Idle
  <2>6. \A l \in listeners' : l.id \notin fired'
    BY <2>1, <2>2, <1>5, <1>6
  <2>7. FiredIsOver'
    BY <2>5, <2>6 DEF FiredIsOver, Unfired
  <2>8. QED
    BY <2>3, <2>4, <2>7
<1>12. QED
  BY <1>8, <1>10, <1>11 DEF EmitterInv

\* A listener is registered under a new id.
LEMMA OnKeeps ==
    ASSUME EmitterInv, NEW p \in Patterns, NEW n \in Priorities, NEW once \in BOOLEAN,
           NEW guarded \in BOOLEAN, Emitter!On(p, n, once, guarded)
    PROVE  EmitterInv'
<1> DEFINE l == [id |-> nextId, pattern |-> p, priority |-> n, once |-> once,
                 guarded |-> guarded]
<1>1. /\ listeners' = listeners \union {l} /\ nextId' = nextId + 1
      /\ UNCHANGED <<throwOnError, calm, emit, fired, refired>>
  BY DEF Emitter!On, Emitter!fixed, Emitter!calls
<1>2. nextId \in Nat
  BY DEF EmitterInv, EmitterTypes
<1>3. l \in Registered /\ l.id = nextId
  BY <1>2 DEF Registered
<1> HIDE DEF l
<1>4. EmitterTypes'
  BY <1>1, <1>2, <1>3 DEF EmitterInv, EmitterTypes
<1>5. \A e \in Emits : Waiting(e)' = Waiting(e) /\ Doomed(e)' = Doomed(e)
  BY <1>1 DEF Waiting, Doomed, Emitter!Once, Emitter!Ids
<1>6. \A e \in Emits : Waiting(e) \subseteq Registered
  BY FrameFields DEF Waiting
<1>7. \A m \in Registered : m.id \in Nat
  BY DEF Registered
<1>8. Numbers'
  <2>1. Numbered(listeners, nextId)'
    <3>1. listeners \subseteq Registered
      BY DEF EmitterInv, EmitterTypes
    <3>2. QED
      BY <3>1, <1>1, <1>2, <1>3, <1>7 DEF EmitterInv, Numbers, Numbered
  <2>2. \A i \in fired' : i < nextId'
    BY <1>1, <1>2 DEF EmitterInv, EmitterTypes, Numbers
  <2>3. \A e \in Emits : Numbered(Waiting(e), nextId)'
    BY <1>1, <1>2, <1>5, <1>6, <1>7 DEF EmitterInv, Numbers, Numbered
  <2>4. QED
    BY <2>1, <2>2, <2>3 DEF Numbers
<1>9. ASSUME Careful' PROVE (~refired /\ Apart /\ FiredIsOver)'
  <2>1. Careful
    BY <1>1, <1>9 DEF Careful
  <2>2. ~refired' /\ Apart'
    BY <2>1, <1>1 DEF EmitterInv, Apart
  <2>3. nextId \notin fired
    BY <1>2 DEF EmitterInv, Numbers
  <2>4. FiredIsOver'
    BY <2>1, <2>3, <1>1, <1>3, <1>5 DEF EmitterInv, FiredIsOver, Unfired
  <2>5. QED
    BY <2>2, <2>4
<1>10. QED
  BY <1>4, <1>8, <1>9 DEF EmitterInv

\* Listeners are removed.
LEMMA OffKeeps ==
    ASSUME EmitterInv, NEW ids, Emitter!Off(ids)
    PROVE  EmitterInv'
<1>1. /\ listeners' \subseteq listeners
      /\ UNCHANGED <<throwOnError, calm, nextId, emit, fired, refired>>
  BY DEF Emitter!Off, Emitter!Without, Emitter!fixed, Emitter!calls
<1>2. \A e \in Emits : Waiting(e)' = Waiting(e) /\ Doomed(e)' = Doomed(e)
  BY <1>1 DEF Waiting, Doomed, Emitter!Once, Emitter!Ids
<1>3. EmitterTypes'
  BY <1>1 DEF EmitterInv, EmitterTypes
<1>4. Numbers'
  BY <1>1, <1>2 DEF EmitterInv, Numbers, Numbered
<1>5. Careful' => (~refired /\ Apart /\ FiredIsOver)'
  BY <1>1, <1>2 DEF EmitterInv, Careful, Apart, FiredIsOver, Unfired
<1>6. QED
  BY <1>3, <1>4, <1>5 DEF EmitterInv

\* At first nobody is registered.
LEMMA EmitterInit == Emitter!Init => EmitterInv
<1> SUFFICES ASSUME Emitter!Init PROVE EmitterInv
  OBVIOUS
<1>1. \A e \in Emits : emit[e] = Emitter!Idle
  BY DEF Emitter!Init
<1>2. \A e \in Emits : Waiting(e) = {}
  BY <1>1 DEF Waiting, Emitter!Idle
<1>3. Emitter!Idle \in EmitFrames
  BY DEF EmitFrames
<1>4. EmitterTypes
  BY <1>3 DEF Emitter!Init, EmitterTypes
<1>5. Numbers
  BY <1>2 DEF Emitter!Init, Numbers, Numbered
<1>6. Apart /\ FiredIsOver /\ ~refired
  BY <1>1, <1>2 DEF Emitter!Init, Apart, FiredIsOver, Unfired
<1>7. QED
  BY <1>4, <1>5, <1>6 DEF EmitterInv

\* Every step keeps the invariant of the emitter.
LEMMA EmitterNext == EmitterInv /\ [Emitter!Next]_(Emitter!vars) => EmitterInv'
<1> SUFFICES ASSUME EmitterInv, [Emitter!Next]_(Emitter!vars) PROVE EmitterInv'
  OBVIOUS
<1>1. CASE \E p \in Patterns, n \in Priorities, once, guarded \in BOOLEAN :
              Emitter!On(p, n, once, guarded)
  BY <1>1, OnKeeps
<1>2. CASE \E i \in 1..MaxId : Emitter!OffId(i)
  BY <1>2, OffKeeps DEF Emitter!OffId
<1>3. CASE \E p \in Patterns : Emitter!OffPattern(p)
  BY <1>3, OffKeeps DEF Emitter!OffPattern
<1>4. CASE \E e \in Emits, name \in Names : Emitter!Emit(e, name)
  BY <1>4, EmitKeeps
<1>5. CASE \E e \in Emits, ok \in BOOLEAN : Emitter!Guard(e, ok) \/ Emitter!Listener(e, ok)
  BY <1>5, GuardKeeps, ListenerKeeps
<1>6. CASE \E name \in Names, out, promised \in SUBSET (1..MaxId) :
              Emitter!EmitSync(name, out, promised)
  BY <1>6, EmitSyncKeeps
<1>7. CASE UNCHANGED Emitter!vars
  <2>1. UNCHANGED <<throwOnError, calm, listeners, nextId, emit, fired, refired>>
    BY <1>7 DEF Emitter!vars
  <2>2. \A e \in Emits : Waiting(e)' = Waiting(e) /\ Doomed(e)' = Doomed(e)
    BY <2>1 DEF Waiting, Doomed, Emitter!Once, Emitter!Ids
  <2>3. QED
    BY <2>1, <2>2 DEF EmitterInv, EmitterTypes, Numbers, Numbered, Careful, Apart, FiredIsOver,
                      Unfired
<1>8. QED
  BY <1>1, <1>2, <1>3, <1>4, <1>5, <1>6, <1>7 DEF Emitter!Next

\* A listener for once is called at most once, whatever is registered and removed during
\* the awaits, in a program whose emits do not overlap and that throws no error on
\* (emitter.ts:118-270).
THEOREM OnceMeansOnce == Emitter!Spec => []OnceFiresOnce
<1>1. EmitterInv => OnceFiresOnce
  BY DEF EmitterInv, EmitterTypes, Careful, OnceFiresOnce, Emitter!OnceFiresOnce
<1>2. QED
  BY <1>1, EmitterInit, EmitterNext, PTL DEF Emitter!Spec
==============================================================================

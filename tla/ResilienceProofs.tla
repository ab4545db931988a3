-------------------------- MODULE ResilienceProofs ---------------------------
(***************************************************************************)
(* Proofs about the circuit breaker, for any callers and any configuration *)
(* of it, and about a call of retry() for any number of attempts; what     *)
(* BulkheadProofs shows of a bulkhead is shown to hold of the one that     *)
(* stands beside them.                                                     *)
(***************************************************************************)
EXTENDS Resilience, FiniteSetTheorems, TLAPS

IInv ==
    /\ TypeOK
    /\ ProbesAreRunning
    /\ QuotaIsSet
    /\ FailuresAreJudged

------------------------------------------------------------------------------
(* The rolling window *)

\* A window without samples is a window.
LEMMA EmptyWindow == <<>> \in Seq(Samples)
  OBVIOUS

\* A recorded sample is the last of the window, whatever aged out.
LEMMA WindowFacts ==
    ASSUME samples \in Seq(Samples), NEW sample \in Samples,
           NEW w \in Windows(sample)
    PROVE  /\ w \in Seq(Samples)
           /\ Len(w) \in Nat
           /\ Len(w) > 0
           /\ w[Len(w)] = sample
<1>1. PICK k \in 0..Len(samples) :
           w = Append(SubSeq(samples, k + 1, Len(samples)), sample)
  BY DEF Windows
<1> DEFINE kept == SubSeq(samples, k + 1, Len(samples))
<1>2. kept \in Seq(Samples) /\ Len(kept) \in Nat
  OBVIOUS
<1> HIDE DEF kept
<1>3. w = Append(kept, sample)
  BY <1>1 DEF kept
<1>4. w \in Seq(Samples) /\ Len(w) = Len(kept) + 1 /\ w[Len(kept) + 1] = sample
  BY <1>2, <1>3
<1>5. Len(w) \in Nat /\ Len(w) > 0
  BY <1>2, <1>4
<1>6. w[Len(w)] = sample
  BY <1>4, Zenon
<1> QED
  BY <1>4, <1>5, <1>6

\* The window that execute() cuts down after a success still ends with it.
LEMMA LastOnesFacts ==
    ASSUME NEW w \in Seq(Samples), Len(w) > MinCalls * 4
    PROVE  /\ LastOnes(w) \in Seq(Samples)
           /\ LastOnes(w) # <<>>
           /\ LastOnes(w)[Len(LastOnes(w))] = w[Len(w)]
<1> USE CircuitAssumption
<1>1. CASE MinCalls = 0
  BY <1>1 DEF LastOnes
<1>2. CASE MinCalls # 0
  <2>1. /\ LastOnes(w) = SubSeq(w, Len(w) - MinCalls + 1, Len(w))
        /\ Len(w) - MinCalls + 1 \in 1..Len(w)
        /\ Len(w) \in Nat
    BY <1>2 DEF LastOnes
  <2>2. /\ LastOnes(w) \in Seq(Samples)
        /\ Len(LastOnes(w)) = MinCalls
    BY <1>2, <2>1
  <2>3. LastOnes(w)[MinCalls] = w[Len(w)]
    BY <1>2, <2>1, <2>2
  <2> QED
    BY <1>2, <2>2, <2>3
<1> QED
  BY <1>1, <1>2

------------------------------------------------------------------------------
(* The invariant *)

\* The invariant holds at first.
LEMMA InitInv == Init => IInv
<1> SUFFICES ASSUME Init PROVE IInv
  OBVIOUS
<1>1. Probes = {}
  BY DEF Init, Probes
<1>2. ProbesAreRunning
  BY <1>1, FS_EmptySet DEF ProbesAreRunning, Init
<1>3. TypeOK
  <2>1. state \in States /\ call \in [Calls -> Outside \union {"closed", "half-open"}]
    BY DEF Init, States, Outside
  <2>2. samples \in Seq(Samples)
    BY DEF Init
  <2>3. cooled \in BOOLEAN
    BY DEF Init
  <2> QED
    BY <2>1, <2>2, <2>3 DEF Init, TypeOK
<1> QED
  BY <1>2, <1>3 DEF Init, IInv, QuotaIsSet, FailuresAreJudged

\* currentState leaves a lawful circuit behind.
LEMMA PeekInv == ASSUME IInv, Peek PROVE IInv'
<1> USE CircuitAssumption DEF IInv, Peek, Flips
<1>1. /\ state' = "half-open"
      /\ halfOpenAllowed' = HalfOpenAfter
      /\ halfOpenInFlight' = 0
      /\ fresh' = {}
      /\ UNCHANGED <<samples, cooled, call>>
  BY DEF StateNow, QuotaNow, InFlightNow, FreshNow
<1>2. TypeOK'
  BY <1>1 DEF TypeOK, States
<1>3. Probes' = Probes
  BY <1>1 DEF Probes
<1>4. ProbesAreRunning'
  BY <1>1, <1>3, FS_CardinalityType DEF ProbesAreRunning
<1>5. QuotaIsSet' /\ FailuresAreJudged'
  BY <1>1 DEF QuotaIsSet, FailuresAreJudged
<1> QED
  BY <1>2, <1>4, <1>5

\* What the getter returns, whether or not it flips the circuit.
LEMMA NowFacts ==
    ASSUME IInv
    PROVE  /\ StateNow \in States
           /\ QuotaNow \in Nat
           /\ InFlightNow \in Nat
           /\ InFlightNow <= halfOpenInFlight
           /\ FreshNow \subseteq Calls
           /\ StateNow = "half-open" => QuotaNow = HalfOpenAfter
           /\ StateNow = "closed" => state = "closed"
  BY CircuitAssumption
     DEF IInv, TypeOK, QuotaIsSet, Flips, States,
         StateNow, QuotaNow, InFlightNow, FreshNow

\* A call that is let in while the circuit is closed changes nothing else.
LEMMA EnterClosedInv ==
    ASSUME IInv, NEW c \in Calls, EnterClosed(c) PROVE IInv'
<1> USE DEF IInv, EnterClosed, circuit
<1>1. TypeOK'
  BY DEF TypeOK
<1>2. Probes' = Probes
  BY DEF Probes, Outside, TypeOK
<1>3. ProbesAreRunning' /\ QuotaIsSet' /\ FailuresAreJudged'
  BY <1>2 DEF ProbesAreRunning, QuotaIsSet, FailuresAreJudged, Trips, Failures
<1> QED
  BY <1>1, <1>3

\* A probe that is let in is counted and runs.
LEMMA EnterProbeInv ==
    ASSUME IInv, NEW c \in Calls, EnterProbe(c) PROVE IInv'
<1> USE DEF IInv, EnterProbe
<1>1. TypeOK'
  BY NowFacts DEF TypeOK
<1>2. Probes' = Probes \union {c} /\ c \notin Probes
  BY DEF Probes, Outside, TypeOK
<1>3. /\ IsFiniteSet(Probes')
      /\ Cardinality(Probes') = Cardinality(Probes) + 1
      /\ Cardinality(Probes) \in Nat
  BY <1>2, FS_AddElement, FS_CardinalityType DEF ProbesAreRunning
<1>4. ProbesAreRunning'
  BY <1>3, NowFacts DEF ProbesAreRunning, TypeOK
<1>5. QuotaIsSet' /\ FailuresAreJudged'
  BY NowFacts DEF QuotaIsSet, FailuresAreJudged
<1> QED
  BY <1>1, <1>4, <1>5

\* A call that is refused may have flipped the circuit.
LEMMA RefuseInv ==
    ASSUME IInv, NEW c \in Calls, Refuse(c) PROVE IInv'
<1> USE DEF IInv, Refuse
<1>1. TypeOK'
  BY NowFacts DEF TypeOK, Outside
<1>2. Probes' = Probes
  BY DEF Probes, Outside, TypeOK
<1>3. ProbesAreRunning'
  BY <1>2, NowFacts, FS_CardinalityType DEF ProbesAreRunning, TypeOK
<1>4. QuotaIsSet' /\ FailuresAreJudged'
  BY NowFacts DEF QuotaIsSet, FailuresAreJudged
<1> QED
  BY <1>1, <1>3, <1>4

\* A probe that settles stops running and is taken off the count, if the count
\* still holds anybody.
LEMMA SettleProbeInv ==
    ASSUME IInv, NEW c \in Calls, NEW sample \in Samples,
           Settle(c, sample), SettleProbe(c, sample)
    PROVE  IInv'
<1> DEFINE left == ProbesLeft
<1> USE DEF IInv, ProbesLeft
<1>1. sample \in Samples
  OBVIOUS
<1>2. PICK w \in Windows(sample) :
          \/ sample = "failed" /\ state' = "open" /\ cooled' = FALSE /\ samples' = w
          \/ sample = "ok" /\ left = 0 /\ state' = "closed" /\ samples' = <<>> /\ UNCHANGED cooled
          \/ sample = "ok" /\ left > 0 /\ samples' = w /\ UNCHANGED <<state, cooled>>
  BY DEF SettleProbe
<1>3. /\ call[c] = "half-open"
      /\ halfOpenInFlight' = left
      /\ UNCHANGED halfOpenAllowed
      /\ call' = [call EXCEPT ![c] = "idle"]
      /\ fresh' = fresh \ {c}
  BY DEF SettleProbe, Settle
<1>4. w \in Seq(Samples) /\ w # <<>> /\ w[Len(w)] = sample
  BY <1>1, WindowFacts DEF TypeOK
<1>5. TypeOK'
  <2>1. samples' \in Seq(Samples)
    BY <1>2, <1>4, EmptyWindow, Zenon DEF TypeOK
  <2>2. state' \in States
    BY <1>2 DEF TypeOK, States
  <2>6. cooled' \in BOOLEAN
    BY <1>2, Zenon DEF TypeOK
  <2>3. left \in Nat
    BY DEF TypeOK
  <2>4. call' \in [Calls -> Outside \union {"closed", "half-open"}]
    BY <1>3 DEF TypeOK, Outside
  <2> QED
    BY <1>3, <2>1, <2>2, <2>3, <2>4, <2>6 DEF TypeOK
<1>6. Probes' = Probes \ {c} /\ c \in Probes
  BY <1>3 DEF Probes, TypeOK
<1>7. /\ IsFiniteSet(Probes')
      /\ Cardinality(Probes') = Cardinality(Probes) - 1
      /\ Cardinality(Probes') \in Nat
      /\ Cardinality(Probes) \in Nat
  BY <1>6, FS_RemoveElement, FS_CardinalityType DEF ProbesAreRunning
<1>8. ProbesAreRunning'
  BY <1>3, <1>7 DEF ProbesAreRunning, TypeOK
<1>9. QuotaIsSet'
  BY <1>2, <1>3 DEF QuotaIsSet
<1>10. FailuresAreJudged'
  <2>1. CASE sample = "failed"
    BY <1>2, <2>1 DEF FailuresAreJudged
  <2>2. CASE sample = "ok"
    BY <1>2, <1>4, <2>2 DEF FailuresAreJudged
  <2> QED
    BY <1>1, <2>1, <2>2 DEF Samples
<1> QED
  BY <1>5, <1>8, <1>9, <1>10

\* A call of the closed circuit that settles is judged in the window it leaves.
LEMMA SettleClosedInv ==
    ASSUME IInv, NEW c \in Calls, NEW sample \in Samples,
           Settle(c, sample), SettleClosed(c, sample)
    PROVE  IInv'
<1> USE DEF IInv
<1>1. sample \in Samples
  OBVIOUS
<1>2. PICK w \in Windows(sample) :
          \/ sample = "failed" /\ Trips(w) /\ state' = "open" /\ cooled' = FALSE /\ samples' = w
          \/ sample = "failed" /\ ~Trips(w) /\ samples' = w /\ UNCHANGED <<state, cooled>>
          \/ /\ sample = "ok"
             /\ samples' = IF Len(w) > MinCalls * 4 THEN LastOnes(w) ELSE w
             /\ UNCHANGED <<state, cooled>>
  BY DEF SettleClosed
<1>3. /\ call[c] = "closed"
      /\ UNCHANGED <<halfOpenInFlight, halfOpenAllowed>>
      /\ call' = [call EXCEPT ![c] = "idle"]
      /\ fresh' = fresh \ {c}
  BY DEF SettleClosed, Settle
<1>4. w \in Seq(Samples) /\ w # <<>> /\ w[Len(w)] = sample
  BY <1>1, WindowFacts DEF TypeOK
<1>5. samples' \in Seq(Samples)
  BY <1>2, <1>4, LastOnesFacts
<1>6. TypeOK'
  <2>1. state' \in States /\ cooled' \in BOOLEAN
    BY <1>2 DEF TypeOK, States
  <2>2. call' \in [Calls -> Outside \union {"closed", "half-open"}]
    BY <1>3 DEF TypeOK, Outside
  <2> QED
    BY <1>3, <1>5, <2>1, <2>2 DEF TypeOK
<1>7. Probes' = Probes
  BY <1>3 DEF Probes, TypeOK, Outside
<1>8. ProbesAreRunning'
  BY <1>3, <1>7 DEF ProbesAreRunning
<1>9. QuotaIsSet'
  BY <1>2, <1>3 DEF QuotaIsSet
<1>10. FailuresAreJudged'
  <2>1. CASE sample = "failed"
    BY <1>2, <2>1 DEF FailuresAreJudged, Trips, Failures
  <2>2. CASE sample = "ok"
    <3>1. samples' # <<>> /\ samples'[Len(samples')] = sample
      BY <1>2, <1>4, <2>2, LastOnesFacts
    <3> QED
      BY <2>2, <3>1 DEF FailuresAreJudged
  <2> QED
    BY <1>1, <2>1, <2>2 DEF Samples
<1> QED
  BY <1>6, <1>8, <1>9, <1>10

\* The admin API and the clock leave the running probes alone.
LEMMA AdminCoolInv == ASSUME IInv, Admin \/ Cool PROVE IInv'
<1> USE DEF IInv, Admin, ForceOpen, ForceClose, Reset, Cool
<1>1. TypeOK'
  <2>1. cooled' \in BOOLEAN
    <3>1. CASE Admin
      BY <3>1, Zenon
    <3>2. CASE Cool
      BY <3>2, Zenon
    <3> QED
      BY <3>1, <3>2
  <2>2. samples' \in Seq(Samples)
    BY EmptyWindow, Zenon DEF TypeOK
  <2>3. state' \in States
    BY DEF TypeOK, States
  <2> QED
    BY <2>1, <2>2, <2>3 DEF TypeOK
<1>2. UNCHANGED <<Probes, call>>
  BY DEF Probes
<1>3. ProbesAreRunning'
  BY <1>2, FS_CardinalityType DEF ProbesAreRunning
<1>4. QuotaIsSet'
  BY DEF QuotaIsSet
<1>5. FailuresAreJudged'
  BY DEF FailuresAreJudged, Trips, Failures
<1> QED
  BY <1>1, <1>3, <1>4, <1>5

\* Every step keeps the invariant.
LEMMA NextInv == IInv /\ [Next]_vars => IInv'
<1> SUFFICES ASSUME IInv, [Next]_vars PROVE IInv'
  OBVIOUS
<1>1. CASE UNCHANGED vars
  BY <1>1 DEF vars, IInv, TypeOK, ProbesAreRunning, Probes, QuotaIsSet,
              FailuresAreJudged, Trips, Failures
<1>2. CASE Peek
  BY <1>2, PeekInv
<1>3. CASE Admin \/ Cool
  BY <1>3, AdminCoolInv
<1>4. ASSUME NEW c \in Calls, CallStep(c) PROVE IInv'
  <2>1. CASE EnterClosed(c) \/ EnterProbe(c) \/ Refuse(c)
    BY <2>1, EnterClosedInv, EnterProbeInv, RefuseInv
  <2>2. ASSUME NEW sample \in Samples, Settle(c, sample) PROVE IInv'
    BY <2>2, SettleProbeInv, SettleClosedInv DEF Settle
  <2> QED
    BY <1>4, <2>1, <2>2 DEF CallStep
<1> QED
  BY <1>1, <1>2, <1>3, <1>4 DEF Next

\* The circuit's bookkeeping is right in every reachable state.
THEOREM Invariance == Spec => []IInv
  BY InitInv, NextInv, PTL DEF Spec

\* The state keeps its type.
THEOREM TypeCorrect == Spec => []TypeOK
  BY Invariance, PTL DEF IInv

\* The counter of half-open probes counts running probes only, whatever
\* stragglers, earlier half-open periods and operators do
\* (circuit-breaker.ts:101, 120, 172, 179, 215).
THEOREM ProbeCountSound == Spec => []ProbesAreRunning
  BY Invariance, PTL DEF IInv

\* A half-open circuit has its quota (circuit-breaker.ts:99-101).
THEOREM QuotaAlwaysSet == Spec => []QuotaIsSet
  BY Invariance, PTL DEF IInv

\* No recorded failure leaves a closed circuit in a window that trips
\* (circuit-breaker.ts:227-236).
THEOREM FailuresAlwaysJudged == Spec => []FailuresAreJudged
  BY Invariance, PTL DEF IInv

------------------------------------------------------------------------------
(* The default configuration: one probe at a time, stragglers and all *)

\* With a quota of one, a probe of an earlier period that settles ends the
\* current period too, so a second probe cannot slip in behind the first.
SoleProbe ==
    state = "half-open" =>
        /\ halfOpenInFlight \in {0, 1}
        /\ halfOpenInFlight = 0 => fresh = {}
        /\ \A c, d \in fresh : c = d

\* Where one probe is allowed, every step keeps it the only one.
LEMMA SoleProbeStep ==
    ASSUME HalfOpenAfter = 1, IInv, SoleProbe, [Next]_vars PROVE SoleProbe'
<1> USE DEF IInv, TypeOK, QuotaIsSet, SoleProbe
<1>1. CASE UNCHANGED vars
  BY <1>1 DEF vars
<1>2. CASE Peek
  BY <1>2 DEF Peek, Flips, InFlightNow, FreshNow
<1>3. CASE Admin \/ Cool
  BY <1>3 DEF Admin, ForceOpen, ForceClose, Reset, Cool
<1>4. ASSUME NEW c \in Calls, EnterClosed(c) \/ EnterProbe(c) \/ Refuse(c)
      PROVE  SoleProbe'
  <2>1. CASE EnterClosed(c)
    BY <2>1 DEF EnterClosed, circuit
  <2>2. CASE EnterProbe(c)
    <3>1. InFlightNow = 0 /\ FreshNow = {}
      BY <2>2 DEF EnterProbe, QuotaLeft, Flips, StateNow, QuotaNow, InFlightNow, FreshNow
    <3> QED
      BY <2>2, <3>1 DEF EnterProbe
  <2>3. CASE Refuse(c)
    BY <2>3 DEF Refuse, Flips, StateNow, InFlightNow, FreshNow
  <2> QED
    BY <1>4, <2>1, <2>2, <2>3
<1>5. ASSUME NEW c \in Calls, NEW sample \in Samples, Settle(c, sample)
      PROVE  SoleProbe'
  <2>1. fresh' \subseteq fresh
    BY <1>5 DEF Settle
  <2>2. CASE SettleProbe(c, sample)
    <3>1. CASE state = "half-open"
      <4>1. state' # "half-open"
        BY <2>2, <3>1 DEF SettleProbe, ProbesLeft
      <4> QED
        BY <4>1
    <3>2. CASE state # "half-open"
      BY <2>2, <3>2 DEF SettleProbe
    <3> QED
      BY <3>1, <3>2
  <2>3. CASE SettleClosed(c, sample)
    BY <2>1, <2>3 DEF SettleClosed
  <2> QED
    BY <1>5, <2>2, <2>3 DEF Settle
<1> QED
  BY <1>1, <1>2, <1>3, <1>4, <1>5 DEF Next, CallStep

\* circuit-breaker.ts:29: with the default quota of one, one probe of the
\* current half-open period runs at a time, in every interleaving.
THEOREM DefaultProbeLimit ==
    ASSUME HalfOpenAfter = 1 PROVE Spec => []ProbeLimit
<1>1. Init => SoleProbe
  BY DEF Init, SoleProbe
<1>2. IInv /\ SoleProbe /\ [Next]_vars => SoleProbe'
  BY SoleProbeStep
<1>3. IInv /\ SoleProbe => ProbeLimit
  <2> SUFFICES ASSUME IInv, SoleProbe, state = "half-open"
               PROVE  Cardinality(fresh) <= 1
    BY DEF ProbeLimit
  <2>1. CASE fresh = {}
    BY <2>1, FS_EmptySet
  <2>2. CASE fresh # {}
    <3>1. PICK c \in fresh : fresh = {c}
      BY <2>2 DEF SoleProbe
    <3> QED
      BY <3>1, FS_Singleton
  <2> QED
    BY <2>1, <2>2
<1> QED
  BY <1>1, <1>2, <1>3, Invariance, PTL DEF Spec

------------------------------------------------------------------------------
(* Circuits whose calls settle within `timeout` *)

PromptInv ==
    /\ IInv
    /\ fresh \subseteq Probes
    /\ Flips => Busy = {}
    /\ state = "half-open" =>
          /\ Busy = fresh
          /\ halfOpenInFlight = Cardinality(fresh)
          /\ halfOpenInFlight <= HalfOpenAfter

\* Where time does not stand between a decision and its call, every step keeps the invariant of such programs.
LEMMA PromptStep == PromptInv /\ [PromptNext]_vars => PromptInv'
<1> SUFFICES ASSUME PromptInv, [PromptNext]_vars PROVE PromptInv'
  OBVIOUS
<1> USE CircuitAssumption DEF PromptInv
<1>1. IInv'
  BY NextInv DEF PromptNext, Next
<1>2. CASE UNCHANGED vars
  BY <1>1, <1>2 DEF vars, Busy, Probes, Flips
<1>3. CASE Peek
  <2>1. fresh' = {} /\ halfOpenInFlight' = 0 /\ state' = "half-open" /\ call' = call
    BY <1>3 DEF Peek, Flips, StateNow, InFlightNow, FreshNow
  <2>2. Busy' = {}
    BY <1>3, <2>1 DEF Peek, Busy
  <2> QED
    BY <1>1, <2>1, <2>2, FS_EmptySet DEF Flips
<1>4. CASE Admin
  <2>1. UNCHANGED <<Busy, Probes, fresh>> /\ ~Flips' /\ state' # "half-open"
    BY <1>4 DEF Admin, ForceOpen, ForceClose, Reset, Busy, Probes, Flips
  <2> QED
    BY <1>1, <2>1
<1>5. CASE Busy = {} /\ Cool
  BY <1>1, <1>5 DEF Cool, Busy, Probes, Flips
<1>6. ASSUME NEW c \in Calls, EnterClosed(c) PROVE PromptInv'
  <2>1. state = "closed" /\ UNCHANGED <<state, cooled, fresh>>
    BY <1>6, NowFacts DEF EnterClosed, circuit
  <2>2. fresh' \subseteq Probes'
    BY <1>6, <2>1 DEF EnterClosed, Probes, IInv, TypeOK, Outside
  <2> QED
    BY <1>1, <2>1, <2>2 DEF Flips
<1>7. ASSUME NEW c \in Calls, EnterProbe(c) PROVE PromptInv'
  <2>1. /\ FreshNow = Busy
        /\ FreshNow \subseteq Probes
        /\ InFlightNow = Cardinality(FreshNow)
    BY <1>7, FS_EmptySet
       DEF EnterProbe, Flips, StateNow, InFlightNow, FreshNow
  <2>2. /\ fresh' = FreshNow \union {c}
        /\ Busy' = Busy \union {c}
        /\ Probes' = Probes \union {c}
        /\ c \notin FreshNow
    BY <1>7, <2>1 DEF EnterProbe, Busy, Probes, Outside, IInv, TypeOK
  <2>3. IsFiniteSet(FreshNow)
    BY <2>1, FS_Subset DEF IInv, ProbesAreRunning
  <2>4. Cardinality(fresh') = InFlightNow + 1
    BY <2>1, <2>2, <2>3, FS_AddElement
  <2>5. InFlightNow + 1 <= HalfOpenAfter
    BY <1>7, NowFacts DEF EnterProbe, QuotaLeft
  <2>6. state' = "half-open" /\ halfOpenInFlight' = InFlightNow + 1
    BY <1>7 DEF EnterProbe
  <2> QED
    BY <1>1, <2>1, <2>2, <2>4, <2>5, <2>6 DEF Flips
<1>8. ASSUME NEW c \in Calls, Refuse(c) PROVE PromptInv'
  <2>1. Busy' = Busy /\ Probes' = Probes
    BY <1>8 DEF Refuse, Busy, Probes, Outside, IInv, TypeOK
  <2>2. ~Flips'
    BY <1>8 DEF Refuse, Flips, StateNow
  <2>3. state' = "half-open" =>
          /\ FreshNow = Busy
          /\ InFlightNow = Cardinality(FreshNow)
          /\ InFlightNow <= HalfOpenAfter
    BY <1>8, FS_EmptySet
       DEF Refuse, Flips, StateNow, InFlightNow, FreshNow
  <2>4. FreshNow \subseteq Probes
    BY DEF FreshNow
  <2> QED
    BY <1>1, <1>8, <2>1, <2>2, <2>3, <2>4 DEF Refuse
<1>9. ASSUME NEW c \in Calls, NEW sample \in Samples, Settle(c, sample)
      PROVE  PromptInv'
  <2>1. /\ call[c] \in {"closed", "half-open"}
        /\ call' = [call EXCEPT ![c] = "idle"]
        /\ fresh' = fresh \ {c}
    BY <1>9 DEF Settle, SettleProbe, SettleClosed
  <2>2. /\ c \in Busy
        /\ Busy' = Busy \ {c}
        /\ Probes' = Probes \ {c}
    BY <2>1 DEF Busy, Probes, Outside, IInv, TypeOK
  <2>3. ~Flips
    BY <2>2
  <2>4. ~Flips'
    BY <1>9, <2>3 DEF Settle, SettleProbe, SettleClosed, Flips
  <2>5. ASSUME state' = "half-open"
        PROVE  /\ Busy' = fresh'
               /\ halfOpenInFlight' = Cardinality(fresh')
               /\ halfOpenInFlight' <= HalfOpenAfter
    <3>1. state = "half-open"
      BY <1>9, <2>5 DEF Settle, SettleProbe, SettleClosed
    <3>2. c \in fresh /\ call[c] = "half-open"
      BY <2>2, <3>1 DEF Probes
    <3>3. IsFiniteSet(fresh)
      BY FS_Subset DEF IInv, ProbesAreRunning
    <3>4. Cardinality(fresh') = Cardinality(fresh) - 1 /\ Cardinality(fresh) \in Nat
      BY <2>1, <3>2, <3>3, FS_RemoveElement, FS_CardinalityType
    <3>5. SettleProbe(c, sample)
      BY <1>9, <3>2 DEF Settle, SettleClosed
    <3>6. halfOpenInFlight' = halfOpenInFlight - 1
      BY <2>5, <3>1, <3>5 DEF SettleProbe, ProbesLeft, IInv, TypeOK
    <3> QED
      BY <2>1, <2>2, <3>1, <3>4, <3>6
  <2> QED
    BY <1>1, <2>1, <2>2, <2>4, <2>5
<1> QED
  BY <1>2, <1>3, <1>4, <1>5, <1>6, <1>7, <1>8, <1>9 DEF PromptNext, CallStep

\* The invariant of programs that call at once holds of all their behaviours.
THEOREM PromptInvariance == PromptSpec => []PromptInv
<1>1. Init => PromptInv
  BY InitInv DEF Init, PromptInv, Flips
<1> QED
  BY <1>1, PromptStep, PTL DEF PromptSpec

\* circuit-breaker.ts:29: when calls settle within `timeout`, no more than
\* halfOpenAfter probes of a half-open period run, for every quota.
THEOREM PromptProbeLimit == PromptSpec => []ProbeLimit
<1>1. PromptInv => ProbeLimit
  BY DEF PromptInv, ProbeLimit
<1> QED
  BY <1>1, PromptInvariance, PTL

------------------------------------------------------------------------------
(* The diagram in the header of the class *)

DiagramInv == PromptInv /\ (state # "half-open" => Probes = {})

\* Under these conditions a probe that settles was the only call under way.
LEMMA LastProbe ==
    ASSUME HalfOpenAfter = 1, DiagramInv,
           NEW c \in Calls, NEW sample \in Samples, Settle(c, sample),
           call[c] = "half-open"
    PROVE  /\ state = "half-open"
           /\ Probes' = {}
           /\ state' \in {"closed", "open"}
<1> USE DEF DiagramInv, PromptInv
<1>1. state = "half-open"
  BY DEF Probes
<1>2. c \in fresh
  BY <1>1 DEF Busy, Outside
<1>3. IsFiniteSet(fresh) /\ Cardinality(fresh) \in Nat
  BY FS_Subset, FS_CardinalityType DEF IInv, ProbesAreRunning
<1>4. /\ Cardinality(fresh \ {c}) = Cardinality(fresh) - 1
      /\ Cardinality(fresh \ {c}) \in Nat
  BY <1>2, <1>3, FS_RemoveElement, FS_CardinalityType
<1>5. Cardinality(fresh \ {c}) = 0 /\ halfOpenInFlight = 1
  BY <1>1, <1>3, <1>4
<1>6. fresh \ {c} = {}
  BY <1>3, <1>5, FS_RemoveElement, FS_EmptySet
<1>7. Busy' = Busy \ {c}
  BY DEF Settle, Busy, Outside, IInv, TypeOK
<1>8. Probes' = {}
  BY <1>1, <1>6, <1>7 DEF Probes, Busy, Outside
<1>9. state' \in {"closed", "open"}
  BY <1>5 DEF Settle, SettleProbe, SettleClosed, ProbesLeft
<1> QED
  BY <1>1, <1>8, <1>9

\* Every step is one of the diagram, or changes nothing in it.
LEMMA DiagramStep ==
    ASSUME HalfOpenAfter = 1, ~Operator, DiagramInv, [PromptNext]_vars
    PROVE  DiagramInv' /\ [Diagram!Next]_(Diagram!vars)
<1> USE CircuitAssumption DEF DiagramInv
<1>1. PromptInv'
  BY PromptStep
<1>2. CASE UNCHANGED vars
  <2>1. Probes' = Probes /\ state' = state
    BY <1>2 DEF vars, Probes
  <2> QED
    BY <1>1, <2>1 DEF Diagram!vars
<1>3. CASE Peek
  <2>1. state = "open" /\ state' = "half-open" /\ Probes' = Probes
    BY <1>3 DEF Peek, Flips, StateNow, Probes
  <2>2. (Probes' # {}) \in BOOLEAN
    OBVIOUS
  <2> QED
    BY <1>1, <2>1, <2>2 DEF Diagram!Next, Diagram!CoolOff
<1>4. CASE Admin
  BY <1>4 DEF Admin, ForceOpen, ForceClose, Reset
<1>5. CASE Busy = {} /\ Cool
  <2>1. Probes' = Probes /\ state' = state
    BY <1>5 DEF Cool, Probes
  <2> QED
    BY <1>1, <2>1 DEF Diagram!vars
<1>6. ASSUME NEW c \in Calls, EnterClosed(c)
      PROVE  DiagramInv' /\ [Diagram!Next]_(Diagram!vars)
  <2>1. Probes' = Probes /\ state' = state
    BY <1>6 DEF EnterClosed, circuit, Probes, Outside, PromptInv, IInv, TypeOK
  <2> QED
    BY <1>1, <2>1 DEF Diagram!vars
<1>7. ASSUME NEW c \in Calls, EnterProbe(c)
      PROVE  DiagramInv' /\ [Diagram!Next]_(Diagram!vars)
  <2>1. state' = "half-open" /\ Probes' = Probes \union {c}
    BY <1>7 DEF EnterProbe, Probes, Outside, PromptInv, IInv, TypeOK
  <2>2. CASE Flips
    BY <1>1, <2>1, <2>2 DEF Flips, Diagram!Next, Diagram!CoolOff
  <2>3. CASE ~Flips
    <3>1. state = "half-open" /\ halfOpenInFlight < HalfOpenAfter
      BY <1>7, <2>3
         DEF EnterProbe, QuotaLeft, StateNow, InFlightNow, QuotaNow, PromptInv,
             IInv, QuotaIsSet
    <3>2. Cardinality(fresh) = 0
      BY <3>1 DEF PromptInv, IInv, TypeOK
    <3>3. IsFiniteSet(fresh)
      BY FS_Subset DEF PromptInv, IInv, ProbesAreRunning
    <3>4. fresh = {}
      BY <3>2, <3>3, FS_EmptySet
    <3>5. Probes = {}
      BY <3>1, <3>4 DEF PromptInv, Busy, Probes, Outside
    <3> QED
      BY <1>1, <2>1, <3>1, <3>5 DEF Diagram!Next, Diagram!Probe
  <2> QED
    BY <2>2, <2>3
<1>8. ASSUME NEW c \in Calls, Refuse(c)
      PROVE  DiagramInv' /\ [Diagram!Next]_(Diagram!vars)
  <2>1. Probes' = Probes
    BY <1>8 DEF Refuse, Probes, Outside, PromptInv, IInv, TypeOK
  <2>2. CASE Flips
    <3>1. state = "open" /\ state' = "half-open"
      BY <1>8, <2>2 DEF Refuse, Flips, StateNow
    <3> QED
      BY <1>1, <2>1, <3>1 DEF Diagram!Next, Diagram!CoolOff
  <2>3. CASE ~Flips
    <3>1. state' = state
      BY <1>8, <2>3 DEF Refuse, StateNow
    <3> QED
      BY <1>1, <2>1, <3>1 DEF Diagram!vars
  <2> QED
    BY <2>2, <2>3
<1>9. ASSUME NEW c \in Calls, NEW sample \in Samples, Settle(c, sample)
      PROVE  DiagramInv' /\ [Diagram!Next]_(Diagram!vars)
  <2>1. CASE call[c] = "half-open"
    <3>1. /\ state = "half-open"
          /\ Probes' = {}
          /\ state' \in {"closed", "open"}
      BY <1>9, <2>1, LastProbe
    <3>2. Probes # {}
      BY <2>1 DEF Probes
    <3> QED
      BY <1>1, <3>1, <3>2 DEF Diagram!Next, Diagram!Verdict
  <2>2. CASE call[c] # "half-open"
    <3>1. SettleClosed(c, sample) /\ call[c] = "closed"
      BY <1>9, <2>2 DEF Settle, SettleProbe, SettleClosed
    <3>2. state # "half-open"
      BY <2>2, <3>1 DEF PromptInv, Busy, Probes, Outside
    <3>3. Probes' = {}
      BY <1>9, <3>1, <3>2 DEF Settle, Probes, PromptInv, IInv, TypeOK, Outside
    <3>4. state' = state \/ state' = "open"
      BY <3>1 DEF SettleClosed
    <3>5. state \in States
      BY DEF PromptInv, IInv, TypeOK
    <3> QED
      BY <1>1, <3>2, <3>3, <3>4, <3>5
         DEF States, Diagram!Next, Diagram!Trip, Diagram!vars
  <2> QED
    BY <2>1, <2>2
<1> QED
  BY <1>2, <1>3, <1>4, <1>5, <1>6, <1>7, <1>8, <1>9 DEF PromptNext, CallStep

\* circuit-breaker.ts:15-31: with the default quota, calls that settle within
\* `timeout` and no operator, the circuit is the machine that its header draws.
THEOREM DiagramRefinement ==
    ASSUME HalfOpenAfter = 1, ~Operator PROVE PromptSpec => ImplementsDiagram
<1>1. Init => Diagram!Init /\ DiagramInv
  <2> SUFFICES ASSUME Init PROVE Diagram!Init /\ DiagramInv
    OBVIOUS
  <2>1. Probes = {}
    BY DEF Init, Probes
  <2> QED
    BY <2>1, InitInv DEF Init, Diagram!Init, DiagramInv, PromptInv, Flips
<1>2. DiagramInv /\ [PromptNext]_vars => DiagramInv' /\ [Diagram!Next]_(Diagram!vars)
  BY DiagramStep
<1> QED
  BY <1>1, <1>2, PTL DEF PromptSpec, ImplementsDiagram, Diagram!Spec

\* The same of the part of a behaviour that the runs call "prompt" (circuit-breaker.ts:15-31).
THEOREM PromptDiagramHolds ==
    ASSUME HalfOpenAfter = 1, ~Operator PROVE PromptSpec => PromptDiagram
<1>1. PromptSpec => Diagram!Spec
  BY DiagramRefinement DEF ImplementsDiagram
<1>2. [Diagram!Next]_(Diagram!vars) =>
          [part = "prompt" => [Diagram!Next]_(Diagram!vars)]_<<part, circuitVars>>
  OBVIOUS
<1> QED
  BY <1>1, <1>2, PTL DEF Diagram!Spec, PromptDiagram

------------------------------------------------------------------------------
(* retry() *)

\* How often fn() was called, from where the loop stands.
RetryInv ==
    /\ attempts \in 1..MaxAttempts /\ attempt \in 1..attempts
    /\ at \in {"loop", "fn", "sleep", "returned", "failed"}
    /\ at = "loop" => ran = attempt - 1
    /\ at \in {"fn", "sleep"} => ran = attempt
    /\ at = "sleep" => attempt < attempts
    /\ ran \in 0..attempts

\* Each event keeps the count.
LEMMA RetryStep ==
    ASSUME RetryInv, [Retry!Next]_retryVars PROVE RetryInv'
<1> USE AttemptsAssumption DEF RetryInv
<1>1. CASE UNCHANGED retryVars
  BY <1>1 DEF retryVars
<1>2. CASE Retry!Attempt
  BY <1>2 DEF Retry!Attempt, Retry!Fail
<1>3. CASE Retry!Return
  BY <1>3 DEF Retry!Return
<1>4. ASSUME NEW retryable \in BOOLEAN, Retry!Throw(retryable) PROVE RetryInv'
  <2>1. /\ at' \in {"sleep", "failed"} /\ at = "fn"
        /\ at' = "sleep" => attempt < attempts
        /\ UNCHANGED <<attempts, attempt, ran>>
    BY <1>4 DEF Retry!Throw, Retry!Fail
  <2> QED
    BY <2>1
<1>5. CASE Retry!Wake
  BY <1>5 DEF Retry!Wake
<1>6. CASE Retry!Deadline
  BY <1>6 DEF Retry!Deadline
<1> QED
  BY <1>1, <1>2, <1>3, <1>4, <1>5, <1>6 DEF Retry!Next

\* fn() is called at most Math.max(1, cfg.attempts) times, whatever it throws and
\* whenever the deadline falls (retry.ts:111-138).
THEOREM NeverTooOften == Retry!Spec => [](ran <= attempts)
<1>1. Retry!Init => RetryInv
  BY AttemptsAssumption DEF Retry!Init, RetryInv
<1>2. RetryInv /\ [Retry!Next]_(Retry!vars) => RetryInv'
  BY RetryStep DEF Retry!vars, retryVars
<1>3. RetryInv => ran <= attempts
  BY AttemptsAssumption DEF RetryInv
<1> QED
  BY <1>1, <1>2, <1>3, PTL DEF Retry!Spec

\* No attempt begins after the deadline and no sleep outlives it (retry.ts:35-52).
THEOREM DeadlineAlwaysStops == Retry!Spec => DeadlineStops
<1>1. ASSUME [Retry!Next]_(Retry!vars)
      PROVE  [(aborted => ran' = ran) /\ (at' = "sleep" => ~aborted')]_(Retry!vars)
  <2>1. CASE Retry!Attempt
    BY <2>1 DEF Retry!Attempt, Retry!Fail
  <2>2. CASE Retry!Return \/ Retry!Wake
    BY <2>2 DEF Retry!Return, Retry!Wake
  <2>3. ASSUME NEW retryable \in BOOLEAN, Retry!Throw(retryable)
        PROVE  (aborted => ran' = ran) /\ (at' = "sleep" => ~aborted')
    BY <2>3 DEF Retry!Throw, Retry!Fail
  <2>4. CASE Retry!Deadline
    BY <2>4 DEF Retry!Deadline
  <2> QED
    BY <1>1, <2>1, <2>2, <2>3, <2>4 DEF Retry!Next
<1> QED
  BY <1>1, PTL DEF Retry!Spec, DeadlineStops, Retry!DeadlineStops

------------------------------------------------------------------------------
(* bulkhead() *)

Proven == INSTANCE BulkheadProofs

\* bulkhead.ts:10-19: a calm program gets a counting semaphore with a bounded line
\* in order of arrival.  The two instances of FairSemaphore are one specification.
THEOREM BulkheadIsSemaphore == Proven!Spec => ImplementsSemaphore
<1>1. Proven!Semaphore!Init => Bulkhead!Semaphore!Init
  BY DEF Proven!Semaphore!Init, Bulkhead!Semaphore!Init
<1>2. Proven!Semaphore!Next => Bulkhead!Semaphore!Next
  <2>1. ASSUME NEW S
        PROVE  Proven!Semaphore!Cardinality(S) = Bulkhead!Semaphore!Cardinality(S)
    BY DEF Proven!Semaphore!Cardinality, Bulkhead!Semaphore!Cardinality
  <2>2. Proven!Semaphore!InLine = Bulkhead!Semaphore!InLine
    BY DEF Proven!Semaphore!InLine, Bulkhead!Semaphore!InLine
  <2>3. ASSUME NEW c \in Callers, Proven!Semaphore!Acquire(c)
        PROVE  Bulkhead!Semaphore!Acquire(c)
    BY <2>1, <2>2, <2>3 DEF Proven!Semaphore!Acquire, Bulkhead!Semaphore!Acquire
  <2>4. ASSUME NEW c \in Callers, Proven!Semaphore!Wait(c)
        PROVE  Bulkhead!Semaphore!Wait(c)
    BY <2>1, <2>2, <2>4 DEF Proven!Semaphore!Wait, Bulkhead!Semaphore!Wait
  <2>5. ASSUME NEW c \in Callers, Proven!Semaphore!Release(c)
        PROVE  Bulkhead!Semaphore!Release(c)
    BY <2>5 DEF Proven!Semaphore!Release, Bulkhead!Semaphore!Release
  <2> QED
    BY <2>3, <2>4, <2>5 DEF Proven!Semaphore!Next, Bulkhead!Semaphore!Next
<1>3. UNCHANGED Proven!Semaphore!vars => UNCHANGED Bulkhead!Semaphore!vars
  BY DEF Proven!Semaphore!vars, Bulkhead!Semaphore!vars
<1>4. [calm => [Proven!Semaphore!Next]_(Proven!Semaphore!vars)]_(Proven!vars)
        => [calm => [Bulkhead!Semaphore!Next]_(Bulkhead!Semaphore!vars)]_(Bulkhead!vars)
  BY <1>2, <1>3 DEF Proven!vars, Bulkhead!vars
<1>5. (calm => Proven!Semaphore!Init) => (calm => Bulkhead!Semaphore!Init)
  BY <1>1
<1>6. Proven!Spec => (calm => Proven!Semaphore!Init)
  BY ConfigAssumption, Proven!CalmRefinement, PTL DEF Proven!ImplementsSemaphore
<1>7. Proven!Spec => [][calm => [Proven!Semaphore!Next]_(Proven!Semaphore!vars)]_(Proven!vars)
  BY ConfigAssumption, Proven!CalmRefinement, PTL DEF Proven!ImplementsSemaphore
<1>8. Proven!Spec => [][calm => [Bulkhead!Semaphore!Next]_(Bulkhead!Semaphore!vars)]_(Bulkhead!vars)
  BY <1>4, <1>7, PTL
<1> QED
  BY <1>5, <1>6, <1>8, PTL
     DEF ImplementsSemaphore, Bulkhead!ImplementsSemaphore
==============================================================================

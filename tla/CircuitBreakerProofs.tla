----------------------- MODULE CircuitBreakerProofs ------------------------
(***************************************************************************)
(* Proofs about CircuitBreaker, for all thresholds and any set of callers. *)
(***************************************************************************)
EXTENDS CircuitBreaker, FiniteSetTheorems, TLAPS

\* The breaker starts closed with all counts at zero.
LEMMA InvInit == Init => IInv
<1> SUFFICES ASSUME Init PROVE IInv
  OBVIOUS
<1>1. FlagsOK
  BY Zenon DEF Init, FlagsOK
<1>2. TypeOK
  BY <1>1, BreakerAssumption DEF Init, BreakerInit, TypeOK, CbStates
<1>3. FailuresOK /\ EpisodeOK /\ AgeOK
  BY BreakerAssumption
  DEF Init, BreakerInit, FailuresOK, EpisodeOK, AgeOK
<1>4. StreakOK /\ SlotsOK
  BY BreakerAssumption DEF Init, BreakerInit, StreakOK, SlotsOK, OpenEarned
<1> QED
  BY <1>2, <1>3, <1>4 DEF IInv

\* No method leaves a flag undefined.
LEMMA FlagsStep == IInv /\ [Next]_vars => FlagsOK'
<1> SUFFICES ASSUME IInv, [Next]_vars PROVE FlagsOK'
  OBVIOUS
<1> USE DEF IInv, TypeOK, FlagsOK, callers, history, events
<1>1. ASSUME NEW r \in Requests, StartClosed(r) PROVE FlagsOK'
  BY <1>1, Zenon DEF StartClosed
<1>2. ASSUME NEW r \in Requests, StartHalfOpen(r) PROVE FlagsOK'
  BY <1>2, Zenon DEF StartHalfOpen
<1>3. ASSUME NEW r \in Requests, StartProbe(r) PROVE FlagsOK'
  BY <1>3, Zenon DEF StartProbe
<1>4. CASE Rejected
  BY <1>4, Zenon DEF Rejected
<1>5. ASSUME NEW r \in Requests, Succeed(r) PROVE FlagsOK'
  BY <1>5, Zenon DEF Succeed
<1>6. ASSUME NEW r \in Requests, Fail(r) PROVE FlagsOK'
  BY <1>6, Zenon DEF Fail
<1>7. ASSUME NEW r \in Requests, Abandon(r) PROVE FlagsOK'
  BY <1>7, Zenon DEF Abandon
<1>8. CASE ResetBegin
  BY <1>8, Zenon DEF ResetBegin
<1>9. CASE ResetEnd
  BY <1>9, Zenon DEF ResetEnd
<1>10. CASE Clock
  BY <1>10, Zenon DEF Clock
<1>11. CASE StepBack
  BY <1>11, Zenon DEF StepBack
<1>12. CASE UNCHANGED vars
  BY <1>12, Zenon DEF vars
<1> HIDE DEF IInv, FlagsOK
<1> QED
  BY <1>1, <1>2, <1>3, <1>4, <1>5, <1>6, <1>7,
     <1>8, <1>9, <1>10, <1>11, <1>12
  DEF Next, Start, Report

\* No method takes a count out of its range.
LEMMA TypeStep == IInv /\ [Next]_vars => TypeOK'
<1> SUFFICES ASSUME IInv, [Next]_vars PROVE TypeOK'
  OBVIOUS
<1>0. FlagsOK'
  BY FlagsStep
<1> USE <1>0, BreakerAssumption DEF IInv, TypeOK, FailuresOK, CbStates,
        breaker, callers, history, events
<1>1. ASSUME NEW r \in Requests, StartClosed(r) PROVE TypeOK'
  BY <1>1 DEF StartClosed, AdmitClosed
<1>2. ASSUME NEW r \in Requests, StartHalfOpen(r) PROVE TypeOK'
  BY <1>2 DEF StartHalfOpen, EnterHalfOpen
<1>3. ASSUME NEW r \in Requests, StartProbe(r) PROVE TypeOK'
  BY <1>3 DEF StartProbe, AdmitProbe
<1>4. CASE Rejected
  BY <1>4 DEF Rejected, RejectProbe
<1>5. ASSUME NEW r \in Requests, Succeed(r) PROVE TypeOK'
  BY <1>5 DEF Succeed, OnSuccess
<1>6. ASSUME NEW r \in Requests, Fail(r) PROVE TypeOK'
  BY <1>6 DEF Fail, OnFailure
<1>7. ASSUME NEW r \in Requests, Abandon(r) PROVE TypeOK'
  BY <1>7 DEF Abandon
<1>8. CASE ResetBegin
  BY <1>8 DEF ResetBegin, ResetState
<1>9. CASE ResetEnd
  BY <1>9 DEF ResetEnd, ResetCounters
<1>10. CASE Clock
  BY <1>10 DEF Clock, Tick
<1>11. CASE StepBack
  BY <1>11 DEF StepBack, ClockBack
<1>12. CASE UNCHANGED vars
  BY <1>12 DEF vars
<1> HIDE DEF IInv, TypeOK
<1> QED
  BY <1>1, <1>2, <1>3, <1>4, <1>5, <1>6, <1>7,
     <1>8, <1>9, <1>10, <1>11, <1>12
  DEF Next, Start, Report

\* The failure count of a closed breaker stays below the threshold.
LEMMA FailuresStep == IInv /\ [Next]_vars => FailuresOK'
<1> SUFFICES ASSUME IInv, [Next]_vars PROVE FailuresOK'
  OBVIOUS
<1> USE BreakerAssumption DEF IInv, TypeOK, FailuresOK, breaker, callers, history, events
<1>1. ASSUME NEW r \in Requests, StartClosed(r) PROVE FailuresOK'
  BY <1>1 DEF StartClosed, AdmitClosed
<1>2. ASSUME NEW r \in Requests, StartHalfOpen(r) PROVE FailuresOK'
  BY <1>2 DEF StartHalfOpen, EnterHalfOpen
<1>3. ASSUME NEW r \in Requests, StartProbe(r) PROVE FailuresOK'
  BY <1>3 DEF StartProbe, AdmitProbe
<1>4. CASE Rejected
  BY <1>4 DEF Rejected, RejectProbe
<1>5. ASSUME NEW r \in Requests, Succeed(r) PROVE FailuresOK'
  BY <1>5 DEF Succeed, OnSuccess
<1>6. ASSUME NEW r \in Requests, Fail(r) PROVE FailuresOK'
  BY <1>6 DEF Fail, OnFailure
<1>7. ASSUME NEW r \in Requests, Abandon(r) PROVE FailuresOK'
  BY <1>7 DEF Abandon
<1>8. CASE ResetBegin
  BY <1>8 DEF ResetBegin, ResetState
<1>9. CASE ResetEnd
  BY <1>9 DEF ResetEnd, ResetCounters
<1>10. CASE Clock
  BY <1>10 DEF Clock, Tick
<1>11. CASE StepBack
  BY <1>11 DEF StepBack, ClockBack
<1>12. CASE UNCHANGED vars
  BY <1>12 DEF vars
<1> HIDE DEF IInv, FailuresOK
<1> QED
  BY <1>1, <1>2, <1>3, <1>4, <1>5, <1>6, <1>7,
     <1>8, <1>9, <1>10, <1>11, <1>12
  DEF Next, Start, Report

\* A half-open episode counts what it admits and what succeeds.
LEMMA EpisodeStep == IInv /\ [Next]_vars => EpisodeOK'
<1> SUFFICES ASSUME IInv, [Next]_vars PROVE EpisodeOK'
  OBVIOUS
<1> USE BreakerAssumption DEF IInv, TypeOK, EpisodeOK, breaker, callers, history, events
<1>1. ASSUME NEW r \in Requests, StartClosed(r) PROVE EpisodeOK'
  BY <1>1 DEF StartClosed, AdmitClosed
<1>2. ASSUME NEW r \in Requests, StartHalfOpen(r) PROVE EpisodeOK'
  BY <1>2 DEF StartHalfOpen, EnterHalfOpen
<1>3. ASSUME NEW r \in Requests, StartProbe(r) PROVE EpisodeOK'
  BY <1>3 DEF StartProbe, AdmitProbe
<1>4. CASE Rejected
  BY <1>4 DEF Rejected, RejectProbe
<1>5. ASSUME NEW r \in Requests, Succeed(r) PROVE EpisodeOK'
  BY <1>5 DEF Succeed, OnSuccess
<1>6. ASSUME NEW r \in Requests, Fail(r) PROVE EpisodeOK'
  BY <1>6 DEF Fail, OnFailure
<1>7. ASSUME NEW r \in Requests, Abandon(r) PROVE EpisodeOK'
  BY <1>7 DEF Abandon
<1>8. CASE ResetBegin
  BY <1>8 DEF ResetBegin, ResetState
<1>9. CASE ResetEnd
  BY <1>9 DEF ResetEnd, ResetCounters
<1>10. CASE Clock
  BY <1>10 DEF Clock, Tick
<1>11. CASE StepBack
  BY <1>11 DEF StepBack, ClockBack
<1>12. CASE UNCHANGED vars
  BY <1>12 DEF vars
<1> HIDE DEF IInv, EpisodeOK
<1> QED
  BY <1>1, <1>2, <1>3, <1>4, <1>5, <1>6, <1>7,
     <1>8, <1>9, <1>10, <1>11, <1>12
  DEF Next, Start, Report

\* How many requests are under way, when one comes or goes.
LEMMA RunningCount ==
    ASSUME TypeOK
    PROVE  /\ IsFiniteSet(running) /\ Cardinality(running) \in Nat
           /\ \A r : r \notin running =>
                  Cardinality(running \cup {r}) = Cardinality(running) + 1
           /\ \A r \in running :
                  Cardinality(running \ {r}) = Cardinality(running) - 1
<1>1. IsFiniteSet(running)
  BY CallersAssumption, FS_Subset DEF TypeOK
<1>2. Cardinality(running) \in Nat
  BY <1>1, FS_CardinalityType
<1> QED
  BY <1>1, <1>2, FS_AddElement, FS_RemoveElement

\* A request that is admitted takes a slot, and one that ends, other than by a
\* cancellation, is counted or ends the episode.
LEMMA SlotsStep == IInv /\ [Next]_vars => SlotsOK'
<1> SUFFICES ASSUME IInv, [Next]_vars PROVE SlotsOK'
  OBVIOUS
<1>0. /\ Cardinality(running) \in Nat
      /\ \A r : r \notin running =>
            Cardinality(running \cup {r}) = Cardinality(running) + 1
      /\ \A r \in running :
            Cardinality(running \ {r}) = Cardinality(running) - 1
  BY RunningCount DEF IInv
<1>a. /\ probes \in Nat /\ successes \in Nat /\ admitted \in Nat
      /\ SlotsOK
  BY BreakerAssumption DEF IInv, TypeOK
<1> DEFINE n == Cardinality(running)
<1>1. ASSUME NEW r \in Requests, StartClosed(r) PROVE SlotsOK'
  BY <1>1 DEF StartClosed, AdmitClosed, SlotsOK, breaker
<1>2. ASSUME NEW r \in Requests, StartHalfOpen(r) PROVE SlotsOK'
  <2>1. Cardinality(running') = n + 1
    BY <1>0, <1>2 DEF StartHalfOpen
  <2> HIDE DEF n
  <2>2. probes' = 0 /\ successes' = 0 /\ admitted' = 1
    BY <1>2 DEF StartHalfOpen, EnterHalfOpen
  <2> QED
    BY <1>0, <2>1, <2>2, BreakerAssumption DEF SlotsOK, n
<1>3. ASSUME NEW r \in Requests, StartProbe(r) PROVE SlotsOK'
  <2>1. Cardinality(running') = n + 1
    BY <1>0, <1>3 DEF StartProbe
  <2> HIDE DEF n
  <2>2. /\ state = "HalfOpen" /\ probes < MaxProbes /\ probes' = probes + 1
        /\ admitted' = admitted + 1
        /\ UNCHANGED <<state, successes, disturbed, lost>>
    BY <1>3 DEF StartProbe, AdmitProbe, events
  <2> QED
    BY <1>0, <1>a, <2>1, <2>2, BreakerAssumption DEF SlotsOK, n
<1>4. CASE Rejected
  <2>1. /\ probes >= MaxProbes /\ probes' \in {probes, probes + 1}
        /\ UNCHANGED <<state, successes, disturbed, lost, admitted, running>>
    BY <1>4 DEF Rejected, RejectProbe, events, history, callers
  <2>2. ~(probes < MaxProbes) /\ ~(probes' < MaxProbes)
    BY <1>a, <2>1, BreakerAssumption
  <2> QED
    BY <1>a, <2>1, <2>2 DEF SlotsOK
<1>5. ASSUME NEW r \in Requests, Succeed(r) PROVE SlotsOK'
  <2>1. Cardinality(running') = n - 1
    BY <1>0, <1>5 DEF Succeed
  <2> HIDE DEF n
  <2>2. /\ state' = "HalfOpen" =>
              state = "HalfOpen" /\ successes' = successes + 1
        /\ UNCHANGED <<probes, disturbed, lost, admitted>>
    BY <1>5 DEF Succeed, OnSuccess, events, breaker
  <2> QED
    BY <1>0, <1>a, <2>1, <2>2, BreakerAssumption DEF SlotsOK, n
<1>6. ASSUME NEW r \in Requests, Fail(r) PROVE SlotsOK'
  BY <1>6 DEF Fail, OnFailure, SlotsOK, breaker
<1>7. ASSUME NEW r \in Requests, Abandon(r) PROVE SlotsOK'
  BY <1>7, <1>a DEF Abandon, SlotsOK, breaker
<1>8. CASE ResetBegin
  BY <1>8 DEF ResetBegin, ResetState, SlotsOK
<1>9. CASE ResetEnd
  BY <1>9 DEF ResetEnd, SlotsOK
<1>10. CASE Clock
  BY <1>10, <1>a DEF Clock, Tick, SlotsOK, breaker, callers, events
<1>11. CASE StepBack
  BY <1>11, <1>a DEF StepBack, ClockBack, SlotsOK, callers
<1>12. CASE UNCHANGED vars
  BY <1>12, <1>a DEF vars, SlotsOK, breaker, callers, history, events
<1> QED
  BY <1>1, <1>2, <1>3, <1>4, <1>5, <1>6, <1>7,
     <1>8, <1>9, <1>10, <1>11, <1>12
  DEF Next, Start, Report

\* The failure count of a closed breaker is covered by the run of failures.
LEMMA StreakStep == IInv /\ [Next]_vars => StreakOK'
<1> SUFFICES ASSUME IInv, [Next]_vars PROVE StreakOK'
  OBVIOUS
<1> USE BreakerAssumption DEF IInv, TypeOK, FailuresOK, StreakOK, OpenEarned,
        breaker, callers, history, events
<1>1. ASSUME NEW r \in Requests, StartClosed(r) PROVE StreakOK'
  BY <1>1 DEF StartClosed, AdmitClosed
<1>2. ASSUME NEW r \in Requests, StartHalfOpen(r) PROVE StreakOK'
  BY <1>2 DEF StartHalfOpen, EnterHalfOpen
<1>3. ASSUME NEW r \in Requests, StartProbe(r) PROVE StreakOK'
  BY <1>3 DEF StartProbe, AdmitProbe
<1>4. CASE Rejected
  BY <1>4 DEF Rejected, RejectProbe
<1>5. ASSUME NEW r \in Requests, Succeed(r) PROVE StreakOK'
  BY <1>5 DEF Succeed, OnSuccess
<1>6. ASSUME NEW r \in Requests, Fail(r) PROVE StreakOK'
  BY <1>6 DEF Fail, OnFailure
<1>7. ASSUME NEW r \in Requests, Abandon(r) PROVE StreakOK'
  BY <1>7 DEF Abandon
<1>8. CASE ResetBegin
  BY <1>8 DEF ResetBegin, ResetState
<1>9. CASE ResetEnd
  BY <1>9 DEF ResetEnd, ResetCounters
<1>10. CASE Clock
  BY <1>10 DEF Clock, Tick
<1>11. CASE StepBack
  BY <1>11 DEF StepBack, ClockBack
<1>12. CASE UNCHANGED vars
  BY <1>12 DEF vars
<1> HIDE DEF IInv, StreakOK
<1> QED
  BY <1>1, <1>2, <1>3, <1>4, <1>5, <1>6, <1>7,
     <1>8, <1>9, <1>10, <1>11, <1>12
  DEF Next, Start, Report

\* Unless it is set back, the clock tells the age of the opening.
LEMMA AgeStep == IInv /\ [Next]_vars => AgeOK'
<1> SUFFICES ASSUME IInv, [Next]_vars PROVE AgeOK'
  OBVIOUS
<1> USE BreakerAssumption DEF IInv, TypeOK, AgeOK, breaker, callers, history, events
<1>1. ASSUME NEW r \in Requests, StartClosed(r) PROVE AgeOK'
  BY <1>1 DEF StartClosed, AdmitClosed
<1>2. ASSUME NEW r \in Requests, StartHalfOpen(r) PROVE AgeOK'
  BY <1>2 DEF StartHalfOpen, EnterHalfOpen
<1>3. ASSUME NEW r \in Requests, StartProbe(r) PROVE AgeOK'
  BY <1>3 DEF StartProbe, AdmitProbe
<1>4. CASE Rejected
  BY <1>4 DEF Rejected, RejectProbe
<1>5. ASSUME NEW r \in Requests, Succeed(r) PROVE AgeOK'
  BY <1>5 DEF Succeed, OnSuccess
<1>6. ASSUME NEW r \in Requests, Fail(r) PROVE AgeOK'
  BY <1>6 DEF Fail, OnFailure
<1>7. ASSUME NEW r \in Requests, Abandon(r) PROVE AgeOK'
  BY <1>7 DEF Abandon
<1>8. CASE ResetBegin
  BY <1>8 DEF ResetBegin, ResetState
<1>9. CASE ResetEnd
  BY <1>9 DEF ResetEnd, ResetCounters
<1>10. CASE Clock
  BY <1>10 DEF Clock, Tick
<1>11. CASE StepBack
  BY <1>11 DEF StepBack, ClockBack
<1>12. CASE UNCHANGED vars
  BY <1>12 DEF vars
<1> HIDE DEF IInv, AgeOK
<1> QED
  BY <1>1, <1>2, <1>3, <1>4, <1>5, <1>6, <1>7,
     <1>8, <1>9, <1>10, <1>11, <1>12
  DEF Next, Start, Report

\* The inductive invariant holds in every reachable state.
THEOREM Inductive == Spec => []IInv
<1>1. IInv /\ [Next]_vars => IInv'
  BY TypeStep, FailuresStep, EpisodeStep, SlotsStep, StreakStep, AgeStep
  DEF IInv
<1> QED
  BY InvInit, <1>1, PTL DEF Spec

\* Every count stays in its range: failure_count exceeds its threshold by one
\* at most, and only while a reset is under way.
THEOREM TypeCorrect == Spec => []TypeOK
<1>1. IInv => TypeOK
  BY DEF IInv
<1> QED
  BY Inductive, <1>1, PTL

\* A half-open episode that no late reset disturbs admits at most
\* half_open_max_requests + 1 requests, for any number of callers,
\* cancellations and steps of the clock; and if success_threshold is no more
\* than that, the breaker is never left half-open with all slots taken and
\* nobody to report, unless a request was cancelled.
THEOREM ProbesSuffice == Spec => []SlotsSuffice
<1>1. IInv => HalfOpenBound
  BY DEF IInv, EpisodeOK, HalfOpenBound
<1>2. IInv => CanDecide
  <2> SUFFICES ASSUME IInv, state = "HalfOpen", ~lost, ~disturbed,
                      SuccessThreshold <= MaxProbes + 1,
                      running = {}, ~(probes < MaxProbes)
               PROVE  FALSE
    BY DEF CanDecide
  <2>1. /\ admitted = MaxProbes + 1
        /\ admitted <= successes + Cardinality(running)
    BY DEF IInv, SlotsOK
  <2>2. Cardinality(running) = 0
    BY FS_EmptySet
  <2>3. successes \in 0..SuccessThreshold - 1
    BY DEF IInv, TypeOK
  <2> QED
    BY <2>1, <2>2, <2>3, BreakerAssumption
<1> QED
  BY Inductive, <1>1, <1>2, PTL DEF SlotsSuffice

\* Only failure_threshold failures in a row open the breaker, or one that comes
\* between the two steps of a reset.
THEOREM OpensOnFailures == Spec => []OpenEarned
<1>1. IInv => OpenEarned
  BY DEF IInv, StreakOK
<1> QED
  BY Inductive, <1>1, PTL

\* Only success_threshold successes of the current episode, or a reset, close
\* the half-open breaker.
THEOREM ClosesOnSuccesses == Spec => CloseEarned
<1> DEFINE Closing == state = "HalfOpen" /\ state' = "Closed"
                        /\ resetting' = resetting
<1>1. ASSUME IInv, [Next]_vars, Closing PROVE wins' >= SuccessThreshold
  <2> USE <1>1 DEF breaker, callers, history, events
  <2>1. ASSUME NEW r \in Requests, Succeed(r)
        PROVE  wins' >= SuccessThreshold
    BY <2>1, BreakerAssumption
    DEF Succeed, OnSuccess, IInv, TypeOK, EpisodeOK
  <2>2. ASSUME NEW r \in Requests, StartClosed(r) \/ StartHalfOpen(r)
                 \/ StartProbe(r) \/ Fail(r) \/ Abandon(r)
        PROVE  FALSE
    BY <2>2 DEF StartClosed, StartHalfOpen, StartProbe, Fail, Abandon,
         AdmitClosed, EnterHalfOpen, AdmitProbe, OnFailure
  <2>3. CASE ResetBegin \/ ResetEnd
    BY <2>3 DEF ResetBegin, ResetEnd
  <2>4. CASE Rejected \/ Clock \/ StepBack \/ UNCHANGED vars
    BY <2>4 DEF Rejected, Clock, StepBack, vars, RejectProbe, Tick, ClockBack
  <2> QED
    BY <2>1, <2>2, <2>3, <2>4 DEF Next, Start, Report
<1>2. IInv /\ [Next]_vars => [Closing => wins' >= SuccessThreshold]_vars
  BY <1>1
<1> QED
  BY Inductive, <1>2, PTL DEF Spec, CloseEarned

\* The breaker stays open for reset_timeout, unless the clock was set back to
\* before it opened.
THEOREM StaysOpen == Spec => CoolDown
<1>1. ASSUME IInv, [Next]_vars, state = "Open", state' = "HalfOpen"
      PROVE  cooled >= ResetTimeout \/ wrapped
  <2> USE <1>1 DEF breaker, callers, history, events
  <2>1. ASSUME NEW r \in Requests, StartHalfOpen(r)
        PROVE  cooled >= ResetTimeout \/ wrapped
    BY <2>1, BreakerAssumption DEF StartHalfOpen, EnterHalfOpen, IInv, AgeOK, TypeOK
  <2>2. ASSUME NEW r \in Requests, StartClosed(r) \/ StartProbe(r)
                 \/ Succeed(r) \/ Fail(r) \/ Abandon(r)
        PROVE  FALSE
    BY <2>2 DEF StartClosed, StartProbe, Succeed, Fail, Abandon,
         AdmitClosed, AdmitProbe, OnSuccess, OnFailure
  <2>3. CASE Rejected \/ ResetBegin \/ ResetEnd
    BY <2>3 DEF Rejected, ResetBegin, ResetEnd, RejectProbe, ResetState,
         ResetCounters
  <2>4. CASE Clock \/ StepBack \/ UNCHANGED vars
    BY <2>4 DEF Clock, StepBack, vars, Tick, ClockBack
  <2> QED
    BY <2>1, <2>2, <2>3, <2>4 DEF Next, Start, Report
<1>2. IInv /\ [Next]_vars =>
        [(state = "Open" /\ state' = "HalfOpen")
           => cooled >= ResetTimeout \/ wrapped]_vars
  BY <1>1
<1> QED
  BY Inductive, <1>2, PTL DEF Spec, CoolDown
=============================================================================

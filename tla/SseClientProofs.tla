-------------------------- MODULE SseClientProofs ---------------------------
(***************************************************************************)
(* Proofs about SseClient, for any number of retries, events and calls of  *)
(* close, and about SseBinding, the streams and clients of hosts, for any  *)
(* number of calls of the host, lines and bytes.                           *)
(***************************************************************************)
EXTENDS SseClient, SseBinding, FiniteSetTheorems, SequenceTheorems, TLAPS

-----------------------------------------------------------------------------
(* The inductive invariant.                                                *)

FlagsOK ==
    /\ idFirst \in BOOLEAN /\ cut \in BOOLEAN /\ half \in BOOLEAN
    /\ closing \in BOOLEAN /\ closed \in BOOLEAN /\ dropped \in BOOLEAN

CountsOK ==
    /\ pc \in PCs /\ ready \in ReadyStates
    /\ attempt \in 0..MaxRetries + 1
    /\ lastId \in 0..NumEvents /\ current \in 1..NumEvents + 1
    /\ closes \in 0..MaxCloses
    /\ delivered \in Seq(1..NumEvents)
    /\ connects \in Nat /\ late \in Nat

\* Until the loop is left, each request but the one under way has been counted
\* by an attempt, and the attempts are not used up.
BudgetOK ==
    /\ connects <= MaxRetries + 1
    /\ pc \in {"Top", "Mark", "Wait"} => connects = attempt
    /\ pc \in {"Sending", "Reading", "EndedOk", "Count"} =>
         connects = attempt + 1
    /\ pc # "Ended" => attempt <= MaxRetries

\* No signal is taken but by leaving the loop.
SignalsOK ==
    /\ cancels \in 0..closes
    /\ pc # "Ended" => cancels = closes
    /\ closing => closes > 0
    /\ closed => closes > 0

\* A late request is the last.
LateOK ==
    /\ late <= 1
    /\ late > 0 => closed \/ dropped
    /\ pc \in {"Top", "Mark", "Wait"} => late = 0

Given(e) == \E k \in 1..Len(delivered) : delivered[k] = e

\* id before content: what was given is at or before the last event id, and
\* the event that comes next is the one after it.
OrderOK ==
    (idFirst /\ ~cut) =>
        /\ \A a, b \in 1..Len(delivered) : a < b => delivered[a] < delivered[b]
        /\ \A k \in 1..Len(delivered) : delivered[k] <= lastId
        /\ pc \in {"Sending", "Reading"} =>
             IF half
             THEN /\ lastId = current
                  /\ \A k \in 1..Len(delivered) : delivered[k] < current
             ELSE lastId = current - 1

\* Content before id: the events up to the last event id, and those before the
\* one that comes next, were given to the owner.
ResumeOK ==
    ~idFirst =>
        /\ \A e \in 1..lastId : Given(e)
        /\ pc \in {"Sending", "Reading"} =>
             /\ \A e \in 1..current - 1 : Given(e)
             /\ half => Given(current)

IInv ==
    /\ FlagsOK /\ CountsOK /\ BudgetOK /\ SignalsOK /\ LateOK
    /\ OrderOK /\ ResumeOK

-----------------------------------------------------------------------------
(* It holds at the start, and every step keeps it.                         *)

\* The task starts with nothing sent, nothing read and no signal.
LEMMA InvInit == Init => IInv
<1> SUFFICES ASSUME Init PROVE IInv
  OBVIOUS
<1>1. FlagsOK
  BY Zenon DEF Init, FlagsOK
<1>2. CountsOK /\ BudgetOK /\ SignalsOK /\ LateOK
  BY SseAssumption
  DEF Init, CountsOK, BudgetOK, SignalsOK, LateOK, PCs, ReadyStates
<1>3. OrderOK
  BY DEF Init, OrderOK
<1>4. ResumeOK
  BY DEF Init, ResumeOK
<1> QED
  BY <1>1, <1>2, <1>3, <1>4 DEF IInv

\* No step leaves a flag undefined.
LEMMA FlagsStep == IInv /\ [Next]_vars => FlagsOK'
<1> SUFFICES ASSUME IInv, [Next]_vars PROVE FlagsOK'
  OBVIOUS
<1> USE DEF IInv, FlagsOK, owner, response, history
<1>1. CASE CloseBegin
  BY <1>1, Zenon DEF CloseBegin
<1>2. CASE CloseEnd
  BY <1>2, Zenon DEF CloseEnd
<1>3. CASE Drop
  BY <1>3, Zenon DEF Drop
<1>4. CASE TopCancelled
  BY <1>4, Zenon DEF TopCancelled, Leave
<1>5. CASE TopGoesOn
  BY <1>5, Zenon DEF TopGoesOn
<1>6. CASE SendRequest
  BY <1>6, Zenon DEF SendRequest, ResumePoint
<1>7. CASE ConnectFails
  BY <1>7, Zenon DEF ConnectFails
<1>8. CASE Answer204
  BY <1>8, Zenon DEF Answer204
<1>9. CASE Answer200
  BY <1>9, Zenon DEF Answer200
<1>10. CASE ReadId
  BY <1>10, Zenon DEF ReadId, Advance, AtId
<1>11. CASE ReadContent
  BY <1>11, Zenon DEF ReadContent, Advance, AtId
<1>12. CASE ReadUnwanted
  BY <1>12, Zenon DEF ReadUnwanted, AtId
<1>13. CASE StreamEnds
  BY <1>13, Zenon DEF StreamEnds
<1>14. CASE StreamEndsWithinLine
  BY <1>14, Zenon DEF StreamEndsWithinLine, AtId
<1>15. CASE StreamFails
  BY <1>15, Zenon DEF StreamFails
<1>16. CASE EndedOkCancelled
  BY <1>16, Zenon DEF EndedOkCancelled, Leave
<1>17. CASE EndedOkGoesOn
  BY <1>17, Zenon DEF EndedOkGoesOn
<1>18. CASE GiveUp
  BY <1>18, Zenon DEF GiveUp, Exhausted
<1>19. CASE BackOffCancelled
  BY <1>19, Zenon DEF BackOffCancelled, Exhausted, Signalled
<1>20. CASE BackOff
  BY <1>20, Zenon DEF BackOff, Exhausted
<1>21. CASE WaitCancelled
  BY <1>21, Zenon DEF WaitCancelled, Leave, Signalled
<1>22. CASE WaitElapsed
  BY <1>22, Zenon DEF WaitElapsed
<1>23. CASE UNCHANGED vars
  BY <1>23, Zenon DEF vars
<1> HIDE DEF IInv, FlagsOK
<1> QED
  BY <1>1, <1>2, <1>3, <1>4, <1>5, <1>6, <1>7, <1>8, <1>9, <1>10, <1>11,
     <1>12, <1>13, <1>14, <1>15, <1>16, <1>17, <1>18, <1>19, <1>20,
     <1>21, <1>22, <1>23
  DEF Next, Owner, Background, Done

\* No step takes a count or an event number out of its range.
LEMMA CountsStep == IInv /\ [Next]_vars => CountsOK'
<1> SUFFICES ASSUME IInv, [Next]_vars PROVE CountsOK'
  OBVIOUS
<1> USE SseAssumption DEF IInv, CountsOK, BudgetOK, PCs, ReadyStates,
        owner, response, history
<1>1. CASE CloseBegin
  BY <1>1 DEF CloseBegin
<1>2. CASE CloseEnd
  BY <1>2 DEF CloseEnd
<1>3. CASE Drop
  BY <1>3 DEF Drop
<1>4. CASE TopCancelled
  BY <1>4 DEF TopCancelled, Leave
<1>5. CASE TopGoesOn
  BY <1>5 DEF TopGoesOn
<1>6. CASE SendRequest
  BY <1>6 DEF SendRequest, ResumePoint
<1>7. CASE ConnectFails
  BY <1>7 DEF ConnectFails
<1>8. CASE Answer204
  BY <1>8 DEF Answer204
<1>9. CASE Answer200
  BY <1>9 DEF Answer200
<1>10. CASE ReadId
  BY <1>10 DEF ReadId, Advance, AtId
<1>11. CASE ReadContent
  BY <1>11 DEF ReadContent, Advance, AtId
<1>12. CASE ReadUnwanted
  BY <1>12 DEF ReadUnwanted, AtId
<1>13. CASE StreamEnds
  BY <1>13 DEF StreamEnds
<1>14. CASE StreamEndsWithinLine
  BY <1>14 DEF StreamEndsWithinLine, AtId
<1>15. CASE StreamFails
  BY <1>15 DEF StreamFails
<1>16. CASE EndedOkCancelled
  BY <1>16 DEF EndedOkCancelled, Leave
<1>17. CASE EndedOkGoesOn
  BY <1>17 DEF EndedOkGoesOn
<1>18. CASE GiveUp
  BY <1>18 DEF GiveUp, Exhausted
<1>19. CASE BackOffCancelled
  BY <1>19 DEF BackOffCancelled, Exhausted, Signalled
<1>20. CASE BackOff
  BY <1>20 DEF BackOff, Exhausted
<1>21. CASE WaitCancelled
  BY <1>21 DEF WaitCancelled, Leave, Signalled
<1>22. CASE WaitElapsed
  BY <1>22 DEF WaitElapsed
<1>23. CASE UNCHANGED vars
  BY <1>23 DEF vars
<1> HIDE DEF IInv, CountsOK
<1> QED
  BY <1>1, <1>2, <1>3, <1>4, <1>5, <1>6, <1>7, <1>8, <1>9, <1>10, <1>11,
     <1>12, <1>13, <1>14, <1>15, <1>16, <1>17, <1>18, <1>19, <1>20,
     <1>21, <1>22, <1>23
  DEF Next, Owner, Background, Done

\* A request is sent by SendRequest alone, and each is counted before the
\* next.
LEMMA BudgetStep == IInv /\ [Next]_vars => BudgetOK'
<1> SUFFICES ASSUME IInv, [Next]_vars PROVE BudgetOK'
  OBVIOUS
<1> USE SseAssumption DEF IInv, CountsOK, BudgetOK, owner, response, history
<1>1. CASE CloseBegin
  BY <1>1 DEF CloseBegin
<1>2. CASE CloseEnd
  BY <1>2 DEF CloseEnd
<1>3. CASE Drop
  BY <1>3 DEF Drop
<1>4. CASE TopCancelled
  BY <1>4 DEF TopCancelled, Leave
<1>5. CASE TopGoesOn
  BY <1>5 DEF TopGoesOn
<1>6. CASE SendRequest
  BY <1>6 DEF SendRequest, ResumePoint
<1>7. CASE ConnectFails
  BY <1>7 DEF ConnectFails
<1>8. CASE Answer204
  BY <1>8 DEF Answer204
<1>9. CASE Answer200
  BY <1>9 DEF Answer200
<1>10. CASE ReadId
  BY <1>10 DEF ReadId, Advance, AtId
<1>11. CASE ReadContent
  BY <1>11 DEF ReadContent, Advance, AtId
<1>12. CASE ReadUnwanted
  BY <1>12 DEF ReadUnwanted, AtId
<1>13. CASE StreamEnds
  BY <1>13 DEF StreamEnds
<1>14. CASE StreamEndsWithinLine
  BY <1>14 DEF StreamEndsWithinLine, AtId
<1>15. CASE StreamFails
  BY <1>15 DEF StreamFails
<1>16. CASE EndedOkCancelled
  BY <1>16 DEF EndedOkCancelled, Leave
<1>17. CASE EndedOkGoesOn
  BY <1>17 DEF EndedOkGoesOn
<1>18. CASE GiveUp
  BY <1>18 DEF GiveUp, Exhausted
<1>19. CASE BackOffCancelled
  BY <1>19 DEF BackOffCancelled, Exhausted, Signalled
<1>20. CASE BackOff
  BY <1>20 DEF BackOff, Exhausted
<1>21. CASE WaitCancelled
  BY <1>21 DEF WaitCancelled, Leave, Signalled
<1>22. CASE WaitElapsed
  BY <1>22 DEF WaitElapsed
<1>23. CASE UNCHANGED vars
  BY <1>23 DEF vars
<1> HIDE DEF IInv, BudgetOK
<1> QED
  BY <1>1, <1>2, <1>3, <1>4, <1>5, <1>6, <1>7, <1>8, <1>9, <1>10, <1>11,
     <1>12, <1>13, <1>14, <1>15, <1>16, <1>17, <1>18, <1>19, <1>20,
     <1>21, <1>22, <1>23
  DEF Next, Owner, Background, Done

\* A signal stays in the channel until the loop is left.
LEMMA SignalsStep == IInv /\ [Next]_vars => SignalsOK'
<1> SUFFICES ASSUME IInv, [Next]_vars PROVE SignalsOK'
  OBVIOUS
<1> USE SseAssumption DEF IInv, FlagsOK, CountsOK, SignalsOK, owner,
        response, history
<1>1. CASE CloseBegin
  BY <1>1 DEF CloseBegin
<1>2. CASE CloseEnd
  BY <1>2 DEF CloseEnd
<1>3. CASE Drop
  BY <1>3 DEF Drop
<1>4. CASE TopCancelled
  BY <1>4 DEF TopCancelled, Leave
<1>5. CASE TopGoesOn
  BY <1>5 DEF TopGoesOn
<1>6. CASE SendRequest
  BY <1>6 DEF SendRequest, ResumePoint
<1>7. CASE ConnectFails
  BY <1>7 DEF ConnectFails
<1>8. CASE Answer204
  BY <1>8 DEF Answer204
<1>9. CASE Answer200
  BY <1>9 DEF Answer200
<1>10. CASE ReadId
  BY <1>10 DEF ReadId, Advance, AtId
<1>11. CASE ReadContent
  BY <1>11 DEF ReadContent, Advance, AtId
<1>12. CASE ReadUnwanted
  BY <1>12 DEF ReadUnwanted, AtId
<1>13. CASE StreamEnds
  BY <1>13 DEF StreamEnds
<1>14. CASE StreamEndsWithinLine
  BY <1>14 DEF StreamEndsWithinLine, AtId
<1>15. CASE StreamFails
  BY <1>15 DEF StreamFails
<1>16. CASE EndedOkCancelled
  BY <1>16 DEF EndedOkCancelled, Leave
<1>17. CASE EndedOkGoesOn
  BY <1>17 DEF EndedOkGoesOn
<1>18. CASE GiveUp
  BY <1>18 DEF GiveUp, Exhausted
<1>19. CASE BackOffCancelled
  BY <1>19 DEF BackOffCancelled, Exhausted, Signalled
<1>20. CASE BackOff
  BY <1>20 DEF BackOff, Exhausted
<1>21. CASE WaitCancelled
  BY <1>21 DEF WaitCancelled, Leave, Signalled
<1>22. CASE WaitElapsed
  BY <1>22 DEF WaitElapsed
<1>23. CASE UNCHANGED vars
  BY <1>23 DEF vars
<1> HIDE DEF IInv, SignalsOK
<1> QED
  BY <1>1, <1>2, <1>3, <1>4, <1>5, <1>6, <1>7, <1>8, <1>9, <1>10, <1>11,
     <1>12, <1>13, <1>14, <1>15, <1>16, <1>17, <1>18, <1>19, <1>20,
     <1>21, <1>22, <1>23
  DEF Next, Owner, Background, Done

\* After a late request the signal, or the drop, ends the wait.
LEMMA LateStep == IInv /\ [Next]_vars => LateOK'
<1> SUFFICES ASSUME IInv, [Next]_vars PROVE LateOK'
  OBVIOUS
<1> USE SseAssumption DEF IInv, FlagsOK, CountsOK, SignalsOK, LateOK, owner,
        response, history
<1>1. CASE CloseBegin
  BY <1>1 DEF CloseBegin
<1>2. CASE CloseEnd
  BY <1>2 DEF CloseEnd
<1>3. CASE Drop
  BY <1>3 DEF Drop
<1>4. CASE TopCancelled
  BY <1>4 DEF TopCancelled, Leave
<1>5. CASE TopGoesOn
  BY <1>5 DEF TopGoesOn
<1>6. CASE SendRequest
  BY <1>6 DEF SendRequest, ResumePoint
<1>7. CASE ConnectFails
  BY <1>7 DEF ConnectFails
<1>8. CASE Answer204
  BY <1>8 DEF Answer204
<1>9. CASE Answer200
  BY <1>9 DEF Answer200
<1>10. CASE ReadId
  BY <1>10 DEF ReadId, Advance, AtId
<1>11. CASE ReadContent
  BY <1>11 DEF ReadContent, Advance, AtId
<1>12. CASE ReadUnwanted
  BY <1>12 DEF ReadUnwanted, AtId
<1>13. CASE StreamEnds
  BY <1>13 DEF StreamEnds
<1>14. CASE StreamEndsWithinLine
  BY <1>14 DEF StreamEndsWithinLine, AtId
<1>15. CASE StreamFails
  BY <1>15 DEF StreamFails
<1>16. CASE EndedOkCancelled
  BY <1>16 DEF EndedOkCancelled, Leave
<1>17. CASE EndedOkGoesOn
  BY <1>17 DEF EndedOkGoesOn
<1>18. CASE GiveUp
  BY <1>18 DEF GiveUp, Exhausted
<1>19. CASE BackOffCancelled
  BY <1>19 DEF BackOffCancelled, Exhausted, Signalled
<1>20. CASE BackOff
  BY <1>20 DEF BackOff, Exhausted
<1>21. CASE WaitCancelled
  BY <1>21 DEF WaitCancelled, Leave, Signalled
<1>22. CASE WaitElapsed
  BY <1>22 DEF WaitElapsed
<1>23. CASE UNCHANGED vars
  BY <1>23 DEF vars
<1> HIDE DEF IInv, LateOK
<1> QED
  BY <1>1, <1>2, <1>3, <1>4, <1>5, <1>6, <1>7, <1>8, <1>9, <1>10, <1>11,
     <1>12, <1>13, <1>14, <1>15, <1>16, <1>17, <1>18, <1>19, <1>20,
     <1>21, <1>22, <1>23
  DEF Next, Owner, Background, Done

\* The last event id never falls behind what was given.
LEMMA OrderStep == IInv /\ [Next]_vars => OrderOK'
<1> SUFFICES ASSUME IInv, [Next]_vars PROVE OrderOK'
  OBVIOUS
<1> USE SseAssumption DEF IInv, FlagsOK, CountsOK, OrderOK, owner, response,
        history
<1>1. CASE CloseBegin
  BY <1>1 DEF CloseBegin
<1>2. CASE CloseEnd
  BY <1>2 DEF CloseEnd
<1>3. CASE Drop
  BY <1>3 DEF Drop
<1>4. CASE TopCancelled
  BY <1>4 DEF TopCancelled, Leave
<1>5. CASE TopGoesOn
  BY <1>5 DEF TopGoesOn
<1>6. CASE SendRequest
  BY <1>6 DEF SendRequest, ResumePoint
<1>7. CASE ConnectFails
  BY <1>7 DEF ConnectFails
<1>8. CASE Answer204
  BY <1>8 DEF Answer204
<1>9. CASE Answer200
  BY <1>9 DEF Answer200
<1>10. CASE ReadId
  <2>1. UNCHANGED <<delivered, idFirst, pc, cut>> /\ lastId' = current
    BY <1>10 DEF ReadId, Advance
  <2>2. ASSUME idFirst
        PROVE  ~half /\ half' /\ current' = current
    BY <2>2, <1>10, Zenon DEF ReadId, Advance, AtId
  <2>3. ASSUME idFirst, ~cut
        PROVE  /\ lastId = current - 1
               /\ \A k \in 1..Len(delivered) : delivered[k] < current
    <3>1. lastId = current - 1
      BY <2>2, <2>3, <1>10 DEF ReadId
    <3>2. \A k \in 1..Len(delivered) :
             delivered[k] \in 1..NumEvents /\ delivered[k] <= lastId
      BY <2>3
    <3> QED
      BY <3>1, <3>2
  <2> QED
    BY <2>1, <2>2, <2>3
<1>11. CASE ReadContent
  BY <1>11 DEF ReadContent, Advance, AtId
<1>12. CASE ReadUnwanted
  BY <1>12 DEF ReadUnwanted, AtId
<1>13. CASE StreamEnds
  BY <1>13 DEF StreamEnds
<1>14. CASE StreamEndsWithinLine
  BY <1>14 DEF StreamEndsWithinLine, AtId
<1>15. CASE StreamFails
  BY <1>15 DEF StreamFails
<1>16. CASE EndedOkCancelled
  BY <1>16 DEF EndedOkCancelled, Leave
<1>17. CASE EndedOkGoesOn
  BY <1>17 DEF EndedOkGoesOn
<1>18. CASE GiveUp
  BY <1>18 DEF GiveUp, Exhausted
<1>19. CASE BackOffCancelled
  BY <1>19 DEF BackOffCancelled, Exhausted, Signalled
<1>20. CASE BackOff
  BY <1>20 DEF BackOff, Exhausted
<1>21. CASE WaitCancelled
  BY <1>21 DEF WaitCancelled, Leave, Signalled
<1>22. CASE WaitElapsed
  BY <1>22 DEF WaitElapsed
<1>23. CASE UNCHANGED vars
  BY <1>23 DEF vars
<1> HIDE DEF IInv, OrderOK
<1> QED
  BY <1>1, <1>2, <1>3, <1>4, <1>5, <1>6, <1>7, <1>8, <1>9, <1>10, <1>11,
     <1>12, <1>13, <1>14, <1>15, <1>16, <1>17, <1>18, <1>19, <1>20,
     <1>21, <1>22, <1>23
  DEF Next, Owner, Background, Done

\* The last event id is never ahead of what was given.
LEMMA ResumeStep == IInv /\ [Next]_vars => ResumeOK'
<1> SUFFICES ASSUME IInv, [Next]_vars PROVE ResumeOK'
  OBVIOUS
<1> USE SseAssumption DEF IInv, FlagsOK, CountsOK, ResumeOK, Given, owner,
        response, history
<1>1. CASE CloseBegin
  BY <1>1 DEF CloseBegin
<1>2. CASE CloseEnd
  BY <1>2 DEF CloseEnd
<1>3. CASE Drop
  BY <1>3 DEF Drop
<1>4. CASE TopCancelled
  BY <1>4 DEF TopCancelled, Leave
<1>5. CASE TopGoesOn
  BY <1>5 DEF TopGoesOn
<1>6. CASE SendRequest
  BY <1>6 DEF SendRequest, ResumePoint
<1>7. CASE ConnectFails
  BY <1>7 DEF ConnectFails
<1>8. CASE Answer204
  BY <1>8 DEF Answer204
<1>9. CASE Answer200
  BY <1>9 DEF Answer200
<1>10. CASE ReadId
  BY <1>10 DEF ReadId, Advance, AtId
<1>11. CASE ReadContent
  BY <1>11 DEF ReadContent, Advance, AtId
<1>12. CASE ReadUnwanted
  BY <1>12 DEF ReadUnwanted, AtId
<1>13. CASE StreamEnds
  BY <1>13 DEF StreamEnds
<1>14. CASE StreamEndsWithinLine
  BY <1>14 DEF StreamEndsWithinLine, AtId
<1>15. CASE StreamFails
  BY <1>15 DEF StreamFails
<1>16. CASE EndedOkCancelled
  BY <1>16 DEF EndedOkCancelled, Leave
<1>17. CASE EndedOkGoesOn
  BY <1>17 DEF EndedOkGoesOn
<1>18. CASE GiveUp
  BY <1>18 DEF GiveUp, Exhausted
<1>19. CASE BackOffCancelled
  BY <1>19 DEF BackOffCancelled, Exhausted, Signalled
<1>20. CASE BackOff
  BY <1>20 DEF BackOff, Exhausted
<1>21. CASE WaitCancelled
  BY <1>21 DEF WaitCancelled, Leave, Signalled
<1>22. CASE WaitElapsed
  BY <1>22 DEF WaitElapsed
<1>23. CASE UNCHANGED vars
  BY <1>23 DEF vars
<1> HIDE DEF IInv, ResumeOK
<1> QED
  BY <1>1, <1>2, <1>3, <1>4, <1>5, <1>6, <1>7, <1>8, <1>9, <1>10, <1>11,
     <1>12, <1>13, <1>14, <1>15, <1>16, <1>17, <1>18, <1>19, <1>20,
     <1>21, <1>22, <1>23
  DEF Next, Owner, Background, Done

-----------------------------------------------------------------------------
(* The theorems.                                                           *)

\* The inductive invariant holds in every reachable state.
THEOREM Inductive == Spec => []IInv
<1>1. IInv /\ [Next]_vars => IInv'
  BY FlagsStep, CountsStep, BudgetStep, SignalsStep, LateStep, OrderStep,
     ResumeStep
  DEF IInv
<1> QED
  BY InvInit, <1>1, PTL DEF Spec

\* Whatever the server and the network do, the task sends at most
\* max_retries + 1 requests, and attempt tells how many they were.
THEOREM RequestsBounded == Spec => []ConnectBudget
<1>1. IInv => ConnectBudget
  BY SseAssumption DEF IInv, CountsOK, BudgetOK, ConnectBudget, PCs
<1> QED
  BY Inductive, <1>1, PTL

\* close() and a drop let at most one more request out, at whichever step of
\* the task they come.
THEOREM CloseStopsSoon == Spec => []StopsSoon
<1>1. IInv => StopsSoon
  BY DEF IInv, LateOK, StopsSoon
<1> QED
  BY Inductive, <1>1, PTL

\* Across any reconnects: with the id before the content no event comes twice
\* or out of order, unless a response ended within a line; with the id after
\* the content none that the server leaves out was missed, even then.
THEOREM DeliveryAcrossReconnects == Spec => []DeliveryByLineOrder
<1>1. IInv => TypeOK
  <2> SUFFICES ASSUME IInv PROVE TypeOK
    OBVIOUS
  <2>1. cancels \in 0..MaxCloses
    BY SseAssumption DEF IInv, CountsOK, SignalsOK
  <2> QED
    BY <2>1, Zenon DEF IInv, FlagsOK, CountsOK, TypeOK
<1>2. IInv => NoDuplicates
  BY DEF IInv, OrderOK, NoDuplicates
<1>3. IInv => NoEventSkipped
  BY DEF IInv, ResumeOK, Given, NoEventSkipped
<1>4. IInv => DeliveryByLineOrder
  BY <1>1, <1>2, <1>3 DEF DeliveryByLineOrder
<1> QED
  BY Inductive, <1>4, PTL

-----------------------------------------------------------------------------
(* SseBinding: the inductive invariant of the forwarding task, the lock and *)
(* the calls of the host.                                                  *)

BoolsOK ==
    /\ marked \in BOOLEAN /\ cancel \in BOOLEAN /\ busy \in BOOLEAN
    /\ over \in BOOLEAN /\ broken \in BOOLEAN /\ torn \in BOOLEAN

\* Where the task can be, and with which event.  The handle is made when the
\* C client's "open" has been reported.
TaskOK ==
    /\ service \in {"stream", "client"} /\ binding \in {"c", "napi"}
    /\ task \in Tasks /\ event \in Events /\ lines \in 0..MaxLines
    /\ got \in Seq(Events)
    /\ nextId \in {1, 2} /\ DOMAIN registry \subseteq {Id}
    /\ task = "opening" <=> event = "open"
    /\ task \in {"reporting", "calling"} <=> event \notin {"none", "open"}
    /\ task \in {"top", "locking"} => Guarded
    /\ nextId = 2 => Guarded
    /\ Guarded => (nextId = 1 <=> task \in {"connecting", "opening"})

\* What waits for the lock is in the queue, once.
WaitersOK ==
    /\ lock \in {"nobody", "task"} \cup Ops
    /\ waiters \in Seq({"task"} \cup Ops)
    /\ \A i, j \in 1..Len(waiters) : waiters[i] = waiters[j] => i = j
    /\ \A i \in 1..Len(waiters) :
         IF waiters[i] = "task" THEN task = "locking"
         ELSE op[waiters[i]] = "waiting" /\ lock # waiters[i]
    /\ lock = "task" => task = "reading" /\ Guarded
    /\ lock \in Ops => op[lock] = "waiting"
    /\ \A o \in Ops :
         op[o] = "waiting" =>
             lock = o \/ \E i \in 1..Len(waiters) : waiters[i] = o
    /\ Guarded /\ task = "reading" => lock = "task"

\* Before there is a handle nobody calls.
OpsOK ==
    /\ op \in [Ops -> {"idle", "waiting", "returned"}]
    /\ kind \in [Ops -> Kinds]
    /\ nextId = 1 => ~marked /\ \A o \in Ops : op[o] = "idle"
    /\ \A o \in Ops : op[o] # "idle" /\ kind[o] = "destroy" => marked

\* Who has waited for a line is before the task.
WaitedOK ==
    /\ waited \in [Ops -> 0..1]
    /\ \A o \in Ops :
         /\ op[o] = "idle" => waited[o] = 0
         /\ op[o] = "waiting" /\ waited[o] = 1 =>
              /\ lock # "task"
              /\ lock = o
                 \/ \E i \in 1..Len(waiters) :
                      /\ waiters[i] = o
                      /\ \A j \in 1..Len(waiters) :
                           waiters[j] = "task" => i < j

\* The end is reported last.
EndOK ==
    /\ EndReported
    /\ task # "ended" => \A i \in DOMAIN got : got[i] # "close"

\* A late callback is the last.
CallbackOK ==
    /\ lateEvents \in 0..1
    /\ lateEvents = 1 => busy /\ marked /\ task \in {"top", "ended"}
    /\ task = "calling" /\ (\E o \in Ops : Returned(o)) => busy

\* The lines among the events.
DataCount(events) == Cardinality({i \in DOMAIN events : events[i] = "data"})

\* A line is yielded when the one before has been reported.
LinesOK ==
    /\ \E S : taken \in Seq(S)
    /\ LinesReported

BodyOK == body \in Seq(Bytes) /\ Len(body) <= MaxBytes

BindingInv ==
    /\ BoolsOK /\ TaskOK /\ WaitersOK /\ OpsOK /\ WaitedOK /\ EndOK
    /\ CallbackOK /\ LinesOK /\ BodyOK

-----------------------------------------------------------------------------
(* Queues, and counting the lines among the events.                        *)

\* A queue with one more at its end.
LEMMA QueueAppend ==
    ASSUME NEW S, NEW q \in Seq(S), NEW x \in S
    PROVE  /\ Append(q, x) \in Seq(S)
           /\ Len(Append(q, x)) = Len(q) + 1
           /\ \A i \in 1..Len(q) : Append(q, x)[i] = q[i]
           /\ Append(q, x)[Len(q) + 1] = x
           /\ Len(q) \in Nat
OBVIOUS

\* A queue without its first.
LEMMA QueueTail ==
    ASSUME NEW S, NEW q \in Seq(S), q # <<>>
    PROVE  /\ Head(q) = q[1] /\ Head(q) \in S /\ Tail(q) \in Seq(S)
           /\ Len(q) \in Nat /\ Len(q) >= 1 /\ Len(Tail(q)) = Len(q) - 1
           /\ \A i \in 1..Len(q) - 1 : Tail(q)[i] = q[i + 1]
OBVIOUS

\* An event that is told is counted if it is a line.
LEMMA CountAppend ==
    ASSUME NEW g \in Seq(Events), NEW e \in Events
    PROVE  /\ DataCount(g) \in Nat
           /\ DataCount(Append(g, e)) =
                 DataCount(g) + (IF e = "data" THEN 1 ELSE 0)
<1> DEFINE D == {i \in DOMAIN g : g[i] = "data"}
           E == {i \in DOMAIN Append(g, e) : Append(g, e)[i] = "data"}
<1>1. Len(g) \in Nat /\ DOMAIN g = 1..Len(g)
      /\ DOMAIN Append(g, e) = 1..Len(g) + 1
  OBVIOUS
<1>2. IsFiniteSet(D) /\ Cardinality(D) \in Nat
  <2>1. IsFiniteSet(1..Len(g))
    BY <1>1, FS_Interval
  <2>2. D \in SUBSET (1..Len(g))
    BY <1>1
  <2> QED
    BY <2>1, <2>2, FS_Subset, FS_CardinalityType
<1>3. E = IF e = "data" THEN D \cup {Len(g) + 1} ELSE D
  BY <1>1
<1>4. Len(g) + 1 \notin D
  BY <1>1
<1>5. Cardinality(E) = Cardinality(D) + (IF e = "data" THEN 1 ELSE 0)
  <2> HIDE DEF D, E
  <2>1. CASE e = "data"
    <3>1. Cardinality(D \cup {Len(g) + 1}) = Cardinality(D) + 1
      BY <1>2, <1>4, FS_AddElement
    <3> QED
      BY <2>1, <3>1, <1>3
  <2>2. CASE e # "data"
    BY <2>2, <1>2, <1>3
  <2> QED
    BY <2>1, <2>2
<1> QED
  BY <1>2, <1>5 DEF DataCount

-----------------------------------------------------------------------------
(* It holds at the start, and every step keeps it.                         *)

\* The task connects, with no line, no op and no handle.
LEMMA BindingInvInit == BindingInit => BindingInv
<1> SUFFICES ASSUME BindingInit PROVE BindingInv
  OBVIOUS
<1> USE SseBindingAssumption, BytesAssumption
    DEF BindingInit, StreamInit, RegistryInit
<1>1. BoolsOK
  BY Zenon DEF BoolsOK
<1>2. TaskOK
  BY DEF TaskOK, Tasks, Events, Guarded
<1>3. WaitersOK
  BY DEF WaitersOK, Guarded
<1>4. OpsOK
  BY DEF OpsOK, Kinds
<1>5. WaitedOK
  BY DEF WaitedOK
<1>6. EndOK
  BY DEF EndOK, EndReported
<1>7. CallbackOK
  BY DEF CallbackOK, Returned
<1>8. LinesOK
  <2>1. {i \in DOMAIN got : got[i] = "data"} = {}
    OBVIOUS
  <2>2. Len(taken) = 0 /\ taken \in Seq(Bytes)
    OBVIOUS
  <2> QED
    BY <2>1, <2>2, FS_EmptySet DEF LinesOK, LinesReported
<1>9. BodyOK
  BY DEF BodyOK
<1> QED
  BY <1>1, <1>2, <1>3, <1>4, <1>5, <1>6, <1>7, <1>8, <1>9 DEF BindingInv

\* The lock goes to who came first: the task only if it waits for it.
LEMMA GrantTask ==
    ASSUME BindingInv, Grant
    PROVE  /\ task' = task \/ (task = "locking" /\ task' = "reading")
           /\ lock = "nobody" /\ lock' = waiters[1]
           /\ lock' \in {"task"} \cup Ops
           /\ lock' = "task" <=> (task = "locking" /\ task' = "reading")
           /\ lock' = "task" => Guarded
           /\ waiters' \in Seq({"task"} \cup Ops)
           /\ Len(waiters) \in Nat /\ Len(waiters) >= 1
           /\ Len(waiters') = Len(waiters) - 1
           /\ \A i \in 1..Len(waiters') : waiters'[i] = waiters[i + 1]
<1> DEFINE S == {"task"} \cup Ops
<1>1. waiters \in Seq(S) /\ waiters # <<>> /\ lock = "nobody"
      /\ lock' = Head(waiters) /\ waiters' = Tail(waiters)
      /\ task' = IF lock' = "task" THEN "reading" ELSE task
  BY DEF Grant, BindingInv, WaitersOK
<1>2. /\ lock' = waiters[1] /\ lock' \in S /\ waiters' \in Seq(S)
      /\ Len(waiters) \in Nat /\ Len(waiters) >= 1
      /\ Len(waiters') = Len(waiters) - 1
      /\ \A i \in 1..Len(waiters') : waiters'[i] = waiters[i + 1]
  <2> HIDE DEF S
  <2> QED
    BY <1>1, QueueTail
<1>3. lock' = "task" => task = "locking" /\ Guarded
  <2>1. \A i \in 1..Len(waiters) : waiters[i] = "task" => task = "locking"
    BY DEF BindingInv, WaitersOK
  <2>2. 1 \in 1..Len(waiters)
    BY <1>2
  <2> QED
    BY <1>2, <2>1, <2>2 DEF BindingInv, TaskOK
<1> QED
  BY <1>1, <1>2, <1>3

\* Flags stay flags.
LEMMA BoolsStep == BindingInv /\ [BindingNext]_bindingVars => BoolsOK'
<1> SUFFICES ASSUME BindingInv, [BindingNext]_bindingVars PROVE BoolsOK'
  OBVIOUS
<1> USE DEF BindingInv, BoolsOK, streamVars, handleVars, rigid, locking,
        hosted,
        hostHistory
<1>1. CASE ConnectErr
  BY <1>1, Zenon DEF ConnectErr, Report
<1>2. CASE ConnectOk
  BY <1>2, Zenon DEF ConnectOk
<1>3. CASE Opened
  BY <1>3, Zenon DEF Opened, Insert, InsertWithId, TakeId
<1>4. CASE Top
  BY <1>4, Zenon DEF Top
<1>5. CASE Grant
  BY <1>5, Zenon DEF Grant
<1>6. ASSUME NEW e \in {"data", "error"}, ClientLine(e) PROVE BoolsOK'
  BY <1>6, Zenon DEF ClientLine, Report, Release, CountLine
<1>7. CASE ClientEnds
  BY <1>7, Zenon DEF ClientEnds, Report, Release, CountLine
<1>8. CASE StreamData
  BY <1>8, Zenon DEF StreamData, TakeLine, Report
<1>9. CASE StreamError
  BY <1>9, Zenon DEF StreamError, ReadFails, Report
<1>10. CASE StreamOver
  BY <1>10, Zenon DEF StreamOver, NothingLeft, Report
<1>11. CASE Network
  BY <1>11, Zenon DEF Network, BodyEnds, Chunk, Gather
<1>12. CASE Check
  BY <1>12, Zenon DEF Check
<1>13. CASE Callback
  BY <1>13, Zenon DEF Callback, After
<1>14. CASE Cancelled
  BY <1>14, Zenon DEF Cancelled, Report
<1>15. CASE NapiClose
  BY <1>15, Zenon DEF NapiClose
<1>16. ASSUME NEW o \in Ops, NEW k \in Kinds, Call(o, k) PROVE BoolsOK'
  BY <1>16, Zenon DEF Call, Has, Issued
<1>17. ASSUME NEW o \in Ops, Perform(o) PROVE BoolsOK'
  BY <1>17, Zenon DEF Perform, RemoveId
<1>18. CASE UNCHANGED bindingVars
  BY <1>18, Zenon DEF bindingVars
<1> HIDE DEF BindingInv, BoolsOK
<1> QED
  BY <1>1, <1>2, <1>3, <1>4, <1>5, <1>6, <1>7, <1>8, <1>9, <1>10, <1>11,
     <1>12, <1>13, <1>14, <1>15, <1>16, <1>17, <1>18
  DEF BindingNext, Forward, Server

\* A chunk keeps the body within its bound.
LEMMA BodyStep == BindingInv /\ [BindingNext]_bindingVars => BodyOK'
<1> SUFFICES ASSUME BindingInv, [BindingNext]_bindingVars PROVE BodyOK'
  OBVIOUS
<1> USE BytesAssumption
        DEF BindingInv, BodyOK, streamVars, handleVars, rigid, locking,
        hosted,
        hostHistory
<1>1. CASE ConnectErr
  BY <1>1 DEF ConnectErr, Report
<1>2. CASE ConnectOk
  BY <1>2 DEF ConnectOk
<1>3. CASE Opened
  BY <1>3 DEF Opened, Insert, InsertWithId, TakeId
<1>4. CASE Top
  BY <1>4 DEF Top
<1>5. CASE Grant
  BY <1>5 DEF Grant
<1>6. ASSUME NEW e \in {"data", "error"}, ClientLine(e) PROVE BodyOK'
  BY <1>6 DEF ClientLine, Report, Release, CountLine
<1>7. CASE ClientEnds
  BY <1>7 DEF ClientEnds, Report, Release, CountLine
<1>8. CASE StreamData
  BY <1>8 DEF StreamData, TakeLine, Report
<1>9. CASE StreamError
  BY <1>9 DEF StreamError, ReadFails, Report
<1>10. CASE StreamOver
  BY <1>10 DEF StreamOver, NothingLeft, Report
<1>11. CASE Network
  <2>1. CASE BodyEnds
    BY <1>11, <2>1 DEF Network, BodyEnds
  <2>2. ASSUME NEW bytes \in Chunks, Chunk(bytes) PROVE BodyOK'
    <3>1. PICK n \in 1..(MaxBytes - Len(body)) : bytes \in [1..n -> Bytes]
      BY DEF Chunks
    <3>2. Len(body) \in Nat
      OBVIOUS
    <3>3. n \in Nat /\ Len(body) + n <= MaxBytes
      BY <3>1, <3>2
    <3>4. bytes \in Seq(Bytes) /\ Len(bytes) = n
      BY <3>1, <3>3
    <3>5. body \o bytes \in Seq(Bytes)
          /\ Len(body \o bytes) = Len(body) + Len(bytes)
      BY <3>4
    <3>6. body' = body \o bytes
      BY <2>2 DEF Chunk
    <3> QED
      BY <3>3, <3>4, <3>5, <3>6
  <2> QED
    BY <1>11, <2>1, <2>2 DEF Network
<1>12. CASE Check
  BY <1>12 DEF Check
<1>13. CASE Callback
  BY <1>13 DEF Callback, After
<1>14. CASE Cancelled
  BY <1>14 DEF Cancelled, Report
<1>15. CASE NapiClose
  BY <1>15 DEF NapiClose
<1>16. ASSUME NEW o \in Ops, NEW k \in Kinds, Call(o, k) PROVE BodyOK'
  BY <1>16 DEF Call, Has, Issued
<1>17. ASSUME NEW o \in Ops, Perform(o) PROVE BodyOK'
  BY <1>17 DEF Perform, RemoveId
<1>18. CASE UNCHANGED bindingVars
  BY <1>18 DEF bindingVars
<1> HIDE DEF BindingInv, BodyOK
<1> QED
  BY <1>1, <1>2, <1>3, <1>4, <1>5, <1>6, <1>7, <1>8, <1>9, <1>10, <1>11,
     <1>12, <1>13, <1>14, <1>15, <1>16, <1>17, <1>18
  DEF BindingNext, Forward, Server

\* Each event is taken up by the task and put down when it has been reported.
LEMMA TaskStep == BindingInv /\ [BindingNext]_bindingVars => TaskOK'
<1> SUFFICES ASSUME BindingInv, [BindingNext]_bindingVars PROVE TaskOK'
  OBVIOUS
<1> USE SseBindingAssumption
        DEF BindingInv, BoolsOK, TaskOK, WaitersOK, OpsOK, Tasks, Events,
        Guarded, Id,
        streamVars, handleVars, rigid, locking, hosted, hostHistory
<1>1. CASE ConnectErr
  BY <1>1 DEF ConnectErr, Report
<1>2. CASE ConnectOk
  BY <1>2 DEF ConnectOk
<1>3. CASE Opened
  BY <1>3 DEF Opened, Insert, InsertWithId, TakeId
<1>4. CASE Top
  BY <1>4 DEF Top
<1>5. CASE Grant
  BY <1>5 DEF Grant
<1>6. ASSUME NEW e \in {"data", "error"}, ClientLine(e) PROVE TaskOK'
  BY <1>6 DEF ClientLine, Report, Release, CountLine
<1>7. CASE ClientEnds
  BY <1>7 DEF ClientEnds, Report, Release, CountLine
<1>8. CASE StreamData
  BY <1>8 DEF StreamData, TakeLine, Report
<1>9. CASE StreamError
  BY <1>9 DEF StreamError, ReadFails, Report
<1>10. CASE StreamOver
  BY <1>10 DEF StreamOver, NothingLeft, Report
<1>11. CASE Network
  BY <1>11 DEF Network
<1>12. CASE Check
  BY <1>12 DEF Check
<1>13. CASE Callback
  BY <1>13 DEF Callback, After
<1>14. CASE Cancelled
  BY <1>14 DEF Cancelled, Report
<1>15. CASE NapiClose
  BY <1>15 DEF NapiClose
<1>16. ASSUME NEW o \in Ops, NEW k \in Kinds, Call(o, k) PROVE TaskOK'
  BY <1>16 DEF Call, Has, Issued
<1>17. ASSUME NEW o \in Ops, Perform(o) PROVE TaskOK'
  BY <1>17 DEF Perform, RemoveId
<1>18. CASE UNCHANGED bindingVars
  BY <1>18 DEF bindingVars
<1> HIDE DEF BindingInv, TaskOK
<1> QED
  BY <1>1, <1>2, <1>3, <1>4, <1>5, <1>6, <1>7, <1>8, <1>9, <1>10, <1>11,
     <1>12, <1>13, <1>14, <1>15, <1>16, <1>17, <1>18
  DEF BindingNext, Forward, Server

\* An op is called on a handle, and destroy marks it first.
LEMMA OpsStep == BindingInv /\ [BindingNext]_bindingVars => OpsOK'
<1> SUFFICES ASSUME BindingInv, [BindingNext]_bindingVars PROVE OpsOK'
  OBVIOUS
<1> USE SseBindingAssumption
        DEF BindingInv, TaskOK, WaitersOK, OpsOK, Guarded, Kinds, streamVars,
        handleVars, rigid, locking, hosted, hostHistory
<1>1. CASE ConnectErr
  BY <1>1 DEF ConnectErr, Report
<1>2. CASE ConnectOk
  BY <1>2 DEF ConnectOk
<1>3. CASE Opened
  BY <1>3 DEF Opened, Insert, InsertWithId, TakeId
<1>4. CASE Top
  BY <1>4 DEF Top
<1>5. CASE Grant
  BY <1>5 DEF Grant
<1>6. ASSUME NEW e \in {"data", "error"}, ClientLine(e) PROVE OpsOK'
  BY <1>6 DEF ClientLine, Report, Release, CountLine
<1>7. CASE ClientEnds
  BY <1>7 DEF ClientEnds, Report, Release, CountLine
<1>8. CASE StreamData
  BY <1>8 DEF StreamData, TakeLine, Report
<1>9. CASE StreamError
  BY <1>9 DEF StreamError, ReadFails, Report
<1>10. CASE StreamOver
  BY <1>10 DEF StreamOver, NothingLeft, Report
<1>11. CASE Network
  BY <1>11 DEF Network
<1>12. CASE Check
  BY <1>12 DEF Check
<1>13. CASE Callback
  BY <1>13 DEF Callback, After
<1>14. CASE Cancelled
  BY <1>14 DEF Cancelled, Report
<1>15. CASE NapiClose
  BY <1>15 DEF NapiClose
<1>16. ASSUME NEW o \in Ops, NEW k \in Kinds, Call(o, k) PROVE OpsOK'
  <2>1. op' \in [Ops -> {"idle", "waiting", "returned"}]
        /\ kind' \in [Ops -> Kinds] /\ nextId' = nextId /\ nextId # 1
    BY <1>16 DEF Call, Issued, Id
  <2>2. /\ \A p \in Ops \ {o} : op'[p] = op[p] /\ kind'[p] = kind[p]
        /\ kind'[o] = k
    BY <1>16 DEF Call
  <2>3. marked' <=> (marked \/ k = "destroy")
    BY <1>16 DEF Call
  <2> QED
    BY <2>1, <2>2, <2>3
<1>17. ASSUME NEW o \in Ops, Perform(o) PROVE OpsOK'
  BY <1>17 DEF Perform, RemoveId
<1>18. CASE UNCHANGED bindingVars
  BY <1>18 DEF bindingVars
<1> HIDE DEF BindingInv, OpsOK
<1> QED
  BY <1>1, <1>2, <1>3, <1>4, <1>5, <1>6, <1>7, <1>8, <1>9, <1>10, <1>11,
     <1>12, <1>13, <1>14, <1>15, <1>16, <1>17, <1>18
  DEF BindingNext, Forward, Server

\* Who waits is queued at the end and served from the front.
LEMMA WaitersStep == BindingInv /\ [BindingNext]_bindingVars => WaitersOK'
<1> SUFFICES ASSUME BindingInv, [BindingNext]_bindingVars PROVE WaitersOK'
  OBVIOUS
<1> USE SseBindingAssumption
        DEF BindingInv, TaskOK, WaitersOK, OpsOK, Guarded, streamVars,
        handleVars,
        rigid, locking, hosted, hostHistory
<1>1. CASE ConnectErr
  BY <1>1 DEF ConnectErr, Report
<1>2. CASE ConnectOk
  BY <1>2 DEF ConnectOk
<1>3. CASE Opened
  BY <1>3 DEF Opened, Insert, InsertWithId, TakeId
<1>4. CASE Top
  <2>1. CASE marked
    BY <1>4, <2>1 DEF Top
  <2>2. CASE ~marked
    <3>1. waiters' = Append(waiters, "task") /\ task' = "locking"
      BY <1>4, <2>2 DEF Top
    <3>2. /\ waiters' \in Seq({"task"} \cup Ops)
          /\ Len(waiters') = Len(waiters) + 1
          /\ \A i \in 1..Len(waiters) : waiters'[i] = waiters[i]
          /\ waiters'[Len(waiters) + 1] = "task"
          /\ Len(waiters) \in Nat
      <4> DEFINE S == {"task"} \cup Ops
      <4>1. waiters \in Seq(S) /\ "task" \in S
        OBVIOUS
      <4> HIDE DEF S
      <4>2. /\ waiters' \in Seq(S)
            /\ Len(waiters') = Len(waiters) + 1
            /\ \A i \in 1..Len(waiters) : waiters'[i] = waiters[i]
            /\ waiters'[Len(waiters) + 1] = "task"
            /\ Len(waiters) \in Nat
        BY <3>1, <4>1, QueueAppend
      <4> QED
        BY <4>2 DEF S
    <3>3. UNCHANGED <<op, lock, rigid, nextId, waited>> /\ task = "top"
      BY <1>4 DEF Top
    <3>4. \A i \in 1..Len(waiters) : waiters[i] # "task"
      BY <3>3
    <3>5. \A i \in 1..Len(waiters') :
             i \in 1..Len(waiters) \/ i = Len(waiters) + 1
      BY <3>2
    <3>6. \A i, j \in 1..Len(waiters') : waiters'[i] = waiters'[j] => i = j
      BY <3>2, <3>4, <3>5
    <3>7. \A i \in 1..Len(waiters') :
             IF waiters'[i] = "task" THEN task' = "locking"
             ELSE op'[waiters'[i]] = "waiting" /\ lock' # waiters'[i]
      BY <3>1, <3>2, <3>3, <3>5
    <3>8. \A o \in Ops :
             op'[o] = "waiting" =>
                 lock' = o \/ \E i \in 1..Len(waiters') : waiters'[i] = o
      BY <3>2, <3>3
    <3>9. lock' # "task" /\ (lock' \in Ops => op'[lock'] = "waiting")
      BY <3>3
    <3> QED
      BY <3>1, <3>2, <3>3, <3>6, <3>7, <3>8, <3>9
  <2> QED
    BY <2>1, <2>2
<1>5. CASE Grant
  <2>1. UNCHANGED <<op, rigid, nextId, waited>>
    BY <1>5 DEF Grant
  <2>2. /\ lock' = waiters[1] /\ lock' \in {"task"} \cup Ops
        /\ lock' = "task" <=> (task = "locking" /\ task' = "reading")
        /\ lock' = "task" => Guarded
        /\ task' = task \/ (task = "locking" /\ task' = "reading")
        /\ waiters' \in Seq({"task"} \cup Ops)
        /\ Len(waiters) \in Nat /\ Len(waiters) >= 1
        /\ Len(waiters') = Len(waiters) - 1
        /\ \A i \in 1..Len(waiters') : waiters'[i] = waiters[i + 1]
        /\ lock = "nobody"
    BY <1>5, GrantTask
  <2>3. \A i \in 1..Len(waiters') :
           i + 1 \in 1..Len(waiters) /\ waiters'[i] = waiters[i + 1]
           /\ waiters[i + 1] # waiters[1]
    BY <2>2
  <2>4. \A i, j \in 1..Len(waiters') : waiters'[i] = waiters'[j] => i = j
    BY <2>2, <2>3
  <2>5. \A i \in 1..Len(waiters') :
           IF waiters'[i] = "task" THEN task' = "locking"
           ELSE op'[waiters'[i]] = "waiting" /\ lock' # waiters'[i]
    BY <2>1, <2>2, <2>3
  <2>6. lock' \in Ops => op'[lock'] = "waiting"
    BY <2>1, <2>2
  <2>7. \A o \in Ops :
           op'[o] = "waiting" =>
               lock' = o \/ \E i \in 1..Len(waiters') : waiters'[i] = o
    <3> SUFFICES ASSUME NEW o \in Ops, op'[o] = "waiting", lock' # o
                 PROVE  \E i \in 1..Len(waiters') : waiters'[i] = o
      OBVIOUS
    <3>1. PICK i \in 1..Len(waiters) : waiters[i] = o
      BY <2>1, <2>2
    <3>2. i - 1 \in 1..Len(waiters') /\ waiters'[i - 1] = waiters[(i - 1) + 1]
      BY <2>2, <3>1
    <3> QED
      BY <3>1, <3>2
  <2>8. Guarded' <=> Guarded
    BY <2>1
  <2> QED
    BY <2>1, <2>2, <2>4, <2>5, <2>6, <2>7, <2>8
<1>6. ASSUME NEW e \in {"data", "error"}, ClientLine(e) PROVE WaitersOK'
  BY <1>6 DEF ClientLine, Report, Release, CountLine
<1>7. CASE ClientEnds
  BY <1>7 DEF ClientEnds, Report, Release, CountLine
<1>8. CASE StreamData
  BY <1>8 DEF StreamData, TakeLine, Report
<1>9. CASE StreamError
  BY <1>9 DEF StreamError, ReadFails, Report
<1>10. CASE StreamOver
  BY <1>10 DEF StreamOver, NothingLeft, Report
<1>11. CASE Network
  BY <1>11 DEF Network
<1>12. CASE Check
  BY <1>12 DEF Check
<1>13. CASE Callback
  BY <1>13 DEF Callback, After
<1>14. CASE Cancelled
  BY <1>14 DEF Cancelled, Report
<1>15. CASE NapiClose
  BY <1>15 DEF NapiClose
<1>16. ASSUME NEW o \in Ops, NEW k \in Kinds, Call(o, k) PROVE WaitersOK'
  <2>1. CASE ~Has(Id)
    BY <1>16, <2>1 DEF Call, Issued, Id
  <2>2. CASE Has(Id)
    <3>1. waiters' = Append(waiters, o)
          /\ op' = [op EXCEPT ![o] = "waiting"] /\ op[o] = "idle"
      BY <1>16, <2>2 DEF Call
    <3>2. /\ waiters' \in Seq({"task"} \cup Ops)
          /\ Len(waiters') = Len(waiters) + 1
          /\ \A i \in 1..Len(waiters) : waiters'[i] = waiters[i]
          /\ waiters'[Len(waiters) + 1] = o
          /\ Len(waiters) \in Nat
      <4> DEFINE S == {"task"} \cup Ops
      <4>1. waiters \in Seq(S) /\ o \in S
        OBVIOUS
      <4> HIDE DEF S
      <4>2. /\ waiters' \in Seq(S)
            /\ Len(waiters') = Len(waiters) + 1
            /\ \A i \in 1..Len(waiters) : waiters'[i] = waiters[i]
            /\ waiters'[Len(waiters) + 1] = o
            /\ Len(waiters) \in Nat
        BY <3>1, <4>1, QueueAppend
      <4> QED
        BY <4>2 DEF S
    <3>3. UNCHANGED <<task, lock, rigid, nextId, waited>>
      BY <1>16 DEF Call
    <3>4. /\ op'[o] = "waiting" /\ \A p \in Ops \ {o} : op'[p] = op[p]
      BY <3>1
    <3>5. lock # o /\ \A i \in 1..Len(waiters) : waiters[i] # o
      BY <3>1
    <3>6. \A i \in 1..Len(waiters') :
             i \in 1..Len(waiters) \/ i = Len(waiters) + 1
      BY <3>2
    <3>7. \A i, j \in 1..Len(waiters') : waiters'[i] = waiters'[j] => i = j
      BY <3>2, <3>5, <3>6
    <3>8. \A i \in 1..Len(waiters') :
             IF waiters'[i] = "task" THEN task' = "locking"
             ELSE op'[waiters'[i]] = "waiting" /\ lock' # waiters'[i]
      <4>1. o # "task"
        OBVIOUS
      <4> QED
        BY <3>2, <3>3, <3>4, <3>5, <3>6, <4>1
    <3>9. \A p \in Ops :
             op'[p] = "waiting" =>
                 lock' = p \/ \E i \in 1..Len(waiters') : waiters'[i] = p
      BY <3>2, <3>3, <3>4
    <3>10. lock' \in Ops => op'[lock'] = "waiting"
      BY <3>3, <3>4, <3>5
    <3> QED
      BY <3>2, <3>3, <3>7, <3>8, <3>9, <3>10
  <2> QED
    BY <2>1, <2>2
<1>17. ASSUME NEW o \in Ops, Perform(o) PROVE WaitersOK'
  BY <1>17 DEF Perform, RemoveId
<1>18. CASE UNCHANGED bindingVars
  BY <1>18 DEF bindingVars
<1> HIDE DEF BindingInv, WaitersOK
<1> QED
  BY <1>1, <1>2, <1>3, <1>4, <1>5, <1>6, <1>7, <1>8, <1>9, <1>10, <1>11,
     <1>12, <1>13, <1>14, <1>15, <1>16, <1>17, <1>18
  DEF BindingNext, Forward, Server

\* The task queues behind who has waited for its line.
LEMMA WaitedStep == BindingInv /\ [BindingNext]_bindingVars => WaitedOK'
<1> SUFFICES ASSUME BindingInv, [BindingNext]_bindingVars PROVE WaitedOK'
  OBVIOUS
<1> USE SseBindingAssumption
        DEF BindingInv, TaskOK, WaitersOK, OpsOK, WaitedOK, Guarded,
        streamVars,
        handleVars, rigid, locking, hosted, hostHistory
<1>1. CASE ConnectErr
  BY <1>1 DEF ConnectErr, Report
<1>2. CASE ConnectOk
  BY <1>2 DEF ConnectOk
<1>3. CASE Opened
  BY <1>3 DEF Opened, Insert, InsertWithId, TakeId
<1>4. CASE Top
  <2>1. CASE marked
    BY <1>4, <2>1 DEF Top
  <2>2. CASE ~marked
    <3>1. waiters' = Append(waiters, "task") /\ task' = "locking"
      BY <1>4, <2>2 DEF Top
    <3>2. /\ waiters' \in Seq({"task"} \cup Ops)
          /\ Len(waiters') = Len(waiters) + 1
          /\ \A i \in 1..Len(waiters) : waiters'[i] = waiters[i]
          /\ waiters'[Len(waiters) + 1] = "task"
          /\ Len(waiters) \in Nat
      <4> DEFINE S == {"task"} \cup Ops
      <4>1. waiters \in Seq(S) /\ "task" \in S
        OBVIOUS
      <4> HIDE DEF S
      <4>2. /\ waiters' \in Seq(S)
            /\ Len(waiters') = Len(waiters) + 1
            /\ \A i \in 1..Len(waiters) : waiters'[i] = waiters[i]
            /\ waiters'[Len(waiters) + 1] = "task"
            /\ Len(waiters) \in Nat
        BY <3>1, <4>1, QueueAppend
      <4> QED
        BY <4>2 DEF S
    <3>3. UNCHANGED <<op, lock, rigid, nextId, waited>> /\ task = "top"
      BY <1>4 DEF Top
    <3>4. \A i \in 1..Len(waiters) : waiters[i] # "task"
      BY <3>3
    <3>5. \A i \in 1..Len(waiters') :
             i \in 1..Len(waiters) \/ i = Len(waiters) + 1
      BY <3>2
    <3> SUFFICES ASSUME NEW p \in Ops, op[p] = "waiting", waited[p] = 1
                 PROVE  /\ lock' # "task"
                        /\ lock' = p
                           \/ \E i \in 1..Len(waiters') :
                                /\ waiters'[i] = p
                                /\ \A j \in 1..Len(waiters') :
                                     waiters'[j] = "task" => i < j
      BY <3>3
    <3>6. CASE lock = p
      BY <3>3, <3>6
    <3>7. CASE lock # p
      <4>1. PICK i \in 1..Len(waiters) : waiters[i] = p
        BY <3>7
      <4>2. i \in 1..Len(waiters') /\ waiters'[i] = p /\ i < Len(waiters) + 1
        BY <3>2, <4>1
      <4>3. \A j \in 1..Len(waiters') : waiters'[j] = "task" => i < j
        BY <3>2, <3>4, <3>5, <4>2
      <4> QED
        BY <3>3, <4>2, <4>3
    <3> QED
      BY <3>6, <3>7
  <2> QED
    BY <2>1, <2>2
<1>5. CASE Grant
  <2>1. UNCHANGED <<op, rigid, nextId, waited>>
    BY <1>5 DEF Grant
  <2>2. /\ lock' = waiters[1] /\ lock = "nobody"
        /\ Len(waiters) \in Nat /\ Len(waiters) >= 1
        /\ Len(waiters') = Len(waiters) - 1
        /\ \A i \in 1..Len(waiters') : waiters'[i] = waiters[i + 1]
    BY <1>5, GrantTask
  <2> SUFFICES ASSUME NEW o \in Ops, op[o] = "waiting", waited[o] = 1
               PROVE  /\ lock' # "task"
                      /\ lock' = o
                         \/ \E i \in 1..Len(waiters') :
                              /\ waiters'[i] = o
                              /\ \A j \in 1..Len(waiters') :
                                   waiters'[j] = "task" => i < j
    BY <2>1
  <2>3. PICK i \in 1..Len(waiters) :
           /\ waiters[i] = o
           /\ \A j \in 1..Len(waiters) : waiters[j] = "task" => i < j
    BY <2>2
  <2>4. lock' # "task"
    BY <2>2, <2>3
  <2>5. CASE i = 1
    BY <2>2, <2>3, <2>4, <2>5
  <2>6. CASE i # 1
    <3>1. i - 1 \in 1..Len(waiters') /\ waiters'[i - 1] = waiters[(i - 1) + 1]
      BY <2>2, <2>6
    <3>2. \A j \in 1..Len(waiters') : waiters'[j] = "task" => i - 1 < j
      BY <2>2, <2>3
    <3> QED
      BY <2>3, <2>4, <3>1, <3>2
  <2> QED
    BY <2>5, <2>6
<1>6. ASSUME NEW e \in {"data", "error"}, ClientLine(e) PROVE WaitedOK'
  BY <1>6 DEF ClientLine, Report, Release, CountLine
<1>7. CASE ClientEnds
  BY <1>7 DEF ClientEnds, Report, Release, CountLine
<1>8. CASE StreamData
  BY <1>8 DEF StreamData, TakeLine, Report
<1>9. CASE StreamError
  BY <1>9 DEF StreamError, ReadFails, Report
<1>10. CASE StreamOver
  BY <1>10 DEF StreamOver, NothingLeft, Report
<1>11. CASE Network
  BY <1>11 DEF Network
<1>12. CASE Check
  BY <1>12 DEF Check
<1>13. CASE Callback
  BY <1>13 DEF Callback, After
<1>14. CASE Cancelled
  BY <1>14 DEF Cancelled, Report
<1>15. CASE NapiClose
  BY <1>15 DEF NapiClose
<1>16. ASSUME NEW o \in Ops, NEW k \in Kinds, Call(o, k) PROVE WaitedOK'
  <2>1. CASE ~Has(Id)
    BY <1>16, <2>1 DEF Call, Issued, Id
  <2>2. CASE Has(Id)
    <3>1. waiters' = Append(waiters, o)
          /\ op' = [op EXCEPT ![o] = "waiting"] /\ op[o] = "idle"
      BY <1>16, <2>2 DEF Call
    <3>2. /\ waiters' \in Seq({"task"} \cup Ops)
          /\ Len(waiters') = Len(waiters) + 1
          /\ \A i \in 1..Len(waiters) : waiters'[i] = waiters[i]
          /\ waiters'[Len(waiters) + 1] = o
          /\ Len(waiters) \in Nat
      <4> DEFINE S == {"task"} \cup Ops
      <4>1. waiters \in Seq(S) /\ o \in S
        OBVIOUS
      <4> HIDE DEF S
      <4>2. /\ waiters' \in Seq(S)
            /\ Len(waiters') = Len(waiters) + 1
            /\ \A i \in 1..Len(waiters) : waiters'[i] = waiters[i]
            /\ waiters'[Len(waiters) + 1] = o
            /\ Len(waiters) \in Nat
        BY <3>1, <4>1, QueueAppend
      <4> QED
        BY <4>2 DEF S
    <3>3. UNCHANGED <<task, lock, rigid, nextId, waited>>
      BY <1>16 DEF Call
    <3>4. /\ op'[o] = "waiting" /\ \A p \in Ops \ {o} : op'[p] = op[p]
      BY <3>1
    <3>5. lock # o /\ \A i \in 1..Len(waiters) : waiters[i] # o
      BY <3>1
    <3>6. \A i \in 1..Len(waiters') :
             i \in 1..Len(waiters) \/ i = Len(waiters) + 1
      BY <3>2
    <3>7. o # "task"
      OBVIOUS
    <3> SUFFICES ASSUME NEW p \in Ops \ {o}, op[p] = "waiting", waited[p] = 1
                 PROVE  /\ lock' # "task"
                        /\ lock' = p
                           \/ \E i \in 1..Len(waiters') :
                                /\ waiters'[i] = p
                                /\ \A j \in 1..Len(waiters') :
                                     waiters'[j] = "task" => i < j
      <4>1. waited' \in [Ops -> 0..1] /\ waited'[o] = 0
        BY <3>1, <3>3
      <4>2. \A p \in Ops \ {o} : waited'[p] = waited[p] /\ op'[p] = op[p]
        BY <3>3, <3>4
      <4> QED
        BY <3>4, <4>1, <4>2
    <3> QED
      BY <3>2, <3>3, <3>6, <3>7
  <2> QED
    BY <2>1, <2>2
<1>17. ASSUME NEW o \in Ops, Perform(o) PROVE WaitedOK'
  BY <1>17 DEF Perform, RemoveId
<1>18. CASE UNCHANGED bindingVars
  BY <1>18 DEF bindingVars
<1> HIDE DEF BindingInv, WaitedOK
<1> QED
  BY <1>1, <1>2, <1>3, <1>4, <1>5, <1>6, <1>7, <1>8, <1>9, <1>10, <1>11,
     <1>12, <1>13, <1>14, <1>15, <1>16, <1>17, <1>18
  DEF BindingNext, Forward, Server

\* After the end the task reports nothing.
LEMMA EndStep == BindingInv /\ [BindingNext]_bindingVars => EndOK'
<1> SUFFICES ASSUME BindingInv, [BindingNext]_bindingVars PROVE EndOK'
  OBVIOUS
<1> USE DEF BindingInv, TaskOK, EndOK, EndReported, Guarded, Events, Tasks,
        streamVars,
        handleVars, rigid, locking, hosted, hostHistory
<1>1. CASE ConnectErr
  BY <1>1 DEF ConnectErr, Report
<1>2. CASE ConnectOk
  BY <1>2 DEF ConnectOk
<1>3. CASE Opened
  BY <1>3 DEF Opened, Insert, InsertWithId, TakeId
<1>4. CASE Top
  BY <1>4 DEF Top
<1>5. CASE Grant
  <2>1. task' = task \/ (task = "locking" /\ task' = "reading")
    BY <1>5, GrantTask
  <2>2. UNCHANGED <<got, marked, service, binding>>
    BY <1>5 DEF Grant
  <2> QED
    BY <2>1, <2>2
<1>6. ASSUME NEW e \in {"data", "error"}, ClientLine(e) PROVE EndOK'
  BY <1>6 DEF ClientLine, Report, Release, CountLine
<1>7. CASE ClientEnds
  BY <1>7 DEF ClientEnds, Report, Release, CountLine
<1>8. CASE StreamData
  BY <1>8 DEF StreamData, TakeLine, Report
<1>9. CASE StreamError
  BY <1>9 DEF StreamError, ReadFails, Report
<1>10. CASE StreamOver
  BY <1>10 DEF StreamOver, NothingLeft, Report
<1>11. CASE Network
  BY <1>11 DEF Network
<1>12. CASE Check
  BY <1>12 DEF Check
<1>13. CASE Callback
  BY <1>13 DEF Callback, After
<1>14. CASE Cancelled
  BY <1>14 DEF Cancelled, Report
<1>15. CASE NapiClose
  BY <1>15 DEF NapiClose
<1>16. ASSUME NEW o \in Ops, NEW k \in Kinds, Call(o, k) PROVE EndOK'
  BY <1>16 DEF Call, Has, Issued
<1>17. ASSUME NEW o \in Ops, Perform(o) PROVE EndOK'
  BY <1>17 DEF Perform, RemoveId
<1>18. CASE UNCHANGED bindingVars
  BY <1>18 DEF bindingVars
<1> HIDE DEF BindingInv, EndOK
<1> QED
  BY <1>1, <1>2, <1>3, <1>4, <1>5, <1>6, <1>7, <1>8, <1>9, <1>10, <1>11,
     <1>12, <1>13, <1>14, <1>15, <1>16, <1>17, <1>18
  DEF BindingNext, Forward, Server

\* After a late callback the task finds the mark.
LEMMA CallbackStep == BindingInv /\ [BindingNext]_bindingVars => CallbackOK'
<1> SUFFICES ASSUME BindingInv, [BindingNext]_bindingVars PROVE CallbackOK'
  OBVIOUS
<1> USE DEF BindingInv, TaskOK, OpsOK, CallbackOK, Returned, Guarded,
        streamVars,
        handleVars, rigid, locking, hosted, hostHistory
<1>1. CASE ConnectErr
  BY <1>1 DEF ConnectErr, Report
<1>2. CASE ConnectOk
  BY <1>2 DEF ConnectOk
<1>3. CASE Opened
  BY <1>3 DEF Opened, Insert, InsertWithId, TakeId
<1>4. CASE Top
  BY <1>4 DEF Top
<1>5. CASE Grant
  <2>1. task' = task \/ (task = "locking" /\ task' = "reading")
    BY <1>5, GrantTask
  <2>2. UNCHANGED <<lateEvents, busy, marked, op, kind>>
    BY <1>5 DEF Grant
  <2> QED
    BY <2>1, <2>2
<1>6. ASSUME NEW e \in {"data", "error"}, ClientLine(e) PROVE CallbackOK'
  BY <1>6 DEF ClientLine, Report, Release, CountLine
<1>7. CASE ClientEnds
  BY <1>7 DEF ClientEnds, Report, Release, CountLine
<1>8. CASE StreamData
  BY <1>8 DEF StreamData, TakeLine, Report
<1>9. CASE StreamError
  BY <1>9 DEF StreamError, ReadFails, Report
<1>10. CASE StreamOver
  BY <1>10 DEF StreamOver, NothingLeft, Report
<1>11. CASE Network
  BY <1>11 DEF Network
<1>12. CASE Check
  BY <1>12 DEF Check
<1>13. CASE Callback
  BY <1>13 DEF Callback, After
<1>14. CASE Cancelled
  BY <1>14 DEF Cancelled, Report
<1>15. CASE NapiClose
  BY <1>15 DEF NapiClose
<1>16. ASSUME NEW o \in Ops, NEW k \in Kinds, Call(o, k) PROVE CallbackOK'
  BY <1>16 DEF Call, Has, Issued
<1>17. ASSUME NEW o \in Ops, Perform(o) PROVE CallbackOK'
  BY <1>17 DEF Perform, RemoveId
<1>18. CASE UNCHANGED bindingVars
  BY <1>18 DEF bindingVars
<1> HIDE DEF BindingInv, CallbackOK
<1> QED
  BY <1>1, <1>2, <1>3, <1>4, <1>5, <1>6, <1>7, <1>8, <1>9, <1>10, <1>11,
     <1>12, <1>13, <1>14, <1>15, <1>16, <1>17, <1>18
  DEF BindingNext, Forward, Server

\* Each line is reported before the next is taken.
LEMMA LinesStep == BindingInv /\ [BindingNext]_bindingVars => LinesOK'
<1> SUFFICES ASSUME BindingInv, [BindingNext]_bindingVars PROVE LinesOK'
  OBVIOUS
<1> USE DEF BindingInv, TaskOK, LinesOK, LinesReported, streamVars,
        handleVars, rigid,
        locking, hosted, hostHistory
<1>1. CASE ConnectErr
  BY <1>1 DEF ConnectErr, Report
<1>2. CASE ConnectOk
  BY <1>2 DEF ConnectOk
<1>3. CASE Opened
  <2>1. got' = Append(got, "open") /\ got \in Seq(Events) /\ event = "open"
        /\ event' = "none" /\ UNCHANGED <<taken, service>>
    BY <1>3 DEF Opened
  <2>2. DataCount(got') = DataCount(got) + 0 /\ DataCount(got) \in Nat
    BY <2>1, CountAppend DEF Events
  <2>3. service = "stream" =>
           Len(taken) = DataCount(got) + (IF event = "data" THEN 1 ELSE 0)
    BY DEF DataCount
  <2>4. service' = "stream" =>
           Len(taken') = DataCount(got') + (IF event' = "data" THEN 1 ELSE 0)
    BY <2>1, <2>2, <2>3
  <2>5. \E S : taken' \in Seq(S)
    BY <2>1
  <2> QED
    BY <2>4, <2>5 DEF DataCount
<1>4. CASE Top
  BY <1>4 DEF Top
<1>5. CASE Grant
  BY <1>5 DEF Grant
<1>6. ASSUME NEW e \in {"data", "error"}, ClientLine(e) PROVE LinesOK'
  BY <1>6 DEF ClientLine, Report, Release, CountLine
<1>7. CASE ClientEnds
  BY <1>7 DEF ClientEnds, Report, Release, CountLine
<1>8. CASE StreamData
  <2>1. /\ taken' = Append(taken, Head(pending)) /\ task = "reading"
        /\ event' = "data" /\ UNCHANGED <<got, service>>
    BY <1>8 DEF StreamData, TakeLine, Report
  <2>2. PICK S : taken \in Seq(S)
    OBVIOUS
  <2> DEFINE T == S \cup {Head(pending)}
  <2>3. taken \in Seq(T) /\ Head(pending) \in T
    BY <2>2
  <2> HIDE DEF T
  <2>4. taken' \in Seq(T) /\ Len(taken') = Len(taken) + 1 /\ Len(taken) \in Nat
    BY <2>1, <2>3, QueueAppend
  <2>5. event # "data"
    BY <2>1
  <2>6. DataCount(got) \in Nat
    BY CountAppend DEF Events
  <2> QED
    BY <2>1, <2>4, <2>5, <2>6 DEF DataCount
<1>9. CASE StreamError
  BY <1>9 DEF StreamError, ReadFails, Report
<1>10. CASE StreamOver
  BY <1>10 DEF StreamOver, NothingLeft, Report
<1>11. CASE Network
  <2>1. UNCHANGED <<taken, service, event, got>>
    BY <1>11, Zenon DEF Network, BodyEnds, Chunk
  <2> QED
    BY <2>1
<1>12. CASE Check
  BY <1>12 DEF Check, Guarded
<1>13. CASE Callback
  <2>1. got' = Append(got, event) /\ got \in Seq(Events) /\ event \in Events
        /\ event' = "none" /\ UNCHANGED <<taken, service>>
    BY <1>13 DEF Callback
  <2>2. /\ DataCount(got') = DataCount(got) + (IF event = "data" THEN 1 ELSE 0)
        /\ DataCount(got) \in Nat
    BY <2>1, CountAppend
  <2>3. service = "stream" =>
           Len(taken) = DataCount(got) + (IF event = "data" THEN 1 ELSE 0)
    BY DEF DataCount
  <2>4. service' = "stream" =>
           Len(taken') = DataCount(got') + (IF event' = "data" THEN 1 ELSE 0)
    BY <2>1, <2>2, <2>3
  <2>5. \E S : taken' \in Seq(S)
    BY <2>1
  <2> QED
    BY <2>4, <2>5 DEF DataCount
<1>14. CASE Cancelled
  BY <1>14 DEF Cancelled, Report
<1>15. CASE NapiClose
  BY <1>15 DEF NapiClose
<1>16. ASSUME NEW o \in Ops, NEW k \in Kinds, Call(o, k) PROVE LinesOK'
  BY <1>16 DEF Call, Has, Issued
<1>17. ASSUME NEW o \in Ops, Perform(o) PROVE LinesOK'
  BY <1>17 DEF Perform, RemoveId
<1>18. CASE UNCHANGED bindingVars
  BY <1>18 DEF bindingVars
<1> HIDE DEF BindingInv, LinesOK
<1> QED
  BY <1>1, <1>2, <1>3, <1>4, <1>5, <1>6, <1>7, <1>8, <1>9, <1>10, <1>11,
     <1>12, <1>13, <1>14, <1>15, <1>16, <1>17, <1>18
  DEF BindingNext, Forward, Server

-----------------------------------------------------------------------------
(* The theorems about SseBinding.                                          *)

\* The inductive invariant holds in every reachable state.
THEOREM BindingInductive == BindingSpec => []BindingInv
<1>1. BindingInv /\ [BindingNext]_bindingVars => BindingInv'
  BY BoolsStep, TaskStep, WaitersStep, OpsStep, WaitedStep, EndStep,
     CallbackStep, LinesStep, BodyStep
  DEF BindingInv
<1> QED
  BY BindingInvInit, <1>1, PTL DEF BindingSpec

\* Whatever the server, the network and the threads of the host do, the host
\* is told of each line of a stream once and in turn, of the end last, and of
\* at most one event after destroy has returned.
THEOREM HostAlwaysTold == BindingSpec => []HostTold
<1>1. BindingInv => BindingTypeOK
  <2> SUFFICES ASSUME BindingInv PROVE BindingTypeOK
    OBVIOUS
  <2>1. IsInjective(waiters)
    BY DEF BindingInv, WaitersOK, IsInjective
  <2>2. waited \in [Ops -> Nat] /\ lateEvents \in Nat
    BY DEF BindingInv, WaitedOK, CallbackOK
  <2> QED
    BY <2>1, <2>2, Zenon
    DEF BindingInv, BoolsOK, TaskOK, WaitersOK, OpsOK, BodyOK, BindingTypeOK
<1>2. BindingInv => LateOnlyIfCalling
  BY DEF BindingInv, CallbackOK, LateOnlyIfCalling
<1>3. BindingInv => HostTold
  BY <1>1, <1>2 DEF BindingInv, LinesOK, EndOK, HostTold
<1> QED
  BY BindingInductive, <1>3, PTL

\* Whatever the number of ops, none waits while more than one line is read.
THEOREM OneLineAtMost == BindingSpec => []WaitsForOneLine
<1>1. BindingInv => WaitsForOneLine
  BY DEF BindingInv, WaitedOK, WaitsForOneLine
<1> QED
  BY BindingInductive, <1>1, PTL

-----------------------------------------------------------------------------
(* Numbers and texts.                                                      *)

\* A set of naturals has a least element: the induction that the proofs about
\* texts rest on.
LEMMA LeastNumber ==
    ASSUME NEW T, T \subseteq Nat, T # {}
    PROVE  \E x \in T : \A y \in T : x <= y
<1> DEFINE R == OpToRel(<, Nat)
<1>1. IsWellFoundedOn(R, Nat)
  BY NatLessThanWellFounded
<1>2. \A x, y \in Nat : y < x => <<y, x>> \in R
  BY DEF OpToRel
<1> HIDE DEF R
<1>3. PICK x \in T : \A y \in T : ~(<<y, x>> \in R)
  BY <1>1, WFMin, Zenon
<1>4. ASSUME NEW y \in T PROVE x <= y
  <2>1. x \in Nat /\ y \in Nat /\ ~(y < x)
    BY <1>2, <1>3, Zenon
  <2> QED
    BY <2>1
<1> QED
  BY <1>4

\* A bounded set of naturals has a greatest element.
LEMMA MaxOf ==
    ASSUME NEW S, S \subseteq Nat, S # {},
           NEW n \in Nat, \A x \in S : x <= n
    PROVE  Max(S) \in S /\ \A y \in S : y <= Max(S)
<1> DEFINE T == {m \in Nat : \A x \in S : x <= m}
<1>1. PICK m \in T : \A k \in T : m <= k
  <2>1. n \in T /\ T \subseteq Nat
    OBVIOUS
  <2> HIDE DEF T
  <2> QED
    BY <2>1, LeastNumber
<1>2. m \in Nat /\ \A x \in S : x <= m
  BY <1>1
<1>3. m \in S
  <2> SUFFICES ASSUME m \notin S PROVE FALSE
    OBVIOUS
  <2>1. \A x \in S : x \in Nat /\ x # m /\ x < m
    BY <1>2
  <2>2. m - 1 \in T
    <3>1. PICK x \in S : TRUE
      OBVIOUS
    <3>2. m - 1 \in Nat
      BY <1>2, <2>1, <3>1
    <3>3. \A y \in S : y <= m - 1
      BY <1>2, <2>1
    <3> QED
      BY <3>2, <3>3
  <2> QED
    BY <1>1, <1>2, <2>2
<1>4. \E x \in S : \A y \in S : x >= y
  BY <1>2, <1>3
<1> DEFINE k == CHOOSE x \in S : \A y \in S : x >= y
<1>5. k \in S /\ \A y \in S : k >= y
  BY <1>4
<1> HIDE DEF k
<1>6. Max(S) = k
  BY DEF Max, k
<1> QED
  BY <1>5, <1>6

\* The greatest element is the only one.
LEMMA MaxIs ==
    ASSUME NEW S, S \subseteq Nat, NEW m \in S, \A x \in S : x <= m
    PROVE  Max(S) = m
<1>1. m \in Nat /\ S # {}
  OBVIOUS
<1>2. Max(S) \in S /\ \A y \in S : y <= Max(S)
  BY <1>1, MaxOf
<1>3. Max(S) \in Nat /\ Max(S) <= m /\ m <= Max(S)
  BY <1>2
<1> QED
  BY <1>1, <1>3

\* A part of a text that has grown at its end is what it was.
LEMMA PartOfLonger ==
    ASSUME NEW S, NEW t \in Seq(S), NEW c \in S,
           NEW a \in 1..Len(t) + 1, NEW b \in 0..Len(t)
    PROVE  SubSeq(Append(t, c), a, b) = SubSeq(t, a, b)
<1> DEFINE u == Append(t, c)
<1>1. /\ u \in Seq(S) /\ Len(t) \in Nat /\ Len(u) = Len(t) + 1
      /\ \A i \in 1..Len(t) : u[i] = t[i]
  OBVIOUS
<1>2. \A i \in a..b : i \in 1..Len(t) /\ u[i] \in S /\ t[i] \in S
  <2> SUFFICES ASSUME NEW i \in a..b
               PROVE  i \in 1..Len(t) /\ u[i] \in S /\ t[i] \in S
    OBVIOUS
  <2>1. i \in 1..Len(t) /\ i \in 1..Len(u)
    BY <1>1
  <2> HIDE DEF u
  <2> QED
    BY <1>1, <2>1, ElementOfSeq
<1> HIDE DEF u
<1> DEFINE x == SubSeq(u, a, b)
           y == SubSeq(t, a, b)
<1>3. /\ x \in Seq(S) /\ Len(x) = IF a <= b THEN b - a + 1 ELSE 0
      /\ \A i \in 1..b - a + 1 : x[i] = u[a + i - 1]
  BY <1>1, <1>2, SubSeqProperties
<1>4. /\ y \in Seq(S) /\ Len(y) = IF a <= b THEN b - a + 1 ELSE 0
      /\ \A i \in 1..b - a + 1 : y[i] = t[a + i - 1]
  BY <1>1, <1>2, SubSeqProperties
<1> HIDE DEF x, y
<1>5. ASSUME NEW i \in 1..Len(x) PROVE x[i] = y[i]
  <2>1. i \in 1..b - a + 1 /\ a + i - 1 \in a..b
    BY <1>1, <1>3
  <2>2. x[i] = u[a + i - 1] /\ y[i] = t[a + i - 1]
    BY <1>3, <1>4, <2>1
  <2>3. a + i - 1 \in 1..Len(t)
    BY <1>2, <2>1
  <2> QED
    BY <1>1, <2>2, <2>3
<1>6. x = y
  BY <1>3, <1>4, <1>5, SeqEqual
<1> QED
  BY <1>6 DEF x, y, u

\* The end of a text that has grown by a character.
LEMMA EndOfLonger ==
    ASSUME NEW S, NEW t \in Seq(S), NEW c \in S, NEW a \in 1..Len(t) + 1
    PROVE  SubSeq(Append(t, c), a, Len(t) + 1)
               = Append(SubSeq(t, a, Len(t)), c)
<1> DEFINE u == Append(t, c)
<1>1. /\ u \in Seq(S) /\ Len(t) \in Nat /\ Len(u) = Len(t) + 1
      /\ \A i \in 1..Len(t) : u[i] = t[i]
      /\ u[Len(t) + 1] = c
  OBVIOUS
<1>2. \A i \in 1..Len(u) : u[i] \in S
  <2> HIDE DEF u
  <2> QED
    BY <1>1, ElementOfSeq
<1>3. \A i \in 1..Len(t) : t[i] \in S
  BY ElementOfSeq
<1> HIDE DEF u
<1> DEFINE x == SubSeq(u, a, Len(t) + 1)
           y == SubSeq(t, a, Len(t))
           z == Append(y, c)
<1>4. /\ x \in Seq(S) /\ Len(x) = Len(t) - a + 2
      /\ \A i \in 1..Len(t) - a + 2 : x[i] = u[a + i - 1]
  <2>1. \A i \in a..Len(t) + 1 : u[i] \in S
    BY <1>1, <1>2
  <2>2. /\ x \in Seq(S)
        /\ Len(x) = IF a <= Len(t) + 1 THEN Len(t) + 1 - a + 1 ELSE 0
        /\ \A i \in 1..Len(t) + 1 - a + 1 : x[i] = u[a + i - 1]
    BY <1>1, <2>1, SubSeqProperties
  <2> HIDE DEF x
  <2> QED
    BY <1>1, <2>2
<1>5. /\ y \in Seq(S) /\ Len(y) = Len(t) - a + 1
      /\ \A i \in 1..Len(t) - a + 1 : y[i] = t[a + i - 1]
  <2>1. \A i \in a..Len(t) : t[i] \in S
    BY <1>1, <1>3
  <2>2. /\ y \in Seq(S)
        /\ Len(y) = IF a <= Len(t) THEN Len(t) - a + 1 ELSE 0
        /\ \A i \in 1..Len(t) - a + 1 : y[i] = t[a + i - 1]
    BY <1>1, <2>1, SubSeqProperties
  <2> HIDE DEF y
  <2> QED
    BY <1>1, <2>2
<1> HIDE DEF x, y
<1>6. /\ z \in Seq(S) /\ Len(z) = Len(t) - a + 2
      /\ \A i \in 1..Len(t) - a + 1 : z[i] = y[i]
      /\ z[Len(t) - a + 2] = c
  BY <1>1, <1>5
<1> HIDE DEF z
<1>7. ASSUME NEW i \in 1..Len(x) PROVE x[i] = z[i]
  <2>0. i \in 1..Len(t) - a + 2 /\ Len(t) \in Nat
    BY <1>1, <1>4
  <2>1. x[i] = u[a + i - 1]
    BY <1>4, <2>0
  <2>2. CASE i = Len(t) - a + 2
    <3>1. a + i - 1 = Len(t) + 1
      BY <2>0, <2>2
    <3> QED
      BY <1>1, <1>6, <2>1, <2>2, <3>1
  <2>3. CASE i # Len(t) - a + 2
    <3>1. i \in 1..Len(t) - a + 1 /\ a + i - 1 \in 1..Len(t)
      BY <2>0, <2>3
    <3> QED
      BY <1>1, <1>5, <1>6, <2>1, <3>1
  <2> QED
    BY <2>2, <2>3
<1>8. x = z
  BY <1>4, <1>6, <1>7, SeqEqual
<1> QED
  BY <1>8 DEF x, y, z, u

-----------------------------------------------------------------------------
(* A text that grows by a character, and its lines.                        *)

\* The line feeds of a text are among its places.
LEMMA FeedsOf ==
    ASSUME NEW t \in Seq(Chars)
    PROVE  /\ Feeds(t) \subseteq 1..Len(t) /\ Len(t) \in Nat
           /\ IsFiniteSet(Feeds(t))
<1>1. Feeds(t) \subseteq 1..Len(t) /\ Len(t) \in Nat
  BY LenProperties DEF Feeds
<1>2. IsFiniteSet(1..Len(t))
  BY <1>1, FS_Interval
<1> QED
  BY <1>1, <1>2, FS_Subset

\* A new character is a line feed of the text, or the text has those it had.
LEMMA FeedsGrow ==
    ASSUME NEW t \in Seq(Chars), NEW c \in Chars
    PROVE  Feeds(Append(t, c)) =
               IF c = LF THEN Feeds(t) \cup {Len(t) + 1} ELSE Feeds(t)
<1> DEFINE u == Append(t, c)
<1>1. /\ Len(t) \in Nat /\ DOMAIN u = 1..Len(t) + 1 /\ DOMAIN t = 1..Len(t)
      /\ \A i \in 1..Len(t) : u[i] = t[i]
      /\ u[Len(t) + 1] = c
  BY LenProperties
<1> HIDE DEF u
<1>2. \A i \in 1..Len(t) + 1 : i \in 1..Len(t) \/ i = Len(t) + 1
  BY <1>1
<1>3. \A i \in 1..Len(t) : i \in 1..Len(t) + 1 /\ i # Len(t) + 1
  BY <1>1
<1>4. Len(t) + 1 \in 1..Len(t) + 1
  BY <1>1
<1>5. Feeds(u) = {i \in 1..Len(t) + 1 : u[i] = LF}
  BY <1>1 DEF Feeds
<1>6. Feeds(t) = {i \in 1..Len(t) : t[i] = LF}
  BY <1>1 DEF Feeds
<1>7. \A i : i \in Feeds(u) <=> i \in Feeds(t) \/ (i = Len(t) + 1 /\ c = LF)
  BY <1>1, <1>2, <1>3, <1>4, <1>5, <1>6
<1> QED
  BY <1>7 DEF u

\* A line starts within the text, and not after its end.
LEMMA StartOf ==
    ASSUME NEW t \in Seq(Chars), NEW e \in 1..Len(t) + 1
    PROVE  Start(t, e) \in 1..e
<1> DEFINE S == {0} \cup {i \in Feeds(t) : i < e}
<1>1. Feeds(t) \subseteq 1..Len(t) /\ Len(t) \in Nat
  BY FeedsOf
<1>2. S \subseteq Nat /\ S # {} /\ \A x \in S : x <= e - 1
  BY <1>1
<1>3. e - 1 \in Nat
  BY <1>1
<1>4. Start(t, e) = 1 + Max(S)
  BY DEF Start
<1> HIDE DEF S
<1>5. Max(S) \in S
  BY <1>2, <1>3, MaxOf
<1>6. Max(S) \in Nat /\ Max(S) <= e - 1
  BY <1>2, <1>5
<1> QED
  BY <1>1, <1>4, <1>6

\* A line that ends in the text, or right after it, is the same when the text
\* has grown.
LEMMA LineStays ==
    ASSUME NEW t \in Seq(Chars), NEW c \in Chars, NEW e \in 1..Len(t) + 1
    PROVE  /\ Start(Append(t, c), e) = Start(t, e)
           /\ LineAt(Append(t, c), e) = LineAt(t, e)
<1>1. Feeds(t) \subseteq 1..Len(t) /\ Len(t) \in Nat
  BY FeedsOf
<1>2. {i \in Feeds(Append(t, c)) : i < e} = {i \in Feeds(t) : i < e}
  <2>1. \A i : i \in Feeds(Append(t, c)) =>
                   i \in Feeds(t) \/ i = Len(t) + 1
    BY FeedsGrow
  <2>2. \A i \in Feeds(t) : i \in Feeds(Append(t, c))
    BY FeedsGrow
  <2>3. ~(Len(t) + 1 < e)
    BY <1>1
  <2> QED
    BY <2>1, <2>2, <2>3
<1>3. Start(Append(t, c), e) = Start(t, e)
  BY <1>2 DEF Start
<1>4. Start(t, e) \in 1..Len(t) + 1 /\ e - 1 \in 0..Len(t)
  BY <1>1, StartOf
<1>5. SubSeq(Append(t, c), Start(t, e), e - 1) = SubSeq(t, Start(t, e), e - 1)
  BY <1>4, PartOfLonger
<1> QED
  BY <1>3, <1>5 DEF LineAt

\* What follows the last line feed.
Rest(text) == SubSeq(text, Start(text, Len(text) + 1), Len(text))

\* It is what the next line feed makes a line of.
LEMMA LineOfRest ==
    ASSUME NEW t \in Seq(Chars)
    PROVE  LineAt(t, Len(t) + 1) = TrimEnd(Rest(t))
<1>1. Len(t) + 1 - 1 = Len(t)
  BY LenProperties
<1> QED
  BY <1>1 DEF LineAt, Rest

\* A line feed leaves nothing, and another character is added to what is left.
LEMMA RestGrows ==
    ASSUME NEW t \in Seq(Chars), NEW c \in Chars
    PROVE  Rest(Append(t, c)) = IF c = LF THEN <<>> ELSE Append(Rest(t), c)
<1> DEFINE u == Append(t, c)
           n == Len(t)
<1>1. u \in Seq(Chars) /\ Len(u) = n + 1 /\ n \in Nat
  OBVIOUS
<1>2. Feeds(t) \subseteq 1..n
  BY FeedsOf
<1>3. Rest(u) = SubSeq(u, Start(u, n + 2), n + 1)
  <2>1. Len(u) + 1 = n + 2
    BY <1>1
  <2> HIDE DEF u, n
  <2> QED
    BY <1>1, <2>1 DEF Rest
<1>4. CASE c = LF
  <2>1. Feeds(u) = Feeds(t) \cup {n + 1}
    BY <1>4, FeedsGrow
  <2> HIDE DEF u, n
  <2> DEFINE S == {0} \cup {i \in Feeds(u) : i < n + 2}
  <2>2. S \subseteq Nat /\ n + 1 \in S /\ \A x \in S : x <= n + 1
    BY <1>1, <1>2, <2>1
  <2>3. Start(u, n + 2) = 1 + Max(S)
    BY DEF Start
  <2> HIDE DEF S
  <2>4. Max(S) = n + 1
    BY <2>2, MaxIs
  <2>5. Start(u, n + 2) = n + 2
    BY <1>1, <2>3, <2>4
  <2>6. SubSeq(u, n + 2, n + 1) = <<>>
    BY <1>1, SubSeqEmpty
  <2> QED
    BY <1>3, <1>4, <2>5, <2>6 DEF u
<1>5. CASE c # LF
  <2>1. Feeds(u) = Feeds(t)
    BY <1>5, FeedsGrow
  <2>2. {i \in Feeds(u) : i < n + 2} = {i \in Feeds(t) : i < n + 1}
    <3> HIDE DEF u, n
    <3>1. \A i \in Feeds(t) : i < n + 2 /\ i < n + 1
      BY <1>1, <1>2
    <3> QED
      BY <2>1, <3>1
  <2>3. Start(u, n + 2) = Start(t, n + 1)
    BY <2>2 DEF Start
  <2>4. Start(t, n + 1) \in 1..n + 1
    <3>1. n + 1 \in 1..n + 1
      BY <1>1
    <3> QED
      BY <3>1, StartOf
  <2>5. SubSeq(u, Start(t, n + 1), n + 1)
            = Append(SubSeq(t, Start(t, n + 1), n), c)
    BY <2>4, EndOfLonger
  <2> QED
    BY <1>3, <1>5, <2>3, <2>5 DEF Rest
<1> QED
  BY <1>4, <1>5

\* A line feed ends a line of content where there was one, and else nothing is
\* new.
LEMMA ContentGrows ==
    ASSUME NEW t \in Seq(Chars), NEW c \in Chars
    PROVE  /\ Content(Append(t, c)) =
                 IF c = LF /\ IsContent(TrimEnd(Rest(t)))
                 THEN Content(t) \cup {Len(t) + 1} ELSE Content(t)
           /\ Ids(Append(t, c)) =
                 IF c = LF /\ IsId(TrimEnd(Rest(t)))
                 THEN Ids(t) \cup {Len(t) + 1} ELSE Ids(t)
<1> DEFINE u == Append(t, c)
           n == Len(t)
<1>1. Feeds(t) \subseteq 1..n /\ n \in Nat
  BY FeedsOf
<1>2. \A e \in Feeds(t) : e \in 1..n + 1 /\ LineAt(u, e) = LineAt(t, e)
  <2>1. \A e \in Feeds(t) : e \in 1..n + 1
    BY <1>1
  <2> QED
    BY <2>1, LineStays
<1>3. LineAt(u, n + 1) = TrimEnd(Rest(t))
  <2>1. n + 1 \in 1..n + 1
    BY <1>1
  <2> QED
    BY <2>1, LineStays, LineOfRest
<1>4. n + 1 \notin Feeds(t)
  BY <1>1
<1>5. Feeds(u) = IF c = LF THEN Feeds(t) \cup {n + 1} ELSE Feeds(t)
  BY FeedsGrow
<1> HIDE DEF u, n
<1>6. Content(u) = IF c = LF /\ IsContent(TrimEnd(Rest(t)))
                   THEN Content(t) \cup {n + 1} ELSE Content(t)
  BY <1>2, <1>3, <1>4, <1>5 DEF Content
<1>7. Ids(u) = IF c = LF /\ IsId(TrimEnd(Rest(t)))
               THEN Ids(t) \cup {n + 1} ELSE Ids(t)
  BY <1>2, <1>3, <1>4, <1>5 DEF Ids
<1> QED
  BY <1>6, <1>7 DEF u, n

\* A line without its carriage returns: it is empty when there is nothing else,
\* and starts as the line does.
LEMMA TrimEndOf ==
    ASSUME NEW line \in Seq(Chars)
    PROVE  /\ TrimEnd(line) \in Seq(Chars)
           /\ TrimEnd(line) # <<>> <=> \E i \in 1..Len(line) : line[i] # CR
           /\ TrimEnd(line) # <<>> =>
                  1 \in 1..Len(line) /\ Head(TrimEnd(line)) = line[1]
<1> DEFINE kept == {i \in DOMAIN line : line[i] # CR}
           m == IF kept = {} THEN 0 ELSE Max(kept)
           trimmed == SubSeq(line, 1, m)
<1>1. Len(line) \in Nat /\ DOMAIN line = 1..Len(line)
  BY LenProperties
<1>2. kept \subseteq 1..Len(line)
  BY <1>1
<1>3. \A i : i \in kept <=> i \in 1..Len(line) /\ line[i] # CR
  BY <1>1
<1>4. TrimEnd(line) = trimmed
  BY DEF TrimEnd
<1> HIDE DEF kept
<1>5. m \in 0..Len(line) /\ (m = 0 <=> kept = {})
  <2>1. CASE kept = {}
    BY <1>1, <2>1
  <2>2. CASE kept # {}
    <3>1. kept \subseteq Nat /\ \A x \in kept : x <= Len(line)
      BY <1>1, <1>2
    <3>2. Max(kept) \in kept
      BY <1>1, <2>2, <3>1, MaxOf
    <3>3. Max(kept) \in 1..Len(line)
      BY <1>2, <3>2
    <3> QED
      BY <1>1, <2>2, <3>3
  <2> QED
    BY <2>1, <2>2
<1> HIDE DEF m
<1>6. \A i \in 1..m : line[i] \in Chars
  BY <1>1, <1>5, ElementOfSeq
<1>7. /\ trimmed \in Seq(Chars)
      /\ Len(trimmed) = IF 1 <= m THEN m - 1 + 1 ELSE 0
      /\ \A i \in 1..m - 1 + 1 : trimmed[i] = line[1 + i - 1]
  BY <1>1, <1>5, <1>6, SubSeqProperties
<1> HIDE DEF trimmed
<1>8. Len(trimmed) = m
  BY <1>1, <1>5, <1>7
<1>9. trimmed # <<>> <=> m # 0
  <2>1. trimmed = <<>> <=> Len(trimmed) = 0
    BY <1>7, EmptySeq
  <2> QED
    BY <1>8, <2>1
<1>10. trimmed # <<>> => 1 \in 1..Len(line) /\ Head(trimmed) = line[1]
  <2> SUFFICES ASSUME trimmed # <<>>
               PROVE  1 \in 1..Len(line) /\ Head(trimmed) = line[1]
    OBVIOUS
  <2>1. m \in 1..Len(line)
    BY <1>1, <1>5, <1>9
  <2>2. 1 \in 1..m - 1 + 1 /\ 1 + 1 - 1 = 1 /\ 1 \in 1..Len(line)
    BY <1>1, <2>1
  <2>3. trimmed[1] = line[1]
    BY <1>7, <2>2
  <2>4. Head(trimmed) = trimmed[1]
    BY <1>7
  <2> QED
    BY <2>2, <2>3, <2>4
<1> QED
  BY <1>3, <1>4, <1>5, <1>7, <1>9, <1>10

\* A line of content has one of the first ranks.
LEMMA RankOf ==
    ASSUME NEW t \in Seq(Chars)
    PROVE  /\ Content(t) \subseteq 1..Len(t) /\ Len(t) \in Nat
           /\ IsFiniteSet(Content(t)) /\ Cardinality(Content(t)) \in Nat
           /\ \A e \in Content(t) :
                  Rank(t, e) \in 1..Cardinality(Content(t))
<1>1. Feeds(t) \subseteq 1..Len(t) /\ Len(t) \in Nat /\ IsFiniteSet(Feeds(t))
  BY FeedsOf
<1>2. Content(t) \subseteq Feeds(t)
  BY DEF Content
<1>3. IsFiniteSet(Content(t))
  BY <1>1, <1>2, FS_Subset
<1>4. Cardinality(Content(t)) \in Nat
  BY <1>3, FS_CardinalityType
<1>5. ASSUME NEW e \in Content(t)
      PROVE  Rank(t, e) \in 1..Cardinality(Content(t))
  <2> DEFINE D == {d \in Content(t) : d <= e}
  <2>1. D \subseteq Content(t) /\ e \in D
    BY <1>1, <1>2
  <2>2. Rank(t, e) = Cardinality(D)
    BY DEF Rank
  <2> HIDE DEF D
  <2>3. IsFiniteSet(D) /\ Cardinality(D) <= Cardinality(Content(t))
    BY <1>3, <2>1, FS_Subset
  <2>4. Cardinality(D) \in Nat
    BY <2>3, FS_CardinalityType
  <2>5. Cardinality(D) # 0
    BY <2>1, <2>3, FS_EmptySet
  <2> QED
    BY <1>4, <2>2, <2>3, <2>4, <2>5
<1> QED
  BY <1>1, <1>2, <1>3, <1>4, <1>5

\* The lines that were there keep their rank and a new one comes after them.
LEMMA RanksGrow ==
    ASSUME NEW t \in Seq(Chars), NEW c \in Chars
    PROVE  /\ \A e \in Content(t) : Rank(Append(t, c), e) = Rank(t, e)
           /\ Content(Append(t, c)) = Content(t) \cup {Len(t) + 1} =>
                 /\ Cardinality(Content(Append(t, c)))
                        = Cardinality(Content(t)) + 1
                 /\ Rank(Append(t, c), Len(t) + 1)
                        = Cardinality(Content(t)) + 1
<1> DEFINE u == Append(t, c)
           n == Len(t)
<1>1. /\ Content(t) \subseteq 1..n /\ n \in Nat
      /\ IsFiniteSet(Content(t)) /\ Cardinality(Content(t)) \in Nat
  BY RankOf
<1>2. Content(u) = Content(t) \cup {n + 1} \/ Content(u) = Content(t)
  BY ContentGrows
<1> HIDE DEF u, n
<1>3. ASSUME NEW e \in Content(t) PROVE Rank(u, e) = Rank(t, e)
  <2>1. {d \in Content(u) : d <= e} = {d \in Content(t) : d <= e}
    BY <1>1, <1>2
  <2> QED
    BY <2>1 DEF Rank
<1>4. ASSUME Content(u) = Content(t) \cup {n + 1}
      PROVE  /\ Cardinality(Content(u)) = Cardinality(Content(t)) + 1
             /\ Rank(u, n + 1) = Cardinality(Content(t)) + 1
  <2>1. n + 1 \notin Content(t)
    BY <1>1
  <2>2. Cardinality(Content(u)) = Cardinality(Content(t)) + 1
    BY <1>1, <1>4, <2>1, FS_AddElement
  <2>3. {d \in Content(u) : d <= n + 1} = Content(u)
    BY <1>1, <1>4
  <2> QED
    BY <2>2, <2>3 DEF Rank
<1> QED
  BY <1>3, <1>4 DEF u, n

\* A line feed after an id makes it the last.
LEMMA LastIdGrows ==
    ASSUME NEW t \in Seq(Chars), NEW c \in Chars
    PROVE  LastIdOf(Append(t, c)) =
               IF c = LF /\ IsId(TrimEnd(Rest(t)))
               THEN Tail(TrimEnd(Rest(t))) ELSE LastIdOf(t)
<1> DEFINE u == Append(t, c)
           n == Len(t)
<1>1. Ids(t) \subseteq 1..n /\ n \in Nat
  BY FeedsOf DEF Ids
<1>2. CASE c = LF /\ IsId(TrimEnd(Rest(t)))
  <2>1. Ids(u) = Ids(t) \cup {n + 1}
    BY <1>2, ContentGrows
  <2>2. LineAt(u, n + 1) = TrimEnd(Rest(t))
    <3>1. n + 1 \in 1..n + 1
      BY <1>1
    <3> QED
      BY <3>1, LineStays, LineOfRest
  <2> HIDE DEF u, n
  <2>3. /\ Ids(u) \subseteq Nat /\ n + 1 \in Ids(u)
        /\ \A x \in Ids(u) : x <= n + 1
    BY <1>1, <2>1
  <2>4. Max(Ids(u)) = n + 1
    BY <2>3, MaxIs
  <2>5. LastIdOf(u) = Tail(TrimEnd(Rest(t)))
    BY <2>2, <2>3, <2>4 DEF LastIdOf
  <2> QED
    BY <1>2, <2>5 DEF u
<1>3. CASE ~(c = LF /\ IsId(TrimEnd(Rest(t))))
  <2>1. Ids(u) = Ids(t)
    BY <1>3, ContentGrows
  <2>2. CASE Ids(t) = {}
    BY <1>3, <2>1, <2>2 DEF LastIdOf
  <2>3. CASE Ids(t) # {}
    <3>1. Ids(t) \subseteq Nat /\ \A x \in Ids(t) : x <= n
      BY <1>1
    <3>2. Max(Ids(t)) \in Ids(t)
      BY <1>1, <2>3, <3>1, MaxOf
    <3>3. Max(Ids(t)) \in 1..n + 1
      BY <1>1, <3>2
    <3>4. LineAt(u, Max(Ids(t))) = LineAt(t, Max(Ids(t)))
      BY <3>3, LineStays
    <3>5. LastIdOf(u) = LastIdOf(t)
      BY <2>1, <2>3, <3>4 DEF LastIdOf
    <3> QED
      BY <1>3, <3>5
  <2> QED
    BY <2>2, <2>3
<1> QED
  BY <1>2, <1>3

-----------------------------------------------------------------------------
(* What the stream has gathered when it has read a text.                   *)

\* The state of a stream that has read the text t: the buffer holds what
\* follows the last line feed, read the lines of content in order, and id the
\* last event id.
Reads(t, buf, read, id) ==
    /\ buf = Rest(t)
    /\ Len(read) = Cardinality(Content(t))
    /\ \A e \in Content(t) : read[Rank(t, e)] = LineAt(t, e)
    /\ id = LastIdOf(t)

States ==
    [buffer : Seq(Chars), pending : Seq(Seq(Chars)), lastEventId : Seq(Chars)]

\* The fields of what process_line leaves.
LEMMA ProcessLineOf ==
    ASSUME NEW s \in States, NEW line \in Seq(Chars)
    PROVE  LET r == ProcessLine(s, line)
           IN  /\ r \in States /\ r.buffer = <<>>
               /\ r.pending = IF IsContent(line) THEN Append(s.pending, line)
                              ELSE s.pending
               /\ r.lastEventId = IF IsId(line) THEN Tail(line)
                                  ELSE s.lastEventId
<1> DEFINE r == ProcessLine(s, line)
           p == IF IsContent(line) THEN Append(s.pending, line) ELSE s.pending
           id == IF IsId(line) THEN Tail(line) ELSE s.lastEventId
<1>1. /\ s.buffer \in Seq(Chars) /\ s.pending \in Seq(Seq(Chars))
      /\ s.lastEventId \in Seq(Chars)
      /\ s = [buffer |-> s.buffer, pending |-> s.pending,
              lastEventId |-> s.lastEventId]
  BY DEF States
<1>2. r = [buffer |-> <<>>, pending |-> p, lastEventId |-> id]
  <2>1. r = [s EXCEPT !.buffer = <<>>, !.pending = p, !.lastEventId = id]
    BY Zenon DEF ProcessLine
  <2> HIDE DEF r, p, id
  <2> QED
    BY <1>1, <2>1 DEF States
<1>3. p \in Seq(Seq(Chars))
  <2>1. Append(s.pending, line) \in Seq(Seq(Chars))
    BY <1>1
  <2> QED
    BY <1>1, <2>1
<1>4. id \in Seq(Chars)
  <2>1. line # <<>> => Tail(line) \in Seq(Chars)
    BY HeadTailProperties
  <2> QED
    BY <1>1, <2>1 DEF IsId
<1>5. <<>> \in Seq(Chars)
  OBVIOUS
<1> HIDE DEF r, p, id
<1>6. r \in States
  BY <1>2, <1>3, <1>4, <1>5 DEF States
<1>7. r.buffer = <<>> /\ r.pending = p /\ r.lastEventId = id
  BY <1>2
<1> QED
  BY <1>6, <1>7 DEF r, p, id

\* One more character: the stream has read the longer text.
LEMMA ReadsChar ==
    ASSUME NEW t \in Seq(Chars), NEW c \in Chars,
           NEW before \in Seq(Seq(Chars)), NEW s \in States,
           Reads(t, s.buffer, before \o s.pending, s.lastEventId)
    PROVE  LET r == ProcessChar(s, c)
           IN  /\ r \in States
               /\ Reads(Append(t, c), r.buffer, before \o r.pending,
                        r.lastEventId)
<1> DEFINE u == Append(t, c)
           r == ProcessChar(s, c)
           line == TrimEnd(Rest(t))
           read == before \o s.pending
           more == before \o r.pending
<1>1. /\ s.buffer \in Seq(Chars) /\ s.pending \in Seq(Seq(Chars))
      /\ s.lastEventId \in Seq(Chars)
      /\ s = [buffer |-> s.buffer, pending |-> s.pending,
              lastEventId |-> s.lastEventId]
  BY DEF States
<1>2. /\ s.buffer = Rest(t) /\ Len(read) = Cardinality(Content(t))
      /\ \A e \in Content(t) : read[Rank(t, e)] = LineAt(t, e)
      /\ s.lastEventId = LastIdOf(t)
  BY DEF Reads
<1>3. line \in Seq(Chars)
  BY <1>1, <1>2, TrimEndOf
<1>4. read \in Seq(Seq(Chars)) /\ Len(read) \in Nat
  BY <1>1
<1>5. /\ Content(t) \subseteq 1..Len(t) /\ Len(t) \in Nat
      /\ \A e \in Content(t) : Rank(t, e) \in 1..Len(read)
  BY <1>2, RankOf
<1>6. \A e \in Content(t) : LineAt(u, e) = LineAt(t, e)
  <2>1. \A e \in Content(t) : e \in 1..Len(t) + 1
    BY <1>5
  <2> QED
    BY <2>1, LineStays
<1>7. CASE c = LF
  <2> DEFINE isContent == IsContent(line)
  <2>1. r = ProcessLine(s, line)
    BY <1>2, <1>7 DEF ProcessChar
  <2>2. /\ r \in States /\ r.buffer = <<>>
        /\ r.pending = IF isContent THEN Append(s.pending, line) ELSE s.pending
        /\ r.lastEventId = IF IsId(line) THEN Tail(line) ELSE s.lastEventId
    <3> HIDE DEF r, line
    <3> QED
      BY <1>3, <2>1, ProcessLineOf
  <2>3. Rest(u) = <<>>
    BY <1>7, RestGrows
  <2>4. r.lastEventId = LastIdOf(u)
    BY <1>2, <1>7, <2>2, LastIdGrows
  <2>5. CASE isContent
    <3>1. Content(u) = Content(t) \cup {Len(t) + 1}
      BY <1>7, <2>5, ContentGrows
    <3>2. /\ \A e \in Content(t) : Rank(u, e) = Rank(t, e)
          /\ Cardinality(Content(u)) = Cardinality(Content(t)) + 1
          /\ Rank(u, Len(t) + 1) = Cardinality(Content(t)) + 1
      BY <3>1, RanksGrow
    <3>3. LineAt(u, Len(t) + 1) = line
      <4>1. Len(t) + 1 \in 1..Len(t) + 1
        BY <1>5
      <4> QED
        BY <4>1, LineStays, LineOfRest
    <3> HIDE DEF u, r, line, read
    <3>4. more = Append(read, line)
      <4>1. before \o Append(s.pending, line)
                = Append(before \o s.pending, line)
        BY <1>1, <1>3
      <4> QED
        BY <2>2, <2>5, <4>1 DEF read
    <3> HIDE DEF more
    <3>5. /\ Len(more) = Len(read) + 1 /\ more[Len(read) + 1] = line
          /\ \A i \in 1..Len(read) : more[i] = read[i]
      BY <1>3, <1>4, <3>4
    <3>6. ASSUME NEW e \in Content(u) PROVE more[Rank(u, e)] = LineAt(u, e)
      <4>1. CASE e = Len(t) + 1
        BY <1>2, <3>2, <3>3, <3>5, <4>1
      <4>2. CASE e # Len(t) + 1
        <5>1. e \in Content(t)
          BY <3>1, <4>2
        <5>2. Rank(u, e) = Rank(t, e) /\ Rank(t, e) \in 1..Len(read)
          BY <1>5, <3>2, <5>1
        <5> QED
          BY <1>2, <1>6, <3>5, <5>1, <5>2
      <4> QED
        BY <4>1, <4>2
    <3>7. Len(more) = Cardinality(Content(u))
      BY <1>2, <3>2, <3>5
    <3>8. Reads(u, r.buffer, more, r.lastEventId)
      BY <2>2, <2>3, <2>4, <3>6, <3>7 DEF Reads
    <3> QED
      BY <2>2, <3>8 DEF u, r, more
  <2>6. CASE ~isContent
    <3>1. Content(u) = Content(t)
      BY <1>7, <2>6, ContentGrows
    <3>2. \A e \in Content(t) : Rank(u, e) = Rank(t, e)
      BY RanksGrow
    <3>3. more = read
      BY <2>2, <2>6
    <3> HIDE DEF u, r, more, read
    <3>4. Reads(u, r.buffer, more, r.lastEventId)
      BY <1>2, <1>6, <2>2, <2>3, <2>4, <3>1, <3>2, <3>3 DEF Reads
    <3> QED
      BY <2>2, <3>4 DEF u, r, more
  <2> QED
    BY <2>5, <2>6
<1>8. CASE c # LF
  <2>1. r = [buffer |-> Append(s.buffer, c), pending |-> s.pending,
             lastEventId |-> s.lastEventId]
    BY <1>1, <1>8 DEF ProcessChar, States
  <2>2. Append(s.buffer, c) \in Seq(Chars)
    BY <1>1
  <2>3. Rest(u) = Append(Rest(t), c)
    BY <1>8, RestGrows
  <2>4. Content(u) = Content(t)
    BY <1>8, ContentGrows
  <2>5. \A e \in Content(t) : Rank(u, e) = Rank(t, e)
    BY RanksGrow
  <2>6. LastIdOf(u) = LastIdOf(t)
    BY <1>8, LastIdGrows
  <2> HIDE DEF u, r
  <2>7. /\ r.buffer = Append(s.buffer, c) /\ r.pending = s.pending
        /\ r.lastEventId = s.lastEventId
    BY <2>1
  <2>8. r \in States
    BY <1>1, <2>1, <2>2 DEF States
  <2>9. more = read
    BY <2>7
  <2> HIDE DEF more, read
  <2>10. Reads(u, r.buffer, more, r.lastEventId)
    BY <1>2, <1>6, <2>3, <2>4, <2>5, <2>6, <2>7, <2>9 DEF Reads
  <2> QED
    BY <2>8, <2>10 DEF u, r, more
<1> QED
  BY <1>7, <1>8

\* The equation of process_buffer's loop has a solution.
LEMMA BufferSteps ==
    ASSUME NEW s, NEW chars \in Seq(Chars)
    PROVE  \E g : /\ g = [n \in 0..Len(chars) |->
                            IF n = 0 THEN s
                            ELSE ProcessChar(g[n - 1], chars[n])]
                  /\ ProcessBuffer(s, chars) = g[Len(chars)]
<1> DEFINE Solves(g, m) ==
              g = [n \in 0..m |->
                      IF n = 0 THEN s ELSE ProcessChar(g[n - 1], chars[n])]
           T == {m \in Nat : ~\E g : Solves(g, m)}
<1>1. T = {}
  <2> SUFFICES ASSUME T # {} PROVE FALSE
    OBVIOUS
  <2>1. T \subseteq Nat
    OBVIOUS
  <2>2. PICK m \in T : \A k \in T : m <= k
    <3> HIDE DEF T
    <3> QED
      BY <2>1, LeastNumber
  <2>3. m \in Nat /\ ~\E g : Solves(g, m)
    BY <2>2
  <2>4. CASE m = 0
    <3> DEFINE g == [n \in 0..0 |-> s]
    <3>1. Solves(g, 0)
      <4>1. \A n \in 0..0 : n = 0
        OBVIOUS
      <4> QED
        BY <4>1
    <3> QED
      BY <2>3, <2>4, <3>1
  <2>5. CASE m # 0
    <3>1. m - 1 \in Nat /\ m - 1 \notin T
      <4>1. m \in Nat /\ m # 0
        BY <2>3, <2>5
      <4> HIDE DEF T
      <4> QED
        BY <2>2, <4>1
    <3>2. PICK g : Solves(g, m - 1)
      BY <3>1
    <3> DEFINE h == [n \in 0..m |->
                        IF n = m THEN ProcessChar(g[m - 1], chars[m])
                        ELSE g[n]]
    <3>3. \A n \in 0..m : h[n] = IF n = 0 THEN s
                                 ELSE ProcessChar(h[n - 1], chars[n])
      <4> SUFFICES ASSUME NEW n \in 0..m
                   PROVE  h[n] = IF n = 0 THEN s
                                 ELSE ProcessChar(h[n - 1], chars[n])
        OBVIOUS
      <4>1. CASE n = m
        <5>1. n # 0 /\ n - 1 \in 0..m /\ n - 1 # m
          BY <2>3, <2>5, <4>1
        <5>2. h[n] = ProcessChar(g[m - 1], chars[m]) /\ h[n - 1] = g[n - 1]
          BY <4>1, <5>1
        <5> HIDE DEF h
        <5> QED
          BY <4>1, <5>1, <5>2
      <4>2. CASE n # m
        <5>1. h[n] = g[n]
          BY <4>2
        <5>2. n \in 0..m - 1
          BY <2>3, <4>2
        <5>3. g[n] = IF n = 0 THEN s ELSE ProcessChar(g[n - 1], chars[n])
          BY <3>2, <5>2
        <5>4. n # 0 => h[n - 1] = g[n - 1]
          <6> SUFFICES ASSUME n # 0 PROVE h[n - 1] = g[n - 1]
            OBVIOUS
          <6>1. n - 1 \in 0..m /\ n - 1 # m
            BY <2>3, <5>2
          <6> QED
            BY <6>1
        <5> HIDE DEF h
        <5> QED
          BY <5>1, <5>3, <5>4
      <4> QED
        BY <4>1, <4>2
    <3>4. h = [n \in 0..m |-> h[n]]
      OBVIOUS
    <3> HIDE DEF h
    <3>5. Solves(h, m)
      BY <3>3, <3>4
    <3> QED
      BY <2>3, <3>5
  <2> QED
    BY <2>4, <2>5
<1>2. Len(chars) \in Nat
  BY LenProperties
<1>3. PICK h : Solves(h, Len(chars))
  BY <1>1, <1>2
<1> DEFINE g == CHOOSE f : Solves(f, Len(chars))
<1>4. Solves(g, Len(chars))
  BY <1>3
<1>5. ProcessBuffer(s, chars) = g[Len(chars)]
  BY DEF ProcessBuffer
<1> HIDE DEF g
<1> QED
  BY <1>4, <1>5

\* A chunk: the stream has read the text with the chunk after it.
LEMMA ReadsBuffer ==
    ASSUME NEW t \in Seq(Chars), NEW d \in Seq(Chars),
           NEW before \in Seq(Seq(Chars)), NEW s \in States,
           Reads(t, s.buffer, before \o s.pending, s.lastEventId)
    PROVE  LET r == ProcessBuffer(s, d)
           IN  /\ r \in States
               /\ Reads(t \o d, r.buffer, before \o r.pending, r.lastEventId)
<1>1. PICK g : /\ g = [n \in 0..Len(d) |->
                          IF n = 0 THEN s ELSE ProcessChar(g[n - 1], d[n])]
               /\ ProcessBuffer(s, d) = g[Len(d)]
  BY BufferSteps
<1>2. Len(d) \in Nat
  BY LenProperties
<1>3. g[0] = s /\ \A n \in 1..Len(d) : g[n] = ProcessChar(g[n - 1], d[n])
  <2>1. \A n \in 0..Len(d) :
           g[n] = IF n = 0 THEN s ELSE ProcessChar(g[n - 1], d[n])
    BY <1>1
  <2>2. 0 \in 0..Len(d) /\ \A n \in 1..Len(d) : n \in 0..Len(d) /\ n # 0
    BY <1>2
  <2> QED
    BY <2>1, <2>2
<1> DEFINE text(n) == t \o SubSeq(d, 1, n)
           P(n) == /\ g[n] \in States
                   /\ Reads(text(n), g[n].buffer, before \o g[n].pending,
                            g[n].lastEventId)
           T == {n \in 0..Len(d) : ~P(n)}
<1>4. T = {}
  <2> SUFFICES ASSUME T # {} PROVE FALSE
    OBVIOUS
  <2>1. T \subseteq Nat
    BY <1>2
  <2>2. PICK m \in T : \A k \in T : m <= k
    <3> HIDE DEF T
    <3> QED
      BY <2>1, LeastNumber
  <2>3. m \in 0..Len(d) /\ ~P(m)
    BY <2>2
  <2>4. CASE m = 0
    <3>1. SubSeq(d, 1, 0) = <<>>
      BY SubSeqEmpty
    <3>2. text(0) = t
      BY <3>1
    <3> HIDE DEF text
    <3> QED
      BY <1>3, <2>3, <2>4, <3>2
  <2>5. CASE m # 0
    <3>1. m \in 1..Len(d) /\ m - 1 \in 0..Len(d) /\ m \in Nat
      BY <1>2, <2>3, <2>5
    <3>2. P(m - 1)
      <4>1. m - 1 \notin T
        BY <2>1, <2>2, <3>1
      <4> HIDE DEF P
      <4> QED
        BY <3>1, <4>1
    <3>3. d[m] \in Chars /\ \A i \in 1..Len(d) : d[i] \in Chars
      BY <3>1, ElementOfSeq
    <3>4. SubSeq(d, 1, m - 1) \in Seq(Chars)
      <4>1. \A i \in 1..m - 1 : d[i] \in Chars
        BY <1>2, <3>1, <3>3
      <4> QED
        BY <3>1, <4>1, SubSeqProperties
    <3>5. SubSeq(d, 1, m) = SubSeq(d, 1, m - 1) \o <<d[m]>>
      BY <1>2, <3>1, SubSeqRecursiveSecond
    <3>6. text(m - 1) \in Seq(Chars)
      BY <3>4
    <3>7. text(m) = Append(text(m - 1), d[m])
      <4> DEFINE x == SubSeq(d, 1, m - 1)
                 y == SubSeq(d, 1, m)
      <4>1. x \in Seq(Chars) /\ y = x \o <<d[m]>>
        BY <3>4, <3>5
      <4>2. text(m) = t \o y /\ text(m - 1) = t \o x
        OBVIOUS
      <4> HIDE DEF x, y, text
      <4>3. t \o (x \o <<d[m]>>) = Append(t \o x, d[m])
        BY <3>3, <4>1
      <4> QED
        BY <4>1, <4>2, <4>3
    <3> HIDE DEF text
    <3>8. g[m] = ProcessChar(g[m - 1], d[m])
      BY <1>3, <3>1
    <3>9. P(m)
      BY <3>2, <3>3, <3>6, <3>7, <3>8, ReadsChar
    <3> QED
      BY <2>3, <3>9
  <2> QED
    BY <2>4, <2>5
<1>5. P(Len(d))
  <2>1. Len(d) \in 0..Len(d)
    BY <1>2
  <2> HIDE DEF P
  <2> QED
    BY <1>4, <2>1
<1>6. text(Len(d)) = t \o d
  BY SubSeqFull
<1> HIDE DEF text
<1> QED
  BY <1>1, <1>5, <1>6

-----------------------------------------------------------------------------
(* Texts that differ in the halves of characters only.                     *)

\* The characters that lines and their kinds depend on.
Marks == {LF, CR, IdPrefix}

SameMarks(t, u) ==
    /\ Len(t) = Len(u)
    /\ \A i \in 1..Len(t) :
          t[i] = u[i] \/ (t[i] \notin Marks /\ u[i] \notin Marks)

\* Their lines are of the same kinds.
LEMMA KindsAgree ==
    ASSUME NEW t \in Seq(Chars), NEW u \in Seq(Chars), SameMarks(t, u)
    PROVE  IsContent(TrimEnd(t)) <=> IsContent(TrimEnd(u))
<1>1. /\ Len(t) = Len(u)
      /\ \A i \in 1..Len(t) : /\ t[i] = CR <=> u[i] = CR
                              /\ t[i] = IdPrefix <=> u[i] = IdPrefix
  BY DEF SameMarks, Marks
<1>2. TrimEnd(t) # <<>> <=> TrimEnd(u) # <<>>
  BY <1>1, TrimEndOf
<1>3. TrimEnd(t) # <<>> =>
         (Head(TrimEnd(t)) = IdPrefix <=> Head(TrimEnd(u)) = IdPrefix)
  BY <1>1, <1>2, TrimEndOf
<1> QED
  BY <1>2, <1>3 DEF IsContent, IsId

\* They have their lines of content at the same places.
LEMMA ContentAgrees ==
    ASSUME NEW t \in Seq(Chars), NEW u \in Seq(Chars), SameMarks(t, u)
    PROVE  Content(t) = Content(u)
<1>1. /\ Len(t) = Len(u) /\ Len(t) \in Nat
      /\ DOMAIN t = 1..Len(t) /\ DOMAIN u = 1..Len(t)
      /\ \A i \in 1..Len(t) : t[i] = LF <=> u[i] = LF
  BY LenProperties DEF SameMarks, Marks
<1>2. Feeds(t) = Feeds(u)
  BY <1>1 DEF Feeds
<1>3. \A e : Start(t, e) = Start(u, e)
  BY <1>2 DEF Start
<1>4. ASSUME NEW e \in Feeds(t)
      PROVE  IsContent(LineAt(t, e)) <=> IsContent(LineAt(u, e))
  <2> DEFINE a == Start(t, e)
             x == SubSeq(t, a, e - 1)
             y == SubSeq(u, a, e - 1)
  <2>1. e \in 1..Len(t) /\ e \in 1..Len(t) + 1
    BY <1>1, FeedsOf
  <2>2. a \in 1..e
    BY <2>1, StartOf
  <2>3. LineAt(t, e) = TrimEnd(x) /\ LineAt(u, e) = TrimEnd(y)
    BY <1>3 DEF LineAt
  <2> HIDE DEF a
  <2>4. \A i \in a..e - 1 : i \in 1..Len(t)
    BY <1>1, <2>1, <2>2
  <2>5. \A i \in a..e - 1 : t[i] \in Chars /\ u[i] \in Chars
    BY <1>1, <2>4, ElementOfSeq
  <2>6. a \in Int /\ e - 1 \in Int
    BY <2>1, <2>2
  <2>7. /\ x \in Seq(Chars) /\ Len(x) = IF a <= e - 1 THEN e - 1 - a + 1 ELSE 0
        /\ \A i \in 1..e - 1 - a + 1 : x[i] = t[a + i - 1]
    BY <2>5, <2>6, SubSeqProperties
  <2>8. /\ y \in Seq(Chars) /\ Len(y) = IF a <= e - 1 THEN e - 1 - a + 1 ELSE 0
        /\ \A i \in 1..e - 1 - a + 1 : y[i] = u[a + i - 1]
    BY <2>5, <2>6, SubSeqProperties
  <2> HIDE DEF x, y
  <2>9. ASSUME NEW i \in 1..Len(x)
        PROVE  x[i] = y[i] \/ (x[i] \notin Marks /\ y[i] \notin Marks)
    <3>1. i \in 1..e - 1 - a + 1 /\ a + i - 1 \in a..e - 1
      BY <2>1, <2>2, <2>7
    <3>2. x[i] = t[a + i - 1] /\ y[i] = u[a + i - 1]
      BY <2>7, <2>8, <3>1
    <3>3. a + i - 1 \in 1..Len(t)
      BY <2>4, <3>1
    <3> QED
      BY <3>2, <3>3 DEF SameMarks
  <2>10. SameMarks(x, y)
    BY <2>7, <2>8, <2>9 DEF SameMarks
  <2> QED
    BY <2>3, <2>7, <2>8, <2>10, KindsAgree
<1> QED
  BY <1>2, <1>4 DEF Content

\* A chunk that is decoded has the marks of its bytes, and is its bytes if it
\* cuts no character.
LEMMA DecodeOf ==
    ASSUME NEW bytes \in Seq(Bytes)
    PROVE  /\ Decode(bytes) \in Seq(Chars) /\ SameMarks(Decode(bytes), bytes)
           /\ bytes # <<>> /\ bytes[1] # Second /\ bytes[Len(bytes)] # First =>
                  Decode(bytes) = bytes
<1>1. /\ Len(bytes) \in Nat /\ DOMAIN bytes = 1..Len(bytes)
      /\ bytes = [i \in 1..Len(bytes) |-> bytes[i]]
      /\ \A i \in 1..Len(bytes) : bytes[i] \in Bytes
  BY LenProperties, ElementOfSeq
<1> DEFINE d == Decode(bytes)
           n == Len(bytes)
           c(i) == IF \/ bytes[i] = First /\ i = n
                      \/ bytes[i] = Second /\ i = 1
                   THEN Unknown ELSE bytes[i]
<1>2. d = [i \in 1..n |-> c(i)]
  BY <1>1 DEF Decode
<1>3. \A i \in 1..n : c(i) \in Chars
  BY <1>1 DEF Chars
<1>4. \A i \in 1..n :
         c(i) = bytes[i] \/ (c(i) \notin Marks /\ bytes[i] \notin Marks)
  BY DEF Marks, First, Second, Unknown, LF, CR, IdPrefix
<1>5. ASSUME bytes # <<>>, bytes[1] # Second, bytes[n] # First
      PROVE  \A i \in 1..n : c(i) = bytes[i]
  BY <1>5
<1> HIDE DEF d, c, n
<1>6. d \in Seq(Chars) /\ Len(d) = n /\ \A i \in 1..n : d[i] = c(i)
  <2>1. d \in [1..n -> Chars]
    BY <1>2, <1>3
  <2>2. n \in Nat
    BY <1>1 DEF n
  <2> QED
    BY <1>2, <2>1, <2>2, SeqDef
<1>7. SameMarks(d, bytes)
  BY <1>4, <1>6 DEF SameMarks, n
<1>8. ASSUME bytes # <<>>, bytes[1] # Second, bytes[n] # First
      PROVE  d = bytes
  BY <1>1, <1>2, <1>5, <1>8 DEF n
<1> QED
  BY <1>6, <1>7, <1>8 DEF d, n

\* Texts with the same marks have them when they are continued alike.
LEMMA JoinAgrees ==
    ASSUME NEW t \in Seq(Chars), NEW u \in Seq(Chars), SameMarks(t, u),
           NEW d \in Seq(Chars), NEW e \in Seq(Chars), SameMarks(d, e)
    PROVE  SameMarks(t \o d, u \o e)
<1> DEFINE x == t \o d
           y == u \o e
           n == Len(t)
           k == Len(d)
<1>1. /\ n \in Nat /\ k \in Nat /\ Len(u) = n /\ Len(e) = k
      /\ \A i \in 1..n :
            t[i] = u[i] \/ (t[i] \notin Marks /\ u[i] \notin Marks)
      /\ \A i \in 1..k :
            d[i] = e[i] \/ (d[i] \notin Marks /\ e[i] \notin Marks)
  BY LenProperties DEF SameMarks
<1>2. /\ Len(x) = n + k
      /\ \A i \in 1..n + k : x[i] = IF i <= n THEN t[i] ELSE d[i - n]
  BY ConcatProperties
<1>3. /\ Len(y) = n + k
      /\ \A i \in 1..n + k : y[i] = IF i <= n THEN u[i] ELSE e[i - n]
  <2>1. /\ Len(y) = Len(u) + Len(e)
        /\ \A i \in 1..Len(u) + Len(e) :
              y[i] = IF i <= Len(u) THEN u[i] ELSE e[i - Len(u)]
    BY ConcatProperties
  <2> HIDE DEF y, n, k
  <2> QED
    BY <1>1, <2>1
<1> HIDE DEF x, y, n, k
<1>4. ASSUME NEW i \in 1..n + k
      PROVE  x[i] = y[i] \/ (x[i] \notin Marks /\ y[i] \notin Marks)
  <2>1. CASE i <= n
    <3>1. i \in 1..n
      BY <1>1, <2>1
    <3> QED
      BY <1>1, <1>2, <1>3, <2>1, <3>1
  <2>2. CASE ~(i <= n)
    <3>1. i - n \in 1..k
      BY <1>1, <2>2
    <3> QED
      BY <1>1, <1>2, <1>3, <2>2, <3>1
  <2> QED
    BY <2>1, <2>2
<1>5. SameMarks(x, y)
  BY <1>2, <1>3, <1>4 DEF SameMarks
<1> QED
  BY <1>5 DEF x, y

-----------------------------------------------------------------------------
(* The stream: a text that has the marks of the body, and is the body as   *)
(* long as no character was cut, has been read.                            *)

TextOK ==
    /\ body \in Seq(Bytes)
    /\ buffer \in Seq(Chars) /\ lastEventId \in Seq(Chars)
    /\ pending \in Seq(Seq(Chars)) /\ taken \in Seq(Seq(Chars))
    /\ ~torn => body = <<>> \/ body[Len(body)] # First
    /\ \E t \in Seq(Chars) :
          /\ SameMarks(t, ReadText) /\ (~torn => t = ReadText)
          /\ Reads(t, buffer, taken \o pending, lastEventId)

\* The steps of the stream, and those that leave it alone.
LEMMA StreamSteps ==
    [BindingNext]_bindingVars =>
        \/ TakeLine \/ ReadFails \/ BodyEnds
        \/ \E bytes \in Chunks : Chunk(bytes)
        \/ UNCHANGED streamVars
BY DEF BindingNext, bindingVars, Forward, Server, ConnectOk, Opened, Top,
       Check, Callback, Cancelled, StreamData, StreamOver, ConnectErr,
       Network, StreamError, ClientEnds, ClientLine, Grant, NapiClose,
       Perform, Call

\* Bytes are characters.
LEMMA BytesAreChars == \A q \in Seq(Bytes) : q \in Seq(Chars)
<1>1. Bytes \subseteq Chars
  BY DEF Chars
<1> QED
  BY <1>1, SeqMonotonic

\* Nothing has been read at first.
LEMMA TextInit == StreamInit => TextOK
<1> SUFFICES ASSUME StreamInit PROVE TextOK
  OBVIOUS
<1> DEFINE t == <<>>
<1>1. /\ buffer = <<>> /\ pending = <<>> /\ lastEventId = <<>> /\ over = FALSE
      /\ body = <<>> /\ torn = FALSE /\ taken = <<>>
  BY DEF StreamInit
<1>2. /\ t \in Seq(Chars) /\ t \in Seq(Bytes) /\ t \in Seq(Seq(Chars))
      /\ Len(t) = 0 /\ t \o t = t
  OBVIOUS
<1>3. Feeds(t) = {}
  <2>1. DOMAIN t = {}
    OBVIOUS
  <2> HIDE DEF t
  <2> QED
    BY <2>1 DEF Feeds
<1>4. Content(t) = {} /\ Ids(t) = {}
  BY <1>3 DEF Content, Ids
<1>5. Rest(t) = <<>>
  <2>1. Start(t, 1) \in 1..1
    <3>1. 1 \in 1..Len(t) + 1
      BY <1>2
    <3> QED
      BY <1>2, <3>1, StartOf
  <2>2. Start(t, Len(t) + 1) = 1
    BY <1>2, <2>1
  <2>3. SubSeq(t, 1, 0) = <<>>
    BY SubSeqEmpty
  <2> QED
    BY <1>2, <2>2, <2>3 DEF Rest
<1> HIDE DEF t
<1>6. Cardinality(Content(t)) = 0
  BY <1>4, FS_EmptySet
<1>7. Reads(t, t, t \o t, t)
  BY <1>2, <1>4, <1>5, <1>6 DEF Reads, LastIdOf, t
<1>8. ReadText = t /\ SameMarks(t, t)
  BY <1>1, <1>2 DEF ReadText, SameMarks, t
<1>9. buffer = t /\ pending = t /\ lastEventId = t /\ body = t /\ taken = t
  BY <1>1 DEF t
<1>10. body = <<>>
  BY <1>1
<1> QED
  BY <1>2, <1>7, <1>8, <1>9, <1>10 DEF TextOK

\* A chunk.
LEMMA TextChunkStep ==
    ASSUME TextOK, NEW bytes \in Chunks, Chunk(bytes)
    PROVE  TextOK'
<1> DEFINE d == Decode(bytes)
           s == Gathered
           r == ProcessBuffer(s, d)
<1>1. PICK t \in Seq(Chars) :
         /\ SameMarks(t, ReadText) /\ (~torn => t = ReadText)
         /\ Reads(t, buffer, taken \o pending, lastEventId)
  BY DEF TextOK
<1>2. /\ body \in Seq(Bytes)
      /\ buffer \in Seq(Chars) /\ lastEventId \in Seq(Chars)
      /\ pending \in Seq(Seq(Chars)) /\ taken \in Seq(Seq(Chars))
      /\ ~torn => body = <<>> \/ body[Len(body)] # First
  BY DEF TextOK
<1>3. /\ ~over /\ over' = over /\ taken' = taken /\ body' = body \o bytes
      /\ torn' = (torn \/ bytes[Len(bytes)] = First)
      /\ buffer' = r.buffer /\ pending' = r.pending
      /\ lastEventId' = r.lastEventId
  BY DEF Chunk, Gather
<1>4. bytes \in Seq(Bytes) /\ bytes # <<>> /\ Utf8(body \o bytes)
  <2>1. PICK n \in 1..(MaxBytes - Len(body)) : bytes \in [1..n -> Bytes]
    BY DEF Chunks
  <2>2. n \in Nat /\ n # 0
    BY <2>1
  <2>3. bytes \in Seq(Bytes) /\ Len(bytes) = n
    BY <2>1, <2>2, SeqDef
  <2> QED
    BY <2>2, <2>3 DEF Chunks
<1>5. /\ d \in Seq(Chars) /\ SameMarks(d, bytes)
      /\ bytes[1] # Second /\ bytes[Len(bytes)] # First => d = bytes
  BY <1>4, DecodeOf
<1>6. body \in Seq(Chars) /\ bytes \in Seq(Chars)
  BY <1>2, <1>4, BytesAreChars
<1>7. s \in States /\ s.buffer = buffer /\ s.pending = pending
      /\ s.lastEventId = lastEventId
  BY <1>2 DEF Gathered, States
<1> HIDE DEF d, s
<1>8. /\ r \in States
      /\ Reads(t \o d, r.buffer, taken \o r.pending, r.lastEventId)
  BY <1>1, <1>2, <1>5, <1>7, ReadsBuffer
<1> HIDE DEF r
<1>9. ReadText = body /\ ReadText' = body'
  BY <1>3 DEF ReadText
<1>10. body' \in Seq(Bytes) /\ t \o d \in Seq(Chars)
  BY <1>2, <1>3, <1>4, <1>5
<1>11. SameMarks(t \o d, body')
  BY <1>1, <1>3, <1>5, <1>6, <1>9, JoinAgrees
<1>12. ASSUME ~torn' PROVE t \o d = body' /\ body'[Len(body')] # First
  <2>1. ~torn /\ bytes[Len(bytes)] # First /\ t = body
    BY <1>1, <1>3, <1>9, <1>12
  <2>2. /\ Len(body) \in Nat /\ Len(bytes) \in Nat /\ Len(bytes) >= 1
        /\ Len(body \o bytes) = Len(body) + Len(bytes)
        /\ \A i \in 1..Len(body) + Len(bytes) : (body \o bytes)[i] =
               IF i <= Len(body) THEN body[i] ELSE bytes[i - Len(body)]
    BY <1>2, <1>4, ConcatProperties, LenProperties, EmptySeq
  <2> DEFINE whole == body \o bytes
             n == Len(body)
             k == Len(bytes)
  <2>3. /\ DOMAIN whole = 1..n + k
        /\ \A i \in 1..n + k :
              whole[i] = Second <=> i > 1 /\ whole[i - 1] = First
    <3>1. DOMAIN whole = 1..n + k
      BY <1>2, <1>4, <2>2, ConcatProperties, LenProperties
    <3> QED
      BY <1>4, <3>1 DEF Utf8
  <2> HIDE DEF whole
  <2>4. whole[n + 1] = bytes[1] /\ whole[n + k] = bytes[k]
    <3>1. n + 1 \in 1..n + k /\ n + k \in 1..n + k
          /\ ~(n + 1 <= n) /\ ~(n + k <= n)
          /\ n + 1 - n = 1 /\ n + k - n = k
      BY <2>2
    <3> QED
      BY <2>2, <3>1 DEF whole
  <2>5. bytes[1] # Second
    <3> SUFFICES ASSUME bytes[1] = Second PROVE FALSE
      OBVIOUS
    <3>1. n + 1 \in 1..n + k
      BY <2>2
    <3>2. n + 1 > 1 /\ whole[n + 1 - 1] = First
      BY <2>3, <2>4, <3>1
    <3>3. n + 1 - 1 = n /\ n \in 1..n /\ n \in 1..n + k
      BY <2>2, <3>2
    <3>4. whole[n] = body[n]
      BY <2>2, <3>3 DEF whole
    <3>5. body # <<>>
      BY <2>2, <3>2
    <3> QED
      BY <1>2, <2>1, <3>2, <3>3, <3>4, <3>5
  <2>6. d = bytes
    BY <1>5, <2>1, <2>5
  <2>7. body' = whole /\ Len(body') = n + k
    BY <1>3, <2>2 DEF whole
  <2> QED
    BY <1>3, <2>1, <2>4, <2>6, <2>7
<1>13. \E t2 \in Seq(Chars) :
          /\ SameMarks(t2, ReadText') /\ (~torn' => t2 = ReadText')
          /\ Reads(t2, buffer', taken' \o pending', lastEventId')
  BY <1>3, <1>8, <1>9, <1>10, <1>11, <1>12
<1>14. /\ buffer' \in Seq(Chars) /\ lastEventId' \in Seq(Chars)
       /\ pending' \in Seq(Seq(Chars)) /\ taken' \in Seq(Seq(Chars))
  BY <1>2, <1>3, <1>8 DEF States
<1> QED
  BY <1>10, <1>12, <1>13, <1>14 DEF TextOK

\* The end of the body, which is a line feed to the last line.
LEMMA TextEndStep ==
    ASSUME TextOK, BodyEnds
    PROVE  TextOK'
<1> DEFINE s == Gathered
           r == ProcessChar(s, LF)
<1>1. PICK t \in Seq(Chars) :
         /\ SameMarks(t, ReadText) /\ (~torn => t = ReadText)
         /\ Reads(t, buffer, taken \o pending, lastEventId)
  BY DEF TextOK
<1>2. /\ body \in Seq(Bytes)
      /\ buffer \in Seq(Chars) /\ lastEventId \in Seq(Chars)
      /\ pending \in Seq(Seq(Chars)) /\ taken \in Seq(Seq(Chars))
      /\ ~torn => body = <<>> \/ body[Len(body)] # First
  BY DEF TextOK
<1>3. s \in States /\ s.buffer = buffer /\ s.pending = pending
      /\ s.lastEventId = lastEventId
  BY <1>2 DEF Gathered, States
<1>4. r = ProcessLine(Gathered, TrimEnd(buffer))
  BY <1>3 DEF ProcessChar
<1>5. /\ ~over /\ over' /\ taken' = taken /\ body' = body /\ torn' = torn
      /\ buffer' = r.buffer /\ pending' = r.pending
      /\ lastEventId' = r.lastEventId
  BY <1>4 DEF BodyEnds, Gather
<1>6. LF \in Chars /\ body \in Seq(Chars)
  BY <1>2, BytesAreChars DEF Chars, Bytes
<1> HIDE DEF s
<1>7. /\ r \in States
      /\ Reads(Append(t, LF), r.buffer, taken \o r.pending, r.lastEventId)
  BY <1>1, <1>2, <1>3, <1>6, ReadsChar
<1> HIDE DEF r
<1>8. ReadText = body /\ ReadText' = Append(body, LF)
  BY <1>5 DEF ReadText
<1>9. Append(t, LF) \in Seq(Chars)
  BY <1>6
<1>10. SameMarks(Append(t, LF), Append(body, LF))
  <2>1. SameMarks(t, body)
    BY <1>1, <1>8
  <2>2. <<LF>> \in Seq(Chars) /\ SameMarks(<<LF>>, <<LF>>)
    BY <1>6 DEF SameMarks
  <2>3. SameMarks(t \o <<LF>>, body \o <<LF>>)
    BY <1>6, <2>1, <2>2, JoinAgrees
  <2>4. Append(t, LF) = t \o <<LF>> /\ Append(body, LF) = body \o <<LF>>
    BY <1>6
  <2> QED
    BY <2>3, <2>4
<1>11. \E t2 \in Seq(Chars) :
          /\ SameMarks(t2, ReadText') /\ (~torn' => t2 = ReadText')
          /\ Reads(t2, buffer', taken' \o pending', lastEventId')
  BY <1>1, <1>5, <1>7, <1>8, <1>9, <1>10
<1>12. /\ buffer' \in Seq(Chars) /\ lastEventId' \in Seq(Chars)
       /\ pending' \in Seq(Seq(Chars)) /\ taken' \in Seq(Seq(Chars))
  BY <1>2, <1>5, <1>7 DEF States
<1> QED
  BY <1>2, <1>5, <1>11, <1>12 DEF TextOK

\* A line that is taken is still one of those that were read.
LEMMA TextTakeStep ==
    ASSUME TextOK, TakeLine
    PROVE  TextOK'
<1>1. /\ body \in Seq(Bytes)
      /\ buffer \in Seq(Chars) /\ lastEventId \in Seq(Chars)
      /\ pending \in Seq(Seq(Chars)) /\ taken \in Seq(Seq(Chars))
  BY DEF TextOK
<1>2. /\ pending # <<>> /\ pending' = Tail(pending)
      /\ taken' = Append(taken, Head(pending))
      /\ UNCHANGED <<buffer, lastEventId, over, body, torn>>
  BY DEF TakeLine
<1>3. /\ Head(pending) \in Seq(Chars) /\ Tail(pending) \in Seq(Seq(Chars))
  BY <1>1, <1>2, HeadTailProperties
<1>4. taken' \in Seq(Seq(Chars)) /\ pending' \in Seq(Seq(Chars))
  BY <1>1, <1>2, <1>3
<1>5. taken' \o pending' = taken \o pending
  <2>1. pending = <<Head(pending)>> \o Tail(pending)
    BY <1>1, <1>2
  <2>2. Append(taken, Head(pending)) = taken \o <<Head(pending)>>
    BY <1>1, <1>3
  <2>3. <<Head(pending)>> \in Seq(Seq(Chars))
    BY <1>3
  <2>4. (taken \o <<Head(pending)>>) \o Tail(pending)
            = taken \o (<<Head(pending)>> \o Tail(pending))
    BY <1>1, <1>3, <2>3, ConcatAssociative
  <2> QED
    BY <1>2, <2>1, <2>2, <2>4
<1>6. ReadText' = ReadText
  BY <1>2 DEF ReadText
<1> QED
  BY <1>1, <1>2, <1>4, <1>5, <1>6 DEF TextOK

\* Every step of the binding keeps it.
LEMMA TextStep == TextOK /\ [BindingNext]_bindingVars => TextOK'
<1> SUFFICES ASSUME TextOK, [BindingNext]_bindingVars PROVE TextOK'
  OBVIOUS
<1>1. CASE TakeLine
  BY <1>1, TextTakeStep
<1>2. CASE ReadFails
  <2>1. UNCHANGED <<buffer, pending, lastEventId, over, body, torn, taken>>
    BY <1>2 DEF ReadFails
  <2>2. ReadText' = ReadText
    BY <2>1 DEF ReadText
  <2> QED
    BY <2>1, <2>2 DEF TextOK
<1>3. CASE BodyEnds
  BY <1>3, TextEndStep
<1>4. CASE \E bytes \in Chunks : Chunk(bytes)
  BY <1>4, TextChunkStep
<1>5. CASE UNCHANGED streamVars
  <2>1. UNCHANGED <<buffer, pending, lastEventId, over, body, torn, taken>>
    BY <1>5 DEF streamVars
  <2>2. ReadText' = ReadText
    BY <2>1 DEF ReadText
  <2> QED
    BY <2>1, <2>2 DEF TextOK
<1> QED
  BY <1>1, <1>2, <1>3, <1>4, <1>5, StreamSteps

\* What the lines of a stream are does not depend on how its body was cut into
\* chunks (process_buffer of stream.rs): for a body of any length, in any
\* chunks, none is lost, split or joined, and unless a chunk boundary cut a
\* character each is what it is in the body, in order, and so is the last id.
THEOREM ChunksNeverShow == BindingSpec => []ChunksInvisible
<1>1. BindingInit => TextOK
  BY TextInit DEF BindingInit
<1>2. TextOK => ChunksInvisible
  <2> SUFFICES ASSUME TextOK PROVE ChunksInvisible
    OBVIOUS
  <2>1. PICK t \in Seq(Chars) :
           /\ SameMarks(t, ReadText) /\ (~torn => t = ReadText)
           /\ Reads(t, buffer, taken \o pending, lastEventId)
    BY DEF TextOK
  <2>2. ReadText \in Seq(Chars)
    <3>1. body \in Seq(Chars) /\ LF \in Chars
      BY BytesAreChars DEF TextOK, Chars, Bytes
    <3>2. Append(body, LF) \in Seq(Chars)
      BY <3>1
    <3> QED
      BY <3>1, <3>2 DEF ReadText
  <2>3. Content(t) = Content(ReadText)
    BY <2>1, <2>2, ContentAgrees
  <2>4. Len(taken \o pending) = Cardinality(Content(ReadText))
    BY <2>1, <2>3 DEF Reads
  <2>5. ASSUME ~torn
        PROVE  /\ \A e \in Content(ReadText) :
                     (taken \o pending)[Rank(ReadText, e)]
                         = LineAt(ReadText, e)
               /\ lastEventId = LastIdOf(ReadText)
    <3>1. Reads(ReadText, buffer, taken \o pending, lastEventId)
      BY <2>1, <2>5
    <3> QED
      BY <3>1 DEF Reads
  <2> QED
    BY <2>4, <2>5 DEF ChunksInvisible
<1> QED
  BY <1>1, <1>2, TextStep, PTL DEF BindingSpec
=============================================================================

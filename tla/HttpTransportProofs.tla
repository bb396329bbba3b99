------------------------ MODULE HttpTransportProofs -------------------------
(***************************************************************************)
(* Proofs about HttpTransport, for any finite set of requests, any         *)
(* concurrency limit and any thresholds of the circuit breaker.            *)
(***************************************************************************)
EXTENDS HttpTransport, FiniteSetTheorems, TLAPS

-----------------------------------------------------------------------------
(* The inductive invariant.  Its first conjuncts are TypeOK in parts.      *)

BreakerOK ==
    /\ state \in CbStates
    /\ failures \in Nat /\ successes \in Nat
    /\ probes \in 0..ProbeCap /\ age \in 0..ResetTimeout

RequestOK ==
    /\ mode \in Modes
    /\ pc \in [Requests -> PCs]
    /\ result \in [Requests -> Results]
    /\ task \in [Requests -> {"none", "queued", "executing"}]
    /\ retried \subseteq Requests
    /\ records \in [Requests -> 0..2]

CancelsOK ==
    /\ pending \subseteq Registered /\ cancelled \subseteq Registered
    /\ exposed \subseteq Requests
    /\ current \in 0..MaxCancelAlls
    /\ token \in [Requests -> 0..current]

NetworkOK ==
    /\ generation \in Nat /\ client \in 0..generation
    /\ gen \in [Requests -> 0..generation]
    /\ changer \in [Changers ->
          {"idle", "closing", "clearing", "building", "installing"}]
    /\ built \in [Changers -> 0..generation]
    /\ changes \in 0..MaxChanges

FlagOK == cancelling \in BOOLEAN

\* A request calls network_changed only while execute waits for it.
ChangerOK ==
    \A r \in Requests : changer[r] # "idle" => At(r, "renewing")

\* A task is in the queue for a request that waits, or that was cancelled
\* while it waited.
TaskOK ==
    \A r \in Requests :
        task[r] # "none" =>
            /\ mode = "queue"
            /\ \/ At(r, "waiting")
               \/ /\ result[r] = "cancelled"
                  /\ pc[r] \in {"finishing", "failing", "done"}

PermitsOK == permits \in Nat /\ PermitsConserved

Starting == {"idle", "called", "begun", "admitted", "waiting", "running"}

\* What the metrics were told, by how far the request is.
RecordsOK ==
    \A r \in Requests :
        /\ pc[r] \in Starting => records[r] = 0 /\ result[r] = "none"
        /\ At(r, "finishing") =>
             /\ result[r] = "cancelled" => mode = "queue"
             /\ records[r] = IF result[r] = "cancelled" THEN 1 ELSE 0
        /\ At(r, "failing") =>
             /\ result[r] = "cancelled" => mode = "queue"
             /\ records[r] = IF result[r] = "cancelled" THEN 2 ELSE 1
        /\ At(r, "renewing") => result[r] = "misdirected" /\ records[r] = 1
        /\ At(r, "done") =>
             records[r] = IF mode = "queue" /\ result[r] = "cancelled"
                          THEN 2 ELSE 1

\* A request is in pending_requests from its call to the end of its execution.
PendingOK ==
    \A r \in pending :
        /\ pc[r] \notin {"idle", "failing", "renewing"}
        /\ At(r, "done") => mode # "queue" /\ result[r] = "cancelled"

\* Whoever sees a cancelled token was there when it was cancelled.
ExposedOK ==
    /\ OnlyExposedCancelled
    /\ cancelled \subseteq exposed
    /\ cancelling => pending \subseteq exposed
    /\ \A r \in Requests :
         pc[r] \in {"waiting", "running"} /\ token[r] < current
           => r \in exposed

IInv ==
    /\ BreakerOK /\ RequestOK /\ CancelsOK /\ NetworkOK /\ FlagOK
    /\ ChangerOK /\ TaskOK /\ PermitsOK /\ RecordsOK /\ PendingOK /\ ExposedOK

-----------------------------------------------------------------------------
(* It holds at the start, and every step keeps it.                         *)

\* Nothing was called; the breaker is closed or has lost its first probe.
LEMMA InvInit == Init => IInv
<1> SUFFICES ASSUME Init PROVE IInv
  OBVIOUS
<1> USE BreakerAssumption, TransportAssumption DEF Init
<1>1. BreakerOK
  BY DEF BreakerOK, BreakerInit, BreakerProbing, CbStates
<1>2. RequestOK
  BY DEF RequestOK, PCs, Results
<1>3. CancelsOK
  BY DEF CancelsOK
<1>4. NetworkOK
  BY DEF NetworkOK
<1>5. FlagOK
  BY Zenon DEF FlagOK
<1>6. ChangerOK /\ TaskOK
  BY DEF ChangerOK, TaskOK, Changers
<1>7. PermitsOK
  <2>1. Holders = {}
    BY DEF Holders, At
  <2>2. Cardinality(Holders) = 0
    BY <2>1, FS_EmptySet
  <2> QED
    BY <2>2 DEF PermitsOK, PermitsConserved
<1>8. RecordsOK /\ PendingOK
  BY DEF RecordsOK, PendingOK, At, Starting
<1>9. ExposedOK
  BY DEF ExposedOK, OnlyExposedCancelled
<1> HIDE DEF Init
<1> QED
  BY <1>1, <1>2, <1>3, <1>4, <1>5, <1>6, <1>7, <1>8, <1>9 DEF IInv

\* The requests use the breaker through its methods.
LEMMA BreakerStep == IInv /\ [Next]_vars => BreakerOK'
<1> SUFFICES ASSUME IInv, [Next]_vars PROVE BreakerOK'
  OBVIOUS
<1> USE BreakerAssumption
        DEF IInv, BreakerOK, CbStates, breaker
<1>1. ASSUME NEW r \in Requests, Call(r) PROVE BreakerOK'
  BY <1>1 DEF Call
<1>2. ASSUME NEW r \in Requests, Begin(r) PROVE BreakerOK'
  BY <1>2 DEF Begin
<1>3. ASSUME NEW r \in Requests, Admit(r) PROVE BreakerOK'
  BY <1>3 DEF Admit, AdmitClosed, EnterHalfOpen, AdmitProbe
<1>4. ASSUME NEW r \in Requests, Reject(r) PROVE BreakerOK'
  BY <1>4 DEF Reject, RejectOpen, RejectProbe
<1>5. ASSUME NEW r \in Requests, TakeToken(r) PROVE BreakerOK'
  BY <1>5 DEF TakeToken
<1>6. ASSUME NEW r \in Requests, Acquire(r) PROVE BreakerOK'
  BY <1>6 DEF Acquire
<1>7. ASSUME NEW r \in Requests, TaskStart(r) PROVE BreakerOK'
  BY <1>7 DEF TaskStart
<1>8. ASSUME NEW r \in Requests, NEW res \in Answers, Answer(r, res)
      PROVE  BreakerOK'
  BY <1>8 DEF Answer
<1>9. ASSUME NEW r \in Requests, NEW res \in Answers, TaskEnd(r, res)
      PROVE  BreakerOK'
  BY <1>9 DEF TaskEnd
<1>10. ASSUME NEW r \in Requests, CancelReturn(r) PROVE BreakerOK'
  BY <1>10 DEF CancelReturn
<1>11. ASSUME NEW r \in Requests, CancelQueued(r) PROVE BreakerOK'
  BY <1>11 DEF CancelQueued
<1>12. ASSUME NEW r \in Requests, Finish(r) PROVE BreakerOK'
  BY <1>12 DEF Finish, OnSuccess
<1>13. ASSUME NEW r \in Requests, CountFailure(r) PROVE BreakerOK'
  BY <1>13 DEF CountFailure, OnFailure
<1>14. ASSUME NEW c \in Changers, ChangeBegin(c) PROVE BreakerOK'
  BY <1>14 DEF ChangeBegin
<1>15. ASSUME NEW c \in Changers, ChangeReset(c) PROVE BreakerOK'
  BY <1>15 DEF ChangeReset, ResetState, ResetCounters
<1>16. ASSUME NEW c \in Changers, ChangeBuild(c) PROVE BreakerOK'
  BY <1>16 DEF ChangeBuild
<1>17. ASSUME NEW c \in Changers, ChangeInstall(c) PROVE BreakerOK'
  BY <1>17 DEF ChangeInstall
<1>18. ASSUME NEW c \in Changers, ChangeFails(c) PROVE BreakerOK'
  BY <1>18 DEF ChangeFails
<1>19. ASSUME NEW r \in Requests, CancelRequest(r) PROVE BreakerOK'
  BY <1>19 DEF CancelRequest
<1>20. CASE CancelAllBegin
  BY <1>20 DEF CancelAllBegin
<1>21. CASE CancelAllEnd
  BY <1>21 DEF CancelAllEnd
<1>22. CASE Clock
  BY <1>22 DEF Clock, Tick
<1>23. CASE UNCHANGED vars
  BY <1>23 DEF vars
<1> HIDE DEF IInv, BreakerOK
<1> QED
  BY <1>1, <1>2, <1>3, <1>4, <1>5, <1>6, <1>7, <1>8, <1>9, <1>10, <1>11,
     <1>12, <1>13, <1>14, <1>15, <1>16, <1>17, <1>18, <1>19, <1>20, <1>21,
     <1>22, <1>23
  DEF Next, Caller, Runtime, Server, Done, Changers

\* Each request stays within its control flow.
LEMMA RequestStep == IInv /\ [Next]_vars => RequestOK'
<1> SUFFICES ASSUME IInv, [Next]_vars PROVE RequestOK'
  OBVIOUS
<1> USE TransportAssumption
        DEF IInv, RequestOK, RecordsOK, ChangerOK, PCs, Results, Answers,
        Starting, Changers, At, Goto, SetResult, Record, request, slots,
        cancels, network, history
<1>1. ASSUME NEW r \in Requests, Call(r) PROVE RequestOK'
  BY <1>1 DEF Call
<1>2. ASSUME NEW r \in Requests, Begin(r) PROVE RequestOK'
  BY <1>2 DEF Begin
<1>3. ASSUME NEW r \in Requests, Admit(r) PROVE RequestOK'
  BY <1>3 DEF Admit
<1>4. ASSUME NEW r \in Requests, Reject(r) PROVE RequestOK'
  BY <1>4 DEF Reject, Leave
<1>5. ASSUME NEW r \in Requests, TakeToken(r) PROVE RequestOK'
  BY <1>5 DEF TakeToken
<1>6. ASSUME NEW r \in Requests, Acquire(r) PROVE RequestOK'
  BY <1>6 DEF Acquire
<1>7. ASSUME NEW r \in Requests, TaskStart(r) PROVE RequestOK'
  BY <1>7 DEF TaskStart
<1>8. ASSUME NEW r \in Requests, NEW res \in Answers, Answer(r, res)
      PROVE  RequestOK'
  BY <1>8 DEF Answer
<1>9. ASSUME NEW r \in Requests, NEW res \in Answers, TaskEnd(r, res)
      PROVE  RequestOK'
  BY <1>9 DEF TaskEnd
<1>10. ASSUME NEW r \in Requests, CancelReturn(r) PROVE RequestOK'
  BY <1>10 DEF CancelReturn, Leave
<1>11. ASSUME NEW r \in Requests, CancelQueued(r) PROVE RequestOK'
  BY <1>11 DEF CancelQueued
<1>12. ASSUME NEW r \in Requests, Finish(r) PROVE RequestOK'
  BY <1>12 DEF Finish, Leave, Ending
<1>13. ASSUME NEW r \in Requests, CountFailure(r) PROVE RequestOK'
  BY <1>13 DEF CountFailure, Leave, Ending
<1>14. ASSUME NEW c \in Changers, ChangeBegin(c) PROVE RequestOK'
  BY <1>14 DEF ChangeBegin
<1>15. ASSUME NEW c \in Changers, ChangeReset(c) PROVE RequestOK'
  BY <1>15 DEF ChangeReset
<1>16. ASSUME NEW c \in Changers, ChangeBuild(c) PROVE RequestOK'
  BY <1>16 DEF ChangeBuild
<1>17. ASSUME NEW c \in Changers, ChangeInstall(c) PROVE RequestOK'
  BY <1>17 DEF ChangeInstall, Retry
<1>18. ASSUME NEW c \in Changers, ChangeFails(c) PROVE RequestOK'
  BY <1>18 DEF ChangeFails, Retry
<1>19. ASSUME NEW r \in Requests, CancelRequest(r) PROVE RequestOK'
  BY <1>19 DEF CancelRequest
<1>20. CASE CancelAllBegin
  BY <1>20 DEF CancelAllBegin, InFlight
<1>21. CASE CancelAllEnd
  BY <1>21 DEF CancelAllEnd
<1>22. CASE Clock
  BY <1>22 DEF Clock
<1>23. CASE UNCHANGED vars
  BY <1>23 DEF vars
<1> HIDE DEF IInv, RequestOK
<1> QED
  BY <1>1, <1>2, <1>3, <1>4, <1>5, <1>6, <1>7, <1>8, <1>9, <1>10, <1>11,
     <1>12, <1>13, <1>14, <1>15, <1>16, <1>17, <1>18, <1>19, <1>20, <1>21,
     <1>22, <1>23
  DEF Next, Caller, Runtime, Server, Done, Changers

\* Tokens and table entries belong to requests.
LEMMA CancelsStep == IInv /\ [Next]_vars => CancelsOK'
<1> SUFFICES ASSUME IInv, [Next]_vars PROVE CancelsOK'
  OBVIOUS
<1> USE TransportAssumption
        DEF IInv, CancelsOK, RequestOK, Changers, request, slots, cancels,
        network, history
<1>1. ASSUME NEW r \in Requests, Call(r) PROVE CancelsOK'
  BY <1>1 DEF Call
<1>2. ASSUME NEW r \in Requests, Begin(r) PROVE CancelsOK'
  BY <1>2 DEF Begin
<1>3. ASSUME NEW r \in Requests, Admit(r) PROVE CancelsOK'
  BY <1>3 DEF Admit
<1>4. ASSUME NEW r \in Requests, Reject(r) PROVE CancelsOK'
  BY <1>4 DEF Reject, Leave
<1>5. ASSUME NEW r \in Requests, TakeToken(r) PROVE CancelsOK'
  BY <1>5 DEF TakeToken
<1>6. ASSUME NEW r \in Requests, Acquire(r) PROVE CancelsOK'
  BY <1>6 DEF Acquire
<1>7. ASSUME NEW r \in Requests, TaskStart(r) PROVE CancelsOK'
  BY <1>7 DEF TaskStart
<1>8. ASSUME NEW r \in Requests, NEW res \in Answers, Answer(r, res)
      PROVE  CancelsOK'
  BY <1>8 DEF Answer
<1>9. ASSUME NEW r \in Requests, NEW res \in Answers, TaskEnd(r, res)
      PROVE  CancelsOK'
  BY <1>9 DEF TaskEnd
<1>10. ASSUME NEW r \in Requests, CancelReturn(r) PROVE CancelsOK'
  BY <1>10 DEF CancelReturn, Leave
<1>11. ASSUME NEW r \in Requests, CancelQueued(r) PROVE CancelsOK'
  BY <1>11 DEF CancelQueued
<1>12. ASSUME NEW r \in Requests, Finish(r) PROVE CancelsOK'
  BY <1>12 DEF Finish, Leave
<1>13. ASSUME NEW r \in Requests, CountFailure(r) PROVE CancelsOK'
  BY <1>13 DEF CountFailure, Leave
<1>14. ASSUME NEW c \in Changers, ChangeBegin(c) PROVE CancelsOK'
  BY <1>14 DEF ChangeBegin
<1>15. ASSUME NEW c \in Changers, ChangeReset(c) PROVE CancelsOK'
  BY <1>15 DEF ChangeReset
<1>16. ASSUME NEW c \in Changers, ChangeBuild(c) PROVE CancelsOK'
  BY <1>16 DEF ChangeBuild
<1>17. ASSUME NEW c \in Changers, ChangeInstall(c) PROVE CancelsOK'
  BY <1>17 DEF ChangeInstall, Retry
<1>18. ASSUME NEW c \in Changers, ChangeFails(c) PROVE CancelsOK'
  BY <1>18 DEF ChangeFails, Retry
<1>19. ASSUME NEW r \in Requests, CancelRequest(r) PROVE CancelsOK'
  BY <1>19 DEF CancelRequest
<1>20. CASE CancelAllBegin
  BY <1>20 DEF CancelAllBegin, InFlight
<1>21. CASE CancelAllEnd
  BY <1>21 DEF CancelAllEnd
<1>22. CASE Clock
  BY <1>22 DEF Clock
<1>23. CASE UNCHANGED vars
  BY <1>23 DEF vars
<1> HIDE DEF IInv, CancelsOK
<1> QED
  BY <1>1, <1>2, <1>3, <1>4, <1>5, <1>6, <1>7, <1>8, <1>9, <1>10, <1>11,
     <1>12, <1>13, <1>14, <1>15, <1>16, <1>17, <1>18, <1>19, <1>20, <1>21,
     <1>22, <1>23
  DEF Next, Caller, Runtime, Server, Done, Changers

\* A generation that was read is never ahead of the current one.
LEMMA NetworkStep == IInv /\ [Next]_vars => NetworkOK'
<1> SUFFICES ASSUME IInv, [Next]_vars PROVE NetworkOK'
  OBVIOUS
<1> USE TransportAssumption
        DEF IInv, NetworkOK, Changers, request, slots, cancels, network, history
<1>1. ASSUME NEW r \in Requests, Call(r) PROVE NetworkOK'
  BY <1>1 DEF Call
<1>2. ASSUME NEW r \in Requests, Begin(r) PROVE NetworkOK'
  BY <1>2 DEF Begin
<1>3. ASSUME NEW r \in Requests, Admit(r) PROVE NetworkOK'
  BY <1>3 DEF Admit
<1>4. ASSUME NEW r \in Requests, Reject(r) PROVE NetworkOK'
  BY <1>4 DEF Reject, Leave
<1>5. ASSUME NEW r \in Requests, TakeToken(r) PROVE NetworkOK'
  BY <1>5 DEF TakeToken
<1>6. ASSUME NEW r \in Requests, Acquire(r) PROVE NetworkOK'
  BY <1>6 DEF Acquire
<1>7. ASSUME NEW r \in Requests, TaskStart(r) PROVE NetworkOK'
  BY <1>7 DEF TaskStart
<1>8. ASSUME NEW r \in Requests, NEW res \in Answers, Answer(r, res)
      PROVE  NetworkOK'
  BY <1>8 DEF Answer
<1>9. ASSUME NEW r \in Requests, NEW res \in Answers, TaskEnd(r, res)
      PROVE  NetworkOK'
  BY <1>9 DEF TaskEnd
<1>10. ASSUME NEW r \in Requests, CancelReturn(r) PROVE NetworkOK'
  BY <1>10 DEF CancelReturn, Leave
<1>11. ASSUME NEW r \in Requests, CancelQueued(r) PROVE NetworkOK'
  BY <1>11 DEF CancelQueued
<1>12. ASSUME NEW r \in Requests, Finish(r) PROVE NetworkOK'
  BY <1>12 DEF Finish, Leave
<1>13. ASSUME NEW r \in Requests, CountFailure(r) PROVE NetworkOK'
  BY <1>13 DEF CountFailure, Leave
<1>14. ASSUME NEW c \in Changers, ChangeBegin(c) PROVE NetworkOK'
  BY <1>14 DEF ChangeBegin
<1>15. ASSUME NEW c \in Changers, ChangeReset(c) PROVE NetworkOK'
  BY <1>15 DEF ChangeReset
<1>16. ASSUME NEW c \in Changers, ChangeBuild(c) PROVE NetworkOK'
  BY <1>16 DEF ChangeBuild
<1>17. ASSUME NEW c \in Changers, ChangeInstall(c) PROVE NetworkOK'
  BY <1>17 DEF ChangeInstall
<1>18. ASSUME NEW c \in Changers, ChangeFails(c) PROVE NetworkOK'
  BY <1>18 DEF ChangeFails
<1>19. ASSUME NEW r \in Requests, CancelRequest(r) PROVE NetworkOK'
  BY <1>19 DEF CancelRequest
<1>20. CASE CancelAllBegin
  BY <1>20 DEF CancelAllBegin
<1>21. CASE CancelAllEnd
  BY <1>21 DEF CancelAllEnd
<1>22. CASE Clock
  BY <1>22 DEF Clock
<1>23. CASE UNCHANGED vars
  BY <1>23 DEF vars
<1> HIDE DEF IInv, NetworkOK
<1> QED
  BY <1>1, <1>2, <1>3, <1>4, <1>5, <1>6, <1>7, <1>8, <1>9, <1>10, <1>11,
     <1>12, <1>13, <1>14, <1>15, <1>16, <1>17, <1>18, <1>19, <1>20, <1>21,
     <1>22, <1>23
  DEF Next, Caller, Runtime, Server, Done, Changers

\* cancel_all enters and leaves its two locks.
LEMMA FlagStep == IInv /\ [Next]_vars => FlagOK'
<1> SUFFICES ASSUME IInv, [Next]_vars PROVE FlagOK'
  OBVIOUS
<1> USE DEF IInv, FlagOK, cancels
<1>1. ASSUME NEW r \in Requests, Call(r) PROVE FlagOK'
  BY <1>1, Zenon DEF Call
<1>2. ASSUME NEW r \in Requests, Begin(r) PROVE FlagOK'
  BY <1>2, Zenon DEF Begin
<1>3. ASSUME NEW r \in Requests, Admit(r) PROVE FlagOK'
  BY <1>3, Zenon DEF Admit
<1>4. ASSUME NEW r \in Requests, Reject(r) PROVE FlagOK'
  BY <1>4, Zenon DEF Reject
<1>5. ASSUME NEW r \in Requests, TakeToken(r) PROVE FlagOK'
  BY <1>5, Zenon DEF TakeToken
<1>6. ASSUME NEW r \in Requests, Acquire(r) PROVE FlagOK'
  BY <1>6, Zenon DEF Acquire
<1>7. ASSUME NEW r \in Requests, TaskStart(r) PROVE FlagOK'
  BY <1>7, Zenon DEF TaskStart
<1>8. ASSUME NEW r \in Requests, NEW res \in Answers, Answer(r, res)
      PROVE  FlagOK'
  BY <1>8, Zenon DEF Answer
<1>9. ASSUME NEW r \in Requests, NEW res \in Answers, TaskEnd(r, res)
      PROVE  FlagOK'
  BY <1>9, Zenon DEF TaskEnd
<1>10. ASSUME NEW r \in Requests, CancelReturn(r) PROVE FlagOK'
  BY <1>10, Zenon DEF CancelReturn
<1>11. ASSUME NEW r \in Requests, CancelQueued(r) PROVE FlagOK'
  BY <1>11, Zenon DEF CancelQueued
<1>12. ASSUME NEW r \in Requests, Finish(r) PROVE FlagOK'
  BY <1>12, Zenon DEF Finish
<1>13. ASSUME NEW r \in Requests, CountFailure(r) PROVE FlagOK'
  BY <1>13, Zenon DEF CountFailure
<1>14. ASSUME NEW c \in Changers, ChangeBegin(c) PROVE FlagOK'
  BY <1>14, Zenon DEF ChangeBegin
<1>15. ASSUME NEW c \in Changers, ChangeReset(c) PROVE FlagOK'
  BY <1>15, Zenon DEF ChangeReset
<1>16. ASSUME NEW c \in Changers, ChangeBuild(c) PROVE FlagOK'
  BY <1>16, Zenon DEF ChangeBuild
<1>17. ASSUME NEW c \in Changers, ChangeInstall(c) PROVE FlagOK'
  BY <1>17, Zenon DEF ChangeInstall
<1>18. ASSUME NEW c \in Changers, ChangeFails(c) PROVE FlagOK'
  BY <1>18, Zenon DEF ChangeFails
<1>19. ASSUME NEW r \in Requests, CancelRequest(r) PROVE FlagOK'
  BY <1>19, Zenon DEF CancelRequest
<1>20. CASE CancelAllBegin
  BY <1>20, Zenon DEF CancelAllBegin
<1>21. CASE CancelAllEnd
  BY <1>21, Zenon DEF CancelAllEnd
<1>22. CASE Clock
  BY <1>22, Zenon DEF Clock
<1>23. CASE UNCHANGED vars
  BY <1>23, Zenon DEF vars
<1> HIDE DEF IInv, FlagOK
<1> QED
  BY <1>1, <1>2, <1>3, <1>4, <1>5, <1>6, <1>7, <1>8, <1>9, <1>10, <1>11,
     <1>12, <1>13, <1>14, <1>15, <1>16, <1>17, <1>18, <1>19, <1>20, <1>21,
     <1>22, <1>23
  DEF Next, Caller, Runtime, Server, Done, Changers

\* A request goes on only when its network_changed has returned.
LEMMA ChangerStep == IInv /\ [Next]_vars => ChangerOK'
<1> SUFFICES ASSUME IInv, [Next]_vars PROVE ChangerOK'
  OBVIOUS
<1> USE TransportAssumption
        DEF IInv, ChangerOK, RequestOK, NetworkOK, Changers, User, At, Goto,
        SetResult, Record, request, slots, cancels, network, history
<1>1. ASSUME NEW r \in Requests, Call(r) PROVE ChangerOK'
  BY <1>1 DEF Call
<1>2. ASSUME NEW r \in Requests, Begin(r) PROVE ChangerOK'
  BY <1>2 DEF Begin
<1>3. ASSUME NEW r \in Requests, Admit(r) PROVE ChangerOK'
  BY <1>3 DEF Admit
<1>4. ASSUME NEW r \in Requests, Reject(r) PROVE ChangerOK'
  BY <1>4 DEF Reject, Leave
<1>5. ASSUME NEW r \in Requests, TakeToken(r) PROVE ChangerOK'
  BY <1>5 DEF TakeToken
<1>6. ASSUME NEW r \in Requests, Acquire(r) PROVE ChangerOK'
  BY <1>6 DEF Acquire
<1>7. ASSUME NEW r \in Requests, TaskStart(r) PROVE ChangerOK'
  BY <1>7 DEF TaskStart
<1>8. ASSUME NEW r \in Requests, NEW res \in Answers, Answer(r, res)
      PROVE  ChangerOK'
  BY <1>8 DEF Answer
<1>9. ASSUME NEW r \in Requests, NEW res \in Answers, TaskEnd(r, res)
      PROVE  ChangerOK'
  BY <1>9 DEF TaskEnd
<1>10. ASSUME NEW r \in Requests, CancelReturn(r) PROVE ChangerOK'
  BY <1>10 DEF CancelReturn, Leave
<1>11. ASSUME NEW r \in Requests, CancelQueued(r) PROVE ChangerOK'
  BY <1>11 DEF CancelQueued
<1>12. ASSUME NEW r \in Requests, Finish(r) PROVE ChangerOK'
  BY <1>12 DEF Finish, Leave, Ending
<1>13. ASSUME NEW r \in Requests, CountFailure(r) PROVE ChangerOK'
  BY <1>13 DEF CountFailure, Leave, Ending
<1>14. ASSUME NEW c \in Changers, ChangeBegin(c) PROVE ChangerOK'
  BY <1>14 DEF ChangeBegin
<1>15. ASSUME NEW c \in Changers, ChangeReset(c) PROVE ChangerOK'
  BY <1>15 DEF ChangeReset
<1>16. ASSUME NEW c \in Changers, ChangeBuild(c) PROVE ChangerOK'
  BY <1>16 DEF ChangeBuild
<1>17. ASSUME NEW c \in Changers, ChangeInstall(c) PROVE ChangerOK'
  BY <1>17 DEF ChangeInstall, Retry
<1>18. ASSUME NEW c \in Changers, ChangeFails(c) PROVE ChangerOK'
  BY <1>18 DEF ChangeFails, Retry
<1>19. ASSUME NEW r \in Requests, CancelRequest(r) PROVE ChangerOK'
  BY <1>19 DEF CancelRequest
<1>20. CASE CancelAllBegin
  BY <1>20 DEF CancelAllBegin
<1>21. CASE CancelAllEnd
  BY <1>21 DEF CancelAllEnd
<1>22. CASE Clock
  BY <1>22 DEF Clock
<1>23. CASE UNCHANGED vars
  BY <1>23 DEF vars
<1> HIDE DEF IInv, ChangerOK
<1> QED
  BY <1>1, <1>2, <1>3, <1>4, <1>5, <1>6, <1>7, <1>8, <1>9, <1>10, <1>11,
     <1>12, <1>13, <1>14, <1>15, <1>16, <1>17, <1>18, <1>19, <1>20, <1>21,
     <1>22, <1>23
  DEF Next, Caller, Runtime, Server, Done, Changers

\* A request that is called again has no task left in the queue.
LEMMA TaskStep == IInv /\ [Next]_vars => TaskOK'
<1> SUFFICES ASSUME IInv, [Next]_vars PROVE TaskOK'
  OBVIOUS
<1> USE TransportAssumption
        DEF IInv, TaskOK, RequestOK, ChangerOK, RecordsOK, Starting, Answers, PCs,
        Changers, At, Goto, SetResult, Record, request, slots, cancels,
        network, history
<1>1. ASSUME NEW r \in Requests, Call(r) PROVE TaskOK'
  BY <1>1 DEF Call
<1>2. ASSUME NEW r \in Requests, Begin(r) PROVE TaskOK'
  BY <1>2 DEF Begin
<1>3. ASSUME NEW r \in Requests, Admit(r) PROVE TaskOK'
  BY <1>3 DEF Admit
<1>4. ASSUME NEW r \in Requests, Reject(r) PROVE TaskOK'
  BY <1>4 DEF Reject, Leave
<1>5. ASSUME NEW r \in Requests, TakeToken(r) PROVE TaskOK'
  BY <1>5 DEF TakeToken
<1>6. ASSUME NEW r \in Requests, Acquire(r) PROVE TaskOK'
  BY <1>6 DEF Acquire
<1>7. ASSUME NEW r \in Requests, TaskStart(r) PROVE TaskOK'
  BY <1>7 DEF TaskStart
<1>8. ASSUME NEW r \in Requests, NEW res \in Answers, Answer(r, res)
      PROVE  TaskOK'
  BY <1>8 DEF Answer
<1>9. ASSUME NEW r \in Requests, NEW res \in Answers, TaskEnd(r, res)
      PROVE  TaskOK'
  BY <1>9 DEF TaskEnd
<1>10. ASSUME NEW r \in Requests, CancelReturn(r) PROVE TaskOK'
  BY <1>10 DEF CancelReturn, Leave
<1>11. ASSUME NEW r \in Requests, CancelQueued(r) PROVE TaskOK'
  BY <1>11 DEF CancelQueued
<1>12. ASSUME NEW r \in Requests, Finish(r) PROVE TaskOK'
  BY <1>12 DEF Finish, Leave, Ending
<1>13. ASSUME NEW r \in Requests, CountFailure(r) PROVE TaskOK'
  BY <1>13 DEF CountFailure, Leave, Ending
<1>14. ASSUME NEW c \in Changers, ChangeBegin(c) PROVE TaskOK'
  BY <1>14 DEF ChangeBegin
<1>15. ASSUME NEW c \in Changers, ChangeReset(c) PROVE TaskOK'
  BY <1>15 DEF ChangeReset
<1>16. ASSUME NEW c \in Changers, ChangeBuild(c) PROVE TaskOK'
  BY <1>16 DEF ChangeBuild
<1>17. ASSUME NEW c \in Changers, ChangeInstall(c) PROVE TaskOK'
  BY <1>17 DEF ChangeInstall, Retry
<1>18. ASSUME NEW c \in Changers, ChangeFails(c) PROVE TaskOK'
  BY <1>18 DEF ChangeFails, Retry
<1>19. ASSUME NEW r \in Requests, CancelRequest(r) PROVE TaskOK'
  BY <1>19 DEF CancelRequest
<1>20. CASE CancelAllBegin
  BY <1>20 DEF CancelAllBegin
<1>21. CASE CancelAllEnd
  BY <1>21 DEF CancelAllEnd
<1>22. CASE Clock
  BY <1>22 DEF Clock
<1>23. CASE UNCHANGED vars
  BY <1>23 DEF vars
<1> HIDE DEF IInv, TaskOK
<1> QED
  BY <1>1, <1>2, <1>3, <1>4, <1>5, <1>6, <1>7, <1>8, <1>9, <1>10, <1>11,
     <1>12, <1>13, <1>14, <1>15, <1>16, <1>17, <1>18, <1>19, <1>20, <1>21,
     <1>22, <1>23
  DEF Next, Caller, Runtime, Server, Done, Changers

\* Where no slot changes hands the permits still add up.
LEMMA SlotKept ==
    ASSUME PermitsOK, UNCHANGED permits, Holders' = Holders
    PROVE  PermitsOK'
  BY DEF PermitsOK, PermitsConserved

\* A permit taken is one more request with a slot.
LEMMA SlotTaken ==
    ASSUME PermitsOK, NEW r \in Requests \ Holders,
           permits > 0, permits' = permits - 1, Holders' = Holders \cup {r}
    PROVE  PermitsOK'
<1>1. IsFiniteSet(Holders)
  BY TransportAssumption, FS_Subset DEF Holders
<1>2. Cardinality(Holders') = Cardinality(Holders) + 1
  BY <1>1, FS_AddElement
<1>3. Cardinality(Holders) \in Nat
  BY <1>1, FS_CardinalityType
<1> QED
  BY <1>2, <1>3, TransportAssumption DEF PermitsOK, PermitsConserved

\* A permit given back is one request less.
LEMMA SlotGivenBack ==
    ASSUME PermitsOK, NEW r \in Holders,
           permits' = permits + 1, Holders' = Holders \ {r}
    PROVE  PermitsOK'
<1>1. IsFiniteSet(Holders)
  BY TransportAssumption, FS_Subset DEF Holders
<1>2. Cardinality(Holders') = Cardinality(Holders) - 1
  BY <1>1, FS_RemoveElement
<1>3. Cardinality(Holders) \in Nat
  BY <1>1, FS_CardinalityType
<1> QED
  BY <1>2, <1>3, TransportAssumption DEF PermitsOK, PermitsConserved

\* A permit is given back by whoever holds it, once.
LEMMA PermitsStep == IInv /\ [Next]_vars => PermitsOK'
<1> SUFFICES ASSUME IInv, [Next]_vars PROVE PermitsOK'
  OBVIOUS
<1> USE TransportAssumption
        DEF IInv, RequestOK, TaskOK, ChangerOK, Changers, At, Goto, SetResult,
        Record, request, slots, cancels, network, history
<1>1. ASSUME NEW r \in Requests, Call(r) PROVE PermitsOK'
  <2>1. UNCHANGED permits /\ Holders' = Holders
    BY <1>1 DEF Call, Holders
  <2> QED
    BY <2>1, SlotKept
<1>2. ASSUME NEW r \in Requests, Begin(r) PROVE PermitsOK'
  <2>1. UNCHANGED permits /\ Holders' = Holders
    BY <1>2 DEF Begin, Holders
  <2> QED
    BY <2>1, SlotKept
<1>3. ASSUME NEW r \in Requests, Admit(r) PROVE PermitsOK'
  <2>1. UNCHANGED permits /\ Holders' = Holders
    BY <1>3 DEF Admit, Holders
  <2> QED
    BY <2>1, SlotKept
<1>4. ASSUME NEW r \in Requests, Reject(r) PROVE PermitsOK'
  <2>1. UNCHANGED permits /\ Holders' = Holders
    BY <1>4 DEF Reject, Leave, Holders
  <2> QED
    BY <2>1, SlotKept
<1>5. ASSUME NEW r \in Requests, TakeToken(r) PROVE PermitsOK'
  <2>1. UNCHANGED permits /\ Holders' = Holders
    BY <1>5 DEF TakeToken, Holders
  <2> QED
    BY <2>1, SlotKept
<1>6. ASSUME NEW r \in Requests, Acquire(r) PROVE PermitsOK'
  <2>1. /\ r \in Requests \ Holders /\ permits > 0
        /\ permits' = permits - 1 /\ Holders' = Holders \cup {r}
    BY <1>6 DEF Acquire, Holders
  <2> QED
    BY <2>1, SlotTaken
<1>7. ASSUME NEW r \in Requests, TaskStart(r) PROVE PermitsOK'
  <2>1. /\ r \in Requests \ Holders /\ permits > 0
        /\ permits' = permits - 1 /\ Holders' = Holders \cup {r}
    BY <1>7 DEF TaskStart, Holders
  <2> QED
    BY <2>1, SlotTaken
<1>8. ASSUME NEW r \in Requests, NEW res \in Answers, Answer(r, res)
      PROVE  PermitsOK'
  <2>1. CASE mode = "semaphore" /\ At(r, "running")
    <3>1. /\ r \in Holders
          /\ permits' = permits + 1 /\ Holders' = Holders \ {r}
      BY <2>1, <1>8 DEF Answer, Release, Holders
    <3> QED
      BY <3>1, SlotGivenBack
  <2>2. CASE ~(mode = "semaphore" /\ At(r, "running"))
    <3>1. UNCHANGED permits /\ Holders' = Holders
      BY <2>2, <1>8 DEF Answer, Release, Holders
    <3> QED
      BY <3>1, SlotKept
  <2> QED
    BY <2>1, <2>2
<1>9. ASSUME NEW r \in Requests, NEW res \in Answers, TaskEnd(r, res)
      PROVE  PermitsOK'
  <2>1. /\ r \in Holders
        /\ permits' = permits + 1 /\ Holders' = Holders \ {r}
    BY <1>9 DEF TaskEnd, Holders
  <2> QED
    BY <2>1, SlotGivenBack
<1>10. ASSUME NEW r \in Requests, CancelReturn(r) PROVE PermitsOK'
  <2>1. CASE mode = "semaphore" /\ At(r, "running")
    <3>1. /\ r \in Holders
          /\ permits' = permits + 1 /\ Holders' = Holders \ {r}
      BY <2>1, <1>10 DEF CancelReturn, Leave, Release, Holders
    <3> QED
      BY <3>1, SlotGivenBack
  <2>2. CASE ~(mode = "semaphore" /\ At(r, "running"))
    <3>1. UNCHANGED permits /\ Holders' = Holders
      BY <2>2, <1>10 DEF CancelReturn, Leave, Release, Holders
    <3> QED
      BY <3>1, SlotKept
  <2> QED
    BY <2>1, <2>2
<1>11. ASSUME NEW r \in Requests, CancelQueued(r) PROVE PermitsOK'
  <2>1. UNCHANGED permits /\ Holders' = Holders
    BY <1>11 DEF CancelQueued, Holders
  <2> QED
    BY <2>1, SlotKept
<1>12. ASSUME NEW r \in Requests, Finish(r) PROVE PermitsOK'
  <2>1. UNCHANGED permits /\ Holders' = Holders
    BY <1>12 DEF Finish, Leave, Ending, Holders
  <2> QED
    BY <2>1, SlotKept
<1>13. ASSUME NEW r \in Requests, CountFailure(r) PROVE PermitsOK'
  <2>1. UNCHANGED permits /\ Holders' = Holders
    BY <1>13 DEF CountFailure, Leave, Ending, Holders
  <2> QED
    BY <2>1, SlotKept
<1>14. ASSUME NEW c \in Changers, ChangeBegin(c) PROVE PermitsOK'
  <2>1. UNCHANGED permits /\ Holders' = Holders
    BY <1>14 DEF ChangeBegin, Holders
  <2> QED
    BY <2>1, SlotKept
<1>15. ASSUME NEW c \in Changers, ChangeReset(c) PROVE PermitsOK'
  <2>1. UNCHANGED permits /\ Holders' = Holders
    BY <1>15 DEF ChangeReset, Holders
  <2> QED
    BY <2>1, SlotKept
<1>16. ASSUME NEW c \in Changers, ChangeBuild(c) PROVE PermitsOK'
  <2>1. UNCHANGED permits /\ Holders' = Holders
    BY <1>16 DEF ChangeBuild, Holders
  <2> QED
    BY <2>1, SlotKept
<1>17. ASSUME NEW c \in Changers, ChangeInstall(c) PROVE PermitsOK'
  <2>1. UNCHANGED permits /\ Holders' = Holders
    BY <1>17 DEF ChangeInstall, Retry, Holders
  <2> QED
    BY <2>1, SlotKept
<1>18. ASSUME NEW c \in Changers, ChangeFails(c) PROVE PermitsOK'
  <2>1. UNCHANGED permits /\ Holders' = Holders
    BY <1>18 DEF ChangeFails, Retry, Holders
  <2> QED
    BY <2>1, SlotKept
<1>19. ASSUME NEW r \in Requests, CancelRequest(r) PROVE PermitsOK'
  <2>1. UNCHANGED permits /\ Holders' = Holders
    BY <1>19 DEF CancelRequest, Holders
  <2> QED
    BY <2>1, SlotKept
<1>20. CASE CancelAllBegin
  <2>1. UNCHANGED permits /\ Holders' = Holders
    BY <1>20 DEF CancelAllBegin, Holders
  <2> QED
    BY <2>1, SlotKept
<1>21. CASE CancelAllEnd
  <2>1. UNCHANGED permits /\ Holders' = Holders
    BY <1>21 DEF CancelAllEnd, Holders
  <2> QED
    BY <2>1, SlotKept
<1>22. CASE Clock
  <2>1. UNCHANGED permits /\ Holders' = Holders
    BY <1>22 DEF Clock, Holders
  <2> QED
    BY <2>1, SlotKept
<1>23. CASE UNCHANGED vars
  <2>1. UNCHANGED permits /\ Holders' = Holders
    BY <1>23 DEF vars, Holders
  <2> QED
    BY <2>1, SlotKept
<1> HIDE DEF IInv, PermitsOK
<1> QED
  BY <1>1, <1>2, <1>3, <1>4, <1>5, <1>6, <1>7, <1>8, <1>9, <1>10, <1>11,
     <1>12, <1>13, <1>14, <1>15, <1>16, <1>17, <1>18, <1>19, <1>20, <1>21,
     <1>22, <1>23
  DEF Next, Caller, Runtime, Server, Done, Changers

\* Each way to the end of an execution records it, the cancellation in the
\* queue twice.
LEMMA RecordsStep == IInv /\ [Next]_vars => RecordsOK'
<1> SUFFICES ASSUME IInv, [Next]_vars PROVE RecordsOK'
  OBVIOUS
<1> USE TransportAssumption
        DEF IInv, RecordsOK, RequestOK, ChangerOK, Starting, Answers, PCs,
        Changers, At, Goto, SetResult, Record, request, slots, cancels,
        network, history
<1>1. ASSUME NEW r \in Requests, Call(r) PROVE RecordsOK'
  BY <1>1 DEF Call
<1>2. ASSUME NEW r \in Requests, Begin(r) PROVE RecordsOK'
  BY <1>2 DEF Begin
<1>3. ASSUME NEW r \in Requests, Admit(r) PROVE RecordsOK'
  BY <1>3 DEF Admit
<1>4. ASSUME NEW r \in Requests, Reject(r) PROVE RecordsOK'
  BY <1>4 DEF Reject, Leave
<1>5. ASSUME NEW r \in Requests, TakeToken(r) PROVE RecordsOK'
  BY <1>5 DEF TakeToken
<1>6. ASSUME NEW r \in Requests, Acquire(r) PROVE RecordsOK'
  BY <1>6 DEF Acquire
<1>7. ASSUME NEW r \in Requests, TaskStart(r) PROVE RecordsOK'
  BY <1>7 DEF TaskStart
<1>8. ASSUME NEW r \in Requests, NEW res \in Answers, Answer(r, res)
      PROVE  RecordsOK'
  BY <1>8 DEF Answer
<1>9. ASSUME NEW r \in Requests, NEW res \in Answers, TaskEnd(r, res)
      PROVE  RecordsOK'
  BY <1>9 DEF TaskEnd
<1>10. ASSUME NEW r \in Requests, CancelReturn(r) PROVE RecordsOK'
  BY <1>10 DEF CancelReturn, Leave
<1>11. ASSUME NEW r \in Requests, CancelQueued(r) PROVE RecordsOK'
  BY <1>11 DEF CancelQueued
<1>12. ASSUME NEW r \in Requests, Finish(r) PROVE RecordsOK'
  BY <1>12 DEF Finish, Leave, Ending
<1>13. ASSUME NEW r \in Requests, CountFailure(r) PROVE RecordsOK'
  BY <1>13 DEF CountFailure, Leave, Ending
<1>14. ASSUME NEW c \in Changers, ChangeBegin(c) PROVE RecordsOK'
  BY <1>14 DEF ChangeBegin
<1>15. ASSUME NEW c \in Changers, ChangeReset(c) PROVE RecordsOK'
  BY <1>15 DEF ChangeReset
<1>16. ASSUME NEW c \in Changers, ChangeBuild(c) PROVE RecordsOK'
  BY <1>16 DEF ChangeBuild
<1>17. ASSUME NEW c \in Changers, ChangeInstall(c) PROVE RecordsOK'
  BY <1>17 DEF ChangeInstall, Retry
<1>18. ASSUME NEW c \in Changers, ChangeFails(c) PROVE RecordsOK'
  BY <1>18 DEF ChangeFails, Retry
<1>19. ASSUME NEW r \in Requests, CancelRequest(r) PROVE RecordsOK'
  BY <1>19 DEF CancelRequest
<1>20. CASE CancelAllBegin
  BY <1>20 DEF CancelAllBegin
<1>21. CASE CancelAllEnd
  BY <1>21 DEF CancelAllEnd
<1>22. CASE Clock
  BY <1>22 DEF Clock
<1>23. CASE UNCHANGED vars
  BY <1>23 DEF vars
<1> HIDE DEF IInv, RecordsOK
<1> QED
  BY <1>1, <1>2, <1>3, <1>4, <1>5, <1>6, <1>7, <1>8, <1>9, <1>10, <1>11,
     <1>12, <1>13, <1>14, <1>15, <1>16, <1>17, <1>18, <1>19, <1>20, <1>21,
     <1>22, <1>23
  DEF Next, Caller, Runtime, Server, Done, Changers

\* An entry outlives its execution only when a cancellation without the queue
\* ends it.
LEMMA PendingStep == IInv /\ [Next]_vars => PendingOK'
<1> SUFFICES ASSUME IInv, [Next]_vars PROVE PendingOK'
  OBVIOUS
<1> USE TransportAssumption
        DEF IInv, PendingOK, RequestOK, CancelsOK, ChangerOK, RecordsOK, Starting,
        Answers, PCs, Changers, At, Goto, SetResult, Record, request,
        slots, cancels, network, history
<1>1. ASSUME NEW r \in Requests, Call(r) PROVE PendingOK'
  BY <1>1 DEF Call
<1>2. ASSUME NEW r \in Requests, Begin(r) PROVE PendingOK'
  BY <1>2 DEF Begin
<1>3. ASSUME NEW r \in Requests, Admit(r) PROVE PendingOK'
  BY <1>3 DEF Admit
<1>4. ASSUME NEW r \in Requests, Reject(r) PROVE PendingOK'
  BY <1>4 DEF Reject, Leave
<1>5. ASSUME NEW r \in Requests, TakeToken(r) PROVE PendingOK'
  BY <1>5 DEF TakeToken
<1>6. ASSUME NEW r \in Requests, Acquire(r) PROVE PendingOK'
  BY <1>6 DEF Acquire
<1>7. ASSUME NEW r \in Requests, TaskStart(r) PROVE PendingOK'
  BY <1>7 DEF TaskStart
<1>8. ASSUME NEW r \in Requests, NEW res \in Answers, Answer(r, res)
      PROVE  PendingOK'
  BY <1>8 DEF Answer
<1>9. ASSUME NEW r \in Requests, NEW res \in Answers, TaskEnd(r, res)
      PROVE  PendingOK'
  BY <1>9 DEF TaskEnd
<1>10. ASSUME NEW r \in Requests, CancelReturn(r) PROVE PendingOK'
  BY <1>10 DEF CancelReturn, Leave
<1>11. ASSUME NEW r \in Requests, CancelQueued(r) PROVE PendingOK'
  BY <1>11 DEF CancelQueued
<1>12. ASSUME NEW r \in Requests, Finish(r) PROVE PendingOK'
  BY <1>12 DEF Finish, Leave, Ending
<1>13. ASSUME NEW r \in Requests, CountFailure(r) PROVE PendingOK'
  BY <1>13 DEF CountFailure, Leave, Ending
<1>14. ASSUME NEW c \in Changers, ChangeBegin(c) PROVE PendingOK'
  BY <1>14 DEF ChangeBegin
<1>15. ASSUME NEW c \in Changers, ChangeReset(c) PROVE PendingOK'
  BY <1>15 DEF ChangeReset
<1>16. ASSUME NEW c \in Changers, ChangeBuild(c) PROVE PendingOK'
  BY <1>16 DEF ChangeBuild
<1>17. ASSUME NEW c \in Changers, ChangeInstall(c) PROVE PendingOK'
  BY <1>17 DEF ChangeInstall, Retry
<1>18. ASSUME NEW c \in Changers, ChangeFails(c) PROVE PendingOK'
  BY <1>18 DEF ChangeFails, Retry
<1>19. ASSUME NEW r \in Requests, CancelRequest(r) PROVE PendingOK'
  BY <1>19 DEF CancelRequest
<1>20. CASE CancelAllBegin
  BY <1>20 DEF CancelAllBegin
<1>21. CASE CancelAllEnd
  BY <1>21 DEF CancelAllEnd
<1>22. CASE Clock
  BY <1>22 DEF Clock
<1>23. CASE UNCHANGED vars
  BY <1>23 DEF vars
<1> HIDE DEF IInv, PendingOK
<1> QED
  BY <1>1, <1>2, <1>3, <1>4, <1>5, <1>6, <1>7, <1>8, <1>9, <1>10, <1>11,
     <1>12, <1>13, <1>14, <1>15, <1>16, <1>17, <1>18, <1>19, <1>20, <1>21,
     <1>22, <1>23
  DEF Next, Caller, Runtime, Server, Done, Changers

\* cancel_all exposes those in flight before it drains the table.
LEMMA ExposedStep == IInv /\ [Next]_vars => ExposedOK'
<1> SUFFICES ASSUME IInv, [Next]_vars PROVE ExposedOK'
  OBVIOUS
<1> USE TransportAssumption
        DEF IInv, ExposedOK, OnlyExposedCancelled, RequestOK, CancelsOK, FlagOK,
        ChangerOK, PendingOK, RecordsOK, Starting, Answers, PCs, Changers,
        At, Goto, SetResult, Record, request, slots, cancels, network,
        history
<1>1. ASSUME NEW r \in Requests, Call(r) PROVE ExposedOK'
  BY <1>1 DEF Call
<1>2. ASSUME NEW r \in Requests, Begin(r) PROVE ExposedOK'
  BY <1>2 DEF Begin
<1>3. ASSUME NEW r \in Requests, Admit(r) PROVE ExposedOK'
  BY <1>3 DEF Admit
<1>4. ASSUME NEW r \in Requests, Reject(r) PROVE ExposedOK'
  BY <1>4 DEF Reject, Leave
<1>5. ASSUME NEW r \in Requests, TakeToken(r) PROVE ExposedOK'
  BY <1>5 DEF TakeToken
<1>6. ASSUME NEW r \in Requests, Acquire(r) PROVE ExposedOK'
  BY <1>6 DEF Acquire
<1>7. ASSUME NEW r \in Requests, TaskStart(r) PROVE ExposedOK'
  BY <1>7 DEF TaskStart
<1>8. ASSUME NEW r \in Requests, NEW res \in Answers, Answer(r, res)
      PROVE  ExposedOK'
  BY <1>8 DEF Answer
<1>9. ASSUME NEW r \in Requests, NEW res \in Answers, TaskEnd(r, res)
      PROVE  ExposedOK'
  BY <1>9 DEF TaskEnd
<1>10. ASSUME NEW r \in Requests, CancelReturn(r) PROVE ExposedOK'
  BY <1>10 DEF CancelReturn, Leave, TokenFired
<1>11. ASSUME NEW r \in Requests, CancelQueued(r) PROVE ExposedOK'
  BY <1>11 DEF CancelQueued, TokenFired
<1>12. ASSUME NEW r \in Requests, Finish(r) PROVE ExposedOK'
  BY <1>12 DEF Finish, Leave, Ending
<1>13. ASSUME NEW r \in Requests, CountFailure(r) PROVE ExposedOK'
  BY <1>13 DEF CountFailure, Leave, Ending
<1>14. ASSUME NEW c \in Changers, ChangeBegin(c) PROVE ExposedOK'
  BY <1>14 DEF ChangeBegin
<1>15. ASSUME NEW c \in Changers, ChangeReset(c) PROVE ExposedOK'
  BY <1>15 DEF ChangeReset
<1>16. ASSUME NEW c \in Changers, ChangeBuild(c) PROVE ExposedOK'
  BY <1>16 DEF ChangeBuild
<1>17. ASSUME NEW c \in Changers, ChangeInstall(c) PROVE ExposedOK'
  BY <1>17 DEF ChangeInstall, Retry
<1>18. ASSUME NEW c \in Changers, ChangeFails(c) PROVE ExposedOK'
  BY <1>18 DEF ChangeFails, Retry
<1>19. ASSUME NEW r \in Requests, CancelRequest(r) PROVE ExposedOK'
  BY <1>19 DEF CancelRequest
<1>20. CASE CancelAllBegin
  BY <1>20 DEF CancelAllBegin, InFlight
<1>21. CASE CancelAllEnd
  BY <1>21 DEF CancelAllEnd
<1>22. CASE Clock
  BY <1>22 DEF Clock
<1>23. CASE UNCHANGED vars
  BY <1>23 DEF vars
<1> HIDE DEF IInv, ExposedOK
<1> QED
  BY <1>1, <1>2, <1>3, <1>4, <1>5, <1>6, <1>7, <1>8, <1>9, <1>10, <1>11,
     <1>12, <1>13, <1>14, <1>15, <1>16, <1>17, <1>18, <1>19, <1>20, <1>21,
     <1>22, <1>23
  DEF Next, Caller, Runtime, Server, Done, Changers

-----------------------------------------------------------------------------
(* The theorems.                                                           *)

\* The inductive invariant holds in every reachable state.
THEOREM Inductive == Spec => []IInv
<1>1. IInv /\ [Next]_vars => IInv'
  BY BreakerStep, RequestStep, CancelsStep, NetworkStep, FlagStep,
     ChangerStep, TaskStep, PermitsStep, RecordsStep, PendingStep, ExposedStep
  DEF IInv
<1> QED
  BY InvInit, <1>1, PTL DEF Spec

\* The concurrency limit neither leaks a permit nor gains one, whichever way
\* requests end, are cancelled, retried after a 421 or outlived by their task.
THEOREM PermitsNeverLeak == Spec => []PermitsConserved
<1>1. IInv => PermitsConserved
  BY DEF IInv, PermitsOK
<1> QED
  BY Inductive, <1>1, PTL

\* The metrics hear of an execution once, or twice when it was cancelled in
\* the queue, and the breaker of no cancellation without the queue.
THEOREM AccountsAlwaysRight == Spec => []AccountsRight
<1>1. ASSUME IInv PROVE permits \in 0..MaxConcurrency
  <2>1. Cardinality(Holders) \in Nat
    <3>1. IsFiniteSet(Holders)
      BY TransportAssumption, FS_Subset DEF Holders
    <3> QED
      BY <3>1, FS_CardinalityType
  <2> QED
    BY <1>1, <2>1, TransportAssumption
    DEF IInv, PermitsOK, PermitsConserved
<1>2. ASSUME IInv PROVE TypeOK
  BY <1>1, <1>2, Zenon
  DEF IInv, BreakerOK, RequestOK, CancelsOK, NetworkOK, FlagOK, TypeOK
<1>3. IInv => RecordedOnce
  BY DEF IInv, RecordsOK, RecordedOnce
<1>4. IInv => CancelNotAFailure
  BY DEF IInv, RecordsOK, CancelNotAFailure
<1>5. IInv => AccountsRight
  BY <1>2, <1>3, <1>4 DEF AccountsRight
<1> QED
  BY Inductive, <1>5, PTL

\* The table of pending requests keeps no entry of a request that has returned,
\* but those of requests cancelled without the queue.
THEOREM TableAccurate == Spec => []PendingAccurate
<1>1. IInv => PendingAccurate
  BY DEF IInv, PendingOK, PendingAccurate
<1> QED
  BY Inductive, <1>1, PTL

\* No request ends as cancelled that was called after the cancellation had
\* returned.
THEOREM CancelsOnlyTheirs == Spec => []OnlyExposedCancelled
<1>1. IInv => OnlyExposedCancelled
  BY DEF IInv, ExposedOK
<1> QED
  BY Inductive, <1>1, PTL
=============================================================================

------------------------ MODULE WsConnectionProofs --------------------------
(***************************************************************************)
(* Proofs about WsConnection, for every configuration that satisfies       *)
(* ConfigAssumption and every number of commands.                          *)
(*                                                                         *)
(* IInv of WsConnection is inductive.  Each of its parts has a lemma that  *)
(* a step preserves it, with one case for each action; the lemmas assume   *)
(* all of IInv, because the parts lean on each other (SessionOK on         *)
(* BufferOK, NoForgottenMessage on what BufferOK says of a replay).        *)
(***************************************************************************)
EXTENDS WsConnection, TLAPS

-----------------------------------------------------------------------------
(* Types.                                                                  *)

\* The manager starts, with its first socket open, in a state of the right
\* types.
LEMMA TypeInit == Init => TypeOK
<1> USE ConfigAssumption DEF Endpoints, Ids
<1> SUFFICES ASSUME Init PROVE TypeOK
  OBVIOUS
<1>1. url \in Endpoints
  BY DEF Init, InitialEndpoints, Racer
<1>2. FlagsOK
  BY Zenon DEF Init, FlagsOK
<1>3. DataOK
  BY <1>1 DEF Init, DataOK, Kinds, PCs, Fates, Events
<1> QED
  BY <1>2, <1>3 DEF TypeOK

\* No handler leaves a flag undefined.
LEMMA FlagsStep == TypeOK /\ [Next]_vars => FlagsOK'
<1> SUFFICES ASSUME TypeOK, [Next]_vars PROVE FlagsOK'
  OBVIOUS
<1> USE DEF TypeOK, FlagsOK, FreshHeartbeat, heartbeat, seen, manager,
        history, Emit, EmitError, Exit, Leave, LeaveForRetry, RaceEndpoints
<1>1. ASSUME NEW kind \in Kinds, Send(kind) PROVE FlagsOK'
  BY <1>1, Zenon DEF Send
<1>2. CASE DropHandles
  BY <1>2, Zenon DEF DropHandles
<1>3. CASE HeartbeatLost
  BY <1>3, Zenon DEF HeartbeatLost
<1>4. CASE HeartbeatPing
  BY <1>4, Zenon DEF HeartbeatPing, PongsExceeded
<1>5. CASE RecvPong
  BY <1>5, Zenon DEF RecvPong
<1>6. CASE RecvData
  BY <1>6, Zenon DEF RecvData
<1>7. CASE RecvClose
  BY <1>7, Zenon DEF RecvClose
<1>8. CASE ConnectedSent
  BY <1>8, Zenon DEF ConnectedSent
<1>9. CASE ConnectedSendFailed
  BY <1>9, Zenon DEF ConnectedSendFailed
<1>10. CASE ConnectedEncodeError
  BY <1>10, Zenon DEF ConnectedEncodeError
<1>11. CASE ConnectedClose
  BY <1>11, Zenon DEF ConnectedClose
<1>12. CASE ConnectedNetworkChanged
  BY <1>12, Zenon DEF ConnectedNetworkChanged
<1>13. CASE DrainClose
  BY <1>13, Zenon DEF DrainClose, Abort
<1>14. CASE DrainMessage
  BY <1>14, Zenon DEF DrainMessage, Buffer
<1>15. CASE DrainNetworkChanged
  BY <1>15, Zenon DEF DrainNetworkChanged
<1>16. CASE NetReconnect
  BY <1>16, Zenon DEF NetReconnect
<1>17. CASE NetConnectOk
  BY <1>17, Zenon DEF NetConnectOk, AnyEndpoint, Racer
<1>18. CASE NetConnectErr
  BY <1>18, Zenon DEF NetConnectErr
<1>19. CASE ReplaySent
  BY <1>19, Zenon DEF ReplaySent, NextReplay
<1>20. CASE ReplaySkipped
  BY <1>20, Zenon DEF ReplaySkipped, NextReplay
<1>21. CASE ReplayFailed
  BY <1>21, Zenon DEF ReplayFailed
<1>22. CASE ReplayDone
  BY <1>22, Zenon DEF ReplayDone, UrlAfterReplay
<1>23. CASE RetryExhausted
  BY <1>23, Zenon DEF RetryExhausted
<1>24. CASE RetryBackoff
  BY <1>24, Zenon DEF RetryBackoff, Exhausted, NextAttempt
<1>25. CASE BackoffElapsed
  BY <1>25, Zenon DEF BackoffElapsed
<1>26. CASE BackoffClose
  BY <1>26, Zenon DEF BackoffClose, Abort
<1>27. CASE BackoffMessage
  BY <1>27, Zenon DEF BackoffMessage, Buffer
<1>28. CASE BackoffNetworkChanged
  BY <1>28, Zenon DEF BackoffNetworkChanged
<1>29. CASE BackoffDone
  BY <1>29, Zenon DEF BackoffDone, RebuildClient
<1>30. CASE ConnectOk
  BY <1>30, Zenon DEF ConnectOk, AnyEndpoint, Racer
<1>31. CASE ConnectErr
  BY <1>31, Zenon DEF ConnectErr
<1>32. CASE UNCHANGED vars
  BY <1>32, Zenon DEF vars
<1> HIDE DEF TypeOK, FlagsOK
<1> QED
  BY <1>1, <1>2, <1>3, <1>4, <1>5, <1>6, <1>7, <1>8, <1>9, <1>10,
     <1>11, <1>12, <1>13, <1>14, <1>15, <1>16, <1>17, <1>18, <1>19,
     <1>20, <1>21, <1>22, <1>23, <1>24, <1>25, <1>26, <1>27, <1>28,
     <1>29, <1>30, <1>31, <1>32
  DEF Next, User, Environment, Manager, Done

\* Every handler keeps the channel, the buffer, the endpoints and the
\* counters within their types.
LEMMA DataStep == TypeOK /\ [Next]_vars => DataOK'
<1> SUFFICES ASSUME TypeOK, [Next]_vars PROVE DataOK'
  OBVIOUS
<1> USE ConfigAssumption DEF TypeOK, DataOK, Ids, Endpoints, Kinds, PCs,
        Fates, Events, FreshHeartbeat, heartbeat, seen, manager, history,
        Emit, EmitError, Empty, NextCmd, Messages, Exit, Leave,
        LeaveForRetry, Idle, Replaying
<1>1. ASSUME NEW kind \in Kinds, Send(kind) PROVE DataOK'
  BY <1>1 DEF Send
<1>2. CASE DropHandles
  BY <1>2 DEF DropHandles
<1>3. CASE HeartbeatLost
  BY <1>3 DEF HeartbeatLost
<1>4. CASE HeartbeatPing
  BY <1>4 DEF HeartbeatPing, PongsExceeded
<1>5. CASE RecvPong
  BY <1>5 DEF RecvPong
<1>6. CASE RecvData
  BY <1>6 DEF RecvData
<1>7. CASE RecvClose
  BY <1>7 DEF RecvClose
<1>8. CASE ConnectedSent
  BY <1>8 DEF ConnectedSent
<1>9. CASE ConnectedSendFailed
  BY <1>9 DEF ConnectedSendFailed
<1>10. CASE ConnectedEncodeError
  BY <1>10 DEF ConnectedEncodeError
<1>11. CASE ConnectedClose
  BY <1>11 DEF ConnectedClose
<1>12. CASE ConnectedNetworkChanged
  BY <1>12 DEF ConnectedNetworkChanged
<1>13. CASE DrainClose
  BY <1>13 DEF DrainClose, Abort
<1>14. CASE DrainMessage
  BY <1>14 DEF DrainMessage, Buffer
<1>15. CASE DrainNetworkChanged
  BY <1>15 DEF DrainNetworkChanged
<1>16. CASE NetReconnect
  BY <1>16 DEF NetReconnect
<1>17. CASE NetConnectOk
  BY <1>17 DEF NetConnectOk, AnyEndpoint, Racer
<1>18. CASE NetConnectErr
  BY <1>18 DEF NetConnectErr
<1>19. CASE ReplaySent
  BY <1>19 DEF ReplaySent, NextReplay
<1>20. CASE ReplaySkipped
  BY <1>20 DEF ReplaySkipped, NextReplay
<1>21. CASE ReplayFailed
  BY <1>21 DEF ReplayFailed
<1>22. CASE ReplayDone
  BY <1>22 DEF ReplayDone, UrlAfterReplay
<1>23. CASE RetryExhausted
  BY <1>23 DEF RetryExhausted
<1>24. CASE RetryBackoff
  BY <1>24 DEF RetryBackoff, Exhausted, NextAttempt
<1>25. CASE BackoffElapsed
  BY <1>25 DEF BackoffElapsed
<1>26. CASE BackoffClose
  <2>1. CASE Abort("Backoff")
    BY <2>1 DEF Abort
  <2>2. CASE Abort("BackoffDrain")
    BY <2>2 DEF Abort
  <2> QED
    BY <1>26, <2>1, <2>2 DEF BackoffClose
<1>27. CASE BackoffMessage
  <2>1. CASE Buffer("Backoff")
    BY <2>1 DEF Buffer
  <2>2. CASE Buffer("BackoffDrain")
    BY <2>2 DEF Buffer
  <2> QED
    BY <1>27, <2>1, <2>2 DEF BackoffMessage
<1>28. CASE BackoffNetworkChanged
  BY <1>28 DEF BackoffNetworkChanged
<1>29. CASE BackoffDone
  BY <1>29 DEF BackoffDone, RebuildClient
<1>30. CASE ConnectOk
  BY <1>30 DEF ConnectOk, AnyEndpoint, Racer
<1>31. CASE ConnectErr
  BY <1>31 DEF ConnectErr
<1>32. CASE UNCHANGED vars
  BY <1>32 DEF vars
<1> HIDE DEF TypeOK, DataOK
<1> QED
  BY <1>1, <1>2, <1>3, <1>4, <1>5, <1>6, <1>7, <1>8, <1>9, <1>10,
     <1>11, <1>12, <1>13, <1>14, <1>15, <1>16, <1>17, <1>18, <1>19,
     <1>20, <1>21, <1>22, <1>23, <1>24, <1>25, <1>26, <1>27, <1>28,
     <1>29, <1>30, <1>31, <1>32
  DEF Next, User, Environment, Manager, Done

\* For every configuration, every variable of the manager keeps its type; in
\* particular ReconnectManager's attempt never exceeds max_attempts, and no
\* handler indexes the buffer or the channel out of range.
THEOREM TypeCorrect == Spec => []TypeOK
<1>1. TypeOK /\ [Next]_vars => TypeOK'
  BY FlagsStep, DataStep DEF TypeOK
<1> QED
  BY TypeInit, <1>1, PTL DEF Spec

-----------------------------------------------------------------------------
(* The parts of the inductive invariant.                                   *)

\* What replay_buffered_commands takes from the buffer is a message that the
\* manager took from the channel.
LEMMA ReplayAt ==
  ASSUME IInv, Replaying, replayed < Len(buffered)
  PROVE  /\ NextReplay \in 1..head
         /\ log[NextReplay] \in Messages
         /\ NextReplay \in Ids
BY ConfigAssumption DEF IInv, TypeOK, DataOK, BufferOK, NextReplay, Ids

\* A sorted sequence stays sorted when a larger number is appended.
LEMMA AppendSorted ==
  ASSUME NEW s \in Seq(Nat), Sorted(s), NEW x \in Nat,
         \A k \in 1..Len(s) : s[k] < x
  PROVE  Sorted(Append(s, x))
BY DEF Sorted

\* The manager's place tells which lifecycle event was sent last.
LEMMA SeenStep == IInv /\ [Next]_vars => SeenOK'
<1> SUFFICES ASSUME IInv, [Next]_vars PROVE SeenOK'
  OBVIOUS
<1> USE DEF IInv, SeenOK, FreshHeartbeat, heartbeat, seen, manager,
        history, Emit, EmitError, Exit, Leave, LeaveForRetry, Idle,
        Replaying
<1>1. ASSUME NEW kind \in Kinds, Send(kind) PROVE SeenOK'
  BY <1>1 DEF Send
<1>2. CASE DropHandles
  BY <1>2 DEF DropHandles
<1>3. CASE HeartbeatLost
  BY <1>3 DEF HeartbeatLost
<1>4. CASE HeartbeatPing
  BY <1>4 DEF HeartbeatPing
<1>5. CASE RecvPong
  BY <1>5 DEF RecvPong
<1>6. CASE RecvData
  BY <1>6 DEF RecvData
<1>7. CASE RecvClose
  BY <1>7 DEF RecvClose
<1>8. CASE ConnectedSent
  BY <1>8 DEF ConnectedSent
<1>9. CASE ConnectedSendFailed
  BY <1>9 DEF ConnectedSendFailed
<1>10. CASE ConnectedEncodeError
  BY <1>10 DEF ConnectedEncodeError
<1>11. CASE ConnectedClose
  BY <1>11 DEF ConnectedClose
<1>12. CASE ConnectedNetworkChanged
  BY <1>12 DEF ConnectedNetworkChanged
<1>13. CASE DrainClose
  BY <1>13 DEF DrainClose, Abort
<1>14. CASE DrainMessage
  BY <1>14 DEF DrainMessage, Buffer
<1>15. CASE DrainNetworkChanged
  BY <1>15 DEF DrainNetworkChanged
<1>16. CASE NetReconnect
  BY <1>16 DEF NetReconnect
<1>17. CASE NetConnectOk
  BY <1>17 DEF NetConnectOk, AnyEndpoint, Racer
<1>18. CASE NetConnectErr
  BY <1>18 DEF NetConnectErr
<1>19. CASE ReplaySent
  BY <1>19 DEF ReplaySent, NextReplay
<1>20. CASE ReplaySkipped
  BY <1>20 DEF ReplaySkipped, NextReplay
<1>21. CASE ReplayFailed
  BY <1>21 DEF ReplayFailed
<1>22. CASE ReplayDone
  BY <1>22 DEF ReplayDone, UrlAfterReplay
<1>23. CASE RetryExhausted
  BY <1>23 DEF RetryExhausted
<1>24. CASE RetryBackoff
  BY <1>24 DEF RetryBackoff, Exhausted, NextAttempt
<1>25. CASE BackoffElapsed
  BY <1>25 DEF BackoffElapsed
<1>26. CASE BackoffClose
  <2>1. CASE Abort("Backoff")
    BY <2>1 DEF Abort
  <2>2. CASE Abort("BackoffDrain")
    BY <2>2 DEF Abort
  <2> QED
    BY <1>26, <2>1, <2>2 DEF BackoffClose
<1>27. CASE BackoffMessage
  <2>1. CASE Buffer("Backoff")
    BY <2>1 DEF Buffer
  <2>2. CASE Buffer("BackoffDrain")
    BY <2>2 DEF Buffer
  <2> QED
    BY <1>27, <2>1, <2>2 DEF BackoffMessage
<1>28. CASE BackoffNetworkChanged
  BY <1>28 DEF BackoffNetworkChanged
<1>29. CASE BackoffDone
  BY <1>29 DEF BackoffDone, RebuildClient
<1>30. CASE ConnectOk
  BY <1>30 DEF ConnectOk, AnyEndpoint, Racer
<1>31. CASE ConnectErr
  BY <1>31 DEF ConnectErr
<1>32. CASE UNCHANGED vars
  BY <1>32 DEF vars
<1> HIDE DEF IInv, SeenOK
<1> QED
  BY <1>1, <1>2, <1>3, <1>4, <1>5, <1>6, <1>7, <1>8, <1>9, <1>10,
     <1>11, <1>12, <1>13, <1>14, <1>15, <1>16, <1>17, <1>18, <1>19,
     <1>20, <1>21, <1>22, <1>23, <1>24, <1>25, <1>26, <1>27, <1>28,
     <1>29, <1>30, <1>31, <1>32
  DEF Next, User, Environment, Manager, Done

\* ReconnectManager's attempt stays in step with the connects begun.
LEMMA CountStep == IInv /\ [Next]_vars => CountOK'
<1> SUFFICES ASSUME IInv, [Next]_vars PROVE CountOK'
  OBVIOUS
<1> USE ConfigAssumption DEF IInv, TypeOK, DataOK, CountOK,
        FreshHeartbeat, heartbeat, seen, manager, history, Emit,
        EmitError, Exit, Leave, LeaveForRetry, Idle, Replaying
<1>1. ASSUME NEW kind \in Kinds, Send(kind) PROVE CountOK'
  BY <1>1 DEF Send
<1>2. CASE DropHandles
  BY <1>2 DEF DropHandles
<1>3. CASE HeartbeatLost
  BY <1>3 DEF HeartbeatLost
<1>4. CASE HeartbeatPing
  BY <1>4 DEF HeartbeatPing
<1>5. CASE RecvPong
  BY <1>5 DEF RecvPong
<1>6. CASE RecvData
  BY <1>6 DEF RecvData
<1>7. CASE RecvClose
  BY <1>7 DEF RecvClose
<1>8. CASE ConnectedSent
  BY <1>8 DEF ConnectedSent
<1>9. CASE ConnectedSendFailed
  BY <1>9 DEF ConnectedSendFailed
<1>10. CASE ConnectedEncodeError
  BY <1>10 DEF ConnectedEncodeError
<1>11. CASE ConnectedClose
  BY <1>11 DEF ConnectedClose
<1>12. CASE ConnectedNetworkChanged
  BY <1>12 DEF ConnectedNetworkChanged
<1>13. CASE DrainClose
  BY <1>13 DEF DrainClose, Abort
<1>14. CASE DrainMessage
  BY <1>14 DEF DrainMessage, Buffer
<1>15. CASE DrainNetworkChanged
  BY <1>15 DEF DrainNetworkChanged
<1>16. CASE NetReconnect
  BY <1>16 DEF NetReconnect
<1>17. CASE NetConnectOk
  BY <1>17 DEF NetConnectOk, AnyEndpoint, Racer
<1>18. CASE NetConnectErr
  BY <1>18 DEF NetConnectErr
<1>19. CASE ReplaySent
  BY <1>19 DEF ReplaySent, NextReplay
<1>20. CASE ReplaySkipped
  BY <1>20 DEF ReplaySkipped, NextReplay
<1>21. CASE ReplayFailed
  BY <1>21 DEF ReplayFailed
<1>22. CASE ReplayDone
  BY <1>22 DEF ReplayDone, UrlAfterReplay
<1>23. CASE RetryExhausted
  BY <1>23 DEF RetryExhausted
<1>24. CASE RetryBackoff
  BY <1>24 DEF RetryBackoff, Exhausted, NextAttempt
<1>25. CASE BackoffElapsed
  BY <1>25 DEF BackoffElapsed
<1>26. CASE BackoffClose
  <2>1. CASE Abort("Backoff")
    BY <2>1 DEF Abort
  <2>2. CASE Abort("BackoffDrain")
    BY <2>2 DEF Abort
  <2> QED
    BY <1>26, <2>1, <2>2 DEF BackoffClose
<1>27. CASE BackoffMessage
  <2>1. CASE Buffer("Backoff")
    BY <2>1 DEF Buffer
  <2>2. CASE Buffer("BackoffDrain")
    BY <2>2 DEF Buffer
  <2> QED
    BY <1>27, <2>1, <2>2 DEF BackoffMessage
<1>28. CASE BackoffNetworkChanged
  BY <1>28 DEF BackoffNetworkChanged
<1>29. CASE BackoffDone
  BY <1>29 DEF BackoffDone, RebuildClient
<1>30. CASE ConnectOk
  BY <1>30 DEF ConnectOk, AnyEndpoint, Racer
<1>31. CASE ConnectErr
  BY <1>31 DEF ConnectErr
<1>32. CASE UNCHANGED vars
  BY <1>32 DEF vars
<1> HIDE DEF IInv, CountOK
<1> QED
  BY <1>1, <1>2, <1>3, <1>4, <1>5, <1>6, <1>7, <1>8, <1>9, <1>10,
     <1>11, <1>12, <1>13, <1>14, <1>15, <1>16, <1>17, <1>18, <1>19,
     <1>20, <1>21, <1>22, <1>23, <1>24, <1>25, <1>26, <1>27, <1>28,
     <1>29, <1>30, <1>31, <1>32
  DEF Next, User, Environment, Manager, Done

\* current_url follows the socket, and a network change keeps racing.
LEMMA EndpointStep == IInv /\ [Next]_vars => EndpointOK'
<1> SUFFICES ASSUME IInv, [Next]_vars PROVE EndpointOK'
  OBVIOUS
<1> USE DEF IInv, EndpointOK, RaceEndpoints, FreshHeartbeat, heartbeat,
        seen, manager, history, Emit, EmitError, Exit, Leave,
        LeaveForRetry, Idle, Replaying
<1>1. ASSUME NEW kind \in Kinds, Send(kind) PROVE EndpointOK'
  BY <1>1 DEF Send
<1>2. CASE DropHandles
  BY <1>2 DEF DropHandles
<1>3. CASE HeartbeatLost
  BY <1>3 DEF HeartbeatLost
<1>4. CASE HeartbeatPing
  BY <1>4 DEF HeartbeatPing
<1>5. CASE RecvPong
  BY <1>5 DEF RecvPong
<1>6. CASE RecvData
  BY <1>6 DEF RecvData
<1>7. CASE RecvClose
  BY <1>7 DEF RecvClose
<1>8. CASE ConnectedSent
  BY <1>8 DEF ConnectedSent
<1>9. CASE ConnectedSendFailed
  BY <1>9 DEF ConnectedSendFailed
<1>10. CASE ConnectedEncodeError
  BY <1>10 DEF ConnectedEncodeError
<1>11. CASE ConnectedClose
  BY <1>11 DEF ConnectedClose
<1>12. CASE ConnectedNetworkChanged
  BY <1>12 DEF ConnectedNetworkChanged
<1>13. CASE DrainClose
  BY <1>13 DEF DrainClose, Abort
<1>14. CASE DrainMessage
  BY <1>14 DEF DrainMessage, Buffer
<1>15. CASE DrainNetworkChanged
  BY <1>15 DEF DrainNetworkChanged
<1>16. CASE NetReconnect
  BY <1>16 DEF NetReconnect
<1>17. CASE NetConnectOk
  BY <1>17 DEF NetConnectOk, AnyEndpoint, Racer
<1>18. CASE NetConnectErr
  BY <1>18 DEF NetConnectErr
<1>19. CASE ReplaySent
  BY <1>19 DEF ReplaySent, NextReplay
<1>20. CASE ReplaySkipped
  BY <1>20 DEF ReplaySkipped, NextReplay
<1>21. CASE ReplayFailed
  BY <1>21 DEF ReplayFailed
<1>22. CASE ReplayDone
  BY <1>22 DEF ReplayDone, UrlAfterReplay
<1>23. CASE RetryExhausted
  BY <1>23 DEF RetryExhausted
<1>24. CASE RetryBackoff
  BY <1>24 DEF RetryBackoff, Exhausted, NextAttempt
<1>25. CASE BackoffElapsed
  BY <1>25 DEF BackoffElapsed
<1>26. CASE BackoffClose
  <2>1. CASE Abort("Backoff")
    BY <2>1 DEF Abort
  <2>2. CASE Abort("BackoffDrain")
    BY <2>2 DEF Abort
  <2> QED
    BY <1>26, <2>1, <2>2 DEF BackoffClose
<1>27. CASE BackoffMessage
  <2>1. CASE Buffer("Backoff")
    BY <2>1 DEF Buffer
  <2>2. CASE Buffer("BackoffDrain")
    BY <2>2 DEF Buffer
  <2> QED
    BY <1>27, <2>1, <2>2 DEF BackoffMessage
<1>28. CASE BackoffNetworkChanged
  BY <1>28 DEF BackoffNetworkChanged
<1>29. CASE BackoffDone
  BY <1>29 DEF BackoffDone, RebuildClient
<1>30. CASE ConnectOk
  BY <1>30 DEF ConnectOk, AnyEndpoint, Racer
<1>31. CASE ConnectErr
  BY <1>31 DEF ConnectErr
<1>32. CASE UNCHANGED vars
  BY <1>32 DEF vars
<1> HIDE DEF IInv, EndpointOK
<1> QED
  BY <1>1, <1>2, <1>3, <1>4, <1>5, <1>6, <1>7, <1>8, <1>9, <1>10,
     <1>11, <1>12, <1>13, <1>14, <1>15, <1>16, <1>17, <1>18, <1>19,
     <1>20, <1>21, <1>22, <1>23, <1>24, <1>25, <1>26, <1>27, <1>28,
     <1>29, <1>30, <1>31, <1>32
  DEF Next, User, Environment, Manager, Done

\* The buffer holds taken messages, oldest first.
LEMMA BufferStep == IInv /\ [Next]_vars => BufferOK'
<1> SUFFICES ASSUME IInv, [Next]_vars PROVE BufferOK'
  OBVIOUS
<1> USE ConfigAssumption DEF IInv, TypeOK, DataOK, BufferOK, Sorted,
        Empty, NextCmd, Ids, Messages, FreshHeartbeat, heartbeat, seen,
        manager, history, Emit, EmitError, Exit, Leave, LeaveForRetry,
        Idle, Replaying
<1>1. ASSUME NEW kind \in Kinds, Send(kind) PROVE BufferOK'
  BY <1>1 DEF Send
<1>2. CASE DropHandles
  BY <1>2 DEF DropHandles
<1>3. CASE HeartbeatLost
  BY <1>3 DEF HeartbeatLost
<1>4. CASE HeartbeatPing
  BY <1>4 DEF HeartbeatPing
<1>5. CASE RecvPong
  BY <1>5 DEF RecvPong
<1>6. CASE RecvData
  BY <1>6 DEF RecvData
<1>7. CASE RecvClose
  BY <1>7 DEF RecvClose
<1>8. CASE ConnectedSent
  BY <1>8 DEF ConnectedSent
<1>9. CASE ConnectedSendFailed
  BY <1>9 DEF ConnectedSendFailed
<1>10. CASE ConnectedEncodeError
  BY <1>10 DEF ConnectedEncodeError
<1>11. CASE ConnectedClose
  BY <1>11 DEF ConnectedClose
<1>12. CASE ConnectedNetworkChanged
  BY <1>12 DEF ConnectedNetworkChanged
<1>13. CASE DrainClose
  BY <1>13 DEF DrainClose, Abort
<1>14. CASE DrainMessage
  BY <1>14 DEF DrainMessage, Buffer
<1>15. CASE DrainNetworkChanged
  BY <1>15 DEF DrainNetworkChanged
<1>16. CASE NetReconnect
  BY <1>16 DEF NetReconnect
<1>17. CASE NetConnectOk
  BY <1>17 DEF NetConnectOk, AnyEndpoint, Racer
<1>18. CASE NetConnectErr
  BY <1>18 DEF NetConnectErr
<1>19. CASE ReplaySent
  BY <1>19 DEF ReplaySent, NextReplay
<1>20. CASE ReplaySkipped
  BY <1>20 DEF ReplaySkipped, NextReplay
<1>21. CASE ReplayFailed
  BY <1>21 DEF ReplayFailed
<1>22. CASE ReplayDone
  BY <1>22 DEF ReplayDone, UrlAfterReplay
<1>23. CASE RetryExhausted
  BY <1>23 DEF RetryExhausted
<1>24. CASE RetryBackoff
  BY <1>24 DEF RetryBackoff, Exhausted, NextAttempt
<1>25. CASE BackoffElapsed
  BY <1>25 DEF BackoffElapsed
<1>26. CASE BackoffClose
  <2>1. CASE Abort("Backoff")
    BY <2>1 DEF Abort
  <2>2. CASE Abort("BackoffDrain")
    BY <2>2 DEF Abort
  <2> QED
    BY <1>26, <2>1, <2>2 DEF BackoffClose
<1>27. CASE BackoffMessage
  <2>1. CASE Buffer("Backoff")
    BY <2>1 DEF Buffer
  <2>2. CASE Buffer("BackoffDrain")
    BY <2>2 DEF Buffer
  <2> QED
    BY <1>27, <2>1, <2>2 DEF BackoffMessage
<1>28. CASE BackoffNetworkChanged
  BY <1>28 DEF BackoffNetworkChanged
<1>29. CASE BackoffDone
  BY <1>29 DEF BackoffDone, RebuildClient
<1>30. CASE ConnectOk
  BY <1>30 DEF ConnectOk, AnyEndpoint, Racer
<1>31. CASE ConnectErr
  BY <1>31 DEF ConnectErr
<1>32. CASE UNCHANGED vars
  BY <1>32 DEF vars
<1> HIDE DEF IInv, BufferOK
<1> QED
  BY <1>1, <1>2, <1>3, <1>4, <1>5, <1>6, <1>7, <1>8, <1>9, <1>10,
     <1>11, <1>12, <1>13, <1>14, <1>15, <1>16, <1>17, <1>18, <1>19,
     <1>20, <1>21, <1>22, <1>23, <1>24, <1>25, <1>26, <1>27, <1>28,
     <1>29, <1>30, <1>31, <1>32
  DEF Next, User, Environment, Manager, Done

\* A socket carries taken commands, oldest first, replayed ones included.
LEMMA SessionStep == IInv /\ [Next]_vars => SessionOK'
<1> SUFFICES ASSUME IInv, [Next]_vars PROVE SessionOK'
  OBVIOUS
<1> USE ConfigAssumption DEF IInv, TypeOK, DataOK, BufferOK, SessionOK,
        Sorted, Empty, NextCmd, Ids, FreshHeartbeat, heartbeat, seen,
        manager, history, Emit, EmitError, Exit, Leave, LeaveForRetry,
        Idle, Replaying
<1>1. ASSUME NEW kind \in Kinds, Send(kind) PROVE SessionOK'
  BY <1>1 DEF Send
<1>2. CASE DropHandles
  BY <1>2 DEF DropHandles
<1>3. CASE HeartbeatLost
  BY <1>3 DEF HeartbeatLost
<1>4. CASE HeartbeatPing
  BY <1>4 DEF HeartbeatPing
<1>5. CASE RecvPong
  BY <1>5 DEF RecvPong
<1>6. CASE RecvData
  BY <1>6 DEF RecvData
<1>7. CASE RecvClose
  BY <1>7 DEF RecvClose
<1>8. CASE ConnectedSent
  BY <1>8 DEF ConnectedSent
<1>9. CASE ConnectedSendFailed
  BY <1>9 DEF ConnectedSendFailed
<1>10. CASE ConnectedEncodeError
  BY <1>10 DEF ConnectedEncodeError
<1>11. CASE ConnectedClose
  BY <1>11 DEF ConnectedClose
<1>12. CASE ConnectedNetworkChanged
  BY <1>12 DEF ConnectedNetworkChanged
<1>13. CASE DrainClose
  BY <1>13 DEF DrainClose, Abort
<1>14. CASE DrainMessage
  BY <1>14 DEF DrainMessage, Buffer
<1>15. CASE DrainNetworkChanged
  BY <1>15 DEF DrainNetworkChanged
<1>16. CASE NetReconnect
  BY <1>16 DEF NetReconnect
<1>17. CASE NetConnectOk
  BY <1>17 DEF NetConnectOk, AnyEndpoint, Racer
<1>18. CASE NetConnectErr
  BY <1>18 DEF NetConnectErr
<1>19. CASE ReplaySent
  <2>1. /\ NextReplay \in 1..head
        /\ NextReplay \in Ids
    BY <1>19, ReplayAt DEF ReplaySent
  <2>2. /\ session' = Append(session, NextReplay)
        /\ replayed' = replayed + 1
        /\ UNCHANGED <<head, pc, buffered>>
    BY <1>19 DEF ReplaySent
  <2>3. \A a \in 1..Len(session) : session[a] < NextReplay
    BY <1>19 DEF ReplaySent, NextReplay
  <2>4. Sorted(session')
    <3>1. session \in Seq(Nat) /\ NextReplay \in Nat
      BY <2>1
    <3>2. Sorted(session)
      OBVIOUS
    <3> HIDE DEF Sorted
    <3> QED
      BY <2>2, <2>3, <3>1, <3>2, AppendSorted
  <2>5. \A a \in 1..Len(session') : session'[a] <= head'
    BY <2>1, <2>2
  <2>6. \A a \in 1..Len(session'), b \in replayed' + 1..Len(buffered') :
           session'[a] < buffered'[b]
    <3> SUFFICES ASSUME NEW a \in 1..Len(session'),
                        NEW b \in replayed + 2..Len(buffered)
                 PROVE  session'[a] < buffered[b]
      BY <2>2
    <3>1. CASE a = Len(session) + 1
      <4>1. session'[a] = NextReplay
        BY <2>1, <2>2, <3>1
      <4>2. replayed + 1 \in 1..Len(buffered) /\ replayed + 1 < b
        BY <1>19 DEF ReplaySent
      <4>3. buffered[replayed + 1] < buffered[b]
        BY <4>2
      <4> QED
        BY <4>1, <4>3 DEF NextReplay
    <3>2. CASE a \in 1..Len(session)
      BY <2>2, <3>2
    <3> QED
      BY <2>2, <3>1, <3>2
  <2>7. pc' \in {"Replay", "NetReplay"}
    BY <1>19 DEF ReplaySent
  <2> QED
    BY <2>4, <2>5, <2>6, <2>7
<1>20. CASE ReplaySkipped
  BY <1>20 DEF ReplaySkipped, NextReplay
<1>21. CASE ReplayFailed
  BY <1>21 DEF ReplayFailed
<1>22. CASE ReplayDone
  BY <1>22 DEF ReplayDone, UrlAfterReplay
<1>23. CASE RetryExhausted
  BY <1>23 DEF RetryExhausted
<1>24. CASE RetryBackoff
  BY <1>24 DEF RetryBackoff, Exhausted, NextAttempt
<1>25. CASE BackoffElapsed
  BY <1>25 DEF BackoffElapsed
<1>26. CASE BackoffClose
  <2>1. CASE Abort("Backoff")
    BY <2>1 DEF Abort
  <2>2. CASE Abort("BackoffDrain")
    BY <2>2 DEF Abort
  <2> QED
    BY <1>26, <2>1, <2>2 DEF BackoffClose
<1>27. CASE BackoffMessage
  <2>1. CASE Buffer("Backoff")
    BY <2>1 DEF Buffer
  <2>2. CASE Buffer("BackoffDrain")
    BY <2>2 DEF Buffer
  <2> QED
    BY <1>27, <2>1, <2>2 DEF BackoffMessage
<1>28. CASE BackoffNetworkChanged
  BY <1>28 DEF BackoffNetworkChanged
<1>29. CASE BackoffDone
  BY <1>29 DEF BackoffDone, RebuildClient
<1>30. CASE ConnectOk
  BY <1>30 DEF ConnectOk, AnyEndpoint, Racer
<1>31. CASE ConnectErr
  BY <1>31 DEF ConnectErr
<1>32. CASE UNCHANGED vars
  BY <1>32 DEF vars
<1> HIDE DEF IInv, SessionOK
<1> QED
  BY <1>1, <1>2, <1>3, <1>4, <1>5, <1>6, <1>7, <1>8, <1>9, <1>10,
     <1>11, <1>12, <1>13, <1>14, <1>15, <1>16, <1>17, <1>18, <1>19,
     <1>20, <1>21, <1>22, <1>23, <1>24, <1>25, <1>26, <1>27, <1>28,
     <1>29, <1>30, <1>31, <1>32
  DEF Next, User, Environment, Manager, Done

\* Only taken messages have a fate, and a Close is the last command taken.
LEMMA FateStep == IInv /\ [Next]_vars => FateOK'
<1> SUFFICES ASSUME IInv, [Next]_vars PROVE FateOK'
  OBVIOUS
<1> USE ConfigAssumption DEF IInv, TypeOK, DataOK, BufferOK, FateOK,
        Empty, NextCmd, Ids, Messages, FreshHeartbeat, heartbeat, seen,
        manager, history, Emit, EmitError, Exit, Leave, LeaveForRetry,
        Idle, Replaying
<1>1. ASSUME NEW kind \in Kinds, Send(kind) PROVE FateOK'
  BY <1>1 DEF Send
<1>2. CASE DropHandles
  BY <1>2 DEF DropHandles
<1>3. CASE HeartbeatLost
  BY <1>3 DEF HeartbeatLost
<1>4. CASE HeartbeatPing
  BY <1>4 DEF HeartbeatPing
<1>5. CASE RecvPong
  BY <1>5 DEF RecvPong
<1>6. CASE RecvData
  BY <1>6 DEF RecvData
<1>7. CASE RecvClose
  BY <1>7 DEF RecvClose
<1>8. CASE ConnectedSent
  BY <1>8 DEF ConnectedSent
<1>9. CASE ConnectedSendFailed
  BY <1>9 DEF ConnectedSendFailed
<1>10. CASE ConnectedEncodeError
  BY <1>10 DEF ConnectedEncodeError
<1>11. CASE ConnectedClose
  BY <1>11 DEF ConnectedClose
<1>12. CASE ConnectedNetworkChanged
  BY <1>12 DEF ConnectedNetworkChanged
<1>13. CASE DrainClose
  BY <1>13 DEF DrainClose, Abort
<1>14. CASE DrainMessage
  BY <1>14 DEF DrainMessage, Buffer
<1>15. CASE DrainNetworkChanged
  BY <1>15 DEF DrainNetworkChanged
<1>16. CASE NetReconnect
  BY <1>16 DEF NetReconnect
<1>17. CASE NetConnectOk
  BY <1>17 DEF NetConnectOk, AnyEndpoint, Racer
<1>18. CASE NetConnectErr
  BY <1>18 DEF NetConnectErr
<1>19. CASE ReplaySent
  <2>1. /\ NextReplay \in 1..head
        /\ log[NextReplay] \in Messages
        /\ NextReplay \in Ids
    BY <1>19, ReplayAt DEF ReplaySent
  <2>2. /\ \A i \in Ids : i # NextReplay => fate'[i] = fate[i]
        /\ UNCHANGED <<log, head, pc>>
    BY <1>19 DEF ReplaySent
  <2> QED
    BY <2>1, <2>2
<1>20. CASE ReplaySkipped
  <2>1. /\ NextReplay \in 1..head
        /\ log[NextReplay] \in Messages
        /\ NextReplay \in Ids
    BY <1>20, ReplayAt DEF ReplaySkipped
  <2>2. /\ \A i \in Ids : i # NextReplay => fate'[i] = fate[i]
        /\ UNCHANGED <<log, head, pc>>
    BY <1>20 DEF ReplaySkipped
  <2> QED
    BY <2>1, <2>2
<1>21. CASE ReplayFailed
  BY <1>21 DEF ReplayFailed
<1>22. CASE ReplayDone
  BY <1>22 DEF ReplayDone, UrlAfterReplay
<1>23. CASE RetryExhausted
  BY <1>23 DEF RetryExhausted
<1>24. CASE RetryBackoff
  BY <1>24 DEF RetryBackoff, Exhausted, NextAttempt
<1>25. CASE BackoffElapsed
  BY <1>25 DEF BackoffElapsed
<1>26. CASE BackoffClose
  <2>1. CASE Abort("Backoff")
    BY <2>1 DEF Abort
  <2>2. CASE Abort("BackoffDrain")
    BY <2>2 DEF Abort
  <2> QED
    BY <1>26, <2>1, <2>2 DEF BackoffClose
<1>27. CASE BackoffMessage
  <2>1. CASE Buffer("Backoff")
    BY <2>1 DEF Buffer
  <2>2. CASE Buffer("BackoffDrain")
    BY <2>2 DEF Buffer
  <2> QED
    BY <1>27, <2>1, <2>2 DEF BackoffMessage
<1>28. CASE BackoffNetworkChanged
  BY <1>28 DEF BackoffNetworkChanged
<1>29. CASE BackoffDone
  BY <1>29 DEF BackoffDone, RebuildClient
<1>30. CASE ConnectOk
  BY <1>30 DEF ConnectOk, AnyEndpoint, Racer
<1>31. CASE ConnectErr
  BY <1>31 DEF ConnectErr
<1>32. CASE UNCHANGED vars
  BY <1>32 DEF vars
<1> HIDE DEF IInv, FateOK
<1> QED
  BY <1>1, <1>2, <1>3, <1>4, <1>5, <1>6, <1>7, <1>8, <1>9, <1>10,
     <1>11, <1>12, <1>13, <1>14, <1>15, <1>16, <1>17, <1>18, <1>19,
     <1>20, <1>21, <1>22, <1>23, <1>24, <1>25, <1>26, <1>27, <1>28,
     <1>29, <1>30, <1>31, <1>32
  DEF Next, User, Environment, Manager, Done

\* No handler forgets a message that it took.
LEMMA NoForgottenStep == IInv /\ [Next]_vars => NoForgottenMessage'
<1> SUFFICES ASSUME IInv, [Next]_vars PROVE NoForgottenMessage'
  OBVIOUS
<1> USE ConfigAssumption DEF IInv, TypeOK, DataOK, BufferOK,
        NoForgottenMessage, Empty, NextCmd, Ids, Messages, FreshHeartbeat,
        heartbeat, seen, manager, history, Emit, EmitError, Exit, Leave,
        LeaveForRetry, Idle, Replaying
<1>1. ASSUME NEW kind \in Kinds, Send(kind) PROVE NoForgottenMessage'
  BY <1>1 DEF Send
<1>2. CASE DropHandles
  BY <1>2 DEF DropHandles
<1>3. CASE HeartbeatLost
  BY <1>3 DEF HeartbeatLost
<1>4. CASE HeartbeatPing
  BY <1>4 DEF HeartbeatPing
<1>5. CASE RecvPong
  BY <1>5 DEF RecvPong
<1>6. CASE RecvData
  BY <1>6 DEF RecvData
<1>7. CASE RecvClose
  BY <1>7 DEF RecvClose
<1>8. CASE ConnectedSent
  BY <1>8 DEF ConnectedSent
<1>9. CASE ConnectedSendFailed
  BY <1>9 DEF ConnectedSendFailed
<1>10. CASE ConnectedEncodeError
  BY <1>10 DEF ConnectedEncodeError
<1>11. CASE ConnectedClose
  BY <1>11 DEF ConnectedClose
<1>12. CASE ConnectedNetworkChanged
  BY <1>12 DEF ConnectedNetworkChanged
<1>13. CASE DrainClose
  BY <1>13 DEF DrainClose, Abort
<1>14. CASE DrainMessage
  <2>1. /\ head' = head + 1 /\ log' = log /\ fate' = fate
        /\ buffered' = Append(buffered, head + 1)
        /\ pc # "Exited"
    BY <1>14 DEF DrainMessage, Buffer
  <2>2. \A k \in DOMAIN buffered :
           k \in DOMAIN buffered' /\ buffered'[k] = buffered[k]
    BY <2>1
  <2>3. /\ Len(buffered) + 1 \in DOMAIN buffered'
        /\ buffered'[Len(buffered) + 1] = head + 1
    BY <2>1
  <2> SUFFICES ASSUME NEW i \in 1..head', log[i] \in Messages,
                      fate[i] = "pending"
               PROVE  \E k \in DOMAIN buffered' : buffered'[k] = i
    BY <2>1
  <2>4. CASE i = head + 1
    BY <2>3, <2>4
  <2>5. CASE i \in 1..head
    BY <2>1, <2>2, <2>5
  <2> QED
    BY <2>1, <2>4, <2>5
<1>15. CASE DrainNetworkChanged
  BY <1>15 DEF DrainNetworkChanged
<1>16. CASE NetReconnect
  BY <1>16 DEF NetReconnect
<1>17. CASE NetConnectOk
  BY <1>17 DEF NetConnectOk, AnyEndpoint, Racer
<1>18. CASE NetConnectErr
  BY <1>18 DEF NetConnectErr
<1>19. CASE ReplaySent
  BY <1>19 DEF ReplaySent, NextReplay
<1>20. CASE ReplaySkipped
  BY <1>20 DEF ReplaySkipped, NextReplay
<1>21. CASE ReplayFailed
  BY <1>21 DEF ReplayFailed
<1>22. CASE ReplayDone
  <2>1. /\ replayed = Len(buffered) /\ pc # "Exited"
        /\ UNCHANGED <<log, head, fate>>
    BY <1>22 DEF ReplayDone
  <2>2. \A k \in DOMAIN buffered : fate[buffered[k]] # "pending"
    BY <2>1
  <2> QED
    BY <2>1, <2>2
<1>23. CASE RetryExhausted
  BY <1>23 DEF RetryExhausted
<1>24. CASE RetryBackoff
  BY <1>24 DEF RetryBackoff, Exhausted, NextAttempt
<1>25. CASE BackoffElapsed
  BY <1>25 DEF BackoffElapsed
<1>26. CASE BackoffClose
  <2>1. CASE Abort("Backoff")
    BY <2>1 DEF Abort
  <2>2. CASE Abort("BackoffDrain")
    BY <2>2 DEF Abort
  <2> QED
    BY <1>26, <2>1, <2>2 DEF BackoffClose
<1>27. CASE BackoffMessage
  <2>1. /\ head' = head + 1 /\ log' = log /\ fate' = fate
        /\ buffered' = Append(buffered, head + 1)
        /\ pc # "Exited"
    BY <1>27 DEF BackoffMessage, Buffer
  <2>2. \A k \in DOMAIN buffered :
           k \in DOMAIN buffered' /\ buffered'[k] = buffered[k]
    BY <2>1
  <2>3. /\ Len(buffered) + 1 \in DOMAIN buffered'
        /\ buffered'[Len(buffered) + 1] = head + 1
    BY <2>1
  <2> SUFFICES ASSUME NEW i \in 1..head', log[i] \in Messages,
                      fate[i] = "pending"
               PROVE  \E k \in DOMAIN buffered' : buffered'[k] = i
    BY <2>1
  <2>4. CASE i = head + 1
    BY <2>3, <2>4
  <2>5. CASE i \in 1..head
    BY <2>1, <2>2, <2>5
  <2> QED
    BY <2>1, <2>4, <2>5
<1>28. CASE BackoffNetworkChanged
  BY <1>28 DEF BackoffNetworkChanged
<1>29. CASE BackoffDone
  BY <1>29 DEF BackoffDone, RebuildClient
<1>30. CASE ConnectOk
  BY <1>30 DEF ConnectOk, AnyEndpoint, Racer
<1>31. CASE ConnectErr
  BY <1>31 DEF ConnectErr
<1>32. CASE UNCHANGED vars
  BY <1>32 DEF vars
<1> HIDE DEF IInv, NoForgottenMessage
<1> QED
  BY <1>1, <1>2, <1>3, <1>4, <1>5, <1>6, <1>7, <1>8, <1>9, <1>10,
     <1>11, <1>12, <1>13, <1>14, <1>15, <1>16, <1>17, <1>18, <1>19,
     <1>20, <1>21, <1>22, <1>23, <1>24, <1>25, <1>26, <1>27, <1>28,
     <1>29, <1>30, <1>31, <1>32
  DEF Next, User, Environment, Manager, Done

-----------------------------------------------------------------------------
(* The safety theorems.                                                    *)

\* The state in which WsTransport::connect starts the manager satisfies IInv.
LEMMA InvInit == Init => IInv
<1> SUFFICES ASSUME Init PROVE IInv
  OBVIOUS
<1>1. TypeOK
  BY TypeInit
<1>2. SeenOK /\ CountOK /\ EndpointOK
  BY DEF Init, SeenOK, CountOK, EndpointOK
<1>3. BufferOK /\ SessionOK /\ FateOK /\ NoForgottenMessage
  BY ConfigAssumption
     DEF Init, BufferOK, SessionOK, FateOK, NoForgottenMessage, Sorted,
         Replaying, Ids
<1> QED
  BY <1>1, <1>2, <1>3 DEF IInv

\* IInv holds in every reachable state.
THEOREM Inductive == Spec => []IInv
<1>1. IInv /\ [Next]_vars => IInv'
  <2> SUFFICES ASSUME IInv, [Next]_vars PROVE IInv'
    OBVIOUS
  <2>1. TypeOK'
    BY FlagsStep, DataStep DEF IInv, TypeOK
  <2>2. SeenOK' /\ CountOK' /\ EndpointOK' /\ BufferOK'
    BY SeenStep, CountStep, EndpointStep, BufferStep
  <2>3. SessionOK' /\ FateOK' /\ NoForgottenMessage'
    BY SessionStep, FateStep, NoForgottenStep
  <2> QED
    BY <2>1, <2>2, <2>3 DEF IInv
<1> QED
  BY InvInit, <1>1, PTL DEF Spec

\* Buffering, replaying, a replay that fails half way and the attempt after
\* it forget no message, for any number of commands and reconnects.
THEOREM NothingForgotten == Spec => []NoForgottenMessage
<1>1. IInv => NoForgottenMessage
  BY DEF IInv
<1> QED
  BY Inductive, <1>1, PTL

\* The connects made between two successes are bounded by max_attempts.
THEOREM BoundedRetries == Spec => []RetryBudget
<1>1. IInv => RetryBudget
  BY ConfigAssumption DEF IInv, TypeOK, DataOK, CountOK, RetryBudget
<1> QED
  BY Inductive, <1>1, PTL

\* A network change is not forgotten by the attempts that follow it, and the
\* url announced is that of the open socket.
THEOREM EndpointChoice == Spec => []EndpointChosen
<1>1. IInv => EndpointChosen
  BY DEF IInv, EndpointOK, EndpointChosen, RaceAfterNetworkChange, ConnectedUrl
<1> QED
  BY Inductive, <1>1, PTL

\* Nothing accepted after a Close is sent.
THEOREM CloseFinal == Spec => []CloseIsFinal
<1>1. IInv => CloseIsFinal
  <2> SUFFICES ASSUME IInv,
                      NEW i \in 1..Len(log), NEW j \in 1..Len(log),
                      log[i] = "Close", i < j, fate[j] # "pending"
               PROVE  FALSE
    BY DEF CloseIsFinal
  <2>1. j \in Ids /\ head \in 0..Len(log)
    BY ConfigAssumption DEF IInv, TypeOK, DataOK, Ids
  <2>2. j <= head
    BY <2>1 DEF IInv, FateOK
  <2>3. i \in 1..head /\ i # head
    BY <2>1, <2>2
  <2> QED
    BY <2>3 DEF IInv, FateOK
<1> QED
  BY Inductive, <1>1, PTL

\* The only step that leaves a message unsure is a failed send of the select
\* loop, which ends the connection and concerns that one message.
THEOREM LossEnds == Spec => LossEndsConnection
<1>1. ASSUME IInv, [Next]_vars PROVE LossStep \/ UNCHANGED vars
  <2> USE <1>1 DEF LossStep
  <2>1. CASE UNCHANGED fate
    BY <2>1
  <2>2. CASE ConnectedSendFailed
    BY <2>2 DEF IInv, TypeOK, DataOK, SeenOK, ConnectedSendFailed,
                LeaveForRetry, Leave, Emit
  <2>3. CASE ConnectedSent \/ ConnectedEncodeError
    BY <2>3 DEF IInv, TypeOK, DataOK, ConnectedSent, ConnectedEncodeError
  <2>4. CASE ReplaySent \/ ReplaySkipped
    BY <2>4 DEF IInv, TypeOK, DataOK, ReplaySent, ReplaySkipped
  <2>5. \/ ConnectedSent \/ ConnectedSendFailed \/ ConnectedEncodeError
        \/ ReplaySent \/ ReplaySkipped \/ UNCHANGED fate
    BY DEF Next, User, Environment, Manager, Done, Send, DropHandles, Abort,
         Buffer, Exit, Leave, LeaveForRetry, history, vars,
         HeartbeatLost, HeartbeatPing, RecvPong, RecvData, RecvClose,
         ConnectedClose, ConnectedNetworkChanged, DrainClose,
         DrainMessage, DrainNetworkChanged, NetReconnect,
         NetConnectOk, NetConnectErr, ReplayFailed, ReplayDone,
         RetryExhausted, RetryBackoff, BackoffElapsed, BackoffClose,
         BackoffMessage, BackoffNetworkChanged, BackoffDone,
         ConnectOk, ConnectErr
  <2> QED
    BY <2>1, <2>2, <2>3, <2>4, <2>5
<1>2. IInv /\ [Next]_vars => [LossStep]_vars
  BY <1>1
<1> QED
  BY Inductive, <1>2, PTL DEF Spec, LossEndsConnection

-----------------------------------------------------------------------------
(* Refinement.                                                             *)

\* Every step of the manager is a step of WsContract or leaves what the user
\* sees unchanged.
LEMMA ContractStep ==
  ASSUME IInv, [Next]_vars PROVE [Contract!Next]_(Contract!vars)
<1> USE DEF Contract!Next, Contract!vars, seen, manager, history, Emit,
        EmitError
<1>1. ASSUME NEW kind \in Kinds, Send(kind)
      PROVE  [Contract!Next]_(Contract!vars)
  BY <1>1 DEF Send, IInv, TypeOK, DataOK, Events, Contract!Accept
<1>2. CASE DropHandles
  BY <1>2 DEF DropHandles
<1>3. CASE HeartbeatLost
  <2>1. Contract!Lose
    BY <1>3 DEF HeartbeatLost, Idle, LeaveForRetry, Leave, IInv, SeenOK,
           Contract!Lose
  <2> QED
    BY <2>1
<1>4. CASE HeartbeatPing
  BY <1>4 DEF HeartbeatPing, Idle, IInv, SeenOK
<1>5. CASE RecvPong
  BY <1>5 DEF RecvPong, Idle, IInv, SeenOK
<1>6. CASE RecvData
  BY <1>6 DEF RecvData, Idle, IInv, SeenOK
<1>7. CASE RecvClose
  <2>1. Contract!Lose
    BY <1>7 DEF RecvClose, Idle, LeaveForRetry, Leave, IInv, SeenOK,
           Contract!Lose
  <2> QED
    BY <2>1
<1>8. CASE ConnectedSent
  <2>1. head + 1 \in 1..Len(log)
    BY <1>8 DEF ConnectedSent, IInv, TypeOK, DataOK, Empty
  <2>2. \A k \in DOMAIN session : session[k] < head + 1
    <3>1. session \in Seq(Nat) /\ head \in Nat
      BY ConfigAssumption DEF IInv, TypeOK, DataOK, Ids
    <3>2. \A k \in 1..Len(session) : session[k] <= head
      BY DEF IInv, SessionOK
    <3> QED
      BY <3>1, <3>2
  <2>3. Contract!Transmit(head + 1)
    BY <1>8, <2>1, <2>2
    DEF ConnectedSent, IInv, SeenOK, Contract!Transmit
  <2> QED
    BY <2>1, <2>3
<1>9. CASE ConnectedSendFailed
  <2>1. Contract!Lose
    BY <1>9 DEF ConnectedSendFailed, LeaveForRetry, Leave, IInv, SeenOK,
           Contract!Lose
  <2> QED
    BY <2>1
<1>10. CASE ConnectedEncodeError
  BY <1>10 DEF ConnectedEncodeError, IInv, SeenOK
<1>11. CASE ConnectedClose
  <2>1. Contract!Finish
    BY <1>11 DEF ConnectedClose, Exit, IInv, TypeOK, DataOK,
           Events, Contract!Finish
  <2> QED
    BY <2>1
<1>12. CASE ConnectedNetworkChanged
  <2>1. Contract!Lose
    BY <1>12 DEF ConnectedNetworkChanged, Leave, IInv, SeenOK,
           Contract!Lose
  <2> QED
    BY <2>1
<1>13. CASE DrainClose
  <2>1. Contract!Finish
    BY <1>13 DEF DrainClose, Abort, Exit, IInv, TypeOK, DataOK,
           Events, Contract!Finish
  <2> QED
    BY <2>1
<1>14. CASE DrainMessage
  BY <1>14 DEF DrainMessage, Buffer, IInv, SeenOK
<1>15. CASE DrainNetworkChanged
  BY <1>15 DEF DrainNetworkChanged, IInv, SeenOK
<1>16. CASE NetReconnect
  <2>1. Contract!Retry
    BY <1>16 DEF NetReconnect, IInv, SeenOK, Contract!Retry
  <2> QED
    BY <2>1
<1>17. CASE NetConnectOk
  BY <1>17 DEF NetConnectOk, AnyEndpoint, Racer, IInv, SeenOK
<1>18. CASE NetConnectErr
  BY <1>18 DEF NetConnectErr, IInv, SeenOK
<1>19. CASE ReplaySent
  <2>1. NextReplay \in 1..Len(log)
    BY <1>19, ReplayAt DEF ReplaySent, IInv, TypeOK, DataOK
  <2>2. \A k \in DOMAIN session : session[k] < NextReplay
    <3>1. /\ session \in Seq(Nat) /\ buffered \in Seq(Nat)
          /\ replayed + 1 \in replayed + 1..Len(buffered)
      BY <1>19, ConfigAssumption DEF ReplaySent, IInv, TypeOK, DataOK, Ids
    <3>2. \A a \in 1..Len(session), b \in replayed + 1..Len(buffered) :
             session[a] < buffered[b]
      BY DEF IInv, SessionOK
    <3> QED
      BY <3>1, <3>2 DEF NextReplay
  <2>3. Contract!Transmit(NextReplay)
    BY <1>19, <2>1, <2>2
    DEF ReplaySent, Replaying, IInv, SeenOK, Contract!Transmit
  <2> QED
    BY <2>1, <2>3
<1>20. CASE ReplaySkipped
  BY <1>20 DEF ReplaySkipped, Replaying, IInv, SeenOK
<1>21. CASE ReplayFailed
  <2>1. Contract!Lose
    BY <1>21 DEF ReplayFailed, Replaying, IInv, SeenOK,
           Contract!Lose
  <2> QED
    BY <2>1
<1>22. CASE ReplayDone
  <2>1. Contract!Announce
    BY <1>22 DEF ReplayDone, Replaying, IInv, SeenOK, Contract!Announce
  <2> QED
    BY <2>1
<1>23. CASE RetryExhausted
  <2>1. Contract!Finish
    BY <1>23 DEF RetryExhausted, Exit, IInv, TypeOK, DataOK,
           Events, Contract!Finish
  <2> QED
    BY <2>1
<1>24. CASE RetryBackoff
  BY <1>24 DEF RetryBackoff, IInv, SeenOK, Contract!Retry
<1>25. CASE BackoffElapsed
  BY <1>25 DEF BackoffElapsed, IInv, SeenOK
<1>26. CASE BackoffClose
  <2>1. Contract!Finish
    BY <1>26 DEF BackoffClose, Abort, Exit, IInv, TypeOK, DataOK,
           Events, Contract!Finish
  <2> QED
    BY <2>1
<1>27. CASE BackoffMessage
  BY <1>27 DEF BackoffMessage, Buffer, IInv, SeenOK
<1>28. CASE BackoffNetworkChanged
  BY <1>28 DEF BackoffNetworkChanged, IInv, SeenOK
<1>29. CASE BackoffDone
  BY <1>29 DEF BackoffDone, RebuildClient, IInv, SeenOK
<1>30. CASE ConnectOk
  BY <1>30 DEF ConnectOk, IInv, SeenOK
<1>31. CASE ConnectErr
  BY <1>31 DEF ConnectErr, IInv, SeenOK
<1>32. CASE UNCHANGED vars
  BY <1>32 DEF vars
<1> QED
  BY <1>1, <1>2, <1>3, <1>4, <1>5, <1>6, <1>7, <1>8, <1>9, <1>10,
     <1>11, <1>12, <1>13, <1>14, <1>15, <1>16, <1>17, <1>18, <1>19,
     <1>20, <1>21, <1>22, <1>23, <1>24, <1>25, <1>26, <1>27, <1>28,
     <1>29, <1>30, <1>31, <1>32
  DEF Next, User, Environment, Manager, Done

\* The connection manager implements WsContract: the lifecycle events come in
\* the documented order, and each socket, replays included, carries accepted
\* commands at most once and in the order in which they were accepted.
THEOREM Refinement == Spec => ImplementsContract
<1>1. Init => Contract!Init
  BY DEF Init, Contract!Init
<1>2. IInv /\ [Next]_vars => [Contract!Next]_(Contract!vars)
  BY ContractStep
<1> QED
  BY <1>1, <1>2, Inductive, PTL
  DEF Spec, ImplementsContract, Contract!Spec
=============================================================================

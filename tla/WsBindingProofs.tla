-------------------------- MODULE WsBindingProofs ---------------------------
(***************************************************************************)
(* Proofs about WsBinding, for any number of clients and events, and about *)
(* AuxRuntime, the synchronous calls of the UniFFI binding, for any number *)
(* of calls and lines.                                                     *)
(***************************************************************************)
EXTENDS WsBinding, AuxRuntime, TLAPS

-----------------------------------------------------------------------------
(* The inductive invariant.                                                *)

TablesOK ==
    /\ binding \in {"c", "napi", "uniffi"}
    /\ nextId \in 1..(MaxClients + 1)
    /\ DOMAIN registry \subseteq Issued /\ marked \subseteq Issued
    /\ closing \subseteq Issued /\ aborted \subseteq Issued
    /\ busy \subseteq Issued /\ strays \subseteq Issued

PlacesOK ==
    /\ task \in [Clients -> Tasks]
    /\ destroyer \in [Clients -> {"no", "waiting", "marked", "returned"}]
    /\ inside \in [Clients -> 0..MaxClients]
    /\ \A k \in Clients :
         task[k] # "none" \/ destroyer[k] # "no" => k \in Issued

\* An event that came too late was one of the connection's: the report of a
\* failed connect never is.
EventsOK ==
    /\ conn \in [Clients -> {"none", "starting", "open", "ended"}]
    /\ sent \in [Clients -> 0..MaxEvents] /\ queue \in [Clients -> Nat]
    /\ late \in [Clients -> Nat]
    /\ \A k \in Clients :
         /\ conn[k] \in {"none", "starting"} => sent[k] = 0
         /\ late[k] + queue[k] <= sent[k]

\* The connection starts when connect has returned.
StartOK ==
    \A k \in Clients :
        task[k] \in {"none", "connecting"} => conn[k] = "none"

\* destroy is the C interface's, drop UniFFI's, and neither comes before there
\* is something to end.
WhoseOK ==
    \A k \in Clients :
        /\ destroyer[k] \in {"waiting", "marked"} => binding = "c"
        /\ destroyer[k] = "returned" => binding \in {"c", "uniffi"}
        /\ binding = "uniffi" =>
             /\ task[k] \notin {"failed", "reporting"}
             /\ task[k] \in {"none", "connecting", "connected"} =>
                  destroyer[k] = "no"

\* The handle is there from the task's entry on, until somebody removes it.
HandleOK ==
    \A k \in Clients :
        /\ task[k] \in {"none", "connecting", "connected", "clear", "failed",
                        "reporting"} => ~Has(k)
        /\ task[k] \in {"forwarding", "running", "calling"} =>
             Has(k) \/ destroyer[k] # "no"

\* A marked client makes no callback.  If its entry is made all the same, the
\* task had looked at the marks before.
MarkOK ==
    binding = "c" => \A k \in Clients :
        /\ late[k] = 0
        /\ destroyer[k] \in {"marked", "returned"} => k \in marked
        /\ k \in marked =>
             /\ ~Calling(k)
             /\ task[k] = "clear" => k \in busy
             /\ destroyer[k] \in {"marked", "returned"}

\* A dropped client's task has ended or was running.
DropOK ==
    binding = "uniffi" => \A k \in Clients :
        /\ destroyer[k] = "returned" => k \in busy \/ task[k] = "ended"
        /\ late[k] > 0 => k \in busy

\* Only an entry made in the race outlives destroy.
StrayOK ==
    /\ RefusedAfterDestroy
    /\ \A k \in Clients : destroyer[k] = "returned" /\ Has(k) => k \in busy

IInv ==
    /\ TablesOK /\ PlacesOK /\ EventsOK /\ StartOK /\ WhoseOK
    /\ HandleOK /\ MarkOK /\ DropOK /\ StrayOK

-----------------------------------------------------------------------------
(* It holds at the start, and every step keeps it.                         *)

\* No client was created.
LEMMA InvInit == Init => IInv
<1> SUFFICES ASSUME Init PROVE IInv
  OBVIOUS
<1> USE WsBindingAssumption DEF Init, RegistryInit
<1>1. TablesOK
  BY DEF TablesOK, Issued
<1>2. PlacesOK
  BY DEF PlacesOK, Tasks, Clients
<1>3. EventsOK
  BY DEF EventsOK
<1>4. StartOK /\ WhoseOK /\ HandleOK /\ MarkOK /\ DropOK /\ StrayOK
  BY DEF StartOK, WhoseOK, HandleOK, MarkOK, DropOK, StrayOK,
       RefusedAfterDestroy, Has
<1> HIDE DEF Init
<1> QED
  BY <1>1, <1>2, <1>3, <1>4 DEF IInv

\* Only ids that were handed out get into the tables.
LEMMA TablesStep == IInv /\ [Next]_vars => TablesOK'
<1> SUFFICES ASSUME IInv, [Next]_vars PROVE TablesOK'
  OBVIOUS
<1> USE WsBindingAssumption
        DEF IInv, TablesOK, PlacesOK, Issued, Clients, TakeId, InsertWithId,
        RemoveId, Has, handleVars, connection, history
<1>1. CASE Create
  BY <1>1 DEF Create
<1>2. ASSUME NEW k \in Clients, IsCancelled(k) PROVE TablesOK'
  <2>1. k \in Issued
    BY <1>2 DEF IsCancelled
  <2>2. UNCHANGED <<binding, nextId, registry, marked, aborted, busy, strays>>
    BY <1>2 DEF IsCancelled
  <2>3. closing' = closing \/ closing' = closing \cup {k}
    BY <1>2 DEF IsCancelled
  <2> QED
    BY <2>1, <2>2, <2>3
<1>3. ASSUME NEW k \in Clients, Register(k) PROVE TablesOK'
  BY <1>3 DEF Register
<1>4. ASSUME NEW k \in Clients, Receive(k) PROVE TablesOK'
  BY <1>4 DEF Receive
<1>5. ASSUME NEW k \in Clients, ReportError(k) PROVE TablesOK'
  BY <1>5 DEF ReportError
<1>6. ASSUME NEW k \in Clients, CallbackReturns(k) PROVE TablesOK'
  BY <1>6 DEF CallbackReturns
<1>7. ASSUME NEW k \in Clients, Suspend(k) PROVE TablesOK'
  BY <1>7 DEF Suspend
<1>8. ASSUME NEW k \in Clients, EventsEnd(k) PROVE TablesOK'
  BY <1>8 DEF EventsEnd
<1>9. ASSUME NEW k \in Clients, Leave(k) PROVE TablesOK'
  BY <1>9 DEF Leave
<1>10. ASSUME NEW k \in Clients, Start(k) PROVE TablesOK'
  BY <1>10 DEF Start
<1>11. ASSUME NEW k \in Clients, End(k) PROVE TablesOK'
  BY <1>11 DEF End
<1>12. ASSUME NEW k \in Clients, Mark(k) PROVE TablesOK'
  BY <1>12 DEF Mark
<1>13. ASSUME NEW k \in Clients, DestroyRemove(k) PROVE TablesOK'
  BY <1>13 DEF DestroyRemove
<1>14. ASSUME NEW k \in Clients, ConnectOk(k) PROVE TablesOK'
  BY <1>14 DEF ConnectOk
<1>15. ASSUME NEW k \in Clients, ConnectErr(k) PROVE TablesOK'
  BY <1>15 DEF ConnectErr
<1>16. ASSUME NEW k \in Clients, NEW last \in BOOLEAN, SendEvent(k, last)
       PROVE  TablesOK'
  BY <1>16 DEF SendEvent
<1>17. ASSUME NEW k \in Clients, Accept(k) PROVE TablesOK'
  BY <1>17 DEF Accept
<1>18. ASSUME NEW k \in Clients, Close(k) PROVE TablesOK'
  BY <1>18 DEF Close
<1>19. ASSUME NEW k \in Clients, Drop(k) PROVE TablesOK'
  <2>1. k \in Issued
    BY <1>19 DEF Drop
  <2>2. /\ UNCHANGED <<binding, nextId, marked, strays>>
        /\ closing' = closing \cup {k} /\ aborted' = aborted \cup {k}
        /\ DOMAIN registry' \subseteq DOMAIN registry
    BY <1>19 DEF Drop
  <2>3. busy' = busy \/ busy' = busy \cup {k}
    BY <1>19 DEF Drop
  <2> QED
    BY <2>1, <2>2, <2>3
<1>20. ASSUME NEW k \in Clients, NEW j \in {0} \cup Clients, Destroy(k, j)
       PROVE  TablesOK'
  BY <1>20 DEF Destroy
<1>21. CASE UNCHANGED vars
  BY <1>21 DEF vars
<1> HIDE DEF IInv, TablesOK
<1> QED
  BY <1>1, <1>2, <1>3, <1>4, <1>5, <1>6, <1>7, <1>8, <1>9, <1>10, <1>11,
     <1>12, <1>13, <1>14, <1>15, <1>16, <1>17, <1>18, <1>19, <1>20, <1>21
  DEF Next, Task, Manager, Destroying, CSend, CNetworkChanged,
      NapiCommand, UniffiCommand

\* Only a client that was created has a task or is destroyed.
LEMMA PlacesStep == IInv /\ [Next]_vars => PlacesOK'
<1> SUFFICES ASSUME IInv, [Next]_vars PROVE PlacesOK'
  OBVIOUS
<1> USE WsBindingAssumption
        DEF IInv, TablesOK, PlacesOK, Issued, Clients, Tasks, Goto, Calling,
        TakeId, InsertWithId, RemoveId, Has, handleVars, connection,
        history
<1>1. CASE Create
  BY <1>1 DEF Create
<1>2. ASSUME NEW k \in Clients, IsCancelled(k) PROVE PlacesOK'
  BY <1>2 DEF IsCancelled
<1>3. ASSUME NEW k \in Clients, Register(k) PROVE PlacesOK'
  BY <1>3 DEF Register
<1>4. ASSUME NEW k \in Clients, Receive(k) PROVE PlacesOK'
  BY <1>4 DEF Receive, Invoke
<1>5. ASSUME NEW k \in Clients, ReportError(k) PROVE PlacesOK'
  BY <1>5 DEF ReportError, Invoke
<1>6. ASSUME NEW k \in Clients, CallbackReturns(k) PROVE PlacesOK'
  BY <1>6 DEF CallbackReturns
<1>7. ASSUME NEW k \in Clients, Suspend(k) PROVE PlacesOK'
  BY <1>7 DEF Suspend
<1>8. ASSUME NEW k \in Clients, EventsEnd(k) PROVE PlacesOK'
  BY <1>8 DEF EventsEnd
<1>9. ASSUME NEW k \in Clients, Leave(k) PROVE PlacesOK'
  BY <1>9 DEF Leave
<1>10. ASSUME NEW k \in Clients, Start(k) PROVE PlacesOK'
  BY <1>10 DEF Start
<1>11. ASSUME NEW k \in Clients, End(k) PROVE PlacesOK'
  BY <1>11 DEF End
<1>12. ASSUME NEW k \in Clients, Mark(k) PROVE PlacesOK'
  BY <1>12 DEF Mark
<1>13. ASSUME NEW k \in Clients, DestroyRemove(k) PROVE PlacesOK'
  BY <1>13 DEF DestroyRemove
<1>14. ASSUME NEW k \in Clients, ConnectOk(k) PROVE PlacesOK'
  BY <1>14 DEF ConnectOk
<1>15. ASSUME NEW k \in Clients, ConnectErr(k) PROVE PlacesOK'
  BY <1>15 DEF ConnectErr
<1>16. ASSUME NEW k \in Clients, NEW last \in BOOLEAN, SendEvent(k, last)
       PROVE  PlacesOK'
  BY <1>16 DEF SendEvent
<1>17. ASSUME NEW k \in Clients, Accept(k) PROVE PlacesOK'
  BY <1>17 DEF Accept
<1>18. ASSUME NEW k \in Clients, Close(k) PROVE PlacesOK'
  BY <1>18 DEF Close
<1>19. ASSUME NEW k \in Clients, Drop(k) PROVE PlacesOK'
  BY <1>19 DEF Drop
<1>20. ASSUME NEW k \in Clients, NEW j \in {0} \cup Clients, Destroy(k, j)
       PROVE  PlacesOK'
  BY <1>20 DEF Destroy
<1>21. CASE UNCHANGED vars
  BY <1>21 DEF vars
<1> HIDE DEF IInv, PlacesOK
<1> QED
  BY <1>1, <1>2, <1>3, <1>4, <1>5, <1>6, <1>7, <1>8, <1>9, <1>10, <1>11,
     <1>12, <1>13, <1>14, <1>15, <1>16, <1>17, <1>18, <1>19, <1>20, <1>21
  DEF Next, Task, Manager, Destroying, CSend, CNetworkChanged,
      NapiCommand, UniffiCommand

\* Each callback that comes late is that of an event.
LEMMA EventsStep == IInv /\ [Next]_vars => EventsOK'
<1> SUFFICES ASSUME IInv, [Next]_vars PROVE EventsOK'
  OBVIOUS
<1> USE WsBindingAssumption
        DEF IInv, EventsOK, StartOK, PlacesOK, WhoseOK, MarkOK, handleVars,
        connection, history
<1>1. CASE Create
  BY <1>1 DEF Create
<1>2. ASSUME NEW k \in Clients, IsCancelled(k) PROVE EventsOK'
  BY <1>2 DEF IsCancelled
<1>3. ASSUME NEW k \in Clients, Register(k) PROVE EventsOK'
  BY <1>3 DEF Register
<1>4. ASSUME NEW k \in Clients, Receive(k) PROVE EventsOK'
  BY <1>4 DEF Receive, Invoke
<1>5. ASSUME NEW k \in Clients, ReportError(k) PROVE EventsOK'
  BY <1>5 DEF ReportError, Invoke
<1>6. ASSUME NEW k \in Clients, CallbackReturns(k) PROVE EventsOK'
  BY <1>6 DEF CallbackReturns
<1>7. ASSUME NEW k \in Clients, Suspend(k) PROVE EventsOK'
  BY <1>7 DEF Suspend
<1>8. ASSUME NEW k \in Clients, EventsEnd(k) PROVE EventsOK'
  BY <1>8 DEF EventsEnd
<1>9. ASSUME NEW k \in Clients, Leave(k) PROVE EventsOK'
  BY <1>9 DEF Leave
<1>10. ASSUME NEW k \in Clients, Start(k) PROVE EventsOK'
  BY <1>10 DEF Start
<1>11. ASSUME NEW k \in Clients, End(k) PROVE EventsOK'
  BY <1>11 DEF End
<1>12. ASSUME NEW k \in Clients, Mark(k) PROVE EventsOK'
  BY <1>12 DEF Mark
<1>13. ASSUME NEW k \in Clients, DestroyRemove(k) PROVE EventsOK'
  BY <1>13 DEF DestroyRemove
<1>14. ASSUME NEW k \in Clients, ConnectOk(k) PROVE EventsOK'
  BY <1>14 DEF ConnectOk
<1>15. ASSUME NEW k \in Clients, ConnectErr(k) PROVE EventsOK'
  BY <1>15 DEF ConnectErr
<1>16. ASSUME NEW k \in Clients, NEW last \in BOOLEAN, SendEvent(k, last)
       PROVE  EventsOK'
  BY <1>16 DEF SendEvent
<1>17. ASSUME NEW k \in Clients, Accept(k) PROVE EventsOK'
  BY <1>17 DEF Accept
<1>18. ASSUME NEW k \in Clients, Close(k) PROVE EventsOK'
  BY <1>18 DEF Close
<1>19. ASSUME NEW k \in Clients, Drop(k) PROVE EventsOK'
  BY <1>19 DEF Drop
<1>20. ASSUME NEW k \in Clients, NEW j \in {0} \cup Clients, Destroy(k, j)
       PROVE  EventsOK'
  BY <1>20 DEF Destroy
<1>21. CASE UNCHANGED vars
  BY <1>21 DEF vars
<1> HIDE DEF IInv, EventsOK
<1> QED
  BY <1>1, <1>2, <1>3, <1>4, <1>5, <1>6, <1>7, <1>8, <1>9, <1>10, <1>11,
     <1>12, <1>13, <1>14, <1>15, <1>16, <1>17, <1>18, <1>19, <1>20, <1>21
  DEF Next, Task, Manager, Destroying, CSend, CNetworkChanged,
      NapiCommand, UniffiCommand

\* A connection has its task past the connect.
LEMMA StartStep == IInv /\ [Next]_vars => StartOK'
<1> SUFFICES ASSUME IInv, [Next]_vars PROVE StartOK'
  OBVIOUS
<1> USE WsBindingAssumption
        DEF IInv, StartOK, EventsOK, PlacesOK, Goto, Tasks, Calling, Clients,
        Issued, TablesOK, TakeId, handleVars, connection, history
<1>1. CASE Create
  BY <1>1 DEF Create
<1>2. ASSUME NEW k \in Clients, IsCancelled(k) PROVE StartOK'
  BY <1>2 DEF IsCancelled
<1>3. ASSUME NEW k \in Clients, Register(k) PROVE StartOK'
  BY <1>3 DEF Register
<1>4. ASSUME NEW k \in Clients, Receive(k) PROVE StartOK'
  BY <1>4 DEF Receive, Invoke
<1>5. ASSUME NEW k \in Clients, ReportError(k) PROVE StartOK'
  BY <1>5 DEF ReportError, Invoke
<1>6. ASSUME NEW k \in Clients, CallbackReturns(k) PROVE StartOK'
  BY <1>6 DEF CallbackReturns
<1>7. ASSUME NEW k \in Clients, Suspend(k) PROVE StartOK'
  BY <1>7 DEF Suspend
<1>8. ASSUME NEW k \in Clients, EventsEnd(k) PROVE StartOK'
  BY <1>8 DEF EventsEnd
<1>9. ASSUME NEW k \in Clients, Leave(k) PROVE StartOK'
  BY <1>9 DEF Leave
<1>10. ASSUME NEW k \in Clients, Start(k) PROVE StartOK'
  BY <1>10 DEF Start
<1>11. ASSUME NEW k \in Clients, End(k) PROVE StartOK'
  BY <1>11 DEF End
<1>12. ASSUME NEW k \in Clients, Mark(k) PROVE StartOK'
  BY <1>12 DEF Mark
<1>13. ASSUME NEW k \in Clients, DestroyRemove(k) PROVE StartOK'
  BY <1>13 DEF DestroyRemove
<1>14. ASSUME NEW k \in Clients, ConnectOk(k) PROVE StartOK'
  BY <1>14 DEF ConnectOk
<1>15. ASSUME NEW k \in Clients, ConnectErr(k) PROVE StartOK'
  BY <1>15 DEF ConnectErr
<1>16. ASSUME NEW k \in Clients, NEW last \in BOOLEAN, SendEvent(k, last)
       PROVE  StartOK'
  BY <1>16 DEF SendEvent
<1>17. ASSUME NEW k \in Clients, Accept(k) PROVE StartOK'
  BY <1>17 DEF Accept
<1>18. ASSUME NEW k \in Clients, Close(k) PROVE StartOK'
  BY <1>18 DEF Close
<1>19. ASSUME NEW k \in Clients, Drop(k) PROVE StartOK'
  BY <1>19 DEF Drop
<1>20. ASSUME NEW k \in Clients, NEW j \in {0} \cup Clients, Destroy(k, j)
       PROVE  StartOK'
  BY <1>20 DEF Destroy
<1>21. CASE UNCHANGED vars
  BY <1>21 DEF vars
<1> HIDE DEF IInv, StartOK
<1> QED
  BY <1>1, <1>2, <1>3, <1>4, <1>5, <1>6, <1>7, <1>8, <1>9, <1>10, <1>11,
     <1>12, <1>13, <1>14, <1>15, <1>16, <1>17, <1>18, <1>19, <1>20, <1>21
  DEF Next, Task, Manager, Destroying, CSend, CNetworkChanged,
      NapiCommand, UniffiCommand

\* Each binding ends its clients in its own way.
LEMMA WhoseStep == IInv /\ [Next]_vars => WhoseOK'
<1> SUFFICES ASSUME IInv, [Next]_vars PROVE WhoseOK'
  OBVIOUS
<1> USE WsBindingAssumption
        DEF IInv, TablesOK, PlacesOK, WhoseOK, HandleOK, Tasks, Calling, Goto,
        Clients, Issued, TakeId, InsertWithId, RemoveId, Has, handleVars,
        connection, history
<1>1. CASE Create
  BY <1>1 DEF Create
<1>2. ASSUME NEW k \in Clients, IsCancelled(k) PROVE WhoseOK'
  BY <1>2 DEF IsCancelled
<1>3. ASSUME NEW k \in Clients, Register(k) PROVE WhoseOK'
  BY <1>3 DEF Register
<1>4. ASSUME NEW k \in Clients, Receive(k) PROVE WhoseOK'
  BY <1>4 DEF Receive, Invoke
<1>5. ASSUME NEW k \in Clients, ReportError(k) PROVE WhoseOK'
  BY <1>5 DEF ReportError, Invoke
<1>6. ASSUME NEW k \in Clients, CallbackReturns(k) PROVE WhoseOK'
  BY <1>6 DEF CallbackReturns
<1>7. ASSUME NEW k \in Clients, Suspend(k) PROVE WhoseOK'
  BY <1>7 DEF Suspend
<1>8. ASSUME NEW k \in Clients, EventsEnd(k) PROVE WhoseOK'
  BY <1>8 DEF EventsEnd
<1>9. ASSUME NEW k \in Clients, Leave(k) PROVE WhoseOK'
  BY <1>9 DEF Leave
<1>10. ASSUME NEW k \in Clients, Start(k) PROVE WhoseOK'
  BY <1>10 DEF Start
<1>11. ASSUME NEW k \in Clients, End(k) PROVE WhoseOK'
  BY <1>11 DEF End
<1>12. ASSUME NEW k \in Clients, Mark(k) PROVE WhoseOK'
  BY <1>12 DEF Mark
<1>13. ASSUME NEW k \in Clients, DestroyRemove(k) PROVE WhoseOK'
  BY <1>13 DEF DestroyRemove
<1>14. ASSUME NEW k \in Clients, ConnectOk(k) PROVE WhoseOK'
  BY <1>14 DEF ConnectOk
<1>15. ASSUME NEW k \in Clients, ConnectErr(k) PROVE WhoseOK'
  BY <1>15 DEF ConnectErr
<1>16. ASSUME NEW k \in Clients, NEW last \in BOOLEAN, SendEvent(k, last)
       PROVE  WhoseOK'
  BY <1>16 DEF SendEvent
<1>17. ASSUME NEW k \in Clients, Accept(k) PROVE WhoseOK'
  BY <1>17 DEF Accept
<1>18. ASSUME NEW k \in Clients, Close(k) PROVE WhoseOK'
  BY <1>18 DEF Close
<1>19. ASSUME NEW k \in Clients, Drop(k) PROVE WhoseOK'
  BY <1>19 DEF Drop
<1>20. ASSUME NEW k \in Clients, NEW j \in {0} \cup Clients, Destroy(k, j)
       PROVE  WhoseOK'
  BY <1>20 DEF Destroy
<1>21. CASE UNCHANGED vars
  BY <1>21 DEF vars
<1> HIDE DEF IInv, WhoseOK
<1> QED
  BY <1>1, <1>2, <1>3, <1>4, <1>5, <1>6, <1>7, <1>8, <1>9, <1>10, <1>11,
     <1>12, <1>13, <1>14, <1>15, <1>16, <1>17, <1>18, <1>19, <1>20, <1>21
  DEF Next, Task, Manager, Destroying, CSend, CNetworkChanged,
      NapiCommand, UniffiCommand

\* The handle is stored before the first event is forwarded.
LEMMA HandleStep == IInv /\ [Next]_vars => HandleOK'
<1> SUFFICES ASSUME IInv, [Next]_vars PROVE HandleOK'
  OBVIOUS
<1> USE WsBindingAssumption
        DEF IInv, TablesOK, PlacesOK, HandleOK, Tasks, Calling, Goto, Clients,
        Issued, TakeId, InsertWithId, RemoveId, Has, handleVars,
        connection, history
<1>1. CASE Create
  BY <1>1 DEF Create
<1>2. ASSUME NEW k \in Clients, IsCancelled(k) PROVE HandleOK'
  BY <1>2 DEF IsCancelled
<1>3. ASSUME NEW k \in Clients, Register(k) PROVE HandleOK'
  BY <1>3 DEF Register
<1>4. ASSUME NEW k \in Clients, Receive(k) PROVE HandleOK'
  BY <1>4 DEF Receive, Invoke
<1>5. ASSUME NEW k \in Clients, ReportError(k) PROVE HandleOK'
  BY <1>5 DEF ReportError, Invoke
<1>6. ASSUME NEW k \in Clients, CallbackReturns(k) PROVE HandleOK'
  BY <1>6 DEF CallbackReturns
<1>7. ASSUME NEW k \in Clients, Suspend(k) PROVE HandleOK'
  BY <1>7 DEF Suspend
<1>8. ASSUME NEW k \in Clients, EventsEnd(k) PROVE HandleOK'
  BY <1>8 DEF EventsEnd
<1>9. ASSUME NEW k \in Clients, Leave(k) PROVE HandleOK'
  BY <1>9 DEF Leave
<1>10. ASSUME NEW k \in Clients, Start(k) PROVE HandleOK'
  BY <1>10 DEF Start
<1>11. ASSUME NEW k \in Clients, End(k) PROVE HandleOK'
  BY <1>11 DEF End
<1>12. ASSUME NEW k \in Clients, Mark(k) PROVE HandleOK'
  BY <1>12 DEF Mark
<1>13. ASSUME NEW k \in Clients, DestroyRemove(k) PROVE HandleOK'
  BY <1>13 DEF DestroyRemove
<1>14. ASSUME NEW k \in Clients, ConnectOk(k) PROVE HandleOK'
  BY <1>14 DEF ConnectOk
<1>15. ASSUME NEW k \in Clients, ConnectErr(k) PROVE HandleOK'
  BY <1>15 DEF ConnectErr
<1>16. ASSUME NEW k \in Clients, NEW last \in BOOLEAN, SendEvent(k, last)
       PROVE  HandleOK'
  BY <1>16 DEF SendEvent
<1>17. ASSUME NEW k \in Clients, Accept(k) PROVE HandleOK'
  BY <1>17 DEF Accept
<1>18. ASSUME NEW k \in Clients, Close(k) PROVE HandleOK'
  BY <1>18 DEF Close
<1>19. ASSUME NEW k \in Clients, Drop(k) PROVE HandleOK'
  BY <1>19 DEF Drop
<1>20. ASSUME NEW k \in Clients, NEW j \in {0} \cup Clients, Destroy(k, j)
       PROVE  HandleOK'
  BY <1>20 DEF Destroy
<1>21. CASE UNCHANGED vars
  BY <1>21 DEF vars
<1> HIDE DEF IInv, HandleOK
<1> QED
  BY <1>1, <1>2, <1>3, <1>4, <1>5, <1>6, <1>7, <1>8, <1>9, <1>10, <1>11,
     <1>12, <1>13, <1>14, <1>15, <1>16, <1>17, <1>18, <1>19, <1>20, <1>21
  DEF Next, Task, Manager, Destroying, CSend, CNetworkChanged,
      NapiCommand, UniffiCommand

\* The mark is set while no callback runs, and looked at under its lock before
\* each.
LEMMA MarkStep == IInv /\ [Next]_vars => MarkOK'
<1> SUFFICES ASSUME IInv, [Next]_vars PROVE MarkOK'
  OBVIOUS
<1> USE WsBindingAssumption
        DEF IInv, TablesOK, PlacesOK, EventsOK, WhoseOK, MarkOK, Tasks, Calling,
        CanWrite, Goto, Clients, Issued, TakeId, handleVars, connection,
        history
<1>1. CASE Create
  BY <1>1 DEF Create
<1>2. ASSUME NEW k \in Clients, IsCancelled(k) PROVE MarkOK'
  BY <1>2 DEF IsCancelled
<1>3. ASSUME NEW k \in Clients, Register(k) PROVE MarkOK'
  BY <1>3 DEF Register
<1>4. ASSUME NEW k \in Clients, Receive(k) PROVE MarkOK'
  BY <1>4 DEF Receive, Invoke
<1>5. ASSUME NEW k \in Clients, ReportError(k) PROVE MarkOK'
  BY <1>5 DEF ReportError, Invoke
<1>6. ASSUME NEW k \in Clients, CallbackReturns(k) PROVE MarkOK'
  BY <1>6 DEF CallbackReturns
<1>7. ASSUME NEW k \in Clients, Suspend(k) PROVE MarkOK'
  BY <1>7 DEF Suspend
<1>8. ASSUME NEW k \in Clients, EventsEnd(k) PROVE MarkOK'
  BY <1>8 DEF EventsEnd
<1>9. ASSUME NEW k \in Clients, Leave(k) PROVE MarkOK'
  BY <1>9 DEF Leave
<1>10. ASSUME NEW k \in Clients, Start(k) PROVE MarkOK'
  BY <1>10 DEF Start
<1>11. ASSUME NEW k \in Clients, End(k) PROVE MarkOK'
  BY <1>11 DEF End
<1>12. ASSUME NEW k \in Clients, Mark(k) PROVE MarkOK'
  BY <1>12 DEF Mark
<1>13. ASSUME NEW k \in Clients, DestroyRemove(k) PROVE MarkOK'
  BY <1>13 DEF DestroyRemove
<1>14. ASSUME NEW k \in Clients, ConnectOk(k) PROVE MarkOK'
  BY <1>14 DEF ConnectOk
<1>15. ASSUME NEW k \in Clients, ConnectErr(k) PROVE MarkOK'
  BY <1>15 DEF ConnectErr
<1>16. ASSUME NEW k \in Clients, NEW last \in BOOLEAN, SendEvent(k, last)
       PROVE  MarkOK'
  BY <1>16 DEF SendEvent
<1>17. ASSUME NEW k \in Clients, Accept(k) PROVE MarkOK'
  BY <1>17 DEF Accept
<1>18. ASSUME NEW k \in Clients, Close(k) PROVE MarkOK'
  BY <1>18 DEF Close
<1>19. ASSUME NEW k \in Clients, Drop(k) PROVE MarkOK'
  BY <1>19 DEF Drop
<1>20. ASSUME NEW k \in Clients, NEW j \in {0} \cup Clients, Destroy(k, j)
       PROVE  MarkOK'
  BY <1>20 DEF Destroy
<1>21. CASE UNCHANGED vars
  BY <1>21 DEF vars
<1> HIDE DEF IInv, MarkOK
<1> QED
  BY <1>1, <1>2, <1>3, <1>4, <1>5, <1>6, <1>7, <1>8, <1>9, <1>10, <1>11,
     <1>12, <1>13, <1>14, <1>15, <1>16, <1>17, <1>18, <1>19, <1>20, <1>21
  DEF Next, Task, Manager, Destroying, CSend, CNetworkChanged,
      NapiCommand, UniffiCommand

\* The abort ends the task at once, or when its poll is over.
LEMMA DropStep == IInv /\ [Next]_vars => DropOK'
<1> SUFFICES ASSUME IInv, [Next]_vars PROVE DropOK'
  OBVIOUS
<1> USE WsBindingAssumption
        DEF IInv, TablesOK, PlacesOK, EventsOK, WhoseOK, DropOK, Tasks, Calling,
        Goto, Clients, Issued, TakeId, handleVars, connection, history
<1>1. CASE Create
  BY <1>1 DEF Create
<1>2. ASSUME NEW k \in Clients, IsCancelled(k) PROVE DropOK'
  BY <1>2 DEF IsCancelled
<1>3. ASSUME NEW k \in Clients, Register(k) PROVE DropOK'
  BY <1>3 DEF Register
<1>4. ASSUME NEW k \in Clients, Receive(k) PROVE DropOK'
  BY <1>4 DEF Receive, Invoke
<1>5. ASSUME NEW k \in Clients, ReportError(k) PROVE DropOK'
  BY <1>5 DEF ReportError, Invoke
<1>6. ASSUME NEW k \in Clients, CallbackReturns(k) PROVE DropOK'
  BY <1>6 DEF CallbackReturns
<1>7. ASSUME NEW k \in Clients, Suspend(k) PROVE DropOK'
  BY <1>7 DEF Suspend
<1>8. ASSUME NEW k \in Clients, EventsEnd(k) PROVE DropOK'
  BY <1>8 DEF EventsEnd
<1>9. ASSUME NEW k \in Clients, Leave(k) PROVE DropOK'
  BY <1>9 DEF Leave
<1>10. ASSUME NEW k \in Clients, Start(k) PROVE DropOK'
  BY <1>10 DEF Start
<1>11. ASSUME NEW k \in Clients, End(k) PROVE DropOK'
  BY <1>11 DEF End
<1>12. ASSUME NEW k \in Clients, Mark(k) PROVE DropOK'
  BY <1>12 DEF Mark
<1>13. ASSUME NEW k \in Clients, DestroyRemove(k) PROVE DropOK'
  BY <1>13 DEF DestroyRemove
<1>14. ASSUME NEW k \in Clients, ConnectOk(k) PROVE DropOK'
  BY <1>14 DEF ConnectOk
<1>15. ASSUME NEW k \in Clients, ConnectErr(k) PROVE DropOK'
  BY <1>15 DEF ConnectErr
<1>16. ASSUME NEW k \in Clients, NEW last \in BOOLEAN, SendEvent(k, last)
       PROVE  DropOK'
  BY <1>16 DEF SendEvent
<1>17. ASSUME NEW k \in Clients, Accept(k) PROVE DropOK'
  BY <1>17 DEF Accept
<1>18. ASSUME NEW k \in Clients, Close(k) PROVE DropOK'
  BY <1>18 DEF Close
<1>19. ASSUME NEW k \in Clients, Drop(k) PROVE DropOK'
  BY <1>19 DEF Drop
<1>20. ASSUME NEW k \in Clients, NEW j \in {0} \cup Clients, Destroy(k, j)
       PROVE  DropOK'
  BY <1>20 DEF Destroy
<1>21. CASE UNCHANGED vars
  BY <1>21 DEF vars
<1> HIDE DEF IInv, DropOK
<1> QED
  BY <1>1, <1>2, <1>3, <1>4, <1>5, <1>6, <1>7, <1>8, <1>9, <1>10, <1>11,
     <1>12, <1>13, <1>14, <1>15, <1>16, <1>17, <1>18, <1>19, <1>20, <1>21
  DEF Next, Task, Manager, Destroying, CSend, CNetworkChanged,
      NapiCommand, UniffiCommand

\* destroy removes the entry, and only the task of a client in the race makes
\* it again.
LEMMA StrayStep == IInv /\ [Next]_vars => StrayOK'
<1> SUFFICES ASSUME IInv, [Next]_vars PROVE StrayOK'
  OBVIOUS
<1> USE WsBindingAssumption
        DEF IInv, TablesOK, PlacesOK, WhoseOK, HandleOK, MarkOK, StrayOK,
        RefusedAfterDestroy, Tasks, Goto, Clients, Issued, TakeId,
        InsertWithId, RemoveId, Has, handleVars, connection, history
<1>1. CASE Create
  BY <1>1 DEF Create
<1>2. ASSUME NEW k \in Clients, IsCancelled(k) PROVE StrayOK'
  BY <1>2 DEF IsCancelled
<1>3. ASSUME NEW k \in Clients, Register(k) PROVE StrayOK'
  BY <1>3 DEF Register
<1>4. ASSUME NEW k \in Clients, Receive(k) PROVE StrayOK'
  BY <1>4 DEF Receive, Invoke
<1>5. ASSUME NEW k \in Clients, ReportError(k) PROVE StrayOK'
  BY <1>5 DEF ReportError, Invoke
<1>6. ASSUME NEW k \in Clients, CallbackReturns(k) PROVE StrayOK'
  BY <1>6 DEF CallbackReturns
<1>7. ASSUME NEW k \in Clients, Suspend(k) PROVE StrayOK'
  BY <1>7 DEF Suspend
<1>8. ASSUME NEW k \in Clients, EventsEnd(k) PROVE StrayOK'
  BY <1>8 DEF EventsEnd
<1>9. ASSUME NEW k \in Clients, Leave(k) PROVE StrayOK'
  BY <1>9 DEF Leave
<1>10. ASSUME NEW k \in Clients, Start(k) PROVE StrayOK'
  BY <1>10 DEF Start
<1>11. ASSUME NEW k \in Clients, End(k) PROVE StrayOK'
  BY <1>11 DEF End
<1>12. ASSUME NEW k \in Clients, Mark(k) PROVE StrayOK'
  BY <1>12 DEF Mark
<1>13. ASSUME NEW k \in Clients, DestroyRemove(k) PROVE StrayOK'
  BY <1>13 DEF DestroyRemove
<1>14. ASSUME NEW k \in Clients, ConnectOk(k) PROVE StrayOK'
  BY <1>14 DEF ConnectOk
<1>15. ASSUME NEW k \in Clients, ConnectErr(k) PROVE StrayOK'
  BY <1>15 DEF ConnectErr
<1>16. ASSUME NEW k \in Clients, NEW last \in BOOLEAN, SendEvent(k, last)
       PROVE  StrayOK'
  BY <1>16 DEF SendEvent
<1>17. ASSUME NEW k \in Clients, Accept(k) PROVE StrayOK'
  BY <1>17 DEF Accept
<1>18. ASSUME NEW k \in Clients, Close(k) PROVE StrayOK'
  BY <1>18 DEF Close
<1>19. ASSUME NEW k \in Clients, Drop(k) PROVE StrayOK'
  BY <1>19 DEF Drop
<1>20. ASSUME NEW k \in Clients, NEW j \in {0} \cup Clients, Destroy(k, j)
       PROVE  StrayOK'
  BY <1>20 DEF Destroy
<1>21. CASE UNCHANGED vars
  BY <1>21 DEF vars
<1> HIDE DEF IInv, StrayOK
<1> QED
  BY <1>1, <1>2, <1>3, <1>4, <1>5, <1>6, <1>7, <1>8, <1>9, <1>10, <1>11,
     <1>12, <1>13, <1>14, <1>15, <1>16, <1>17, <1>18, <1>19, <1>20, <1>21
  DEF Next, Task, Manager, Destroying, CSend, CNetworkChanged,
      NapiCommand, UniffiCommand

-----------------------------------------------------------------------------
(* The theorems.                                                           *)

\* The inductive invariant holds in every reachable state.
THEOREM Inductive == Spec => []IInv
<1>1. IInv /\ [Next]_vars => IInv'
  BY TablesStep, PlacesStep, EventsStep, StartStep, WhoseStep, HandleStep,
     MarkStep, DropStep, StrayStep
  DEF IInv
<1> QED
  BY InvInit, <1>1, PTL DEF Spec

\* Through each binding, with any interleaving of connects, events, closes and
\* destroys on any number of clients: no callback after catcher_ws_destroy has
\* returned, after a drop only those of a poll under way, no command taken but
\* in the one race, and no callback without its handle before.
THEOREM DestroyedStaysSilent == Spec => []DestroyedIsSilent
<1> USE DEF IInv
<1>1. IInv => TypeOK
  <2> SUFFICES ASSUME IInv PROVE TypeOK
    OBVIOUS
  <2>1. /\ queue \in [Clients -> 0..MaxEvents]
        /\ late \in [Clients -> 0..MaxEvents]
    BY WsBindingAssumption DEF EventsOK
  <2> QED
    BY <2>1 DEF TablesOK, PlacesOK, EventsOK, TypeOK
<1>2. IInv => NoCallbackAfterDestroy
  BY DEF MarkOK, NoCallbackAfterDestroy
<1>3. IInv => LateOnlyIfBusy
  BY DEF DropOK, LateOnlyIfBusy
<1>4. IInv => CallbackHasHandle
  BY DEF HandleOK, CallbackHasHandle
<1>5. IInv => RefusedAfterDestroy
  BY DEF StrayOK
<1>6. IInv => DestroyedIsSilent
  BY <1>1, <1>2, <1>3, <1>4, <1>5 DEF DestroyedIsSilent
<1> QED
  BY Inductive, <1>6, PTL

-----------------------------------------------------------------------------
(* AuxRuntime: its inductive invariant.                                    *)

AuxVarsOK ==
    /\ kind \in [Calls -> Kinds] /\ pc \in [Calls -> PCs]
    /\ parent \in [Calls -> Calls \cup {None}]
    /\ worker \in Calls \cup {None} /\ holder \in Calls \cup {None}
    /\ waiters \in Seq(Calls)
    /\ got \in [Calls -> Seq(Told)]

\* An observer that was called has the worker; a call made by one needs the
\* worker and has not started.
WorkerOK ==
    /\ worker # None => pc[worker] = "observing"
    /\ \A c \in Calls :
         /\ pc[c] = "observing" => worker = c /\ kind[c] = "sse"
         /\ parent[c] # None => pc[c] = "spawned" /\ worker = parent[c]

\* The lock is with a call that is under way, and with every one that is
\* measuring.
LockOK ==
    /\ holder # None =>
         /\ pc[holder] \in {"spawned", "waiting", "ready"}
         /\ kind[holder] = "quality"
    /\ \A c \in Calls :
         kind[c] = "quality" /\ pc[c] \in {"waiting", "ready"} => holder = c

\* The queue has the calls that wait for the lock, each once.
QueueOK ==
    /\ \A i \in DOMAIN waiters :
         pc[waiters[i]] = "locked" /\ kind[waiters[i]] = "quality"
    /\ \A i, j \in DOMAIN waiters : waiters[i] = waiters[j] => i = j
    /\ \A c \in Calls : pc[c] = "locked" =>
         holder # None /\ \E i \in DOMAIN waiters : waiters[i] = c

\* Until its observer is told of the end a stream goes on.
EndOK(c) ==
    /\ kind[c] # "sse" \/ pc[c] = "idle" => got[c] = <<>>
    /\ \A i \in DOMAIN got[c] : got[c][i] = "close" => i = Len(got[c])
    /\ Len(got[c]) <= MaxLines + 2
    /\ pc[c] = "observing" => got[c] # <<>>
    /\ pc[c] \notin {"observing", "done", "returned"} =>
         /\ \A i \in DOMAIN got[c] : got[c][i] # "close"
         /\ Len(got[c]) <= MaxLines + 1
    /\ pc[c] = "observing" /\ got[c][Len(got[c])] # "close" =>
         Len(got[c]) <= MaxLines + 1
    /\ pc[c] \in {"done", "returned"} =>
         got[c] = <<>> \/ got[c][Len(got[c])] = "close"

ToldOK == \A c \in Calls : EndOK(c)

AuxInv == AuxVarsOK /\ WorkerOK /\ LockOK /\ QueueOK /\ ToldOK

-----------------------------------------------------------------------------
\* No call was made.
LEMMA AuxInvInit == AuxInit => AuxInv
  BY AuxAssumption
  DEF AuxInit, AuxInv, AuxVarsOK, WorkerOK, LockOK, QueueOK, ToldOK, EndOK, Kinds,
      PCs

\* What one more call of an observer makes of what it was told.
LEMMA OneMoreTold ==
    ASSUME MaxLines \in Nat, NEW s \in Seq(Told),
           NEW told \in Told,
           \A i \in DOMAIN s : s[i] # "close", Len(s) <= MaxLines + 1,
           told = "open" <=> s = <<>>, told = "line" => Len(s) <= MaxLines
    PROVE  LET n == Append(s, told)
           IN  /\ n # <<>> /\ Len(n) <= MaxLines + 2
               /\ \A i \in DOMAIN n : n[i] = "close" => i = Len(n)
               /\ n[Len(n)] # "close" => Len(n) <= MaxLines + 1
<1> DEFINE n == Append(s, told)
<1>1. /\ Len(s) \in Nat /\ Len(n) = Len(s) + 1 /\ n[Len(s) + 1] = told
      /\ DOMAIN n = 1..(Len(s) + 1) /\ DOMAIN s = 1..Len(s)
      /\ \A i \in 1..Len(s) : n[i] = s[i]
  OBVIOUS
<1>2. n # <<>>
  OBVIOUS
<1>3. told = "open" => Len(s) = 0
  OBVIOUS
<1> HIDE DEF n
<1>4. \A i \in DOMAIN n : n[i] = "close" => i = Len(n)
  BY <1>1
<1>5. told # "close" => Len(n) <= MaxLines + 1
  BY <1>1, <1>2, <1>3 DEF Told
<1> QED
  BY <1>1, <1>2, <1>4, <1>5 DEF n

\* The lock goes from c, whose measurement is evaluated, to h.
PassedOn(c, h) ==
    /\ pc[c] = "ready" /\ kind[c] = "quality"
    /\ pc[h] = "locked" /\ kind[h] = "quality"
    /\ 1 \in DOMAIN waiters /\ h = waiters[1]
    /\ pc' \in [Calls -> PCs] /\ pc'[c] = "done" /\ pc'[h] = "spawned"
    /\ \A d \in Calls : d # c /\ d # h => pc'[d] = pc[d]
    /\ holder' = h /\ UNCHANGED <<kind, parent, worker, got>>
    /\ waiters' \in Seq(Calls)
    /\ DOMAIN waiters \subseteq Nat /\ DOMAIN waiters' \subseteq Nat \ {0}
    /\ \A i \in DOMAIN waiters' :
         i + 1 \in DOMAIN waiters /\ waiters'[i] = waiters[i + 1]
    /\ \A i \in DOMAIN waiters : i # 1 => i - 1 \in DOMAIN waiters'

\* FinishQuality, by what it does to the calls and the queue.
LEMMA LockPassedOn ==
    ASSUME AuxInv, NEW c \in Calls, FinishQuality(c), waiters # <<>>
    PROVE  \E h \in Calls : PassedOn(c, h)
<1> DEFINE h == Head(waiters)
<1>0. waiters \in Seq(Calls) /\ pc \in [Calls -> PCs]
  BY DEF AuxInv, AuxVarsOK
<1>1. h \in Calls /\ 1 \in DOMAIN waiters /\ h = waiters[1]
  BY <1>0
<1>2. pc[c] = "ready" /\ kind[c] = "quality"
  BY DEF FinishQuality
<1>3. pc[h] = "locked" /\ kind[h] = "quality"
  BY <1>1 DEF AuxInv, QueueOK
<1>4. /\ pc' = [pc EXCEPT ![c] = "done", ![h] = "spawned"]
      /\ holder' = h /\ waiters' = Tail(waiters)
      /\ UNCHANGED <<kind, parent, worker, got>>
  BY DEF FinishQuality
<1> HIDE DEF h
<1>5. /\ waiters' \in Seq(Calls)
      /\ DOMAIN waiters \subseteq Nat /\ DOMAIN waiters' \subseteq Nat \ {0}
      /\ \A i \in DOMAIN waiters' :
           i + 1 \in DOMAIN waiters /\ waiters'[i] = waiters[i + 1]
      /\ \A i \in DOMAIN waiters : i # 1 => i - 1 \in DOMAIN waiters'
  BY <1>0, <1>4
<1>6. /\ pc' \in [Calls -> PCs] /\ pc'[c] = "done" /\ pc'[h] = "spawned"
      /\ \A d \in Calls : d # c /\ d # h => pc'[d] = pc[d]
  BY <1>0, <1>1, <1>2, <1>3, <1>4 DEF PCs
<1>7. PassedOn(c, h)
  BY <1>1, <1>2, <1>3, <1>4, <1>5, <1>6 DEF PassedOn
<1> QED
  BY <1>1, <1>7

\* Every variable keeps to its type.
LEMMA AuxVarsStep == AuxInv /\ [AuxNext]_auxVars => AuxVarsOK'
<1> SUFFICES ASSUME AuxInv, [AuxNext]_auxVars PROVE AuxVarsOK'
  OBVIOUS
<1> USE AuxAssumption
        DEF AuxInv, AuxVarsOK, PCs, Kinds, Move, QueueOK, LockOK
<1>1. ASSUME NEW c \in Calls, NEW k \in Kinds,
             NEW p \in Calls \cup {None},
             Call(c, k, p)
      PROVE  AuxVarsOK'
  BY <1>1 DEF Call
<1>2. ASSUME NEW c \in Calls, Poll(c) PROVE AuxVarsOK'
  <2>1. CASE kind[c] # "quality" \/ holder = c
    BY <1>2, <2>1 DEF Poll
  <2>2. CASE kind[c] = "quality" /\ holder # c /\ holder = None
    BY <1>2, <2>2 DEF Poll
  <2>3. CASE kind[c] = "quality" /\ holder # c /\ holder # None
    <3>0. /\ waiters' = Append(waiters, c) /\ holder' = holder
          /\ pc' = [pc EXCEPT ![c] = "locked"] /\ pc[c] = "spawned"
          /\ UNCHANGED <<kind, parent, worker, got>>
      BY <1>2, <2>3 DEF Poll
    <3>1. waiters' \in Seq(Calls)
      BY <3>0
    <3>2. /\ Len(waiters') = Len(waiters) + 1 /\ Len(waiters) \in Nat
          /\ waiters'[Len(waiters) + 1] = c
          /\ \A i \in DOMAIN waiters : waiters'[i] = waiters[i]
          /\ DOMAIN waiters' = 1..(Len(waiters) + 1)
          /\ DOMAIN waiters = 1..Len(waiters)
      BY <3>0
    <3> QED
      BY <2>3, <3>0, <3>1, <3>2
  <2> QED
    BY <2>1, <2>2, <2>3
<1>3. ASSUME NEW c \in Calls, Answer(c) PROVE AuxVarsOK'
  BY <1>3 DEF Answer
<1>4. ASSUME NEW c \in Calls, FinishRequest(c) PROVE AuxVarsOK'
  BY <1>4 DEF FinishRequest
<1>5. ASSUME NEW c \in Calls, FinishQuality(c) PROVE AuxVarsOK'
  <2>1. CASE waiters = <<>>
    <3>1. /\ holder' = None /\ waiters' = waiters
          /\ pc' = [pc EXCEPT ![c] = "done"]
          /\ UNCHANGED <<kind, parent, worker, got>>
          /\ DOMAIN waiters = {} /\ pc[c] = "ready" /\ kind[c] = "quality"
      BY <1>5, <2>1 DEF FinishQuality
    <3> QED
      BY <3>1
  <2>2. CASE waiters # <<>>
    <3>1. PICK h \in Calls : PassedOn(c, h)
      BY <1>5, <2>2, LockPassedOn
    <3> QED
      BY <3>1 DEF PassedOn
  <2> QED
    BY <2>1, <2>2
<1>6. ASSUME NEW c \in Calls, Return(c) PROVE AuxVarsOK'
  BY <1>6 DEF Return
<1>7. ASSUME NEW c \in Calls, SseFails(c) PROVE AuxVarsOK'
  BY <1>7 DEF SseFails
<1>8. ASSUME NEW c \in Calls, NEW told \in Told, Observe(c, told)
      PROVE  AuxVarsOK'
  BY <1>8 DEF Observe
<1>9. ASSUME NEW c \in Calls, ObserverReturns(c) PROVE AuxVarsOK'
  BY <1>9 DEF ObserverReturns
<1>10. CASE UNCHANGED auxVars
  BY <1>10 DEF auxVars
<1> HIDE DEF AuxInv, AuxVarsOK
<1> QED
  BY <1>1, <1>2, <1>3, <1>4, <1>5, <1>6, <1>7, <1>8, <1>9, <1>10
  DEF AuxNext, Run, HttpCall, SseCall, WsNew, EvaluateQuality, SseConnect,
      Kinds

\* The worker is kept by an observer and by nothing else, and by one whose call
\* has made another for ever.
LEMMA WorkerStep == AuxInv /\ [AuxNext]_auxVars => WorkerOK'
<1> SUFFICES ASSUME AuxInv, [AuxNext]_auxVars PROVE WorkerOK'
  OBVIOUS
<1> USE AuxAssumption
        DEF AuxInv, AuxVarsOK, WorkerOK, QueueOK, Move
<1>1. ASSUME NEW c \in Calls, NEW k \in Kinds,
             NEW p \in Calls \cup {None},
             Call(c, k, p)
      PROVE  WorkerOK'
  BY <1>1 DEF Call
<1>2. ASSUME NEW c \in Calls, Poll(c) PROVE WorkerOK'
  BY <1>2 DEF Poll
<1>3. ASSUME NEW c \in Calls, Answer(c) PROVE WorkerOK'
  BY <1>3 DEF Answer
<1>4. ASSUME NEW c \in Calls, FinishRequest(c) PROVE WorkerOK'
  BY <1>4 DEF FinishRequest
<1>5. ASSUME NEW c \in Calls, FinishQuality(c) PROVE WorkerOK'
  BY <1>5 DEF FinishQuality
<1>6. ASSUME NEW c \in Calls, Return(c) PROVE WorkerOK'
  BY <1>6 DEF Return
<1>7. ASSUME NEW c \in Calls, SseFails(c) PROVE WorkerOK'
  BY <1>7 DEF SseFails
<1>8. ASSUME NEW c \in Calls, NEW told \in Told, Observe(c, told)
      PROVE  WorkerOK'
  BY <1>8 DEF Observe
<1>9. ASSUME NEW c \in Calls, ObserverReturns(c) PROVE WorkerOK'
  BY <1>9 DEF ObserverReturns
<1>10. CASE UNCHANGED auxVars
  BY <1>10 DEF auxVars
<1> HIDE DEF AuxInv, WorkerOK
<1> QED
  BY <1>1, <1>2, <1>3, <1>4, <1>5, <1>6, <1>7, <1>8, <1>9, <1>10
  DEF AuxNext, Run, HttpCall, SseCall, WsNew, EvaluateQuality, SseConnect,
      Kinds

\* The lock is passed on from the one that ends to the first that waits.
LEMMA LockStep == AuxInv /\ [AuxNext]_auxVars => LockOK'
<1> SUFFICES ASSUME AuxInv, [AuxNext]_auxVars PROVE LockOK'
  OBVIOUS
<1> USE AuxAssumption
        DEF AuxInv, AuxVarsOK, WorkerOK, LockOK, QueueOK, Move
<1>1. ASSUME NEW c \in Calls, NEW k \in Kinds,
             NEW p \in Calls \cup {None},
             Call(c, k, p)
      PROVE  LockOK'
  BY <1>1 DEF Call
<1>2. ASSUME NEW c \in Calls, Poll(c) PROVE LockOK'
  BY <1>2 DEF Poll
<1>3. ASSUME NEW c \in Calls, Answer(c) PROVE LockOK'
  BY <1>3 DEF Answer
<1>4. ASSUME NEW c \in Calls, FinishRequest(c) PROVE LockOK'
  BY <1>4 DEF FinishRequest
<1>5. ASSUME NEW c \in Calls, FinishQuality(c) PROVE LockOK'
  <2>1. CASE waiters = <<>>
    <3>1. /\ holder' = None /\ waiters' = waiters
          /\ pc' = [pc EXCEPT ![c] = "done"]
          /\ UNCHANGED <<kind, parent, worker, got>>
          /\ DOMAIN waiters = {} /\ pc[c] = "ready" /\ kind[c] = "quality"
      BY <1>5, <2>1 DEF FinishQuality
    <3> QED
      BY <3>1
  <2>2. CASE waiters # <<>>
    <3>1. PICK h \in Calls : PassedOn(c, h)
      BY <1>5, <2>2, LockPassedOn
    <3>2. \A d \in Calls \ {c} :
            kind[d] # "quality" \/ pc[d] \notin {"waiting", "ready"}
      BY <3>1 DEF PassedOn
    <3> QED
      BY <3>1, <3>2 DEF PassedOn
  <2> QED
    BY <2>1, <2>2
<1>6. ASSUME NEW c \in Calls, Return(c) PROVE LockOK'
  BY <1>6 DEF Return
<1>7. ASSUME NEW c \in Calls, SseFails(c) PROVE LockOK'
  BY <1>7 DEF SseFails
<1>8. ASSUME NEW c \in Calls, NEW told \in Told, Observe(c, told)
      PROVE  LockOK'
  BY <1>8 DEF Observe
<1>9. ASSUME NEW c \in Calls, ObserverReturns(c) PROVE LockOK'
  BY <1>9 DEF ObserverReturns
<1>10. CASE UNCHANGED auxVars
  BY <1>10 DEF auxVars
<1> HIDE DEF AuxInv, LockOK
<1> QED
  BY <1>1, <1>2, <1>3, <1>4, <1>5, <1>6, <1>7, <1>8, <1>9, <1>10
  DEF AuxNext, Run, HttpCall, SseCall, WsNew, EvaluateQuality, SseConnect,
      Kinds

\* Those that wait for the lock are those that stand in the queue, once each.
LEMMA QueueStep == AuxInv /\ [AuxNext]_auxVars => QueueOK'
<1> SUFFICES ASSUME AuxInv, [AuxNext]_auxVars PROVE QueueOK'
  OBVIOUS
<1> USE AuxAssumption
        DEF AuxInv, AuxVarsOK, LockOK, QueueOK, Move
<1>1. ASSUME NEW c \in Calls, NEW k \in Kinds,
             NEW p \in Calls \cup {None},
             Call(c, k, p)
      PROVE  QueueOK'
  BY <1>1 DEF Call
<1>2. ASSUME NEW c \in Calls, Poll(c) PROVE QueueOK'
  <2>1. CASE kind[c] # "quality" \/ holder = c
    <3>1. /\ pc[c] = "spawned" /\ pc'[c] = "waiting" /\ waiters' = waiters
          /\ \A d \in Calls \ {c} : pc'[d] = pc[d]
          /\ kind' = kind /\ holder' \in {holder, c}
      BY <1>2, <2>1 DEF Poll
    <3>2. \A i \in DOMAIN waiters : waiters[i] \in Calls /\ waiters[i] # c
      BY <3>1
    <3> QED
      BY <3>1, <3>2
  <2>2. CASE kind[c] = "quality" /\ holder # c /\ holder = None
    <3>1. /\ pc[c] = "spawned" /\ pc'[c] = "waiting" /\ waiters' = waiters
          /\ \A d \in Calls \ {c} : pc'[d] = pc[d]
          /\ kind' = kind /\ holder' \in {holder, c}
      BY <1>2, <2>2 DEF Poll
    <3>2. \A i \in DOMAIN waiters : waiters[i] \in Calls /\ waiters[i] # c
      BY <3>1
    <3> QED
      BY <3>1, <3>2
  <2>3. CASE kind[c] = "quality" /\ holder # c /\ holder # None
    <3>0. /\ waiters' = Append(waiters, c) /\ holder' = holder
          /\ pc' = [pc EXCEPT ![c] = "locked"] /\ pc[c] = "spawned"
          /\ UNCHANGED <<kind, parent, worker, got>>
      BY <1>2, <2>3 DEF Poll
    <3>1. waiters' \in Seq(Calls)
      BY <3>0
    <3>2. /\ Len(waiters') = Len(waiters) + 1 /\ Len(waiters) \in Nat
          /\ waiters'[Len(waiters) + 1] = c
          /\ \A i \in DOMAIN waiters : waiters'[i] = waiters[i]
          /\ DOMAIN waiters' = 1..(Len(waiters) + 1)
          /\ DOMAIN waiters = 1..Len(waiters)
      BY <3>0
    <3>3. /\ pc'[c] = "locked" /\ \A d \in Calls \ {c} : pc'[d] = pc[d]
          /\ \A i \in DOMAIN waiters : waiters[i] \in Calls /\ waiters[i] # c
      BY <3>0
    <3>4. \A i \in DOMAIN waiters' :
            pc'[waiters'[i]] = "locked" /\ kind'[waiters'[i]] = "quality"
      BY <2>3, <3>0, <3>2, <3>3
    <3>5. \A i, j \in DOMAIN waiters' : waiters'[i] = waiters'[j] => i = j
      BY <3>2, <3>3
    <3>6. ASSUME NEW d \in Calls, pc'[d] = "locked"
          PROVE  holder' # None /\ \E i \in DOMAIN waiters' : waiters'[i] = d
      <4>1. CASE d = c
        BY <2>3, <3>0, <3>2, <4>1
      <4>2. CASE d # c
        BY <2>3, <3>0, <3>2, <3>3, <3>6, <4>2
      <4> QED
        BY <4>1, <4>2
    <3> QED
      BY <3>4, <3>5, <3>6
  <2> QED
    BY <2>1, <2>2, <2>3
<1>3. ASSUME NEW c \in Calls, Answer(c) PROVE QueueOK'
  BY <1>3 DEF Answer
<1>4. ASSUME NEW c \in Calls, FinishRequest(c) PROVE QueueOK'
  BY <1>4 DEF FinishRequest
<1>5. ASSUME NEW c \in Calls, FinishQuality(c) PROVE QueueOK'
  <2>1. CASE waiters = <<>>
    <3>1. /\ holder' = None /\ waiters' = waiters
          /\ pc' = [pc EXCEPT ![c] = "done"]
          /\ UNCHANGED <<kind, parent, worker, got>>
          /\ DOMAIN waiters = {} /\ pc[c] = "ready" /\ kind[c] = "quality"
      BY <1>5, <2>1 DEF FinishQuality
    <3> QED
      BY <3>1
  <2>2. CASE waiters # <<>>
    <3>1. PICK h \in Calls : PassedOn(c, h)
      BY <1>5, <2>2, LockPassedOn
    <3>2. ASSUME NEW d \in Calls, pc'[d] = "locked"
          PROVE  \E i \in DOMAIN waiters' : waiters'[i] = d
      <4>1. d # c /\ d # h /\ pc[d] = "locked"
        BY <3>1, <3>2 DEF PassedOn
      <4>2. PICK i \in DOMAIN waiters : waiters[i] = d
        BY <4>1
      <4>3. i # 1 /\ i - 1 \in DOMAIN waiters' /\ (i - 1) + 1 = i
        BY <3>1, <4>1, <4>2 DEF PassedOn
      <4> QED
        BY <3>1, <4>2, <4>3 DEF PassedOn
    <3>3. \A i \in DOMAIN waiters' :
            /\ waiters'[i] \in Calls /\ waiters'[i] # c /\ waiters'[i] # h
            /\ pc[waiters'[i]] = "locked" /\ kind[waiters'[i]] = "quality"
      BY <3>1 DEF PassedOn
    <3>4. \A i, j \in DOMAIN waiters' : waiters'[i] = waiters'[j] => i = j
      BY <3>1 DEF PassedOn
    <3> QED
      BY <3>1, <3>2, <3>3, <3>4 DEF PassedOn
  <2> QED
    BY <2>1, <2>2
<1>6. ASSUME NEW c \in Calls, Return(c) PROVE QueueOK'
  BY <1>6 DEF Return
<1>7. ASSUME NEW c \in Calls, SseFails(c) PROVE QueueOK'
  BY <1>7 DEF SseFails
<1>8. ASSUME NEW c \in Calls, NEW told \in Told, Observe(c, told)
      PROVE  QueueOK'
  BY <1>8 DEF Observe
<1>9. ASSUME NEW c \in Calls, ObserverReturns(c) PROVE QueueOK'
  BY <1>9 DEF ObserverReturns
<1>10. CASE UNCHANGED auxVars
  BY <1>10 DEF auxVars
<1> HIDE DEF AuxInv, QueueOK
<1> QED
  BY <1>1, <1>2, <1>3, <1>4, <1>5, <1>6, <1>7, <1>8, <1>9, <1>10
  DEF AuxNext, Run, HttpCall, SseCall, WsNew, EvaluateQuality, SseConnect,
      Kinds

\* An observer is told of the end last.
LEMMA ToldStep == AuxInv /\ [AuxNext]_auxVars => ToldOK'
<1> SUFFICES ASSUME AuxInv, [AuxNext]_auxVars PROVE ToldOK'
  OBVIOUS
<1> USE AuxAssumption
        DEF AuxInv, AuxVarsOK, WorkerOK, QueueOK, LockOK, ToldOK, EndOK, Move
<1>1. ASSUME NEW c \in Calls, NEW k \in Kinds,
             NEW p \in Calls \cup {None},
             Call(c, k, p)
      PROVE  ToldOK'
  BY <1>1 DEF Call
<1>2. ASSUME NEW c \in Calls, Poll(c) PROVE ToldOK'
  BY <1>2 DEF Poll
<1>3. ASSUME NEW c \in Calls, Answer(c) PROVE ToldOK'
  BY <1>3 DEF Answer
<1>4. ASSUME NEW c \in Calls, FinishRequest(c) PROVE ToldOK'
  BY <1>4 DEF FinishRequest
<1>5. ASSUME NEW c \in Calls, FinishQuality(c) PROVE ToldOK'
  <2>1. CASE waiters = <<>>
    <3>1. /\ holder' = None /\ waiters' = waiters
          /\ pc' = [pc EXCEPT ![c] = "done"]
          /\ UNCHANGED <<kind, parent, worker, got>>
          /\ DOMAIN waiters = {} /\ pc[c] = "ready" /\ kind[c] = "quality"
      BY <1>5, <2>1 DEF FinishQuality
    <3> QED
      BY <3>1
  <2>2. CASE waiters # <<>>
    <3>1. PICK h \in Calls : PassedOn(c, h)
      BY <1>5, <2>2, LockPassedOn
    <3> HIDE DEF AuxInv, AuxVarsOK, WorkerOK, QueueOK, LockOK, ToldOK, EndOK
    <3>2. ASSUME NEW d \in Calls PROVE EndOK(d)'
      <4>1. EndOK(d) /\ got' = got /\ kind' = kind
        BY <3>1 DEF AuxInv, ToldOK, PassedOn
      <4>2. d \in {c, h} => got[d] = <<>>
        BY <3>1 DEF AuxInv, ToldOK, EndOK, PassedOn
      <4>3. d \in {c, h} \/ pc'[d] = pc[d]
        BY <3>1 DEF PassedOn
      <4>4. d \in {c, h} => pc'[d] \in {"done", "spawned"}
        BY <3>1 DEF PassedOn
      <4>5. CASE d \in {c, h}
        <5>1. got'[d] = <<>> /\ pc'[d] \in {"done", "spawned"}
          BY <4>1, <4>2, <4>4, <4>5
        <5>2. kind[d] = "quality"
          BY <3>1, <4>5 DEF PassedOn
        <5>3. Len(<<>>) = 0 /\ DOMAIN <<>> = {}
          OBVIOUS
        <5>4. 0 <= MaxLines + 1 /\ 0 <= MaxLines + 2
          BY DEF AuxInv, AuxVarsOK
        <5> QED
          BY <4>1, <5>1, <5>2, <5>3, <5>4 DEF EndOK
      <4>6. CASE pc'[d] = pc[d]
        BY <4>1, <4>6 DEF EndOK
      <4> QED
        BY <4>3, <4>5, <4>6
    <3> QED
      BY <3>1, <3>2 DEF PassedOn, ToldOK
  <2> QED
    BY <2>1, <2>2
<1>6. ASSUME NEW c \in Calls, Return(c) PROVE ToldOK'
  BY <1>6 DEF Return
<1>7. ASSUME NEW c \in Calls, SseFails(c) PROVE ToldOK'
  BY <1>7 DEF SseFails
<1>8. ASSUME NEW c \in Calls, NEW told \in Told, Observe(c, told)
      PROVE  ToldOK'
  <2>1. /\ pc[c] = "ready" /\ kind[c] = "sse" /\ kind' = kind
        /\ told = "open" <=> got[c] = <<>>
        /\ told = "line" => Len(got[c]) <= MaxLines
        /\ pc'[c] = "observing" /\ got'[c] = Append(got[c], told)
        /\ \A d \in Calls \ {c} : pc'[d] = pc[d] /\ got'[d] = got[d]
    BY <1>8 DEF Observe
  <2>2. got[c] \in Seq(Told) /\ MaxLines \in Nat
    OBVIOUS
  <2>3. /\ Len(got[c]) <= MaxLines + 1
        /\ \A i \in DOMAIN got[c] : got[c][i] # "close"
    BY <2>1
  <2> HIDE DEF AuxInv, AuxVarsOK, WorkerOK, QueueOK, LockOK, ToldOK, EndOK
  <2>4. /\ got'[c] # <<>> /\ Len(got'[c]) <= MaxLines + 2
        /\ \A i \in DOMAIN got'[c] : got'[c][i] = "close" => i = Len(got'[c])
        /\ got'[c][Len(got'[c])] # "close" => Len(got'[c]) <= MaxLines + 1
    BY <2>1, <2>2, <2>3, OneMoreTold
  <2>5. EndOK(c)'
    BY <2>1, <2>4 DEF EndOK
  <2>6. ASSUME NEW d \in Calls, d # c PROVE EndOK(d)'
    BY <2>1, <2>6 DEF AuxInv, ToldOK, EndOK
  <2> QED
    BY <2>5, <2>6 DEF ToldOK
<1>9. ASSUME NEW c \in Calls, ObserverReturns(c) PROVE ToldOK'
  BY <1>9 DEF ObserverReturns
<1>10. CASE UNCHANGED auxVars
  BY <1>10 DEF auxVars
<1> HIDE DEF AuxInv, ToldOK
<1> QED
  BY <1>1, <1>2, <1>3, <1>4, <1>5, <1>6, <1>7, <1>8, <1>9, <1>10
  DEF AuxNext, Run, HttpCall, SseCall, WsNew, EvaluateQuality, SseConnect,
      Kinds

\* The inductive invariant of the synchronous calls holds always.
THEOREM AuxInductive == AuxSpec => []AuxInv
<1>1. AuxInv /\ [AuxNext]_auxVars => AuxInv'
  BY AuxVarsStep, WorkerStep, LockStep, QueueStep, ToldStep DEF AuxInv
<1> QED
  BY AuxInvInit, <1>1, PTL DEF AuxSpec

\* However many calls share the one worker and the lock of EVALUATOR, the worker
\* is with the observer that runs on it and the lock with the one call that
\* measures; a stream keeps its caller until it has ended.
THEOREM WorkerAlwaysShared == AuxSpec => []WorkerShared
<1>1. AuxInv => AuxTypeOK
  BY DEF AuxInv, AuxVarsOK, ToldOK, EndOK, AuxTypeOK
<1>2. AuxInv => WorkerInUse
  BY AuxAssumption DEF AuxInv, WorkerOK, WorkerInUse
<1>3. AuxInv => LockInUse
  BY DEF AuxInv, LockOK, QueueOK, LockInUse
<1>4. AuxInv => NestedNeverRuns
  BY DEF AuxInv, WorkerOK, NestedNeverRuns
<1>5. AuxInv => ConnectReturnsAtTheEnd
  BY DEF AuxInv, ToldOK, EndOK, ConnectReturnsAtTheEnd
<1> QED
  BY AuxInductive, <1>1, <1>2, <1>3, <1>4, <1>5, PTL DEF WorkerShared
=============================================================================

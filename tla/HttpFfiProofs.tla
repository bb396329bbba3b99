--------------------------- MODULE HttpFfiProofs ----------------------------
(***************************************************************************)
(* Proofs about HttpFfi, for any calls, clients and chunks.                *)
(***************************************************************************)
EXTENDS HttpFfi, FiniteSetTheorems, TLAPS

-----------------------------------------------------------------------------
(* The inductive invariant: what holds of the handles and clients, and of  *)
(* each call.                                                              *)

\* A handle leads to the client of its own number until destroy has removed
\* it, and it is marked before anything else happens to it.
HandlesOK ==
    /\ binding \in {"c", "napi"}
    /\ nextId \in 1..(MaxClients + 1)
    /\ DOMAIN registry \subseteq Issued
    /\ \A id \in DOMAIN registry : registry[id] = id
    /\ marked \subseteq Issued
    /\ destroyer \in [Ids -> {"no", "marked", "cancelled", "returned"}]
    /\ \A id \in Ids :
         /\ destroyer[id] # "no" => id \in marked
         /\ destroyer[id] \in {"marked", "cancelled"} => Has(id)
         /\ id \in Issued => Has(id) \/ destroyer[id] = "returned"

\* destroy cancels a client once more than cancel_all.
ClientsOK ==
    /\ adaptive \in [Clients -> Adaptive]
    /\ current \in [Clients -> Nat]
    /\ \A k \in Clients :
         current[k] <= MaxCancelAlls
                       + (IF destroyer[k] \in {"no", "marked"} THEN 0 ELSE 1)

CallsOK ==
    /\ call \in [Calls -> CallType]
    /\ got \in [Calls -> Seq(Events)] /\ late \in [Calls -> Nat]
    /\ fired \subseteq Calls /\ pending \subseteq Calls

\* A call has the client of its handle.  It is without one, once it is over,
\* only if its handle was destroyed or its method not known.
Owner(c) ==
    /\ call[c].client # 0 => call[c].client = call[c].handle
    /\ At(c, "idle") => call[c].client = 0
    /\ ~At(c, "idle") => call[c].handle \in Issued
    /\ call[c].pc \notin {"idle", "done"} =>
         /\ call[c].client # 0
         /\ call[c].kind \in {"plain", "with_id", "stream"}

\* The event that the task is about to report.
Event(c) ==
    /\ At(c, "streaming") => call[c].kind = "stream"
    /\ call[c].pc \in {"reporting", "calling"} =>
         IF call[c].kind = "stream"
         THEN call[c].event \in {"headers", "chunk", "done", "error"}
         ELSE call[c].event \in {"response", "cancelled", "error"}

\* What the host has got of a body that is still coming.
Opening(events) ==
    \A i \in DOMAIN events :
        /\ events[i] \in {"headers", "chunk"}
        /\ events[i] = "headers" <=> i = 1

\* Before the end of the call the host has got nothing, or the beginning of a
\* stream; it misses the beginning only if the handle is marked.
UnderWay(c) ==
    /\ ~At(c, "done") => Opening(got[c])
    /\ call[c].pc \in {"idle", "found", "spawned", "sending"} => got[c] = <<>>
    /\ ~At(c, "done") /\ call[c].kind # "stream" => got[c] = <<>>
    /\ At(c, "streaming") => got[c] # <<>> \/ call[c].handle \in marked
    /\ call[c].pc \in {"reporting", "calling"} =>
         /\ call[c].event = "headers" => got[c] = <<>>
         /\ call[c].event \in {"chunk", "done"} =>
              \/ got[c] # <<>>
              \/ At(c, "reporting") /\ call[c].handle \in marked

\* The task is gone and its host was not, or not fully, answered.
Excused(c) ==
    \/ call[c].handle \in marked
    \/ call[c].client # 0 /\ adaptive[call[c].client] = "poisoned"
    \/ call[c].kind = "stream" /\ got[c] = <<>>

\* A sequence of events that is complete: one last event.
Complete(events) ==
    /\ events # <<>> /\ events[Len(events)] \in Terminal
    /\ \A i \in DOMAIN events : events[i] \in Terminal => i = Len(events)

\* A complete stream has its headers first, or nothing but an error.
Closed(events) ==
    /\ Complete(events)
    /\ Len(events) = 1 => events[1] = "error"
    /\ Len(events) > 1 =>
         \A i \in DOMAIN events : events[i] = "headers" <=> i = 1

Settled(c) ==
    At(c, "done") =>
        \/ IF call[c].kind = "stream" THEN Closed(got[c]) ELSE Complete(got[c])
        \/ Opening(got[c]) /\ Excused(c)

\* An entry is that of a request under way, or of one that keeps it.
Entered(c) ==
    c \in pending =>
        /\ call[c].pc \notin {"idle", "found"}
        /\ binding = "c" /\ call[c].kind \in {"with_id", "stream"}
        /\ call[c].pc \in {"reporting", "calling"} =>
             call[c].kind = "stream" \/ call[c].event = "cancelled"
        /\ At(c, "done") =>
             \/ call[c].kind = "stream"
             \/ got[c] = <<"cancelled">> \/ call[c].handle \in marked
             \/ call[c].client # 0 /\ adaptive[call[c].client] = "poisoned"

\* A late callback is the last.
LastLate(c) ==
    /\ late[c] <= 1
    /\ late[c] > 0 =>
         /\ ~At(c, "idle") /\ ~At(c, "calling")
         /\ destroyer[call[c].handle] = "returned"

CallOK(c) ==
    /\ Owner(c) /\ Event(c) /\ UnderWay(c) /\ Settled(c) /\ Entered(c)
    /\ LastLate(c)

EveryCallOK == \A c \in Calls : CallOK(c)

IInv == HandlesOK /\ ClientsOK /\ CallsOK /\ EveryCallOK

-----------------------------------------------------------------------------
(* What a step does to the calls.                                          *)

\* The task of c is at another place, with an event to report or none.
Moved(c, place, event) ==
    /\ call' \in [Calls -> CallType]
    /\ \A d \in Calls \ {c} : call'[d] = call[d]
    /\ call'[c].pc = place /\ call'[c].event = event
    /\ call'[c].kind = call[c].kind
    /\ call'[c].handle = call[c].handle /\ call'[c].client = call[c].client

\* The host has made call c.
Made(c, place, kind, handle, client) ==
    /\ call' \in [Calls -> CallType]
    /\ \A d \in Calls \ {c} : call'[d] = call[d]
    /\ call'[c].pc = place /\ call'[c].kind = kind
    /\ call'[c].handle = handle /\ call'[c].client = client

\* Report, by what it does to the fields of the call.
LEMMA ReportMoves ==
    ASSUME CallsOK, NEW c \in Calls, NEW event \in Events, Report(c, event)
    PROVE  Moved(c, "reporting", event)
<1>0. call \in [Calls -> CallType]
  BY DEF CallsOK
<1>1. call'[c] = [call[c] EXCEPT !.pc = "reporting", !.event = event]
  BY <1>0 DEF Report
<1>2. call'[c] \in CallType
  BY <1>0, <1>1 DEF CallType, PCs
<1>3. call' \in [Calls -> CallType]
  BY <1>0, <1>2 DEF Report
<1> QED
  BY <1>0, <1>1, <1>3 DEF Report, Moved, CallType

\* Goto, likewise.
LEMMA GotoMoves ==
    ASSUME CallsOK, NEW c \in Calls, NEW place \in PCs, Goto(c, place)
    PROVE  Moved(c, place, "none")
<1> DEFINE t == IF place = "done" THEN 0 ELSE call[c].token
<1>0. call \in [Calls -> CallType]
  BY DEF CallsOK
<1>1. t \in Nat
  BY <1>0 DEF CallType
<1>2. call' = [call EXCEPT ![c].pc = place, ![c].event = "none",
                           ![c].token = t]
  BY DEF Goto
<1> HIDE DEF t
<1>3. call'[c] = [call[c] EXCEPT !.pc = place, !.event = "none", !.token = t]
  BY <1>0, <1>2
<1>4. call'[c] \in CallType
  BY <1>0, <1>1, <1>3 DEF CallType, Events
<1>5. call' \in [Calls -> CallType]
  BY <1>0, <1>2, <1>4
<1> QED
  BY <1>0, <1>2, <1>3, <1>5 DEF Moved, CallType

\* Handles are issued, marked and destroyed, and adaptive timeouts poisoned,
\* for good.
Grows ==
    /\ binding' = binding
    /\ Issued \subseteq Issued' /\ marked \subseteq marked'
    /\ \A k \in Clients : adaptive[k] = "poisoned" => adaptive'[k] = "poisoned"
    /\ \A id \in Ids : destroyer[id] = "returned" => destroyer'[id] = "returned"

\* A call keeps what holds of it while others move, handles are marked and
\* removed, and adaptive timeouts poisoned.
LEMMA CallKept ==
    ASSUME HandlesOK, CallsOK, Grows, NEW d \in Calls, CallOK(d),
           call'[d] = call[d], got'[d] = got[d], late'[d] = late[d],
           d \in pending' => d \in pending
    PROVE  CallOK(d)'
<1> USE FfiAssumption DEF CallOK, At, Grows
<1>1. call[d].client \in 0..MaxClients /\ call[d].handle \in 0..MaxClients
  BY DEF CallsOK, CallType
<1>3. Owner(d)'
  BY DEF Owner
<1>4. Event(d)'
  BY DEF Event
<1>5. UnderWay(d)'
  BY DEF UnderWay, Opening
<1>6. Excused(d) => Excused(d)'
  BY <1>1 DEF Excused, Clients
<1>7. Settled(d)'
  BY <1>6 DEF Settled, Complete, Closed, Opening
<1>8. Entered(d)'
  BY <1>1 DEF Entered, Clients
<1>9. LastLate(d)'
  <2>1. late[d] > 0 => call[d].handle \in Ids
    BY DEF LastLate, Owner, HandlesOK, Issued, Ids
  <2> QED
    BY <2>1 DEF LastLate
<1> QED
  BY <1>3, <1>4, <1>5, <1>7, <1>8, <1>9

-----------------------------------------------------------------------------
(* The invariant holds at the start, and every step keeps it.              *)

\* No client was created and no call made.
LEMMA InvInit == Init => IInv
<1> SUFFICES ASSUME Init PROVE IInv
  OBVIOUS
<1> USE FfiAssumption DEF Init, RegistryInit
<1>1. HandlesOK
  BY DEF HandlesOK, Issued, Ids, Has
<1>2. CallsOK
  BY DEF CallsOK, CallType, PCs, Events
<1>3. ClientsOK
  BY DEF ClientsOK, Adaptive, Clients, Ids
<1>4. ASSUME NEW c \in Calls PROVE CallOK(c)
  BY DEF CallOK, Owner, Event, UnderWay, Opening, Settled, Entered, LastLate, At
<1> HIDE DEF Init
<1> QED
  BY <1>1, <1>2, <1>3, <1>4 DEF IInv, EveryCallOK

\* A handle is marked, then cancelled, then removed, once.
LEMMA HandlesStep == IInv /\ [Next]_vars => HandlesOK'
<1> SUFFICES ASSUME IInv, [Next]_vars PROVE HandlesOK'
  OBVIOUS
<1> USE FfiAssumption
        DEF IInv, HandlesOK, Issued, Ids, Has, shared, history, handleVars
<1>1. CASE Create
  BY <1>1 DEF Create, Insert, InsertWithId, TakeId
<1>2. ASSUME NEW c \in Calls, NEW kind \in {"plain", "with_id", "stream"},
             NEW id \in Ids,
             Lookup(c, kind, id)
      PROVE  HandlesOK'
  BY <1>2 DEF Lookup
<1>3. ASSUME NEW c \in Calls, NEW id \in Ids, Unsupported(c, id)
      PROVE  HandlesOK'
  BY <1>3 DEF Unsupported
<1>4. ASSUME NEW c \in Calls, Spawn(c) PROVE HandlesOK'
  BY <1>4 DEF Spawn
<1>5. ASSUME NEW c \in Calls, TakeToken(c) PROVE HandlesOK'
  BY <1>5 DEF TakeToken
<1>6. ASSUME NEW c \in Calls, Cancelled(c) PROVE HandlesOK'
  BY <1>6 DEF Cancelled
<1>7. ASSUME NEW c \in Calls, StreamCancelled(c) PROVE HandlesOK'
  BY <1>7 DEF StreamCancelled
<1>8. ASSUME NEW c \in Calls, Check(c) PROVE HandlesOK'
  BY <1>8 DEF Check
<1>9. ASSUME NEW c \in Calls, Callback(c) PROVE HandlesOK'
  BY <1>9 DEF Callback
<1>10. ASSUME NEW c \in Calls, NEW outcome \in {"response", "error"},
              Answer(c, outcome)
       PROVE  HandlesOK'
  BY <1>10 DEF Answer
<1>11. ASSUME NEW c \in Calls, Refuse(c) PROVE HandlesOK'
  BY <1>11 DEF Refuse
<1>12. ASSUME NEW c \in Calls, Misdirected(c) PROVE HandlesOK'
  BY <1>12 DEF Misdirected
<1>13. ASSUME NEW c \in Calls, Die(c) PROVE HandlesOK'
  BY <1>13 DEF Die
<1>14. ASSUME NEW c \in Calls, StreamFails(c) PROVE HandlesOK'
  BY <1>14 DEF StreamFails
<1>15. ASSUME NEW c \in Calls, StreamHeaders(c) PROVE HandlesOK'
  BY <1>15 DEF StreamHeaders
<1>16. ASSUME NEW c \in Calls, StreamChunk(c) PROVE HandlesOK'
  BY <1>16 DEF StreamChunk
<1>17. ASSUME NEW c \in Calls, NEW event \in {"done", "error"},
              StreamEnds(c, event)
       PROVE  HandlesOK'
  BY <1>17 DEF StreamEnds
<1>18. ASSUME NEW c \in Calls, CancelRequest(c) PROVE HandlesOK'
  BY <1>18 DEF CancelRequest
<1>19. ASSUME NEW id \in Ids, CancelAll(id) PROVE HandlesOK'
  BY <1>19 DEF CancelAll
<1>20. ASSUME NEW id \in Ids, DestroyMark(id) PROVE HandlesOK'
  BY <1>20 DEF DestroyMark
<1>21. ASSUME NEW id \in Ids, DestroyCancel(id) PROVE HandlesOK'
  BY <1>21 DEF DestroyCancel
<1>22. ASSUME NEW id \in Ids, DestroyRemove(id) PROVE HandlesOK'
  BY <1>22 DEF DestroyRemove, RemoveId
<1>23. ASSUME NEW id \in Ids, NEW setting \in {"good", "bad"},
              Configure(id, setting)
       PROVE  HandlesOK'
  BY <1>23 DEF Configure
<1>24. ASSUME NEW k \in Clients, Poison(k) PROVE HandlesOK'
  BY <1>24 DEF Poison
<1>25. CASE UNCHANGED vars
  BY <1>25 DEF vars
<1> HIDE DEF IInv, HandlesOK
<1> QED
  BY <1>1, <1>2, <1>3, <1>4, <1>5, <1>6, <1>7, <1>8, <1>9, <1>10, <1>11,
     <1>12, <1>13, <1>14, <1>15, <1>16, <1>17, <1>18, <1>19, <1>20, <1>21,
     <1>22, <1>23, <1>24, <1>25
  DEF Next, Host, Task, Server, Destroy, Execute, Multipart,
      ExecuteWithId, ExecuteStream, NapiExecute, NapiExecuteStream

\* A client is cancelled by destroy once.
LEMMA ClientsStep == IInv /\ [Next]_vars => ClientsOK'
<1> SUFFICES ASSUME IInv, [Next]_vars PROVE ClientsOK'
  OBVIOUS
<1> USE FfiAssumption
        DEF IInv, HandlesOK, CallsOK, ClientsOK, EveryCallOK, CallOK, Owner,
        Adaptive, CallType, Clients, Ids, Issued, Has, At, shared,
        history, handleVars
<1>1. CASE Create
  BY <1>1 DEF Create
<1>2. ASSUME NEW c \in Calls, NEW kind \in {"plain", "with_id", "stream"},
             NEW id \in Ids,
             Lookup(c, kind, id)
      PROVE  ClientsOK'
  BY <1>2 DEF Lookup
<1>3. ASSUME NEW c \in Calls, NEW id \in Ids, Unsupported(c, id)
      PROVE  ClientsOK'
  BY <1>3 DEF Unsupported
<1>4. ASSUME NEW c \in Calls, Spawn(c) PROVE ClientsOK'
  BY <1>4 DEF Spawn
<1>5. ASSUME NEW c \in Calls, TakeToken(c) PROVE ClientsOK'
  BY <1>5 DEF TakeToken
<1>6. ASSUME NEW c \in Calls, Cancelled(c) PROVE ClientsOK'
  BY <1>6 DEF Cancelled
<1>7. ASSUME NEW c \in Calls, StreamCancelled(c) PROVE ClientsOK'
  BY <1>7 DEF StreamCancelled
<1>8. ASSUME NEW c \in Calls, Check(c) PROVE ClientsOK'
  BY <1>8 DEF Check
<1>9. ASSUME NEW c \in Calls, Callback(c) PROVE ClientsOK'
  BY <1>9 DEF Callback
<1>10. ASSUME NEW c \in Calls, NEW outcome \in {"response", "error"},
              Answer(c, outcome)
       PROVE  ClientsOK'
  BY <1>10 DEF Answer
<1>11. ASSUME NEW c \in Calls, Refuse(c) PROVE ClientsOK'
  BY <1>11 DEF Refuse
<1>12. ASSUME NEW c \in Calls, Misdirected(c) PROVE ClientsOK'
  BY <1>12 DEF Misdirected
<1>13. ASSUME NEW c \in Calls, Die(c) PROVE ClientsOK'
  BY <1>13 DEF Die
<1>14. ASSUME NEW c \in Calls, StreamFails(c) PROVE ClientsOK'
  BY <1>14 DEF StreamFails
<1>15. ASSUME NEW c \in Calls, StreamHeaders(c) PROVE ClientsOK'
  BY <1>15 DEF StreamHeaders
<1>16. ASSUME NEW c \in Calls, StreamChunk(c) PROVE ClientsOK'
  BY <1>16 DEF StreamChunk
<1>17. ASSUME NEW c \in Calls, NEW event \in {"done", "error"},
              StreamEnds(c, event)
       PROVE  ClientsOK'
  BY <1>17 DEF StreamEnds
<1>18. ASSUME NEW c \in Calls, CancelRequest(c) PROVE ClientsOK'
  BY <1>18 DEF CancelRequest
<1>19. ASSUME NEW id \in Ids, CancelAll(id) PROVE ClientsOK'
  BY <1>19 DEF CancelAll, CancelClient
<1>20. ASSUME NEW id \in Ids, DestroyMark(id) PROVE ClientsOK'
  BY <1>20 DEF DestroyMark
<1>21. ASSUME NEW id \in Ids, DestroyCancel(id) PROVE ClientsOK'
  BY <1>21 DEF DestroyCancel, CancelClient
<1>22. ASSUME NEW id \in Ids, DestroyRemove(id) PROVE ClientsOK'
  BY <1>22 DEF DestroyRemove
<1>23. ASSUME NEW id \in Ids, NEW setting \in {"good", "bad"},
              Configure(id, setting)
       PROVE  ClientsOK'
  BY <1>23 DEF Configure
<1>24. ASSUME NEW k \in Clients, Poison(k) PROVE ClientsOK'
  BY <1>24 DEF Poison
<1>25. CASE UNCHANGED vars
  BY <1>25 DEF vars
<1> HIDE DEF IInv, ClientsOK
<1> QED
  BY <1>1, <1>2, <1>3, <1>4, <1>5, <1>6, <1>7, <1>8, <1>9, <1>10, <1>11,
     <1>12, <1>13, <1>14, <1>15, <1>16, <1>17, <1>18, <1>19, <1>20, <1>21,
     <1>22, <1>23, <1>24, <1>25
  DEF Next, Host, Task, Server, Destroy, Execute, Multipart,
      ExecuteWithId, ExecuteStream, NapiExecute, NapiExecuteStream

\* Each action on a call, as a move.
LEMMA Moves ==
    ASSUME IInv, NEW c \in Calls
    PROVE  /\ Spawn(c) => Moved(c, "spawned", call[c].event)
           /\ TakeToken(c) => Moved(c, "sending", call[c].event)
           /\ Cancelled(c) =>
                Moved(c, "reporting", ResultEvent(c, "cancelled"))
           /\ StreamCancelled(c) => Moved(c, "reporting", "error")
           /\ Check(c) =>
                IF call[c].handle \in marked THEN Moved(c, After(c), "none")
                ELSE Moved(c, "calling", call[c].event)
           /\ Callback(c) => Moved(c, After(c), "none")
           /\ Refuse(c) => Moved(c, "reporting", "error")
           /\ Misdirected(c) => Moved(c, "spawned", call[c].event)
           /\ Die(c) => Moved(c, "done", "none")
           /\ StreamFails(c) => Moved(c, "done", "none")
           /\ StreamHeaders(c) => Moved(c, "reporting", "headers")
           /\ StreamChunk(c) => Moved(c, "reporting", "chunk")
           /\ \A event \in {"done", "error"} :
                StreamEnds(c, event) => Moved(c, "reporting", event)
           /\ \A outcome \in {"response", "error"} :
                Answer(c, outcome) => Moved(c, "reporting", outcome)
<1>0. CallsOK /\ call \in [Calls -> CallType]
  BY DEF IInv, CallsOK
<1>1. ResultEvent(c, "cancelled") \in Events /\ After(c) \in PCs
  BY DEF ResultEvent, After, Events, Terminal, PCs
<1>2. ASSUME Spawn(c) PROVE Moved(c, "spawned", call[c].event)
  BY <1>0, <1>2 DEF Spawn, Moved, CallType, PCs
<1>3. ASSUME TakeToken(c) PROVE Moved(c, "sending", call[c].event)
  <2>1. current[call[c].client] \in Nat
    BY <1>0, <1>3
    DEF TakeToken, At, IInv, EveryCallOK, CallOK, Owner, ClientsOK, CallType,
        Clients
  <2> QED
    BY <1>0, <1>3, <2>1 DEF TakeToken, Moved, CallType, PCs
<1>4. ASSUME Check(c)
      PROVE  IF call[c].handle \in marked THEN Moved(c, After(c), "none")
             ELSE Moved(c, "calling", call[c].event)
  <2>1. CASE call[c].handle \in marked
    BY <1>0, <1>1, <1>4, <2>1, GotoMoves DEF Check
  <2>2. CASE call[c].handle \notin marked
    BY <1>0, <1>4, <2>2 DEF Check, Moved, CallType, PCs
  <2> QED
    BY <2>1, <2>2
<1>5. ASSUME Misdirected(c) PROVE Moved(c, "spawned", call[c].event)
  BY <1>0, <1>5 DEF Misdirected, Moved, CallType, PCs
<1>6. ASSUME StreamChunk(c) PROVE Moved(c, "reporting", "chunk")
  BY <1>0, <1>6, FfiAssumption DEF StreamChunk, Moved, CallType, PCs, Events
<1>7. ASSUME Cancelled(c) \/ StreamCancelled(c) \/ Refuse(c) \/ StreamHeaders(c)
      PROVE  /\ Cancelled(c) =>
                  Moved(c, "reporting", ResultEvent(c, "cancelled"))
             /\ StreamCancelled(c) => Moved(c, "reporting", "error")
             /\ Refuse(c) => Moved(c, "reporting", "error")
             /\ StreamHeaders(c) => Moved(c, "reporting", "headers")
  BY <1>0, <1>1, ReportMoves
  DEF Cancelled, StreamCancelled, Refuse, StreamHeaders, Events, Terminal
<1>8. ASSUME Callback(c) \/ Die(c) \/ StreamFails(c)
      PROVE  /\ Callback(c) => Moved(c, After(c), "none")
             /\ Die(c) => Moved(c, "done", "none")
             /\ StreamFails(c) => Moved(c, "done", "none")
  BY <1>0, <1>1, GotoMoves DEF Callback, Die, StreamFails, PCs
<1>9. ASSUME NEW event \in {"done", "error"}, StreamEnds(c, event)
      PROVE  Moved(c, "reporting", event)
  BY <1>0, <1>9, ReportMoves DEF StreamEnds, Events, Terminal
<1>10. ASSUME NEW outcome \in {"response", "error"}, Answer(c, outcome)
       PROVE  Moved(c, "reporting", outcome)
  BY <1>0, <1>10, ReportMoves DEF Answer, Events, Terminal
<1> QED
  BY <1>2, <1>3, <1>4, <1>5, <1>6, <1>7, <1>8, <1>9, <1>10

\* The two ways to make a call.
LEMMA Makes ==
    ASSUME IInv, NEW c \in Calls, NEW id \in Ids
    PROVE  /\ Unsupported(c, id) =>
                Made(c, "done", "unsupported", id, call[c].client)
           /\ \A kind \in {"plain", "with_id", "stream"} :
                Lookup(c, kind, id) =>
                  IF Has(id) THEN Made(c, "found", kind, id, id)
                  ELSE Made(c, "done", kind, id, 0)
<1>0. call \in [Calls -> CallType] /\ id \in 0..MaxClients
  BY FfiAssumption DEF IInv, CallsOK, Ids
<1>1. ASSUME Unsupported(c, id)
      PROVE  Made(c, "done", "unsupported", id, call[c].client)
  <2>1. call'[c] = [call[c] EXCEPT !.pc = "done", !.kind = "unsupported",
                                   !.handle = id]
    BY <1>0, <1>1 DEF Unsupported
  <2>2. call'[c] \in CallType
    BY <1>0, <2>1 DEF CallType, PCs, Kinds
  <2>3. call' \in [Calls -> CallType]
    BY <1>0, <1>1, <2>2 DEF Unsupported
  <2> QED
    BY <1>0, <1>1, <2>1, <2>3 DEF Unsupported, Made, CallType
<1>2. ASSUME NEW kind \in {"plain", "with_id", "stream"},
             NEW place \in {"found", "done"}, NEW client \in 0..MaxClients,
             call' = [call EXCEPT ![c].pc = place, ![c].kind = kind,
                                  ![c].handle = id, ![c].client = client]
      PROVE  Made(c, place, kind, id, client)
  <2>1. call'[c] = [call[c] EXCEPT !.pc = place, !.kind = kind,
                                   !.handle = id, !.client = client]
    BY <1>0, <1>2
  <2>2. call'[c] \in CallType
    BY <1>0, <2>1 DEF CallType, PCs, Kinds
  <2>3. call' \in [Calls -> CallType]
    BY <1>0, <1>2, <2>2
  <2> QED
    BY <1>0, <1>2, <2>1, <2>3 DEF Made, CallType
<1>3. ASSUME NEW kind \in {"plain", "with_id", "stream"}, Lookup(c, kind, id)
      PROVE  IF Has(id) THEN Made(c, "found", kind, id, id)
             ELSE Made(c, "done", kind, id, 0)
  <2>1. CASE Has(id)
    <3>1. registry[id] = id
      BY <2>1 DEF IInv, HandlesOK, Has
    <3>2. call' = [call EXCEPT ![c].pc = "found", ![c].kind = kind,
                               ![c].handle = id, ![c].client = id]
      BY <1>3, <2>1, <3>1 DEF Lookup
    <3> QED
      BY <1>0, <1>2, <2>1, <3>2
  <2>2. CASE ~Has(id)
    <3>1. call' = [call EXCEPT ![c].pc = "done", ![c].kind = kind,
                               ![c].handle = id, ![c].client = 0]
      BY <1>3, <2>2 DEF Lookup
    <3> QED
      <4>1. 0 \in 0..MaxClients
        BY FfiAssumption
      <4>2. Made(c, "done", kind, id, 0)
        BY <1>2, <3>1, <4>1
      <4> QED
        BY <2>2, <4>2
  <2> QED
    BY <2>1, <2>2
<1> QED
  BY <1>1, <1>3

\* Each call stays within its control flow.
LEMMA CallsStep == IInv /\ [Next]_vars => CallsOK'
<1> SUFFICES ASSUME IInv, [Next]_vars PROVE CallsOK'
  OBVIOUS
<1> USE FfiAssumption
        DEF IInv, CallsOK, shared, history, handleVars
<1>1. CASE Create
  BY <1>1 DEF Create
<1>2. ASSUME NEW c \in Calls, NEW kind \in {"plain", "with_id", "stream"},
             NEW id \in Ids,
             Lookup(c, kind, id)
      PROVE  CallsOK'
  <2>1. call' \in [Calls -> CallType]
    BY <1>2, Makes DEF Made
  <2> QED
    BY <1>2, <2>1 DEF Lookup
<1>3. ASSUME NEW c \in Calls, NEW id \in Ids, Unsupported(c, id)
      PROVE  CallsOK'
  <2>1. call' \in [Calls -> CallType]
    BY <1>3, Makes DEF Made
  <2> QED
    BY <1>3, <2>1 DEF Unsupported, Events, Terminal
<1>4. ASSUME NEW c \in Calls, Spawn(c) PROVE CallsOK'
  <2>1. call' \in [Calls -> CallType]
    BY <1>4, Moves DEF Moved
  <2> QED
    BY <1>4, <2>1 DEF Spawn
<1>5. ASSUME NEW c \in Calls, TakeToken(c) PROVE CallsOK'
  <2>1. call' \in [Calls -> CallType]
    BY <1>5, Moves DEF Moved
  <2> QED
    BY <1>5, <2>1 DEF TakeToken
<1>6. ASSUME NEW c \in Calls, Cancelled(c) PROVE CallsOK'
  <2>1. call' \in [Calls -> CallType]
    BY <1>6, Moves DEF Moved
  <2> QED
    BY <1>6, <2>1 DEF Cancelled
<1>7. ASSUME NEW c \in Calls, StreamCancelled(c) PROVE CallsOK'
  <2>1. call' \in [Calls -> CallType]
    BY <1>7, Moves DEF Moved
  <2> QED
    BY <1>7, <2>1 DEF StreamCancelled
<1>8. ASSUME NEW c \in Calls, Check(c) PROVE CallsOK'
  <2>1. call' \in [Calls -> CallType]
    BY <1>8, Moves DEF Moved
  <2> QED
    BY <1>8, <2>1 DEF Check
<1>9. ASSUME NEW c \in Calls, Callback(c) PROVE CallsOK'
  <2>1. call' \in [Calls -> CallType]
    BY <1>9, Moves DEF Moved
  <2>2. call[c].event \in Events
    BY DEF CallType
  <2>3. got' \in [Calls -> Seq(Events)]
    BY <1>9, <2>2 DEF Callback
  <2>4. late' \in [Calls -> Nat]
    BY <1>9 DEF Callback
  <2> QED
    BY <1>9, <2>1, <2>3, <2>4 DEF Callback
<1>10. ASSUME NEW c \in Calls, NEW outcome \in {"response", "error"},
              Answer(c, outcome)
       PROVE  CallsOK'
  <2>1. call' \in [Calls -> CallType]
    BY <1>10, Moves DEF Moved
  <2> QED
    BY <1>10, <2>1 DEF Answer
<1>11. ASSUME NEW c \in Calls, Refuse(c) PROVE CallsOK'
  <2>1. call' \in [Calls -> CallType]
    BY <1>11, Moves DEF Moved
  <2> QED
    BY <1>11, <2>1 DEF Refuse
<1>12. ASSUME NEW c \in Calls, Misdirected(c) PROVE CallsOK'
  <2>1. call' \in [Calls -> CallType]
    BY <1>12, Moves DEF Moved
  <2> QED
    BY <1>12, <2>1 DEF Misdirected
<1>13. ASSUME NEW c \in Calls, Die(c) PROVE CallsOK'
  <2>1. call' \in [Calls -> CallType]
    BY <1>13, Moves DEF Moved
  <2> QED
    BY <1>13, <2>1 DEF Die
<1>14. ASSUME NEW c \in Calls, StreamFails(c) PROVE CallsOK'
  <2>1. call' \in [Calls -> CallType]
    BY <1>14, Moves DEF Moved
  <2> QED
    BY <1>14, <2>1 DEF StreamFails
<1>15. ASSUME NEW c \in Calls, StreamHeaders(c) PROVE CallsOK'
  <2>1. call' \in [Calls -> CallType]
    BY <1>15, Moves DEF Moved
  <2> QED
    BY <1>15, <2>1 DEF StreamHeaders
<1>16. ASSUME NEW c \in Calls, StreamChunk(c) PROVE CallsOK'
  <2>1. call' \in [Calls -> CallType]
    BY <1>16, Moves DEF Moved
  <2> QED
    BY <1>16, <2>1 DEF StreamChunk
<1>17. ASSUME NEW c \in Calls, NEW event \in {"done", "error"},
              StreamEnds(c, event)
       PROVE  CallsOK'
  <2>1. call' \in [Calls -> CallType]
    BY <1>17, Moves DEF Moved
  <2> QED
    BY <1>17, <2>1 DEF StreamEnds
<1>18. ASSUME NEW c \in Calls, CancelRequest(c) PROVE CallsOK'
  BY <1>18 DEF CancelRequest
<1>19. ASSUME NEW id \in Ids, CancelAll(id) PROVE CallsOK'
  BY <1>19 DEF CancelAll, CancelClient
<1>20. ASSUME NEW id \in Ids, DestroyMark(id) PROVE CallsOK'
  BY <1>20 DEF DestroyMark
<1>21. ASSUME NEW id \in Ids, DestroyCancel(id) PROVE CallsOK'
  BY <1>21 DEF DestroyCancel, CancelClient
<1>22. ASSUME NEW id \in Ids, DestroyRemove(id) PROVE CallsOK'
  BY <1>22 DEF DestroyRemove
<1>23. ASSUME NEW id \in Ids, NEW setting \in {"good", "bad"},
              Configure(id, setting)
       PROVE  CallsOK'
  BY <1>23 DEF Configure
<1>24. ASSUME NEW k \in Clients, Poison(k) PROVE CallsOK'
  BY <1>24 DEF Poison
<1>25. CASE UNCHANGED vars
  BY <1>25 DEF vars
<1> HIDE DEF IInv, CallsOK
<1> QED
  BY <1>1, <1>2, <1>3, <1>4, <1>5, <1>6, <1>7, <1>8, <1>9, <1>10, <1>11,
     <1>12, <1>13, <1>14, <1>15, <1>16, <1>17, <1>18, <1>19, <1>20, <1>21,
     <1>22, <1>23, <1>24, <1>25
  DEF Next, Host, Task, Server, Destroy, Execute, Multipart,
      ExecuteWithId, ExecuteStream, NapiExecute, NapiExecuteStream

\* Every step does no more than that to them.
LEMMA GrowsStep == IInv /\ [Next]_vars => Grows
<1> SUFFICES ASSUME IInv, [Next]_vars PROVE Grows
  OBVIOUS
<1> USE FfiAssumption
        DEF IInv, Grows, HandlesOK, ClientsOK, CallsOK, CallType, Issued, Ids,
        Clients, Has, shared, history, handleVars
<1>1. CASE Create
  BY <1>1 DEF Create, Insert, InsertWithId, TakeId
<1>2. ASSUME NEW c \in Calls, NEW kind \in {"plain", "with_id", "stream"},
             NEW id \in Ids,
             Lookup(c, kind, id)
      PROVE  Grows
  BY <1>2 DEF Lookup
<1>3. ASSUME NEW c \in Calls, NEW id \in Ids, Unsupported(c, id) PROVE Grows
  BY <1>3 DEF Unsupported
<1>4. ASSUME NEW c \in Calls, Spawn(c) PROVE Grows
  BY <1>4 DEF Spawn
<1>5. ASSUME NEW c \in Calls, TakeToken(c) PROVE Grows
  BY <1>5 DEF TakeToken
<1>6. ASSUME NEW c \in Calls, Cancelled(c) PROVE Grows
  BY <1>6 DEF Cancelled
<1>7. ASSUME NEW c \in Calls, StreamCancelled(c) PROVE Grows
  BY <1>7 DEF StreamCancelled
<1>8. ASSUME NEW c \in Calls, Check(c) PROVE Grows
  BY <1>8 DEF Check
<1>9. ASSUME NEW c \in Calls, Callback(c) PROVE Grows
  BY <1>9 DEF Callback
<1>10. ASSUME NEW c \in Calls, NEW outcome \in {"response", "error"},
              Answer(c, outcome)
       PROVE  Grows
  BY <1>10 DEF Answer
<1>11. ASSUME NEW c \in Calls, Refuse(c) PROVE Grows
  BY <1>11 DEF Refuse
<1>12. ASSUME NEW c \in Calls, Misdirected(c) PROVE Grows
  BY <1>12 DEF Misdirected
<1>13. ASSUME NEW c \in Calls, Die(c) PROVE Grows
  BY <1>13 DEF Die
<1>14. ASSUME NEW c \in Calls, StreamFails(c) PROVE Grows
  BY <1>14 DEF StreamFails
<1>15. ASSUME NEW c \in Calls, StreamHeaders(c) PROVE Grows
  BY <1>15 DEF StreamHeaders
<1>16. ASSUME NEW c \in Calls, StreamChunk(c) PROVE Grows
  BY <1>16 DEF StreamChunk
<1>17. ASSUME NEW c \in Calls, NEW event \in {"done", "error"},
              StreamEnds(c, event)
       PROVE  Grows
  BY <1>17 DEF StreamEnds
<1>18. ASSUME NEW c \in Calls, CancelRequest(c) PROVE Grows
  BY <1>18 DEF CancelRequest
<1>19. ASSUME NEW id \in Ids, CancelAll(id) PROVE Grows
  BY <1>19 DEF CancelAll
<1>20. ASSUME NEW id \in Ids, DestroyMark(id) PROVE Grows
  BY <1>20 DEF DestroyMark
<1>21. ASSUME NEW id \in Ids, DestroyCancel(id) PROVE Grows
  BY <1>21 DEF DestroyCancel
<1>22. ASSUME NEW id \in Ids, DestroyRemove(id) PROVE Grows
  BY <1>22 DEF DestroyRemove
<1>23. ASSUME NEW id \in Ids, NEW setting \in {"good", "bad"},
              Configure(id, setting)
       PROVE  Grows
  BY <1>23 DEF Configure
<1>24. ASSUME NEW k \in Clients, Poison(k) PROVE Grows
  BY <1>24 DEF Poison
<1>25. CASE UNCHANGED vars
  BY <1>25 DEF vars
<1> HIDE DEF IInv, Grows
<1> QED
  BY <1>1, <1>2, <1>3, <1>4, <1>5, <1>6, <1>7, <1>8, <1>9, <1>10, <1>11,
     <1>12, <1>13, <1>14, <1>15, <1>16, <1>17, <1>18, <1>19, <1>20, <1>21,
     <1>22, <1>23, <1>24, <1>25
  DEF Next, Host, Task, Server, Destroy, Execute, Multipart,
      ExecuteWithId, ExecuteStream, NapiExecute, NapiExecuteStream

\* A task that moves on stays with its client, and is late no more than it was:
\* it comes to the callback only past a mark that is not set.
LEMMA Advances ==
    ASSUME IInv, Grows, NEW c \in Calls, NEW place \in PCs, NEW event,
           Moved(c, place, event), late'[c] = late[c],
           call[c].pc \notin {"idle", "done"}, place # "idle",
           place = "calling" => call[c].handle \notin marked
    PROVE  Owner(c)' /\ LastLate(c)'
<1>0. Owner(c) /\ LastLate(c) /\ HandlesOK /\ CallsOK
  BY DEF IInv, EveryCallOK, CallOK
<1>1. Owner(c)'
  BY <1>0 DEF Owner, Moved, Grows, At
<1>2. call[c].handle \in Ids
  BY <1>0, FfiAssumption DEF Owner, HandlesOK, Issued, Ids, At
<1>3. place = "calling" => late[c] = 0
  BY <1>0, <1>2 DEF LastLate, HandlesOK, CallsOK
<1>4. LastLate(c)'
  BY <1>0, <1>2, <1>3 DEF LastLate, Moved, Grows, At, CallsOK
<1> QED
  BY <1>1, <1>4

\* What holds of each call goes on to hold.
LEMMA EveryCallStep == IInv /\ [Next]_vars => EveryCallOK'
<1> SUFFICES ASSUME IInv, [Next]_vars PROVE EveryCallOK'
  OBVIOUS
<1>1. CASE Create
  <2>1. /\ call' = call /\ got' = got /\ late' = late
        /\ pending' \subseteq pending
    BY <1>1 DEF Create, shared, history
  <2> QED
    BY <2>1, GrowsStep, CallKept DEF IInv, EveryCallOK
<1>2. ASSUME NEW c \in Calls, NEW kind \in {"plain", "with_id", "stream"},
             NEW id \in Ids,
             Lookup(c, kind, id)
      PROVE  EveryCallOK'
  <2>0. CallOK(c) /\ HandlesOK /\ CallsOK /\ Grows
    BY GrowsStep DEF IInv, EveryCallOK
  <2>1. /\ At(c, "idle") /\ id \in Issued
        /\ got' = got
        /\ late' = late /\ pending' = pending
    BY <1>2 DEF Lookup, At, shared, history
  <2>2. IF Has(id) THEN Made(c, "found", kind, id, id)
        ELSE Made(c, "done", kind, id, 0)
    BY <1>2, Makes
  <2>3. ASSUME NEW d \in Calls, d # c PROVE CallOK(d)'
    BY <2>0, <2>1, <2>2, <2>3, CallKept DEF Made, IInv, EveryCallOK, CallsOK
  <2>4. c \notin pending /\ late[c] = 0 /\ got[c] = <<>> /\ id # 0
    BY <2>0, <2>1 DEF CallOK, Entered, LastLate, UnderWay, CallsOK, At, Ids
  <2>5. Owner(c)' /\ Event(c)' /\ LastLate(c)'
    <3>1. CASE Has(id)
      BY <2>0, <2>1, <2>2, <2>4, <3>1
      DEF Made, Grows, Owner, Event, LastLate, At
    <3>2. CASE ~Has(id)
      BY <2>0, <2>1, <2>2, <2>4, <3>2
      DEF Made, Grows, Owner, Event, LastLate, At
    <3> QED
      BY <3>1, <3>2
  <2>6. UnderWay(c)' /\ Entered(c)'
    BY <2>1, <2>2, <2>4 DEF Made, UnderWay, Opening, Entered, At
  <2>7. ~Has(id) => id \in marked
    BY <2>0, <2>1, <2>4 DEF HandlesOK
  <2>8. Settled(c)'
    BY <2>0, <2>1, <2>2, <2>4, <2>7
    DEF Made, Grows, Settled, Opening, Excused, At
  <2> QED
    BY <2>3, <2>5, <2>6, <2>8 DEF EveryCallOK, CallOK
<1>3. ASSUME NEW c \in Calls, NEW id \in Ids, Unsupported(c, id)
      PROVE  EveryCallOK'
  <2>0. CallOK(c) /\ HandlesOK /\ CallsOK /\ Grows
    BY GrowsStep DEF IInv, EveryCallOK
  <2>1. /\ At(c, "idle") /\ id \in Issued
        /\ got' = [got EXCEPT ![c] = <<"error">>]
        /\ late' = late /\ pending' = pending
    BY <1>3 DEF Unsupported, At, shared, history
  <2>2. Made(c, "done", "unsupported", id, call[c].client)
    BY <1>3, Makes
  <2>3. ASSUME NEW d \in Calls, d # c PROVE CallOK(d)'
    BY <2>0, <2>1, <2>2, <2>3, CallKept DEF Made, IInv, EveryCallOK, CallsOK
  <2>4. c \notin pending /\ late[c] = 0 /\ got[c] = <<>> /\ id # 0
    BY <2>0, <2>1 DEF CallOK, Entered, LastLate, UnderWay, CallsOK, At, Ids
  <2>5. Owner(c)' /\ Event(c)' /\ LastLate(c)'
    <3>1. call[c].client = 0
      BY <2>0, <2>1 DEF CallOK, Owner, At
    <3> QED
      BY <2>0, <2>1, <2>2, <2>4, <3>1
      DEF CallOK, Made, Grows, Owner, Event, LastLate, At
  <2>6. UnderWay(c)' /\ Entered(c)'
    BY <2>1, <2>2, <2>4 DEF Made, UnderWay, Entered, At
  <2>7. got'[c] = <<"error">>
    BY <2>0, <2>1 DEF CallsOK
  <2>8. Settled(c)'
    BY <2>2, <2>7 DEF Made, Settled, Complete, Terminal
  <2> QED
    BY <2>3, <2>5, <2>6, <2>8 DEF EveryCallOK, CallOK
<1>4. ASSUME NEW c \in Calls, Spawn(c) PROVE EveryCallOK'
  <2>0. CallOK(c) /\ HandlesOK /\ CallsOK /\ Grows
    BY GrowsStep DEF IInv, EveryCallOK
  <2>1. /\ At(c, "found")
        /\ Moved(c, "spawned", call[c].event)
        /\ got' = got /\ late' = late
        /\ pending' = (IF HasEntry(c) THEN pending \cup {c} ELSE pending)
    BY <1>4, Moves DEF Spawn, At, shared, history
  <2>2. ASSUME NEW d \in Calls, d # c PROVE CallOK(d)'
    BY <2>0, <2>1, <2>2, CallKept DEF Moved, IInv, EveryCallOK
  <2>3. Owner(c)' /\ LastLate(c)'
    BY <2>0, <2>1, Advances DEF PCs, At
  <2>4. Event(c)'
    BY <2>0, <2>1 DEF CallOK, Event, Owner, Moved, At
  <2>5. UnderWay(c)'
    BY <2>0, <2>1
    DEF CallOK, Event, Owner, UnderWay, Opening, Moved, Grows, At
  <2>6. Settled(c)'
    BY <2>0, <2>1 DEF Settled, Moved, At
  <2>7. Entered(c)'
    BY <2>0, <2>1
    DEF CallOK, Event, Entered, Owner, Moved, Grows, At, HasEntry
  <2> QED
    BY <2>2, <2>3, <2>4, <2>5, <2>6, <2>7 DEF EveryCallOK, CallOK
<1>5. ASSUME NEW c \in Calls, TakeToken(c) PROVE EveryCallOK'
  <2>0. CallOK(c) /\ HandlesOK /\ CallsOK /\ Grows
    BY GrowsStep DEF IInv, EveryCallOK
  <2>1. /\ At(c, "spawned")
        /\ Moved(c, "sending", call[c].event)
        /\ got' = got /\ late' = late
        /\ pending' = pending
    BY <1>5, Moves DEF TakeToken, At, shared, history
  <2>2. ASSUME NEW d \in Calls, d # c PROVE CallOK(d)'
    BY <2>0, <2>1, <2>2, CallKept DEF Moved, IInv, EveryCallOK
  <2>3. Owner(c)' /\ LastLate(c)'
    BY <2>0, <2>1, Advances DEF PCs, At
  <2>4. Event(c)'
    BY <2>0, <2>1 DEF CallOK, Event, Owner, Moved, At
  <2>5. UnderWay(c)'
    BY <2>0, <2>1
    DEF CallOK, Event, Owner, UnderWay, Opening, Moved, Grows, At
  <2>6. Settled(c)'
    BY <2>0, <2>1 DEF Settled, Moved, At
  <2>7. Entered(c)'
    BY <2>0, <2>1 DEF CallOK, Event, Entered, Owner, Moved, Grows, At
  <2> QED
    BY <2>2, <2>3, <2>4, <2>5, <2>6, <2>7 DEF EveryCallOK, CallOK
<1>6. ASSUME NEW c \in Calls, Cancelled(c) PROVE EveryCallOK'
  <2>0. CallOK(c) /\ HandlesOK /\ CallsOK /\ Grows
    BY GrowsStep DEF IInv, EveryCallOK
  <2>1. /\ At(c, "sending") /\ call[c].kind # "stream"
        /\ Moved(c, "reporting", ResultEvent(c, "cancelled"))
        /\ got' = got /\ late' = late
        /\ pending' \subseteq pending
    BY <1>6, Moves DEF Cancelled, At, shared, history
  <2>2. ASSUME NEW d \in Calls, d # c PROVE CallOK(d)'
    BY <2>0, <2>1, <2>2, CallKept DEF Moved, IInv, EveryCallOK
  <2>3. Owner(c)' /\ LastLate(c)'
    BY <2>0, <2>1, Advances DEF PCs, At, ResultEvent
  <2>4. Event(c)'
    BY <2>0, <2>1 DEF CallOK, Event, Owner, Moved, At, ResultEvent
  <2>5. UnderWay(c)'
    BY <2>0, <2>1
    DEF CallOK, Event, Owner, UnderWay, Opening, Moved, Grows, At,
        ResultEvent
  <2>6. Settled(c)'
    BY <2>0, <2>1 DEF Settled, Moved, At
  <2>7. Entered(c)'
    BY <2>0, <2>1
    DEF CallOK, Event, Entered, Owner, Moved, Grows, At, ResultEvent
  <2> QED
    BY <2>2, <2>3, <2>4, <2>5, <2>6, <2>7 DEF EveryCallOK, CallOK
<1>7. ASSUME NEW c \in Calls, StreamCancelled(c) PROVE EveryCallOK'
  <2>0. CallOK(c) /\ HandlesOK /\ CallsOK /\ Grows
    BY GrowsStep DEF IInv, EveryCallOK
  <2>1. /\ call[c].pc \in {"sending", "streaming"} /\ call[c].kind = "stream"
        /\ Moved(c, "reporting", "error")
        /\ got' = got /\ late' = late
        /\ pending' = pending
    BY <1>7, <2>0, Moves
    DEF StreamCancelled, CallOK, Event, At, shared, history
  <2>2. ASSUME NEW d \in Calls, d # c PROVE CallOK(d)'
    BY <2>0, <2>1, <2>2, CallKept DEF Moved, IInv, EveryCallOK
  <2>3. Owner(c)' /\ LastLate(c)'
    BY <2>0, <2>1, Advances DEF PCs, At
  <2>4. Event(c)'
    BY <2>0, <2>1 DEF CallOK, Event, Owner, Moved, At
  <2>5. UnderWay(c)'
    BY <2>0, <2>1
    DEF CallOK, Event, Owner, UnderWay, Opening, Moved, Grows, At
  <2>6. Settled(c)'
    BY <2>0, <2>1 DEF Settled, Moved, At
  <2>7. Entered(c)'
    BY <2>0, <2>1 DEF CallOK, Event, Entered, Owner, Moved, Grows, At
  <2> QED
    BY <2>2, <2>3, <2>4, <2>5, <2>6, <2>7 DEF EveryCallOK, CallOK
<1>8. ASSUME NEW c \in Calls, Check(c) PROVE EveryCallOK'
  <2>1. CASE call[c].handle \in marked
    <3>0. CallOK(c) /\ HandlesOK /\ CallsOK /\ Grows
      BY GrowsStep DEF IInv, EveryCallOK
    <3>1. /\ At(c, "reporting") /\ call[c].handle \in marked
          /\ Moved(c, After(c), "none")
          /\ got' = got /\ late' = late
          /\ pending' = pending
      BY <1>8, <2>1, Moves DEF Check, At, shared, history
    <3>2. ASSUME NEW d \in Calls, d # c PROVE CallOK(d)'
      BY <3>0, <3>1, <3>2, CallKept DEF Moved, IInv, EveryCallOK
    <3>3. Owner(c)' /\ LastLate(c)'
      BY <3>0, <3>1, Advances DEF PCs, At, After, Terminal
    <3>4. Event(c)'
      BY <3>0, <3>1 DEF CallOK, Event, Owner, Moved, At, After, Terminal
    <3>5. UnderWay(c)'
      BY <3>0, <3>1
      DEF CallOK, Event, Owner, UnderWay, Opening, Moved, Grows, At,
          After, Terminal
    <3>6. Settled(c)'
      BY <3>0, <3>1 DEF CallOK, UnderWay, Settled, Excused, Moved, Grows, At
    <3>7. Entered(c)'
      BY <3>0, <3>1
      DEF CallOK, Event, Entered, Owner, Moved, Grows, At, After, Terminal
    <3> QED
      BY <3>2, <3>3, <3>4, <3>5, <3>6, <3>7 DEF EveryCallOK, CallOK
  <2>2. CASE call[c].handle \notin marked
    <3>0. CallOK(c) /\ HandlesOK /\ CallsOK /\ Grows
      BY GrowsStep DEF IInv, EveryCallOK
    <3>1. /\ At(c, "reporting") /\ call[c].handle \notin marked
          /\ Moved(c, "calling", call[c].event)
          /\ got' = got /\ late' = late
          /\ pending' = pending
      BY <1>8, <2>2, Moves DEF Check, At, shared, history
    <3>2. ASSUME NEW d \in Calls, d # c PROVE CallOK(d)'
      BY <3>0, <3>1, <3>2, CallKept DEF Moved, IInv, EveryCallOK
    <3>3. Owner(c)' /\ LastLate(c)'
      BY <3>0, <3>1, Advances DEF PCs, At
    <3>4. Event(c)'
      BY <3>0, <3>1 DEF CallOK, Event, Owner, Moved, At
    <3>5. UnderWay(c)'
      BY <3>0, <3>1
      DEF CallOK, Event, Owner, UnderWay, Opening, Moved, Grows, At
    <3>6. Settled(c)'
      BY <3>0, <3>1 DEF Settled, Moved, At
    <3>7. Entered(c)'
      BY <3>0, <3>1 DEF CallOK, Event, Entered, Owner, Moved, Grows, At
    <3> QED
      BY <3>2, <3>3, <3>4, <3>5, <3>6, <3>7 DEF EveryCallOK, CallOK
  <2> QED
    BY <2>1, <2>2
<1>9. ASSUME NEW c \in Calls, Callback(c) PROVE EveryCallOK'
  <2>0. CallOK(c) /\ HandlesOK /\ CallsOK /\ Grows
    BY GrowsStep DEF IInv, EveryCallOK
  <2>1. /\ At(c, "calling") /\ Moved(c, After(c), "none")
        /\ got' = [got EXCEPT ![c] = Append(got[c], call[c].event)]
        /\ pending' = pending
        /\ late' = IF destroyer[call[c].handle] = "returned"
                   THEN [late EXCEPT ![c] = late[c] + 1] ELSE late
    BY <1>9, Moves DEF Callback, At, shared, history
  <2>2. ASSUME NEW d \in Calls, d # c PROVE CallOK(d)'
    BY <2>0, <2>1, <2>2, CallKept DEF Moved, IInv, EveryCallOK, CallsOK
  <2>3. /\ got[c] \in Seq(Events) /\ call[c].event \in Events
        /\ got'[c] = Append(got[c], call[c].event)
        /\ call[c].handle \in Ids
    BY <2>0, <2>1, FfiAssumption
    DEF CallsOK, CallType, CallOK, Owner, HandlesOK, Issued, Ids, At
  <2>4. After(c) \in {"done", "streaming"}
    BY DEF After
  <2>5. Owner(c)'
    BY <2>0, <2>1, <2>4 DEF CallOK, Owner, Moved, Grows, At
  <2>6. LastLate(c)'
    BY <2>0, <2>1, <2>3, <2>4 DEF CallOK, LastLate, CallsOK, Moved, Grows, At
  <2>7. Event(c)'
    BY <2>0, <2>1 DEF CallOK, Event, Owner, Moved, At, After, Terminal
  <2>8. Opening(got[c]) /\ Len(got[c]) \in Nat
    BY <2>0, <2>1, <2>3 DEF CallOK, UnderWay, At
  <2>9. CASE call[c].event \in Terminal
    <3>1. At(c, "done")'
      BY <2>1, <2>9 DEF Moved, After, At
    <3>2. UnderWay(c)'
      BY <3>1 DEF UnderWay, At
    <3>3. Complete(got'[c])
      BY <2>3, <2>8, <2>9 DEF Complete, Opening, Terminal
    <3>4. ASSUME call[c].kind = "stream" PROVE Closed(got'[c])
      <4>1. got[c] = <<>> => call[c].event = "error"
        BY <2>0, <2>1, <2>9, <3>4
        DEF CallOK, Event, UnderWay, Terminal, At
      <4>2. call[c].event # "headers"
        BY <2>9 DEF Terminal
      <4> QED
        BY <2>3, <2>8, <3>3, <4>1, <4>2 DEF Closed, Opening
    <3>5. Settled(c)'
      BY <2>1, <3>3, <3>4 DEF Settled, Moved
    <3>6. Entered(c)'
      <4>1. call[c].kind # "stream" => got'[c] = <<call[c].event>>
        <5>1. call[c].kind # "stream" => got[c] = <<>>
          BY <2>0, <2>1 DEF CallOK, UnderWay, At
        <5>2. Append(<<>>, call[c].event) = <<call[c].event>>
          OBVIOUS
        <5> QED
          BY <2>3, <5>1, <5>2
      <4> QED
        BY <2>0, <2>1, <3>1, <4>1 DEF CallOK, Entered, Moved, Grows, At
    <3> QED
      BY <2>2, <2>5, <2>6, <2>7, <3>2, <3>5, <3>6 DEF EveryCallOK, CallOK
  <2>10. CASE call[c].event \notin Terminal
    <3>1. At(c, "streaming")' /\ call[c].kind = "stream"
      BY <2>0, <2>1, <2>10 DEF CallOK, Event, Moved, After, Terminal, At
    <3>2. /\ call[c].event \in {"headers", "chunk"}
          /\ call[c].event = "headers" <=> got[c] = <<>>
      BY <2>0, <2>1, <2>10, <3>1 DEF CallOK, Event, UnderWay, Terminal, At
    <3>3. Opening(got'[c]) /\ got'[c] # <<>>
      BY <2>3, <2>8, <3>2 DEF Opening
    <3>4. UnderWay(c)'
      BY <2>1, <3>1, <3>3 DEF UnderWay, Moved, At
    <3>5. Settled(c)'
      BY <3>1 DEF Settled, At
    <3>6. Entered(c)'
      BY <2>0, <2>1, <3>1 DEF CallOK, Entered, Moved, Grows, At
    <3> QED
      BY <2>2, <2>5, <2>6, <2>7, <3>4, <3>5, <3>6 DEF EveryCallOK, CallOK
  <2> QED
    BY <2>9, <2>10
<1>10. ASSUME NEW c \in Calls, NEW outcome \in {"response", "error"},
              Answer(c, outcome)
       PROVE  EveryCallOK'
  <2>0. CallOK(c) /\ HandlesOK /\ CallsOK /\ Grows
    BY GrowsStep DEF IInv, EveryCallOK
  <2>1. /\ At(c, "sending") /\ call[c].kind # "stream"
        /\ Moved(c, "reporting", outcome)
        /\ got' = got /\ late' = late
        /\ pending' = pending \ {c}
    BY <1>10, Moves DEF Answer, At, shared, history
  <2>2. ASSUME NEW d \in Calls, d # c PROVE CallOK(d)'
    BY <2>0, <2>1, <2>2, CallKept DEF Moved, IInv, EveryCallOK
  <2>3. Owner(c)' /\ LastLate(c)'
    BY <2>0, <2>1, Advances DEF PCs, At
  <2>4. Event(c)'
    BY <2>0, <2>1 DEF CallOK, Event, Owner, Moved, At
  <2>5. UnderWay(c)'
    BY <2>0, <2>1
    DEF CallOK, Event, Owner, UnderWay, Opening, Moved, Grows, At
  <2>6. Settled(c)'
    BY <2>0, <2>1 DEF Settled, Moved, At
  <2>7. Entered(c)'
    BY <2>0, <2>1 DEF CallOK, Event, Entered, Owner, Moved, Grows, At
  <2> QED
    BY <2>2, <2>3, <2>4, <2>5, <2>6, <2>7 DEF EveryCallOK, CallOK
<1>11. ASSUME NEW c \in Calls, Refuse(c) PROVE EveryCallOK'
  <2>0. CallOK(c) /\ HandlesOK /\ CallsOK /\ Grows
    BY GrowsStep DEF IInv, EveryCallOK
  <2>1. /\ At(c, "spawned") /\ call[c].kind # "stream"
        /\ Moved(c, "reporting", "error")
        /\ got' = got /\ late' = late
        /\ pending' = pending \ {c}
    BY <1>11, Moves DEF Refuse, At, shared, history
  <2>2. ASSUME NEW d \in Calls, d # c PROVE CallOK(d)'
    BY <2>0, <2>1, <2>2, CallKept DEF Moved, IInv, EveryCallOK
  <2>3. Owner(c)' /\ LastLate(c)'
    BY <2>0, <2>1, Advances DEF PCs, At
  <2>4. Event(c)'
    BY <2>0, <2>1 DEF CallOK, Event, Owner, Moved, At
  <2>5. UnderWay(c)'
    BY <2>0, <2>1
    DEF CallOK, Event, Owner, UnderWay, Opening, Moved, Grows, At
  <2>6. Settled(c)'
    BY <2>0, <2>1 DEF Settled, Moved, At
  <2>7. Entered(c)'
    BY <2>0, <2>1 DEF CallOK, Event, Entered, Owner, Moved, Grows, At
  <2> QED
    BY <2>2, <2>3, <2>4, <2>5, <2>6, <2>7 DEF EveryCallOK, CallOK
<1>12. ASSUME NEW c \in Calls, Misdirected(c) PROVE EveryCallOK'
  <2>0. CallOK(c) /\ HandlesOK /\ CallsOK /\ Grows
    BY GrowsStep DEF IInv, EveryCallOK
  <2>1. /\ At(c, "sending") /\ call[c].kind = "plain"
        /\ Moved(c, "spawned", call[c].event)
        /\ got' = got /\ late' = late
        /\ pending' = pending
    BY <1>12, Moves DEF Misdirected, At, shared, history
  <2>2. ASSUME NEW d \in Calls, d # c PROVE CallOK(d)'
    BY <2>0, <2>1, <2>2, CallKept DEF Moved, IInv, EveryCallOK
  <2>3. Owner(c)' /\ LastLate(c)'
    BY <2>0, <2>1, Advances DEF PCs, At
  <2>4. Event(c)'
    BY <2>0, <2>1 DEF CallOK, Event, Owner, Moved, At
  <2>5. UnderWay(c)'
    BY <2>0, <2>1
    DEF CallOK, Event, Owner, UnderWay, Opening, Moved, Grows, At
  <2>6. Settled(c)'
    BY <2>0, <2>1 DEF Settled, Moved, At
  <2>7. Entered(c)'
    BY <2>0, <2>1 DEF CallOK, Event, Entered, Owner, Moved, Grows, At
  <2> QED
    BY <2>2, <2>3, <2>4, <2>5, <2>6, <2>7 DEF EveryCallOK, CallOK
<1>13. ASSUME NEW c \in Calls, Die(c) PROVE EveryCallOK'
  <2>0. CallOK(c) /\ HandlesOK /\ CallsOK /\ Grows
    BY GrowsStep DEF IInv, EveryCallOK
  <2>8. call[c].pc \notin {"idle", "done"} => call[c].client \in Clients
    BY <2>0, FfiAssumption DEF CallOK, Owner, CallsOK, CallType, Clients
  <2>1. /\ call[c].pc \in {"spawned", "sending"} /\ call[c].kind # "stream"
        /\ Moved(c, "done", "none")
        /\ got' = got /\ late' = late
        /\ pending' \subseteq pending
        /\ adaptive'[call[c].client] = "poisoned"
    BY <1>13, <2>0, <2>8, Moves DEF Die, At, IInv, ClientsOK, shared, history
  <2>2. ASSUME NEW d \in Calls, d # c PROVE CallOK(d)'
    BY <2>0, <2>1, <2>2, CallKept DEF Moved, IInv, EveryCallOK
  <2>3. Owner(c)' /\ LastLate(c)'
    BY <2>0, <2>1, Advances DEF PCs, At
  <2>4. Event(c)'
    BY <2>0, <2>1 DEF CallOK, Event, Owner, Moved, At
  <2>5. UnderWay(c)'
    BY <2>0, <2>1
    DEF CallOK, Event, Owner, UnderWay, Opening, Moved, Grows, At
  <2>6. Settled(c)'
    BY <2>0, <2>1
    DEF CallOK, Owner, UnderWay, Settled, Opening, Excused, Moved, At
  <2>7. Entered(c)'
    BY <2>0, <2>1 DEF CallOK, Event, Entered, Owner, Moved, Grows, At
  <2> QED
    BY <2>2, <2>3, <2>4, <2>5, <2>6, <2>7 DEF EveryCallOK, CallOK
<1>14. ASSUME NEW c \in Calls, StreamFails(c) PROVE EveryCallOK'
  <2>0. CallOK(c) /\ HandlesOK /\ CallsOK /\ Grows
    BY GrowsStep DEF IInv, EveryCallOK
  <2>1. /\ At(c, "sending") /\ call[c].kind = "stream"
        /\ Moved(c, "done", "none")
        /\ got' = got /\ late' = late
        /\ pending' = pending
    BY <1>14, Moves DEF StreamFails, At, shared, history
  <2>2. ASSUME NEW d \in Calls, d # c PROVE CallOK(d)'
    BY <2>0, <2>1, <2>2, CallKept DEF Moved, IInv, EveryCallOK
  <2>3. Owner(c)' /\ LastLate(c)'
    BY <2>0, <2>1, Advances DEF PCs, At
  <2>4. Event(c)'
    BY <2>0, <2>1 DEF CallOK, Event, Owner, Moved, At
  <2>5. UnderWay(c)'
    BY <2>0, <2>1
    DEF CallOK, Event, Owner, UnderWay, Opening, Moved, Grows, At
  <2>6. Settled(c)'
    BY <2>0, <2>1 DEF CallOK, UnderWay, Settled, Opening, Excused, Moved, At
  <2>7. Entered(c)'
    BY <2>0, <2>1 DEF CallOK, Event, Entered, Owner, Moved, Grows, At
  <2> QED
    BY <2>2, <2>3, <2>4, <2>5, <2>6, <2>7 DEF EveryCallOK, CallOK
<1>15. ASSUME NEW c \in Calls, StreamHeaders(c) PROVE EveryCallOK'
  <2>0. CallOK(c) /\ HandlesOK /\ CallsOK /\ Grows
    BY GrowsStep DEF IInv, EveryCallOK
  <2>1. /\ At(c, "sending") /\ call[c].kind = "stream"
        /\ Moved(c, "reporting", "headers")
        /\ got' = got /\ late' = late
        /\ pending' = pending
    BY <1>15, Moves DEF StreamHeaders, At, shared, history
  <2>2. ASSUME NEW d \in Calls, d # c PROVE CallOK(d)'
    BY <2>0, <2>1, <2>2, CallKept DEF Moved, IInv, EveryCallOK
  <2>3. Owner(c)' /\ LastLate(c)'
    BY <2>0, <2>1, Advances DEF PCs, At
  <2>4. Event(c)'
    BY <2>0, <2>1 DEF CallOK, Event, Owner, Moved, At
  <2>5. UnderWay(c)'
    BY <2>0, <2>1
    DEF CallOK, Event, Owner, UnderWay, Opening, Moved, Grows, At
  <2>6. Settled(c)'
    BY <2>0, <2>1 DEF Settled, Moved, At
  <2>7. Entered(c)'
    BY <2>0, <2>1 DEF CallOK, Event, Entered, Owner, Moved, Grows, At
  <2> QED
    BY <2>2, <2>3, <2>4, <2>5, <2>6, <2>7 DEF EveryCallOK, CallOK
<1>16. ASSUME NEW c \in Calls, StreamChunk(c) PROVE EveryCallOK'
  <2>0. CallOK(c) /\ HandlesOK /\ CallsOK /\ Grows
    BY GrowsStep DEF IInv, EveryCallOK
  <2>1. /\ At(c, "streaming")
        /\ Moved(c, "reporting", "chunk")
        /\ got' = got /\ late' = late
        /\ pending' = pending
    BY <1>16, Moves DEF StreamChunk, At, shared, history
  <2>2. ASSUME NEW d \in Calls, d # c PROVE CallOK(d)'
    BY <2>0, <2>1, <2>2, CallKept DEF Moved, IInv, EveryCallOK
  <2>3. Owner(c)' /\ LastLate(c)'
    BY <2>0, <2>1, Advances DEF PCs, At
  <2>4. Event(c)'
    BY <2>0, <2>1 DEF CallOK, Event, Owner, Moved, At
  <2>5. UnderWay(c)'
    BY <2>0, <2>1
    DEF CallOK, Event, Owner, UnderWay, Opening, Moved, Grows, At
  <2>6. Settled(c)'
    BY <2>0, <2>1 DEF Settled, Moved, At
  <2>7. Entered(c)'
    BY <2>0, <2>1 DEF CallOK, Event, Entered, Owner, Moved, Grows, At
  <2> QED
    BY <2>2, <2>3, <2>4, <2>5, <2>6, <2>7 DEF EveryCallOK, CallOK
<1>17. ASSUME NEW c \in Calls, NEW event \in {"done", "error"},
              StreamEnds(c, event)
       PROVE  EveryCallOK'
  <2>0. CallOK(c) /\ HandlesOK /\ CallsOK /\ Grows
    BY GrowsStep DEF IInv, EveryCallOK
  <2>1. /\ At(c, "streaming")
        /\ Moved(c, "reporting", event)
        /\ got' = got /\ late' = late
        /\ pending' = pending
    BY <1>17, Moves DEF StreamEnds, At, shared, history
  <2>2. ASSUME NEW d \in Calls, d # c PROVE CallOK(d)'
    BY <2>0, <2>1, <2>2, CallKept DEF Moved, IInv, EveryCallOK
  <2>3. Owner(c)' /\ LastLate(c)'
    BY <2>0, <2>1, Advances DEF PCs, At
  <2>4. Event(c)'
    BY <2>0, <2>1 DEF CallOK, Event, Owner, Moved, At
  <2>5. UnderWay(c)'
    BY <2>0, <2>1
    DEF CallOK, Event, Owner, UnderWay, Opening, Moved, Grows, At
  <2>6. Settled(c)'
    BY <2>0, <2>1 DEF Settled, Moved, At
  <2>7. Entered(c)'
    BY <2>0, <2>1 DEF CallOK, Event, Entered, Owner, Moved, Grows, At
  <2> QED
    BY <2>2, <2>3, <2>4, <2>5, <2>6, <2>7 DEF EveryCallOK, CallOK
<1>18. ASSUME NEW c \in Calls, CancelRequest(c) PROVE EveryCallOK'
  <2>1. /\ call' = call /\ got' = got /\ late' = late
        /\ pending' \subseteq pending
    BY <1>18 DEF CancelRequest, shared, history
  <2> QED
    BY <2>1, GrowsStep, CallKept DEF IInv, EveryCallOK
<1>19. ASSUME NEW id \in Ids, CancelAll(id) PROVE EveryCallOK'
  <2>1. /\ call' = call /\ got' = got /\ late' = late
        /\ pending' \subseteq pending
    BY <1>19 DEF CancelAll, CancelClient, shared, history
  <2> QED
    BY <2>1, GrowsStep, CallKept DEF IInv, EveryCallOK
<1>20. ASSUME NEW id \in Ids, DestroyMark(id) PROVE EveryCallOK'
  <2>1. /\ call' = call /\ got' = got /\ late' = late
        /\ pending' \subseteq pending
    BY <1>20 DEF DestroyMark, shared, history
  <2> QED
    BY <2>1, GrowsStep, CallKept DEF IInv, EveryCallOK
<1>21. ASSUME NEW id \in Ids, DestroyCancel(id) PROVE EveryCallOK'
  <2>1. /\ call' = call /\ got' = got /\ late' = late
        /\ pending' \subseteq pending
    BY <1>21 DEF DestroyCancel, CancelClient, shared, history
  <2> QED
    BY <2>1, GrowsStep, CallKept DEF IInv, EveryCallOK
<1>22. ASSUME NEW id \in Ids, DestroyRemove(id) PROVE EveryCallOK'
  <2>1. /\ call' = call /\ got' = got /\ late' = late
        /\ pending' \subseteq pending
    BY <1>22 DEF DestroyRemove, shared, history
  <2> QED
    BY <2>1, GrowsStep, CallKept DEF IInv, EveryCallOK
<1>23. ASSUME NEW id \in Ids, NEW setting \in {"good", "bad"},
              Configure(id, setting)
       PROVE  EveryCallOK'
  <2>1. /\ call' = call /\ got' = got /\ late' = late
        /\ pending' \subseteq pending
    BY <1>23 DEF Configure, shared, history
  <2> QED
    BY <2>1, GrowsStep, CallKept DEF IInv, EveryCallOK
<1>24. ASSUME NEW k \in Clients, Poison(k) PROVE EveryCallOK'
  <2>1. /\ call' = call /\ got' = got /\ late' = late
        /\ pending' \subseteq pending
    BY <1>24 DEF Poison, shared, history
  <2> QED
    BY <2>1, GrowsStep, CallKept DEF IInv, EveryCallOK
<1>25. CASE UNCHANGED vars
  <2>1. /\ call' = call /\ got' = got /\ late' = late
        /\ pending' \subseteq pending
    BY <1>25 DEF vars, shared, history
  <2> QED
    BY <2>1, GrowsStep, CallKept DEF IInv, EveryCallOK
<1> QED
  BY <1>1, <1>2, <1>3, <1>4, <1>5, <1>6, <1>7, <1>8, <1>9, <1>10, <1>11,
     <1>12, <1>13, <1>14, <1>15, <1>16, <1>17, <1>18, <1>19, <1>20, <1>21,
     <1>22, <1>23, <1>24, <1>25
  DEF Next, Host, Task, Server, Destroy, Execute, Multipart,
      ExecuteWithId, ExecuteStream, NapiExecute, NapiExecuteStream

-----------------------------------------------------------------------------
(* The theorems.                                                           *)

\* The inductive invariant holds in every reachable state.
THEOREM Inductive == Spec => []IInv
<1>1. IInv /\ [Next]_vars => IInv'
  BY HandlesStep, ClientsStep, CallsStep, EveryCallStep DEF IInv
<1> QED
  BY InvInit, <1>1, PTL DEF Spec

\* However many calls there are and whenever their handles are destroyed, each
\* calls back at most once after destroy has returned.
THEOREM OneLateCallback == Spec => []LateAtMostOnce
<1>1. IInv => LateAtMostOnce
  BY DEF IInv, EveryCallOK, CallOK, LastLate, LateAtMostOnce
<1> QED
  BY Inductive, <1>1, PTL

\* What StreamShape says of the events of one stream.
LEMMA StreamForm ==
    ASSUME NEW s \in Seq(Events), Closed(s) \/ Opening(s), NEW i \in DOMAIN s
    PROVE  /\ s[i] = "headers" <=> (i = 1 /\ s # <<"error">>)
           /\ s[i] \in Terminal => i = Len(s)
<1>0. Len(<<"error">>) = 1 /\ <<"error">>[1] = "error"
  OBVIOUS
<1>1. CASE Closed(s) /\ Len(s) = 1
  <2>1. s = <<"error">>
    BY <1>1 DEF Closed
  <2> QED
    BY <2>1, <1>1 DEF Closed, Complete
<1>2. CASE Closed(s) /\ Len(s) # 1
  <2>1. Len(s) \in Nat /\ Len(s) # 0
    BY <1>2 DEF Closed, Complete
  <2>2. Len(s) > 1
    <3>1. \A n \in Nat : n # 0 /\ n # 1 => n > 1
      OBVIOUS
    <3> QED
      BY <1>2, <2>1, <3>1
  <2>3. s # <<"error">>
    BY <1>0, <1>2
  <2> QED
    BY <1>2, <2>2, <2>3 DEF Closed, Complete
<1>3. CASE Opening(s)
  <2>1. s # <<"error">>
    BY <1>0, <1>3 DEF Opening
  <2> QED
    BY <1>3, <2>1 DEF Opening, Terminal
<1> QED
  BY <1>1, <1>2, <1>3

\* A call that is over was answered once, in due form and by its own client, or
\* has one of the three reasons not to be; and its entry is gone, or has one of
\* the four reasons to be left.
THEOREM CallsAlwaysSettled == Spec => []CallsSettled
<1> USE DEF IInv, EveryCallOK, CallOK
<1>1. IInv => TypeOK
  <2> SUFFICES ASSUME IInv PROVE TypeOK
    OBVIOUS
  <2>1. \A id \in DOMAIN registry : registry[id] \in Clients
    BY FfiAssumption DEF HandlesOK, Issued, Clients
  <2>2. current \in [Clients -> 0..(MaxCancelAlls + 1)]
    BY FfiAssumption DEF ClientsOK
  <2>3. \A c \in Calls : got[c] \in Seq(Events) /\ late[c] \in Nat
    BY DEF CallsOK
  <2>4. pending \subseteq {c \in Calls : HasEntry(c)}
    BY DEF CallsOK, Entered, HasEntry
  <2> QED
    BY <2>1, <2>2, <2>3, <2>4, Zenon DEF HandlesOK, CallsOK, ClientsOK, TypeOK
<1>2. IInv => AnsweredOnce
  <2> SUFFICES ASSUME IInv, NEW c \in Calls, At(c, "done")
               PROVE  \/ Cardinality(Answers(c)) = 1
                      \/ Answers(c) = {} /\ Excused(c)
    BY DEF AnsweredOnce, Excused
  <2>1. CASE Complete(got[c])
    <3>1. Answers(c) = {Len(got[c])}
      BY <2>1 DEF Complete, Answers, CallsOK
    <3> QED
      BY <3>1, FS_Singleton
  <2>2. CASE Opening(got[c]) /\ Excused(c)
    BY <2>2 DEF Opening, Answers, Terminal
  <2> QED
    BY <2>1, <2>2 DEF Settled, Closed
<1>3. IInv => StreamShape
  <2> SUFFICES ASSUME IInv, NEW c \in Calls, call[c].kind = "stream",
                      NEW i \in DOMAIN got[c]
               PROVE  /\ got[c][i] = "headers" <=>
                           (i = 1 /\ got[c] # <<"error">>)
                      /\ got[c][i] \in Terminal => i = Len(got[c])
    BY DEF StreamShape
  <2>0. got[c] \in Seq(Events)
    BY DEF CallsOK
  <2>1. Closed(got[c]) \/ Opening(got[c])
    BY DEF Settled, UnderWay
  <2> QED
    BY <2>0, <2>1, StreamForm
<1>4. IInv => RightClient
  BY DEF Owner, RightClient
<1>5. IInv => EntriesOfCalls
  BY DEF Entered, EntriesOfCalls, CallsOK
<1>6. IInv => CallsSettled
  BY <1>1, <1>2, <1>3, <1>4, <1>5 DEF CallsSettled
<1> QED
  BY Inductive, <1>6, PTL
=============================================================================

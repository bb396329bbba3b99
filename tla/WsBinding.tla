----------------------------- MODULE WsBinding ------------------------------
(***************************************************************************)
(* A WebSocket client as hosts see it, through the C interface             *)
(* (packages/catcher-ws/src/ffi/ws_ffi.rs), the Node binding               *)
(* (packages/catcher-napi-ws/src/lib.rs) and the UniFFI binding            *)
(* (packages/catcher-uniffi/src/lib.rs).  A task per client connects and   *)
(* forwards the events of the connection to the host's callback, while the *)
(* host's threads send, close and destroy.                                 *)
(*                                                                         *)
(* The connection itself, module WsConnection, is reduced to when it       *)
(* starts, sends an event and ends.  registry is WS_REGISTRY for C, the    *)
(* handle field of JsWsClient for Node, and the WsClient object for UniFFI.*)
(***************************************************************************)
EXTENDS HandleRegistry, Integers

CONSTANTS
    MaxClients,  \* bound: clients that the host creates
    MaxEvents    \* bound: events that a connection sends

ASSUME WsBindingAssumption == MaxClients \in Nat /\ MaxEvents \in Nat \ {0}

VARIABLES
    binding,    \* "c", "napi" or "uniffi", never changed
    marked,     \* cancelled_ws_ids
    task,       \* where each client's task is
    conn,       \* the connection of each client
    sent,       \* how many events it has sent
    queue,      \* how many of them the task has not received
    closing,    \* clients whose connection was sent a Close command
    aborted,    \* clients whose task was aborted
    destroyer,  \* where the call that destroys each client is
    inside,     \* the client in whose callback that call was made, or 0
    \* History, read by no action:
    late,       \* callbacks begun after destroy had returned
    busy,       \* clients whose task was past its test when they were ended
    strays      \* clients that took a command after destroy had returned

connection == <<conn, sent, queue>>
history == <<late, busy, strays>>
vars == <<binding, handleVars, marked, task, connection, closing, aborted,
          destroyer, inside, history>>

Clients == 1..MaxClients

Tasks == {"none", "connecting", "connected", "clear", "failed", "forwarding",
          "running", "calling", "reporting", "leaving", "ended"}

Init ==
    /\ binding \in {"c", "napi", "uniffi"}
    /\ RegistryInit
    /\ marked = {} /\ closing = {} /\ aborted = {}
    /\ task = [k \in Clients |-> "none"]
    /\ conn = [k \in Clients |-> "none"]
    /\ sent = [k \in Clients |-> 0] /\ queue = sent
    /\ destroyer = [k \in Clients |-> "no"]
    /\ inside = [k \in Clients |-> 0]
    /\ late = [k \in Clients |-> 0] /\ busy = {}
    /\ strays = {}

Goto(k, place) == task' = [task EXCEPT ![k] = place]

-----------------------------------------------------------------------------
(* The lock of cancelled_ws_ids.  A callback of the C interface runs under *)
(* the read lock; std's RwLock lets no reader pass a waiting writer.       *)

Calling(k) == task[k] \in {"calling", "reporting"}
CanRead == \A k \in Clients : destroyer[k] # "waiting"
CanWrite == \A k \in Clients : ~Calling(k)

-----------------------------------------------------------------------------
(* The task.                                                               *)

\* catcher_ws_create, and the constructors; a configuration that cannot be read
\* or has no url is refused before anything else.
Create ==
    /\ nextId <= MaxClients /\ TakeId /\ Goto(nextId, "connecting")
    /\ UNCHANGED <<binding, registry, marked, connection, closing, aborted,
                   destroyer, inside, history>>

\* WsTransport::connect returns, and has started the connection's manager.
ConnectOk(k) ==
    /\ task[k] = "connecting" /\ Goto(k, "connected")
    /\ conn' = [conn EXCEPT ![k] = "starting"]
    /\ UNCHANGED <<binding, handleVars, marked, sent, queue, closing, aborted,
                   destroyer, inside, history>>

\* The constructor of the UniFFI binding waits for the connection and returns
\* its error.
ConnectErr(k) ==
    /\ task[k] = "connecting"
    /\ Goto(k, IF binding = "uniffi" THEN "ended" ELSE "failed")
    /\ UNCHANGED <<binding, handleVars, marked, connection, closing, aborted,
                   destroyer, inside, history>>

\* is_ws_cancelled: the client was destroyed while it connected.  The lock is
\* released before the entry is made.
IsCancelled(k) ==
    /\ task[k] = "connected" /\ binding = "c" /\ CanRead
    /\ IF k \in marked THEN Goto(k, "ended") /\ closing' = closing \cup {k}
                       ELSE Goto(k, "clear") /\ UNCHANGED closing
    /\ UNCHANGED <<binding, handleVars, marked, connection, aborted,
                   destroyer, inside, history>>

\* The handle is stored; UniFFI's constructor spawns the task and returns.
Register(k) ==
    /\ task[k] = IF binding = "c" THEN "clear" ELSE "connected"
    /\ InsertWithId(k, k) /\ Goto(k, "forwarding")
    /\ UNCHANGED <<binding, nextId, marked, connection, closing, aborted,
                   destroyer, inside, history>>

\* The host is called, unless the client is marked.
Invoke(k, place) ==
    IF binding = "c" /\ k \in marked
    THEN Goto(k, "leaving") /\ UNCHANGED late
    ELSE /\ Goto(k, place)
         /\ late' = IF destroyer[k] = "returned"
                    THEN [late EXCEPT ![k] = @ + 1] ELSE late

\* rx.recv() has an event.  A task that is "running" goes on within the poll
\* that has just made a callback.
Receive(k) ==
    /\ task[k] \in {"forwarding", "running"} /\ queue[k] > 0
    /\ binding = "c" => CanRead
    /\ queue' = [queue EXCEPT ![k] = @ - 1]
    /\ Invoke(k, "calling")
    /\ UNCHANGED <<binding, handleVars, marked, conn, sent, closing, aborted,
                   destroyer, inside, busy, strays>>

\* The error of connect is reported as an event.
ReportError(k) ==
    /\ task[k] = "failed"
    /\ binding = "c" => CanRead
    /\ Invoke(k, "reporting")
    /\ UNCHANGED <<binding, handleVars, marked, connection, closing, aborted,
                   destroyer, inside, busy, strays>>

\* The callback returns, unless it waits in destroy.
CallbackReturns(k) ==
    /\ Calling(k)
    /\ \A j \in Clients : inside[j] = k => destroyer[j] = "returned"
    /\ Goto(k, IF task[k] = "calling" THEN "running" ELSE "ended")
    /\ UNCHANGED <<binding, handleVars, marked, connection, closing, aborted,
                   destroyer, inside, history>>

\* The poll ends, with nothing to receive or because the task has used up its
\* budget.  An abort takes effect here.
Suspend(k) ==
    /\ task[k] = "running"
    /\ Goto(k, IF k \in aborted THEN "ended" ELSE "forwarding")
    /\ UNCHANGED <<binding, handleVars, marked, connection, closing, aborted,
                   destroyer, inside, history>>

\* rx.recv() returns None.
EventsEnd(k) ==
    /\ task[k] \in {"forwarding", "running"} /\ queue[k] = 0
    /\ conn[k] = "ended"
    /\ Goto(k, "leaving")
    /\ UNCHANGED <<binding, handleVars, marked, connection, closing, aborted,
                   destroyer, inside, history>>

\* Mutant: the entry is left behind.
LeaveEntry(k) ==
    /\ task[k] = "leaving" /\ Goto(k, "ended")
    /\ UNCHANGED <<binding, handleVars, marked, connection, closing, aborted,
                   destroyer, inside, history>>

\* WS_REGISTRY.remove(id); the other bindings keep the handle.
Leave(k) ==
    /\ task[k] = "leaving" /\ Goto(k, "ended")
    /\ IF binding = "c" THEN RemoveId(k) ELSE UNCHANGED registry
    /\ UNCHANGED <<binding, nextId, marked, connection, closing, aborted,
                   destroyer, inside, history>>

-----------------------------------------------------------------------------
(* The connection's manager.                                               *)

\* Some WsHandle is alive: stored, or still with the task.
HandleAlive(k) == Has(k) \/ task[k] \in {"connected", "clear"}

\* Connected is sent before any command is taken.
Start(k) ==
    /\ conn[k] = "starting" /\ conn' = [conn EXCEPT ![k] = "open"]
    /\ sent' = [sent EXCEPT ![k] = @ + 1]
    /\ queue' = [queue EXCEPT ![k] = @ + 1]
    /\ UNCHANGED <<binding, handleVars, marked, task, closing, aborted,
                   destroyer, inside, history>>

\* An event of any kind; the last is sent when the connection is lost and
\* cannot be restored.
SendEvent(k, last) ==
    /\ conn[k] = "open" /\ sent[k] < MaxEvents
    /\ conn' = [conn EXCEPT ![k] = IF last THEN "ended" ELSE "open"]
    /\ sent' = [sent EXCEPT ![k] = @ + 1]
    /\ queue' = [queue EXCEPT ![k] = @ + 1]
    /\ UNCHANGED <<binding, handleVars, marked, task, closing, aborted,
                   destroyer, inside, history>>

\* A Close command, or None when no handle is left.
End(k) ==
    /\ conn[k] = "open"
    /\ k \in closing \/ ~HandleAlive(k)
    /\ conn' = [conn EXCEPT ![k] = "ended"]
    /\ UNCHANGED <<binding, handleVars, marked, task, sent, queue, closing,
                   aborted, destroyer, inside, history>>

-----------------------------------------------------------------------------
(* The host.                                                               *)

\* The handle takes a command of the host: there is one, and the manager still
\* has its end of the channel.  Otherwise the host gets an error and nothing
\* happens.
Accept(k) ==
    /\ Has(k) /\ conn[k] # "ended"
    /\ strays' = IF destroyer[k] = "returned" THEN strays \cup {k} ELSE strays
    /\ UNCHANGED <<binding, handleVars, marked, task, connection, closing,
                   aborted, destroyer, inside, late, busy>>

\* catcher_ws_send_text and _binary; catcher_ws_network_changed.
CSend(k) == binding = "c" /\ Accept(k)
CNetworkChanged(k) == binding = "c" /\ Accept(k)

\* JsWsClient and WsClient: send, send_binary, network_changed.
NapiCommand(k) == binding = "napi" /\ Accept(k)
UniffiCommand(k) == binding = "uniffi" /\ Accept(k)

\* close.  Without a handle, C and Node report no error.
Close(k) ==
    /\ k < nextId /\ (binding = "uniffi" => Has(k))
    /\ closing' = IF Has(k) THEN closing \cup {k} ELSE closing
    /\ UNCHANGED <<binding, handleVars, marked, task, connection, aborted,
                   destroyer, inside, history>>

\* catcher_ws_destroy begins, on a thread of the host or in a callback that
\* client j is making.  Only the C interface has it.
Destroy(k, j) ==
    /\ binding = "c" /\ k < nextId /\ destroyer[k] = "no"
    /\ j # 0 => Calling(j)
    /\ destroyer' = [destroyer EXCEPT ![k] = "waiting"]
    /\ inside' = [inside EXCEPT ![k] = j]
    /\ UNCHANGED <<binding, handleVars, marked, task, connection, closing,
                   aborted, history>>

\* Mutant: the client is marked under the read lock.
MarkShared(k) ==
    /\ destroyer[k] = "waiting" /\ marked' = marked \cup {k}
    /\ destroyer' = [destroyer EXCEPT ![k] = "marked"]
    /\ busy' = IF task[k] = "clear" THEN busy \cup {k} ELSE busy
    /\ UNCHANGED <<binding, handleVars, task, connection, closing, aborted,
                   inside, late, strays>>

\* Mutant: the forwarding loop keeps the read lock from event to event.
MarkAfterLoop(k) ==
    /\ destroyer[k] = "waiting" /\ CanWrite
    /\ \A j \in Clients : task[j] \notin {"forwarding", "running"}
    /\ marked' = marked \cup {k}
    /\ destroyer' = [destroyer EXCEPT ![k] = "marked"]
    /\ busy' = IF task[k] = "clear" THEN busy \cup {k} ELSE busy
    /\ UNCHANGED <<binding, handleVars, task, connection, closing, aborted,
                   inside, late, strays>>

\* mark_ws_cancelled gets the write lock.
Mark(k) ==
    /\ destroyer[k] = "waiting" /\ CanWrite
    /\ marked' = marked \cup {k}
    /\ destroyer' = [destroyer EXCEPT ![k] = "marked"]
    /\ busy' = IF task[k] = "clear" THEN busy \cup {k} ELSE busy
    /\ UNCHANGED <<binding, handleVars, task, connection, closing, aborted,
                   inside, late, strays>>

\* The entry is removed and, if there was one, its connection closed.
DestroyRemove(k) ==
    /\ destroyer[k] = "marked" /\ RemoveId(k)
    /\ closing' = IF Has(k) THEN closing \cup {k} ELSE closing
    /\ destroyer' = [destroyer EXCEPT ![k] = "returned"]
    /\ UNCHANGED <<binding, nextId, marked, task, connection, aborted, inside,
                   history>>

\* Drop for WsClient: close, then abort.  A task that is between two polls ends
\* here, one that is running ends with its poll.
Drop(k) ==
    /\ binding = "uniffi" /\ Has(k) /\ RemoveId(k)
    /\ closing' = closing \cup {k} /\ aborted' = aborted \cup {k}
    /\ IF task[k] = "forwarding"
       THEN Goto(k, "ended") /\ UNCHANGED busy
       ELSE UNCHANGED task /\ busy' = busy \cup {k}
    /\ destroyer' = [destroyer EXCEPT ![k] = "returned"]
    /\ UNCHANGED <<binding, nextId, marked, connection, inside, late, strays>>

-----------------------------------------------------------------------------
Task(k) ==
    \/ IsCancelled(k) \/ Register(k) \/ Receive(k) \/ ReportError(k)
    \/ CallbackReturns(k) \/ Suspend(k) \/ EventsEnd(k) \/ Leave(k)

Manager(k) == Start(k) \/ End(k)

Destroying(k) == Mark(k) \/ DestroyRemove(k)

Next ==
    \/ Create
    \/ \E k \in Clients :
          \/ Task(k) \/ Manager(k) \/ Destroying(k)
          \/ ConnectOk(k) \/ ConnectErr(k)
          \/ \E last \in BOOLEAN : SendEvent(k, last)
          \/ CSend(k) \/ CNetworkChanged(k) \/ NapiCommand(k) \/ UniffiCommand(k)
          \/ Close(k) \/ Drop(k)
          \/ \E j \in {0} \cup Clients : Destroy(k, j)

Spec == Init /\ [][Next]_vars

\* Tasks and threads that can go on do.  The host's callbacks return unless
\* they wait in destroy; nothing is assumed of the peer.
Fairness ==
    \A k \in Clients :
        WF_vars(Task(k)) /\ WF_vars(Manager(k)) /\ WF_vars(Destroying(k))

FairSpec == Spec /\ Fairness

-----------------------------------------------------------------------------
(* Properties.                                                             *)

\* Every variable holds values of its type.
TypeOK ==
    /\ binding \in {"c", "napi", "uniffi"}
    /\ nextId \in 1..(MaxClients + 1)
    /\ DOMAIN registry \subseteq Issued /\ marked \subseteq Issued
    /\ closing \subseteq Issued /\ aborted \subseteq Issued
    /\ task \in [Clients -> Tasks]
    /\ conn \in [Clients -> {"none", "starting", "open", "ended"}]
    /\ sent \in [Clients -> 0..MaxEvents] /\ queue \in [Clients -> 0..MaxEvents]
    /\ destroyer \in [Clients -> {"no", "waiting", "marked", "returned"}]
    /\ inside \in [Clients -> 0..MaxClients]
    /\ late \in [Clients -> 0..MaxEvents] /\ busy \subseteq Issued
    /\ strays \subseteq Issued

\* Once catcher_ws_destroy has returned, no callback of the client runs or will
\* begin: the host may free its user_data.
NoCallbackAfterDestroy ==
    \A k \in Clients :
        binding = "c" /\ destroyer[k] = "returned" =>
            ~Calling(k) /\ late[k] = 0

\* After a WsClient was dropped its observer is called only by a task that was
\* running already: it may still deliver every event that was waiting, because
\* an abort takes effect when the poll ends.
LateOnlyIfBusy ==
    \A k \in Clients : binding = "uniffi" /\ late[k] > 0 => k \in busy

\* A host that is told of an event can use the handle in its callback, unless
\* it has destroyed the client.
CallbackHasHandle ==
    \A k \in Clients :
        task[k] = "calling" => Has(k) \/ destroyer[k] # "no"

\* A callback that waits in destroy for the lock under which it runs.
SelfDeadlock ==
    \E k \in Clients : inside[k] # 0 /\ destroyer[k] = "waiting"

\* destroy returns, except when it is called in a callback, of whatever client:
\* that call and every later one wait for ever.
DestroyReturns ==
    \A k \in Clients :
        (destroyer[k] = "waiting") ~> (destroyer[k] = "returned" \/ SelfDeadlock)

\* A client that was destroyed or dropped ends up without a connection and
\* without an entry, also when destroy came between the task's look at the
\* marks and its insertion of the handle.
DestroyedEnds ==
    \A k \in Clients :
        (destroyer[k] = "returned")
            ~> []((conn[k] \in {"none", "ended"} /\ ~Has(k)) \/ SelfDeadlock)

\* A close that finds a handle ends the connection, whatever the binding and
\* whatever the task is doing.  One that comes while the client connects finds
\* none and is lost.
CloseEnds ==
    \A k \in Clients : (k \in closing) ~> [](conn[k] = "ended")

\* After destroy a handle is not found and takes no more commands, unless the
\* task was between its look at the marks and its entry when destroy came: the
\* entry it then makes serves the host until the next event.
RefusedAfterDestroy == strays \subseteq busy

\* Nothing passes a destroyed client: no callback after catcher_ws_destroy, only
\* those of the running poll after a drop, and no command but in the one race;
\* before that every callback has its handle.
DestroyedIsSilent ==
    /\ TypeOK /\ NoCallbackAfterDestroy /\ LateOnlyIfBusy
    /\ CallbackHasHandle /\ RefusedAfterDestroy

\* What the host has destroyed, dropped or closed ends.
ReleasedEnds == DestroyedEnds /\ CloseEnds
=============================================================================

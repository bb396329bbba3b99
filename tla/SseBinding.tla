----------------------------- MODULE SseBinding -----------------------------
(***************************************************************************)
(* Server-sent events as hosts see them: the C interface                   *)
(* (packages/catcher-http/src/ffi/sse_ffi.rs) and the Node binding         *)
(* (packages/catcher-napi-http/src/sse.rs), each with a one-shot stream    *)
(* (SseStream) and a client that reconnects (SseClient).  A task forwards  *)
(* the lines to the host's callback while threads of the host close,       *)
(* destroy and query.                                                      *)
(*                                                                         *)
(* The lines of a stream come from module SseStream, composed here; those  *)
(* of a client, whose own task module SseClient describes, come from the   *)
(* server at any time.  The handle of the C client is id 1.                *)
(***************************************************************************)
EXTENDS SseStream, HandleRegistry

CONSTANTS
    Ops,       \* calls that the host makes on the handle
    MaxLines   \* bound: lines of a client

ASSUME SseBindingAssumption ==
    MaxLines \in Nat /\ "task" \notin Ops /\ "nobody" \notin Ops

VARIABLES
    service,   \* "stream" or "client", never changed
    binding,   \* "c" or "napi", never changed
    task,      \* where the forwarding task is
    event,     \* the event that it is about to report
    lines,     \* how many lines a client has delivered
    lock,      \* who holds the client's lock: "task", an op, or "nobody"
    waiters,   \* who waits for it, in order
    op,        \* the state of each op
    kind,      \* what it is
    marked,    \* cancelled_sse_ids has the handle
    cancel,    \* the Node handle was closed or collected
    \* History, read by no action:
    got,       \* the events that the host received
    lateEvents, \* how many of them came after destroy had returned
    busy,      \* the task was about to call back when destroy returned
    waited     \* for each op, how many lines were read while it waited

rigid == <<service, binding>>
locking == <<lock, waiters>>
hosted == <<op, kind, marked, cancel>>
hostHistory == <<got, lateEvents, busy, waited>>
bindingVars == <<streamVars, handleVars, rigid, task, event, lines, locking,
                 hosted, hostHistory>>

Tasks == {"connecting", "opening", "top", "locking", "reading", "reporting",
          "calling", "ended"}
\* "refused" is the error of a connect, "error" that of a line.
Events == {"none", "open", "data", "error", "refused", "close"}
Kinds == {"query", "close", "destroy"}
Id == 1

BindingInit ==
    /\ StreamInit /\ RegistryInit
    /\ service \in {"stream", "client"} /\ binding \in {"c", "napi"}
    /\ task = "connecting" /\ event = "none" /\ lines = 0
    /\ lock = "nobody" /\ waiters = <<>>
    /\ op = [o \in Ops |-> "idle"] /\ kind = [o \in Ops |-> "query"]
    /\ marked = FALSE /\ cancel = FALSE
    /\ got = <<>> /\ lateEvents = 0 /\ busy = FALSE
    /\ waited = [o \in Ops |-> 0]

\* The C client alone has a lock, marks and a table of handles.
Guarded == service = "client" /\ binding = "c"

\* The task takes up an event to report.
Report(e) == task' = "reporting" /\ event' = e

-----------------------------------------------------------------------------
(* Connecting.                                                             *)

\* SseStream::connect returns its error: the one event there will be.  The
\* connect of a client does not fail.
ConnectErr ==
    /\ task = "connecting" /\ service = "stream"
    /\ Report("refused")
    /\ UNCHANGED <<streamVars, handleVars, rigid, lines, locking, hosted,
                   hostHistory>>

\* The C interface reports "open" first; the open of a client comes before its
\* request is sent and before there is a handle.
ConnectOk ==
    /\ task = "connecting"
    /\ IF binding = "c" THEN task' = "opening" /\ event' = "open"
                        ELSE task' = "reading" /\ UNCHANGED event
    /\ UNCHANGED <<streamVars, handleVars, rigid, lines, locking, hosted,
                   hostHistory>>

\* The callback returns; a client is inserted and its loop spawned.
Opened ==
    /\ task = "opening" /\ got' = Append(got, "open") /\ event' = "none"
    /\ IF Guarded THEN task' = "top" /\ Insert(Id)
                  ELSE task' = "reading" /\ UNCHANGED handleVars
    /\ UNCHANGED <<streamVars, rigid, lines, locking, hosted, lateEvents, busy,
                   waited>>

-----------------------------------------------------------------------------
(* The loop of the C client: the marks, the lock, a line, the callback.    *)

Top ==
    /\ task = "top"
    /\ IF marked THEN task' = "ended" /\ UNCHANGED waiters
       ELSE task' = "locking" /\ waiters' = Append(waiters, "task")
    /\ UNCHANGED <<streamVars, handleVars, rigid, event, lines, lock, hosted,
                   hostHistory>>

\* Mutant: the last that came is served first.
GrantLast ==
    /\ lock = "nobody" /\ waiters # <<>>
    /\ lock' = Last(waiters) /\ waiters' = Front(waiters)
    /\ task' = IF lock' = "task" THEN "reading" ELSE task
    /\ UNCHANGED <<streamVars, handleVars, rigid, event, lines, hosted,
                   hostHistory>>

\* tokio's Mutex is handed to the first that waits.
Grant ==
    /\ lock = "nobody" /\ waiters # <<>>
    /\ lock' = Head(waiters) /\ waiters' = Tail(waiters)
    /\ task' = IF lock' = "task" THEN "reading" ELSE task
    /\ UNCHANGED <<streamVars, handleVars, rigid, event, lines, hosted,
                   hostHistory>>

\* Mutant: the lock is kept while the host is called.
ReleaseKeeping == UNCHANGED lock

\* drop(c) once next_line has returned.
Release == lock' = IF lock = "task" THEN "nobody" ELSE lock

\* Every op that waits has waited for one more line.
CountLine ==
    waited' = [o \in Ops |-> IF op[o] = "waiting" THEN waited[o] + 1
                             ELSE waited[o]]

\* A line, or an error, of a client.  After close they still come.
ClientLine(e) ==
    /\ task = "reading" /\ service = "client" /\ lines < MaxLines
    /\ lines' = lines + 1 /\ Report(e) /\ Release /\ CountLine
    /\ UNCHANGED <<streamVars, handleVars, rigid, waiters, hosted, got,
                   lateEvents, busy>>

\* The client's task has ended: next_line returns None.
ClientEnds ==
    /\ task = "reading" /\ service = "client"
    /\ Report("close") /\ Release /\ CountLine
    /\ UNCHANGED <<streamVars, handleVars, rigid, lines, waiters, hosted, got,
                   lateEvents, busy>>

-----------------------------------------------------------------------------
(* The loop over a stream.                                                 *)

StreamData ==
    /\ task = "reading" /\ service = "stream" /\ TakeLine /\ Report("data")
    /\ UNCHANGED <<handleVars, rigid, lines, locking, hosted, hostHistory>>

\* The body breaks off.  The next poll finds its end.
StreamError ==
    /\ task = "reading" /\ service = "stream" /\ ReadFails /\ Report("error")
    /\ UNCHANGED <<handleVars, rigid, lines, locking, hosted, hostHistory>>

StreamOver ==
    /\ task = "reading" /\ service = "stream" /\ NothingLeft
    /\ Report("close")
    /\ UNCHANGED <<streamVars, handleVars, rigid, lines, locking, hosted,
                   hostHistory>>

\* The body goes on or ends while the task waits in poll_next.
Network ==
    /\ task = "reading" /\ service = "stream"
    /\ BodyEnds \/ \E bytes \in Chunks : Chunk(bytes)
    /\ UNCHANGED <<handleVars, rigid, task, event, lines, locking, hosted,
                   hostHistory>>

-----------------------------------------------------------------------------
(* Reporting.                                                              *)

\* Where the loop goes after an event.  The C stream ends with an error.
After ==
    CASE event \in {"close", "refused"} -> "ended"
      [] event = "error" /\ service = "stream" /\ binding = "c" -> "ended"
      [] OTHER -> IF Guarded THEN "top" ELSE "reading"

\* Mutant: the marks are looked at in the loop only.
CheckNothing ==
    /\ task = "reporting" /\ task' = "calling"
    /\ UNCHANGED <<streamVars, handleVars, rigid, event, lines, locking,
                   hosted, hostHistory>>

\* invoke_sse_callback_if_active; nothing else looks at the marks.
Check ==
    /\ task = "reporting"
    /\ IF Guarded /\ marked THEN task' = "ended" /\ event' = "none"
                            ELSE task' = "calling" /\ UNCHANGED event
    /\ UNCHANGED <<streamVars, handleVars, rigid, lines, locking, hosted,
                   hostHistory>>

Returned(o) == op[o] = "returned" /\ kind[o] = "destroy"

Callback ==
    /\ task = "calling" /\ task' = After /\ event' = "none"
    /\ got' = Append(got, event)
    /\ lateEvents' = IF \E o \in Ops : Returned(o) THEN lateEvents + 1
                                                    ELSE lateEvents
    /\ UNCHANGED <<streamVars, handleVars, rigid, lines, locking, hosted,
                   busy, waited>>

\* select! takes the cancellation, which is polled between lines.
Cancelled ==
    /\ task = "reading" /\ binding = "napi" /\ cancel
    /\ Report("close")
    /\ UNCHANGED <<streamVars, handleVars, rigid, lines, locking, hosted,
                   hostHistory>>

-----------------------------------------------------------------------------
(* The host.                                                               *)

\* close() of JsSseStream and JsSseClient, or the end of the object.
NapiClose ==
    /\ binding = "napi" /\ ~cancel /\ cancel' = TRUE
    /\ UNCHANGED <<streamVars, handleVars, rigid, task, event, lines, locking,
                   op, kind, marked, hostHistory>>

\* ready_state and last_event_id, close, destroy: destroy marks the handle,
\* then all look it up and wait for the lock, or return if it has no entry.
Call(o, k) ==
    /\ Guarded /\ Id \in Issued /\ op[o] = "idle"
    /\ kind' = [kind EXCEPT ![o] = k]
    /\ marked' = (marked \/ k = "destroy")
    /\ IF Has(Id)
       THEN op' = [op EXCEPT ![o] = "waiting"] /\ waiters' = Append(waiters, o)
       ELSE op' = [op EXCEPT ![o] = "returned"] /\ UNCHANGED waiters
    /\ busy' = (busy \/ (k = "destroy" /\ ~Has(Id) /\ task = "calling"))
    /\ UNCHANGED <<streamVars, handleVars, rigid, task, event, lines, lock,
                   cancel, got, lateEvents, waited>>

\* The op runs under the lock; destroy removes the entry afterwards.  close()
\* leaves a flag for the client's own task.
Perform(o) ==
    /\ lock = o /\ lock' = "nobody"
    /\ op' = [op EXCEPT ![o] = "returned"]
    /\ IF kind[o] = "destroy" THEN RemoveId(Id) ELSE UNCHANGED registry
    /\ busy' = (busy \/ (kind[o] = "destroy" /\ task = "calling"))
    /\ UNCHANGED <<streamVars, nextId, rigid, task, event, lines, waiters,
                   kind, marked, cancel, got, lateEvents, waited>>

-----------------------------------------------------------------------------
Forward ==
    \/ ConnectOk \/ Opened \/ Top \/ Check \/ Callback \/ Cancelled
    \/ StreamData \/ StreamOver

Server ==
    \/ ConnectErr \/ Network \/ StreamError \/ ClientEnds
    \/ \E e \in {"data", "error"} : ClientLine(e)

BindingNext ==
    \/ Forward \/ Server \/ Grant \/ NapiClose
    \/ \E o \in Ops : Perform(o) \/ \E k \in Kinds : Call(o, k)

BindingSpec == BindingInit /\ [][BindingNext]_bindingVars

\* Tasks and threads that can go on do; nothing is assumed of the server.
Fairness ==
    /\ WF_bindingVars(Forward) /\ WF_bindingVars(Grant)
    /\ \A o \in Ops : WF_bindingVars(Perform(o))

FairSpec == BindingSpec /\ Fairness

-----------------------------------------------------------------------------
(* Properties.                                                             *)

\* Every variable holds values of its type.
BindingTypeOK ==
    /\ service \in {"stream", "client"} /\ binding \in {"c", "napi"}
    /\ nextId \in {1, 2} /\ DOMAIN registry \subseteq {Id}
    /\ task \in Tasks /\ event \in Events /\ lines \in 0..MaxLines
    /\ lock \in {"nobody", "task"} \cup Ops
    /\ waiters \in Seq({"task"} \cup Ops) /\ IsInjective(waiters)
    /\ op \in [Ops -> {"idle", "waiting", "returned"}]
    /\ kind \in [Ops -> Kinds] /\ marked \in BOOLEAN /\ cancel \in BOOLEAN
    /\ got \in Seq(Events) /\ lateEvents \in Nat /\ busy \in BOOLEAN
    /\ waited \in [Ops -> Nat]
    /\ over \in BOOLEAN /\ broken \in BOOLEAN /\ torn \in BOOLEAN
    /\ Len(body) <= MaxBytes

\* The lines that a stream has yielded are those of its body, whatever the
\* chunks it came in, and so is the last event id; a character that a chunk
\* boundary cut is replaced, but no line is lost, split or joined.
ChunksInvisible ==
    LET text == ReadText
        read == taken \o pending
    IN  /\ Len(read) = Cardinality(Content(text))
        /\ ~torn => /\ \A e \in Content(text) :
                           read[Rank(text, e)] = LineAt(text, e)
                    /\ lastEventId = LastIdOf(text)

\* Each line that a stream yields is reported, once, before the next.
LinesReported ==
    service = "stream" =>
        Len(taken) = Cardinality({i \in DOMAIN got : got[i] = "data"})
                     + (IF event = "data" THEN 1 ELSE 0)

\* The host is told of the end, and of nothing after it, unless it has
\* destroyed the handle.
EndReported ==
    /\ \A i \in DOMAIN got : got[i] = "close" => i = Len(got)
    /\ task = "ended" =>
          \/ Guarded /\ marked
          \/ got # <<>> /\ got[Len(got)] \in {"close", "error", "refused"}

\* After destroy has returned there is no callback, but for one that the task
\* was about to make and for which it had read the mark before.
LateOnlyIfCalling == lateEvents <= (IF busy THEN 1 ELSE 0)

\* An op waits for one line at most: the loop cannot take the lock again before
\* an op that was waiting.
WaitsForOneLine == \A o \in Ops : waited[o] <= 1

\* An op returns without the help of the server unless the loop waits for a
\* line, with the lock: ready_state, close and destroy then wait as well, for
\* as long as the server says nothing.
OpsReturn ==
    \A o \in Ops :
        (op[o] = "waiting") ~> (op[o] = "returned" \/ task = "reading")

\* Closing the Node handle ends the task, whatever the server does.
NapiCloseEnds ==
    (binding = "napi" /\ cancel) ~> (task \in {"ended", "connecting"})

\* The host is told of each line and of the end, once, and after destroy of no
\* more than the task was telling it.
HostTold == BindingTypeOK /\ LinesReported /\ EndReported /\ LateOnlyIfCalling

\* The calls of the host return, and closing from Node ends the task.
HostReleased == OpsReturn /\ NapiCloseEnds
=============================================================================

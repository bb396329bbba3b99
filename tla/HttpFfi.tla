------------------------------ MODULE HttpFfi -------------------------------
(***************************************************************************)
(* The HTTP client as hosts see it: the C interface                        *)
(* (packages/catcher-http/src/ffi/http_ffi.rs) and the Node binding        *)
(* (packages/catcher-napi-http/src/client.rs).  A call is answered from a  *)
(* task of its own, while the host destroys handles, cancels, and makes    *)
(* more calls from any thread.                                             *)
(*                                                                         *)
(* The transport behind a handle is reduced to what the interface depends  *)
(* on: its cancellation tokens, the table of pending requests, and the     *)
(* adaptive timeout, whose lock a panic poisons (module AdaptiveTimeout has *)
(* the window itself, module HttpTransport the rest of the transport).     *)
(***************************************************************************)
EXTENDS HandleRegistry, Sequences, FiniteSets

CONSTANTS
    Calls,          \* calls that the host makes
    MaxClients,     \* bound: clients that it creates
    MaxChunks,      \* bound: chunks in the body of a streamed response
    MaxCancelAlls   \* bound: calls of cancel_all per client

ASSUME FfiAssumption ==
    /\ IsFiniteSet(Calls)
    /\ MaxClients \in Nat /\ MaxChunks \in Nat /\ MaxCancelAlls \in Nat

VARIABLES
    binding,     \* "c" or "napi", never changed
    marked,      \* cancelled_http_ids
    current,     \* the global token of each client; the older are cancelled
    pending,     \* calls with an entry in pending_requests
    fired,       \* calls whose own token is cancelled
    adaptive,    \* the adaptive timeout of each client
    call,        \* the state of each call
    destroyer,   \* where catcher_http_client_destroy(id) is
    \* History, read by no action:
    got,         \* the events that the host received for each call
    late         \* how many of them came after destroy had returned

shared == <<binding, handleVars, marked, current, pending, fired, adaptive>>
history == <<got, late>>
vars == <<shared, call, destroyer, history>>

Clients == 1..MaxClients
Ids == 1..MaxClients

PCs == {"idle", "found", "spawned", "sending", "streaming", "reporting",
        "calling", "done"}
Kinds == {"plain", "with_id", "stream", "unsupported"}
Terminal == {"response", "cancelled", "error", "done"}
Events == {"none", "headers", "chunk"} \cup Terminal

\* Off or with a valid configuration; with min > max or window_size = 0; a lock
\* poisoned by the panic to which that leads.
Adaptive == {"good", "bad", "poisoned"}

CallType == [pc : PCs, kind : {"none"} \cup Kinds, handle : 0..MaxClients,
             client : 0..MaxClients, token : Nat, event : Events,
             chunks : 0..MaxChunks, again : BOOLEAN]

Init ==
    /\ binding \in {"c", "napi"}
    /\ RegistryInit
    /\ marked = {} /\ pending = {} /\ fired = {}
    /\ current = [k \in Clients |-> 0]
    /\ adaptive = [k \in Clients |-> "good"]
    /\ call = [c \in Calls |->
                 [pc |-> "idle", kind |-> "none", handle |-> 0, client |-> 0,
                  token |-> 0, event |-> "none", chunks |-> 0,
                  again |-> FALSE]]
    /\ destroyer = [id \in Ids |-> "no"]
    /\ got = [c \in Calls |-> <<>>]
    /\ late = [c \in Calls |-> 0]

At(c, place) == call[c].pc = place

\* The task moves on, and its locals end with it.
Goto(c, place) ==
    call' = [call EXCEPT
               ![c].pc = place, ![c].event = "none",
               ![c].token = IF place = "done" THEN 0 ELSE @]

\* The call's task takes up the event that it is to report.
Report(c, event) ==
    call' = [call EXCEPT ![c].pc = "reporting", ![c].event = event]

-----------------------------------------------------------------------------
(* Making a call.                                                          *)

\* catcher_http_client_create: HttpTransport::new, then insert.
Create ==
    /\ nextId <= MaxClients /\ Insert(nextId)
    /\ UNCHANGED <<binding, marked, current, pending, fired, adaptive, call,
                   destroyer, history>>

\* A method that is not known: execute, execute_with_id and execute_stream
\* answer at once and whatever the handle, the Node binding throws.
Unsupported(c, id) ==
    /\ At(c, "idle") /\ id \in Issued
    /\ call' = [call EXCEPT ![c].pc = "done", ![c].kind = "unsupported",
                            ![c].handle = id]
    /\ got' = [got EXCEPT ![c] = <<"error">>]
    /\ UNCHANGED <<shared, destroyer, late>>

\* A call on any handle the host was ever given.  A handle without an entry
\* means that nothing happens, and no callback.
Lookup(c, kind, id) ==
    /\ At(c, "idle") /\ id \in Issued
    /\ call' = [call EXCEPT ![c].pc = IF Has(id) THEN "found" ELSE "done",
                            ![c].kind = kind, ![c].handle = id,
                            ![c].client = IF Has(id) THEN registry[id] ELSE 0]
    /\ UNCHANGED <<shared, destroyer, history>>

\* catcher_http_get, _post and _execute: the task calls execute.
Execute(c, id) == binding = "c" /\ Lookup(c, "plain", id)

\* catcher_http_multipart; a method that is not known is a POST.
Multipart(c, id) == binding = "c" /\ Lookup(c, "plain", id)

\* The host gets the id of the request, for cancel_request.
ExecuteWithId(c, id) == binding = "c" /\ Lookup(c, "with_id", id)
ExecuteStream(c, id) == binding = "c" /\ Lookup(c, "stream", id)

\* JsHttpClient: get to patch, through do_execute, and execute_stream.
NapiExecute(c, id) == binding = "napi" /\ Lookup(c, "plain", id)
NapiExecuteStream(c, id) == binding = "napi" /\ Lookup(c, "stream", id)

HasEntry(c) == binding = "c" /\ call[c].kind \in {"with_id", "stream"}

\* allocate_pending_request where the host gets a request id; the task starts.
Spawn(c) ==
    /\ At(c, "found") /\ call' = [call EXCEPT ![c].pc = "spawned"]
    /\ pending' = IF HasEntry(c) THEN pending \cup {c} ELSE pending
    /\ UNCHANGED <<binding, handleVars, marked, current, fired, adaptive,
                   destroyer, history>>

\* The clone of the global token; the request goes out.
TakeToken(c) ==
    /\ At(c, "spawned")
    /\ call' = [call EXCEPT ![c].pc = "sending",
                            ![c].token = current[call[c].client]]
    /\ UNCHANGED <<shared, destroyer, history>>

-----------------------------------------------------------------------------
(* The end of the request.                                                 *)

Fired(c) == c \in fired \/ call[c].token < current[call[c].client]

\* http_result_to_json, and its counterpart with a request id, which alone
\* tells a cancellation from other errors.  A status of 400 or more is a
\* response.
ResultEvent(c, outcome) ==
    IF outcome # "cancelled" THEN outcome
    ELSE IF call[c].kind = "with_id" THEN "cancelled" ELSE "error"

\* execute or execute_with_token returns, and has removed its entry.
Answer(c, outcome) ==
    /\ call[c].kind # "stream" /\ At(c, "sending")
    /\ Report(c, outcome)
    /\ pending' = pending \ {c}
    /\ UNCHANGED <<binding, handleVars, marked, current, fired, adaptive,
                   destroyer, history>>

\* The circuit breaker refuses the request before the token is taken.
Refuse(c) ==
    /\ call[c].kind # "stream" /\ At(c, "spawned")
    /\ Report(c, "error")
    /\ pending' = pending \ {c}
    /\ UNCHANGED <<binding, handleVars, marked, current, fired, adaptive,
                   destroyer, history>>

\* A 421: execute renews the client and sends the request once more, with the
\* global token as it is then.
Misdirected(c) ==
    /\ call[c].kind = "plain" /\ At(c, "sending") /\ ~call[c].again
    /\ call' = [call EXCEPT ![c].pc = "spawned", ![c].again = TRUE]
    /\ UNCHANGED <<shared, destroyer, history>>

\* Mutant: a cancelled request returns without an event.
CancelledSilently(c) ==
    /\ At(c, "sending") /\ Fired(c) /\ call[c].kind # "stream"
    /\ Goto(c, "done")
    /\ UNCHANGED <<shared, destroyer, history>>

\* A token has fired.  The entry is removed in queue mode only.
Cancelled(c) ==
    /\ At(c, "sending") /\ Fired(c) /\ call[c].kind # "stream"
    /\ Report(c, ResultEvent(c, "cancelled"))
    /\ pending' \in {pending, pending \ {c}}
    /\ UNCHANGED <<binding, handleVars, marked, current, fired, adaptive,
                   destroyer, history>>

\* AdaptiveTimeout panics with its lock held, or the lock is poisoned: the
\* task is gone, without an answer, and its entry stays.
Die(c) ==
    /\ call[c].kind # "stream"
    /\ At(c, "spawned") \/ At(c, "sending")
    /\ adaptive[call[c].client] \in {"bad", "poisoned"}
    /\ adaptive' = [adaptive EXCEPT ![call[c].client] = "poisoned"]
    /\ Goto(c, "done")
    /\ pending' \in {pending, pending \ {c}}
    /\ UNCHANGED <<binding, handleVars, marked, current, fired, destroyer, history>>

\* The same happens to a call of the client that is not among Calls.
Poison(k) ==
    /\ adaptive[k] = "bad" /\ adaptive' = [adaptive EXCEPT ![k] = "poisoned"]
    /\ UNCHANGED <<binding, handleVars, marked, current, pending, fired, call,
                   destroyer, history>>

-----------------------------------------------------------------------------
(* execute_stream.                                                         *)

\* req.send() fails: execute_stream returns the error, which its callers drop.
StreamFails(c) ==
    /\ call[c].kind = "stream" /\ At(c, "sending")
    /\ Goto(c, "done")
    /\ UNCHANGED <<shared, destroyer, history>>

StreamHeaders(c) ==
    /\ call[c].kind = "stream" /\ At(c, "sending")
    /\ Report(c, "headers")
    /\ UNCHANGED <<shared, destroyer, history>>

StreamChunk(c) ==
    /\ At(c, "streaming") /\ call[c].chunks < MaxChunks
    /\ call' = [call EXCEPT ![c].pc = "reporting", ![c].event = "chunk",
                            ![c].chunks = @ + 1]
    /\ UNCHANGED <<shared, destroyer, history>>

\* The end of the body, or an error while it is read.
StreamEnds(c, event) ==
    /\ At(c, "streaming")
    /\ Report(c, event)
    /\ UNCHANGED <<shared, destroyer, history>>

\* Mutant: the body is read without a look at the tokens.
StreamCancelledEarly(c) ==
    /\ At(c, "sending") /\ call[c].kind = "stream" /\ Fired(c)
    /\ Report(c, "error")
    /\ UNCHANGED <<shared, destroyer, history>>

\* The entry stays here, as in every other way a stream ends.
StreamCancelled(c) ==
    /\ At(c, "streaming") \/ (At(c, "sending") /\ call[c].kind = "stream")
    /\ Fired(c)
    /\ Report(c, "error")
    /\ UNCHANGED <<shared, destroyer, history>>

-----------------------------------------------------------------------------
(* invoke_http_callback_if_active: the test, then the callback.            *)

\* Where the task goes once the event is reported or suppressed.
After(c) == IF call[c].event \in Terminal THEN "done" ELSE "streaming"

\* Mutant: the mark is not looked at.
CheckNothing(c) ==
    /\ At(c, "reporting")
    /\ call' = [call EXCEPT ![c].pc = "calling"]
    /\ UNCHANGED <<shared, destroyer, history>>

\* The mark is read and the lock released.  The Node binding has no marks.
Check(c) ==
    /\ At(c, "reporting")
    /\ IF call[c].handle \in marked
       THEN Goto(c, After(c))
       ELSE call' = [call EXCEPT ![c].pc = "calling"]
    /\ UNCHANGED <<shared, destroyer, history>>

Callback(c) ==
    /\ At(c, "calling") /\ Goto(c, After(c))
    /\ got' = [got EXCEPT ![c] = Append(@, call[c].event)]
    /\ late' = IF destroyer[call[c].handle] = "returned"
               THEN [late EXCEPT ![c] = @ + 1] ELSE late
    /\ UNCHANGED <<shared, destroyer>>

-----------------------------------------------------------------------------
(* Cancelling and destroying.                                              *)

\* cancel_request finds the entry.
CancelRequest(c) ==
    /\ c \in pending \ fired /\ Has(call[c].handle)
    /\ fired' = fired \cup {c}
    /\ UNCHANGED <<binding, handleVars, marked, current, pending, adaptive,
                   call, destroyer, history>>

\* HttpTransport::cancel_all cancels and replaces the global token under one
\* lock and drains the pending requests under another.  A call that goes on
\* between the two ends up as if it had gone on before or after both.
CancelClient(k) ==
    LET own == {c \in pending : call[c].client = k}
    IN  /\ current' = [current EXCEPT ![k] = @ + 1]
        /\ fired' = fired \cup own /\ pending' = pending \ own

CancelAll(id) ==
    /\ Has(id) /\ current[registry[id]] < MaxCancelAlls
    /\ CancelClient(registry[id])
    /\ UNCHANGED <<binding, handleVars, marked, adaptive, call, destroyer,
                   history>>

\* catcher_http_client_destroy.  The object is dropped by a host of the Node
\* binding without any of this.
DestroyMark(id) ==
    /\ binding = "c" /\ id \in Issued /\ destroyer[id] = "no"
    /\ marked' = marked \cup {id}
    /\ destroyer' = [destroyer EXCEPT ![id] = "marked"]
    /\ UNCHANGED <<binding, handleVars, current, pending, fired, adaptive,
                   call, history>>

DestroyCancel(id) ==
    /\ destroyer[id] = "marked" /\ CancelClient(registry[id])
    /\ destroyer' = [destroyer EXCEPT ![id] = "cancelled"]
    /\ UNCHANGED <<binding, handleVars, marked, adaptive, call, history>>

DestroyRemove(id) ==
    /\ destroyer[id] = "cancelled" /\ RemoveId(id)
    /\ destroyer' = [destroyer EXCEPT ![id] = "returned"]
    /\ UNCHANGED <<binding, nextId, marked, current, pending, fired, adaptive,
                   call, history>>

\* set_adaptive_timeout and disable_adaptive_timeout.  With the lock poisoned
\* the call panics, and with it the host.
Configure(id, setting) ==
    /\ Has(id) /\ adaptive[registry[id]] # "poisoned"
    /\ adaptive' = [adaptive EXCEPT ![registry[id]] = setting]
    /\ UNCHANGED <<binding, handleVars, marked, current, pending, fired, call,
                   destroyer, history>>

-----------------------------------------------------------------------------
Task(c) ==
    \/ Spawn(c) \/ TakeToken(c)
    \/ Cancelled(c) \/ StreamCancelled(c)
    \/ Check(c) \/ Callback(c)

\* The server, the breaker, and a lock that panics.
Server(c) ==
    \/ \E outcome \in {"response", "error"} : Answer(c, outcome)
    \/ Refuse(c) \/ Misdirected(c) \/ Die(c)
    \/ StreamFails(c) \/ StreamHeaders(c) \/ StreamChunk(c)
    \/ \E event \in {"done", "error"} : StreamEnds(c, event)

Destroy(id) == DestroyCancel(id) \/ DestroyRemove(id)

Host ==
    \/ Create
    \/ \E c \in Calls, id \in Ids :
         \/ Execute(c, id) \/ Multipart(c, id) \/ ExecuteWithId(c, id)
         \/ ExecuteStream(c, id) \/ Unsupported(c, id)
         \/ NapiExecute(c, id) \/ NapiExecuteStream(c, id)
    \/ \E c \in Calls : CancelRequest(c)
    \/ \E id \in Ids : CancelAll(id) \/ DestroyMark(id)
    \/ \E id \in Ids, setting \in {"good", "bad"} : Configure(id, setting)

Next ==
    \/ Host
    \/ \E c \in Calls : Task(c) \/ Server(c)
    \/ \E id \in Ids : Destroy(id)
    \/ \E k \in Clients : Poison(k)

Spec == Init /\ [][Next]_vars

\* The runtime runs every task that is ready and the host's threads go on.
\* Nothing is assumed of the server.
Fairness ==
    /\ \A c \in Calls : WF_vars(Task(c))
    /\ \A id \in Ids : WF_vars(Destroy(id))

FairSpec == Spec /\ Fairness

-----------------------------------------------------------------------------
(* Properties.                                                             *)

\* Every variable holds values of its type.
TypeOK ==
    /\ binding \in {"c", "napi"}
    /\ nextId \in 1..(MaxClients + 1)
    /\ DOMAIN registry \subseteq Issued
    /\ \A id \in DOMAIN registry : registry[id] \in Clients
    /\ marked \subseteq Issued
    /\ current \in [Clients -> 0..(MaxCancelAlls + 1)]
    /\ fired \subseteq Calls /\ pending \subseteq {c \in Calls : HasEntry(c)}
    /\ adaptive \in [Clients -> Adaptive]
    /\ call \in [Calls -> CallType]
    /\ destroyer \in [Ids -> {"no", "marked", "cancelled", "returned"}]
    /\ \A c \in Calls : got[c] \in Seq(Events) /\ late[c] \in Nat

Answers(c) == {i \in DOMAIN got[c] : got[c][i] \in Terminal}

\* A call whose task has ended was answered, once.  It stays without an answer
\* only if the host has destroyed the handle, if a panic has poisoned the
\* client's adaptive timeout, or if it is a stream whose request failed before
\* there was a response: the host of such a call waits for ever.
AnsweredOnce ==
    \A c \in Calls :
        At(c, "done") =>
            \/ Cardinality(Answers(c)) = 1
            \/ /\ Answers(c) = {}
               /\ \/ call[c].handle \in marked
                  \/ adaptive[call[c].client] = "poisoned"
                  \/ call[c].kind = "stream" /\ got[c] = <<>>

\* The events of a stream are its headers, chunks and one last event, cut
\* short by destroy; an error may come instead of the headers.  Nothing
\* follows the last event.
StreamShape ==
    \A c \in Calls : call[c].kind = "stream" =>
        \A i \in DOMAIN got[c] :
            /\ got[c][i] = "headers" <=> (i = 1 /\ got[c] # <<"error">>)
            /\ got[c][i] \in Terminal => i = Len(got[c])

\* Once destroy has returned, a call calls back at most once more: with the
\* event for which the mark had been read before destroy set it.
LateAtMostOnce == \A c \in Calls : late[c] <= 1

\* A handle never reaches another client than the one it was created for, also
\* when the host uses it after destroy.
RightClient ==
    \A c \in Calls :
        call[c].client # 0 => call[c].client = call[c].handle

\* cancel_request succeeds for no call that has ended, but for streams, whose
\* entries stay, for cancelled calls and those that a panic has ended.
EntriesOfCalls ==
    \A c \in pending :
        At(c, "done") =>
            \/ call[c].kind = "stream"
            \/ got[c] = <<"cancelled">> \/ call[c].handle \in marked
            \/ adaptive[call[c].client] = "poisoned"

\* destroy, cancel_all and cancel_request end the calls they find in progress,
\* without any help from the server.
CancelledEnds ==
    \A c \in Calls :
        ((At(c, "sending") \/ At(c, "streaming")) /\ Fired(c))
            ~> ~(At(c, "sending") \/ At(c, "streaming"))

\* A call that is over is settled: with the host, which was answered in due
\* form by its own client, and with the table of pending requests.
CallsSettled ==
    TypeOK /\ AnsweredOnce /\ StreamShape /\ RightClient /\ EntriesOfCalls
=============================================================================

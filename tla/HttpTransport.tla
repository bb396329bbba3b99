--------------------------- MODULE HttpTransport ----------------------------
(***************************************************************************)
(* HttpTransport::execute and execute_with_token                           *)
(* (packages/catcher-http/src/transport/http_client.rs): requests run      *)
(* concurrently, share a circuit breaker, a concurrency limit, the table   *)
(* of pending requests and the network generation, and can be cancelled    *)
(* one by one or all together while network_changed replaces the client.   *)
(*                                                                         *)
(* A step ends at an await, and between two accesses to shared state that  *)
(* no lock joins, unless the order in which others see them cannot matter. *)
(***************************************************************************)
EXTENDS Breaker, FiniteSets

CONSTANTS
    Requests,         \* the requests made
    Registered,       \* those with a request_id (catcher_http_execute_with_id);
                      \* the others come through execute()
    MaxConcurrency,   \* config.max_concurrency
    MaxChanges,       \* bound: network changes that the user reports
    MaxCancelAlls     \* bound: calls of cancel_all

ASSUME TransportAssumption ==
    /\ IsFiniteSet(Requests) /\ Registered \subseteq Requests
    /\ MaxConcurrency \in Nat \ {0}
    /\ MaxChanges \in Nat /\ MaxCancelAlls \in Nat
    /\ "user" \notin Requests    \* User below is not a request

VARIABLES
    mode,         \* the concurrency control that new() chose, never changed
    pc,           \* where each request is
    gen,          \* gen_at_start of each request
    result,       \* its result so far
    token,        \* the global token it cloned
    retried,      \* the requests for which execute() has made its retry
    task,         \* queue mode: its task in PriorityRequestQueue
    permits,      \* free permits of the semaphore
    pending,      \* keys of pending_requests
    cancelled,    \* requests whose own token is cancelled
    current,      \* the global token in cancel_token; the older are cancelled
    cancelling,   \* cancel_all is between its two locks
    generation,   \* network_generation
    client,       \* the generation in which the current client was built
    changer,      \* where each caller of network_changed is
    built,        \* the client each of them has built
    changes,      \* how often the user called network_changed
    \* History, read by no action:
    records,      \* record_http_request calls for this execution
    exposed       \* requests that a cancellation may have met

request == <<pc, gen, result, token, retried>>
slots == <<task, permits>>
cancels == <<pending, cancelled, current, cancelling>>
network == <<mode, generation, client, changer, built, changes>>
history == <<records, exposed>>
vars == <<breaker, request, slots, cancels, network, history>>

PCs == {"idle", "called", "begun", "admitted", "waiting", "running",
        "finishing", "failing", "renewing", "done"}
Results == {"none", "ok", "error", "misdirected", "cancelled", "rejected"}
Answers == {"ok", "error", "misdirected"}

\* The callers of network_changed: requests that got a 421, and the user.
User == "user"
Changers == Requests \cup {User}

\* No limit if max_concurrency is 0; else the priority queue, or a semaphore
\* where new() is not called from within a runtime.
Modes == {"queue", "semaphore", "none"}

\* Requests before those modelled may have failed until the breaker opened,
\* and the one that began a half-open episode may have been cancelled.
BreakerProbing ==
    /\ state = "HalfOpen" /\ failures = FailureThreshold
    /\ successes = 0 /\ probes = 0 /\ age = ResetTimeout

Init ==
    /\ mode \in Modes
    /\ BreakerInit \/ BreakerProbing
    /\ pc = [r \in Requests |-> "idle"]
    /\ gen = [r \in Requests |-> 0]
    /\ result = [r \in Requests |-> "none"]
    /\ token = [r \in Requests |-> 0]
    /\ retried = {}
    /\ task = [r \in Requests |-> "none"]
    /\ permits = MaxConcurrency
    /\ pending = {} /\ cancelled = {}
    /\ current = 0 /\ cancelling = FALSE
    /\ generation = 0 /\ client = 0
    /\ changer = [c \in Changers |-> "idle"]
    /\ built = [c \in Changers |-> 0]
    /\ changes = 0
    /\ records = [r \in Requests |-> 0]
    /\ exposed = {}

At(r, place) == pc[r] = place
Goto(r, place) == pc' = [pc EXCEPT ![r] = place]

\* execute_with_token returns: its locals are gone.
Leave(r, place) ==
    /\ Goto(r, place)
    /\ gen' = [gen EXCEPT ![r] = 0] /\ token' = [token EXCEPT ![r] = 0]

SetResult(r, res) == result' = [result EXCEPT ![r] = res]
Record(r) == records' = [records EXCEPT ![r] = @ + 1]

-----------------------------------------------------------------------------
(* execute_with_token, up to the wait for a slot.                          *)

\* allocate_pending_request before the task is spawned, or a call of execute.
Call(r) ==
    /\ At(r, "idle") /\ Goto(r, "called")
    /\ pending' = IF r \in Registered THEN pending \cup {r} ELSE pending
    /\ exposed' = IF cancelling THEN exposed \cup {r} ELSE exposed
    /\ UNCHANGED <<breaker, gen, result, token, retried, slots, cancelled,
                   current, cancelling, network, records>>

Begin(r) ==
    /\ At(r, "called") /\ Goto(r, "begun")
    /\ gen' = [gen EXCEPT ![r] = generation]
    /\ UNCHANGED <<breaker, result, token, retried, slots, cancels, network,
                   history>>

Admit(r) ==
    /\ At(r, "begun") /\ Goto(r, "admitted")
    /\ AdmitClosed \/ EnterHalfOpen \/ AdmitProbe
    /\ UNCHANGED <<gen, result, token, retried, slots, cancels, network,
                   history>>

\* CatcherError::CircuitBreakerOpen.
Reject(r) ==
    /\ At(r, "begun") /\ Leave(r, "done")
    /\ RejectOpen \/ RejectProbe
    /\ SetResult(r, "rejected") /\ Record(r)
    /\ pending' = pending \ {r}
    /\ UNCHANGED <<retried, slots, cancelled, current, cancelling, network,
                   exposed>>

\* The clone of cancel_token; then the request queues for its slot.
TakeToken(r) ==
    /\ At(r, "admitted")
    /\ Goto(r, IF mode = "none" THEN "running" ELSE "waiting")
    /\ token' = [token EXCEPT ![r] = current]
    /\ task' = IF mode = "queue" THEN [task EXCEPT ![r] = "queued"] ELSE task
    /\ UNCHANGED <<breaker, gen, result, retried, permits, cancels, network,
                   history>>

-----------------------------------------------------------------------------
(* The slot and the exchange with the server.                              *)

\* sem.acquire() of the semaphore path.
Acquire(r) ==
    /\ mode = "semaphore" /\ At(r, "waiting") /\ Goto(r, "running")
    /\ permits > 0 /\ permits' = permits - 1
    /\ UNCHANGED <<breaker, gen, result, token, retried, task, cancels,
                   network, history>>

\* PriorityRequestQueue hands the task to a task of its own, which waits for
\* a permit.
TaskStart(r) ==
    /\ task[r] = "queued" /\ task' = [task EXCEPT ![r] = "executing"]
    /\ permits > 0 /\ permits' = permits - 1
    /\ UNCHANGED <<breaker, request, cancels, network, history>>

Release == permits' = IF mode = "semaphore" THEN permits + 1 ELSE permits

\* do_execute returns; a 421 is an error as well.
Answer(r, res) ==
    /\ At(r, "running") /\ Goto(r, "finishing")
    /\ SetResult(r, res) /\ Release
    /\ UNCHANGED <<breaker, gen, token, retried, task, cancels, network,
                   history>>

\* Mutant: a task whose request has gone keeps its permit.
TaskEndLeaks(r, res) ==
    /\ task[r] = "executing" /\ task' = [task EXCEPT ![r] = "none"]
    /\ IF At(r, "waiting")
       THEN Goto(r, "finishing") /\ SetResult(r, res) /\ permits' = permits + 1
       ELSE UNCHANGED <<pc, result, permits>>
    /\ UNCHANGED <<breaker, gen, token, retried, cancels, network, history>>

\* The queue's task is done, in time or not, and gives its permit back.  The
\* result reaches the request only if that is still waiting for it.
TaskEnd(r, res) ==
    /\ task[r] = "executing" /\ task' = [task EXCEPT ![r] = "none"]
    /\ permits' = permits + 1
    /\ IF At(r, "waiting")
       THEN Goto(r, "finishing") /\ SetResult(r, res)
       ELSE UNCHANGED <<pc, result>>
    /\ UNCHANGED <<breaker, gen, token, retried, cancels, network, history>>

-----------------------------------------------------------------------------
(* Cancellation, as select! sees it.                                       *)

\* Mutant: cancel_all leaves its cancelled token in place.
TokenFiredForEver(r) == r \in cancelled \/ current > 0

TokenFired(r) == r \in cancelled \/ token[r] < current

\* Mutant: a cancelled request is recorded by the common ending as well.
CancelReturnFallsThrough(r) ==
    /\ mode # "queue" /\ TokenFired(r)
    /\ \/ At(r, "waiting") /\ UNCHANGED permits
       \/ At(r, "running") /\ Release
    /\ Goto(r, "finishing") /\ SetResult(r, "cancelled") /\ Record(r)
    /\ UNCHANGED <<breaker, gen, token, retried, task, cancels, network,
                   exposed>>

\* Without the queue the request returns at once: it drops the exchange and
\* its permit, and leaves pending_requests and the breaker alone.
CancelReturn(r) ==
    /\ mode # "queue" /\ TokenFired(r)
    /\ \/ At(r, "waiting") /\ UNCHANGED permits
       \/ At(r, "running") /\ Release
    /\ Leave(r, "done") /\ SetResult(r, "cancelled") /\ Record(r)
    /\ UNCHANGED <<breaker, retried, task, cancels, network, exposed>>

\* With the queue the cancellation is recorded and becomes the result, an
\* error like others.  The task stays in the queue or goes on executing, unless
\* the select! met the token before submit had sent the task.
CancelQueued(r) ==
    /\ mode = "queue" /\ TokenFired(r)
    /\ At(r, "waiting") /\ Goto(r, "finishing")
    /\ SetResult(r, "cancelled") /\ Record(r)
    /\ \/ UNCHANGED task
       \/ task[r] = "queued" /\ task' = [task EXCEPT ![r] = "none"]
    /\ UNCHANGED <<breaker, gen, token, retried, permits, cancels, network,
                   exposed>>

-----------------------------------------------------------------------------
(* The end of execute_with_token, and the retry of execute.                *)

\* execute answers the first 421 of a request with network_changed.
Ending(r) ==
    IF result[r] = "misdirected" /\ r \notin Registered \cup retried
    THEN "renewing" ELSE "done"

\* Mutant: the entry of a finished request stays.
FinishKeepsEntry(r) ==
    /\ At(r, "finishing")
    /\ Record(r)
    /\ \/ result[r] = "ok" /\ OnSuccess /\ Leave(r, "done")
       \/ result[r] # "ok" /\ gen[r] # generation
          /\ UNCHANGED breaker /\ Leave(r, Ending(r))
       \/ result[r] # "ok" /\ gen[r] = generation
          /\ Goto(r, "failing") /\ UNCHANGED <<breaker, gen, token>>
    /\ UNCHANGED <<result, retried, slots, cancels, network, exposed>>

\* A success counts for the breaker whatever the generation; a failure only
\* if the generation, read here, is still the one of the start.
Finish(r) ==
    /\ At(r, "finishing")
    /\ pending' = pending \ {r}
    /\ Record(r)
    /\ \/ result[r] = "ok" /\ OnSuccess /\ Leave(r, "done")
       \/ result[r] # "ok" /\ gen[r] # generation
          /\ UNCHANGED breaker /\ Leave(r, Ending(r))
       \/ result[r] # "ok" /\ gen[r] = generation
          /\ Goto(r, "failing") /\ UNCHANGED <<breaker, gen, token>>
    /\ UNCHANGED <<result, retried, slots, cancelled, current, cancelling,
                   network, exposed>>

CountFailure(r) ==
    /\ At(r, "failing") /\ Leave(r, Ending(r))
    /\ OnFailure
    /\ UNCHANGED <<result, retried, slots, cancels, network, history>>

-----------------------------------------------------------------------------
(* network_changed, which several threads may be in.                       *)

\* network_generation.fetch_add.
ChangeBegin(c) ==
    /\ changer[c] = "idle"
    /\ IF c = User
       THEN changes < MaxChanges /\ changes' = changes + 1
       ELSE At(c, "renewing") /\ UNCHANGED changes
    /\ generation' = generation + 1
    /\ changer' = [changer EXCEPT ![c] = "closing"]
    /\ UNCHANGED <<mode, breaker, request, slots, cancels, client, built,
                   history>>

\* cb.reset(), in its two steps.
ChangeReset(c) ==
    /\ \/ /\ changer[c] = "closing" /\ ResetState
          /\ changer' = [changer EXCEPT ![c] = "clearing"]
       \/ /\ changer[c] = "clearing" /\ ResetCounters
          /\ changer' = [changer EXCEPT ![c] = "building"]
    /\ UNCHANGED <<mode, request, slots, cancels, generation, client, built,
                   changes, history>>

\* build_middleware_client, with the proxy of the network as it is now.
ChangeBuild(c) ==
    /\ changer[c] = "building"
    /\ changer' = [changer EXCEPT ![c] = "installing"]
    /\ built' = [built EXCEPT ![c] = generation]
    /\ UNCHANGED <<mode, breaker, request, slots, cancels, generation, client,
                   changes, history>>

\* execute goes on: its second and last execute_with_token, or the error.
Retry(c, ok) ==
    IF c = User THEN UNCHANGED <<pc, result, retried, records>>
    ELSE IF ok
    THEN /\ Goto(c, "called") /\ SetResult(c, "none")
         /\ retried' = retried \cup {c}
         /\ records' = [records EXCEPT ![c] = 0]
    ELSE Goto(c, "done") /\ UNCHANGED <<result, retried, records>>

ChangeInstall(c) ==
    /\ changer[c] = "installing"
    /\ changer' = [changer EXCEPT ![c] = "idle"]
    /\ client' = built[c] /\ built' = [built EXCEPT ![c] = 0]
    /\ Retry(c, TRUE)
    /\ UNCHANGED <<mode, breaker, gen, token, slots, cancels, generation,
                   changes, exposed>>

\* The client cannot be built: network_changed returns an error and the old
\* client stays.
ChangeFails(c) ==
    /\ changer[c] = "building"
    /\ changer' = [changer EXCEPT ![c] = "idle"]
    /\ Retry(c, FALSE)
    /\ UNCHANGED <<mode, breaker, gen, token, slots, cancels, generation,
                   client, built, changes, exposed>>

-----------------------------------------------------------------------------
(* cancel_request and cancel_all.                                          *)

\* Where it finds no entry it returns false and changes nothing.
CancelRequest(r) ==
    /\ r \in pending \ cancelled
    /\ cancelled' = cancelled \cup {r}
    /\ exposed' = exposed \cup {r}
    /\ UNCHANGED <<breaker, request, slots, pending, current, cancelling,
                   network, records>>

InFlight == {r \in Requests : pc[r] \notin {"idle", "done"}}

\* The global token is cancelled and replaced under its lock.
CancelAllBegin ==
    /\ current < MaxCancelAlls /\ ~cancelling
    /\ current' = current + 1 /\ cancelling' = TRUE
    /\ exposed' = exposed \cup InFlight
    /\ UNCHANGED <<breaker, request, slots, pending, cancelled, network,
                   records>>

\* Then the pending requests are drained and their tokens cancelled.
CancelAllEnd ==
    /\ cancelling /\ cancelling' = FALSE
    /\ cancelled' = cancelled \cup pending
    /\ pending' = {}
    /\ UNCHANGED <<breaker, request, slots, current, network, history>>

-----------------------------------------------------------------------------
\* Time matters to the open breaker only.
Clock ==
    /\ state = "Open" /\ Tick
    /\ UNCHANGED <<request, slots, cancels, network, history>>

Server ==
    \E r \in Requests, res \in Answers : Answer(r, res) \/ TaskEnd(r, res)

\* What the runtime does by itself.
Runtime ==
    \/ \E r \in Requests :
          \/ Begin(r) \/ Admit(r) \/ Reject(r) \/ TakeToken(r)
          \/ Acquire(r) \/ TaskStart(r)
          \/ CancelReturn(r) \/ CancelQueued(r)
          \/ Finish(r) \/ CountFailure(r)
    \/ \E c \in Requests : ChangeBegin(c)
    \/ \E c \in Changers :
          ChangeReset(c) \/ ChangeBuild(c) \/ ChangeInstall(c) \/ ChangeFails(c)
    \/ CancelAllEnd

Caller ==
    \/ \E r \in Requests : Call(r) \/ CancelRequest(r)
    \/ ChangeBegin(User) \/ CancelAllBegin

\* Every request has returned.
Done == (\A r \in Requests : At(r, "done")) /\ UNCHANGED vars

Next == Caller \/ Runtime \/ Server \/ Clock \/ Done

Spec == Init /\ [][Next]_vars

-----------------------------------------------------------------------------
(* Properties.                                                             *)

\* Every variable holds values of its type.
TypeOK ==
    /\ mode \in Modes
    /\ state \in CbStates
    /\ failures \in Nat /\ successes \in Nat
    /\ probes \in 0..ProbeCap /\ age \in 0..ResetTimeout
    /\ pc \in [Requests -> PCs]
    /\ gen \in [Requests -> 0..generation]
    /\ result \in [Requests -> Results]
    /\ token \in [Requests -> 0..current]
    /\ retried \subseteq Requests
    /\ task \in [Requests -> {"none", "queued", "executing"}]
    /\ permits \in 0..MaxConcurrency
    /\ pending \subseteq Registered /\ cancelled \subseteq Registered
    /\ current \in 0..MaxCancelAlls /\ cancelling \in BOOLEAN
    /\ generation \in Nat /\ client \in 0..generation
    /\ changer \in [Changers ->
          {"idle", "closing", "clearing", "building", "installing"}]
    /\ built \in [Changers -> 0..generation]
    /\ changes \in 0..MaxChanges
    /\ records \in [Requests -> 0..2] /\ exposed \subseteq Requests

\* The holders of a permit, by the concurrency control in use.
Holders ==
    {r \in Requests : \/ mode = "semaphore" /\ At(r, "running")
                      \/ task[r] = "executing"}

\* No permit is lost or given back twice, whichever way a request ends: the
\* concurrency limit holds and does not shrink over time.
PermitsConserved ==
    permits + Cardinality(Holders) = MaxConcurrency

\* record_http_request is called once for an execution that has returned; for
\* one that was cancelled in the queue it is called twice, and for no other.
RecordedOnce ==
    \A r \in Requests :
        At(r, "done") =>
            records[r] = IF mode = "queue" /\ result[r] = "cancelled"
                         THEN 2 ELSE 1

\* cancel_request answers true for no request that has returned, but for the
\* cancelled ones without the queue, whose entries stay.
PendingAccurate ==
    \A r \in pending :
        At(r, "done") => mode # "queue" /\ result[r] = "cancelled"

\* cancel_all and cancel_request do not reach a request that is called after
\* they have returned.
OnlyExposedCancelled ==
    \A r \in Requests : result[r] = "cancelled" => r \in exposed

\* Without the queue a cancellation does not count as a failure for the
\* circuit breaker.
CancelNotAFailure ==
    \A r \in Requests :
        At(r, "failing") => mode = "queue" \/ result[r] # "cancelled"

\* The accounts of a request, with the metrics and with the breaker, are right
\* whichever way it ends.
AccountsRight == TypeOK /\ RecordedOnce /\ CancelNotAFailure
=============================================================================

----------------------------- MODULE AuxRuntime -----------------------------
(***************************************************************************)
(* The synchronous calls of the UniFFI binding                             *)
(* (packages/catcher-uniffi/src/lib.rs).  block_on_aux_thread spawns the   *)
(* call's future on a runtime with one worker thread and the caller waits  *)
(* for it.  The futures of SseClientHandle::connect call the observer on   *)
(* that worker, and evaluate_quality holds a lock of its own while it      *)
(* waits for the network.                                                  *)
(*                                                                         *)
(* A poll of a future is one step, taken when the worker is free; only an  *)
(* observer keeps the worker for longer.                                   *)
(***************************************************************************)
EXTENDS Naturals, Sequences, FiniteSets

CONSTANTS
    Calls,    \* calls that the host makes
    None,     \* no call
    MaxLines  \* bound: lines that an SSE stream delivers

ASSUME AuxAssumption ==
    IsFiniteSet(Calls) /\ None \notin Calls /\ MaxLines \in Nat

VARIABLES
    kind,     \* what each call is
    pc,       \* where it is
    parent,   \* the call in whose observer it was made, or None
    worker,   \* the call whose observer occupies the worker, or None
    holder,   \* the call that holds EVALUATOR's lock, or None
    waiters,  \* the calls that wait for the lock, in order
    got       \* what each call's observer was told

auxVars == <<kind, pc, parent, worker, holder, waiters, got>>

\* "request" is an HTTP request, a one-shot SSE stream or the connect of a
\* WsClient: a future that calls nobody.
Kinds == {"request", "quality", "sse"}

\* spawned: to be polled.  locked: waits for EVALUATOR.  waiting: for the
\* network.  ready: the network has answered.  observing: in on_event.
\* done: the result is in the caller's channel.
PCs == {"idle", "spawned", "locked", "waiting", "ready", "observing", "done",
        "returned"}

Told == {"open", "line", "close"}

AuxInit ==
    /\ kind = [c \in Calls |-> "request"]
    /\ pc = [c \in Calls |-> "idle"]
    /\ parent = [c \in Calls |-> None]
    /\ worker = None /\ holder = None /\ waiters = <<>>
    /\ got = [c \in Calls |-> <<>>]

Move(c, place) == pc' = [pc EXCEPT ![c] = place]

-----------------------------------------------------------------------------
(* block_on_aux_thread.                                                    *)

\* A call from a thread of the host (or from a WsEventObserver, which runs on
\* the other runtime), or from inside the observer of call p.
Call(c, k, p) ==
    /\ pc[c] = "idle"
    /\ p # None => worker = p /\ \A d \in Calls : parent[d] # p
    /\ Move(c, "spawned")
    /\ kind' = [kind EXCEPT ![c] = k]
    /\ parent' = [parent EXCEPT ![c] = p]
    /\ UNCHANGED <<worker, holder, waiters, got>>

\* HttpClient::get to patch.
HttpCall(c, p) == Call(c, "request", p)

\* HttpClient::sse_stream: the lines are gathered and returned at the end.
SseCall(c, p) == Call(c, "request", p)

\* WsClient::new waits for the connection, and for nothing that comes later.
WsNew(c, p) == Call(c, "request", p)

EvaluateQuality(c, p) == Call(c, "quality", p)
SseConnect(c, p) == Call(c, "sse", p)

\* Mutant: the evaluator is taken out and put back after the measurement,
\* instead of being locked meanwhile.
PollTakePut(c) ==
    /\ pc[c] = "spawned" /\ worker = None /\ Move(c, "waiting")
    /\ UNCHANGED <<kind, parent, worker, holder, waiters, got>>

\* A poll: the request goes out, or the lock is asked for.
Poll(c) ==
    /\ pc[c] = "spawned" /\ worker = None
    /\ IF kind[c] # "quality" \/ holder = c
       THEN Move(c, "waiting") /\ UNCHANGED <<holder, waiters>>
       ELSE IF holder = None
       THEN Move(c, "waiting") /\ holder' = c /\ UNCHANGED waiters
       ELSE Move(c, "locked") /\ waiters' = Append(waiters, c) /\ UNCHANGED holder
    /\ UNCHANGED <<kind, parent, worker, got>>

\* The network answers, with success or with an error.
Answer(c) ==
    /\ pc[c] = "waiting" /\ Move(c, "ready")
    /\ UNCHANGED <<kind, parent, worker, holder, waiters, got>>

\* Mutant: the request records its round trip in EVALUATOR before it ends, for
\* which it needs the lock.
FinishRequestMeasured(c) ==
    /\ pc[c] = "ready" /\ worker = None /\ kind[c] = "request"
    /\ holder = None /\ Move(c, "done")
    /\ UNCHANGED <<kind, parent, worker, holder, waiters, got>>

\* The future ends and its result is sent to the caller.
FinishRequest(c) ==
    /\ pc[c] = "ready" /\ worker = None /\ kind[c] = "request"
    /\ Move(c, "done")
    /\ UNCHANGED <<kind, parent, worker, holder, waiters, got>>

\* The measurement is evaluated and the lock passed on to the first waiter,
\* which then has to be polled.
FinishQuality(c) ==
    /\ pc[c] = "ready" /\ worker = None /\ kind[c] = "quality"
    /\ IF waiters = <<>>
       THEN Move(c, "done") /\ holder' = None /\ UNCHANGED waiters
       ELSE /\ pc' = [pc EXCEPT ![c] = "done", ![Head(waiters)] = "spawned"]
            /\ holder' = Head(waiters) /\ waiters' = Tail(waiters)
    /\ UNCHANGED <<kind, parent, worker, got>>

\* The caller's thread gets the result; nothing holds it up.
Return(c) ==
    /\ pc[c] = "done" /\ Move(c, "returned")
    /\ UNCHANGED <<kind, parent, worker, holder, waiters, got>>

-----------------------------------------------------------------------------
(* SseClientHandle::connect: the whole life of the client is one call.     *)

\* SseClient::connect has failed.
SseFails(c) ==
    /\ pc[c] = "ready" /\ worker = None /\ kind[c] = "sse" /\ got[c] = <<>>
    /\ Move(c, "done")
    /\ UNCHANGED <<kind, parent, worker, holder, waiters, got>>

\* The observer is called: Open, then a Data or Error for every line, then
\* Close.
Observe(c, told) ==
    /\ pc[c] = "ready" /\ worker = None /\ kind[c] = "sse"
    /\ told = "open" <=> got[c] = <<>>
    /\ told = "line" => Len(got[c]) <= MaxLines
    /\ Move(c, "observing") /\ worker' = c
    /\ got' = [got EXCEPT ![c] = Append(@, told)]
    /\ UNCHANGED <<kind, parent, holder, waiters>>

\* on_event returns, unless it waits for a call that it has made.
ObserverReturns(c) ==
    /\ pc[c] = "observing"
    /\ \A d \in Calls : parent[d] = c => pc[d] = "returned"
    /\ worker' = None
    /\ Move(c, IF got[c][Len(got[c])] = "close" THEN "done" ELSE "waiting")
    /\ UNCHANGED <<kind, parent, holder, waiters, got>>

-----------------------------------------------------------------------------
Run(c) ==
    \/ Poll(c) \/ FinishRequest(c) \/ FinishQuality(c) \/ Return(c)
    \/ SseFails(c) \/ \E told \in Told : Observe(c, told)
    \/ ObserverReturns(c)

AuxNext ==
    \E c \in Calls :
        \/ Run(c) \/ Answer(c)
        \/ \E p \in Calls \cup {None} :
             \/ HttpCall(c, p) \/ SseCall(c, p) \/ WsNew(c, p)
             \/ EvaluateQuality(c, p) \/ SseConnect(c, p)

AuxSpec == AuxInit /\ [][AuxNext]_auxVars

\* The worker polls every future that is ready, in turn, and observers return.
\* Nothing is assumed of the network.
AuxFairness == \A c \in Calls : SF_auxVars(Run(c))

AuxFairSpec == AuxSpec /\ AuxFairness

-----------------------------------------------------------------------------
(* Properties.                                                             *)

\* Every variable holds values of its type.
AuxTypeOK ==
    /\ kind \in [Calls -> Kinds] /\ pc \in [Calls -> PCs]
    /\ parent \in [Calls -> Calls \cup {None}]
    /\ worker \in Calls \cup {None} /\ holder \in Calls \cup {None}
    /\ waiters \in Seq(Calls)
    /\ \A c \in Calls :
          got[c] \in Seq(Told) /\ Len(got[c]) <= MaxLines + 2

\* A call that an SSE observer makes is never even started: its future needs
\* the worker that waits for it.
NestedNeverRuns == \A c \in Calls : parent[c] # None => pc[c] = "spawned"

\* The observer has made such a call: the worker is lost for ever.
WorkerLost == \E c \in Calls : parent[c] # None

\* The worker is kept by a call whose observer runs on it and by no other: not
\* by one that waits for the lock, the network or the caller.
WorkerInUse == \A c \in Calls : worker = c <=> pc[c] = "observing"

\* The lock of EVALUATOR is with a call that measures or has just got it, it is
\* not free while somebody waits for it, and who measures has it, across the
\* await for the network: no two measure at a time.
LockInUse ==
    /\ holder # None => /\ kind[holder] = "quality"
                        /\ pc[holder] \in {"spawned", "waiting", "ready"}
    /\ (\E c \in Calls : pc[c] = "locked") => holder # None
    /\ \A c \in Calls :
          kind[c] = "quality" /\ pc[c] \in {"waiting", "ready"} => holder = c

\* The observer is told of the end only once, as the last thing, and the
\* constructor returns a handle only after that.
ConnectReturnsAtTheEnd ==
    \A c \in Calls : kind[c] = "sse" =>
        /\ \A i \in DOMAIN got[c] : got[c][i] = "close" => i = Len(got[c])
        /\ pc[c] \in {"done", "returned"} =>
               got[c] = <<>> \/ got[c][Len(got[c])] = "close"

\* A call whose answer has come returns, whatever the other calls wait for,
\* unless an observer has blocked the worker.
AnsweredReturns ==
    \A c \in Calls :
        (pc[c] = "ready" /\ kind[c] # "sse")
            ~> (pc[c] = "returned" \/ WorkerLost)

\* The calls share the one worker and the lock: neither is with a call that
\* does not use it, and a stream keeps its caller until it has ended.
WorkerShared ==
    /\ AuxTypeOK /\ WorkerInUse /\ LockInUse
    /\ NestedNeverRuns /\ ConnectReturnsAtTheEnd
=============================================================================

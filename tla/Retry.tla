------------------------------- MODULE Retry --------------------------------
(***************************************************************************)
(* The three retries of catcher-http, one around the other: the middleware *)
(* of the HTTP client (transport/retry_middleware.rs with the policy of    *)
(* resilience/backoff.rs), HttpTransport::execute, which runs a request    *)
(* again after a 421, and the general retry_with_backoff                   *)
(* (resilience/retry.rs) that a caller puts around execute.  They meet in  *)
(* the errors they pass on (execute_http_request, the mapping of the       *)
(* middleware's errors, and the categories of catcher-core's error.rs) and *)
(* in the counters of observability/metrics.rs, which requests share.      *)
(* What a 421 does to the client and the breaker is HttpTransport's.       *)
(***************************************************************************)
EXTENDS Naturals, Sequences, FiniteSets

CONSTANTS
    Requests,   \* concurrent uses of retry_with_backoff
    MaxInner,   \* bound: max_attempts of the middleware
    MaxOuter,   \* bound: max_attempts of retry_with_backoff
    MaxTimes    \* the number of delays that backon's builders give by default

ASSUME RetryAssumption ==
    /\ IsFiniteSet(Requests)
    /\ MaxInner \in Nat /\ MaxOuter \in Nat /\ MaxTimes \in Nat

VARIABLES
    inner,      \* max_attempts of the middleware, never changed
    outer,      \* max_attempts of retry_with_backoff, never changed
    req,        \* each request
    requests,   \* http_requests_total
    successes,  \* http_successes
    retries,    \* http_retries
    snap        \* a snapshot of the counters being taken

counters == <<requests, successes, retries>>
vars == <<inner, outer, req, counters, snap>>

\* result is "ok", or the kind of the error: "retryable" and "fatal" are the two
\* categories, and "misdirected" is a 421, not retryable either.  wraps has the
\* attempts of the RetryExhausted errors around it, the outermost first.  An
\* operation, execute, runs the request once, or twice if the first run ends
\* with a 421; run says which this is, and past are the middleware's retries in
\* it.
\*
\* History: sends counts the requests sent, sent the runs that sent one,
\* rejected those that did not, redone the second runs, told the calls of
\* on_retry, and hidden the requests sent of which the error that follows does
\* not tell: retries that ended with a response of status 5xx, and runs that
\* ended with a 421.
Results == {"none", "ok", "retryable", "fatal", "misdirected"}

RequestType ==
    [pc : {"idle", "calling", "sending", "backoff", "recording", "recorded",
           "rebuilding", "failed", "sleeping", "done", "dropped"},
     attempt : Nat, run : 1..2, past : Nat, result : Results,
     wraps : Seq(Nat), sends : Nat, rejected : Nat, sent : Nat, redone : Nat,
     told : Nat, hidden : Nat]

Init ==
    /\ inner \in 0..MaxInner /\ outer \in 0..MaxOuter
    /\ req = [r \in Requests |->
                [pc |-> "idle", attempt |-> 0, run |-> 1, past |-> 0,
                 result |-> "none", wraps |-> <<>>, sends |-> 0,
                 rejected |-> 0, sent |-> 0, redone |-> 0, told |-> 0,
                 hidden |-> 0]]
    /\ requests = 0 /\ successes = 0 /\ retries = 0
    /\ snap = [pc |-> "idle", requests |-> 0, successes |-> 0, late |-> 0]

At(r, place) == req[r].pc = place

-----------------------------------------------------------------------------
(* The operation: HttpTransport::execute, over the middleware.             *)

\* retry_with_backoff runs the operation, first or after a delay.
RunOperation(r) ==
    /\ At(r, "idle") \/ At(r, "sleeping")
    /\ req' = [req EXCEPT ![r].pc = "calling", ![r].past = 0,
                          ![r].attempt = @ + 1, ![r].run = 1,
                          ![r].wraps = <<>>]
    /\ UNCHANGED <<inner, outer, counters, snap>>

\* The run has a result, which is then counted.
Finish(r, result, wraps) ==
    req' = [req EXCEPT ![r].pc = "recording", ![r].result = result,
                       ![r].wraps = wraps]

\* CircuitBreakerOpen: nothing is sent.
Rejected(r) ==
    /\ At(r, "calling")
    /\ req' = [req EXCEPT ![r].pc = "recording", ![r].result = "retryable",
                          ![r].rejected = @ + 1]
    /\ UNCHANGED <<inner, outer, counters, snap>>

\* NoCloneError: the body is a stream, which the middleware cannot send twice;
\* or the body cannot be encoded; or a token fires while it waits for a permit.
NotCloneable(r) ==
    /\ At(r, "calling")
    /\ req' = [req EXCEPT ![r].pc = "recording", ![r].result = "fatal",
                          ![r].rejected = @ + 1]
    /\ UNCHANGED <<inner, outer, counters, snap>>

Send(r) ==
    /\ At(r, "calling")
    /\ req' = [req EXCEPT ![r].pc = "sending", ![r].sends = @ + 1,
                          ![r].sent = @ + 1]
    /\ UNCHANGED <<inner, outer, counters, snap>>

\* Mutant: the retries without the first try.
WrapsRetries(past) == IF past > 0 THEN <<past>> ELSE <<>>

\* RetryError::WithRetries becomes RetryExhausted, with the first try counted.
Wraps(past) == IF past > 0 THEN <<past + 1>> ELSE <<>>

\* A response that the middleware does not retry.  A status from 400 is an
\* HttpError and not retryable, a body that cannot be read an internal error.
Response(r, result) ==
    /\ At(r, "sending") /\ Finish(r, result, <<>>)
    /\ UNCHANGED <<inner, outer, counters, snap>>

\* An error that the middleware does not take for transient.  Whatever error
\* reqwest gives is retryable by its category.
Fatal(r) ==
    /\ At(r, "sending") /\ Finish(r, "retryable", Wraps(req[r].past))
    /\ UNCHANGED <<inner, outer, counters, snap>>

\* The middleware returns the last response like any other: an HttpError
\* without any trace of the retries, and retryable if its status is 5xx.
LastResponse(r, status) ==
    req' = [req EXCEPT
              ![r].pc = "recording", ![r].wraps = <<>>,
              ![r].result = IF status = "status_5xx" THEN "retryable" ELSE "fatal",
              ![r].hidden = IF status = "status_5xx" THEN @ + req[r].past ELSE @]

\* Retryable::Transient: a timeout, a failed connection, or a response with
\* status 5xx, 408 or 429.  The policy allows max_attempts retries.
Transient(r, outcome) ==
    /\ At(r, "sending")
    /\ IF req[r].past < inner
       THEN req' = [req EXCEPT ![r].pc = "backoff"]
       ELSE IF outcome = "error" THEN Finish(r, "retryable", Wraps(req[r].past))
       ELSE LastResponse(r, outcome)
    /\ UNCHANGED <<inner, outer, counters, snap>>

\* The delay is over: the retry is counted and sent.
Resend(r) ==
    /\ At(r, "backoff")
    /\ retries' = retries + 1
    /\ req' = [req EXCEPT ![r].pc = "sending", ![r].sends = @ + 1,
                          ![r].past = @ + 1]
    /\ UNCHANGED <<inner, outer, requests, successes, snap>>

\* A token fires while the request is out or waits: "request cancelled".  The
\* queue's timeout has the same effect.
Cancel(r) ==
    /\ At(r, "sending") \/ At(r, "backoff")
    /\ Finish(r, "fatal", <<>>)
    /\ UNCHANGED <<inner, outer, counters, snap>>

-----------------------------------------------------------------------------
(* execute, when its first run has ended with a 421.                       *)

\* network_changed cannot build a new client: its error, which is retryable if
\* it is one of TLS, is that of the operation.  No request is counted.
RebuildFails(r, result) ==
    /\ At(r, "rebuilding")
    /\ req' = [req EXCEPT
                 ![r].pc = "failed", ![r].result = result,
                 ![r].hidden = IF result = "retryable" THEN @ + req[r].past
                                                       ELSE @]
    /\ UNCHANGED <<inner, outer, counters, snap>>

\* The retry is counted, whether it will be sent or not, and run.
RunAgain(r) ==
    /\ At(r, "rebuilding")
    /\ retries' = retries + 1
    /\ req' = [req EXCEPT ![r].pc = "calling", ![r].past = 0,
                          ![r].run = 2, ![r].redone = @ + 1,
                          ![r].hidden = @ + req[r].past + 1]
    /\ UNCHANGED <<inner, outer, requests, successes, snap>>

-----------------------------------------------------------------------------
(* MetricsCollector.  Each counter is atomic, the collector is not.        *)

\* record_http_request, its first half.
RecordTotal(r) ==
    /\ At(r, "recording") /\ req' = [req EXCEPT ![r].pc = "recorded"]
    /\ requests' = requests + 1
    /\ snap' = [snap EXCEPT !.late = IF snap.pc = "half" THEN @ + 1 ELSE @]
    /\ UNCHANGED <<inner, outer, successes, retries>>

\* Its second half; the operation returns, unless this was the first run and
\* got a 421.
RecordOutcome(r) ==
    /\ At(r, "recorded")
    /\ req' = [req EXCEPT ![r].pc =
                 IF req[r].result = "ok" THEN "done"
                 ELSE IF req[r].result = "misdirected" /\ req[r].run = 1
                 THEN "rebuilding" ELSE "failed"]
    /\ successes' = IF req[r].result = "ok" THEN successes + 1 ELSE successes
    /\ UNCHANGED <<inner, outer, requests, retries, snap>>

\* snapshot() loads the counters one after the other.  History: late are the
\* requests that are counted between the two loads.
SnapshotRequests ==
    /\ snap.pc = "idle"
    /\ snap' = [pc |-> "half", requests |-> requests, successes |-> 0,
                late |-> 0]
    /\ UNCHANGED <<inner, outer, req, counters>>

SnapshotSuccesses ==
    /\ snap.pc = "half"
    /\ snap' = [snap EXCEPT !.pc = "done", !.successes = successes]
    /\ UNCHANGED <<inner, outer, req, counters>>

-----------------------------------------------------------------------------
(* retry_with_backoff.                                                     *)

\* Mutant: RetryExhausted can be retried.
RetryableWhatever(q) == q.result = "retryable"

\* CatcherError::category of the operation's error.
Retryable(q) == q.result = "retryable" /\ q.wraps = <<>>

\* The error is wrapped if there was more than one attempt.
GiveUp(q) ==
    [q EXCEPT !.pc = "done",
              !.wraps = IF q.attempt > 1 THEN <<q.attempt>> \o @ ELSE @]

\* when() decides, with the caller's retry_if, and calls on_retry; then backon
\* takes its next delay, or finds that there is none left.
Decide(r, want) ==
    /\ At(r, "failed")
    /\ LET q == req[r]
           told == [q EXCEPT !.told = @ + 1]
       IN  req' = [req EXCEPT ![r] =
                     IF ~(Retryable(q) /\ want /\ q.attempt < outer) THEN GiveUp(q)
                     ELSE IF q.attempt > MaxTimes THEN GiveUp(told)
                     ELSE [told EXCEPT !.pc = "sleeping"]]
    /\ UNCHANGED <<inner, outer, counters, snap>>

\* The caller drops the future.
Drop(r) ==
    /\ req[r].pc \notin {"idle", "done", "dropped"}
    /\ req' = [req EXCEPT ![r].pc = "dropped"]
    /\ UNCHANGED <<inner, outer, counters, snap>>

-----------------------------------------------------------------------------
Step(r) ==
    \/ RunOperation(r) \/ Rejected(r) \/ NotCloneable(r) \/ Send(r)
    \/ \E result \in {"ok", "fatal", "misdirected"} : Response(r, result)
    \/ \E outcome \in {"error", "status_5xx", "status_408_429"} : Transient(r, outcome)
    \/ Fatal(r) \/ Resend(r) \/ Cancel(r)
    \/ \E result \in {"fatal", "retryable"} : RebuildFails(r, result)
    \/ RunAgain(r)
    \/ RecordTotal(r) \/ RecordOutcome(r)
    \/ \E want \in BOOLEAN : Decide(r, want)

Next ==
    \/ \E r \in Requests : Step(r) \/ Drop(r)
    \/ SnapshotRequests \/ SnapshotSuccesses

Spec == Init /\ [][Next]_vars

-----------------------------------------------------------------------------
(* Properties.                                                             *)

\* Every variable holds values of its type.
TypeOK ==
    /\ inner \in 0..MaxInner /\ outer \in 0..MaxOuter
    /\ \A r \in Requests : req[r] \in RequestType /\ req[r].past <= inner
    /\ requests \in Nat /\ successes \in Nat /\ retries \in Nat
    /\ snap \in [pc : {"idle", "half", "done"}, requests : Nat,
                 successes : Nat, late : Nat]

\* The loops add up: an error that the middleware has retried is not retried
\* again, so a request is sent max_attempts times by the outer loop at most and
\* max_attempts times more by the inner one.  They multiply only for a server
\* that answers with status 5xx or 421, of which the errors do not tell, and
\* then a 421 may double the product and nothing may exceed that.
SendBudget ==
    LET most == IF outer = 0 THEN 1 ELSE outer
    IN  \A r \in Requests :
            /\ req[r].sends <= most + inner + req[r].hidden
            /\ req[r].sends <= 2 * most * (inner + 1)

\* The attempts that an error reports, both loops taken together.  The outer
\* loop wraps whatever error ends it, one that the middleware has wrapped
\* included: the attempts of the inner error are those of the last operation.
Reported(wraps) ==
    CASE Len(wraps) = 0 -> 1
      [] Len(wraps) = 1 -> wraps[1]
      [] OTHER -> wraps[1] - 1 + wraps[2]

\* The attempts that an error reports are those that were made, the ones that
\* got no further than the breaker included and the hidden ones left out; a
\* plain error means one.  An error that is not retryable does not tell.
AttemptsReported ==
    \A r \in Requests :
        At(r, "done") /\ req[r].result = "retryable" =>
            Reported(req[r].wraps) + req[r].hidden = req[r].sends + req[r].rejected

\* What the documentation of retry_with_backoff says: a RetryExhausted that the
\* operation returns is not wrapped again.
NeverNested == \A r \in Requests : Len(req[r].wraps) <= 1

\* http_retries is the number of requests that the middleware has sent again
\* and of those that execute has run again, sent or rejected, whatever was
\* cancelled or dropped meanwhile.
RetriesCounted ==
    LET again(r) == req[r].sends - req[r].sent + req[r].redone
    IN  retries = Cardinality(UNION {{r} \X (1..again(r)) : r \in Requests})

\* on_retry is called once for each retry; once too often if the attempts
\* allowed are more than the delays that backon has.
HookMatchesRetries ==
    \A r \in Requests :
        At(r, "done") =>
            \/ req[r].told = req[r].attempt - 1
            \/ /\ req[r].told = req[r].attempt
               /\ outer > MaxTimes + 1 /\ req[r].attempt = MaxTimes + 1

\* A snapshot shows more successes than requests, a success rate above 1, by
\* no more than the requests that were recorded while it was taken, whatever
\* else is between the two halves of its record then.
SnapshotHonest ==
    snap.pc = "done" => snap.successes <= snap.requests + snap.late

\* What the errors, the hook, the counters and their snapshots tell of the
\* attempts of a request is what was done.
AttemptsTold ==
    /\ TypeOK
    /\ AttemptsReported /\ RetriesCounted /\ HookMatchesRetries
    /\ SnapshotHonest
=============================================================================

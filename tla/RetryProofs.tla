----------------------------- MODULE RetryProofs -----------------------------
(***************************************************************************)
(* Proofs about Retry, for any number of concurrent requests and whatever  *)
(* the two loops and backon's builders allow, and about RttWindow and its  *)
(* users Quality, AdaptiveTimeout and Heartbeat, for windows of any length *)
(* and any number of evaluations, hosts, addresses, requests and pings.    *)
(***************************************************************************)
EXTENDS Retry, Quality, AdaptiveTimeout, Heartbeat, FiniteSetTheorems, TLAPS

-----------------------------------------------------------------------------
(* The inductive invariant: the books of each request, and the counters    *)
(* that the requests share.                                                *)

\* The operations that were run, the second runs of their requests, at most one
\* in each, and the runs that sent something.
AttemptsOK(q) ==
    /\ IF q.pc = "idle" THEN q.attempt = 0 ELSE q.attempt >= 1
    /\ q.attempt <= (IF outer = 0 THEN 1 ELSE outer)
    /\ q.attempt <= MaxTimes + 1
    /\ q.pc = "sleeping" => q.attempt < outer /\ q.attempt <= MaxTimes
    /\ q.redone <= q.attempt
    /\ q.pc # "idle" /\ q.run = 1 => q.redone < q.attempt
    /\ q.pc = "rebuilding" => q.run = 1
    /\ q.sent + q.rejected <= q.attempt + q.redone
    /\ q.pc = "calling" => q.sent + q.rejected + 1 = q.attempt + q.redone
    /\ q.pc \notin {"calling", "dropped"} =>
         q.sent + q.rejected = q.attempt + q.redone

\* Of the requests sent, one belongs to each run that was not followed by a
\* second one; the others are hidden or those of the run that is not yet, or
\* will not be, followed by another.
SendsOK(q) ==
    /\ q.past <= inner
    /\ q.sent + q.hidden <= q.sends + q.redone
    /\ q.sends + q.redone <= q.sent + q.hidden + inner
    /\ q.pc = "calling" => q.past = 0
    /\ q.pc = "backoff" => q.past < inner
    /\ q.pc \in {"idle", "calling", "sleeping"} =>
         q.sends + q.redone = q.sent + q.hidden
    /\ \/ q.pc \in {"sending", "backoff", "rebuilding"}
       \/ q.pc \in {"recording", "recorded"} /\ q.result = "misdirected"
       => q.sends + q.redone = q.sent + q.hidden + q.past

\* No run sends more than the middleware allows.
VolumeOK(q) ==
    /\ q.sends <= q.sent * (inner + 1)
    /\ q.pc \in {"sending", "backoff"} =>
         q.sends + inner <= q.sent * (inner + 1) + q.past

\* The middleware's retries are in the error, or hidden.
WrapsOK(q) ==
    /\ q.pc \in {"calling", "rebuilding"} => q.wraps = <<>>
    /\ q.pc \in {"recording", "recorded"} /\ q.result = "misdirected" =>
         q.wraps = <<>>
    /\ q.pc \in {"recording", "recorded", "failed"} /\ q.result = "retryable" =>
         \/ q.wraps = <<>> /\ q.sends + q.redone = q.sent + q.hidden
         \/ /\ q.wraps = <<q.past + 1>>
            /\ q.sends + q.redone = q.sent + q.hidden + q.past
    /\ q.pc = "done" /\ q.result = "retryable" =>
         Reported(q.wraps) + q.hidden = q.sends + q.rejected

\* on_retry was called before every operation but the first.
HookOK(q) ==
    /\ q.pc = "idle" => q.told = 0
    /\ q.pc \notin {"idle", "sleeping", "done", "dropped"} =>
         q.told + 1 = q.attempt
    /\ q.pc = "sleeping" => q.told = q.attempt
    /\ q.pc = "done" =>
         \/ q.told + 1 = q.attempt
         \/ /\ q.told = q.attempt
            /\ outer > MaxTimes + 1 /\ q.attempt = MaxTimes + 1

RequestOK(q) ==
    /\ q \in RequestType
    /\ AttemptsOK(q) /\ SendsOK(q) /\ VolumeOK(q) /\ WrapsOK(q) /\ HookOK(q)

LimitsOK == inner \in 0..MaxInner /\ outer \in 0..MaxOuter

RequestsOK ==
    /\ req \in [Requests -> RequestType]
    /\ \A r \in Requests : RequestOK(req[r])

\* The retries of the middleware and of execute, one by one.
Repeats(q) == q.sends - q.sent + q.redone
Resent == UNION {{r} \X (1..Repeats(req[r])) : r \in Requests}

RetriesOK == IsFiniteSet(Resent) /\ retries = Cardinality(Resent)

\* The requests that are between the two halves of record_http_request.
Recorded == {r \in Requests : At(r, "recorded")}

\* A success is counted after its request, and a snapshot loads the requests
\* first: those that it does not show are late.
SnapshotOK ==
    /\ requests \in Nat /\ successes \in Nat
    /\ successes + Cardinality(Recorded) <= requests
    /\ snap \in [pc : {"idle", "half", "done"}, requests : Nat,
                 successes : Nat, late : Nat]
    /\ snap.pc = "half" => requests = snap.requests + snap.late
    /\ snap.pc = "done" => snap.successes <= snap.requests + snap.late

IInv == LimitsOK /\ RequestsOK /\ RetriesOK /\ SnapshotOK

-----------------------------------------------------------------------------
(* One request.                                                            *)

\* How many attempts an error reports, by the errors that wrap it.
LEMMA ReportedIs ==
    /\ Reported(<<>>) = 1
    /\ \A m \in Nat : Reported(<<m>>) = m
    /\ \A s : Len(s) = 2 => Reported(s) = s[1] - 1 + s[2]
  BY DEF Reported

\* One factor more.
LEMMA TimesPlusOne ==
    ASSUME NEW m \in Nat, NEW k \in Nat
    PROVE  m * k \in Nat /\ (m + 1) * k = m * k + k
  OBVIOUS

\* A product grows with its first factor.
LEMMA TimesGrows ==
    ASSUME NEW m \in Nat, NEW n \in Nat, NEW k \in Nat, m <= n
    PROVE  m * k <= n * k
  OBVIOUS

\* Giving up tells the attempts of both loops.
LEMMA GiveUpOK ==
    ASSUME LimitsOK, NEW q \in RequestType, q.pc = "failed",
           AttemptsOK(q), SendsOK(q), VolumeOK(q), WrapsOK(q),
           \/ q.told + 1 = q.attempt
           \/ q.told = q.attempt /\ q.attempt < outer /\ q.attempt > MaxTimes
    PROVE  RequestOK(GiveUp(q))
<1> DEFINE n == GiveUp(q)
<1> DEFINE w == IF q.attempt > 1 THEN <<q.attempt>> \o q.wraps ELSE q.wraps
<1>0. inner \in Nat /\ outer \in Nat /\ MaxTimes \in Nat
  BY RetryAssumption DEF LimitsOK
<1>1. n = [q EXCEPT !.pc = "done", !.wraps = w]
  BY DEF GiveUp
<1>2. w \in Seq(Nat)
  BY DEF RequestType
<1>3. ASSUME q.result = "retryable"
      PROVE  Reported(w) + q.hidden = q.sends + q.rejected
  <2>0. /\ q.attempt \in Nat /\ q.attempt >= 1 /\ q.past \in Nat
        /\ q.hidden \in Nat /\ q.sends \in Nat /\ q.sent \in Nat
        /\ q.rejected \in Nat /\ q.redone \in Nat
        /\ q.sent + q.rejected = q.attempt + q.redone
    BY DEF AttemptsOK, RequestType
  <2>1. CASE q.wraps = <<>> /\ q.sends + q.redone = q.sent + q.hidden
    <3>1. w = IF q.attempt > 1 THEN <<q.attempt>> ELSE <<>>
      BY <2>0, <2>1
    <3>2. Reported(w) = q.attempt
      BY <2>0, <3>1, ReportedIs
    <3>3. q.attempt + q.hidden = q.sends + q.rejected
      <4>1. q.sends + q.redone = q.sent + q.hidden
        BY <2>1
      <4> QED
        BY <2>0, <4>1
    <3> QED
      BY <3>2, <3>3
  <2>2. CASE /\ q.wraps = <<q.past + 1>>
             /\ q.sends + q.redone = q.sent + q.hidden + q.past
    <3>1. \A i \in Nat, j \in Nat :
            LET ij == <<i>> \o <<j>>
            IN  Len(ij) = 2 /\ ij[1] = i /\ ij[2] = j
      OBVIOUS
    <3>2. Reported(w) = q.attempt + q.past
      <4>1. CASE q.attempt > 1
        <5>1. w = <<q.attempt>> \o <<q.past + 1>>
          BY <2>2, <4>1
        <5>2. q.past + 1 \in Nat
          BY <2>0
        <5> HIDE DEF w
        <5>3. Len(w) = 2 /\ w[1] = q.attempt /\ w[2] = q.past + 1
          BY <2>0, <3>1, <5>1, <5>2
        <5>4. Reported(w) = q.attempt - 1 + (q.past + 1)
          BY <5>3, ReportedIs
        <5> QED
          BY <2>0, <5>4
      <4>2. CASE ~(q.attempt > 1)
        <5>1. w = <<q.past + 1>>
          BY <2>2, <4>2
        <5> QED
          BY <2>0, <4>2, <5>1, ReportedIs
      <4> QED
        BY <4>1, <4>2
    <3> QED
      BY <2>0, <2>2, <3>2
  <2> QED
    BY <1>3, <2>1, <2>2 DEF WrapsOK
<1> HIDE DEF n, w
<1>4. n \in RequestType
  BY <1>1, <1>2 DEF RequestType, Results
<1>5. AttemptsOK(n)
  BY <1>0, <1>1 DEF AttemptsOK, RequestType
<1>6. SendsOK(n)
  BY <1>0, <1>1 DEF SendsOK, RequestType
<1>7. WrapsOK(n)
  BY <1>0, <1>1, <1>3 DEF WrapsOK, RequestType
<1>8. HookOK(n)
  BY <1>0, <1>1 DEF AttemptsOK, HookOK, RequestType
<1>9. VolumeOK(n)
  BY <1>0, <1>1 DEF VolumeOK, RequestType
<1>10. RequestOK(n)
  BY <1>4, <1>5, <1>6, <1>7, <1>8, <1>9 DEF RequestOK
<1> QED
  BY <1>10 DEF n

\* Every step of a request replaces its record by one with right books.
LEMMA StepOK ==
    ASSUME LimitsOK, RequestsOK, NEW r \in Requests, Step(r) \/ Drop(r)
    PROVE  /\ RequestOK(req'[r])
           /\ \A s \in Requests \ {r} : req'[s] = req[s]
           /\ req' \in [Requests -> RequestType]
           /\ inner' = inner /\ outer' = outer
<1> DEFINE q == req[r]
<1> DEFINE n == req'[r]
<1>0. /\ RequestOK(q) /\ inner \in Nat /\ outer \in Nat /\ MaxTimes \in Nat
      /\ q \in RequestType
  BY RetryAssumption DEF RequestsOK, RequestOK, LimitsOK
<1>1. ASSUME RunOperation(r) PROVE RequestOK(n)
  <2>1. /\ n = [q EXCEPT !.pc = "calling", !.past = 0,
                         !.attempt = q.attempt + 1, !.run = 1,
                         !.wraps = <<>>]
        /\ q.pc \in {"idle", "sleeping"}
    BY <1>1 DEF RunOperation, RequestsOK, At
  <2> HIDE DEF q, n
  <2>0. q.attempt + 1 \in Nat /\ <<>> \in Seq(Nat) /\ 1 \in 1..2
    BY <1>0 DEF RequestType
  <2>2. n \in RequestType
    BY <1>0, <2>1, <2>0 DEF RequestType, Results
  <2>3. AttemptsOK(n)
    <3>1. /\ n.pc = "calling" /\ n.attempt = q.attempt + 1 /\ n.run = 1
          /\ n.redone = q.redone /\ n.sent = q.sent
          /\ n.rejected = q.rejected
      BY <1>0, <2>1 DEF RequestType
    <3>2. /\ q.attempt \in Nat /\ q.redone \in Nat
          /\ q.sent \in Nat /\ q.rejected \in Nat
      BY <1>0 DEF RequestType
    <3>3. /\ q.redone <= q.attempt
          /\ q.sent + q.rejected = q.attempt + q.redone
          /\ q.attempt + 1 <= (IF outer = 0 THEN 1 ELSE outer)
          /\ q.attempt + 1 <= MaxTimes + 1
      BY <1>0, <2>1, <3>2 DEF RequestOK, AttemptsOK
    <3> QED
      BY <1>0, <3>1, <3>2, <3>3 DEF AttemptsOK
  <2>4. SendsOK(n)
    BY <1>0, <2>1 DEF RequestOK, SendsOK, RequestType
  <2>5. WrapsOK(n)
    BY <1>0, <2>1 DEF RequestOK, SendsOK, WrapsOK, RequestType
  <2>6. HookOK(n)
    BY <1>0, <2>1 DEF RequestOK, AttemptsOK, HookOK, RequestType
  <2>8. VolumeOK(n)
    BY <1>0, <2>1 DEF RequestOK, VolumeOK, RequestType
  <2> QED
    BY <2>2, <2>3, <2>4, <2>5, <2>6, <2>8 DEF RequestOK
<1>2. ASSUME Rejected(r) PROVE RequestOK(n)
  <2>1. /\ n = [q EXCEPT !.pc = "recording", !.result = "retryable",
                         !.rejected = q.rejected + 1]
        /\ q.pc = "calling"
    BY <1>2 DEF Rejected, RequestsOK, At
  <2> HIDE DEF q, n
  <2>0. q.rejected + 1 \in Nat
    BY <1>0 DEF RequestType
  <2>2. n \in RequestType
    BY <1>0, <2>1, <2>0 DEF RequestType, Results
  <2>3. AttemptsOK(n)
    <3>1. /\ n.pc = "recording" /\ n.attempt = q.attempt /\ n.run = q.run
          /\ n.redone = q.redone /\ n.sent = q.sent
          /\ n.rejected = q.rejected + 1
          /\ q.attempt \in Nat /\ q.redone \in Nat /\ q.sent \in Nat
          /\ q.rejected \in Nat
      BY <1>0, <2>1 DEF RequestType
    <3>2. /\ q.sent + q.rejected + 1 = q.attempt + q.redone
          /\ q.redone <= q.attempt
          /\ q.run = 1 => q.redone < q.attempt
          /\ q.attempt >= 1 /\ q.attempt <= (IF outer = 0 THEN 1 ELSE outer)
          /\ q.attempt <= MaxTimes + 1
      BY <1>0, <2>1 DEF RequestOK, AttemptsOK
    <3> QED
      BY <1>0, <3>1, <3>2 DEF AttemptsOK
  <2>4. SendsOK(n)
    BY <1>0, <2>1 DEF RequestOK, SendsOK, RequestType
  <2>5. WrapsOK(n)
    BY <1>0, <2>1 DEF RequestOK, SendsOK, WrapsOK, RequestType
  <2>6. HookOK(n)
    BY <1>0, <2>1 DEF RequestOK, AttemptsOK, HookOK, RequestType
  <2>8. VolumeOK(n)
    BY <1>0, <2>1 DEF RequestOK, VolumeOK, RequestType
  <2> QED
    BY <2>2, <2>3, <2>4, <2>5, <2>6, <2>8 DEF RequestOK
<1>3. ASSUME NotCloneable(r) PROVE RequestOK(n)
  <2>1. /\ n = [q EXCEPT !.pc = "recording", !.result = "fatal",
                         !.rejected = q.rejected + 1]
        /\ q.pc = "calling"
    BY <1>3 DEF NotCloneable, RequestsOK, At
  <2> HIDE DEF q, n
  <2>0. q.rejected + 1 \in Nat
    BY <1>0 DEF RequestType
  <2>2. n \in RequestType
    BY <1>0, <2>1, <2>0 DEF RequestType, Results
  <2>3. AttemptsOK(n)
    <3>1. /\ n.pc = "recording" /\ n.attempt = q.attempt /\ n.run = q.run
          /\ n.redone = q.redone /\ n.sent = q.sent
          /\ n.rejected = q.rejected + 1
          /\ q.attempt \in Nat /\ q.redone \in Nat /\ q.sent \in Nat
          /\ q.rejected \in Nat
      BY <1>0, <2>1 DEF RequestType
    <3>2. /\ q.sent + q.rejected + 1 = q.attempt + q.redone
          /\ q.redone <= q.attempt
          /\ q.run = 1 => q.redone < q.attempt
          /\ q.attempt >= 1 /\ q.attempt <= (IF outer = 0 THEN 1 ELSE outer)
          /\ q.attempt <= MaxTimes + 1
      BY <1>0, <2>1 DEF RequestOK, AttemptsOK
    <3> QED
      BY <1>0, <3>1, <3>2 DEF AttemptsOK
  <2>4. SendsOK(n)
    BY <1>0, <2>1 DEF RequestOK, SendsOK, RequestType
  <2>5. WrapsOK(n)
    BY <1>0, <2>1 DEF RequestOK, SendsOK, WrapsOK, RequestType
  <2>6. HookOK(n)
    BY <1>0, <2>1 DEF RequestOK, AttemptsOK, HookOK, RequestType
  <2>8. VolumeOK(n)
    BY <1>0, <2>1 DEF RequestOK, VolumeOK, RequestType
  <2> QED
    BY <2>2, <2>3, <2>4, <2>5, <2>6, <2>8 DEF RequestOK
<1>4. ASSUME Send(r) PROVE RequestOK(n)
  <2>1. /\ n = [q EXCEPT !.pc = "sending", !.sends = q.sends + 1,
                         !.sent = q.sent + 1]
        /\ q.pc = "calling"
    BY <1>4 DEF Send, RequestsOK, At
  <2> HIDE DEF q, n
  <2>0. q.sends + 1 \in Nat /\ q.sent + 1 \in Nat
    BY <1>0 DEF RequestType
  <2>2. n \in RequestType
    BY <1>0, <2>1, <2>0 DEF RequestType, Results
  <2>3. AttemptsOK(n)
    <3>1. /\ n.pc = "sending" /\ n.attempt = q.attempt /\ n.run = q.run
          /\ n.redone = q.redone /\ n.sent = q.sent + 1
          /\ n.rejected = q.rejected
          /\ q.attempt \in Nat /\ q.redone \in Nat /\ q.sent \in Nat
          /\ q.rejected \in Nat
      BY <1>0, <2>1 DEF RequestType
    <3>2. /\ q.sent + q.rejected + 1 = q.attempt + q.redone
          /\ q.redone <= q.attempt
          /\ q.run = 1 => q.redone < q.attempt
          /\ q.attempt >= 1 /\ q.attempt <= (IF outer = 0 THEN 1 ELSE outer)
          /\ q.attempt <= MaxTimes + 1
      BY <1>0, <2>1 DEF RequestOK, AttemptsOK
    <3> QED
      BY <1>0, <3>1, <3>2 DEF AttemptsOK
  <2>7. /\ n.pc = "sending" /\ n.sends = q.sends + 1 /\ n.sent = q.sent + 1
        /\ n.past = q.past /\ n.redone = q.redone /\ n.hidden = q.hidden
        /\ q.sends \in Nat /\ q.sent \in Nat /\ q.redone \in Nat
        /\ q.hidden \in Nat
    BY <1>0, <2>1 DEF RequestType
  <2>4. SendsOK(n)
    <3>1. q.past = 0 /\ q.sends + q.redone = q.sent + q.hidden
      BY <1>0, <2>1 DEF RequestOK, SendsOK
    <3>2. n.sends + n.redone = n.sent + n.hidden
      BY <2>7, <3>1
    <3>3. /\ n.sends + n.redone \in Nat
          /\ n.sent + n.hidden <= n.sends + n.redone
          /\ n.sends + n.redone <= n.sent + n.hidden + inner
      BY <1>0, <2>7, <3>2
    <3> QED
      BY <1>0, <2>7, <3>1, <3>2, <3>3 DEF SendsOK
  <2>5. WrapsOK(n)
    BY <1>0, <2>1 DEF RequestOK, SendsOK, WrapsOK, RequestType
  <2>6. HookOK(n)
    BY <1>0, <2>1 DEF RequestOK, AttemptsOK, HookOK, RequestType
  <2>8. VolumeOK(n)
    <3>1. /\ q.sent * (inner + 1) \in Nat
          /\ (q.sent + 1) * (inner + 1) = q.sent * (inner + 1) + (inner + 1)
      BY <1>0, TimesPlusOne DEF RequestType
    <3>2. q.sends <= q.sent * (inner + 1) /\ q.past = 0
      BY <1>0, <2>1 DEF RequestOK, VolumeOK, SendsOK
    <3>3. /\ n.sends = q.sends + 1 /\ n.sent = q.sent + 1 /\ n.past = 0
      BY <2>7, <3>2
    <3> DEFINE v == q.sent * (inner + 1)
    <3> HIDE DEF v
    <3>4. /\ n.sent * (inner + 1) = v + (inner + 1)
          /\ v \in Nat /\ q.sends <= v
      BY <3>1, <3>2, <3>3 DEF v
    <3> QED
      BY <1>0, <2>7, <3>2, <3>3, <3>4 DEF VolumeOK
  <2> QED
    BY <2>2, <2>3, <2>4, <2>5, <2>6, <2>8 DEF RequestOK
<1>5. ASSUME NEW result \in {"ok", "fatal", "misdirected"},
             Response(r, result)
      PROVE  RequestOK(n)
  <2>1. /\ n = [q EXCEPT !.pc = "recording", !.result = result,
                         !.wraps = <<>>]
        /\ q.pc = "sending"
    BY <1>5 DEF Response, RequestsOK, At, Finish
  <2> HIDE DEF q, n
  <2>0. <<>> \in Seq(Nat)
    BY <1>0 DEF RequestType
  <2>2. n \in RequestType
    BY <1>0, <2>1, <2>0 DEF RequestType, Results
  <2>3. AttemptsOK(n)
    BY <1>0, <2>1 DEF RequestOK, AttemptsOK, RequestType
  <2>4. SendsOK(n)
    BY <1>0, <2>1 DEF RequestOK, SendsOK, RequestType
  <2>5. WrapsOK(n)
    BY <1>0, <2>1 DEF RequestOK, SendsOK, WrapsOK, RequestType
  <2>6. HookOK(n)
    BY <1>0, <2>1 DEF RequestOK, AttemptsOK, HookOK, RequestType
  <2>8. VolumeOK(n)
    BY <1>0, <2>1 DEF RequestOK, VolumeOK, RequestType
  <2> QED
    BY <2>2, <2>3, <2>4, <2>5, <2>6, <2>8 DEF RequestOK
<1>6. ASSUME Cancel(r) PROVE RequestOK(n)
  <2>1. /\ n = [q EXCEPT !.pc = "recording", !.result = "fatal",
                         !.wraps = <<>>]
        /\ q.pc \in {"sending", "backoff"}
    BY <1>6 DEF Cancel, RequestsOK, At, Finish
  <2> HIDE DEF q, n
  <2>0. <<>> \in Seq(Nat)
    BY <1>0 DEF RequestType
  <2>2. n \in RequestType
    BY <1>0, <2>1, <2>0 DEF RequestType, Results
  <2>3. AttemptsOK(n)
    BY <1>0, <2>1 DEF RequestOK, AttemptsOK, RequestType
  <2>4. SendsOK(n)
    BY <1>0, <2>1 DEF RequestOK, SendsOK, RequestType
  <2>5. WrapsOK(n)
    BY <1>0, <2>1 DEF RequestOK, SendsOK, WrapsOK, RequestType
  <2>6. HookOK(n)
    BY <1>0, <2>1 DEF RequestOK, AttemptsOK, HookOK, RequestType
  <2>8. VolumeOK(n)
    BY <1>0, <2>1 DEF RequestOK, VolumeOK, RequestType
  <2> QED
    BY <2>2, <2>3, <2>4, <2>5, <2>6, <2>8 DEF RequestOK
<1>7. ASSUME Resend(r) PROVE RequestOK(n)
  <2>1. /\ n = [q EXCEPT !.pc = "sending", !.sends = q.sends + 1,
                         !.past = q.past + 1]
        /\ q.pc = "backoff"
    BY <1>7 DEF Resend, RequestsOK, At
  <2> HIDE DEF q, n
  <2>0. q.sends + 1 \in Nat /\ q.past + 1 \in Nat
    BY <1>0 DEF RequestType
  <2>2. n \in RequestType
    BY <1>0, <2>1, <2>0 DEF RequestType, Results
  <2>3. AttemptsOK(n)
    BY <1>0, <2>1 DEF RequestOK, AttemptsOK, RequestType
  <2>7. /\ n.pc = "sending" /\ n.sends = q.sends + 1
        /\ n.past = q.past + 1 /\ n.sent = q.sent /\ n.redone = q.redone
        /\ n.hidden = q.hidden
        /\ q.sends \in Nat /\ q.past \in Nat /\ q.sent \in Nat
        /\ q.redone \in Nat /\ q.hidden \in Nat
    BY <1>0, <2>1 DEF RequestType
  <2>4. SendsOK(n)
    <3>1. /\ q.past < inner
          /\ q.sends + q.redone = q.sent + q.hidden + q.past
      BY <1>0, <2>1 DEF RequestOK, SendsOK
    <3> QED
      BY <1>0, <2>7, <3>1 DEF SendsOK
  <2>5. WrapsOK(n)
    BY <1>0, <2>1 DEF RequestOK, SendsOK, WrapsOK, RequestType
  <2>6. HookOK(n)
    BY <1>0, <2>1 DEF RequestOK, AttemptsOK, HookOK, RequestType
  <2>8. VolumeOK(n)
    <3> DEFINE v == q.sent * (inner + 1)
    <3>1. v \in Nat
      BY <1>0, <2>7, TimesPlusOne
    <3>2. q.past < inner /\ q.sends + inner <= v + q.past
      BY <1>0, <2>1 DEF RequestOK, SendsOK, VolumeOK
    <3>3. n.sent * (inner + 1) = v
      BY <2>7
    <3> HIDE DEF v
    <3> QED
      BY <1>0, <2>7, <3>1, <3>2, <3>3 DEF VolumeOK
  <2> QED
    BY <2>2, <2>3, <2>4, <2>5, <2>6, <2>8 DEF RequestOK
<1>8. ASSUME RecordTotal(r) PROVE RequestOK(n)
  <2>1. /\ n = [q EXCEPT !.pc = "recorded"]
        /\ q.pc = "recording"
    BY <1>8 DEF RecordTotal, RequestsOK, At
  <2> HIDE DEF q, n
  <2>2. n \in RequestType
    BY <1>0, <2>1 DEF RequestType, Results
  <2>3. AttemptsOK(n)
    BY <1>0, <2>1 DEF RequestOK, AttemptsOK, RequestType
  <2>4. SendsOK(n)
    BY <1>0, <2>1 DEF RequestOK, SendsOK, RequestType
  <2>5. WrapsOK(n)
    BY <1>0, <2>1 DEF RequestOK, SendsOK, WrapsOK, RequestType
  <2>6. HookOK(n)
    BY <1>0, <2>1 DEF RequestOK, AttemptsOK, HookOK, RequestType
  <2>8. VolumeOK(n)
    BY <1>0, <2>1 DEF RequestOK, VolumeOK, RequestType
  <2> QED
    BY <2>2, <2>3, <2>4, <2>5, <2>6, <2>8 DEF RequestOK
<1>9. ASSUME Drop(r) PROVE RequestOK(n)
  <2>1. /\ n = [q EXCEPT !.pc = "dropped"]
        /\ q.pc \notin {"idle", "done", "dropped"}
    BY <1>9 DEF Drop, RequestsOK, At
  <2> HIDE DEF q, n
  <2>2. n \in RequestType
    BY <1>0, <2>1 DEF RequestType, Results
  <2>3. AttemptsOK(n)
    BY <1>0, <2>1 DEF RequestOK, AttemptsOK, RequestType
  <2>4. SendsOK(n)
    BY <1>0, <2>1 DEF RequestOK, SendsOK, RequestType
  <2>5. WrapsOK(n)
    BY <1>0, <2>1 DEF RequestOK, SendsOK, WrapsOK, RequestType
  <2>6. HookOK(n)
    BY <1>0, <2>1 DEF RequestOK, AttemptsOK, HookOK, RequestType
  <2>8. VolumeOK(n)
    BY <1>0, <2>1 DEF RequestOK, VolumeOK, RequestType
  <2> QED
    BY <2>2, <2>3, <2>4, <2>5, <2>6, <2>8 DEF RequestOK
<1>10. ASSUME q.pc = "sending", Finish(r, "retryable", Wraps(q.past))
       PROVE  RequestOK(n)
  <2>0. Wraps(q.past) = IF q.past > 0 THEN <<q.past + 1>> ELSE <<>>
    BY DEF Wraps
  <2> DEFINE w == Wraps(q.past)
  <2>1. n = [q EXCEPT !.pc = "recording", !.result = "retryable", !.wraps = w]
    BY <1>10 DEF Finish, RequestsOK
  <2>7. /\ w \in Seq(Nat)
        /\ (w = <<>> /\ q.past = 0) \/ w = <<q.past + 1>>
    <3>1. q.past \in Nat
      BY <1>0 DEF RequestType
    <3> HIDE DEF q
    <3>2. CASE q.past > 0
      BY <2>0, <3>1, <3>2
    <3>3. CASE ~(q.past > 0)
      BY <2>0, <3>1, <3>3
    <3> QED
      BY <3>2, <3>3
  <2> HIDE DEF w
  <2> HIDE DEF q, n
  <2>2. n \in RequestType
    BY <1>0, <1>10, <2>1, <2>7 DEF RequestType, Results
  <2>3. AttemptsOK(n)
    BY <1>0, <1>10, <2>1, <2>7 DEF RequestOK, AttemptsOK, RequestType
  <2>4. SendsOK(n)
    BY <1>0, <1>10, <2>1, <2>7 DEF RequestOK, SendsOK, RequestType
  <2>5. WrapsOK(n)
    BY <1>0, <1>10, <2>1, <2>7 DEF RequestOK, SendsOK, WrapsOK, RequestType
  <2>6. HookOK(n)
    BY <1>0, <1>10, <2>1, <2>7 DEF RequestOK, AttemptsOK, HookOK, RequestType
  <2>8. VolumeOK(n)
    BY <1>0, <1>10, <2>1, <2>7 DEF RequestOK, VolumeOK, RequestType
  <2> QED
    BY <2>2, <2>3, <2>4, <2>5, <2>6, <2>8 DEF RequestOK
<1>11. ASSUME Fatal(r) PROVE RequestOK(n)
  BY <1>10, <1>11 DEF Fatal, At
<1>12. ASSUME NEW outcome \in {"error", "status_5xx", "status_408_429"},
              Transient(r, outcome)
       PROVE  RequestOK(n)
  <2>0. q.pc = "sending"
    BY <1>12 DEF Transient, At
  <2>1. CASE q.past < inner
    <3>1. n = [q EXCEPT !.pc = "backoff"]
      BY <1>12, <2>1 DEF Transient, RequestsOK
    <3> HIDE DEF q, n
    <3>2. n \in RequestType
      BY <1>0, <2>0, <2>1, <3>1 DEF RequestType, Results
    <3>3. AttemptsOK(n)
      BY <1>0, <2>0, <2>1, <3>1 DEF RequestOK, AttemptsOK, RequestType
    <3>4. SendsOK(n)
      BY <1>0, <2>0, <2>1, <3>1 DEF RequestOK, SendsOK, RequestType
    <3>5. WrapsOK(n)
      BY <1>0, <2>0, <2>1, <3>1 DEF RequestOK, SendsOK, WrapsOK, RequestType
    <3>6. HookOK(n)
      BY <1>0, <2>0, <2>1, <3>1 DEF RequestOK, AttemptsOK, HookOK, RequestType
    <3>8. VolumeOK(n)
      BY <1>0, <2>0, <2>1, <3>1 DEF RequestOK, VolumeOK, RequestType
    <3> QED
      BY <3>2, <3>3, <3>4, <3>5, <3>6, <3>8 DEF RequestOK
  <2>2. CASE ~(q.past < inner) /\ outcome = "error"
    BY <1>10, <1>12, <2>0, <2>2 DEF Transient
  <2>3. CASE ~(q.past < inner) /\ outcome = "status_5xx"
    <3>1. n = [q EXCEPT !.pc = "recording", !.wraps = <<>>,
                        !.result = "retryable", !.hidden = q.hidden + q.past]
      BY <1>12, <2>3 DEF Transient, LastResponse, RequestsOK
    <3> HIDE DEF q, n
    <3>0. q.hidden + q.past \in Nat /\ <<>> \in Seq(Nat)
      BY <1>0 DEF RequestType
    <3>2. n \in RequestType
      BY <1>0, <2>0, <3>1, <3>0 DEF RequestType, Results
    <3>3. AttemptsOK(n)
      BY <1>0, <2>0, <3>1 DEF RequestOK, AttemptsOK, RequestType
    <3>4. SendsOK(n)
      <4>1. /\ n.pc = "recording" /\ n.result = "retryable"
            /\ n.sends = q.sends /\ n.sent = q.sent /\ n.past = q.past
            /\ n.redone = q.redone /\ n.hidden = q.hidden + q.past
            /\ q.sends \in Nat /\ q.past \in Nat /\ q.sent \in Nat
            /\ q.redone \in Nat /\ q.hidden \in Nat
        BY <1>0, <3>1 DEF RequestType
      <4>2. /\ q.past <= inner
            /\ q.sends + q.redone = q.sent + q.hidden + q.past
        BY <1>0, <2>0 DEF RequestOK, SendsOK
      <4> QED
        BY <1>0, <4>1, <4>2 DEF SendsOK
    <3>5. WrapsOK(n)
      BY <1>0, <2>0, <3>1 DEF RequestOK, SendsOK, WrapsOK, RequestType
    <3>6. HookOK(n)
      BY <1>0, <2>0, <3>1 DEF RequestOK, AttemptsOK, HookOK, RequestType
    <3>8. VolumeOK(n)
      BY <1>0, <2>0, <3>1 DEF RequestOK, VolumeOK, RequestType
    <3> QED
      BY <3>2, <3>3, <3>4, <3>5, <3>6, <3>8 DEF RequestOK
  <2>4. CASE ~(q.past < inner) /\ outcome = "status_408_429"
    <3>1. n = [q EXCEPT !.pc = "recording", !.wraps = <<>>,
                        !.result = "fatal", !.hidden = q.hidden]
      BY <1>12, <2>4 DEF Transient, LastResponse, RequestsOK
    <3> HIDE DEF q, n
    <3>0. <<>> \in Seq(Nat)
      BY <1>0 DEF RequestType
    <3>2. n \in RequestType
      BY <1>0, <2>0, <3>1, <3>0 DEF RequestType, Results
    <3>3. AttemptsOK(n)
      BY <1>0, <2>0, <3>1 DEF RequestOK, AttemptsOK, RequestType
    <3>4. SendsOK(n)
      BY <1>0, <2>0, <3>1 DEF RequestOK, SendsOK, RequestType
    <3>5. WrapsOK(n)
      BY <1>0, <2>0, <3>1 DEF RequestOK, SendsOK, WrapsOK, RequestType
    <3>6. HookOK(n)
      BY <1>0, <2>0, <3>1 DEF RequestOK, AttemptsOK, HookOK, RequestType
    <3>8. VolumeOK(n)
      BY <1>0, <2>0, <3>1 DEF RequestOK, VolumeOK, RequestType
    <3> QED
      BY <3>2, <3>3, <3>4, <3>5, <3>6, <3>8 DEF RequestOK
  <2> QED
    BY <1>12, <2>1, <2>2, <2>3, <2>4
<1>13. ASSUME RecordOutcome(r) PROVE RequestOK(n)
  <2>0. q.pc = "recorded"
    BY <1>13 DEF RecordOutcome, At
  <2>1. CASE q.result = "ok"
    <3>1. n = [q EXCEPT !.pc = "done"]
      BY <1>13, <2>1 DEF RecordOutcome, RequestsOK
    <3> HIDE DEF q, n
    <3>2. n \in RequestType
      BY <1>0, <2>0, <2>1, <3>1 DEF RequestType, Results
    <3>3. AttemptsOK(n)
      BY <1>0, <2>0, <2>1, <3>1 DEF RequestOK, AttemptsOK, RequestType
    <3>4. SendsOK(n)
      BY <1>0, <2>0, <2>1, <3>1 DEF RequestOK, SendsOK, RequestType
    <3>5. WrapsOK(n)
      BY <1>0, <2>0, <2>1, <3>1 DEF RequestOK, SendsOK, WrapsOK, RequestType
    <3>6. HookOK(n)
      BY <1>0, <2>0, <2>1, <3>1 DEF RequestOK, AttemptsOK, HookOK, RequestType
    <3>8. VolumeOK(n)
      BY <1>0, <2>0, <2>1, <3>1 DEF RequestOK, VolumeOK, RequestType
    <3> QED
      BY <3>2, <3>3, <3>4, <3>5, <3>6, <3>8 DEF RequestOK
  <2>2. CASE q.result # "ok" /\ ~(q.result = "misdirected" /\ q.run = 1)
    <3>1. n = [q EXCEPT !.pc = "failed"]
      BY <1>13, <2>2 DEF RecordOutcome, RequestsOK
    <3> HIDE DEF q, n
    <3>2. n \in RequestType
      BY <1>0, <2>0, <2>2, <3>1 DEF RequestType, Results
    <3>3. AttemptsOK(n)
      BY <1>0, <2>0, <2>2, <3>1 DEF RequestOK, AttemptsOK, RequestType
    <3>4. SendsOK(n)
      BY <1>0, <2>0, <2>2, <3>1 DEF RequestOK, SendsOK, RequestType
    <3>5. WrapsOK(n)
      BY <1>0, <2>0, <2>2, <3>1 DEF RequestOK, SendsOK, WrapsOK, RequestType
    <3>6. HookOK(n)
      BY <1>0, <2>0, <2>2, <3>1 DEF RequestOK, AttemptsOK, HookOK, RequestType
    <3>8. VolumeOK(n)
      BY <1>0, <2>0, <2>2, <3>1 DEF RequestOK, VolumeOK, RequestType
    <3> QED
      BY <3>2, <3>3, <3>4, <3>5, <3>6, <3>8 DEF RequestOK
  <2>3. CASE q.result = "misdirected" /\ q.run = 1
    <3>1. n = [q EXCEPT !.pc = "rebuilding"]
      BY <1>13, <2>3 DEF RecordOutcome, RequestsOK
    <3> HIDE DEF q, n
    <3>2. n \in RequestType
      BY <1>0, <2>0, <2>3, <3>1 DEF RequestType, Results
    <3>3. AttemptsOK(n)
      BY <1>0, <2>0, <2>3, <3>1 DEF RequestOK, AttemptsOK, RequestType
    <3>4. SendsOK(n)
      BY <1>0, <2>0, <2>3, <3>1 DEF RequestOK, SendsOK, RequestType
    <3>5. WrapsOK(n)
      BY <1>0, <2>0, <2>3, <3>1 DEF RequestOK, SendsOK, WrapsOK, RequestType
    <3>6. HookOK(n)
      BY <1>0, <2>0, <2>3, <3>1 DEF RequestOK, AttemptsOK, HookOK, RequestType
    <3>8. VolumeOK(n)
      BY <1>0, <2>0, <2>3, <3>1 DEF RequestOK, VolumeOK, RequestType
    <3> QED
      BY <3>2, <3>3, <3>4, <3>5, <3>6, <3>8 DEF RequestOK
  <2> QED
    BY <2>1, <2>2, <2>3
<1>14. ASSUME NEW want \in BOOLEAN, Decide(r, want) PROVE RequestOK(n)
  <2> DEFINE hooked == [q EXCEPT !.told = q.told + 1]
  <2>1. /\ q.pc = "failed"
        /\ n = IF ~(Retryable(q) /\ want /\ q.attempt < outer) THEN GiveUp(q)
               ELSE IF q.attempt > MaxTimes THEN GiveUp(hooked)
               ELSE [hooked EXCEPT !.pc = "sleeping"]
    BY <1>14 DEF Decide, RequestsOK, At
  <2>2. CASE ~(Retryable(q) /\ want /\ q.attempt < outer)
    <3>1. n = GiveUp(q) /\ q.told + 1 = q.attempt
      BY <1>0, <2>1, <2>2 DEF RequestOK, HookOK
    <3> QED
      BY <1>0, <2>1, <3>1, GiveUpOK DEF RequestOK
  <2>3. CASE Retryable(q) /\ want /\ q.attempt < outer /\ q.attempt > MaxTimes
    <3>1. n = GiveUp(hooked)
      BY <2>1, <2>3
    <3>2. q.told + 1 \in Nat /\ q.told + 1 = q.attempt
      BY <1>0, <2>1 DEF RequestOK, HookOK, RequestType
    <3> HIDE DEF q
    <3>3. hooked \in RequestType
      BY <1>0, <3>2 DEF RequestType
    <3>4. /\ AttemptsOK(hooked) /\ SendsOK(hooked)
          /\ VolumeOK(hooked) /\ WrapsOK(hooked)
      BY <1>0, <3>2
      DEF RequestOK, AttemptsOK, SendsOK, VolumeOK, WrapsOK, RequestType
    <3>5. /\ hooked.pc = "failed" /\ hooked.told = hooked.attempt
          /\ hooked.attempt < outer /\ hooked.attempt > MaxTimes
      BY <1>0, <2>1, <2>3, <3>2 DEF RequestType
    <3> HIDE DEF hooked
    <3> QED
      BY <3>1, <3>3, <3>4, <3>5, GiveUpOK
  <2>4. CASE Retryable(q) /\ q.attempt < outer /\ ~(q.attempt > MaxTimes)
                /\ want
    <3>1. /\ n = [q EXCEPT !.told = q.told + 1, !.pc = "sleeping"]
          /\ q.result = "retryable" /\ q.wraps = <<>>
      BY <2>1, <2>4 DEF Retryable
    <3> HIDE DEF q, n
    <3>0. q.told + 1 \in Nat
      BY <1>0 DEF RequestType
    <3>2. n \in RequestType
      BY <1>0, <2>1, <2>4, <3>1, <3>0 DEF RequestType, Results
    <3>3. AttemptsOK(n)
      BY <1>0, <2>1, <2>4, <3>1 DEF RequestOK, AttemptsOK, RequestType
    <3>4. SendsOK(n)
      BY <1>0, <2>1, <2>4, <3>1 DEF RequestOK, SendsOK, WrapsOK, RequestType
    <3>5. WrapsOK(n)
      BY <1>0, <2>1, <2>4, <3>1 DEF RequestOK, SendsOK, WrapsOK, RequestType
    <3>6. HookOK(n)
      BY <1>0, <2>1, <2>4, <3>1 DEF RequestOK, AttemptsOK, HookOK, RequestType
    <3>8. VolumeOK(n)
      BY <1>0, <2>1, <2>4, <3>1 DEF RequestOK, VolumeOK, RequestType
    <3> QED
      BY <3>2, <3>3, <3>4, <3>5, <3>6, <3>8 DEF RequestOK
  <2> QED
    BY <2>2, <2>3, <2>4
<1>15. ASSUME NEW result \in {"fatal", "retryable"}, RebuildFails(r, result)
       PROVE  RequestOK(n)
  <2> DEFINE more == IF result = "retryable" THEN q.past ELSE 0
  <2>1. /\ n = [q EXCEPT !.pc = "failed", !.result = result,
                         !.hidden = q.hidden + more]
        /\ q.pc = "rebuilding"
    <3>1. q.hidden = q.hidden + 0
      BY <1>0 DEF RequestType
    <3>2. /\ q.pc = "rebuilding"
          /\ n = [q EXCEPT !.pc = "failed", !.result = result,
                           !.hidden = IF result = "retryable"
                                      THEN q.hidden + q.past ELSE q.hidden]
      BY <1>15 DEF RebuildFails, RequestsOK, At
    <3> HIDE DEF q, n
    <3> QED
      BY <3>1, <3>2
  <2>7. /\ more \in Nat /\ more <= q.past
        /\ result = "retryable" => more = q.past
    BY <1>0 DEF RequestType
  <2> HIDE DEF q, n, more
  <2>0. q.hidden + more \in Nat
    BY <1>0, <2>7 DEF RequestType
  <2>2. n \in RequestType
    BY <1>0, <2>1, <2>0 DEF RequestType, Results
  <2>3. AttemptsOK(n)
    BY <1>0, <2>1 DEF RequestOK, AttemptsOK, RequestType
  <2>4. SendsOK(n)
    <3>1. /\ n.pc = "failed" /\ n.sends = q.sends /\ n.past = q.past
          /\ n.sent = q.sent /\ n.redone = q.redone
          /\ n.hidden = q.hidden + more
          /\ q.sends \in Nat /\ q.past \in Nat /\ q.sent \in Nat
          /\ q.redone \in Nat /\ q.hidden \in Nat
      BY <1>0, <2>1 DEF RequestType
    <3>2. /\ q.past <= inner
          /\ q.sends + q.redone = q.sent + q.hidden + q.past
      BY <1>0, <2>1 DEF RequestOK, SendsOK
    <3> QED
      BY <1>0, <2>7, <3>1, <3>2 DEF SendsOK
  <2>5. WrapsOK(n)
    BY <1>0, <2>1, <2>7 DEF RequestOK, SendsOK, WrapsOK, RequestType
  <2>6. HookOK(n)
    BY <1>0, <2>1 DEF RequestOK, AttemptsOK, HookOK, RequestType
  <2>8. VolumeOK(n)
    BY <1>0, <2>1 DEF RequestOK, VolumeOK, RequestType
  <2> QED
    BY <2>2, <2>3, <2>4, <2>5, <2>6, <2>8 DEF RequestOK
<1>16. ASSUME RunAgain(r) PROVE RequestOK(n)
  <2>1. /\ n = [q EXCEPT !.pc = "calling", !.past = 0, !.run = 2,
                         !.redone = q.redone + 1,
                         !.hidden = q.hidden + q.past + 1]
        /\ q.pc = "rebuilding"
    BY <1>16 DEF RunAgain, RequestsOK, At
  <2> HIDE DEF q, n
  <2>0. q.redone + 1 \in Nat /\ q.hidden + q.past + 1 \in Nat /\ 2 \in 1..2
    BY <1>0 DEF RequestType
  <2>2. n \in RequestType
    BY <1>0, <2>1, <2>0 DEF RequestType, Results
  <2>3. AttemptsOK(n)
    <3>1. /\ n.pc = "calling" /\ n.attempt = q.attempt /\ n.run = 2
          /\ n.redone = q.redone + 1 /\ n.sent = q.sent
          /\ n.rejected = q.rejected
          /\ q.attempt \in Nat /\ q.redone \in Nat /\ q.sent \in Nat
          /\ q.rejected \in Nat
      BY <1>0, <2>1 DEF RequestType
    <3>2. /\ q.sent + q.rejected = q.attempt + q.redone
          /\ q.redone < q.attempt
          /\ q.attempt >= 1 /\ q.attempt <= (IF outer = 0 THEN 1 ELSE outer)
          /\ q.attempt <= MaxTimes + 1
      BY <1>0, <2>1 DEF RequestOK, AttemptsOK
    <3> QED
      BY <1>0, <3>1, <3>2 DEF AttemptsOK
  <2>4. SendsOK(n)
    <3>1. /\ n.pc = "calling" /\ n.sends = q.sends /\ n.past = 0
          /\ n.sent = q.sent /\ n.redone = q.redone + 1
          /\ n.hidden = q.hidden + q.past + 1
          /\ q.sends \in Nat /\ q.past \in Nat /\ q.sent \in Nat
          /\ q.redone \in Nat /\ q.hidden \in Nat
      BY <1>0, <2>1 DEF RequestType
    <3>2. q.sends + q.redone = q.sent + q.hidden + q.past
      BY <1>0, <2>1 DEF RequestOK, SendsOK
    <3>3. n.sends + n.redone = n.sent + n.hidden
      BY <3>1, <3>2
    <3>4. /\ n.sends + n.redone \in Nat
          /\ n.sent + n.hidden <= n.sends + n.redone
          /\ n.sends + n.redone <= n.sent + n.hidden + inner
      BY <1>0, <3>1, <3>3
    <3> QED
      BY <1>0, <3>1, <3>3, <3>4 DEF SendsOK
  <2>5. WrapsOK(n)
    BY <1>0, <2>1 DEF RequestOK, SendsOK, WrapsOK, RequestType
  <2>6. HookOK(n)
    BY <1>0, <2>1 DEF RequestOK, AttemptsOK, HookOK, RequestType
  <2>8. VolumeOK(n)
    BY <1>0, <2>1 DEF RequestOK, VolumeOK, RequestType
  <2> QED
    BY <2>2, <2>3, <2>4, <2>5, <2>6, <2>8 DEF RequestOK
<1>17. RequestOK(n)
  BY <1>1, <1>2, <1>3, <1>4, <1>5, <1>6, <1>7, <1>8, <1>9, <1>10, <1>11,
     <1>12, <1>13, <1>14, <1>15, <1>16
  DEF Step
<1>18. /\ \A s \in Requests \ {r} : req'[s] = req[s]
       /\ inner' = inner /\ outer' = outer
       /\ req' = [s \in Requests |-> req'[s]]
  <2> USE DEF RequestsOK, Finish
  <2>1. CASE Drop(r)
    BY <2>1 DEF Drop
  <2>2. CASE RunOperation(r) \/ Rejected(r) \/ NotCloneable(r) \/ Send(r)
    BY <2>2 DEF RunOperation, Rejected, NotCloneable, Send
  <2>3. CASE Fatal(r) \/ Resend(r) \/ Cancel(r) \/ RunAgain(r)
    BY <2>3 DEF Fatal, Resend, Cancel, RunAgain
  <2>4. CASE RecordTotal(r) \/ RecordOutcome(r)
    BY <2>4 DEF RecordTotal, RecordOutcome
  <2>5. ASSUME NEW result \in {"ok", "fatal", "misdirected"},
             Response(r, result)
        PROVE  /\ \A s \in Requests \ {r} : req'[s] = req[s]
               /\ inner' = inner /\ outer' = outer
               /\ req' = [s \in Requests |-> req'[s]]
    BY <2>5 DEF Response
  <2>6. ASSUME NEW outcome \in {"error", "status_5xx", "status_408_429"},
               Transient(r, outcome)
        PROVE  /\ \A s \in Requests \ {r} : req'[s] = req[s]
               /\ inner' = inner /\ outer' = outer
               /\ req' = [s \in Requests |-> req'[s]]
    BY <2>6 DEF Transient, LastResponse
  <2>7. ASSUME NEW want \in BOOLEAN, Decide(r, want)
        PROVE  /\ \A s \in Requests \ {r} : req'[s] = req[s]
               /\ inner' = inner /\ outer' = outer
               /\ req' = [s \in Requests |-> req'[s]]
    BY <2>7 DEF Decide
  <2>8. ASSUME NEW result \in {"fatal", "retryable"}, RebuildFails(r, result)
        PROVE  /\ \A s \in Requests \ {r} : req'[s] = req[s]
               /\ inner' = inner /\ outer' = outer
               /\ req' = [s \in Requests |-> req'[s]]
    BY <2>8 DEF RebuildFails
  <2> HIDE DEF RequestsOK, Finish
  <2> QED
    BY <2>1, <2>2, <2>3, <2>4, <2>5, <2>6, <2>7, <2>8 DEF Step
<1>19. req' \in [Requests -> RequestType]
  BY <1>17, <1>18 DEF RequestsOK, RequestOK
<1> QED
  BY <1>17, <1>18, <1>19

-----------------------------------------------------------------------------
(* The invariant holds at the start, and every step keeps it.              *)

\* Nothing was sent or counted.
LEMMA InvInit == Init => IInv
<1> SUFFICES ASSUME Init PROVE IInv
  OBVIOUS
<1>1. LimitsOK
  BY DEF Init, LimitsOK
<1>2. ASSUME NEW r \in Requests PROVE RequestOK(req[r])
  <2>1. req[r] = [pc |-> "idle", attempt |-> 0, run |-> 1, past |-> 0,
                  result |-> "none", wraps |-> <<>>, sends |-> 0,
                  rejected |-> 0, sent |-> 0, redone |-> 0, told |-> 0,
                  hidden |-> 0]
    BY DEF Init
  <2>2. inner \in Nat /\ outer \in Nat /\ MaxTimes \in Nat
    BY <1>1, RetryAssumption DEF LimitsOK
  <2>3. req[r] \in RequestType
    BY <2>1 DEF RequestType, Results
  <2>4. AttemptsOK(req[r]) /\ SendsOK(req[r])
    BY <2>1, <2>2 DEF AttemptsOK, SendsOK
  <2>5. WrapsOK(req[r]) /\ HookOK(req[r])
    BY <2>1 DEF WrapsOK, HookOK
  <2>6. VolumeOK(req[r])
    BY <2>1, <2>2 DEF VolumeOK
  <2> QED
    BY <2>3, <2>4, <2>5, <2>6 DEF RequestOK
<1>3. RequestsOK
  BY <1>2, Zenon DEF RequestsOK, RequestOK, Init
<1>4. Resent = {}
  BY DEF Resent, Repeats, Init
<1>5. Recorded = {}
  BY DEF Recorded, At, Init
<1>6. RetriesOK
  BY <1>4, FS_EmptySet DEF RetriesOK, Init
<1>7. SnapshotOK
  BY <1>5, FS_EmptySet DEF SnapshotOK, Init
<1> QED
  BY <1>1, <1>3, <1>6, <1>7 DEF IInv

\* The books of the requests.
LEMMA RequestsStep == IInv /\ [Next]_vars => LimitsOK' /\ RequestsOK'
<1> SUFFICES ASSUME IInv, [Next]_vars PROVE LimitsOK' /\ RequestsOK'
  OBVIOUS
<1>0. LimitsOK /\ RequestsOK
  BY DEF IInv
<1>1. ASSUME NEW r \in Requests, Step(r) \/ Drop(r)
      PROVE  LimitsOK' /\ RequestsOK'
  <2>1. /\ RequestOK(req'[r])
        /\ \A s \in Requests \ {r} : req'[s] = req[s]
        /\ req' \in [Requests -> RequestType]
        /\ inner' = inner /\ outer' = outer
    BY <1>0, <1>1, StepOK
  <2>2. ASSUME NEW s \in Requests PROVE RequestOK(req'[s])
    BY <1>0, <2>1 DEF RequestsOK
  <2> QED
    BY <1>0, <2>1, <2>2
    DEF LimitsOK, RequestsOK, RequestOK, AttemptsOK, SendsOK, VolumeOK,
        WrapsOK, HookOK
<1>2. CASE \/ SnapshotRequests \/ SnapshotSuccesses \/ UNCHANGED vars
  <2>1. req' = req /\ inner' = inner /\ outer' = outer
    BY <1>2 DEF SnapshotRequests, SnapshotSuccesses, vars
  <2> QED
    BY <1>0, <2>1
    DEF LimitsOK, RequestsOK, RequestOK, AttemptsOK, SendsOK, VolumeOK,
        WrapsOK, HookOK
<1> QED
  BY <1>1, <1>2 DEF Next

\* What a step of request r does to the counters: Resend and RunAgain count a
\* retry, the halves of record_http_request a request and a success.
LEMMA StepCounts ==
    ASSUME LimitsOK, RequestsOK, NEW r \in Requests, Step(r) \/ Drop(r)
    PROVE  /\ \/ Resend(r) \/ RunAgain(r)
              \/ /\ Repeats(req'[r]) = Repeats(req[r])
                 /\ retries' = retries
           /\ \/ RecordTotal(r) \/ RecordOutcome(r)
              \/ /\ req'[r].pc # "recorded"
                 /\ requests' = requests /\ successes' = successes
                 /\ snap' = snap
<1> DEFINE Same == /\ Repeats(req'[r]) = Repeats(req[r])
                   /\ retries' = retries
<1> DEFINE Quiet == /\ req'[r].pc # "recorded"
                    /\ requests' = requests /\ successes' = successes
                    /\ snap' = snap
                 /\ snap' = snap
<1>0. /\ req \in [Requests -> RequestType]
      /\ req[r].sends \in Nat /\ req[r].sent \in Nat
      /\ req[r].redone \in Nat
  BY DEF RequestsOK, RequestType
<1>1. ASSUME Drop(r) \/ RunOperation(r) \/ Rejected(r) \/ NotCloneable(r)
      PROVE  Same /\ Quiet
  <2>1. /\ req'[r].sends = req[r].sends /\ req'[r].sent = req[r].sent
        /\ req'[r].redone = req[r].redone /\ req'[r].pc # "recorded"
    <3>1. CASE Drop(r)
      BY <1>0, <3>1 DEF Drop, RequestType
    <3>2. CASE RunOperation(r)
      BY <1>0, <3>2 DEF RunOperation, RequestType
    <3>3. CASE Rejected(r) \/ NotCloneable(r)
      BY <1>0, <3>3 DEF Rejected, NotCloneable, RequestType
    <3> QED
      BY <1>1, <3>1, <3>2, <3>3
  <2> QED
    BY <1>1, <2>1 DEF Drop, RunOperation, Rejected, NotCloneable, counters,
        Repeats
<1>2. ASSUME Send(r) PROVE Same /\ Quiet
  <2>1. /\ req'[r].sends = req[r].sends + 1 /\ req'[r].sent = req[r].sent + 1
        /\ req'[r].redone = req[r].redone /\ req'[r].pc = "sending"
    BY <1>0, <1>2 DEF Send, RequestType
  <2> QED
    BY <1>0, <1>2, <2>1 DEF Send, counters, Repeats
<1>3. ASSUME Fatal(r) \/ Cancel(r) PROVE Same /\ Quiet
  <2>1. /\ req'[r].sends = req[r].sends /\ req'[r].sent = req[r].sent
        /\ req'[r].redone = req[r].redone /\ req'[r].pc # "recorded"
    BY <1>0, <1>3 DEF Fatal, Cancel, Finish, RequestType
  <2> QED
    BY <1>3, <2>1 DEF Fatal, Cancel, counters, Repeats
<1>4. ASSUME NEW result \in {"ok", "fatal", "misdirected"},
             Response(r, result)
      PROVE  Same /\ Quiet
  BY <1>0, <1>4 DEF Response, Finish, counters, RequestType, Repeats
<1>5. ASSUME NEW outcome \in {"error", "status_5xx", "status_408_429"},
             Transient(r, outcome)
      PROVE  Same /\ Quiet
  <2>1. /\ req'[r].sends = req[r].sends /\ req'[r].sent = req[r].sent
        /\ req'[r].redone = req[r].redone /\ req'[r].pc # "recorded"
    <3>1. CASE req[r].past < inner
      BY <1>0, <1>5, <3>1 DEF Transient, RequestType
    <3>2. CASE ~(req[r].past < inner) /\ outcome = "error"
      BY <1>0, <1>5, <3>2 DEF Transient, Finish, RequestType
    <3>3. CASE ~(req[r].past < inner) /\ outcome # "error"
      BY <1>0, <1>5, <3>3 DEF Transient, LastResponse, RequestType
    <3> QED
      BY <3>1, <3>2, <3>3
  <2> QED
    BY <1>5, <2>1 DEF Transient, counters, Repeats
<1>6. ASSUME NEW want \in BOOLEAN, Decide(r, want) PROVE Same /\ Quiet
  BY <1>0, <1>6 DEF Decide, GiveUp, counters, RequestType, Repeats
<1>7. ASSUME RecordTotal(r) \/ RecordOutcome(r) PROVE Same
  <2>1. /\ req'[r].sends = req[r].sends /\ req'[r].sent = req[r].sent
        /\ req'[r].redone = req[r].redone
    <3>1. CASE RecordTotal(r)
      BY <1>0, <3>1 DEF RecordTotal, RequestType
    <3>2. CASE RecordOutcome(r)
      BY <1>0, <3>2 DEF RecordOutcome, RequestType
    <3> QED
      BY <1>7, <3>1, <3>2
  <2> QED
    BY <1>7, <2>1 DEF RecordTotal, RecordOutcome, Repeats
<1>8. ASSUME Resend(r) \/ RunAgain(r) PROVE Quiet
  BY <1>0, <1>8 DEF Resend, RunAgain, RequestType
<1>9. ASSUME NEW result \in {"fatal", "retryable"}, RebuildFails(r, result)
      PROVE  Same /\ Quiet
  BY <1>0, <1>9 DEF RebuildFails, counters, RequestType, Repeats
<1> QED
  BY <1>1, <1>2, <1>3, <1>4, <1>5, <1>6, <1>7, <1>8, <1>9 DEF Step

\* http_retries and the retries it counts grow together.
LEMMA RetriesStep == IInv /\ [Next]_vars => RetriesOK'
<1> SUFFICES ASSUME IInv, [Next]_vars PROVE RetriesOK'
  OBVIOUS
<1>0. LimitsOK /\ RequestsOK /\ RetriesOK
  BY DEF IInv
<1>1. ASSUME NEW r \in Requests, Resend(r) \/ RunAgain(r) PROVE RetriesOK'
  <2> DEFINE n == Repeats(req[r])
  <2>1. /\ req[r].sends \in Nat /\ req[r].sent \in Nat
        /\ req[r].redone \in Nat /\ n \in Nat
    BY <1>0 DEF RequestsOK, RequestOK, SendsOK, RequestType, Repeats
  <2>2. /\ \A s \in Requests \ {r} : req'[s] = req[s]
        /\ Repeats(req'[r]) = n + 1
    <3>1. CASE Resend(r)
      <4>1. /\ req'[r].sends = req[r].sends + 1 /\ req'[r].sent = req[r].sent
            /\ req'[r].redone = req[r].redone
        BY <1>0, <3>1 DEF Resend, RequestsOK, RequestType
      <4> QED
        BY <1>0, <2>1, <3>1, <4>1 DEF Resend, RequestsOK, Repeats
    <3>2. CASE RunAgain(r)
      <4>1. /\ req'[r].sends = req[r].sends /\ req'[r].sent = req[r].sent
            /\ req'[r].redone = req[r].redone + 1
        BY <1>0, <3>2 DEF RunAgain, RequestsOK, RequestType
      <4> QED
        BY <1>0, <2>1, <3>2, <4>1 DEF RunAgain, RequestsOK, Repeats
    <3> QED
      BY <1>1, <3>1, <3>2
  <2> HIDE DEF n
  <2>3. 1..(n + 1) = 1..n \cup {n + 1} /\ n + 1 \notin 1..n
    BY <2>1
  <2>4. Resent' = Resent \cup {<<r, n + 1>>} /\ <<r, n + 1>> \notin Resent
    <3>1. Resent = {p \in Requests \X Nat :
                      p[2] \in 1..Repeats(req[p[1]])}
      BY DEF Resent, Repeats
    <3>2. Resent' = {p \in Requests \X Nat :
                       p[2] \in 1..Repeats(req'[p[1]])}
      BY DEF Resent, Repeats
    <3> QED
      BY <2>1, <2>2, <2>3, <3>1, <3>2 DEF n
  <2>5. retries' = retries + 1
    BY <1>1 DEF Resend, RunAgain
  <2> QED
    BY <1>0, <2>4, <2>5, FS_AddElement DEF RetriesOK
<1>2. ASSUME \A r \in Requests : Repeats(req'[r]) = Repeats(req[r]),
             retries' = retries
      PROVE  RetriesOK'
  <2>1. Resent' = Resent
    BY <1>2 DEF Resent, Repeats
  <2> QED
    BY <1>0, <1>2, <2>1 DEF RetriesOK
<1>3. ASSUME NEW r \in Requests, Step(r) \/ Drop(r),
             ~(Resend(r) \/ RunAgain(r))
      PROVE  RetriesOK'
  <2>1. /\ Repeats(req'[r]) = Repeats(req[r])
        /\ retries' = retries
        /\ \A s \in Requests \ {r} : req'[s] = req[s]
    BY <1>0, <1>3, StepCounts, StepOK
  <2> QED
    BY <1>2, <2>1
<1>4. CASE SnapshotRequests \/ SnapshotSuccesses \/ UNCHANGED vars
  BY <1>2, <1>4 DEF SnapshotRequests, SnapshotSuccesses, counters, vars
<1> QED
  BY <1>1, <1>3, <1>4 DEF Next

\* A request that is between the two halves of record_http_request is already
\* among the requests and not yet among the successes.
LEMMA SnapshotStep == IInv /\ [Next]_vars => SnapshotOK'
<1> SUFFICES ASSUME IInv, [Next]_vars PROVE SnapshotOK'
  OBVIOUS
<1>0. /\ LimitsOK /\ RequestsOK /\ SnapshotOK
      /\ IsFiniteSet(Recorded) /\ Cardinality(Recorded) \in Nat
  <2>1. IsFiniteSet(Recorded)
    BY RetryAssumption, FS_Subset DEF Recorded
  <2> QED
    BY <2>1, FS_CardinalityType DEF IInv
<1>1. ASSUME NEW r \in Requests, RecordTotal(r) PROVE SnapshotOK'
  <2>1. Recorded' = Recorded \cup {r} /\ r \notin Recorded
    BY <1>0, <1>1 DEF RecordTotal, Recorded, At, RequestsOK, RequestType
  <2>2. Cardinality(Recorded') = Cardinality(Recorded) + 1
    BY <1>0, <2>1, FS_AddElement
  <2> QED
    BY <1>0, <1>1, <2>2 DEF RecordTotal, SnapshotOK
<1>2. ASSUME NEW r \in Requests, RecordOutcome(r) PROVE SnapshotOK'
  <2>1. Recorded' = Recorded \ {r} /\ r \in Recorded
    BY <1>0, <1>2 DEF RecordOutcome, Recorded, At, RequestsOK, RequestType
  <2>2. Cardinality(Recorded') = Cardinality(Recorded) - 1
    BY <1>0, <2>1, FS_RemoveElement
  <2>3. requests' = requests /\ successes' \in {successes, successes + 1}
        /\ snap' = snap
    BY <1>2 DEF RecordOutcome
  <2> QED
    BY <1>0, <2>2, <2>3 DEF SnapshotOK
<1>3. ASSUME Recorded' \subseteq Recorded,
             requests' = requests, successes' = successes
      PROVE  /\ Cardinality(Recorded') \in Nat
             /\ Cardinality(Recorded') <= Cardinality(Recorded)
  BY <1>0, <1>3, FS_Subset, FS_CardinalityType
<1>4. ASSUME NEW r \in Requests, Step(r) \/ Drop(r),
             ~RecordTotal(r), ~RecordOutcome(r)
      PROVE  SnapshotOK'
  <2>1. /\ req'[r].pc # "recorded"
        /\ requests' = requests /\ successes' = successes /\ snap' = snap
        /\ \A s \in Requests \ {r} : req'[s] = req[s]
    BY <1>0, <1>4, StepCounts, StepOK
  <2>2. Recorded' \subseteq Recorded
    BY <2>1 DEF Recorded, At
  <2> QED
    BY <1>0, <1>3, <2>1, <2>2 DEF SnapshotOK
<1>5. CASE SnapshotRequests \/ SnapshotSuccesses \/ UNCHANGED vars
  <2>1. requests' = requests /\ successes' = successes /\ Recorded' = Recorded
    BY <1>5
    DEF SnapshotRequests, SnapshotSuccesses, counters, vars, Recorded, At
  <2>2. successes <= requests
    BY <1>0 DEF SnapshotOK
  <2>3. CASE SnapshotRequests
    BY <1>0, <2>1, <2>2, <2>3 DEF SnapshotRequests, SnapshotOK
  <2>4. CASE SnapshotSuccesses
    <3>1. /\ snap'.pc = "done" /\ snap'.successes = successes
          /\ snap'.requests = snap.requests /\ snap'.late = snap.late
          /\ snap' \in [pc : {"idle", "half", "done"}, requests : Nat,
                        successes : Nat, late : Nat]
      BY <1>0, <2>4 DEF SnapshotSuccesses, SnapshotOK
    <3>2. requests = snap.requests + snap.late
      BY <1>0, <2>4 DEF SnapshotSuccesses, SnapshotOK
    <3> QED
      BY <1>0, <2>1, <2>2, <3>1, <3>2 DEF SnapshotOK
  <2>5. CASE UNCHANGED vars
    BY <1>0, <2>1, <2>5 DEF vars, SnapshotOK
  <2> QED
    BY <1>5, <2>3, <2>4, <2>5
<1> QED
  BY <1>1, <1>2, <1>4, <1>5 DEF Next

-----------------------------------------------------------------------------
(* The theorems.                                                           *)

\* The inductive invariant holds in every reachable state.
THEOREM Inductive == Spec => []IInv
<1>1. IInv /\ [Next]_vars => IInv'
  BY RequestsStep, RetriesStep, SnapshotStep DEF IInv
<1> QED
  BY InvInit, <1>1, PTL DEF Spec

\* Whatever the limits of the loops are, they add up and do not multiply, but
\* for a server that answers with status 5xx or 421; and for that one too a
\* request is sent no more than twice as often as the two limits multiplied.
THEOREM LoopsAddUp == Spec => []SendBudget
<1>1. IInv => SendBudget
  <2> DEFINE most == IF outer = 0 THEN 1 ELSE outer
  <2> SUFFICES ASSUME IInv, NEW r \in Requests
               PROVE  /\ req[r].sends <= most + inner + req[r].hidden
                      /\ req[r].sends <= 2 * most * (inner + 1)
    BY DEF SendBudget
  <2> DEFINE q == req[r]
  <2>1. RequestOK(q) /\ inner \in Nat /\ outer \in Nat
    BY RetryAssumption DEF IInv, RequestsOK, LimitsOK
  <2> HIDE DEF q
  <2>2. /\ q.sends \in Nat /\ q.sent \in Nat /\ q.hidden \in Nat
        /\ q.attempt \in Nat /\ q.rejected \in Nat /\ q.redone \in Nat
        /\ most \in Nat
    BY <2>1 DEF RequestOK, RequestType
  <2>3. /\ q.attempt <= most /\ q.redone <= q.attempt
        /\ q.sent + q.rejected <= q.attempt + q.redone
    BY <2>1 DEF RequestOK, AttemptsOK
  <2>4. q.sends + q.redone <= q.sent + q.hidden + inner
    BY <2>1 DEF RequestOK, SendsOK
  <2>5. q.sends <= q.sent * (inner + 1)
    BY <2>1 DEF RequestOK, VolumeOK
  <2> HIDE DEF most
  <2>6. q.sends <= most + inner + q.hidden
    BY <2>1, <2>2, <2>3, <2>4
  <2>7. q.sends <= 2 * most * (inner + 1)
    <3>1. /\ q.sent <= 2 * most /\ 2 * most \in Nat /\ inner + 1 \in Nat
      BY <2>1, <2>2, <2>3
    <3>2. q.sent * (inner + 1) <= 2 * most * (inner + 1)
      BY <2>2, <3>1, TimesGrows
    <3>3. /\ q.sent * (inner + 1) \in Nat
          /\ 2 * most * (inner + 1) \in Nat
      BY <2>2, <3>1, TimesPlusOne
    <3> QED
      BY <2>2, <2>5, <3>2, <3>3
  <2> QED
    BY <2>6, <2>7 DEF q
<1> QED
  BY Inductive, <1>1, PTL

\* The attempts that errors, the hook and the metrics tell of are those made,
\* for any number of requests that share the counters.
THEOREM AttemptsAlwaysTold == Spec => []AttemptsTold
<1>1. IInv => AttemptsTold
  <2> SUFFICES ASSUME IInv PROVE AttemptsTold
    OBVIOUS
  <2>0. LimitsOK /\ RequestsOK /\ RetriesOK /\ SnapshotOK
    BY DEF IInv
  <2>1. TypeOK
    <3>1. \A r \in Requests : req[r] \in RequestType /\ req[r].past <= inner
      BY <2>0 DEF RequestsOK, RequestOK, SendsOK
    <3>2. retries \in Nat
      BY <2>0, FS_CardinalityType DEF RetriesOK
    <3> QED
      BY <2>0, <3>1, <3>2 DEF TypeOK, LimitsOK, SnapshotOK
  <2>2. AttemptsReported
    BY <2>0 DEF RequestsOK, RequestOK, WrapsOK, AttemptsReported, At
  <2>3. RetriesCounted
    BY <2>0 DEF RetriesOK, Resent, Repeats, RetriesCounted
  <2>4. HookMatchesRetries
    <3> SUFFICES ASSUME NEW r \in Requests, At(r, "done")
                 PROVE  \/ req[r].told = req[r].attempt - 1
                        \/ /\ req[r].told = req[r].attempt
                           /\ outer > MaxTimes + 1
                           /\ req[r].attempt = MaxTimes + 1
      BY DEF HookMatchesRetries
    <3> QED
      BY <2>0 DEF RequestsOK, RequestOK, HookOK, RequestType, At
  <2>5. SnapshotHonest
    BY <2>0 DEF SnapshotOK, SnapshotHonest
  <2> QED
    BY <2>1, <2>2, <2>3, <2>4, <2>5 DEF AttemptsTold
<1> QED
  BY Inductive, <1>1, PTL

-----------------------------------------------------------------------------
(* Quality: its inductive invariant.                                       *)

\* What an evaluator has shown, and holds as its statistics.
Snaps == {NoStats} \cup {Stats(w) : w \in Seq(Rtts) \ {<<>>}}
Estimates == [win : Seq(Rtts), dirty : BOOLEAN, snap : Snaps]

\* The cached statistics are those of the window unless it is dirty.
EstimateOK(e) ==
    /\ e \in Estimates
    /\ Len(e.win) <= WindowSize
    /\ e.win # <<>> => e.dirty \/ e.snap = Stats(e.win)

\* The lock is held by the evaluation that measures; those that wait stand in
\* the queue, once each.
EvaluatorOK ==
    /\ EstimateOK(shared)
    /\ eval \in [Evaluations -> {"idle", "waiting", "measuring"}]
    /\ holder \in Evaluations \cup {Nobody}
    /\ queue \in Seq(Evaluations)
    /\ \A i \in 1..Len(queue) : eval[queue[i]] = "waiting"
    /\ \A i, j \in 1..Len(queue) : queue[i] = queue[j] => i = j
    /\ \A e \in Evaluations : eval[e] = "measuring" <=> holder = e

Subscriptions ==
    [pc : {"none", "waiting", "measuring", "running", "calling", "ended"},
     at : Addresses \cup {Nobody}, est : Estimates, prev : 0..5,
     aborted : BOOLEAN]

SubscriptionsOK ==
    /\ sub \in [Hosts -> Subscriptions]
    /\ subs \subseteq Addresses
    /\ ends \in [Hosts -> Nat] /\ late \in [Hosts -> Nat]
    /\ told \in [Hosts -> Seq(1..5)]
    /\ killer \in [Hosts -> SUBSET (Hosts \X Nat)]

\* The task remembers the level it told last, and tells one that differs.
LevelOK(s, t) ==
    /\ EstimateOK(s.est)
    /\ s.pc = "none" => s.est.win = <<>>
    /\ s.pc \in {"running", "calling"} => s.est.win # <<>>
    /\ Len(t) <= 2
    /\ Len(t) = 2 => t[1] # t[2]
    /\ s.pc # "calling" => s.prev = IF t = <<>> THEN 0 ELSE t[Len(t)]
    /\ s.pc = "calling" => t # <<>> /\ t[Len(t)] = Classify(Shown(s.est))
    /\ (s.pc \in {"waiting", "measuring"} /\ s.est.win # <<>>) =>
         t # <<>> /\ t[Len(t)] = Classify(Stats(s.est.win))

LevelsOK == \A h \in Hosts : LevelOK(sub[h], told[h])

\* The addresses in the table are those of the subscriptions that nobody has
\* ended, and no two of these share one.
AddressesOK ==
    /\ \A h \in Hosts :
         /\ sub[h].pc = "none" <=> sub[h].at = Nobody
         /\ sub[h].pc = "none" => killer[h] = {} /\ ends[h] = 0
         /\ sub[h].pc # "none" /\ killer[h] = {} => sub[h].at \in subs
    /\ \A a \in subs : \E h \in Hosts : sub[h].at = a /\ killer[h] = {}
    /\ \A g, h \in Hosts :
         ( /\ sub[g].pc # "none" /\ sub[g].at = sub[h].at
           /\ killer[g] = {} /\ killer[h] = {} ) => g = h

\* Who ended a subscription has called unsubscribe for it.
FreedOK ==
    /\ FreedByOwner
    /\ \A h \in Hosts : \A k \in killer[h] : k[2] < ends[k[1]]

\* A subscription that was ended has its callback begun at most once more, and
\* then ends.
AbortOK ==
    \A h \in Hosts :
        /\ sub[h].aborted <=> killer[h] # {}
        /\ killer[h] # {} => sub[h].pc \in {"running", "calling", "ended"}
        /\ late[h] <= 1
        /\ late[h] > 0 => killer[h] # {} /\ sub[h].pc \in {"calling", "ended"}

QualityInv ==
    /\ EvaluatorOK /\ SubscriptionsOK /\ LevelsOK /\ AddressesOK
    /\ FreedOK /\ AbortOK

-----------------------------------------------------------------------------
(* The operators of the evaluator.                                         *)

\* A window that is pushed to holds the sample and no more than its size.
LEMMA PushFits ==
    ASSUME NEW win \in Seq(Rtts), NEW rtt \in Rtts, Len(win) <= WindowSize
    PROVE  /\ Push(win, WindowSize, rtt) \in Seq(Rtts)
           /\ Push(win, WindowSize, rtt) # <<>>
           /\ Len(Push(win, WindowSize, rtt)) <= WindowSize
<1>1. WindowSize \in Nat /\ WindowSize > 0
  BY QualityAssumption
<1>2. CASE Len(win) >= WindowSize
  <2>1. win # <<>>
    BY <1>1, <1>2
  <2>2. Tail(win) \in Seq(Rtts) /\ Len(Tail(win)) = Len(win) - 1
    BY <2>1
  <2>3. Push(win, WindowSize, rtt) = Append(Tail(win), rtt)
    BY <1>2 DEF Push
  <2> QED
    BY <1>1, <2>2, <2>3
<1>3. CASE ~(Len(win) >= WindowSize)
  <2>1. Push(win, WindowSize, rtt) = Append(win, rtt)
    BY <1>3 DEF Push
  <2> QED
    BY <1>1, <1>3, <2>1
<1> QED
  BY <1>2, <1>3

\* record_rtt leaves an evaluator that knows its statistics to be old.
LEMMA RecordedOK ==
    ASSUME NEW e, EstimateOK(e), NEW rtt \in Rtts
    PROVE  EstimateOK(RecordRtt(e, rtt)) /\ RecordRtt(e, rtt).win # <<>>
<1> DEFINE w == Push(e.win, WindowSize, rtt)
<1>1. /\ e \in Estimates /\ Len(e.win) <= WindowSize /\ e.win \in Seq(Rtts)
  BY DEF EstimateOK, Estimates
<1>2. w \in Seq(Rtts) /\ w # <<>> /\ Len(w) <= WindowSize
  BY <1>1, PushFits
<1> HIDE DEF w
<1>3. RecordRtt(e, rtt) = [e EXCEPT !.win = w, !.dirty = TRUE]
  BY DEF RecordRtt, w
<1>4. /\ RecordRtt(e, rtt) \in Estimates /\ RecordRtt(e, rtt).win = w
      /\ RecordRtt(e, rtt).dirty = TRUE
  BY <1>1, <1>2, <1>3 DEF Estimates
<1> QED
  BY <1>2, <1>4 DEF EstimateOK

\* rtt_snapshot shows the statistics of the window as it is.
LEMMA SnapshotRight ==
    ASSUME NEW e, EstimateOK(e)
    PROVE  /\ EstimateOK(RttSnapshot(e))
           /\ RttSnapshot(e).win = e.win
           /\ e.win # <<>> => Shown(e) = Stats(e.win)
<1>1. e \in Estimates /\ e.win \in Seq(Rtts) /\ e.dirty \in BOOLEAN
  BY DEF EstimateOK, Estimates
<1>2. CASE e.win # <<>> /\ e.dirty
  <2>1. RttSnapshot(e) = [e EXCEPT !.snap = Stats(e.win), !.dirty = FALSE]
    BY <1>2 DEF RttSnapshot
  <2>2. Stats(e.win) \in Snaps
    BY <1>1, <1>2 DEF Snaps
  <2>3. /\ RttSnapshot(e) \in Estimates /\ RttSnapshot(e).win = e.win
        /\ RttSnapshot(e).snap = Stats(e.win)
    BY <1>1, <2>1, <2>2 DEF Estimates
  <2> QED
    BY <1>2, <2>3 DEF EstimateOK, Shown
<1>3. CASE ~(e.win # <<>> /\ e.dirty)
  <2>1. RttSnapshot(e) = e
    BY <1>3 DEF RttSnapshot
  <2> QED
    BY <1>3, <2>1 DEF EstimateOK, Shown
<1> QED
  BY <1>2, <1>3

\* There are five levels.
LEMMA FiveLevels == \A stats : Classify(stats) \in 1..5
  BY DEF Classify

-----------------------------------------------------------------------------
(* The shared evaluator.                                                   *)

\* The evaluator and the subscriptions share no variable.
LEMMA SidesApart ==
    /\ EvaluatorNext => UNCHANGED subVars
    /\ SubscriptionNext => UNCHANGED sharedVars
<1>1. EvaluatorNext => UNCHANGED subVars
  BY DEF EvaluatorNext, Evaluate, Failed, Measured, Lock, QualityHistory
<1>2. SubscriptionNext => UNCHANGED sharedVars
  BY DEF SubscriptionNext, SubscribeOutside, Subscribe, Unsubscribe, Tick,
         TickFailed, TickResponse, Compare, CallbackReturns
<1> QED
  BY <1>1, <1>2

\* Nothing but an evaluation's end changes the window, and the lock goes to
\* the first that waits.
LEMMA EvaluatorStep == EvaluatorOK /\ EvaluatorNext => EvaluatorOK'
<1> SUFFICES ASSUME EvaluatorOK, EvaluatorNext PROVE EvaluatorOK'
  OBVIOUS
<1>0. Nobody \notin Evaluations
  BY QualityAssumption
<1>1. ASSUME NEW e \in Evaluations, Evaluate(e) PROVE EvaluatorOK'
  <2>1. /\ eval[e] = "idle" /\ eval' = [eval EXCEPT ![e] = "waiting"]
        /\ queue' = Append(queue, e) /\ shared' = shared /\ holder' = holder
    BY <1>1 DEF Evaluate
  <2>2. /\ queue' \in Seq(Evaluations) /\ Len(queue') = Len(queue) + 1
        /\ Len(queue) \in Nat /\ queue'[Len(queue) + 1] = e
        /\ \A i \in 1..Len(queue) : queue'[i] = queue[i]
    BY <2>1 DEF EvaluatorOK
  <2>3. \A i \in 1..Len(queue) : queue[i] \in Evaluations /\ queue[i] # e
    BY <2>1 DEF EvaluatorOK
  <2>4. \A i \in 1..Len(queue') : eval'[queue'[i]] = "waiting"
    BY <2>1, <2>2, <2>3 DEF EvaluatorOK
  <2>5. \A i, j \in 1..Len(queue') : queue'[i] = queue'[j] => i = j
    BY <2>2, <2>3 DEF EvaluatorOK
  <2> QED
    BY <2>1, <2>2, <2>4, <2>5 DEF EvaluatorOK
<1>2. ASSUME NEW e \in Evaluations, Failed(e) PROVE EvaluatorOK'
  <2>1. EstimateOK(shared')
    BY <1>2, SnapshotRight DEF Failed, EvaluatorOK
  <2>2. /\ eval[e] = "measuring" /\ eval' = [eval EXCEPT ![e] = "idle"]
        /\ holder' = Nobody /\ queue' = queue
    BY <1>2 DEF Failed
  <2> QED
    BY <1>0, <2>1, <2>2 DEF EvaluatorOK
<1>3. ASSUME NEW e \in Evaluations, NEW rtt \in Rtts, Measured(e, rtt)
      PROVE  EvaluatorOK'
  <2>1. EstimateOK(shared')
    BY <1>3, SnapshotRight, RecordedOK DEF Measured, EvaluatorOK
  <2>2. /\ eval[e] = "measuring" /\ eval' = [eval EXCEPT ![e] = "idle"]
        /\ holder' = Nobody /\ queue' = queue
    BY <1>3 DEF Measured
  <2> QED
    BY <1>0, <2>1, <2>2 DEF EvaluatorOK
<1>4. ASSUME Lock PROVE EvaluatorOK'
  <2>1. /\ holder = Nobody /\ queue # <<>> /\ holder' = Head(queue)
        /\ queue' = Tail(queue) /\ shared' = shared
        /\ eval' = [eval EXCEPT ![Head(queue)] = "measuring"]
    BY <1>4 DEF Lock
  <2>2. /\ Head(queue) = queue[1] /\ Head(queue) \in Evaluations
        /\ Len(queue) \in Nat /\ Len(queue) >= 1
        /\ queue' \in Seq(Evaluations) /\ Len(queue') = Len(queue) - 1
        /\ \A i \in 1..Len(queue') :
             i + 1 \in 1..Len(queue) /\ queue'[i] = queue[i + 1]
    BY <2>1 DEF EvaluatorOK
  <2>3. \A i \in 1..Len(queue') :
          /\ queue'[i] \in Evaluations /\ queue'[i] # Head(queue)
          /\ eval[queue'[i]] = "waiting"
    BY <2>2 DEF EvaluatorOK
  <2>4. \A i \in 1..Len(queue') : eval'[queue'[i]] = "waiting"
    BY <2>1, <2>2, <2>3 DEF EvaluatorOK
  <2>5. \A i, j \in 1..Len(queue') : queue'[i] = queue'[j] => i = j
    BY <2>2 DEF EvaluatorOK
  <2>6. \A e \in Evaluations : eval'[e] = "measuring" <=> holder' = e
    BY <1>0, <2>1, <2>2 DEF EvaluatorOK
  <2> QED
    BY <2>1, <2>2, <2>4, <2>5, <2>6 DEF EvaluatorOK
<1>5. ASSUME QualityHistory PROVE EvaluatorOK'
  <2>1. EstimateOK(shared')
    BY <1>5, SnapshotRight DEF QualityHistory, EvaluatorOK
  <2> QED
    BY <1>5, <2>1 DEF QualityHistory, EvaluatorOK
<1> QED
  BY <1>1, <1>2, <1>3, <1>4, <1>5 DEF EvaluatorNext

-----------------------------------------------------------------------------
(* The subscriptions.                                                      *)

\* What a step of a task does to its subscription.
Becomes(h, pc, state, prev, aborted) ==
    /\ sub' \in [Hosts -> Subscriptions]
    /\ sub'[h].pc = pc /\ sub'[h].at = sub[h].at /\ sub'[h].est = state
    /\ sub'[h].prev = prev /\ sub'[h].aborted = aborted
    /\ \A g \in Hosts \ {h} : sub'[g] = sub[g]

Rest(s) == IF s.aborted THEN "ended" ELSE "waiting"

\* Each step of a task, by what it does to the subscription.
LEMMA TaskMoves ==
    ASSUME SubscriptionsOK, LevelsOK, NEW h \in Hosts
    PROVE  /\ Tick(h) =>
                Becomes(h, "measuring", sub[h].est, sub[h].prev,
                        sub[h].aborted)
           /\ TickFailed(h) =>
                Becomes(h, "waiting", sub[h].est, sub[h].prev, sub[h].aborted)
           /\ \A rtt \in Rtts : TickResponse(h, rtt) =>
                Becomes(h, "running", RttSnapshot(RecordRtt(sub[h].est, rtt)),
                        sub[h].prev, sub[h].aborted)
           /\ Compare(h) =>
                Becomes(h, IF Classify(Shown(sub[h].est)) # sub[h].prev
                           THEN "calling" ELSE Rest(sub[h]),
                        sub[h].est, sub[h].prev, sub[h].aborted)
           /\ CallbackReturns(h) =>
                Becomes(h, Rest(sub[h]), sub[h].est,
                        Classify(Shown(sub[h].est)), sub[h].aborted)
<1> DEFINE s == sub[h]
<1>0. sub \in [Hosts -> Subscriptions] /\ EstimateOK(s.est)
  BY DEF SubscriptionsOK, LevelsOK, LevelOK
<1>1. ASSUME Tick(h)
      PROVE  Becomes(h, "measuring", s.est, s.prev, s.aborted)
  BY <1>0, <1>1 DEF Tick, Becomes, Subscriptions
<1>2. ASSUME TickFailed(h)
      PROVE  Becomes(h, "waiting", s.est, s.prev, s.aborted)
  BY <1>0, <1>2 DEF TickFailed, Becomes, Subscriptions
<1>3. ASSUME NEW rtt \in Rtts, TickResponse(h, rtt)
      PROVE  Becomes(h, "running", RttSnapshot(RecordRtt(s.est, rtt)), s.prev,
                     s.aborted)
  <2> DEFINE e == RttSnapshot(RecordRtt(s.est, rtt))
  <2>1. e \in Estimates
    BY <1>0, RecordedOK, SnapshotRight DEF EstimateOK
  <2>2. sub' = [sub EXCEPT ![h] = [s EXCEPT !.pc = "running", !.est = e]]
    BY <1>0, <1>3 DEF TickResponse
  <2> HIDE DEF e
  <2>3. Becomes(h, "running", e, s.prev, s.aborted)
    BY <1>0, <2>1, <2>2 DEF Becomes, Subscriptions
  <2> QED
    BY <2>3 DEF e
<1>4. Wait(s) = [s EXCEPT !.pc = Rest(s)] /\ Rest(s) \in {"ended", "waiting"}
  BY DEF Wait, Rest
<1>5. ASSUME Compare(h)
      PROVE  Becomes(h, IF Classify(Shown(s.est)) # s.prev
                        THEN "calling" ELSE Rest(s), s.est, s.prev, s.aborted)
  <2>1. sub' = [sub EXCEPT ![h] = [s EXCEPT !.pc =
                  IF Classify(Shown(s.est)) # s.prev
                  THEN "calling" ELSE Rest(s)]]
    BY <1>0, <1>4, <1>5 DEF Compare
  <2> QED
    BY <1>0, <1>4, <2>1 DEF Becomes, Subscriptions
<1>6. ASSUME CallbackReturns(h)
      PROVE  Becomes(h, Rest(s), s.est, Classify(Shown(s.est)), s.aborted)
  <2> DEFINE v == Classify(Shown(s.est))
  <2>1. v \in 0..5
    BY FiveLevels
  <2>2. Wait([s EXCEPT !.prev = v]) = [s EXCEPT !.prev = v, !.pc = Rest(s)]
    BY <1>0 DEF Wait, Rest, Subscriptions
  <2>3. sub' = [sub EXCEPT ![h] = [s EXCEPT !.prev = v, !.pc = Rest(s)]]
    BY <1>0, <1>6, <2>2 DEF CallbackReturns
  <2> HIDE DEF v
  <2>4. Becomes(h, Rest(s), s.est, v, s.aborted)
    BY <1>0, <1>4, <2>1, <2>3 DEF Becomes, Subscriptions
  <2> QED
    BY <2>4 DEF v
<1> QED
  BY <1>1, <1>2, <1>3, <1>5, <1>6

\* The table, and who ended what, stay as they are with the addresses.
LEMMA SameTable ==
    ASSUME AddressesOK, FreedOK,
           subs' = subs, ends' = ends, killer' = killer,
           \A g \in Hosts : \A k \in killer[g] : k[1] \in Hosts,
           \A g \in Hosts :
             /\ sub'[g].at = sub[g].at
             /\ sub'[g].pc = "none" <=> sub[g].pc = "none"
    PROVE  AddressesOK' /\ FreedOK'
<1>1. AddressesOK'
  <2>1. \A g \in Hosts :
          /\ sub'[g].pc = "none" <=> sub'[g].at = Nobody
          /\ sub'[g].pc = "none" => killer'[g] = {} /\ ends'[g] = 0
          /\ sub'[g].pc # "none" /\ killer'[g] = {} => sub'[g].at \in subs'
    BY DEF AddressesOK
  <2>2. \A a \in subs' : \E g \in Hosts : sub'[g].at = a /\ killer'[g] = {}
    BY DEF AddressesOK
  <2>3. ASSUME NEW f \in Hosts, NEW g \in Hosts,
               sub'[f].pc # "none", sub'[f].at = sub'[g].at,
               killer'[f] = {}, killer'[g] = {}
        PROVE  f = g
    BY <2>3 DEF AddressesOK
  <2> QED
    BY <2>1, <2>2, <2>3 DEF AddressesOK
<1>2. FreedOK'
  BY DEF FreedOK, FreedByOwner
<1> QED
  BY <1>1, <1>2

\* A step of a task does nothing to the table and to who ended what; the rest
\* concerns its own subscription.
LEMMA TaskKeeps ==
    ASSUME QualityInv, NEW h \in Hosts, sub[h].pc # "none",
           NEW p, NEW e, NEW v, p # "none",
           Becomes(h, p, e, v, sub[h].aborted),
           UNCHANGED <<subs, ends, killer>>,
           told' \in [Hosts -> Seq(1..5)], late' \in [Hosts -> Nat],
           \A g \in Hosts \ {h} : told'[g] = told[g] /\ late'[g] = late[g],
           LevelOK(sub'[h], told'[h]),
           late'[h] <= 1,
           late'[h] > 0 => killer[h] # {} /\ p \in {"calling", "ended"},
           killer[h] # {} => p \in {"running", "calling", "ended"}
    PROVE  SubscriptionsOK' /\ LevelsOK' /\ AddressesOK' /\ FreedOK' /\ AbortOK'
<1>1. \A g \in Hosts :
        sub'[g].at = sub[g].at /\ (sub'[g].pc = "none" <=> sub[g].pc = "none")
  BY DEF Becomes
<1>2. /\ subs' = subs /\ ends' = ends /\ killer' = killer
      /\ \A g \in Hosts : \A k \in killer[g] : k[1] \in Hosts
  BY DEF QualityInv, SubscriptionsOK
<1>3. AddressesOK' /\ FreedOK'
  BY <1>1, <1>2, SameTable DEF QualityInv
<1>4. SubscriptionsOK'
  BY DEF QualityInv, SubscriptionsOK, Becomes
<1>5. LevelsOK'
  BY DEF QualityInv, LevelsOK, Becomes
<1>6. AbortOK'
  BY DEF QualityInv, AbortOK, Becomes
<1> QED
  BY <1>3, <1>4, <1>5, <1>6

\* What the host was told, with one level more.
LEMMA LastTwo ==
    ASSUME NEW t \in Seq(1..5), NEW level \in 1..5, Len(t) <= 2,
           Len(t) > 0 => t[Len(t)] # level,
           NEW n, n = IF Len(t) = 2 THEN <<t[2], level>> ELSE Append(t, level)
    PROVE  /\ n \in Seq(1..5) /\ n # <<>> /\ n[Len(n)] = level /\ Len(n) <= 2
           /\ Len(n) = 2 => n[1] # n[2]
<1>1. /\ Append(t, level) \in Seq(1..5) /\ Len(t) \in Nat
      /\ Len(Append(t, level)) = Len(t) + 1
      /\ \A i \in 1..Len(t) : Append(t, level)[i] = t[i]
      /\ Append(t, level)[Len(t) + 1] = level
  OBVIOUS
<1>2. CASE Len(t) = 2
  BY <1>2
<1>3. CASE Len(t) < 2
  <2>1. n = Append(t, level) /\ Len(n) \in {1, 2} /\ n # <<>>
    BY <1>1, <1>3
  <2>2. Len(n) = Len(t) + 1
    BY <1>1, <2>1
  <2>3. Len(t) = 1 => t[1] # level
    OBVIOUS
  <2>4. Len(n) = 2 => n[1] # n[2]
    <3>1. SUFFICES ASSUME Len(t) = 1 PROVE n[1] # n[2]
      BY <1>1, <2>2
    <3>2. n[1] = t[1] /\ n[2] = level
      BY <1>1, <2>1, <3>1
    <3> QED
      BY <2>3, <3>1, <3>2
  <2> QED
    BY <1>1, <2>1, <2>2, <2>4
<1> QED
  BY <1>1, <1>2, <1>3

\* Ticks, measurements, callbacks.
LEMMA TaskStep ==
    ASSUME QualityInv, NEW h \in Hosts,
           \/ Tick(h) \/ TickFailed(h) \/ \E rtt \in Rtts : TickResponse(h, rtt)
           \/ Compare(h) \/ CallbackReturns(h)
    PROVE  SubscriptionsOK' /\ LevelsOK' /\ AddressesOK' /\ FreedOK' /\ AbortOK'
<1> DEFINE s == sub[h]
<1> DEFINE t == told[h]
<1> DEFINE Kept == /\ SubscriptionsOK' /\ LevelsOK' /\ AddressesOK'
                   /\ FreedOK' /\ AbortOK'
<1>0. /\ s \in Subscriptions /\ LevelOK(s, t) /\ t \in Seq(1..5)
      /\ EstimateOK(s.est) /\ SubscriptionsOK /\ LevelsOK
      /\ told \in [Hosts -> Seq(1..5)] /\ late \in [Hosts -> Nat]
  BY DEF QualityInv, SubscriptionsOK, LevelsOK, LevelOK
<1>6. /\ s.aborted <=> killer[h] # {}
      /\ killer[h] # {} => s.pc \in {"running", "calling", "ended"}
      /\ late[h] <= 1
      /\ late[h] > 0 => killer[h] # {} /\ s.pc \in {"calling", "ended"}
  BY DEF QualityInv, AbortOK
<1>1. ASSUME Tick(h) PROVE Kept
  <2>1. /\ s.pc = "waiting"
        /\ UNCHANGED <<subs, ends, killer, told, late>>
    BY <1>1 DEF Tick
  <2>2. Becomes(h, "measuring", s.est, s.prev, s.aborted)
    BY <1>0, <1>1, TaskMoves
  <2>3. LevelOK(sub'[h], told'[h])
    BY <1>0, <2>1, <2>2 DEF LevelOK, Becomes
  <2> QED
    BY <1>0, <1>6, <2>1, <2>2, <2>3, TaskKeeps
<1>2. ASSUME TickFailed(h) PROVE Kept
  <2>1. /\ s.pc = "measuring"
        /\ UNCHANGED <<subs, ends, killer, told, late>>
    BY <1>2 DEF TickFailed
  <2>2. Becomes(h, "waiting", s.est, s.prev, s.aborted)
    BY <1>0, <1>2, TaskMoves
  <2>3. LevelOK(sub'[h], told'[h])
    BY <1>0, <2>1, <2>2 DEF LevelOK, Becomes
  <2> QED
    BY <1>0, <1>6, <2>1, <2>2, <2>3, TaskKeeps
<1>3. ASSUME NEW rtt \in Rtts, TickResponse(h, rtt) PROVE Kept
  <2> DEFINE e == RttSnapshot(RecordRtt(s.est, rtt))
  <2>1. /\ s.pc = "measuring"
        /\ UNCHANGED <<subs, ends, killer, told, late>>
    BY <1>3 DEF TickResponse
  <2>2. Becomes(h, "running", e, s.prev, s.aborted)
    BY <1>0, <1>3, TaskMoves
  <2>3. EstimateOK(e) /\ e.win # <<>>
    BY <1>0, RecordedOK, SnapshotRight
  <2> HIDE DEF e
  <2>4. LevelOK(sub'[h], told'[h])
    BY <1>0, <2>1, <2>2, <2>3 DEF LevelOK, Becomes
  <2> QED
    BY <1>0, <1>6, <2>1, <2>2, <2>4, TaskKeeps
<1>4. ASSUME Compare(h) PROVE Kept
  <2> DEFINE level == Classify(Shown(s.est))
  <2>1. /\ s.pc = "running" /\ UNCHANGED <<subs, ends, killer>>
        /\ level # s.prev =>
             /\ told' = [told EXCEPT ![h] = IF Len(t) = 2 THEN <<t[2], level>>
                                            ELSE Append(t, level)]
             /\ late' = [late EXCEPT ![h] = IF killer[h] # {} THEN late[h] + 1
                                            ELSE late[h]]
        /\ level = s.prev => told' = told /\ late' = late
    BY <1>0, <1>4 DEF Compare
  <2>2. Becomes(h, IF level # s.prev THEN "calling" ELSE Rest(s), s.est,
                s.prev, s.aborted)
    BY <1>0, <1>4, TaskMoves
  <2>3. /\ level \in 1..5 /\ s.est.win # <<>> /\ late[h] = 0
        /\ level = Classify(Stats(s.est.win))
        /\ s.prev = IF t = <<>> THEN 0 ELSE t[Len(t)]
    BY <1>0, <1>6, <2>1, FiveLevels, SnapshotRight DEF LevelOK, SubscriptionsOK
  <2> HIDE DEF level
  <2>4. CASE level = s.prev
    <3>1. t # <<>> /\ t[Len(t)] = level
      BY <2>3, <2>4
    <3>2. LevelOK(sub'[h], told'[h])
      BY <1>0, <2>1, <2>2, <2>3, <2>4, <3>1 DEF LevelOK, Becomes, Rest
    <3>3. /\ Becomes(h, Rest(s), s.est, s.prev, s.aborted)
          /\ Rest(s) # "none" /\ (s.aborted => Rest(s) = "ended")
      BY <2>2, <2>4 DEF Rest
    <3> QED
      BY <1>0, <1>6, <2>1, <2>3, <2>4, <3>2, <3>3, TaskKeeps
  <2>5. CASE level # s.prev
    <3> DEFINE n == told'[h]
    <3>1. n = IF Len(t) = 2 THEN <<t[2], level>> ELSE Append(t, level)
      BY <1>0, <2>1, <2>5
    <3>2. /\ n \in Seq(1..5) /\ n # <<>> /\ n[Len(n)] = level /\ Len(n) <= 2
          /\ Len(n) = 2 => n[1] # n[2]
      <4>1. t \in Seq(1..5) /\ Len(t) <= 2
        BY <1>0 DEF LevelOK
      <4>2. Len(t) > 0 => t # <<>> /\ t[Len(t)] # level
        BY <2>3, <2>5
      <4>3. level \in 1..5
        BY <2>3
      <4> HIDE DEF n, t
      <4> QED
        BY <3>1, <4>1, <4>2, <4>3, LastTwo
    <3>3. Becomes(h, "calling", s.est, s.prev, s.aborted)
      BY <2>2, <2>5
    <3>4. /\ told' \in [Hosts -> Seq(1..5)] /\ late' \in [Hosts -> Nat]
          /\ \A g \in Hosts \ {h} : told'[g] = told[g] /\ late'[g] = late[g]
          /\ late'[h] <= 1 /\ (late'[h] > 0 => killer[h] # {})
      <4>1. told' = [told EXCEPT ![h] = n]
        BY <1>0, <2>1, <2>5
      <4>2. /\ late' = [late EXCEPT ![h] = IF killer[h] # {} THEN late[h] + 1
                                            ELSE late[h]]
        BY <2>1, <2>5
      <4>3. n \in Seq(1..5)
        BY <3>2
      <4> HIDE DEF n
      <4> QED
        BY <1>0, <2>3, <4>1, <4>2, <4>3
    <3> HIDE DEF n
    <3>5. LevelOK(sub'[h], n)
      BY <1>0, <2>3, <3>2, <3>3 DEF LevelOK, Becomes, level
    <3>6. LevelOK(sub'[h], told'[h])
      BY <3>5 DEF n
    <3> QED
      BY <2>1, <3>3, <3>4, <3>6, TaskKeeps
  <2> QED
    BY <2>4, <2>5
<1>5. ASSUME CallbackReturns(h) PROVE Kept
  <2> DEFINE level == Classify(Shown(s.est))
  <2>1. /\ s.pc = "calling"
        /\ UNCHANGED <<subs, ends, killer, told, late>>
    BY <1>5 DEF CallbackReturns
  <2>2. Becomes(h, Rest(s), s.est, level, s.aborted)
    BY <1>0, <1>5, TaskMoves
  <2>3. level = Classify(Stats(s.est.win)) /\ t # <<>> /\ t[Len(t)] = level
    BY <1>0, <2>1, SnapshotRight DEF LevelOK
  <2> HIDE DEF level
  <2>4. LevelOK(sub'[h], told'[h])
    BY <1>0, <2>1, <2>2, <2>3 DEF LevelOK, Becomes, Rest
  <2>5. Rest(s) # "none" /\ (s.aborted => Rest(s) = "ended")
    BY DEF Rest
  <2> QED
    BY <1>0, <1>6, <2>1, <2>2, <2>4, <2>5, TaskKeeps
<1> QED
  BY <1>1, <1>2, <1>3, <1>4, <1>5

\* A new subscription gets an address that is not in the table.
LEMMA SubscribeStep ==
    ASSUME QualityInv, NEW h \in Hosts, Subscribe(h)
    PROVE  SubscriptionsOK' /\ LevelsOK' /\ AddressesOK' /\ FreedOK' /\ AbortOK'
<1> DEFINE s == sub[h]
<1>1. PICK a \in Addresses \ subs, p \in {"waiting", "ended"} :
        /\ sub' = [sub EXCEPT ![h].at = a, ![h].pc = p]
        /\ subs' = subs \cup {a}
  BY DEF Subscribe
<1>2. s.pc = "none" /\ UNCHANGED <<ends, late, told, killer>>
  BY DEF Subscribe
<1>3. sub \in [Hosts -> Subscriptions] /\ a # Nobody
  BY QualityAssumption DEF QualityInv, SubscriptionsOK
<1>4. /\ sub' \in [Hosts -> Subscriptions]
      /\ sub'[h].at = a /\ sub'[h].pc = p /\ sub'[h].est = s.est
      /\ sub'[h].prev = s.prev /\ sub'[h].aborted = s.aborted
      /\ \A g \in Hosts \ {h} : sub'[g] = sub[g]
  BY <1>1, <1>3 DEF Subscriptions
<1>5. killer[h] = {} /\ ends[h] = 0
  BY <1>2 DEF QualityInv, AddressesOK
<1>6. SubscriptionsOK'
  BY <1>1, <1>2, <1>4 DEF QualityInv, SubscriptionsOK
<1>7. LevelsOK'
  <2>1. LevelOK(s, told[h])
    BY DEF QualityInv, LevelsOK
  <2>2. LevelOK(sub'[h], told[h])
    BY <1>2, <1>4, <2>1 DEF LevelOK
  <2> QED
    BY <1>2, <1>4, <2>2 DEF QualityInv, LevelsOK
<1>8. AddressesOK'
  <2>1. \A g \in Hosts :
          /\ sub'[g].pc = "none" <=> sub'[g].at = Nobody
          /\ sub'[g].pc = "none" => killer'[g] = {} /\ ends'[g] = 0
          /\ sub'[g].pc # "none" /\ killer'[g] = {} => sub'[g].at \in subs'
    BY <1>1, <1>2, <1>3, <1>4 DEF QualityInv, AddressesOK
  <2>2. ASSUME NEW b \in subs'
        PROVE  \E g \in Hosts : sub'[g].at = b /\ killer'[g] = {}
    <3>1. CASE b = a
      BY <1>2, <1>4, <1>5, <3>1
    <3>2. CASE b # a
      <4>1. PICK g \in Hosts : sub[g].at = b /\ killer[g] = {}
        BY <1>1, <3>2, <2>2 DEF QualityInv, AddressesOK
      <4>2. b # Nobody
        BY <1>1, <3>2, <2>2, QualityAssumption DEF QualityInv, SubscriptionsOK
      <4>3. g # h
        BY <1>2, <4>1, <4>2 DEF QualityInv, AddressesOK
      <4> QED
        BY <1>2, <1>4, <4>1, <4>3
    <3> QED
      BY <3>1, <3>2
  <2>3. ASSUME NEW f \in Hosts, NEW g \in Hosts,
               sub'[f].pc # "none", sub'[f].at = sub'[g].at,
               killer'[f] = {}, killer'[g] = {}
        PROVE  f = g
    <3>1. \A x \in Hosts \ {h} : killer[x] = {} => sub[x].at # a
      BY <1>1, <1>3 DEF QualityInv, AddressesOK
    <3> QED
      BY <1>2, <1>4, <2>3, <3>1 DEF QualityInv, AddressesOK
  <2> QED
    BY <2>1, <2>2, <2>3 DEF AddressesOK
<1>9. FreedOK'
  <2>1. \A g \in Hosts : \A k \in killer[g] :
          k[1] \in Hosts /\ g # h /\ (k[1] # g => k[1] # h)
    BY <1>5 DEF QualityInv, SubscriptionsOK, FreedOK, FreedByOwner
  <2> QED
    BY <1>2, <1>4, <2>1 DEF QualityInv, FreedOK, FreedByOwner
<1>10. AbortOK'
  BY <1>2, <1>4, <1>5 DEF QualityInv, AbortOK
<1> QED
  BY <1>6, <1>7, <1>8, <1>9, <1>10

\* An address that is in the table belongs to a subscription that nobody has
\* ended, which is the one that unsubscribe ends.
LEMMA OwnerEnds ==
    ASSUME QualityInv, NEW h \in Hosts, Unsubscribe(h), sub[h].at \in subs
    PROVE  \E g \in Hosts :
             /\ sub[g].pc # "none" /\ sub[g].at = sub[h].at /\ killer[g] = {}
             /\ Becomes(g, IF sub[g].pc \in {"waiting", "measuring"}
                           THEN "ended" ELSE sub[g].pc,
                        sub[g].est, sub[g].prev, TRUE)
             /\ subs' = subs \ {sub[h].at}
             /\ killer' = [killer EXCEPT ![g] = {<<h, ends[h]>>}]
<1> DEFINE P(g) == sub[g].at = sub[h].at /\ killer[g] = {}
<1> DEFINE owner == CHOOSE g \in Hosts : P(g)
<1>1. \E g \in Hosts : P(g)
  BY DEF QualityInv, AddressesOK
<1>2. owner \in Hosts /\ P(owner)
  <2> HIDE DEF P
  <2> QED
    BY <1>1
<1>3. /\ subs' = subs \ {sub[h].at}
      /\ sub' = [sub EXCEPT ![owner] = Aborted(sub[owner])]
      /\ killer' = [killer EXCEPT ![owner] =
                      killer[owner] \cup {<<h, ends[h]>>}]
  BY DEF Unsubscribe
<1>4. sub \in [Hosts -> Subscriptions] /\ Nobody \notin subs
      /\ killer \in [Hosts -> SUBSET (Hosts \X Nat)]
  BY QualityAssumption DEF QualityInv, SubscriptionsOK
<1> HIDE DEF owner
<1>5. sub[owner].pc # "none"
  BY <1>2, <1>4 DEF QualityInv, AddressesOK
<1>6. Becomes(owner, IF sub[owner].pc \in {"waiting", "measuring"}
                     THEN "ended" ELSE sub[owner].pc,
              sub[owner].est, sub[owner].prev, TRUE)
  BY <1>2, <1>3, <1>4 DEF Aborted, Becomes, Subscriptions
<1>7. killer' = [killer EXCEPT ![owner] = {<<h, ends[h]>>}]
  BY <1>2, <1>3
<1> QED
  BY <1>2, <1>3, <1>5, <1>6, <1>7

\* unsubscribe, the first or the second time.
LEMMA UnsubscribeStep ==
    ASSUME QualityInv, NEW h \in Hosts, Unsubscribe(h)
    PROVE  SubscriptionsOK' /\ LevelsOK' /\ AddressesOK' /\ FreedOK' /\ AbortOK'
<1>1. /\ sub[h].pc # "none" /\ late' = late /\ told' = told
      /\ ends' = [ends EXCEPT ![h] = ends[h] + 1]
  BY DEF Unsubscribe
<1>2. /\ ends \in [Hosts -> Nat] /\ ends' \in [Hosts -> Nat]
      /\ ends'[h] = ends[h] + 1
      /\ \A g \in Hosts : ends'[g] >= ends[g] /\ (g # h => ends'[g] = ends[g])
      /\ killer \in [Hosts -> SUBSET (Hosts \X Nat)]
  BY <1>1 DEF QualityInv, SubscriptionsOK
<1>3. CASE sub[h].at \notin subs
  <2>1. subs' = subs /\ sub' = sub /\ killer' = killer
    BY <1>3 DEF Unsubscribe
  <2>2. SubscriptionsOK'
    BY <1>1, <1>2, <2>1 DEF QualityInv, SubscriptionsOK
  <2>3. LevelsOK'
    BY <1>1, <2>1 DEF QualityInv, LevelsOK
  <2>4. AddressesOK'
    BY <1>1, <1>2, <2>1 DEF QualityInv, AddressesOK
  <2>5. FreedOK'
    <3>1. \A g \in Hosts : \A k \in killer[g] : k[1] \in Hosts /\ k[2] \in Nat
      BY <1>2
    <3>2. (\A g \in Hosts : ends'[g] <= 1) => \A g \in Hosts : ends[g] <= 1
      BY <1>2
    <3>3. \A g \in Hosts : \A k \in killer[g] : k[2] < ends'[k[1]]
      BY <1>2, <3>1 DEF QualityInv, FreedOK
    <3> QED
      BY <2>1, <3>2, <3>3 DEF QualityInv, FreedOK, FreedByOwner
  <2>6. AbortOK'
    BY <1>1, <2>1 DEF QualityInv, AbortOK
  <2> QED
    BY <2>2, <2>3, <2>4, <2>5, <2>6
<1>4. CASE sub[h].at \in subs
  <2>1. PICK g \in Hosts :
          /\ sub[g].pc # "none" /\ sub[g].at = sub[h].at /\ killer[g] = {}
          /\ Becomes(g, IF sub[g].pc \in {"waiting", "measuring"}
                        THEN "ended" ELSE sub[g].pc,
                     sub[g].est, sub[g].prev, TRUE)
          /\ subs' = subs \ {sub[h].at}
          /\ killer' = [killer EXCEPT ![g] = {<<h, ends[h]>>}]
    BY <1>4, OwnerEnds
  <2>2. /\ killer'[g] = {<<h, ends[h]>>}
        /\ killer' \in [Hosts -> SUBSET (Hosts \X Nat)]
        /\ \A f \in Hosts \ {g} : killer'[f] = killer[f]
    BY <1>2, <2>1
  <2>3. /\ \A f \in Hosts : sub'[f].at = sub[f].at
        /\ \A f \in Hosts : sub'[f].pc = "none" <=> sub[f].pc = "none"
    BY <2>1 DEF Becomes
  <2>4. SubscriptionsOK'
    BY <1>1, <1>2, <2>1, <2>2 DEF QualityInv, SubscriptionsOK, Becomes
  <2>5. LevelsOK'
    <3>1. LevelOK(sub[g], told[g])
      BY DEF QualityInv, LevelsOK
    <3>2. LevelOK(sub'[g], told[g])
      BY <2>1, <3>1 DEF LevelOK, Becomes
    <3> QED
      BY <1>1, <2>1, <3>2 DEF QualityInv, LevelsOK, Becomes
  <2>6. \A f \in Hosts \ {g} :
          sub[f].pc # "none" /\ killer[f] = {} => sub[f].at # sub[h].at
    BY <2>1 DEF QualityInv, AddressesOK
  <2>7. AddressesOK'
    <3>1. \A f \in Hosts :
            /\ sub'[f].pc = "none" <=> sub'[f].at = Nobody
            /\ sub'[f].pc = "none" => killer'[f] = {} /\ ends'[f] = 0
      BY <1>1, <1>2, <2>1, <2>2, <2>3 DEF QualityInv, AddressesOK
    <3>2. \A f \in Hosts :
            sub'[f].pc # "none" /\ killer'[f] = {} => sub'[f].at \in subs'
      BY <2>1, <2>2, <2>3, <2>6 DEF QualityInv, AddressesOK
    <3>3. ASSUME NEW a \in subs'
          PROVE  \E f \in Hosts : sub'[f].at = a /\ killer'[f] = {}
      <4>1. PICK f \in Hosts : sub[f].at = a /\ killer[f] = {}
        BY <2>1, <3>3 DEF QualityInv, AddressesOK
      <4>2. f # g
        BY <2>1, <3>3, <4>1
      <4> QED
        BY <2>2, <2>3, <4>1, <4>2
    <3>4. ASSUME NEW e \in Hosts, NEW f \in Hosts,
                 sub'[e].pc # "none", sub'[e].at = sub'[f].at,
                 killer'[e] = {}, killer'[f] = {}
          PROVE  e = f
      <4>1. e # g /\ f # g
        BY <2>2, <3>4
      <4>2. killer[e] = {} /\ killer[f] = {}
        BY <2>2, <3>4, <4>1
      <4>3. sub[e].pc # "none" /\ sub[e].at = sub[f].at
        BY <2>3, <3>4
      <4> QED
        BY <4>2, <4>3 DEF QualityInv, AddressesOK
    <3> QED
      BY <3>1, <3>2, <3>3, <3>4 DEF AddressesOK
  <2>8. FreedOK'
    <3>1. \A f \in Hosts : \A k \in killer[f] :
            f # g /\ k[1] \in Hosts /\ k[2] \in Nat /\ k[2] < ends'[k[1]]
      BY <1>2, <2>1 DEF QualityInv, FreedOK
    <3>2. h # g => killer[h] # {}
      BY <1>1, <2>6
    <3>3. \A f \in Hosts : \A j, k \in killer'[f] :
            /\ j = k /\ k[2] < ends'[k[1]]
            /\ k[1] # f => killer'[k[1]] # {} /\ sub'[k[1]].at = sub'[f].at
      <4>1. \A j, k \in killer'[g] :
              /\ j = k /\ k[2] < ends'[k[1]]
              /\ k[1] # g => killer'[k[1]] # {} /\ sub'[k[1]].at = sub'[g].at
        <5>1. \A k \in killer'[g] : k = <<h, ends[h]>> /\ k[1] = h
                                    /\ k[2] = ends[h]
          BY <2>2
        <5> QED
          BY <1>2, <2>1, <2>2, <2>3, <3>2, <5>1
      <4>2. ASSUME NEW f \in Hosts \ {g}, NEW j \in killer'[f],
                   NEW k \in killer'[f]
            PROVE  /\ j = k /\ k[2] < ends'[k[1]]
                   /\ k[1] # f =>
                        killer'[k[1]] # {} /\ sub'[k[1]].at = sub'[f].at
        <5>1. killer'[f] = killer[f]
          BY <2>2
        <5>2. j = k /\ k[2] < ends'[k[1]] /\ k[1] \in Hosts
          BY <3>1, <5>1 DEF QualityInv, FreedOK, FreedByOwner
        <5>3. k[1] # f => killer[k[1]] # {} /\ sub[k[1]].at = sub[f].at
          BY <5>1 DEF QualityInv, FreedOK, FreedByOwner
        <5> QED
          BY <2>2, <2>3, <5>2, <5>3
      <4> QED
        BY <4>1, <4>2
    <3>4. ASSUME \A f \in Hosts : ends'[f] <= 1
          PROVE  \A f \in Hosts : \A k \in killer'[f] : k[1] = f
      <4>1. ends[h] = 0 /\ \A f \in Hosts : ends[f] <= 1
        BY <1>2, <3>4
      <4>2. \A f \in Hosts : \A k \in killer[f] : k[1] = f /\ k[2] < ends[f]
        BY <4>1 DEF QualityInv, FreedOK, FreedByOwner
      <4>3. \A f \in Hosts : \A k \in killer[f] : f # h
        BY <1>2, <4>1, <4>2
      <4>4. h = g
        BY <3>2, <4>3
      <4> QED
        BY <2>2, <4>2, <4>4
    <3> QED
      BY <3>3, <3>4 DEF FreedOK, FreedByOwner
  <2>9. AbortOK'
    BY <1>1, <2>1, <2>2 DEF QualityInv, AbortOK, Becomes, SubscriptionsOK,
       Subscriptions
  <2> QED
    BY <2>4, <2>5, <2>7, <2>8, <2>9
<1> QED
  BY <1>3, <1>4

-----------------------------------------------------------------------------
(* The theorems about the network quality.                                 *)

\* Nobody has evaluated or subscribed.
LEMMA QualityInvInit == QualityInit => QualityInv
<1> SUFFICES ASSUME QualityInit PROVE QualityInv
  OBVIOUS
<1>1. EstimateOK(Empty) /\ Empty \in Estimates /\ Empty.win = <<>>
  BY QualityAssumption DEF EstimateOK, Empty, Estimates, Snaps
<1>2. EvaluatorOK
  BY <1>1, QualityAssumption DEF QualityInit, EvaluatorOK
<1>3. /\ NoSub \in Subscriptions /\ NoSub.pc = "none" /\ NoSub.at = Nobody
      /\ NoSub.est = Empty /\ NoSub.prev = 0 /\ NoSub.aborted = FALSE
  BY <1>1 DEF NoSub, Subscriptions
<1>4. SubscriptionsOK
  BY <1>3 DEF QualityInit, SubscriptionsOK
<1>5. LevelOK(NoSub, <<>>)
  BY <1>1, <1>3 DEF LevelOK
<1>6. LevelsOK
  BY <1>5 DEF QualityInit, LevelsOK
<1>7. AddressesOK /\ FreedOK /\ AbortOK
  BY <1>3 DEF QualityInit, AddressesOK, FreedOK, FreedByOwner, AbortOK
<1> QED
  BY <1>2, <1>4, <1>6, <1>7 DEF QualityInv

\* A step that leaves the subscriptions alone.
LEMMA SameSubscriptions ==
    ASSUME SubscriptionsOK, LevelsOK, AddressesOK, FreedOK, AbortOK,
           UNCHANGED <<subs, sub, ends, late, told, killer>>
    PROVE  SubscriptionsOK' /\ LevelsOK' /\ AddressesOK' /\ FreedOK' /\ AbortOK'
<1>1. SubscriptionsOK'
  BY DEF SubscriptionsOK
<1>2. LevelsOK'
  BY DEF LevelsOK
<1>3. AddressesOK'
  BY DEF AddressesOK
<1>4. FreedOK'
  BY DEF FreedOK, FreedByOwner
<1>5. AbortOK'
  BY DEF AbortOK
<1> QED
  BY <1>1, <1>2, <1>3, <1>4, <1>5

\* The inductive invariant of the network quality holds always.
THEOREM QualityInductive == QualitySpec => []QualityInv
<1>1. ASSUME QualityInv, EvaluatorNext PROVE QualityInv'
  <2>1. EvaluatorOK' /\ UNCHANGED subVars
    BY <1>1, EvaluatorStep, SidesApart DEF QualityInv
  <2> QED
    BY <1>1, <2>1, SameSubscriptions DEF QualityInv, subVars
<1>2. ASSUME QualityInv, SubscriptionNext PROVE QualityInv'
  <2>1. EvaluatorOK'
    BY <1>2, SidesApart DEF QualityInv, sharedVars, EvaluatorOK
  <2>2. SubscriptionsOK' /\ LevelsOK' /\ AddressesOK' /\ FreedOK' /\ AbortOK'
    <3>1. CASE SubscribeOutside
      BY <1>2, <3>1, SameSubscriptions DEF SubscribeOutside, QualityInv
    <3> QED
      BY <1>2, <3>1, TaskStep, SubscribeStep, UnsubscribeStep
      DEF SubscriptionNext
  <2> QED
    BY <2>1, <2>2 DEF QualityInv
<1>3. ASSUME QualityInv, UNCHANGED qualityVars PROVE QualityInv'
  <2>1. UNCHANGED <<shared, holder, queue, eval>>
    BY <1>3 DEF qualityVars, sharedVars
  <2>2. EvaluatorOK'
    BY <1>3, <2>1 DEF QualityInv, EvaluatorOK
  <2>3. UNCHANGED <<subs, sub, ends, late, told, killer>>
    BY <1>3 DEF qualityVars, subVars
  <2> QED
    BY <1>3, <2>2, <2>3, SameSubscriptions DEF QualityInv
<1>4. QualityInv /\ [QualityNext]_qualityVars => QualityInv'
  BY <1>1, <1>2, <1>3 DEF QualityNext
<1> QED
  BY QualityInvInit, <1>4, PTL DEF QualitySpec

\* For any number of evaluations, subscriptions and samples: evaluate and
\* history show the level of the window of now, and so does a subscription's
\* last callback.
THEOREM LevelsAlwaysCurrent == QualitySpec => []LevelsCurrent
<1>1. ASSUME QualityInv PROVE LevelsCurrent
  <2>1. QualityTypeOK
    <3>1. EstimateOK(shared) /\ \A h \in Hosts : EstimateOK(sub[h].est)
      BY <1>1 DEF QualityInv, EvaluatorOK, LevelsOK, LevelOK
    <3> QED
      BY <1>1, <3>1 DEF QualityInv, EvaluatorOK, EstimateOK, Estimates,
         QualityTypeOK
  <2>2. SharedCurrent
    BY <1>1, SnapshotRight DEF QualityInv, EvaluatorOK, SharedCurrent
  <2>3. HostKnows
    BY <1>1 DEF QualityInv, LevelsOK, LevelOK, HostKnows
  <2> QED
    BY <2>1, <2>2, <2>3 DEF LevelsCurrent
<1> QED
  BY QualityInductive, <1>1, PTL

\* With any number of hosts and addresses: a subscription is freed once, by
\* another host only where somebody has unsubscribed twice, and calls back at
\* most once more.
THEOREM UnsubscribeAlwaysEnds == QualitySpec => []UnsubscribeEnds
<1>1. QualityInv => UnsubscribeEnds
  BY DEF QualityInv, FreedOK, AbortOK, LateOnce, UnsubscribeEnds
<1> QED
  BY QualityInductive, <1>1, PTL

-----------------------------------------------------------------------------
(* RttWindow: sorting by counting, and the percentile.                     *)

\* The samples that are not after sample i.
Lower(win, i) == {j \in DOMAIN win : NotAfter(win, j, i)}

\* Counting them gives each sample a place of its own.
LEMMA RankFacts ==
    ASSUME NEW win \in Seq(Int)
    PROVE  /\ Len(win) \in Nat /\ DOMAIN win = 1..Len(win)
           /\ IsFiniteSet(DOMAIN win) /\ Cardinality(DOMAIN win) = Len(win)
           /\ \A i \in DOMAIN win :
                /\ IsFiniteSet(Lower(win, i))
                /\ Rank(win, i) = Cardinality(Lower(win, i))
                /\ Rank(win, i) \in 1..Len(win)
<1>1. Len(win) \in Nat /\ DOMAIN win = 1..Len(win)
  OBVIOUS
<1>2. IsFiniteSet(DOMAIN win) /\ Cardinality(DOMAIN win) = Len(win)
  BY <1>1, FS_Interval
<1>3. ASSUME NEW i \in DOMAIN win
      PROVE  /\ IsFiniteSet(Lower(win, i))
             /\ Rank(win, i) = Cardinality(Lower(win, i))
             /\ Rank(win, i) \in 1..Len(win)
  <2>1. Lower(win, i) \in SUBSET (DOMAIN win)
    BY DEF Lower
  <2>2. IsFiniteSet(Lower(win, i)) /\ Cardinality(Lower(win, i)) \in Nat
        /\ Cardinality(Lower(win, i)) <= Len(win)
    BY <2>1, <1>2, FS_Subset, FS_CardinalityType
  <2>3. i \in Lower(win, i)
    BY <1>1 DEF Lower, NotAfter
  <2>4. Cardinality(Lower(win, i)) # 0
    BY <2>2, <2>3, FS_EmptySet
  <2>5. Rank(win, i) = Cardinality(Lower(win, i))
    BY DEF Rank, Lower
  <2> QED
    BY <1>1, <2>2, <2>4, <2>5
<1> QED
  BY <1>1, <1>2, <1>3

\* Two samples have different places, the later the greater.
LEMMA RankDiffers ==
    ASSUME NEW win \in Seq(Int), NEW i \in DOMAIN win, NEW j \in DOMAIN win,
           i # j
    PROVE  Rank(win, i) # Rank(win, j)
<1>1. ASSUME NEW a \in DOMAIN win, NEW b \in DOMAIN win, a # b,
             NotAfter(win, a, b)
      PROVE  Rank(win, a) # Rank(win, b)
  <2>1. \A k \in DOMAIN win : win[k] \in Int /\ k \in Int
    OBVIOUS
  <2>2. Lower(win, a) \in SUBSET Lower(win, b)
    BY <1>1, <2>1 DEF Lower, NotAfter
  <2>3. b \in Lower(win, b) /\ b \notin Lower(win, a)
    BY <1>1, <2>1 DEF Lower, NotAfter
  <2>4. IsFiniteSet(Lower(win, b))
    BY RankFacts
  <2>5. Cardinality(Lower(win, a)) # Cardinality(Lower(win, b))
    BY <2>2, <2>3, <2>4, FS_Subset
  <2> QED
    BY <2>5, RankFacts
<1>2. NotAfter(win, i, j) \/ NotAfter(win, j, i)
  <2>1. \A k \in DOMAIN win : win[k] \in Int /\ k \in Int
    OBVIOUS
  <2> QED
    BY <2>1 DEF NotAfter
<1> QED
  BY <1>1, <1>2

\* Every place is taken: what has place k is k-th in ascending order.
LEMMA PlaceTaken ==
    ASSUME NEW win \in Seq(Int), NEW k \in DOMAIN win
    PROVE  \E i \in DOMAIN win : Rank(win, i) = k /\ Ascending(win)[k] = win[i]
<1> DEFINE D == DOMAIN win
           f == [i \in D |-> Rank(win, i)]
<1>1. D = 1..Len(win) /\ IsFiniteSet(D) /\ \A i \in D : Rank(win, i) \in D
  BY RankFacts
<1>2. \A i, j \in D : Rank(win, i) = Rank(win, j) => i = j
  BY RankDiffers
<1>3. f \in Injection(D, D)
  BY <1>1, <1>2, Zenon DEF Injection, IsInjective
<1>4. f \in Surjection(D, D)
  BY <1>1, <1>3, FS_Injection
<1>5. \E i \in D : Rank(win, i) = k
  BY <1>4 DEF Surjection
<1> QED
  BY <1>5 DEF Ascending

\* The percentile that the three users of the window compute, by its place in
\* ascending order, is the 90th percentile, for windows of every length.
THEOREM PercentileCorrect ==
    ASSUME NEW win \in Seq(Int), win # <<>>
    PROVE  IsP90(P90(win), win)
<1> DEFINE n == Len(win)
           k == P90Place(n)
<1>1. n \in Nat \ {0} /\ DOMAIN win = 1..n
  OBVIOUS
<1>2. k \in 1..n /\ 10 * k >= 9 * n /\ 10 * (k - 1) < 9 * n
  BY <1>1 DEF P90Place
<1> HIDE DEF k
<1>3. PICK i \in DOMAIN win : Rank(win, i) = k /\ P90(win) = win[i]
  BY <1>1, <1>2, PlaceTaken DEF P90, k
<1>4. \A m \in DOMAIN win : win[m] \in Int /\ m \in Int
  BY <1>1
<1>5. IsFiniteSet(Lower(win, i)) /\ Cardinality(Lower(win, i)) = k
      /\ IsFiniteSet(DOMAIN win)
  BY <1>3, RankFacts
<1>6. 10 * Cardinality(UpTo(win, win[i])) >= 9 * Len(win)
  <2>1. UpTo(win, win[i]) \in SUBSET DOMAIN win
        /\ Lower(win, i) \in SUBSET UpTo(win, win[i])
    BY <1>4 DEF UpTo, Lower, NotAfter
  <2>2. IsFiniteSet(UpTo(win, win[i]))
    BY <1>5, <2>1, FS_Subset
  <2>3. k <= Cardinality(UpTo(win, win[i]))
        /\ Cardinality(UpTo(win, win[i])) \in Nat
    BY <1>5, <2>1, <2>2, FS_Subset, FS_CardinalityType
  <2> QED
    BY <1>1, <1>2, <2>3
<1>7. ASSUME NEW m \in DOMAIN win, win[m] < win[i]
      PROVE  10 * Cardinality(UpTo(win, win[m])) < 9 * Len(win)
  <2>1. UpTo(win, win[m]) \in SUBSET (Lower(win, i) \ {i})
        /\ i \in Lower(win, i)
    BY <1>4, <1>7 DEF UpTo, Lower, NotAfter
  <2>2. IsFiniteSet(Lower(win, i) \ {i})
        /\ Cardinality(Lower(win, i) \ {i}) = k - 1
    BY <1>5, <2>1, FS_RemoveElement
  <2>3. Cardinality(UpTo(win, win[m])) <= k - 1
        /\ Cardinality(UpTo(win, win[m])) \in Nat
    BY <2>1, <2>2, FS_Subset, FS_CardinalityType
  <2> QED
    BY <1>1, <1>2, <2>3
<1> QED
  BY <1>3, <1>6, <1>7 DEF IsP90

\* The percentile is one of the samples.
LEMMA P90Sample ==
    ASSUME NEW S, NEW w \in Seq(S), NEW x, IsP90(x, w)
    PROVE  x \in S
<1>1. PICK i \in DOMAIN w : w[i] = x
  BY DEF IsP90
<1> QED
  BY <1>1

\* A sequence of some integers is a sequence of integers.
LEMMA SeqOfInts ==
    ASSUME NEW S, S \subseteq Int, NEW w \in Seq(S)
    PROVE  w \in Seq(Int)
<1>1. Len(w) \in Nat /\ w \in [1..Len(w) -> S]
  OBVIOUS
<1>2. w \in [1..Len(w) -> Int]
  BY <1>1
<1> QED
  BY <1>1, <1>2

\* A sample that is pushed leaves the window within its size.
LEMMA PushFacts ==
    ASSUME NEW S, NEW win \in Seq(S), NEW size \in Nat \ {0}, Len(win) <= size,
           NEW x \in S
    PROVE  /\ Push(win, size, x) \in Seq(S)
           /\ Len(Push(win, size, x)) <= size
           /\ Push(win, size, x) # <<>>
<1>1. CASE Len(win) >= size
  <2>1. win # <<>> /\ Len(win) = size
    BY <1>1
  <2>2. Tail(win) \in Seq(S) /\ Len(Tail(win)) = size - 1
    BY <2>1
  <2>3. Append(Tail(win), x) \in Seq(S) /\ Len(Append(Tail(win), x)) = size
    BY <2>2
  <2>4. Push(win, size, x) = Append(Tail(win), x)
    BY <1>1 DEF Push
  <2> HIDE DEF Push
  <2> QED
    BY <2>3, <2>4
<1>2. CASE Len(win) < size
  <2>1. Append(win, x) \in Seq(S) /\ Len(Append(win, x)) = Len(win) + 1
    OBVIOUS
  <2>2. Push(win, size, x) = Append(win, x)
    BY <1>2 DEF Push
  <2> QED
    BY <1>2, <2>1, <2>2
<1> QED
  BY <1>1, <1>2

-----------------------------------------------------------------------------
(* AdaptiveTimeout: the inductive invariant.                               *)

\* The timeout is a record of its configuration, its window, and what was
\* computed from it.
AtOK ==
    at # NoTimeout =>
        /\ at = [size |-> at.size, lo |-> at.lo, hi |-> at.hi,
                 win |-> at.win, dirty |-> at.dirty, p90 |-> at.p90,
                 snap |-> at.snap]
        /\ at.size \in Nat /\ at.lo \in Nat /\ at.hi \in Nat
        /\ at.win \in Seq(Samples) /\ Len(at.win) <= at.size

CallsOK ==
    /\ call \in [Calls -> {"idle", "out", "done", "died"}]
    /\ OnlyBadConfigKills

CurrentOK == PercentileCurrent /\ StatisticsCurrent

TimeoutInv == AtOK /\ CallsOK /\ CurrentOK

\* A window is a sequence of integers, and its percentile is as defined.
LEMMA WindowP90 ==
    ASSUME TimeoutInv, at # NoTimeout, at.win # <<>>
    PROVE  IsP90(P90(at.win), at.win)
<1>1. at.win \in Seq(Int)
  <2>1. at.win \in Seq(Samples) /\ Samples \subseteq Int
    BY TimeoutAssumption DEF TimeoutInv, AtOK
  <2> QED
    BY <2>1, SeqOfInts
<1> QED
  BY <1>1, PercentileCorrect

-----------------------------------------------------------------------------
(* It holds at the start, and every step keeps it.                         *)

\* Nothing is configured at the start.
LEMMA TimeoutInvInit == TimeoutInit => TimeoutInv
BY DEF TimeoutInit, TimeoutInv, AtOK, CallsOK, CurrentOK, PercentileCurrent,
       StatisticsCurrent, OnlyBadConfigKills

\* Each step leaves a timeout that is whole.
LEMMA AtStep == TimeoutInv /\ [TimeoutNext]_timeoutVars => AtOK'
<1> SUFFICES ASSUME TimeoutInv, [TimeoutNext]_timeoutVars PROVE AtOK'
  OBVIOUS
<1> USE TimeoutAssumption
        DEF TimeoutInv, AtOK
<1>1. CASE SetAdaptive
  BY <1>1 DEF SetAdaptive, Fresh
<1>2. CASE DisableAdaptive
  BY <1>2 DEF DisableAdaptive
<1>3. CASE Snapshot
  BY <1>3 DEF Snapshot
<1>4. ASSUME NEW c \in Calls, TakeTimeout(c) PROVE AtOK'
  <2>1. CASE at.win = <<>>
    BY <1>4, <2>1 DEF TakeTimeout
  <2>2. CASE at.win # <<>>
    <3>1. at' = [at EXCEPT !.p90 = Recomputed, !.dirty = FALSE]
          /\ at # NoTimeout
      BY <1>4, <2>2 DEF TakeTimeout
    <3> HIDE DEF Recomputed
    <3> QED
      BY <3>1
  <2> QED
    BY <2>1, <2>2
<1>5. ASSUME NEW c \in Calls, OwnTimeout(c) PROVE AtOK'
  BY <1>5 DEF OwnTimeout
<1>6. ASSUME NEW c \in Calls, TakePoisoned(c) PROVE AtOK'
  BY <1>6 DEF TakePoisoned
<1>7. ASSUME NEW c \in Calls, RecordPoisoned(c) PROVE AtOK'
  BY <1>7 DEF RecordPoisoned
<1>8. ASSUME NEW c \in Calls, EndUnrecorded(c) PROVE AtOK'
  BY <1>8 DEF EndUnrecorded
<1>9. ASSUME NEW c \in Calls, Again(c) PROVE AtOK'
  BY <1>9 DEF Again
<1>10. ASSUME NEW c \in Calls, NEW rtt \in Samples, Record(c, rtt) PROVE AtOK'
  <2>1. CASE at.size = 0
    BY <1>10, <2>1 DEF Record
  <2>2. CASE at.size # 0
    <3> DEFINE w == Push(at.win, at.size, rtt)
    <3>1. at' = [at EXCEPT !.win = w, !.dirty = TRUE] /\ at # NoTimeout
      BY <1>10, <2>2 DEF Record
    <3>2. w \in Seq(Samples) /\ Len(w) <= at.size
      BY <2>2, <3>1, PushFacts
    <3> HIDE DEF w
    <3> QED
      BY <3>1, <3>2
  <2> QED
    BY <2>1, <2>2
<1>11. CASE UNCHANGED timeoutVars
  BY <1>11 DEF timeoutVars
<1> HIDE DEF TimeoutInv, AtOK
<1> QED
  BY <1>1, <1>2, <1>3, <1>4, <1>5, <1>6, <1>7, <1>8, <1>9, <1>10, <1>11
  DEF TimeoutNext

\* A request is killed by a panic, its own or an earlier one.
LEMMA CallsStep == TimeoutInv /\ [TimeoutNext]_timeoutVars => CallsOK'
<1> SUFFICES ASSUME TimeoutInv, [TimeoutNext]_timeoutVars PROVE CallsOK'
  OBVIOUS
<1> USE TimeoutAssumption
        DEF TimeoutInv, CallsOK, OnlyBadConfigKills, AtOK
<1>1. CASE SetAdaptive
  BY <1>1 DEF SetAdaptive, Fresh
<1>2. CASE DisableAdaptive
  BY <1>2 DEF DisableAdaptive
<1>3. CASE Snapshot
  BY <1>3 DEF Snapshot
<1>4. ASSUME NEW c \in Calls, TakeTimeout(c) PROVE CallsOK'
  BY <1>4 DEF TakeTimeout, Panic
<1>5. ASSUME NEW c \in Calls, OwnTimeout(c) PROVE CallsOK'
  BY <1>5 DEF OwnTimeout
<1>6. ASSUME NEW c \in Calls, TakePoisoned(c) PROVE CallsOK'
  BY <1>6 DEF TakePoisoned
<1>7. ASSUME NEW c \in Calls, RecordPoisoned(c) PROVE CallsOK'
  BY <1>7 DEF RecordPoisoned
<1>8. ASSUME NEW c \in Calls, EndUnrecorded(c) PROVE CallsOK'
  BY <1>8 DEF EndUnrecorded
<1>9. ASSUME NEW c \in Calls, Again(c) PROVE CallsOK'
  BY <1>9 DEF Again
<1>10. ASSUME NEW c \in Calls, NEW rtt \in Samples, Record(c, rtt)
       PROVE  CallsOK'
  BY <1>10 DEF Record, Panic
<1>11. CASE UNCHANGED timeoutVars
  BY <1>11 DEF timeoutVars
<1> HIDE DEF TimeoutInv, CallsOK
<1> QED
  BY <1>1, <1>2, <1>3, <1>4, <1>5, <1>6, <1>7, <1>8, <1>9, <1>10, <1>11
  DEF TimeoutNext

\* What has been computed is of the window as it is, or marked.
LEMMA CurrentStep == TimeoutInv /\ [TimeoutNext]_timeoutVars => CurrentOK'
<1> SUFFICES ASSUME TimeoutInv, [TimeoutNext]_timeoutVars PROVE CurrentOK'
  OBVIOUS
<1> USE DEF TimeoutInv, AtOK, CurrentOK, PercentileCurrent, StatisticsCurrent
<1>1. CASE SetAdaptive
  BY <1>1 DEF SetAdaptive, Fresh
<1>2. CASE DisableAdaptive
  BY <1>2 DEF DisableAdaptive
<1>3. CASE Snapshot
  <2>1. at' = [at EXCEPT !.snap = Stats(at.win), !.p90 = P90(at.win),
                         !.dirty = FALSE]
        /\ at # NoTimeout /\ at.win # <<>>
    BY <1>3 DEF Snapshot
  <2>2. at'.win = at.win /\ at'.p90 = P90(at.win) /\ at'.snap = Stats(at.win)
    BY <2>1
  <2>3. IsP90(P90(at.win), at.win)
    BY <2>1, WindowP90
  <2> QED
    BY <2>2, <2>3
<1>4. ASSUME NEW c \in Calls, TakeTimeout(c) PROVE CurrentOK'
  <2>1. CASE at.win = <<>>
    BY <1>4, <2>1 DEF TakeTimeout
  <2>2. CASE at.win # <<>>
    <3>1. /\ at' = [at EXCEPT !.p90 = Recomputed, !.dirty = FALSE]
          /\ at # NoTimeout /\ consumed' = (consumed \/ at.dirty)
      BY <1>4, <2>2 DEF TakeTimeout
    <3>2. at'.win = at.win /\ at'.p90 = Recomputed /\ at'.snap = at.snap
      BY <3>1
    <3>3. IsP90(Recomputed, at.win)
      BY <2>2, <3>1, WindowP90 DEF Recomputed
    <3>4. ~consumed' => at.snap = Stats(at.win)
      BY <2>2, <3>1
    <3> QED
      BY <3>2, <3>3, <3>4
  <2> QED
    BY <2>1, <2>2
<1>5. ASSUME NEW c \in Calls, OwnTimeout(c) PROVE CurrentOK'
  BY <1>5 DEF OwnTimeout
<1>6. ASSUME NEW c \in Calls, TakePoisoned(c) PROVE CurrentOK'
  BY <1>6 DEF TakePoisoned
<1>7. ASSUME NEW c \in Calls, RecordPoisoned(c) PROVE CurrentOK'
  BY <1>7 DEF RecordPoisoned
<1>8. ASSUME NEW c \in Calls, EndUnrecorded(c) PROVE CurrentOK'
  BY <1>8 DEF EndUnrecorded
<1>9. ASSUME NEW c \in Calls, Again(c) PROVE CurrentOK'
  BY <1>9 DEF Again
<1>10. ASSUME NEW c \in Calls, NEW rtt \in Samples, Record(c, rtt)
       PROVE  CurrentOK'
  <2>1. CASE at.size = 0
    BY <1>10, <2>1 DEF Record
  <2>2. CASE at.size # 0
    <3> DEFINE w == Push(at.win, at.size, rtt)
    <3>1. at' = [at EXCEPT !.win = w, !.dirty = TRUE] /\ at # NoTimeout
      BY <1>10, <2>2 DEF Record
    <3> HIDE DEF w
    <3>2. at'.dirty
      BY <3>1
    <3> QED
      BY <3>2
  <2> QED
    BY <2>1, <2>2
<1>11. CASE UNCHANGED timeoutVars
  BY <1>11 DEF timeoutVars
<1> HIDE DEF TimeoutInv, CurrentOK
<1> QED
  BY <1>1, <1>2, <1>3, <1>4, <1>5, <1>6, <1>7, <1>8, <1>9, <1>10, <1>11
  DEF TimeoutNext

-----------------------------------------------------------------------------
(* The theorems about AdaptiveTimeout.                                     *)

\* The inductive invariant of the adaptive timeout holds in every reachable
\* state.
THEOREM TimeoutInductive == TimeoutSpec => []TimeoutInv
<1>1. TimeoutInv /\ [TimeoutNext]_timeoutVars => TimeoutInv'
  BY AtStep, CallsStep, CurrentStep DEF TimeoutInv
<1> QED
  BY TimeoutInvInit, <1>1, PTL DEF TimeoutSpec

\* For any number of requests, any configurations and any round trips: the
\* timeout that a request is given comes from the percentile of the window as
\* it is, and a request dies of a bad configuration only.
THEOREM TimeoutAlwaysServes == TimeoutSpec => []TimeoutServes
<1>1. TimeoutInv => TimeoutServes
  BY DEF TimeoutInv, AtOK, CallsOK, CurrentOK, TimeoutServes, TimeoutTypeOK
<1> QED
  BY TimeoutInductive, <1>1, PTL

-----------------------------------------------------------------------------
(* Heartbeat: the inductive invariant.                                     *)

\* Of the pings since the last pong all but the last are counted as missed.
PingsOK ==
    /\ missed \in 0..MaxMissed /\ pings \in Nat
    /\ waiting => pings = missed + 1
    /\ ~waiting => pings = 0 /\ missed = 0
    /\ GivenUpEarned /\ SilenceNoticed

\* The last ping is the youngest.
AgesOK ==
    /\ sentAge \in -1..MaxAge /\ pongAge \in -1..MaxAge
    /\ flying \in Seq(0..MaxAge)
    /\ \A i \in 1..Len(flying) : flying[i] >= sentAge
    /\ RoundTripNotLonger

\* The samples, and the percentile of them as they are, or a mark.
SamplesOK ==
    /\ est = [win |-> est.win, dirty |-> est.dirty, p90 |-> est.p90]
    /\ est.win \in Seq(0..MaxAge) /\ Len(est.win) <= MaxSamples
    /\ IntervalCurrent
    /\ due \in 0..(Interval + 2 * MaxAge)

HeartbeatInv == PingsOK /\ AgesOK /\ SamplesOK

-----------------------------------------------------------------------------
(* It holds at the start, and every step keeps it.                         *)

\* No ping has been sent and no sample taken.
LEMMA HeartbeatInvInit == HeartbeatInit => HeartbeatInv
<1> SUFFICES ASSUME HeartbeatInit PROVE HeartbeatInv
  OBVIOUS
<1> USE HeartbeatAssumption DEF HeartbeatInit
<1>1. PingsOK
  BY DEF PingsOK, GivenUpEarned, SilenceNoticed
<1>2. AgesOK
  BY DEF AgesOK, RoundTripNotLonger
<1>3. SamplesOK
  BY DEF SamplesOK, IntervalCurrent
<1> QED
  BY <1>1, <1>2, <1>3 DEF HeartbeatInv

\* What adaptive_interval computes is the percentile of the samples, an age.
LEMMA P90RttFacts ==
    ASSUME HeartbeatInv
    PROVE  /\ P90Rtt.win = est.win
           /\ P90Rtt = [win |-> P90Rtt.win, dirty |-> P90Rtt.dirty,
                        p90 |-> P90Rtt.p90]
           /\ adaptive /\ est.win # <<>> =>
                /\ IsP90(P90Rtt.p90, est.win) /\ P90Rtt.p90 \in 0..MaxAge
           /\ IntervalMs \in 0..(Interval + 2 * MaxAge)
<1>1. /\ est = [win |-> est.win, dirty |-> est.dirty, p90 |-> est.p90]
      /\ est.win \in Seq(0..MaxAge) /\ IntervalCurrent
  BY DEF HeartbeatInv, SamplesOK
<1>2. P90Rtt.win = est.win
      /\ P90Rtt = [win |-> P90Rtt.win, dirty |-> P90Rtt.dirty,
                   p90 |-> P90Rtt.p90]
  BY <1>1 DEF P90Rtt
<1>3. ASSUME adaptive, est.win # <<>>
      PROVE  IsP90(P90Rtt.p90, est.win) /\ P90Rtt.p90 \in 0..MaxAge
  <2>1. CASE est.dirty
    <3>1. P90Rtt.p90 = P90(est.win)
      BY <1>1, <1>3, <2>1 DEF P90Rtt
    <3>2. est.win \in Seq(Int)
      <4>1. 0..MaxAge \subseteq Int
        OBVIOUS
      <4> QED
        BY <1>1, <4>1, SeqOfInts
    <3>3. IsP90(P90(est.win), est.win)
      BY <1>3, <3>2, PercentileCorrect
    <3> QED
      BY <1>1, <3>1, <3>3, P90Sample
  <2>2. CASE ~est.dirty
    <3>1. P90Rtt = est
      BY <2>2 DEF P90Rtt
    <3>2. IsP90(est.p90, est.win)
      BY <1>1, <1>3, <2>2 DEF IntervalCurrent
    <3> QED
      BY <1>1, <3>1, <3>2, P90Sample
  <2> QED
    BY <2>1, <2>2
<1>4. IntervalMs \in 0..(Interval + 2 * MaxAge)
  <2> HIDE DEF P90Rtt
  <2> QED
    BY <1>3, HeartbeatAssumption DEF IntervalMs
<1> QED
  BY <1>2, <1>3, <1>4

\* A ping is counted when it is missed, and a pong forgives all.
LEMMA PingsStep == HeartbeatInv /\ [HeartbeatNext]_heartbeatVars => PingsOK'
<1> SUFFICES ASSUME HeartbeatInv, [HeartbeatNext]_heartbeatVars PROVE PingsOK'
  OBVIOUS
<1> USE HeartbeatAssumption
        DEF HeartbeatInv, PingsOK, AgesOK, GivenUpEarned, SilenceNoticed
<1>1. CASE Elapse
  BY <1>1 DEF Elapse, Older
<1>2. CASE HeartbeatTimeout
  BY <1>2 DEF HeartbeatTimeout, GivesUp, IsTimedOut
<1>3. CASE Ping
  BY <1>3 DEF Ping, GivesUp, IsTimedOut
<1>4. ASSUME NEW i \in DOMAIN flying, Pong(i) PROVE PingsOK'
  BY <1>4 DEF Pong
<1>5. CASE UNCHANGED heartbeatVars
  BY <1>5 DEF heartbeatVars
<1> HIDE DEF HeartbeatInv, PingsOK
<1> QED
  BY <1>1, <1>2, <1>3, <1>4, <1>5
  DEF HeartbeatNext

\* What was sent before grows old before.
LEMMA AgesStep == HeartbeatInv /\ [HeartbeatNext]_heartbeatVars => AgesOK'
<1> SUFFICES ASSUME HeartbeatInv, [HeartbeatNext]_heartbeatVars PROVE AgesOK'
  OBVIOUS
<1> USE HeartbeatAssumption
        DEF HeartbeatInv, AgesOK, RoundTripNotLonger
<1>1. CASE Elapse
  <2>1. /\ sentAge' = Older(sentAge) /\ pongAge' = Older(pongAge)
        /\ flying' = [i \in DOMAIN flying |-> Older(flying[i])]
        /\ last' = last
    BY <1>1 DEF Elapse
  <2>2. /\ \A a \in -1..MaxAge : Older(a) \in -1..MaxAge
        /\ \A a \in 0..MaxAge : Older(a) \in 0..MaxAge
        /\ \A a, b \in -1..MaxAge : a >= b => Older(a) >= Older(b)
    BY DEF Older
  <2>3. Len(flying) \in Nat /\ DOMAIN flying = 1..Len(flying)
        /\ \A i \in 1..Len(flying) : flying[i] \in 0..MaxAge
    OBVIOUS
  <2> HIDE DEF Older
  <2>4. flying' \in Seq(0..MaxAge) /\ Len(flying') = Len(flying)
        /\ \A i \in 1..Len(flying) : flying'[i] = Older(flying[i])
    BY <2>1, <2>2, <2>3
  <2>5. \A i \in 1..Len(flying') : flying'[i] >= sentAge'
    BY <2>1, <2>2, <2>3, <2>4
  <2> QED
    BY <2>1, <2>2, <2>4, <2>5
<1>2. CASE HeartbeatTimeout
  BY <1>2 DEF HeartbeatTimeout, GivesUp, IsTimedOut
<1>3. CASE Ping
  BY <1>3 DEF Ping, GivesUp, IsTimedOut
<1>4. ASSUME NEW i \in DOMAIN flying, Pong(i) PROVE AgesOK'
  <2> DEFINE rtt == IF sentAge = -1 THEN 0 ELSE sentAge
  <2>1. /\ last' = [sample |-> rtt, true |-> flying[i]]
        /\ pongAge' = 0 /\ sentAge' = -1
        /\ flying' = SubSeq(flying, i + 1, Len(flying))
    BY <1>4 DEF Pong
  <2>2. Len(flying) \in Nat /\ i \in 1..Len(flying)
        /\ flying[i] \in 0..MaxAge /\ flying[i] >= sentAge
    OBVIOUS
  <2>3. rtt <= flying[i]
    BY <2>2
  <2>4. flying' \in Seq(0..MaxAge)
    BY <2>1, <2>2
  <2>5. \A j \in 1..Len(flying') : flying'[j] >= sentAge'
    <3>1. \A j \in 1..Len(flying') : flying'[j] \in 0..MaxAge
      BY <2>4
    <3>2. sentAge' = -1
      BY <2>1
    <3> QED
      BY <3>1, <3>2
  <2> HIDE DEF rtt
  <2>6. last'.sample <= last'.true
    BY <2>1, <2>3
  <2> QED
    BY <2>1, <2>4, <2>5, <2>6
<1>5. CASE UNCHANGED heartbeatVars
  BY <1>5 DEF heartbeatVars
<1> HIDE DEF HeartbeatInv, AgesOK
<1> QED
  BY <1>1, <1>2, <1>3, <1>4, <1>5
  DEF HeartbeatNext

\* A new sample marks the percentile as old, a tick computes it again.
LEMMA SamplesStep == HeartbeatInv /\ [HeartbeatNext]_heartbeatVars => SamplesOK'
<1> SUFFICES ASSUME HeartbeatInv, [HeartbeatNext]_heartbeatVars PROVE SamplesOK'
  OBVIOUS
<1> USE HeartbeatAssumption
        DEF HeartbeatInv, SamplesOK, IntervalCurrent
<1>1. CASE Elapse
  BY <1>1 DEF Elapse, Older
<1>2. CASE HeartbeatTimeout
  BY <1>2 DEF HeartbeatTimeout, GivesUp, IsTimedOut
<1>3. CASE Ping
  <2>1. est' = P90Rtt /\ due' = IntervalMs /\ adaptive' = adaptive
    BY <1>3 DEF Ping
  <2> QED
    BY <2>1, P90RttFacts
<1>4. ASSUME NEW i \in DOMAIN flying, Pong(i) PROVE SamplesOK'
  <2> DEFINE rtt == IF sentAge = -1 THEN 0 ELSE sentAge
             w == Push(est.win, MaxSamples, rtt)
  <2>1. est' = [est EXCEPT !.win = w, !.dirty = TRUE] /\ due' = due
    BY <1>4 DEF Pong
  <2>2. rtt \in 0..MaxAge
    BY DEF AgesOK
  <2>3. w \in Seq(0..MaxAge) /\ Len(w) <= MaxSamples
    <3> HIDE DEF rtt
    <3> QED
      BY <2>2, PushFacts
  <2> HIDE DEF w
  <2>4. /\ est' = [win |-> w, dirty |-> TRUE, p90 |-> est.p90]
    BY <2>1
  <2> QED
    BY <2>1, <2>3, <2>4
<1>5. CASE UNCHANGED heartbeatVars
  BY <1>5 DEF heartbeatVars
<1> HIDE DEF HeartbeatInv, SamplesOK
<1> QED
  BY <1>1, <1>2, <1>3, <1>4, <1>5
  DEF HeartbeatNext

-----------------------------------------------------------------------------
(* The theorems about Heartbeat.                                           *)

\* The inductive invariant of the heartbeat holds in every reachable state.
THEOREM HeartbeatInductive == HeartbeatSpec => []HeartbeatInv
<1>1. HeartbeatInv /\ [HeartbeatNext]_heartbeatVars => HeartbeatInv'
  BY PingsStep, AgesStep, SamplesStep DEF HeartbeatInv
<1> QED
  BY HeartbeatInvInit, <1>1, PTL DEF HeartbeatSpec

\* Whatever the peer answers and whenever: it is given up only for too many
\* pongs that are missing or one too old, a silent one always, and no sample is
\* longer than the round trip.
THEOREM SilenceAlwaysJudged == HeartbeatSpec => []SilenceJudged
<1>1. HeartbeatInv => SilenceJudged
  BY DEF HeartbeatInv, PingsOK, AgesOK, SamplesOK, SilenceJudged,
         HeartbeatTypeOK
<1> QED
  BY HeartbeatInductive, <1>1, PTL
==============================================================================

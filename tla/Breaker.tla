------------------------------ MODULE Breaker -------------------------------
(***************************************************************************)
(* The state of CircuitBreaker                                             *)
(* (packages/catcher-http/src/resilience/circuit_breaker.rs) and what each *)
(* of its methods does to it.  Every method but reset works under the      *)
(* mutex of `state' and is one step; reset releases the mutex before it    *)
(* clears the counters and is two.  CircuitBreaker and HttpTransport       *)
(* compose these steps with callers.                                       *)
(***************************************************************************)
EXTENDS Naturals

CONSTANTS
    FailureThreshold,   \* CircuitBreakerConfig::failure_threshold
    SuccessThreshold,   \* CircuitBreakerConfig::success_threshold
    ResetTimeout,       \* reset_timeout_ms, in ticks
    MaxProbes,          \* half_open_max_requests
    ProbeCap            \* bound: half_open_requests is counted up to here

ASSUME BreakerAssumption ==
    /\ FailureThreshold \in Nat \ {0}
    /\ SuccessThreshold \in Nat \ {0}
    /\ ResetTimeout \in Nat
    /\ MaxProbes \in Nat
    /\ ProbeCap \in Nat /\ ProbeCap > MaxProbes

VARIABLES
    state,       \* *state.lock()
    failures,    \* failure_count
    successes,   \* success_count
    probes,      \* half_open_requests
    age          \* now_millis() - opened_at_ms, up to ResetTimeout

breaker == <<state, failures, successes, probes, age>>

CbStates == {"Closed", "Open", "HalfOpen"}

BreakerInit ==
    /\ state = "Closed"
    /\ failures = 0 /\ successes = 0 /\ probes = 0
    /\ age = ResetTimeout

-----------------------------------------------------------------------------
(* before_request.  A rejection by the open breaker changes nothing.       *)

AdmitClosed ==
    /\ state = "Closed"
    /\ UNCHANGED breaker

\* Mutant: the probe count of the last episode is kept.
EnterHalfOpenKeepsCount ==
    /\ state = "Open" /\ age >= ResetTimeout
    /\ state' = "HalfOpen"
    /\ successes' = 0
    /\ UNCHANGED <<failures, probes, age>>

\* The first request after the timeout opens the half-open episode.  It is
\* admitted and not counted.
EnterHalfOpen ==
    /\ state = "Open" /\ age >= ResetTimeout
    /\ state' = "HalfOpen"
    /\ probes' = 0 /\ successes' = 0
    /\ UNCHANGED <<failures, age>>

\* Mutant: the limit is tested after counting.
AdmitProbeLate ==
    /\ state = "HalfOpen" /\ probes <= MaxProbes
    /\ probes' = probes + 1
    /\ UNCHANGED <<state, failures, successes, age>>

AdmitProbe ==
    /\ state = "HalfOpen" /\ probes < MaxProbes
    /\ probes' = probes + 1
    /\ UNCHANGED <<state, failures, successes, age>>

\* Rejected requests are counted too, and no slot is ever given back.  Counts
\* from MaxProbes on are alike: they stop at ProbeCap, far below the 2^32
\* rejections that it takes to wrap the u32.
RejectProbe ==
    /\ state = "HalfOpen" /\ probes >= MaxProbes
    /\ probes' = IF probes < ProbeCap THEN probes + 1 ELSE probes
    /\ UNCHANGED <<state, failures, successes, age>>

RejectOpen ==
    /\ state = "Open" /\ age < ResetTimeout
    /\ UNCHANGED breaker

-----------------------------------------------------------------------------
(* on_success and on_failure.  They do not know when the request began.    *)

\* Mutant: a success does not end the run of failures.
OnSuccessForgets ==
    IF state = "HalfOpen" /\ successes + 1 >= SuccessThreshold
    THEN /\ state' = "Closed"
         /\ failures' = 0 /\ successes' = 0
         /\ UNCHANGED <<probes, age>>
    ELSE /\ successes' = successes + (IF state = "HalfOpen" THEN 1 ELSE 0)
         /\ UNCHANGED <<state, failures, probes, age>>

\* Mutant: fetch_add is taken to return the new value.
OnSuccessEarly ==
    IF state = "HalfOpen" /\ successes + 2 >= SuccessThreshold
    THEN /\ state' = "Closed"
         /\ failures' = 0 /\ successes' = 0
         /\ UNCHANGED <<probes, age>>
    ELSE /\ failures' = IF state = "Closed" THEN 0 ELSE failures
         /\ successes' = successes + (IF state = "HalfOpen" THEN 1 ELSE 0)
         /\ UNCHANGED <<state, probes, age>>

OnSuccess ==
    \/ /\ state = "Closed"
       /\ failures' = 0
       /\ UNCHANGED <<state, successes, probes, age>>
    \/ /\ state = "HalfOpen"
       /\ IF successes + 1 >= SuccessThreshold
          THEN state' = "Closed" /\ failures' = 0 /\ successes' = 0
          ELSE successes' = successes + 1 /\ UNCHANGED <<state, failures>>
       /\ UNCHANGED <<probes, age>>
    \/ state = "Open" /\ UNCHANGED breaker

\* Mutant: a failed probe reopens the breaker with the old opened_at_ms.
OnFailureKeepsTime ==
    \/ /\ state = "Closed"
       /\ failures' = failures + 1
       /\ IF failures + 1 >= FailureThreshold
          THEN state' = "Open" /\ age' = 0
          ELSE UNCHANGED <<state, age>>
       /\ UNCHANGED <<successes, probes>>
    \/ /\ state = "HalfOpen"
       /\ state' = "Open" /\ successes' = 0
       /\ UNCHANGED <<failures, probes, age>>
    \/ state = "Open" /\ UNCHANGED breaker

\* failure_count is not cleared when the breaker opens.
OnFailure ==
    \/ /\ state = "Closed"
       /\ failures' = failures + 1
       /\ IF failures + 1 >= FailureThreshold
          THEN state' = "Open" /\ age' = 0
          ELSE UNCHANGED <<state, age>>
       /\ UNCHANGED <<successes, probes>>
    \/ /\ state = "HalfOpen"
       /\ state' = "Open" /\ age' = 0 /\ successes' = 0
       /\ UNCHANGED <<failures, probes>>
    \/ state = "Open" /\ UNCHANGED breaker

-----------------------------------------------------------------------------
(* reset: the mutex guards the first assignment only.                      *)

ResetState ==
    /\ state' = "Closed"
    /\ UNCHANGED <<failures, successes, probes, age>>

ResetCounters ==
    /\ failures' = 0 /\ successes' = 0 /\ probes' = 0
    /\ UNCHANGED <<state, age>>

-----------------------------------------------------------------------------
(* now_millis reads the system clock.                                      *)

Tick ==
    /\ age < ResetTimeout
    /\ age' = age + 1
    /\ UNCHANGED <<state, failures, successes, probes>>

\* The system clock is set back by d ticks.  When that leads to before
\* opened_at_ms, now_ms - opened_at wraps around in the u64 (the release
\* profile does not check for overflow) and is larger than any timeout.
ClockBack(d) ==
    /\ age' = IF d <= age THEN age - d ELSE ResetTimeout
    /\ UNCHANGED <<state, failures, successes, probes>>
=============================================================================

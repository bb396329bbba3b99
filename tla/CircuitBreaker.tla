--------------------------- MODULE CircuitBreaker ---------------------------
(***************************************************************************)
(* The circuit breaker with the requests that consult it: each asks before *)
(* it starts and reports its result, unless it is cancelled on the way.    *)
(***************************************************************************)
EXTENDS Breaker, FiniteSets

CONSTANT Requests   \* callers; each may make one request after another

ASSUME CallersAssumption == IsFiniteSet(Requests)

VARIABLES
    running,     \* the requests admitted that have not reported yet
    resetting,   \* reset() is between its two steps
    \* History, read by no action:
    admitted,    \* how many requests this half-open episode admitted
    disturbed,   \* a reset finished during this half-open episode
    streak,      \* failures reported since the last success or closing
    wins,        \* successes reported in this half-open episode
    cooled,      \* time since the breaker opened, up to ResetTimeout
    lost,        \* a request was cancelled during this half-open episode
    hasty,       \* the breaker left Closed between the two steps of a reset
    wrapped      \* the clock was set back to before the breaker opened

callers == <<running, resetting>>
events == <<lost, hasty, wrapped>>
history == <<admitted, disturbed, streak, wins, cooled, events>>
vars == <<breaker, callers, history>>

Init ==
    /\ BreakerInit
    /\ running = {} /\ resetting = FALSE
    /\ admitted = 0 /\ disturbed = FALSE
    /\ streak = 0 /\ wins = 0 /\ cooled = ResetTimeout
    /\ lost = FALSE /\ hasty = FALSE /\ wrapped = FALSE

-----------------------------------------------------------------------------
(* before_request.                                                         *)

StartClosed(r) ==
    /\ r \notin running
    /\ AdmitClosed
    /\ running' = running \cup {r}
    /\ UNCHANGED <<resetting, history>>

StartHalfOpen(r) ==
    /\ r \notin running
    /\ EnterHalfOpen
    /\ running' = running \cup {r}
    /\ admitted' = 1 /\ disturbed' = FALSE /\ wins' = 0 /\ lost' = FALSE
    /\ UNCHANGED <<resetting, streak, cooled, hasty, wrapped>>

StartProbe(r) ==
    /\ r \notin running
    /\ AdmitProbe
    /\ running' = running \cup {r}
    /\ admitted' = admitted + 1
    /\ UNCHANGED <<resetting, disturbed, streak, wins, cooled, events>>

Rejected ==
    /\ RejectProbe
    /\ UNCHANGED <<callers, history>>

-----------------------------------------------------------------------------
(* The end of a request: on_success, on_failure, or neither.               *)

Succeed(r) ==
    /\ r \in running
    /\ OnSuccess
    /\ running' = running \ {r}
    /\ streak' = IF state = "Closed" \/ state' = "Closed" THEN 0 ELSE streak
    /\ wins' = IF state = "HalfOpen" THEN wins + 1 ELSE wins
    /\ UNCHANGED <<resetting, admitted, disturbed, cooled, events>>

Fail(r) ==
    /\ r \in running
    /\ OnFailure
    /\ running' = running \ {r}
    /\ streak' = IF state = "Closed" THEN streak + 1 ELSE streak
    /\ IF state' = "Open" /\ state # "Open"
       THEN cooled' = 0 /\ wrapped' = FALSE
       ELSE UNCHANGED <<cooled, wrapped>>
    /\ hasty' = IF state' = "Open" /\ state = "Closed" THEN resetting ELSE hasty
    /\ UNCHANGED <<resetting, admitted, disturbed, wins, lost>>

\* A cancelled request returns early from execute_with_token.
Abandon(r) ==
    /\ r \in running
    /\ running' = running \ {r}
    /\ lost' = IF state = "HalfOpen" THEN TRUE ELSE lost
    /\ UNCHANGED <<breaker, resetting, admitted, disturbed, streak, wins,
                   cooled, hasty, wrapped>>

-----------------------------------------------------------------------------
(* reset, by one thread at a time.                                         *)

ResetBegin ==
    /\ ~resetting
    /\ ResetState
    /\ resetting' = TRUE
    /\ streak' = 0
    /\ UNCHANGED <<running, admitted, disturbed, wins, cooled, events>>

ResetEnd ==
    /\ resetting
    /\ ResetCounters
    /\ resetting' = FALSE
    /\ disturbed' = TRUE
    /\ UNCHANGED <<running, admitted, streak, wins, cooled, events>>

-----------------------------------------------------------------------------
Clock ==
    /\ \/ Tick
       \/ age >= ResetTimeout /\ cooled < ResetTimeout /\ UNCHANGED breaker
    /\ cooled' = IF cooled < ResetTimeout THEN cooled + 1 ELSE cooled
    /\ UNCHANGED <<callers, admitted, disturbed, streak, wins, events>>

StepBack ==
    /\ \E d \in 1..ResetTimeout :
          /\ ClockBack(d)
          /\ wrapped' = IF d > age THEN TRUE ELSE wrapped
    /\ UNCHANGED <<callers, admitted, disturbed, streak, wins, cooled, lost,
                   hasty>>

Start ==
    \E r \in Requests : StartClosed(r) \/ StartHalfOpen(r) \/ StartProbe(r)
Report(r) == Succeed(r) \/ Fail(r)

Next ==
    \/ Start \/ Rejected
    \/ \E r \in Requests : Report(r) \/ Abandon(r)
    \/ ResetBegin \/ ResetEnd
    \/ Clock \/ StepBack

Spec == Init /\ [][Next]_vars

\* Time passes, requests keep coming, and each that is admitted ends within
\* its response timeout: by a report, or by a cancellation.
FairSpec ==
    /\ Spec
    /\ WF_vars(Clock) /\ WF_vars(ResetEnd) /\ WF_vars(Start)
    /\ \A r \in Requests : WF_vars(Report(r) \/ Abandon(r))

-----------------------------------------------------------------------------
(* Properties.                                                             *)

FlagsOK ==
    /\ resetting \in BOOLEAN /\ disturbed \in BOOLEAN
    /\ lost \in BOOLEAN /\ hasty \in BOOLEAN /\ wrapped \in BOOLEAN

\* Every variable holds values of its type.
TypeOK ==
    /\ state \in CbStates
    /\ failures \in 0..FailureThreshold + 1
    /\ successes \in 0..SuccessThreshold - 1
    /\ probes \in 0..ProbeCap
    /\ age \in 0..ResetTimeout
    /\ running \subseteq Requests
    /\ admitted \in Nat /\ streak \in Nat /\ wins \in Nat
    /\ cooled \in 0..ResetTimeout
    /\ FlagsOK

\* The code's own limit on a half-open episode: the request that begins it and
\* half_open_max_requests more, however many have come and gone meanwhile.  A
\* reset that finishes late, in a later episode, clears the count.
HalfOpenBound ==
    (state = "HalfOpen" /\ ~disturbed) => admitted <= MaxProbes + 1

\* As long as nothing interferes, a half-open episode can still decide: a
\* request is under way, or a slot is free for one.  This takes as many slots
\* as success_threshold asks for; with fewer, all requests succeed and the
\* breaker stays half-open.
CanDecide ==
    (state = "HalfOpen" /\ ~lost /\ ~disturbed
       /\ SuccessThreshold <= MaxProbes + 1)
    => running # {} \/ probes < MaxProbes

\* The slots of a half-open episode are neither too many nor too few.
SlotsSuffice == HalfOpenBound /\ CanDecide

\* The breaker leaves the closed state only after failure_threshold failures
\* with no success between them, or on a failure that is reported between the
\* two steps of a reset and meets the count from before it.
OpenEarned ==
    state # "Closed" => streak >= FailureThreshold \/ hasty

\* The half-open breaker closes, other than by a reset, only after
\* success_threshold successes of this episode.
CloseEarned ==
    [][(state = "HalfOpen" /\ state' = "Closed" /\ resetting' = resetting)
         => wins' >= SuccessThreshold]_vars

\* The breaker stays open for reset_timeout each time that it opens, and also
\* when it opens again after a failed probe; less only if the system clock has
\* been set back to before the opening.
CoolDown ==
    [][(state = "Open" /\ state' = "HalfOpen")
         => cooled >= ResetTimeout \/ wrapped]_vars

\* A half-open breaker decides, it closes or opens again, unless one of its
\* requests is cancelled or a reset clears the counts under it.
HalfOpenEnds ==
    state = "HalfOpen" ~> (state # "HalfOpen" \/ lost \/ disturbed)

\* What the documentation of the breaker leads one to expect: unless a reset
\* interferes it decides, whatever becomes of the requests.
HalfOpenAlwaysEnds ==
    state = "HalfOpen" ~> (state # "HalfOpen" \/ disturbed)

-----------------------------------------------------------------------------
(* The inductive invariant behind the safety properties.                   *)

\* failure_count: below the threshold while the breaker is closed, unless a
\* reset has closed it and not yet cleared the count.
FailuresOK ==
    /\ ~resetting => failures <= FailureThreshold
    /\ state = "Closed" => failures <= FailureThreshold
    /\ (state = "Closed" /\ ~resetting) => failures < FailureThreshold

\* A half-open episode: the requests admitted were counted, all but one, and
\* success_count holds no success of an earlier episode.
EpisodeOK ==
    state = "HalfOpen" =>
        /\ successes <= wins
        /\ ~disturbed => admitted <= probes + 1 /\ admitted <= MaxProbes + 1

\* Each request that the episode admitted took a slot, but for the first, and
\* is under way or was counted as a success.
SlotsOK ==
    (state = "HalfOpen" /\ ~disturbed) =>
        /\ admitted = (IF probes < MaxProbes THEN probes ELSE MaxProbes) + 1
        /\ ~lost => admitted <= successes + Cardinality(running)

\* Unless a reset is under way, failure_count is at most the run of failures
\* that ends now.
StreakOK ==
    /\ (state = "Closed" /\ ~resetting) => failures <= streak
    /\ OpenEarned

\* Unless it has wrapped, the age is at most the time since the opening.
AgeOK == ~wrapped => age <= cooled

\* The inductive invariant.
IInv == TypeOK /\ FailuresOK /\ EpisodeOK /\ SlotsOK /\ StreakOK /\ AgeOK
=============================================================================

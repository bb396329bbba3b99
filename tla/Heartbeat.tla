----------------------------- MODULE Heartbeat ------------------------------
(***************************************************************************)
(* The heartbeat of one WebSocket connection in time: HeartbeatManager     *)
(* (ws/heartbeat.rs) with the tick and the pong of the connection's loop   *)
(* (transport/ws_client.rs).  Time is counted in steps of Elapse.          *)
(***************************************************************************)
EXTENDS RttWindow

CONSTANTS
    Interval,     \* interval_ms
    PongTimeout,  \* pong_timeout_ms
    MaxMissed,    \* max_missed_pongs
    MaxSamples,   \* max_samples, 20 in the code
    MaxAge,       \* bound: older than this is not told apart
    MaxFlying     \* bound: pings that the peer has still to answer

ASSUME HeartbeatAssumption ==
    /\ Interval \in Nat /\ PongTimeout \in Nat /\ MaxMissed \in Nat
    /\ MaxSamples \in Nat \ {0}
    /\ MaxAge \in Nat /\ MaxAge > PongTimeout /\ MaxFlying \in Nat

VARIABLES
    adaptive,     \* config.adaptive, never changed
    alive,        \* the connection has not been given up by the heartbeat
    due,          \* time to the next tick
    waiting,      \* waiting_for_pong
    missed,       \* missed_pongs
    sentAge,      \* time since ping_sent_at, or -1
    pongAge,      \* time since last_pong, or -1
    est,          \* rtt_samples with the cached percentile
    flying,       \* the ages of the pings that are not answered, oldest first
    pings,        \* history: pings sent since the last pong
    last          \* history: the last sample and the true round trip

heartbeatVars == <<adaptive, alive, due, waiting, missed, sentAge, pongAge,
                   est, flying, pings, last>>

HeartbeatInit ==
    /\ adaptive \in BOOLEAN
    /\ alive = TRUE /\ due = Interval
    /\ waiting = FALSE /\ missed = 0 /\ sentAge = -1 /\ pongAge = -1
    /\ est = [win |-> <<>>, dirty |-> FALSE, p90 |-> 0]
    /\ flying = <<>> /\ pings = 0 /\ last = [sample |-> 0, true |-> 0]

-----------------------------------------------------------------------------
(* HeartbeatManager.                                                       *)

\* p90_rtt, which adaptive_interval calls.
P90Rtt ==
    IF adaptive /\ est.win # <<>> /\ est.dirty
    THEN [est EXCEPT !.p90 = P90(est.win), !.dirty = FALSE]
    ELSE est

\* interval_ms
IntervalMs ==
    IF adaptive /\ est.win # <<>> /\ 2 * P90Rtt.p90 > Interval
    THEN 2 * P90Rtt.p90
    ELSE Interval

\* is_timed_out
IsTimedOut == pongAge > PongTimeout

Older(age) == IF age < 0 \/ age = MaxAge THEN age ELSE age + 1

Elapse ==
    /\ alive /\ due > 0
    /\ due' = due - 1
    /\ sentAge' = Older(sentAge) /\ pongAge' = Older(pongAge)
    /\ flying' = [i \in DOMAIN flying |-> Older(flying[i])]
    /\ UNCHANGED <<adaptive, alive, waiting, missed, est, pings, last>>

-----------------------------------------------------------------------------
(* The tick.                                                               *)

\* The last ping has no answer, and the last pong is too old or too many are
\* missing.
GivesUp == waiting /\ (IsTimedOut \/ missed + 1 >= MaxMissed)

HeartbeatTimeout ==
    /\ alive /\ due = 0 /\ GivesUp
    /\ alive' = FALSE
    /\ UNCHANGED <<adaptive, due, waiting, missed, sentAge, pongAge, est,
                   flying, pings, last>>

\* Mutant: a missing pong is not counted.
PingUncounted ==
    /\ alive /\ due = 0 /\ ~GivesUp /\ Len(flying) < MaxFlying
    /\ waiting' = TRUE /\ sentAge' = 0
    /\ flying' = Append(flying, 0) /\ pings' = pings + 1
    /\ est' = P90Rtt /\ due' = IntervalMs
    /\ UNCHANGED <<adaptive, alive, missed, pongAge, last>>

\* Else one more is missing, and another ping is sent.
Ping ==
    /\ alive /\ due = 0 /\ ~GivesUp /\ Len(flying) < MaxFlying
    /\ missed' = IF waiting THEN missed + 1 ELSE missed
    /\ waiting' = TRUE /\ sentAge' = 0
    /\ flying' = Append(flying, 0) /\ pings' = pings + 1
    /\ est' = P90Rtt /\ due' = IntervalMs
    /\ UNCHANGED <<adaptive, alive, pongAge, last>>

-----------------------------------------------------------------------------
(* The pong.                                                               *)

\* The peer answers a ping, and none before it (RFC 6455, 5.5.3).  The round
\* trip is taken from the last ping sent, whichever this pong answers, and is 0
\* if that has been used: on_pong.
Pong(i) ==
    /\ alive /\ i \in DOMAIN flying
    /\ LET rtt == IF sentAge = -1 THEN 0 ELSE sentAge
       IN  /\ est' = [est EXCEPT !.win = Push(@, MaxSamples, rtt), !.dirty = TRUE]
           /\ last' = [sample |-> rtt, true |-> flying[i]]
    /\ pongAge' = 0 /\ missed' = 0 /\ waiting' = FALSE /\ sentAge' = -1
    /\ flying' = SubSeq(flying, i + 1, Len(flying)) /\ pings' = 0
    /\ UNCHANGED <<adaptive, alive, due>>

HeartbeatNext ==
    \/ Elapse \/ HeartbeatTimeout \/ Ping
    \/ \E i \in DOMAIN flying : Pong(i)

HeartbeatSpec == HeartbeatInit /\ [][HeartbeatNext]_heartbeatVars

-----------------------------------------------------------------------------
(* Properties.                                                             *)

\* The window holds ages, no more than there is room for, and the next tick and
\* the count stay within their bounds.
HeartbeatTypeOK ==
    /\ est.win \in Seq(0..MaxAge) /\ Len(est.win) <= MaxSamples
    /\ due \in 0..(Interval + 2 * MaxAge) /\ missed \in 0..MaxMissed

\* A connection is given up only if a ping was sent after the last pong, and
\* then only if max_missed_pongs of them were, or the last pong is older than
\* pong_timeout_ms.
GivenUpEarned ==
    ~alive => /\ pings >= 1
              /\ pings >= MaxMissed \/ pongAge > PongTimeout

\* A peer that is silent is noticed: while the connection is kept, no more than
\* max_missed_pongs pings have gone without any pong.
SilenceNoticed == alive => pings <= IF MaxMissed = 0 THEN 1 ELSE MaxMissed

\* A sample is never longer than the round trip of the ping that was answered,
\* although it may be shorter.
RoundTripNotLonger == last.sample <= last.true

\* The interval is computed from the percentile of the samples as they are.
IntervalCurrent ==
    (adaptive /\ est.win # <<>> /\ ~est.dirty) => IsP90(est.p90, est.win)

\* The heartbeat gives up a silent peer, no other, and measures what it hears.
SilenceJudged ==
    /\ HeartbeatTypeOK
    /\ GivenUpEarned /\ SilenceNoticed /\ RoundTripNotLonger /\ IntervalCurrent
=============================================================================

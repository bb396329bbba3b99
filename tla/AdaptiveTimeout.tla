-------------------------- MODULE AdaptiveTimeout ---------------------------
(***************************************************************************)
(* The adaptive timeout of an HTTP client (resilience/timeout.rs) behind   *)
(* the mutex of transport/http_client.rs: requests take their timeout from *)
(* it and record how long they took, while the host configures it anew and *)
(* reads its statistics.                                                   *)
(***************************************************************************)
EXTENDS RttWindow

CONSTANTS
    Calls,        \* the client's requests
    Configs,      \* [size, lo, hi] that a host may set
    Multiplier,   \* applied to the percentile
    Samples,      \* round trip times
    NoTimeout     \* no adaptive timeout is configured

ASSUME TimeoutAssumption ==
    /\ \A c \in Configs : c.size \in Nat /\ c.lo \in Nat /\ c.hi \in Nat
    /\ Samples \subseteq Nat

VARIABLES
    at,         \* the AdaptiveTimeout, or NoTimeout
    poisoned,   \* a thread panicked with the mutex held
    call,       \* "idle", "out", "done" or "died" of each request
    given,      \* the timeout that a request has taken, 0 if none
    broken,     \* history: the configuration in force at the first panic
    consumed    \* history: timeout_ms has recomputed since the last sample

timeoutVars == <<at, poisoned, call, given, broken, consumed>>

\* AdaptiveTimeout::new
Fresh(c) == [size |-> c.size, lo |-> c.lo, hi |-> c.hi, win |-> <<>>,
             dirty |-> FALSE, p90 |-> 0, snap |-> NoStats]

TimeoutInit ==
    /\ at = NoTimeout /\ poisoned = FALSE
    /\ call = [c \in Calls |-> "idle"] /\ given = [c \in Calls |-> 0]
    /\ broken = NoTimeout /\ consumed = FALSE

-----------------------------------------------------------------------------
(* The host.  A call on a poisoned mutex panics and changes nothing.       *)

SetAdaptive ==
    /\ ~poisoned
    /\ \E c \in Configs : at' = Fresh(c)
    /\ consumed' = FALSE
    /\ UNCHANGED <<poisoned, call, given, broken>>

DisableAdaptive ==
    /\ ~poisoned
    /\ at' = NoTimeout
    /\ UNCHANGED <<poisoned, call, given, broken, consumed>>

\* snapshot(): the statistics and the percentile, computed if the window is
\* marked dirty.
Snapshot ==
    /\ ~poisoned /\ at # NoTimeout
    /\ at.win # <<>> /\ at.dirty
    /\ at' = [at EXCEPT !.snap = Stats(at.win), !.p90 = P90(at.win),
                        !.dirty = FALSE]
    /\ consumed' = FALSE
    /\ UNCHANGED <<poisoned, call, given, broken>>

-----------------------------------------------------------------------------
(* A request.                                                              *)

\* The thread panics with the mutex held: the request gets no answer.
Panic(c) ==
    /\ poisoned' = TRUE /\ broken' = at
    /\ call' = [call EXCEPT ![c] = "died"]

Clamp(n) == IF n < at.lo THEN at.lo ELSE IF n > at.hi THEN at.hi ELSE n

\* The percentile, computed again if the window has changed.
Recomputed == IF at.dirty THEN P90(at.win) ELSE at.p90

\* A request without a timeout of its own takes one: timeout_ms().
TakeTimeout(c) ==
    /\ call[c] = "idle" /\ ~poisoned /\ at # NoTimeout
    /\ IF at.win = <<>>
       THEN /\ given' = [given EXCEPT ![c] = at.lo]
            /\ call' = [call EXCEPT ![c] = "out"]
            /\ UNCHANGED <<at, poisoned, broken, consumed>>
       ELSE /\ at' = [at EXCEPT !.p90 = Recomputed, !.dirty = FALSE]
            /\ consumed' = (consumed \/ at.dirty)
            /\ IF at.lo > at.hi
               THEN Panic(c) /\ UNCHANGED given   \* clamp asserts lo <= hi
               ELSE /\ given' = [given EXCEPT ![c] = Clamp(Recomputed * Multiplier)]
                    /\ call' = [call EXCEPT ![c] = "out"]
                    /\ UNCHANGED <<poisoned, broken>>

\* It has a timeout of its own, or there is no adaptive one.
OwnTimeout(c) ==
    /\ call[c] = "idle"
    /\ given' = [given EXCEPT ![c] = 0]
    /\ call' = [call EXCEPT ![c] = "out"]
    /\ UNCHANGED <<at, poisoned, broken, consumed>>

\* It takes no timeout of its own and finds the mutex poisoned.
TakePoisoned(c) ==
    /\ call[c] = "idle" /\ poisoned
    /\ call' = [call EXCEPT ![c] = "died"]
    /\ UNCHANGED <<at, poisoned, given, broken, consumed>>

\* Mutant: the window is not marked dirty.
RecordClean(c, rtt) ==
    /\ call[c] = "out" /\ ~poisoned /\ at # NoTimeout
    /\ at.size > 0
    /\ at' = [at EXCEPT !.win = Push(@, at.size, rtt)]
    /\ consumed' = FALSE
    /\ call' = [call EXCEPT ![c] = "done"]
    /\ UNCHANGED <<poisoned, given, broken>>

\* A response: record() its round trip.  A window of size 0 has no oldest
\* sample to remove.
Record(c, rtt) ==
    /\ call[c] = "out" /\ ~poisoned /\ at # NoTimeout
    /\ IF at.size = 0
       THEN Panic(c) /\ UNCHANGED <<at, consumed>>
       ELSE /\ at' = [at EXCEPT !.win = Push(@, at.size, rtt), !.dirty = TRUE]
            /\ consumed' = FALSE
            /\ call' = [call EXCEPT ![c] = "done"]
            /\ UNCHANGED <<poisoned, broken>>
    /\ UNCHANGED given

\* A response on a poisoned mutex.
RecordPoisoned(c) ==
    /\ call[c] = "out" /\ poisoned
    /\ call' = [call EXCEPT ![c] = "died"]
    /\ UNCHANGED <<at, poisoned, given, broken, consumed>>

\* A response with no adaptive timeout to record in, or an error.
EndUnrecorded(c) ==
    /\ call[c] = "out"
    /\ call' = [call EXCEPT ![c] = "done"]
    /\ UNCHANGED <<at, poisoned, given, broken, consumed>>

Again(c) ==
    /\ call[c] \in {"done", "died"}
    /\ call' = [call EXCEPT ![c] = "idle"] /\ given' = [given EXCEPT ![c] = 0]
    /\ UNCHANGED <<at, poisoned, broken, consumed>>

TimeoutNext ==
    \/ SetAdaptive \/ DisableAdaptive \/ Snapshot
    \/ \E c \in Calls :
          \/ TakeTimeout(c) \/ OwnTimeout(c) \/ TakePoisoned(c)
          \/ RecordPoisoned(c) \/ EndUnrecorded(c) \/ Again(c)
          \/ \E rtt \in Samples : Record(c, rtt)

TimeoutSpec == TimeoutInit /\ [][TimeoutNext]_timeoutVars

-----------------------------------------------------------------------------
(* Properties.                                                             *)

\* The window holds samples, no more than there is room for.
TimeoutTypeOK ==
    /\ at # NoTimeout => at.win \in Seq(Samples) /\ Len(at.win) <= at.size
    /\ call \in [Calls -> {"idle", "out", "done", "died"}]

\* The cached percentile that timeout_ms uses is that of the window as it is
\* now, whichever of timeout_ms and snapshot has computed it.
PercentileCurrent ==
    (at # NoTimeout /\ at.win # <<>> /\ ~at.dirty) => IsP90(at.p90, at.win)

\* What snapshot() would give is current, unless timeout_ms has taken the mark
\* that the window changed: then it is of an older window until the next sample.
StatisticsCurrent ==
    (at # NoTimeout /\ at.win # <<>> /\ ~at.dirty /\ ~consumed)
        => at.snap = Stats(at.win)

\* Only a configuration without room for a sample, or with its bounds the wrong
\* way round, kills a request, and with it all that need the mutex.
OnlyBadConfigKills ==
    /\ poisoned => broken.size = 0 \/ broken.lo > broken.hi
    /\ (\E c \in Calls : call[c] = "died") => poisoned

\* The adaptive timeout serves its requests from the samples of now, and stops
\* serving them for a bad configuration only.
TimeoutServes ==
    TimeoutTypeOK /\ PercentileCurrent /\ StatisticsCurrent /\ OnlyBadConfigKills
=============================================================================

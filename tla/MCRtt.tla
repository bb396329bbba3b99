------------------------------- MODULE MCRtt --------------------------------
(***************************************************************************)
(* The users of RttWindow for TLC.  They share no state, so a behaviour    *)
(* takes the steps of one of them: the product of all would show no more.  *)
(***************************************************************************)
EXTENDS AdaptiveTimeout, Quality, Heartbeat

\* The percentile is the one of the reference definition, up to windows in
\* which it is not the greatest sample.  Two values do: what is at most a bound
\* and what is not.
ASSUME PercentileRight ==
    \A n \in 1..11 : \A win \in [1..n -> {1, 2}] : IsP90(P90(win), win)

VARIABLE part   \* whose steps this behaviour takes

vars == <<part, timeoutVars, qualityVars, heartbeatVars>>

MCConfigs == {[size |-> 2, lo |-> 1, hi |-> 4], [size |-> 3, lo |-> 3, hi |-> 3],
              [size |-> 0, lo |-> 1, hi |-> 4], [size |-> 2, lo |-> 4, hi |-> 1]}

Init ==
    /\ part \in {"timeout", "evaluator", "subscription", "heartbeat"}
    /\ TimeoutInit /\ QualityInit /\ HeartbeatInit

Next ==
    /\ UNCHANGED part
    /\ \/ /\ part = "timeout" /\ TimeoutNext
          /\ UNCHANGED <<qualityVars, heartbeatVars>>
       \/ /\ part = "evaluator" /\ EvaluatorNext
          /\ UNCHANGED <<timeoutVars, heartbeatVars>>
       \/ /\ part = "subscription" /\ SubscriptionNext
          /\ UNCHANGED <<timeoutVars, heartbeatVars>>
       \/ /\ part = "heartbeat" /\ HeartbeatNext
          /\ UNCHANGED <<timeoutVars, qualityVars>>

Spec == Init /\ [][Next]_vars
=============================================================================

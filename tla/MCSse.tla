------------------------------- MODULE MCSse --------------------------------
(***************************************************************************)
(* SseClient and SseBinding for TLC.  They share no state, so a behaviour  *)
(* takes the steps of one of them: the product of both would show no more. *)
(***************************************************************************)
EXTENDS SseClient, SseBinding

VARIABLE part   \* whose steps this behaviour takes

sseVars == <<part, vars, bindingVars>>

SseInit == part \in {"client", "binding"} /\ Init /\ BindingInit

\* A binding whose calls have all returned rests.
Rest == part = "binding" /\ UNCHANGED <<vars, bindingVars>>

SseNext ==
    /\ UNCHANGED part
    /\ \/ part = "client" /\ Next /\ UNCHANGED bindingVars
       \/ part = "binding" /\ BindingNext /\ UNCHANGED vars
       \/ Rest

SseSpec == SseInit /\ [][SseNext]_sseVars /\ (part = "binding" => Fairness)
=============================================================================

----------------------------- MODULE WsContract -----------------------------
(***************************************************************************)
(* What a user of a catcher-ws connection may rely on, whatever happens to *)
(* the sockets underneath: the order of the lifecycle events, and that one *)
(* socket carries accepted commands only, each at most once, in the order  *)
(* in which they were accepted.                                            *)
(***************************************************************************)
EXTENDS Naturals, Sequences

VARIABLES
    phase,      \* the last lifecycle event, or Closed after the last one
    accepted,   \* how many commands were accepted
    session     \* the commands sent on the open socket, in order

vars == <<phase, accepted, session>>

Init == phase = "Connected" /\ accepted = 0 /\ session = <<>>

Accept ==
    /\ phase # "Closed"
    /\ accepted' = accepted + 1
    /\ UNCHANGED <<phase, session>>

\* A socket is in use after Connected, and during a replay before it.
Transmit(i) ==
    /\ phase \in {"Connected", "Reconnecting"}
    /\ i <= accepted
    /\ \A k \in DOMAIN session : session[k] < i
    /\ session' = Append(session, i)
    /\ UNCHANGED <<phase, accepted>>

\* Connected is never announced without a Reconnecting before it.
Announce ==
    /\ phase = "Reconnecting"
    /\ phase' = "Connected"
    /\ UNCHANGED <<accepted, session>>

Lose ==
    /\ phase \in {"Connected", "Reconnecting"}
    /\ phase' = "Disconnected"
    /\ session' = <<>>
    /\ UNCHANGED accepted

Retry ==
    /\ phase = "Disconnected"
    /\ phase' = "Reconnecting"
    /\ UNCHANGED <<accepted, session>>

Finish ==
    /\ phase # "Closed"
    /\ phase' = "Closed"
    /\ session' = <<>>
    /\ UNCHANGED accepted

Next ==
    \/ Accept \/ (\E i \in 1..accepted : Transmit(i))
    \/ Announce \/ Lose \/ Retry \/ Finish

Spec == Init /\ [][Next]_vars
=============================================================================

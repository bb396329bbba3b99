---------------------------- MODULE WsConnection ----------------------------
(***************************************************************************)
(* The connection manager of catcher-ws                                    *)
(* (packages/catcher-ws/src/transport/ws_client.rs): one task owns the     *)
(* socket and takes commands from an unbounded channel that every WsHandle *)
(* writes to.  When the socket dies the task reconnects with backoff, and  *)
(* the commands that arrive meanwhile are buffered and replayed.           *)
(*                                                                         *)
(* A command's identity is its position in the channel.  The channel is    *)
(* the whole sequence ever accepted (log) with a read position (head), so  *)
(* that properties can speak of what was accepted and when.                *)
(***************************************************************************)
EXTENDS Naturals, Sequences

CONSTANTS
    NumEndpoints,    \* config.urls.len()
    RaceCount,       \* config.race_count
    Reconnect,       \* config.reconnect.is_some()
    MaxAttempts,     \* ReconnectConfig::max_attempts
    Heartbeat,       \* config.heartbeat.is_some()
    MaxMissedPongs,  \* HeartbeatConfig::max_missed_pongs
    Reqwest,         \* the reqwest backend is in use (DNS, proxy, TLS options)
    MaxCmds          \* bound: commands the handles send in a behaviour

ASSUME ConfigAssumption ==
    /\ NumEndpoints \in Nat \ {0}
    /\ RaceCount \in Nat \ {0}
    /\ Reconnect \in BOOLEAN
    /\ MaxAttempts \in Nat
    /\ Heartbeat \in BOOLEAN
    /\ MaxMissedPongs \in Nat
    /\ Reqwest \in BOOLEAN
    /\ MaxCmds \in Nat

VARIABLES
    log,         \* every command the channel accepted, in order
    head,        \* how many of them the manager has taken
    handles,     \* some WsHandle (a sender of the channel) is alive
    pc,          \* where the manager task is
    url,         \* current_url
    stream,      \* the endpoint the open socket leads to, 0 for no socket
    attempt,     \* ReconnectManager::attempt
    race,        \* race_endpoints
    skip,        \* skip_backoff
    buffered,    \* buffered_commands: positions in log
    replayed,    \* how many of them the running replay is done with
    waiting,     \* waiting_for_pong
    missed,      \* missed_pongs
    \* History, read by no action:
    event,       \* the last lifecycle event sent to the user
    error,       \* an Error event was sent after it
    session,     \* the commands sent on the open socket, in order
    fate,        \* what became of each command that is a message
    tries,       \* connects begun since the attempt count was last zeroed
    netChanged   \* a NetworkChanged was served since the last Connected

heartbeat == <<waiting, missed>>
seen == <<event, error>>
manager == <<url, stream, attempt, race, skip, buffered, replayed, heartbeat>>
history == <<session, fate, tries, netChanged>>
vars == <<log, head, handles, pc, manager, seen, history>>

Ids == 1..MaxCmds
Endpoints == 1..NumEndpoints

\* BadMsg is a message whose encoding fails (encode_text_message returns Err).
Kinds == {"Msg", "BadMsg", "Close", "NetworkChanged"}
Messages == {"Msg", "BadMsg"}

\* "unsure": the send failed or timed out, the peer may or may not have it.
\* "rejected": an Error event told the user that it could not be encoded.
\* "skipped": a replay passed over it because it could not be encoded.
Fates == {"pending", "sent", "unsure", "rejected", "skipped"}

PCs == {"Connected", "Drain", "NetConnecting", "NetReplay", "Retry",
        "Backoff", "BackoffDrain", "Connecting", "Replay", "Exited"}

Events == {"Connected", "Disconnected", "Reconnecting"}

Empty == head = Len(log)
NextCmd == log[head + 1]

\* event_tx.send of a lifecycle event, and of an Error event.
Emit(e) == event' = e /\ error' = FALSE
EmitError == error' = TRUE /\ UNCHANGED event

\* A fresh HeartbeatState, built for every new socket.
FreshHeartbeat == waiting' = FALSE /\ missed' = 0

-----------------------------------------------------------------------------
(* WsTransport::connect: the first socket is open when the manager starts. *)

\* EndpointRacer::race is won by one of the first n endpoints: the first to
\* connect, which can be any of them.
Racer(n) == {e \in Endpoints : e <= n}

Racing == NumEndpoints > 1 \/ RaceCount > 1

InitialEndpoints == IF Racing THEN Racer(RaceCount) ELSE {1}

Init ==
    /\ log = <<>> /\ head = 0 /\ handles = TRUE
    /\ pc = "Connected"
    /\ url \in InitialEndpoints /\ stream = url
    /\ attempt = 0 /\ race = FALSE /\ skip = FALSE
    /\ buffered = <<>> /\ replayed = 0
    /\ waiting = FALSE /\ missed = 0
    /\ event = "Connected" /\ error = FALSE
    /\ session = <<>>
    /\ fate = [i \in Ids |-> "pending"]
    /\ tries = 0 /\ netChanged = FALSE

-----------------------------------------------------------------------------
(* WsHandle: send_text, send_binary, close and network_changed push one    *)
(* command; after the manager has gone they return WsDisconnected.         *)

Send(kind) ==
    /\ handles
    /\ pc # "Exited"
    /\ Len(log) < MaxCmds
    /\ log' = Append(log, kind)
    /\ UNCHANGED <<head, handles, pc, manager, seen, history>>

\* The last clone of the handle is dropped: the channel has no sender left.
DropHandles ==
    /\ handles
    /\ handles' = FALSE
    /\ UNCHANGED <<log, head, pc, manager, seen, history>>

-----------------------------------------------------------------------------
(* The manager's local transitions.                                        *)

\* The task returns: the channel's receiver, the buffer and the socket are
\* dropped.  No lifecycle event is sent.
Exit ==
    /\ pc' = "Exited"
    /\ stream' = 0 /\ FreshHeartbeat
    /\ buffered' = <<>> /\ replayed' = 0 /\ session' = <<>>
    /\ UNCHANGED <<url, attempt, race, skip, tries, netChanged>>

\* race_endpoints starts as network_changed: an immediate reconnect that fails
\* hands its intent to the backoff loop.
RaceEndpoints(next) == next = "Drain"

\* The select loop ends with a dead socket: Disconnected is sent and the
\* buffer of the coming reconnect starts empty.
Leave(next) ==
    /\ pc' = next
    /\ Emit("Disconnected")
    /\ stream' = 0 /\ FreshHeartbeat
    /\ buffered' = <<>> /\ replayed' = 0 /\ session' = <<>>
    /\ race' = RaceEndpoints(next)
    /\ netChanged' = (next = "Drain")
    /\ UNCHANGED <<url, attempt, skip, tries>>

LeaveForRetry == Leave("Retry")

-----------------------------------------------------------------------------
(* The select loop.  It is biased: commands first, then the heartbeat      *)
(* timer, then the socket.                                                 *)

\* WsCommand::Text and Binary, SendStatus::Sent.
ConnectedSent ==
    /\ pc = "Connected" /\ ~Empty /\ NextCmd = "Msg"
    /\ head' = head + 1
    /\ session' = Append(session, head + 1)
    /\ fate' = [fate EXCEPT ![head + 1] = "sent"]
    /\ UNCHANGED <<log, handles, pc, manager, seen, tries, netChanged>>

\* Mutant: a failed send is ignored, as a failed ping is.
ConnectedSendIgnored ==
    /\ pc = "Connected" /\ ~Empty /\ NextCmd = "Msg"
    /\ head' = head + 1
    /\ fate' = [fate EXCEPT ![head + 1] = "unsure"]
    /\ UNCHANGED <<log, handles, pc, manager, seen, session, tries,
                   netChanged>>

\* SendStatus::Failed and TimedOut.  The message is not kept: it was taken
\* from the channel and is not buffered.
ConnectedSendFailed ==
    /\ pc = "Connected" /\ ~Empty /\ NextCmd = "Msg"
    /\ head' = head + 1
    /\ fate' = [fate EXCEPT ![head + 1] = "unsure"]
    /\ LeaveForRetry
    /\ UNCHANGED <<log, handles>>

\* The encoding error is reported and the loop goes on.
ConnectedEncodeError ==
    /\ pc = "Connected" /\ ~Empty /\ NextCmd = "BadMsg"
    /\ head' = head + 1
    /\ fate' = [fate EXCEPT ![head + 1] = "rejected"]
    /\ EmitError
    /\ UNCHANGED <<log, handles, pc, manager, session, tries, netChanged>>

\* Mutant: the None of a channel without senders is passed over.
ConnectedCloseCommandOnly ==
    \/ /\ pc = "Connected" /\ ~Empty /\ NextCmd = "Close"
       /\ head' = head + 1
       /\ Exit
       /\ UNCHANGED <<log, handles, seen, fate>>
    \/ /\ pc = "Connected" /\ Empty /\ ~handles
       /\ UNCHANGED vars

\* WsCommand::Close, or None because every handle is gone.
ConnectedClose ==
    /\ pc = "Connected"
    /\ \/ ~Empty /\ NextCmd = "Close" /\ head' = head + 1
       \/ Empty /\ ~handles /\ UNCHANGED head
    /\ Exit
    /\ UNCHANGED <<log, handles, seen, fate>>

ConnectedNetworkChanged ==
    /\ pc = "Connected" /\ ~Empty /\ NextCmd = "NetworkChanged"
    /\ head' = head + 1
    /\ Leave("Drain")
    /\ UNCHANGED <<log, handles, fate>>

\* No command is ready, so the timer and the socket get their turn.
Idle == pc = "Connected" /\ Empty /\ handles

\* on_missed_pong and is_missed_pongs_exceeded: a ping before this tick is
\* still unanswered and its loss is one too many.
PongsExceeded == waiting /\ missed + 1 >= MaxMissedPongs

\* A tick that ends the connection: too many pongs are missing, or the last
\* pong is too old (is_timed_out reads the clock), or the ping could not be
\* written in time.  Only the first depends on the state, and the last can
\* happen to any ping.
HeartbeatLost ==
    /\ Idle /\ Heartbeat
    /\ LeaveForRetry
    /\ UNCHANGED <<log, head, handles, fate>>

\* A tick that sends a ping, whose failure is ignored.
HeartbeatPing ==
    /\ Idle /\ Heartbeat
    /\ ~PongsExceeded
    /\ waiting' = TRUE
    /\ missed' = IF waiting THEN missed + 1 ELSE missed
    /\ UNCHANGED <<log, head, handles, pc, url, stream, attempt, race, skip,
                   buffered, replayed, seen, history>>

RecvPong ==
    /\ Idle /\ Heartbeat
    /\ FreshHeartbeat
    /\ UNCHANGED <<log, head, handles, pc, url, stream, attempt, race, skip,
                   buffered, replayed, seen, history>>

\* A data frame is passed on as a Message, or as an Error if it cannot be
\* decoded.
RecvData ==
    /\ Idle
    /\ EmitError \/ UNCHANGED seen
    /\ UNCHANGED <<log, head, handles, pc, manager, history>>

\* A Close frame, which is answered, or the end of the stream.
RecvClose ==
    /\ Idle
    /\ LeaveForRetry
    /\ UNCHANGED <<log, head, handles, fate>>

-----------------------------------------------------------------------------
(* After a network change: drain the channel, then reconnect at once.      *)

\* Close and the loss of all handles end the task; what was buffered goes.
Abort(state) ==
    /\ pc = state
    /\ \/ ~Empty /\ NextCmd = "Close" /\ head' = head + 1
       \/ Empty /\ ~handles /\ UNCHANGED head
    /\ Exit
    /\ UNCHANGED <<log, handles, seen, fate>>

\* Mutant: what arrives during the wait is dropped.
BufferDropped(state) ==
    /\ pc = state /\ ~Empty /\ NextCmd \in Messages
    /\ head' = head + 1
    /\ UNCHANGED <<log, handles, pc, manager, seen, history>>

\* Text and Binary wait for the replay.
Buffer(state) ==
    /\ pc = state /\ ~Empty /\ NextCmd \in Messages
    /\ head' = head + 1
    /\ buffered' = Append(buffered, head + 1)
    /\ UNCHANGED <<log, handles, pc, url, stream, attempt, race, skip,
                   replayed, heartbeat, seen, history>>

DrainClose == Abort("Drain")

DrainMessage == Buffer("Drain")

\* Mutant: the drain swallows a Close as well.
DrainSwallowsClose ==
    /\ pc = "Drain" /\ ~Empty /\ NextCmd \in {"NetworkChanged", "Close"}
    /\ head' = head + 1
    /\ UNCHANGED <<log, handles, pc, manager, seen, history>>

\* A storm of NetworkChanged callbacks causes one reconnect.
DrainNetworkChanged ==
    /\ pc = "Drain" /\ ~Empty /\ NextCmd = "NetworkChanged"
    /\ head' = head + 1
    /\ UNCHANGED <<log, handles, pc, manager, seen, history>>

\* rebuild_reqwest_client_after_network_change, which may fail with an Error
\* event and then keeps the old client.
RebuildClient == UNCHANGED seen \/ (Reqwest /\ EmitError)

\* The client is rebuilt here too, but the Reconnecting event comes after the
\* Error event that this may cause.
NetReconnect ==
    /\ pc = "Drain" /\ Empty /\ handles
    /\ pc' = "NetConnecting"
    /\ attempt' = 0 /\ tries' = 1
    /\ Emit("Reconnecting")
    /\ UNCHANGED <<log, head, handles, url, stream, race, skip, buffered,
                   replayed, heartbeat, session, fate, netChanged>>

\* connect_any_endpoint widens the race to every endpoint: race_count limits
\* the initial connect only.
AnyEndpoint ==
    IF Racing
    THEN Racer(IF NumEndpoints > RaceCount THEN NumEndpoints ELSE RaceCount)
    ELSE {1}

NetConnectOk ==
    /\ pc = "NetConnecting"
    /\ pc' = "NetReplay"
    /\ stream' \in AnyEndpoint
    /\ UNCHANGED <<log, head, handles, url, attempt, race, skip, buffered,
                   replayed, heartbeat, seen, history>>

\* Without a reconnect configuration the failure is final, and reported.
NetConnectErr ==
    /\ pc = "NetConnecting"
    /\ pc' = "Retry"
    /\ IF Reconnect THEN UNCHANGED seen ELSE EmitError
    /\ UNCHANGED <<log, head, handles, manager, history>>

-----------------------------------------------------------------------------
(* replay_buffered_commands on a fresh socket, one command a step, and     *)
(* what the two callers do with its result.                                *)

Replaying == pc \in {"Replay", "NetReplay"}

\* The command the replay is at.
NextReplayBackwards == buffered[Len(buffered) - replayed]
NextReplay == buffered[replayed + 1]

ReplaySent ==
    /\ Replaying /\ replayed < Len(buffered)
    /\ log[NextReplay] = "Msg"
    /\ replayed' = replayed + 1
    /\ session' = Append(session, NextReplay)
    /\ fate' = [fate EXCEPT ![NextReplay] = "sent"]
    /\ UNCHANGED <<log, head, handles, pc, url, stream, attempt, race, skip,
                   buffered, heartbeat, seen, tries, netChanged>>

\* A message that cannot be encoded is passed over without an Error event.
ReplaySkipped ==
    /\ Replaying /\ replayed < Len(buffered)
    /\ log[NextReplay] = "BadMsg"
    /\ replayed' = replayed + 1
    /\ fate' = [fate EXCEPT ![NextReplay] = "skipped"]
    /\ UNCHANGED <<log, head, handles, pc, url, stream, attempt, race, skip,
                   buffered, heartbeat, seen, session, tries, netChanged>>

\* Mutant: the buffer goes with the socket.
ReplayFailedForgets ==
    /\ Replaying /\ replayed < Len(buffered) /\ log[NextReplay] = "Msg"
    /\ pc' = "Retry"
    /\ Emit("Disconnected")
    /\ stream' = 0 /\ replayed' = 0 /\ session' = <<>> /\ buffered' = <<>>
    /\ UNCHANGED <<log, head, handles, url, attempt, race, skip, heartbeat,
                   fate, tries, netChanged>>

\* A failed or late send: Disconnected, and the whole buffer is kept, the
\* commands this replay already sent included.
ReplayFailed ==
    /\ Replaying /\ replayed < Len(buffered)
    /\ log[NextReplay] = "Msg"
    /\ pc' = "Retry"
    /\ Emit("Disconnected")
    /\ stream' = 0 /\ replayed' = 0 /\ session' = <<>>
    /\ UNCHANGED <<log, head, handles, url, attempt, race, skip, buffered,
                   heartbeat, fate, tries, netChanged>>

\* The immediate reconnect moves current_url after its replay, the backoff
\* loop has moved it when it connected.
UrlAfterReplayKept == url
UrlAfterReplay == IF pc = "NetReplay" THEN stream ELSE url

\* The socket becomes the manager's: on_connected, then the next round of
\* the outer loop announces it and builds a fresh heartbeat.
ReplayDone ==
    /\ Replaying /\ replayed = Len(buffered)
    /\ pc' = "Connected"
    /\ url' = UrlAfterReplay
    /\ attempt' = 0 /\ tries' = 0
    /\ buffered' = <<>> /\ replayed' = 0
    /\ race' = FALSE /\ skip' = FALSE
    /\ FreshHeartbeat
    /\ Emit("Connected")
    /\ netChanged' = FALSE
    /\ UNCHANGED <<log, head, handles, stream, session, fate>>

-----------------------------------------------------------------------------
(* Reconnecting with backoff.                                              *)

\* ReconnectManager::on_disconnect counts the attempt and compares it.
NextAttempt == attempt + 1

ExhaustedOffByOne == NextAttempt > MaxAttempts + 1
Exhausted == NextAttempt > MaxAttempts

\* ReconnectManager::on_disconnect says None: the attempts are used up.
RetryExhausted ==
    /\ pc = "Retry"
    /\ ~Reconnect \/ Exhausted
    /\ Exit
    /\ UNCHANGED <<log, head, handles, seen, fate>>

\* on_disconnect says Some(delay): announce the attempt and back off.
RetryBackoff ==
    /\ pc = "Retry"
    /\ Reconnect /\ ~Exhausted
    /\ attempt' = NextAttempt
    /\ pc' = "Backoff" /\ skip' = FALSE
    /\ Emit("Reconnecting")
    /\ UNCHANGED <<log, head, handles, url, stream, race, buffered, replayed,
                   heartbeat, history>>

\* The delay is over before a command came.
BackoffElapsed ==
    /\ pc = "Backoff"
    /\ pc' = "BackoffDrain"
    /\ UNCHANGED <<log, head, handles, manager, seen, history>>

BackoffClose == Abort("Backoff") \/ Abort("BackoffDrain")

BackoffMessage == Buffer("Backoff") \/ Buffer("BackoffDrain")

\* In the wait it cuts the delay short, in the drain it is only noted.
BackoffNetworkChanged ==
    /\ pc \in {"Backoff", "BackoffDrain"}
    /\ ~Empty /\ NextCmd = "NetworkChanged"
    /\ head' = head + 1
    /\ pc' = "BackoffDrain"
    /\ skip' = TRUE
    /\ UNCHANGED <<log, handles, url, stream, attempt, race, buffered,
                   replayed, heartbeat, seen, history>>

\* The channel is empty.  A network change rebuilds the client, zeroes the
\* attempts and asks for a race.
BackoffDone ==
    /\ pc = "BackoffDrain" /\ Empty /\ handles
    /\ pc' = "Connecting"
    /\ IF skip
       THEN /\ RebuildClient
            /\ attempt' = 0 /\ race' = TRUE /\ tries' = 1
            /\ netChanged' = TRUE
       ELSE /\ tries' = tries + 1
            /\ UNCHANGED <<seen, attempt, race, netChanged>>
    /\ UNCHANGED <<log, head, handles, url, stream, skip, buffered, replayed,
                   heartbeat, session, fate>>

\* A race may be won by any endpoint and moves current_url there at once;
\* otherwise the last endpoint is tried again.
ConnectOk ==
    /\ pc = "Connecting"
    /\ pc' = "Replay"
    /\ url' \in IF race THEN AnyEndpoint ELSE {url}
    /\ stream' = url'
    /\ UNCHANGED <<log, head, handles, attempt, race, skip, buffered, replayed,
                   heartbeat, seen, history>>

ConnectErr ==
    /\ pc = "Connecting"
    /\ pc' = "Retry"
    /\ UNCHANGED <<log, head, handles, manager, seen, history>>

-----------------------------------------------------------------------------
\* The user of the handles: nothing obliges it to act.
User == DropHandles \/ \E kind \in Kinds : Send(kind)

\* What the peer and the clock bring to an idle connection.
Environment ==
    HeartbeatLost \/ HeartbeatPing \/ RecvPong \/ RecvData \/ RecvClose

\* What the manager does by itself once it is scheduled.
Manager ==
    \/ ConnectedSent \/ ConnectedSendFailed \/ ConnectedEncodeError
    \/ ConnectedClose \/ ConnectedNetworkChanged
    \/ DrainClose \/ DrainMessage \/ DrainNetworkChanged
    \/ NetReconnect \/ NetConnectOk \/ NetConnectErr
    \/ ReplaySent \/ ReplaySkipped \/ ReplayFailed \/ ReplayDone
    \/ RetryExhausted \/ RetryBackoff
    \/ BackoffElapsed \/ BackoffClose \/ BackoffMessage
    \/ BackoffNetworkChanged \/ BackoffDone
    \/ ConnectOk \/ ConnectErr

\* The task has returned; nothing is left to do.
Done == pc = "Exited" /\ UNCHANGED vars

Next == User \/ Environment \/ Manager \/ Done

Spec == Init /\ [][Next]_vars

\* tokio polls the task again whenever a command, a timer or the socket is
\* ready, and the handshake and send timeouts (15 s and 10 s by default) end
\* every await of a connect or a send.
FairSpec == Spec /\ WF_vars(Manager)

-----------------------------------------------------------------------------
(* Properties.                                                             *)

FlagsOK ==
    /\ handles \in BOOLEAN /\ race \in BOOLEAN /\ skip \in BOOLEAN
    /\ waiting \in BOOLEAN
    /\ error \in BOOLEAN /\ netChanged \in BOOLEAN

DataOK ==
    /\ log \in Seq(Kinds) /\ Len(log) <= MaxCmds
    /\ head \in 0..Len(log)
    /\ pc \in PCs
    /\ url \in Endpoints /\ stream \in Endpoints \cup {0}
    /\ pc = "NetReplay" => stream # 0
    /\ attempt \in 0..MaxAttempts
    /\ buffered \in Seq(Ids) /\ replayed \in 0..Len(buffered)
    /\ missed \in 0..MaxMissedPongs
    /\ event \in Events
    /\ session \in Seq(Ids)
    /\ fate \in [Ids -> Fates]
    /\ tries \in Nat

\* Every variable holds values of its type.
TypeOK == FlagsOK /\ DataOK

\* Until the task returns, every message it took from the channel has met its
\* fate or waits in the buffer: buffering, replaying, a failed replay and the
\* next attempt forget none.
NoForgottenMessage ==
    pc # "Exited" =>
        \A i \in 1..head :
            log[i] \in Messages =>
                \/ fate[i] # "pending"
                \/ \E k \in DOMAIN buffered : buffered[k] = i

\* The message whose send fails in the select loop is the only kind that is
\* taken and not delivered, and its loss ends that very connection: at most
\* one message is left unsure for each Disconnected event.
LossStep ==
    \A i, j \in Ids :
        (fate'[i] = "unsure" /\ fate[i] # "unsure") =>
            /\ event = "Connected" /\ event' = "Disconnected"
            /\ (fate'[j] # fate[j] => j = i)
LossEndsConnection == [][LossStep]_vars

\* Between two successes, or after a network change, the manager makes at
\* most max_attempts connects plus the immediate one that a network change
\* brings; ReconnectManager's count and the connects really made stay in step.
RetryBudget ==
    /\ tries <= MaxAttempts + 1
    /\ pc \in {"Connecting", "Replay"} => tries \in {attempt, attempt + 1}

\* From the moment a network change is served until the next Connected event,
\* every connect races all endpoints: a failed immediate reconnect does not
\* fall back on the endpoint that won in the old network.
RaceAfterNetworkChange ==
    (netChanged /\ pc # "Exited") => race

\* The url of the Connected event, which later reconnects try again, is the
\* endpoint the open socket leads to.
ConnectedUrl ==
    pc = "Connected" => stream = url

\* Reconnects lead to the right endpoint: to any of them after a network change
\* and otherwise to the one that the last Connected event named.
EndpointChosen == RaceAfterNetworkChange /\ ConnectedUrl

\* Nothing accepted after a Close is ever sent, through however many
\* reconnects the Close waits in the channel.
CloseIsFinal ==
    \A i, j \in 1..Len(log) :
        (log[i] = "Close" /\ i < j) => fate[j] = "pending"

\* Events and sockets as the user sees them: WsContract.
Contract == INSTANCE WsContract WITH
    phase <- IF pc = "Exited" THEN "Closed" ELSE event,
    accepted <- Len(log)

\* Every behaviour of the manager is one that WsContract allows.
ImplementsContract == Contract!Spec

\* A Close, or the loss of the last handle, ends the task, whatever it is
\* doing at that moment.
ShutdownCompletes ==
    ((~handles \/ \E i \in 1..Len(log) : log[i] = "Close") ~> pc = "Exited")

\* An accepted message does not wait for ever: it meets its fate or the task
\* returns.
MessagesSettle ==
    \A i \in Ids :
        (i <= Len(log) /\ log[i] \in Messages)
            ~> (fate[i] # "pending" \/ pc = "Exited")

-----------------------------------------------------------------------------
(* The inductive invariant behind the safety properties.                   *)

Sorted(s) == \A a, b \in 1..Len(s) : a < b => s[a] < s[b]

\* Which lifecycle event was the last one, by the manager's place.
SeenOK ==
    /\ pc = "Connected" => event = "Connected"
    /\ pc = "Drain" => event = "Disconnected"
    /\ pc \in {"NetConnecting", "NetReplay", "Backoff", "BackoffDrain",
               "Connecting", "Replay"} => event = "Reconnecting"
    /\ pc = "Retry" => event \in {"Disconnected", "Reconnecting"}

\* The attempt count and the connects really begun.
CountOK ==
    /\ pc \in {"Connected", "Drain"} => attempt = 0 /\ tries = 0
    /\ pc \in {"NetConnecting", "NetReplay"} => attempt = 0 /\ tries = 1
    /\ pc \in {"Retry", "Connecting", "Replay"} =>
         tries \in {attempt, attempt + 1}
    /\ pc \in {"Backoff", "BackoffDrain"} =>
         attempt \in {tries, tries + 1}
    /\ tries <= attempt + 1

\* Where current_url points, and whether the endpoints are raced.
EndpointOK ==
    /\ pc \in {"Connected", "Replay"} => stream = url
    /\ (netChanged /\ pc # "Exited") => race

\* The buffer holds messages taken from the channel, oldest first.
BufferOK ==
    /\ Sorted(buffered)
    /\ \A k \in 1..Len(buffered) :
          buffered[k] <= head /\ log[buffered[k]] \in Messages
    /\ pc \in {"Connected", "Exited"} => buffered = <<>>
    /\ ~Replaying => replayed = 0
    /\ \A k \in 1..replayed : fate[buffered[k]] # "pending"

\* A socket carries commands already taken, oldest first, and a replay has
\* sent none that is not older than those it still has to send.
SessionOK ==
    /\ Sorted(session)
    /\ \A a \in 1..Len(session) : session[a] <= head
    /\ pc # "Connected" /\ ~Replaying => session = <<>>
    /\ \A a \in 1..Len(session), b \in replayed + 1..Len(buffered) :
          session[a] < buffered[b]

\* Only messages that were taken have a fate, and a taken Close is the last
\* command that the task takes.
FateOK ==
    /\ \A i \in Ids : fate[i] # "pending" =>
          i <= head /\ log[i] \in Messages
    /\ \A i \in 1..head : log[i] = "Close" => pc = "Exited" /\ i = head

\* The inductive invariant.
IInv ==
    /\ TypeOK /\ SeenOK /\ CountOK /\ EndpointOK /\ BufferOK /\ SessionOK
    /\ FateOK /\ NoForgottenMessage
=============================================================================

----------------------------- MODULE SseClient ------------------------------
(***************************************************************************)
(* The reconnecting SSE client of catcher-http                             *)
(* (packages/catcher-http/src/sse/client.rs): a background task connects,  *)
(* routes the lines of the response, and connects again with Last-Event-ID *)
(* when the response ends.  The owner reads the lines and may close or     *)
(* drop the client at any time.                                            *)
(*                                                                         *)
(* The server has one stream of events 1, 2, ..., each an id: line and a   *)
(* content line, and answers a request with the events after the           *)
(* Last-Event-ID that it carries.  Delays, and the retry: lines that set   *)
(* them, are left out: a wait ends some time.                              *)
(***************************************************************************)
EXTENDS Naturals, Sequences

CONSTANTS
    MaxRetries,   \* SseReconnectConfig::max_retries
    NumEvents,    \* bound: events of the server
    MaxCloses     \* bound: calls of close

ASSUME SseAssumption ==
    /\ MaxRetries \in Nat
    /\ NumEvents \in Nat /\ MaxCloses \in Nat

VARIABLES
    idFirst,     \* the server writes the id: line before the content line;
                 \* it does so always or never
    pc,          \* where the background task is
    ready,       \* ready_state
    attempt,     \* connections that ended
    lastId,      \* last_event_id, 0 while it is empty
    current,     \* the event whose lines the server sends next
    half,        \* the first line of that event was read
    cancels,     \* signals in the cancel channel
    closing,     \* close() has sent its signal and not yet set ready_state
    dropped,     \* the owner dropped the client
    \* History, read by no action:
    delivered,   \* the events whose content line the owner was given
    closes,      \* calls of close
    closed,      \* some close() has returned
    connects,    \* requests sent
    late,        \* requests sent after a close() returned or a drop
    cut          \* a response has ended within a line

owner == <<cancels, closing, dropped, closes, closed>>
response == <<idFirst, current, half>>
history == <<delivered, connects, late, cut>>
vars == <<pc, ready, attempt, lastId, response, owner, history>>

PCs == {"Top", "Mark", "Sending", "Reading", "EndedOk", "Count", "Wait",
        "Ended"}
ReadyStates == {"Connecting", "Open", "Closed"}

Init ==
    /\ idFirst \in BOOLEAN
    /\ pc = "Top" /\ ready = "Connecting" /\ attempt = 0 /\ lastId = 0
    /\ current = 1 /\ half = FALSE
    /\ cancels = 0 /\ closing = FALSE /\ dropped = FALSE
    /\ delivered = <<>> /\ closes = 0 /\ closed = FALSE
    /\ connects = 0 /\ late = 0 /\ cut = FALSE

-----------------------------------------------------------------------------
(* The owner.                                                              *)

CloseBegin ==
    /\ ~dropped /\ ~closing /\ closes < MaxCloses
    /\ cancels' = cancels + 1
    /\ closing' = TRUE /\ closes' = closes + 1
    /\ UNCHANGED <<pc, ready, attempt, lastId, response, dropped, closed,
                   history>>

CloseEnd ==
    /\ closing
    /\ ready' = "Closed"
    /\ closing' = FALSE /\ closed' = TRUE
    /\ UNCHANGED <<pc, attempt, lastId, response, cancels, dropped, closes,
                   history>>

\* Both channels lose their end in the owner's hands.
Drop ==
    /\ ~dropped /\ ~closing
    /\ dropped' = TRUE
    /\ UNCHANGED <<pc, ready, attempt, lastId, response, cancels, closing,
                   closes, closed, history>>

-----------------------------------------------------------------------------
(* The loop of the background task.                                        *)

\* The loop is left; ready_state is Closed for good.
Leave ==
    /\ pc' = "Ended" /\ ready' = "Closed"
    /\ UNCHANGED <<attempt, lastId, response, closing, dropped, closes,
                   closed, history>>

\* try_recv takes a signal.  A channel whose sender is gone is no signal.
TopCancelled ==
    /\ pc = "Top" /\ cancels > 0
    /\ cancels' = cancels - 1
    /\ Leave

TopGoesOn ==
    /\ pc = "Top" /\ cancels = 0
    /\ pc' = "Mark"
    /\ UNCHANGED <<ready, attempt, lastId, response, owner, history>>

\* The server continues after the Last-Event-ID header.
ResumePoint == lastId + 1

\* ready_state is set to Connecting, whatever it is now, and the request goes
\* out with the last event id.
SendRequest ==
    /\ pc = "Mark"
    /\ pc' = "Sending"
    /\ ready' = "Connecting"
    /\ current' = ResumePoint /\ half' = FALSE
    /\ connects' = connects + 1
    /\ late' = IF closed \/ dropped THEN late + 1 ELSE late
    /\ UNCHANGED <<idFirst, attempt, lastId, owner, delivered, cut>>

-----------------------------------------------------------------------------
(* connect_once.                                                           *)

\* No answer, or a status other than 200 and 204.
ConnectFails ==
    /\ pc = "Sending"
    /\ pc' = "Count"
    /\ UNCHANGED <<ready, attempt, lastId, response, owner, history>>

\* 204: ready_state is Closed, and the caller learns nothing else of it.
Answer204 ==
    /\ pc = "Sending"
    /\ pc' = "EndedOk" /\ ready' = "Closed"
    /\ UNCHANGED <<attempt, lastId, response, owner, delivered, connects,
                   late, cut>>

Answer200 ==
    /\ pc = "Sending"
    /\ pc' = "Reading" /\ ready' = "Open"
    /\ UNCHANGED <<attempt, lastId, response, owner, history>>

\* The line that the server sends next is an id: line.
AtId == half # idFirst

\* The server's next line.
Advance ==
    /\ half' = ~half
    /\ current' = IF half THEN current + 1 ELSE current
    /\ UNCHANGED idFirst

\* RouteAction::SetLastEventId.
ReadId ==
    /\ pc = "Reading" /\ current <= NumEvents /\ AtId
    /\ lastId' = current
    /\ Advance
    /\ UNCHANGED <<pc, ready, attempt, owner, history>>

\* Mutant: a bounded channel that is full drops the line.
ReadContentLossy ==
    /\ pc = "Reading" /\ current <= NumEvents /\ ~AtId
    /\ ~dropped
    /\ delivered' = Append(delivered, current) \/ UNCHANGED delivered
    /\ Advance
    /\ UNCHANGED <<pc, ready, attempt, lastId, owner, connects, late,
                   cut>>

\* RouteAction::Yield, sent to the owner.
ReadContent ==
    /\ pc = "Reading" /\ current <= NumEvents /\ ~AtId
    /\ ~dropped
    /\ delivered' = Append(delivered, current)
    /\ Advance
    /\ UNCHANGED <<pc, ready, attempt, lastId, owner, connects, late,
                   cut>>

\* RouteAction::Yield when the owner is gone: the connection is over.
ReadUnwanted ==
    /\ pc = "Reading" /\ current <= NumEvents /\ ~AtId
    /\ dropped
    /\ pc' = "EndedOk" /\ ready' = "Closed"
    /\ UNCHANGED <<attempt, lastId, response, owner, history>>

\* The response ends after a complete line.
StreamEnds ==
    /\ pc = "Reading"
    /\ pc' = "EndedOk"
    /\ UNCHANGED <<ready, attempt, lastId, response, owner, history>>

\* The response ends within a line, and what there is of it is routed like a
\* complete line: the beginning of an id is an id, of an earlier event or
\* empty; the beginning of a content line goes to the owner.
StreamEndsWithinLine ==
    /\ pc = "Reading" /\ current <= NumEvents
    /\ pc' = "EndedOk" /\ cut' = TRUE
    /\ IF AtId THEN lastId' \in 0..current - 1 ELSE UNCHANGED lastId
    /\ UNCHANGED <<ready, attempt, response, owner, delivered, connects, late>>

\* The response breaks off, or its timeout is over: the error goes to the
\* owner and the incomplete line is dropped.
StreamFails ==
    /\ pc = "Reading"
    /\ pc' = "Count"
    /\ UNCHANGED <<ready, attempt, lastId, response, owner, history>>

-----------------------------------------------------------------------------
(* Between two connections.                                                *)

\* Mutant: the signal is taken but the loop is not left.
EndedOkIgnoresSignal ==
    /\ pc = "EndedOk" /\ cancels > 0
    /\ cancels' = cancels - 1
    /\ pc' = "Count"
    /\ UNCHANGED <<ready, attempt, lastId, response, closing, dropped, closes,
                   closed, history>>

EndedOkCancelled ==
    /\ pc = "EndedOk" /\ cancels > 0
    /\ cancels' = cancels - 1
    /\ Leave

EndedOkGoesOn ==
    /\ pc = "EndedOk" /\ cancels = 0
    /\ pc' = "Count"
    /\ UNCHANGED <<ready, attempt, lastId, response, owner, history>>

ExhaustedLate == attempt > MaxRetries
Exhausted == attempt + 1 > MaxRetries

\* attempt is never set back, not by a connection that was open either.
GiveUp ==
    /\ pc = "Count" /\ Exhausted
    /\ attempt' = attempt + 1
    /\ pc' = "Ended" /\ ready' = "Closed"
    /\ UNCHANGED <<lastId, response, owner, history>>

\* recv in the select! of the wait: a signal, or None because the owner is
\* gone.
Signalled ==
    \/ cancels > 0 /\ cancels' = cancels - 1
    \/ cancels = 0 /\ dropped /\ UNCHANGED cancels

\* The sleep takes a millisecond at least: what was there before the wait ends
\* it at once.
BackOffCancelled ==
    /\ pc = "Count" /\ ~Exhausted
    /\ Signalled
    /\ attempt' = attempt + 1
    /\ pc' = "Ended" /\ ready' = "Closed"
    /\ UNCHANGED <<lastId, response, closing, dropped, closes, closed,
                   history>>

BackOff ==
    /\ pc = "Count" /\ ~Exhausted
    /\ cancels = 0 /\ ~dropped
    /\ attempt' = attempt + 1
    /\ pc' = "Wait"
    /\ UNCHANGED <<ready, lastId, response, owner, history>>

WaitCancelled ==
    /\ pc = "Wait"
    /\ Signalled
    /\ Leave

\* The sleep is over, perhaps together with a signal or a drop that select!
\* then passes over.
WaitElapsed ==
    /\ pc = "Wait"
    /\ pc' = "Top"
    /\ UNCHANGED <<ready, attempt, lastId, response, owner, history>>

-----------------------------------------------------------------------------
Owner == CloseBegin \/ CloseEnd \/ Drop

Background ==
    \/ TopCancelled \/ TopGoesOn \/ SendRequest
    \/ ConnectFails \/ Answer204 \/ Answer200
    \/ ReadId \/ ReadContent \/ ReadUnwanted
    \/ StreamEnds \/ StreamEndsWithinLine \/ StreamFails
    \/ EndedOkCancelled \/ EndedOkGoesOn
    \/ GiveUp \/ BackOffCancelled \/ BackOff
    \/ WaitCancelled \/ WaitElapsed

\* The task has returned.
Done == pc = "Ended" /\ UNCHANGED vars

Next == Owner \/ Background \/ Done

Spec == Init /\ [][Next]_vars

-----------------------------------------------------------------------------
(* Properties.                                                             *)

\* Every variable holds values of its type.
TypeOK ==
    /\ idFirst \in BOOLEAN /\ cut \in BOOLEAN
    /\ pc \in PCs /\ ready \in ReadyStates
    /\ attempt \in 0..MaxRetries + 1
    /\ lastId \in 0..NumEvents /\ current \in 1..NumEvents + 1
    /\ half \in BOOLEAN
    /\ cancels \in 0..MaxCloses /\ closes \in 0..MaxCloses
    /\ closing \in BOOLEAN /\ closed \in BOOLEAN /\ dropped \in BOOLEAN
    /\ delivered \in Seq(1..NumEvents)
    /\ connects \in Nat /\ late \in Nat

\* Whatever happens to the connections, the server sees max_retries + 1
\* requests at most, and the task knows how many they were.
ConnectBudget ==
    /\ connects <= MaxRetries + 1
    /\ pc # "Ended" => connects \in {attempt, attempt + 1}

\* Once close() has returned, or the client was dropped, at most one more
\* request goes out: the one that the task was about to send.
StopsSoon == late <= 1

\* If the server writes the id before the content, no event is given to the
\* owner twice and none out of order, through any number of reconnects, unless
\* a response has ended within an id.
NoDuplicates ==
    (idFirst /\ ~cut) =>
        \A a, b \in 1..Len(delivered) : a < b => delivered[a] < delivered[b]

\* If the server writes the id after the content, resuming with Last-Event-ID
\* loses nothing: every event that the server is told to leave out was given
\* to the owner.
NoEventSkipped ==
    (~idFirst /\ pc = "Sending") =>
        \A e \in 1..current - 1 :
            \E k \in 1..Len(delivered) : delivered[k] = e

\* Through any reconnects, events come once or none is missing, as the order
\* in which the server writes the lines decides.
DeliveryByLineOrder == TypeOK /\ NoDuplicates /\ NoEventSkipped
=============================================================================

----------------------------- MODULE SseStream ------------------------------
(***************************************************************************)
(* SseStream (packages/catcher-http/src/sse/stream.rs) and the routing of  *)
(* its lines (router.rs): a response body that arrives in chunks, cut      *)
(* anywhere, is decoded and split into lines.  connect_once of client.rs   *)
(* does the same to its body.                                              *)
(*                                                                         *)
(* A byte is a letter, the prefix "id:" (taken as one), a line feed, a     *)
(* carriage return, or one half of a character of two bytes.  A module     *)
(* that reads the stream composes these steps with its own.                *)
(***************************************************************************)
EXTENDS Naturals, Sequences, SequencesExt

CONSTANT MaxBytes   \* bound: bytes in the body

ASSUME BytesAssumption == MaxBytes \in Nat

VARIABLES
    buffer,   \* the characters of the line that is not complete
    pending,  \* pending_lines
    lastEventId, \* last_event_id
    over,     \* done
    broken,   \* reading the body has failed: no chunk follows
    \* History, read by no action:
    body,     \* the bytes that have arrived
    torn,     \* a chunk ended between the halves of a character
    taken     \* the lines that were yielded

streamVars == <<buffer, pending, lastEventId, over, broken, body, torn, taken>>

Letter == "x"
IdPrefix == "id:"
LF == "LF"
CR == "CR"
First == "first"
Second == "second"
Bytes == {Letter, IdPrefix, LF, CR, First, Second}

Unknown == "unknown"  \* U+FFFD
Chars == Bytes \cup {Unknown}

StreamInit ==
    /\ buffer = <<>> /\ pending = <<>> /\ lastEventId = <<>> /\ over = FALSE
    /\ broken = FALSE
    /\ body = <<>> /\ torn = FALSE /\ taken = <<>>

\* The text is UTF-8.
Utf8(bytes) ==
    \A i \in DOMAIN bytes :
        bytes[i] = Second <=> i > 1 /\ bytes[i - 1] = First

\* String::from_utf8_lossy of one chunk.  A String holds UTF-8 as well: a whole
\* character keeps its two bytes, and a half alone becomes Unknown.
Decode(bytes) ==
    [i \in DOMAIN bytes |->
        IF \/ bytes[i] = First /\ i = Len(bytes)
           \/ bytes[i] = Second /\ i = 1
        THEN Unknown ELSE bytes[i]]

\* trim_end_matches('\r')
TrimEnd(line) ==
    LET kept == {i \in DOMAIN line : line[i] # CR}
    IN  SubSeq(line, 1, IF kept = {} THEN 0 ELSE Max(kept))

\* route_line.  Comments are dropped as empty lines are, and a retry line only
\* sets a field that the stream does not use.
IsId(line) == line # <<>> /\ Head(line) = IdPrefix
IsContent(line) == line # <<>> /\ ~IsId(line)

\* process_line, of what the stream has gathered so far.
ProcessLine(s, line) ==
    [s EXCEPT !.buffer = <<>>,
              !.pending = IF IsContent(line) THEN Append(@, line) ELSE @,
              !.lastEventId = IF IsId(line) THEN Tail(line) ELSE @]

\* One character of the buffer: a line feed ends a line.
ProcessChar(s, char) ==
    IF char = LF THEN ProcessLine(s, TrimEnd(s.buffer))
                 ELSE [s EXCEPT !.buffer = Append(@, char)]

\* process_buffer, once the characters are appended to the buffer.
ProcessBuffer(s, chars) ==
    LET after[n \in 0..Len(chars)] ==
            IF n = 0 THEN s ELSE ProcessChar(after[n - 1], chars[n])
    IN  after[Len(chars)]

Gathered ==
    [buffer |-> buffer, pending |-> pending, lastEventId |-> lastEventId]

Gather(s) ==
    /\ buffer' = s.buffer /\ pending' = s.pending
    /\ lastEventId' = s.lastEventId

\* Mutant: a chunk replaces what was left of the one before.
ChunkForgets(bytes) ==
    /\ pending = <<>> /\ ~over /\ ~broken
    /\ Gather(ProcessBuffer([Gathered EXCEPT !.buffer = <<>>], Decode(bytes)))
    /\ body' = body \o bytes
    /\ torn' = (torn \/ bytes[Len(bytes)] = First)
    /\ UNCHANGED <<over, broken, taken>>

\* poll_next gets a chunk.  It asks for one only when no line is waiting.
Chunk(bytes) ==
    /\ pending = <<>> /\ ~over /\ ~broken
    /\ Gather(ProcessBuffer(Gathered, Decode(bytes)))
    /\ body' = body \o bytes
    /\ torn' = (torn \/ bytes[Len(bytes)] = First)
    /\ UNCHANGED <<over, broken, taken>>

\* poll_next finds the end of the body: what is left is the last line.
BodyEnds ==
    /\ pending = <<>> /\ ~over /\ over' = TRUE
    /\ Gather(ProcessLine(Gathered, TrimEnd(buffer)))
    /\ UNCHANGED <<broken, body, torn, taken>>

\* poll_next yields the error of the body.
ReadFails ==
    /\ pending = <<>> /\ ~over /\ ~broken /\ broken' = TRUE
    /\ UNCHANGED <<buffer, pending, lastEventId, over, body, torn, taken>>

\* poll_next yields a line.
TakeLine ==
    /\ pending # <<>> /\ pending' = Tail(pending)
    /\ taken' = Append(taken, Head(pending))
    /\ UNCHANGED <<buffer, lastEventId, over, broken, body, torn>>

\* poll_next has nothing more to yield.
NothingLeft == pending = <<>> /\ over

\* The chunks that may come next.
Chunks ==
    {bytes \in UNION {[1..n -> Bytes] : n \in 1..(MaxBytes - Len(body))} :
        Utf8(body \o bytes)}

-----------------------------------------------------------------------------
(* What the lines are, by the places of the line feeds in a text.          *)

Feeds(text) == {i \in DOMAIN text : text[i] = LF}

\* Where the line starts that ends at place e.
Start(text, e) == 1 + Max({0} \cup {i \in Feeds(text) : i < e})

LineAt(text, e) == TrimEnd(SubSeq(text, Start(text, e), e - 1))

\* The places where a line of content ends, and where an id does.
Content(text) == {e \in Feeds(text) : IsContent(LineAt(text, e))}
Ids(text) == {e \in Feeds(text) : IsId(LineAt(text, e))}

\* Which line of content ends at place e.
Rank(text, e) == Cardinality({d \in Content(text) : d <= e})

LastIdOf(text) ==
    IF Ids(text) = {} THEN <<>> ELSE Tail(LineAt(text, Max(Ids(text))))

\* What has come, as one text.  The end of the body ends its last line.
ReadText == IF over THEN Append(body, LF) ELSE body
=============================================================================

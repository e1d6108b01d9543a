----------------------------- MODULE StreamManager -----------------------------
(***************************************************************************)
(* The stream manager of one model response: it decides what of each text  *)
(* delta the client is sent and what goes into the memory of the session.  *)
(*                                                                         *)
(* The text alternates prose and blocks, one JSON object per line.  Of a   *)
(* character only its place in the response and its kind matter: "open"    *)
(* is '{', "nl" the line feed, "other" any other text.  A line is taken to *)
(* parse iff it is one "open" and then "other" text.                       *)
(***************************************************************************)
EXTENDS Naturals, Sequences, SequencesExt

CONSTANT MaxBuffer      \* max_buffer_chars (500)

ASSUME BufferAssumption == MaxBuffer \in Nat

Kind == {"open", "nl", "other"}
None == "none"

IsAt(q, i, kind) ==
    /\ i \in DOMAIN q
    /\ q[i].kind = kind
    /\ \A j \in 1 .. i - 1 : q[j].kind # kind

Has(q, kind) == \E i \in DOMAIN q : q[i].kind = kind

\* str.split(kind, 1): what is before and what is after the first one.
SplitAt(q, kind) == CHOOSE i \in DOMAIN q : IsAt(q, i, kind)
Before(q, kind)  == SubSeq(q, 1, SplitAt(q, kind) - 1)
After(q, kind)   == SubSeq(q, SplitAt(q, kind) + 1, Len(q))
From(q, kind)    == SubSeq(q, SplitAt(q, kind), Len(q))

Parses(line) ==
    /\ Len(line) > 1
    /\ line[1].kind = "open"
    /\ \A i \in 2 .. Len(line) : line[i].kind = "other"

NewManager ==
    [state |-> None, tool |-> FALSE, buffer |-> <<>>, parsing_block |-> FALSE,
     current_message |-> <<>>, content_items |-> <<>>, sequence_counter |-> 0]
-------------------------------------------------------------------------------
\* Save adds a content item; an empty text makes none.
Save(s, payload) ==
    [s EXCEPT !.content_items = IF payload = <<>> THEN @ ELSE Append(@, payload)]

\* A StreamParsingResponse: the manager after it and at most one StreamItem.
Answer(s, payload) ==
    [manager |-> [s EXCEPT !.sequence_counter = @ + 1],
     block   |-> <<[sequence_number |-> s.sequence_counter, payload |-> payload]>>]

Empty(s) == [manager |-> s, block |-> <<>>]

\* Faulty variant: what was flushed stays in the buffer.
FlushBufferFault(s) ==
    Answer([Save(s, s.buffer) EXCEPT !.parsing_block = FALSE], s.buffer)

\* A. The buffer is too long without a line end: it becomes text.  The delta
\* that found it so is not looked at.
FlushBuffer(s) ==
    Answer([Save(s, s.buffer) EXCEPT !.buffer = <<>>, !.parsing_block = FALSE],
           s.buffer)

\* Faulty variant: a line that does not parse is sent as text.
EndBlockFault(s, line, rest) ==
    LET t == [s EXCEPT !.buffer = <<>>, !.parsing_block = FALSE,
                       !.current_message = @ \o rest]
    IN  Answer(Save(t, line), line)

\* C. The line is complete.  What follows it goes to the memory alone.
EndBlock(s, line, rest) ==
    LET t == [s EXCEPT !.buffer = <<>>, !.parsing_block = FALSE,
                       !.current_message = @ \o rest]
    IN  IF Parses(line) THEN Answer(Save(t, line), line) ELSE Empty(t)

Buffer(s, buffer) ==
    IF Has(buffer, "nl")
    THEN EndBlock(s, Before(buffer, "nl"), After(buffer, "nl"))
    ELSE Empty([s EXCEPT !.buffer = buffer])

\* Faulty variant: the message before the block stays the current one.
KeepMessageFault(s) == Save(s, s.current_message)

KeepMessage(s) == [Save(s, s.current_message) EXCEPT !.current_message = <<>>]

\* B. A block begins.  Text before it in the same delta is sent and saved; the
\* current message is then cleared without having been saved.
BeginBlock(s, delta) ==
    LET t == [s EXCEPT !.parsing_block = TRUE]
        prefix == Before(delta, "open")
        post == From(delta, "open")
    IN  IF prefix = <<>>
        THEN Buffer(KeepMessage(t), post)
        ELSE Answer([Save(t, prefix) EXCEPT !.buffer = post, !.current_message = <<>>],
                    prefix)

\* D. Prose goes to the client as it comes.
PassThrough(s, delta) ==
    Answer([s EXCEPT !.current_message = @ \o delta], delta)

AddDelta(s, delta) ==
    IF Len(s.buffer) > MaxBuffer THEN FlushBuffer(s)
    ELSE IF s.parsing_block THEN Buffer(s, s.buffer \o delta)
    ELSE IF Has(delta, "open") THEN BeginBlock(s, delta)
    ELSE PassThrough(s, delta)

\* str.strip, line feeds being the white space.
Strip(q) ==
    LET solid == {i \in DOMAIN q : q[i].kind # "nl"}
    IN  IF solid = {} THEN <<>> ELSE SubSeq(q, Min(solid), Max(solid))

\* _finalise_memory and get_agent_memory: the content of the memory.
AgentMemory(s) ==
    Save(s, Strip(s.buffer) \o Strip(s.current_message)).content_items
===============================================================================

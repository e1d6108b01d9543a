------------------------------- MODULE AgentChat -------------------------------
(***************************************************************************)
(* agent_chat from the opening of the model's response stream to the       *)
(* memory it leaves: the loop over the stream's events, the tool calls and *)
(* the recursive calls they lead to.  Each call (each depth) has a stream  *)
(* manager of its own.  Whose session this is, is modelled in UserData;    *)
(* the names are apart from those there.                                   *)
(***************************************************************************)
EXTENDS StreamManager

CONSTANTS
    RecursionLimit,     \* _RECURSION_LIMIT
    MaxText,            \* bound: characters of all responses
    MaxDelta,           \* bound: characters of a delta
    MaxItems            \* bound: output items of all responses

ASSUME ChatAssumption ==
    RecursionLimit \in Nat /\ MaxText \in Nat /\ MaxDelta \in Nat /\ MaxItems \in Nat

VARIABLES
    phase,      \* "stream", "tool" (a tool runs), "done" or "raised"
    depth,      \* recursion_depth
    manager,    \* the StreamManager of this depth
    item,       \* the type of the output item the model is writing, or None
    items,      \* output items so far
    text,       \* auxiliary: the text of the deltas so far, of all depths
    begin,      \* auxiliary: the length of text when this depth began
    cuts,       \* auxiliary: what at this depth was cut where the manager loses text
    sent,       \* the messages published for the client
    memory      \* the content of the agent memory, once inserted

answerVars == <<phase, depth, manager, item, items, text, begin, cuts, sent, memory>>

ItemType == {"message", "function_call", "reasoning"}
Char == [at : 1 .. MaxText, kind : Kind]

Manager ==
    [state : {None, "message", "tool"}, tool : BOOLEAN, buffer : Seq(Char),
     parsing_block : BOOLEAN, current_message : Seq(Char),
     content_items : Seq(Seq(Char)), sequence_counter : Nat]

Message ==
    [type : {"start", "end", "tool"}, depth : 0 .. RecursionLimit]
    \cup [type : {"response"}, depth : 0 .. RecursionLimit,
          block : [sequence_number : Nat, payload : Seq(Char)]]

AnswerTypeOK ==
    /\ phase \in {"stream", "tool", "done", "raised"}
    /\ depth \in 0 .. RecursionLimit
    /\ manager \in Manager
    /\ item \in ItemType \cup {None}
    /\ items \in 0 .. MaxItems
    /\ text \in Seq(Char)
    /\ begin \in 0 .. Len(text)
    /\ cuts \subseteq {"overflow", "tail", "prefix"}
    /\ sent \in Seq(Message)
    /\ memory \in Seq(Seq(Char))

AnswerInit ==
    /\ phase = "stream"
    /\ depth = 0
    /\ manager = NewManager
    /\ item = None
    /\ items = 0
    /\ text = <<>>
    /\ begin = 0
    /\ cuts = {}
    /\ sent = <<>>
    /\ memory = <<>>
-------------------------------------------------------------------------------
Publish(type) == sent' = Append(sent, [type |-> type, depth |-> depth])

\* The items of a response come one after the other.
ItemAdded(type) ==
    /\ phase = "stream"
    /\ item = None
    /\ items < MaxItems
    /\ item' = type
    /\ items' = items + 1
    /\ \/ /\ type = "function_call"
          /\ manager' = [manager EXCEPT !.state = "tool"]
          /\ UNCHANGED sent
       \/ /\ type = "message"
          /\ manager' = [manager EXCEPT !.state = "message"]
          /\ Publish("start")
       \/ /\ type = "reasoning"
          /\ UNCHANGED <<manager, sent>>
    /\ UNCHANGED <<phase, depth, text, begin, cuts, memory>>

\* What the next delta is: the characters that follow the text so far.
Delta(kinds) == [i \in DOMAIN kinds |-> [at |-> Len(text) + i, kind |-> kinds[i]]]

\* Auxiliary: where a delta is cut so that the manager loses some of the text.
CutsOf(s, delta) ==
    LET overflow == Len(s.buffer) > MaxBuffer
        starts == ~s.parsing_block /\ Has(delta, "open")
        prefix == starts /\ Before(delta, "open") # <<>>
        block == s.buffer \o (IF starts THEN From(delta, "open") ELSE delta)
    IN  {c \in {"overflow", "tail", "prefix"} :
            \/ c = "overflow" /\ overflow
            \/ /\ c = "tail" /\ ~overflow /\ Has(block, "nl")
               /\ \/ s.parsing_block /\ After(block, "nl") # <<>>
                  \/ starts /\ (prefix \/ After(block, "nl") # <<>>)
            \/ c = "prefix" /\ ~overflow /\ prefix /\ s.current_message # <<>>}

TextDelta(kinds) ==
    LET delta  == Delta(kinds)
        answer == AddDelta(manager, delta)
    IN  /\ phase = "stream" /\ item = "message"
        /\ manager.state = "message"
        /\ Len(text) + Len(kinds) <= MaxText
        /\ manager' = answer.manager
        /\ sent' = sent \o [i \in DOMAIN answer.block |->
                        [type |-> "response", depth |-> depth, block |-> answer.block[i]]]
        /\ text' = text \o delta
        /\ cuts' = cuts \cup CutsOf(manager, delta)
        /\ UNCHANGED <<phase, depth, item, items, begin, memory>>

\* The end of any item ends the message, if a message was the latest to begin.
ItemDone ==
    /\ phase = "stream"
    /\ item # None
    /\ item' = None
    /\ \/ /\ manager.state = "tool"
          /\ manager' = [manager EXCEPT !.tool = (item = "function_call") \/ @]
          /\ UNCHANGED sent
       \/ /\ manager.state = "message"
          /\ Publish("end")
          /\ UNCHANGED manager
       \/ /\ manager.state = None
          /\ UNCHANGED <<manager, sent>>
    /\ UNCHANGED <<phase, depth, items, text, begin, cuts, memory>>

\* The stream breaks off, an event cannot be handled, or the task is cancelled.
StreamFails ==
    /\ phase = "stream"
    /\ phase' = "raised"
    /\ UNCHANGED <<depth, manager, item, items, text, begin, cuts, sent, memory>>

\* The stream ends in a tool call: the tool runs, and tells the client so unless
\* it is unknown or fails before.
CallTool ==
    /\ phase = "stream"
    /\ item = None
    /\ manager.state = "tool" /\ manager.tool
    /\ phase' = "tool"
    /\ Publish("tool") \/ UNCHANGED sent
    /\ UNCHANGED <<depth, manager, item, items, text, begin, cuts, memory>>

\* Faulty variant: the limit is not looked at.
CallAgainFault ==
    /\ phase = "tool"
    /\ phase' = "stream" /\ depth' = depth + 1
    /\ manager' = NewManager /\ begin' = Len(text) /\ cuts' = {}
    /\ UNCHANGED <<item, items, text, sent, memory>>

\* agent_chat calls itself with the tool's response.
CallAgain ==
    /\ phase = "tool"
    /\ IF depth = RecursionLimit
       THEN /\ phase' = "raised"
            /\ UNCHANGED <<depth, manager, begin, cuts>>
       ELSE /\ phase' = "stream"
            /\ depth' = depth + 1
            /\ manager' = NewManager
            /\ begin' = Len(text)
            /\ cuts' = {}
    /\ UNCHANGED <<item, items, text, sent, memory>>

\* Faulty variant: only the finished content items are remembered.
FinishFault ==
    /\ phase = "stream" /\ item = None
    /\ ~(manager.state = "tool" /\ manager.tool)
    /\ memory' = manager.content_items
    /\ phase' = "done" /\ manager' = NewManager
    /\ UNCHANGED <<depth, item, items, text, begin, cuts, sent>>

\* The stream ends otherwise: the answer is remembered (even an empty one).
Finish ==
    /\ phase = "stream"
    /\ item = None
    /\ ~(manager.state = "tool" /\ manager.tool)
    /\ memory' = AgentMemory(manager)
    /\ phase' = "done"
    /\ manager' = NewManager
    /\ UNCHANGED <<depth, item, items, text, begin, cuts, sent>>

AnswerNext ==
    \/ \E type \in ItemType : ItemAdded(type)
    \/ \E n \in 1 .. MaxDelta : \E kinds \in [1 .. n -> Kind] : TextDelta(kinds)
    \/ ItemDone
    \/ StreamFails
    \/ CallTool
    \/ CallAgain
    \/ Finish

AnswerSpec == AnswerInit /\ [][AnswerNext]_answerVars
-------------------------------------------------------------------------------
Responses == {i \in DOMAIN sent : sent[i].type = "response"}

\* What the client has been sent, piece by piece.
Shown == [i \in Responses |-> sent[i].block.payload]

\* What of this depth is or will be remembered, piece by piece.
Remembered ==
    IF phase = "done" THEN memory
    ELSE manager.content_items \o <<manager.buffer, manager.current_message>>

\* Do the pieces, one after the other, take the characters in the order of the text?
InTextOrder(pieces) ==
    /\ \A i \in DOMAIN pieces : \A x, y \in DOMAIN pieces[i] :
            x < y => pieces[i][x].at < pieces[i][y].at
    /\ \A i, j \in DOMAIN pieces : i < j =>
            \A x \in DOMAIN pieces[i], y \in DOMAIN pieces[j] : pieces[i][x].at < pieces[j][y].at

(***************************************************************************)
(* Whatever the deltas are and however often the chat recurses, the client *)
(* is sent no character twice or out of order, and the pieces of each      *)
(* response are numbered from zero without a gap.                          *)
(***************************************************************************)
ShownOnceInOrder ==
    /\ InTextOrder(Shown)
    /\ \A i \in Responses :
            sent[i].block.sequence_number =
                Cardinality({j \in Responses : j < i /\ sent[j].depth = sent[i].depth})

(***************************************************************************)
(* The memory of an answer has no character twice or out of order and none *)
(* of an earlier depth, although it is put together from three buffers.    *)
(***************************************************************************)
RememberedOnceInOrder ==
    /\ InTextOrder(Remembered)
    /\ \A i \in DOMAIN Remembered : \A x \in DOMAIN Remembered[i] : Remembered[i][x].at > begin

(***************************************************************************)
(* Reference: what is a block, in a text t of which this depth's begins    *)
(* after place b?  A block runs from a '{' to the end of the line, the     *)
(* line feed included.                                                     *)
(***************************************************************************)
InBlock(t, b, i) ==
    \E j \in b + 1 .. i : t[j].kind = "open" /\ \A k \in j .. i - 1 : t[k].kind # "nl"

\* No block goes on at i, so that a '{' there begins one.
Fresh(t, b, i) == ~InBlock(t, b, i - 1) \/ t[i - 1].kind = "nl"

\* Does a block begin at i, and its line end at j?
BlockLine(t, b, i, j) ==
    /\ InBlock(t, b, i) /\ Fresh(t, b, i)
    /\ t[j].kind = "nl" /\ \A k \in i .. j - 1 : t[k].kind # "nl"

\* The prose and the complete blocks that parse, as places in the text.
Prose(t, b) == {i \in b + 1 .. Len(t) : ~InBlock(t, b, i)}
GoodBlocks(t, b) ==
    {k \in b + 1 .. Len(t) :
        \E i \in b + 1 .. k, j \in k + 1 .. Len(t) :
            BlockLine(t, b, i, j) /\ Parses(SubSeq(t, i, j - 1))}

\* The block whose line has not ended.
OpenBlock(t, b) ==
    {i \in b + 1 .. Len(t) :
        InBlock(t, b, i) /\ \A j \in i .. Len(t) : t[j].kind # "nl"}

Places(pieces) == UNION {{pieces[i][x].at : x \in DOMAIN pieces[i]} : i \in DOMAIN pieces}

\* What the client has been sent of this depth.
ShownNow == [i \in {j \in Responses : sent[j].depth = depth} |-> Shown[i]]

(***************************************************************************)
(* However the model cuts its text into deltas - unless the buffer         *)
(* overflows or a delta goes on after the line of a block - the client has *)
(* been sent exactly the prose and the blocks that parse, each at once     *)
(* when it is complete: no token chunk is dropped.                         *)
(***************************************************************************)
ShownExactly ==
    cuts \cap {"overflow", "tail"} = {} =>
        Places(ShownNow) = Prose(text, begin) \cup GoodBlocks(text, begin)

(***************************************************************************)
(* If the text is not cut before a '{' either, the answer that has ended   *)
(* is remembered in full: what the client was sent and the block that was  *)
(* left open.  Line feeds are white space.                                 *)
(***************************************************************************)
RememberedExactly ==
    phase = "done" /\ cuts = {}
        => LET solid(S) == {i \in S : text[i].kind # "nl"}
           IN  solid(Places(Remembered)) = solid(Prose(text, begin)
                    \cup GoodBlocks(text, begin) \cup OpenBlock(text, begin))
===============================================================================

------------------------------ MODULE Translator ------------------------------
(***************************************************************************)
(* suanpan/compat.py: the conversions between Anthropic Messages and       *)
(* OpenAI Chat Completions, as operators: a request's conversation on its  *)
(* way out, and the streamed answer on its way back.                       *)
(*                                                                         *)
(* A content block is a record with a kind; a tool call and its result     *)
(* share an id.  Text is not looked into.  The translator of a stream is a *)
(* record, and an operator that emits events appends them to its out.      *)
(***************************************************************************)
EXTENDS Integers, SequencesExt

CONSTANT ToolIndexes  \* the indexes OpenAI gives the tool calls of an answer

-----------------------------------------------------------------------------
(* Requests: system, user and assistant messages.                          *)

\* A content block; a call and its result name each other by an id.
Block ==
    [kind : {"text", "image", "document", "thinking"}]
    \cup [kind : {"call", "result"}, id : STRING]
AnthropicMessage == [role : {"user", "assistant"}, blocks : Seq(Block)]

Kept(blocks, kinds) ==
    FoldLeft(LAMBDA kept, b : IF b.kind \in kinds THEN Append(kept, b) ELSE kept,
             <<>>, blocks)

\* Mutant of UserMessages: the text goes first.
MutantTextFirst(blocks) ==
    LET results == Kept(blocks, {"result"})
        rest    == Kept(blocks, {"text", "image"})
    IN  (IF rest = <<>> THEN <<>> ELSE <<[role |-> "user", parts |-> rest]>>)
        \o [i \in DOMAIN results |-> [role |-> "tool", id |-> results[i].id]]

\* Results first, each a message of its own; the rest is one user message.
UserMessages(blocks) ==
    LET results == Kept(blocks, {"result"})
        rest    == Kept(blocks, {"text", "image"})
    IN  [i \in DOMAIN results |-> [role |-> "tool", id |-> results[i].id]]
        \o IF rest = <<>> THEN <<>> ELSE <<[role |-> "user", parts |-> rest]>>

\* Text and calls make one message; thinking is dropped.
AssistantMessages(blocks) ==
    <<[role |-> "assistant", parts |-> Kept(blocks, {"text"}),
       calls |-> [i \in DOMAIN Kept(blocks, {"call"}) |-> Kept(blocks, {"call"})[i].id]]>>

OneToOpenAI(m) ==
    IF m.role = "assistant" THEN AssistantMessages(m.blocks) ELSE UserMessages(m.blocks)

ToOpenAI(system, messages) ==
    FoldLeft(LAMBDA out, m : out \o OneToOpenAI(m),
             IF system THEN <<[role |-> "system"]>> ELSE <<>>, messages)

\* normalize_body: a backend that is not natively Anthropic gets no document
\* block, and no empty content either.
Normalized(native, messages) ==
    LET kept(m) == SelectSeq(m.blocks, LAMBDA b : b.kind # "document")
        one(m)  == IF kept(m) = m.blocks THEN m
                   ELSE [m EXCEPT !.blocks =
                            IF kept(m) = <<>> THEN <<[kind |-> "text"]>> ELSE kept(m)]
    IN  IF native THEN messages
        ELSE [i \in DOMAIN messages |-> one(messages[i])]

-----------------------------------------------------------------------------
(* The streamed answer.                                                    *)

NoBlock == -1

\* A data: line of the stream; [DONE] is a line that reports nothing.  A finish
\* reason is whatever the upstream says.
Finishes == STRING \cup {"none"}
ToolCall == [index : ToolIndexes, args : BOOLEAN]
Line ==
    {l \in [kind : {"choice", "usage", "error", "done"}, text : BOOLEAN,
            tools : Seq(ToolCall), finish : Finishes, usage : Nat] :
        l.kind = "done" => l.usage = 0}

NewTranslator ==
    [started |-> FALSE, index |-> NoBlock, open |-> "none",
     toolBlock |-> [i \in ToolIndexes |-> NoBlock],
     finish |-> "none", usage |-> 0, done |-> FALSE, out |-> <<>>]

Emit(t, e) == [t EXCEPT !.out = Append(@, e)]

MessageStart(t) ==
    IF t.started THEN t
    ELSE [Emit(t, [type |-> "message_start"]) EXCEPT !.started = TRUE]

CloseBlock(t) ==
    IF t.open = "none" THEN t
    ELSE [Emit(t, [type |-> "stop", index |-> t.index]) EXCEPT !.open = "none"]

\* Mutant of OpenBlock: the block that is open is left open.
MutantOpenOver(t, type) ==
    [Emit(t, [type |-> "start", index |-> t.index + 1])
        EXCEPT !.index = @ + 1, !.open = type]

OpenBlock(t, type) ==
    LET c == CloseBlock(t)
    IN  [Emit(c, [type |-> "start", index |-> c.index + 1])
            EXCEPT !.index = @ + 1, !.open = type]

TextDelta(t) ==
    LET b == IF t.open = "text" THEN t ELSE OpenBlock(t, "text")
    IN  Emit(b, [type |-> "delta", index |-> b.index])

\* A tool call opens its block once; its later arguments go to that block.
ToolDelta(t, call) ==
    LET b == IF t.toolBlock[call.index] # NoBlock THEN t
             ELSE [OpenBlock(t, "tool") EXCEPT !.toolBlock[call.index] = t.index + 1]
    IN  IF call.args
        THEN Emit(b, [type |-> "delta", index |-> b.toolBlock[call.index]])
        ELSE b

FinishToStop ==
    [stop |-> "end_turn", length |-> "max_tokens", tool_calls |-> "tool_use",
     function_call |-> "tool_use", content_filter |-> "refusal"]
StopReason(finish) ==
    IF finish \in DOMAIN FinishToStop THEN FinishToStop[finish] ELSE "end_turn"

Close(t) ==
    LET b == CloseBlock(MessageStart(t))
        d == Emit(b, [type |-> "message_delta", reason |-> StopReason(t.finish),
                      usage |-> t.usage])
    IN  [Emit(d, [type |-> "message_stop"]) EXCEPT !.done = TRUE]

Choice(t, chunk) ==
    LET f == IF chunk.finish = "none" THEN t ELSE [t EXCEPT !.finish = chunk.finish]
        s == MessageStart(f)
        x == IF chunk.text THEN TextDelta(s) ELSE s
    IN  FoldLeft(ToolDelta, x, chunk.tools)

\* One data: line.  An error ends the translation, for the pieces to come.
OnChunk(t, chunk) ==
    LET u == IF chunk.usage = 0 THEN t ELSE [t EXCEPT !.usage = chunk.usage]
    IN  CASE chunk.kind = "error"  -> [Emit(t, [type |-> "error"]) EXCEPT !.done = TRUE]
          [] chunk.kind = "choice" -> Choice(u, chunk)
          [] OTHER                 -> u        \* no choices: usage at most

\* A piece of the stream brings some lines; what follows [DONE] is not read.
UpToDone(lines) ==
    LET d == SelectInSeq(lines, LAMBDA l : l.kind = "done")
    IN  IF d = 0 THEN lines ELSE SubSeq(lines, 1, d)

\* feed and finish; out holds what this call alone emits.  feed looks at done
\* before the piece, not between its lines.
Feed(t, lines) ==
    LET q == [t EXCEPT !.out = <<>>]
        one(u, l) == IF l.kind = "done" THEN Close(u) ELSE OnChunk(u, l)
    IN  IF t.done THEN q ELSE FoldLeft(one, q, UpToDone(lines))

Finish(t) == LET q == [t EXCEPT !.out = <<>>] IN IF t.done THEN q ELSE Close(q)
=============================================================================

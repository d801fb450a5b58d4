------------------------------ MODULE MCGateway ------------------------------
(* Gateway with four providers and the requests that tell its branches apart. *)
EXTENDS Gateway

MCConfig ==
    [ant |-> [enabled |-> TRUE,  protocol |-> "anthropic", native |-> FALSE, responses |-> FALSE],
     oai |-> [enabled |-> TRUE,  protocol |-> "openai",    native |-> FALSE, responses |-> TRUE],
     off |-> [enabled |-> FALSE, protocol |-> "anthropic", native |-> TRUE,  responses |-> FALSE]]
MCRules == <<[models |-> {"opus"}, to |-> "off"], [models |-> {"opus", "gpt"}, to |-> "oai"]>>

text   == [kind |-> "text"]
image  == [kind |-> "image"]
pdf    == [kind |-> "document"]
call(i)   == [kind |-> "call", id |-> i]
result(i) == [kind |-> "result", id |-> i]
Turn(role, blocks) == [role |-> role, blocks |-> blocks]

\* Conversations in which every call is answered by the next user message.
MCConversations ==
    {<<Turn("user", <<pdf>>), Turn("assistant", a.calls), Turn("user", a.answers)>> :
        a \in {[calls |-> <<text>>, answers |-> <<text, image>>],
               [calls |-> <<text, call("a")>>, answers |-> <<text, result("a")>>],
               [calls |-> <<call("a"), text, call("b")>>, answers |-> <<result("b"), image, result("a")>>]}}
Plain == <<Turn("user", <<text>>)>>

Request(path, inline, marker, model, messages) ==
    [path |-> path, size |-> "small", key |-> TRUE, json |-> "object", system |-> TRUE,
     idem |-> FALSE, stream |-> FALSE, inline |-> inline, marker |-> marker,
     model |-> model, messages |-> messages]

Names == {"ant", "oai", "off", "ghost", "nobody"}
Paths == {"messages", "count", "chat", "responses"}
MCRequests ==
    {Request(p, i, m, o, Plain) :
        p \in Paths, i \in Names, m \in Names, o \in {"opus", "other"}}
    \cup {Request("messages", i, "nobody", "gpt", c) : i \in {"ant", "oai"}, c \in MCConversations}
    \cup {[Request(p, "oai", "nobody", "gpt", Plain) EXCEPT !.idem = TRUE] : p \in Paths}
    \cup {[Request("messages", "oai", "nobody", "gpt", Plain) EXCEPT !.stream = TRUE]}
    \cup {[Request(p, "ant", "nobody", "gpt", Plain) EXCEPT !.size = z, !.key = k, !.json = j] :
             p \in Paths \cup {"health", "models"}, k \in BOOLEAN, j \in {"object", "array", "bad"},
             z \in {"small", "large", "badlength", "chunkedlarge"}}

Chunk(kind, hasText, tools, finish, tokens) ==
    [kind |-> kind, text |-> hasText, tools |-> tools, finish |-> finish, usage |-> tokens]
Call(i, args) == [index |-> i, args |-> args]
MCLines ==
    {Chunk("choice", TRUE, <<>>, "none", 0),
     Chunk("choice", FALSE, <<Call(0, FALSE)>>, "none", 0),
     Chunk("choice", FALSE, <<Call(1, TRUE), Call(0, TRUE)>>, "none", 0),
     Chunk("choice", TRUE, <<Call(0, TRUE)>>, "tool_calls", 0),
     Chunk("choice", FALSE, <<>>, "stop", 1),
     Chunk("usage", FALSE, <<>>, "none", 2),
     Chunk("error", FALSE, <<>>, "none", 0),
     Chunk("done", FALSE, <<>>, "none", 0)}
MCChunks ==
    {<<l>> : l \in MCLines}
    \cup {<<Chunk("error", FALSE, <<>>, "none", 0), l>> :
              l \in {m \in MCLines : m.text \/ m.kind = "done"}}
    \cup {<<Chunk("choice", TRUE, <<>>, "stop", 2), Chunk("done", FALSE, <<>>, "none", 0)>>}
=============================================================================

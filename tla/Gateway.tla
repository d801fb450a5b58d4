------------------------------- MODULE Gateway -------------------------------
(***************************************************************************)
(* suanpan/: one request through the gateway, from the middleware to the   *)
(* last byte of its answer (main.py, middleware.py, router.py, proxy.py,   *)
(* usage_extractor.py, usage_log.py), with the conversions of Translator.  *)
(*                                                                         *)
(* Handlers share nothing but the connection pool and the usage log, whose *)
(* write is under a lock, so requests are checked one at a time; what      *)
(* interleaves with the handler is the upstream, which fails at any step,  *)
(* and the client, which leaves at any byte, or neither leaves nor goes    *)
(* on: no timeout bounds the wait for it.  httpx and Starlette are         *)
(* external: a stream that is cancelled runs the generator's finally, and  *)
(* one whose generator was never started runs nothing.                     *)
(***************************************************************************)
EXTENDS Translator

CONSTANTS
    Config,      \* the providers: [name -> [enabled, protocol, native, responses]]
    Rules,       \* a sequence of [models : the models it matches, to : provider]
    Default,     \* the default provider, or NoName
    NoName,      \* no provider named
    GateKey,     \* an API key is configured for the gateway itself
    Requests,    \* the requests a client may send
    Chunks,      \* the pieces of an OpenAI stream, each a sequence of lines
    Pieces,      \* tokens reported by a piece of an untranslated stream
    MaxChunks    \* BOUND: pieces of one stream

Huge == -1       \* a piece beyond _MAX_EVENT_BYTES or _MAX_JSON_DOC_BYTES

ASSUME GatewayAssumption ==
    /\ NoName \notin DOMAIN Config /\ Default \in DOMAIN Config \cup {NoName}
    /\ DOMAIN Rules \subseteq Nat
    /\ \A i \in DOMAIN Rules : Rules[i].to \in DOMAIN Config
    /\ MaxChunks \in Nat
    /\ Pieces \subseteq Nat
    /\ Chunks \subseteq Seq(Line)

VARIABLES
    req,       \* the request: path, size, key, json, model, inline, marker, ...
    phase,     \* where the handler is
    route,     \* RouteDecision, or NoRoute
    sent,      \* the conversation last sent upstream
    attempt,   \* _send_with_retry's counter
    upstream,  \* the upstream's response: none, open, closed
    ctype,     \* its content type and body: sse, json, html
    code,      \* its status
    tr,        \* the translator, when the lane has one
    usage,     \* the extractor's count
    cut,       \* the extractor's truncated
    answer,    \* what the client got: status, announced
    heard,     \* the events of a translated stream the client got
    records,   \* the usage entries logged
    failures,  \* the log's write_failures
    waits,     \* the client is waited for: for the rest of its body, or to take
               \* what it was sent
    \* history
    worked,    \* times the upstream did the work
    reported,  \* the usage the upstream put on the stream: the largest, or the
               \* last of a translated one
    ending,    \* how the stream ended
    pieces     \* pieces of the stream so far

handler == <<req, route, sent, attempt, answer>>
reply   == <<upstream, ctype, code>>
body    == <<tr, usage, cut, heard, reported, ending, pieces>>
stream  == <<body, waits>>
log     == <<records, failures>>
vars == <<handler, phase, reply, stream, log, worked>>

-----------------------------------------------------------------------------

Phases  == {"middleware", "parse", "lane", "send", "read", "stream", "tail", "done"}
NoRoute == [provider |-> NoName, scenario |-> "none", strip |-> FALSE, from |-> NoName]
NoAnswer == [status |-> 0, announced |-> FALSE]

Init ==
    /\ req \in Requests
    /\ phase = "middleware"
    /\ route = NoRoute /\ sent = <<>> /\ attempt = 0
    /\ upstream = "none" /\ ctype = "none" /\ code = 0
    /\ tr = NewTranslator /\ usage = 0 /\ cut = FALSE /\ heard = <<>>
    /\ answer = NoAnswer
    /\ records = <<>> /\ failures = 0 /\ waits = FALSE
    /\ worked = 0 /\ reported = 0 /\ ending = "none" /\ pieces = 0

TypeOK ==
    /\ req \in Requests /\ phase \in Phases
    /\ route.provider \in DOMAIN Config \cup {NoName}
    /\ attempt \in 0 .. 2 /\ worked \in 0 .. 2
    /\ upstream \in {"none", "open", "closed"}
    /\ ctype \in {"none", "sse", "json", "html"}
    /\ code \in {0, 200, 400, 500}
    /\ answer.status \in {0, 200, 400, 401, 413, 500, 502}
    /\ {answer.announced, cut, waits} \subseteq BOOLEAN
    /\ {usage, reported, failures} \subseteq Nat
    /\ pieces \in 0 .. MaxChunks
    /\ ending \in {"none", "whole", "broken", "left", "unstarted"}

\* The answer, and the end of the request unless a body follows.
Answer(status, announced) ==
    answer' = [status |-> status, announced |-> announced]
Refuse(status) ==
    /\ Answer(status, FALSE) /\ phase' = "done"
    /\ UNCHANGED <<req, route, sent, attempt, reply, stream, log, worked>>

-----------------------------------------------------------------------------
(* Middleware: the body limit is outermost, then the gateway's own key.    *)

Middleware ==
    /\ phase = "middleware"
    /\ \/ req.size = "badlength" /\ Refuse(400)
       \/ req.size = "large" /\ Refuse(413)
       \/ /\ req.size \in {"small", "chunkedlarge"}
          /\ GateKey /\ ~req.key /\ req.path # "health"
          /\ Refuse(401)
       \/ /\ req.size \in {"small", "chunkedlarge"}
          /\ ~GateKey \/ req.key \/ req.path = "health"
          /\ \/ req.path \in {"health", "models"} /\ Refuse(200)
             \/ /\ req.path \notin {"health", "models"}
                /\ phase' = "parse" /\ waits' \in BOOLEAN
                /\ UNCHANGED <<handler, reply, body, log, worked>>

-----------------------------------------------------------------------------
(* router.py.                                                              *)

Usable(name) == name \in DOMAIN Config /\ Config[name].enabled

RulesFor(model) ==
    {i \in DOMAIN Rules : model \in Rules[i].models /\ Usable(Rules[i].to)}

\* Mutant of DecideRoute: a rule's route forgets the intent it stands in for.
MutantForgetsIntent(r) ==
    LET from == IF r.inline # NoName THEN r.inline ELSE r.marker
        rules == RulesFor(r.model)
    IN  IF Usable(r.inline)
        THEN [provider |-> r.inline, scenario |-> "inline", strip |-> FALSE, from |-> NoName]
        ELSE IF Usable(r.marker)
        THEN [provider |-> r.marker, scenario |-> "subagent", strip |-> TRUE, from |-> NoName]
        ELSE IF rules # {}
        THEN [provider |-> Rules[Min(rules)].to, scenario |-> "rule", strip |-> FALSE, from |-> NoName]
        ELSE IF Usable(Default)
        THEN [provider |-> Default, scenario |-> "default", strip |-> FALSE, from |-> from]
        ELSE NoRoute

\* Inline override, SUBAGENT marker, first rule, default.  An intent that
\* names no usable provider is carried along to be announced.
DecideRoute(r) ==
    LET decision(name, scenario, strip, from) ==
            [provider |-> name, scenario |-> scenario, strip |-> strip, from |-> from]
        from == IF r.inline # NoName THEN r.inline ELSE r.marker
        rules == RulesFor(r.model)
    IN  IF Usable(r.inline) THEN decision(r.inline, "inline", FALSE, NoName)
        ELSE IF Usable(r.marker) THEN decision(r.marker, "subagent", TRUE, NoName)
        ELSE IF rules # {} THEN decision(Rules[Min(rules)].to, "rule", FALSE, from)
        ELSE IF Usable(Default) THEN decision(Default, "default", FALSE, from)
        ELSE NoRoute

\* A chunked body over the limit raises inside request.json(), whose handler
\* answers 400 for whatever is raised.  Only the OpenAI paths look whether the
\* body is an object; the others fail on it.
Parse ==
    /\ phase = "parse"
    /\ \/ (req.json = "bad" \/ req.size = "chunkedlarge") /\ Refuse(400)
       \/ /\ req.json = "array" /\ req.size = "small"
          /\ Refuse(IF req.path \in {"chat", "responses"} THEN 400 ELSE 500)
       \/ /\ req.json = "object" /\ req.size = "small"
          /\ DecideRoute(req) = NoRoute
          /\ Refuse(400)
       \/ /\ req.json = "object" /\ req.size = "small"
          /\ DecideRoute(req) # NoRoute
          /\ route' = DecideRoute(req) /\ phase' = "lane"
          /\ UNCHANGED <<req, sent, attempt, answer, reply, stream, log, worked>>

\* The client leaves while its body is read: request.json() raises.
BodyBroken ==
    /\ phase = "parse" /\ waits
    /\ waits' = FALSE /\ Answer(400, FALSE) /\ phase' = "done"
    /\ UNCHANGED <<req, route, sent, attempt, reply, body, log, worked>>

-----------------------------------------------------------------------------
(* The lanes: which body goes out, on which wire.                          *)

Provider   == Config[route.provider]
Translated ==
    req.path = "messages" /\ route # NoRoute /\ Provider.protocol = "openai"

\* The handlers' refusals before anything is sent.
WrongEndpoint ==
    \/ req.path = "chat" /\ Provider.protocol # "openai"
    \/ req.path = "responses" /\ ~Provider.responses
    \/ req.path = "count" /\ Provider.protocol = "openai"

\* The system text that is left once the marker that routed is stripped.
SystemLeft == req.system \/ (req.marker # NoName /\ ~route.strip)

Outgoing ==
    IF Translated THEN ToOpenAI(SystemLeft, req.messages)
    ELSE IF req.path \in {"messages", "count"} THEN Normalized(Provider.native, req.messages)
    ELSE req.messages

Lane ==
    /\ phase = "lane"
    /\ \/ WrongEndpoint /\ Refuse(400)
       \/ /\ ~WrongEndpoint
          /\ sent' = Outgoing /\ phase' = "send"
          /\ UNCHANGED <<req, route, attempt, answer, reply, stream, log, worked>>

-----------------------------------------------------------------------------
(* Sending.  An error is proven to come before the request left the        *)
(* machine, or it is ambiguous: the upstream may have worked or not.       *)

MaxRetries == 1
Idempotent == req.idem /\ req.path # "count"   \* count_tokens passes no key on

\* Mutant of ShouldRetry: any transport error of the first attempt is retried.
MutantRetryAll(error) == attempt < MaxRetries /\ error # "timeout"

ShouldRetry(error) ==
    /\ attempt < MaxRetries
    /\ \/ error = "presend"
       \/ error = "transport" /\ Idempotent

\* One entry, or a failure that is counted and swallowed.  count_tokens and the
\* handlers that raise never get here.
Write(status, tokens, error) ==
    \/ /\ records' = Append(records, [status |-> status, tokens |-> tokens, error |-> error])
       /\ UNCHANGED failures
    \/ /\ failures' = failures + 1
       /\ UNCHANGED records

\* Mutant of BadGateway: the failure is answered but not accounted.
MutantUnaccounted ==
    Answer(502, FALSE) /\ phase' = "done" /\ UNCHANGED log

\* make_502; the 502 of count_tokens leaves no entry.
BadGateway ==
    /\ Answer(502, FALSE) /\ phase' = "done"
    /\ IF req.path = "count" THEN UNCHANGED log ELSE Write(502, 0, TRUE)

SendFails ==
    /\ phase = "send"
    /\ \E error \in {"presend", "transport", "timeout"}, did \in {0, 1} :
        /\ error = "presend" => did = 0
        /\ worked' = worked + did
        /\ IF ShouldRetry(error)
           THEN attempt' = attempt + 1 /\ UNCHANGED <<phase, answer, log>>
           ELSE BadGateway /\ UNCHANGED attempt
    /\ UNCHANGED <<req, route, sent, reply, stream>>

\* 5xx: the response is closed and becomes a 502, on every lane but
\* count_tokens, which relays it.
SendAnswered ==
    /\ phase = "send"
    /\ \E s \in {200, 400, 500}, t \in {"sse", "json", "html"}, did \in {0, 1} :
        /\ s = 200 => did = 1
        /\ s = 400 => did = 0
        /\ code' = s /\ ctype' = t /\ worked' = worked + did
        /\ IF s = 500 /\ req.path # "count"
           THEN upstream' = "closed" /\ BadGateway
           ELSE /\ upstream' = "open"
                /\ phase' = IF req.path = "count" \/ (Translated /\ ~(t = "sse" /\ req.stream))
                            THEN "read" ELSE "stream"
                /\ answer' = IF phase' = "read" THEN answer
                             ELSE [status |-> s, announced |-> route.from # NoName]
                /\ UNCHANGED log
    /\ UNCHANGED <<req, route, sent, attempt, stream>>

-----------------------------------------------------------------------------
(* Answers read in full: count_tokens, and an untranslatable answer of the *)
(* translated lane.                                                        *)

\* Mutant of ReadFails: the response that broke off is not closed.
MutantReadLeaks ==
    /\ phase = "read" /\ upstream = "open"
    /\ BadGateway
    /\ UNCHANGED <<req, route, sent, attempt, reply, stream, worked>>

ReadFails ==
    /\ phase = "read" /\ upstream = "open"
    /\ upstream' = "closed" /\ BadGateway
    /\ UNCHANGED <<req, route, sent, attempt, ctype, code, stream, worked>>

\* A success that is not JSON has no choices to convert: the handler raises.
ReadDone ==
    /\ phase = "read" /\ upstream = "open"
    /\ \E tokens \in Pieces :
        /\ upstream' = "closed" /\ phase' = "done"
        /\ IF Translated /\ code = 200 /\ ctype # "json"
           THEN Answer(500, FALSE) /\ UNCHANGED log
           ELSE /\ Answer(code, route.from # NoName)
                /\ IF req.path = "count" THEN UNCHANGED log
                   ELSE Write(code, IF code = 200 THEN tokens ELSE 0, FALSE)
        /\ reported' = IF code = 200 /\ ctype = "json" THEN tokens ELSE 0
    /\ UNCHANGED <<req, route, sent, attempt, ctype, code, worked,
                   tr, usage, cut, heard, ending, pieces, waits>>

-----------------------------------------------------------------------------
(* Streams: drain_and_log.                                                 *)

\* UsageExtractor: the largest count wins; past a size limit it stops looking.
Larger(a, b) == IF a > b THEN a ELSE b
\* Mutant of Extract: the last count wins.
MutantLastWins(n) ==
    IF cut \/ n = Huge THEN cut' = TRUE /\ UNCHANGED usage
                       ELSE usage' = n /\ UNCHANGED cut

Extract(n) ==
    IF cut \/ n = Huge THEN /\ cut' = TRUE /\ UNCHANGED usage
                       ELSE /\ usage' = Larger(usage, n) /\ UNCHANGED cut

\* The usage that the events of a translated chunk carry.
Carried(events) ==
    FoldLeft(LAMBDA n, e : IF e.type = "message_delta" THEN Larger(n, e.usage) ELSE n,
             0, events)

Streaming == phase = "stream" /\ ending = "none"

\* The generator yields, and waits where the client does not take what it is sent.
Yield(some) == waits' \in {FALSE, some}

RelayPiece(n) ==
    /\ Streaming /\ ~Translated /\ pieces < MaxChunks
    /\ Extract(n) /\ Yield(TRUE)
    /\ reported' = IF n = Huge THEN reported ELSE Larger(reported, n)
    /\ pieces' = pieces + 1
    /\ UNCHANGED <<handler, phase, reply, log, worked, tr, heard, ending>>

RelayChunk(c) ==
    /\ Streaming /\ Translated /\ pieces < MaxChunks
    /\ tr' = Feed(tr, c)
    /\ heard' = heard \o tr'.out
    /\ Extract(Carried(tr'.out)) /\ Yield(tr'.out # <<>>)
    /\ reported' = IF tr.done THEN reported
                   ELSE FoldLeft(LAMBDA n, l : IF l.usage = 0 THEN n ELSE l.usage,
                                 reported, UpToDone(c))
    /\ pieces' = pieces + 1
    /\ UNCHANGED <<handler, phase, reply, log, worked, ending>>

\* The upstream is done: the translator flushes what it still owes.
Drained ==
    /\ Streaming
    /\ ending' = "whole"
    /\ IF Translated
       THEN /\ tr' = Finish(tr)
            /\ heard' = heard \o tr'.out
            /\ Extract(Carried(tr'.out)) /\ Yield(tr'.out # <<>>)
       ELSE UNCHANGED <<tr, heard, usage, cut, waits>>
    /\ UNCHANGED <<handler, phase, reply, log, worked, reported, pieces>>

\* The upstream breaks off while it is read, or the client leaves after the first
\* byte was asked for: the finally of drain_and_log runs next.
Interrupted ==
    /\ Streaming
    /\ ending' \in (IF waits THEN {"left"} ELSE {"broken", "left"})
    /\ waits' = FALSE
    /\ UNCHANGED <<handler, phase, reply, log, worked, tr, usage, cut, heard,
                   reported, pieces>>

\* The client left before the generator was started: it has no finally to run.
Unstarted ==
    /\ Streaming /\ pieces = 0
    /\ ending' = "unstarted" /\ phase' = "done"
    /\ UNCHANGED <<handler, reply, log, worked, tr, usage, cut, heard,
                   reported, pieces, waits>>

\* The client takes what it was sent, or sends what was missing; behind the last
\* piece of a stream it may as well leave.
ClientGoesOn ==
    /\ waits /\ waits' = FALSE
    /\ UNCHANGED <<handler, phase, reply, body, log, worked>>

\* Mutant of CloseUpstream: the finally is skipped when the client left.
MutantLeftOpen ==
    /\ phase = "stream" /\ ending \in {"whole", "broken"}
    /\ upstream' = "closed" /\ phase' = "tail"
    /\ UNCHANGED <<handler, ctype, code, stream, log, worked>>

CloseUpstream ==
    /\ phase = "stream" /\ ending \in {"whole", "broken", "left"}
    /\ upstream' = "closed" /\ phase' = "tail"
    /\ UNCHANGED <<handler, ctype, code, stream, log, worked>>

WriteEntry ==
    /\ phase = "tail"
    /\ Write(code, usage, ending = "broken")
    /\ phase' = "done"
    /\ UNCHANGED <<handler, reply, stream, worked>>

\* A handler that waits for the client does nothing else.
Handler == ~waits /\ (Middleware \/ Parse \/ Lane \/ CloseUpstream \/ WriteEntry)
Upstream ==
    /\ ~waits
    /\ \/ SendFails \/ SendAnswered \/ ReadFails \/ ReadDone
       \/ \E n \in Pieces \cup {Huge} : RelayPiece(n)
       \/ \E c \in Chunks : RelayChunk(c)
       \/ Drained
Client == Interrupted \/ Unstarted \/ BodyBroken \/ ClientGoesOn
Next == Handler \/ Upstream \/ Client

\* The handler runs on; the upstream answers, fails, or meets the read timeout.
\* The client has to do nothing.
Spec == Init /\ [][Next]_vars /\ WF_vars(Handler) /\ WF_vars(Upstream)

-----------------------------------------------------------------------------
(* Properties.                                                             *)

\* A request that carries no idempotency key is worked on at most once, however
\* its sending fails: RetryPolicy of proxy.py.
NoDoubleWork == (~req.idem) => worked <= 1

\* A request the upstream worked for leaves exactly one usage entry when it is
\* over, and no request ever leaves two.  Left out: count_tokens, which is not
\* accounted, a handler that raised, and a stream that was never started.
Accounted == req.path \in {"messages", "chat", "responses"}
OneRecord ==
    /\ Len(records) + failures <= 1
    /\ (phase = "done" /\ Accounted /\ worked > 0
            /\ answer.status # 500 /\ ending # "unstarted")
            => Len(records) + failures = 1

\* A stream that was relayed to its end is accounted with the usage the upstream
\* reported on it, unless the extractor met its size limit or the
\* upstream ended the stream with an error event.
Erred == \E i \in DOMAIN heard : heard[i].type = "error"
UsageIsReported ==
    (phase = "done" /\ ending = "whole" /\ ~cut /\ ~Erred /\ records # <<>>)
        => records[1].tokens = reported

\* An answer relayed from a provider the request did not name, although it
\* named one, says so.  Left out: an unusable inline name beside a usable
\* marker, for which the marker's route carries nothing to announce.
Named(r) == IF r.inline # NoName THEN r.inline ELSE r.marker
FallbackAnnounced ==
    (answer.status = code /\ code # 0 /\ route.scenario # "subagent")
        => (answer.announced <=> Named(req) \notin {NoName, route.provider})

\* The events a client has got of a translated stream: a message starts once and
\* first, blocks open one after the other, each is closed before the next opens
\* and before the message ends, and nothing follows the end.  Left out: what
\* comes after an error, when the upstream sent it in the same piece.
Places(type) ==
    {i \in DOMAIN heard : /\ heard[i].type = type
                          /\ \A j \in 1 .. i - 1 : heard[j].type # "error"}
BlocksNest ==
    /\ \A i \in Places("message_start") : i = 1
    /\ \A i \in Places("start") : heard[i].index = Cardinality(Places("start") \cap 1 .. i - 1)
    /\ \A i \in Places("start"), j \in Places("start") \cup Places("message_delta") :
        i < j => \E k \in i .. j : heard[k] = [type |-> "stop", index |-> heard[i].index]
    /\ \A i, j \in Places("stop") : heard[i] = heard[j] => i = j
    /\ \A i \in Places("message_stop") : i = Len(heard)
    /\ \A i \in Places("message_stop") : i > 2 /\ heard[i - 1].type = "message_delta"
    /\ \A i \in DOMAIN heard : i = 1 => heard[i].type \in {"message_start", "error"}

\* A conversation as the Anthropic API has it: calls are the assistant's,
\* results the user's, and what a message answers was called just before.
Ids(blocks, kind) == {b.id : b \in {c \in ToSet(blocks) : c.kind = kind}}
Conversation(messages) ==
    /\ messages \in Seq(AnthropicMessage)
    /\ \A i \in DOMAIN messages :
          /\ messages[i].role = "assistant" => Ids(messages[i].blocks, "result") = {}
          /\ messages[i].role = "user" => Ids(messages[i].blocks, "call") = {}
          /\ Ids(messages[i].blocks, "result") \subseteq
                IF i = 1 THEN {} ELSE Ids(messages[i - 1].blocks, "call")

\* In a translated conversation every tool result directly follows the message
\* that called it, with only other results between, and no call or result of
\* the conversation is lost or made up: the user's blocks come in any order.
Flat(kind) == UNION {Ids(m.blocks, kind) : m \in ToSet(req.messages)}
OfRole(s, role) == {m \in ToSet(s) : m.role = role}
Placed(s) ==
    \A i \in DOMAIN s : s[i].role = "tool" =>
        \E j \in 1 .. i - 1 :
            /\ s[j].role = "assistant" /\ s[i].id \in ToSet(s[j].calls)
            /\ \A k \in j + 1 .. i - 1 : s[k].role = "tool"
AnswersFollowCalls ==
    (phase = "send" /\ Translated /\ Conversation(req.messages)) =>
        /\ Flat("result") = {m.id : m \in OfRole(sent, "tool")}
        /\ Flat("call") = UNION {ToSet(m.calls) : m \in OfRole(sent, "assistant")}
        /\ Placed(sent)

\* Every request is answered and over in the end, and its upstream response is
\* closed, so that its pool slot is free again.  Left out: a stream that was never
\* started, and a client that from some point on neither goes on nor leaves.
EveryRequestEnds ==
    \/ <>(phase = "done" /\ (upstream # "open" \/ ending = "unstarted"))
    \/ <>[]waits
=============================================================================

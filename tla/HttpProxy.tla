------------------------------ MODULE HttpProxy ------------------------------
(***************************************************************************)
(* tunnel/proxy.py and http_framer.py: one client connection of the HTTP   *)
(* proxy, from the slot it takes to the slot it gives back.                *)
(*                                                                         *)
(* The proxy is one asyncio loop: a handler runs alone between its awaits, *)
(* and other connections are seen only through the slots they hold.  What  *)
(* interleaves is the two peers.  Each byte stream is a sequence of        *)
(* tokens, so that a reader that stops early leaves the rest for the next  *)
(* read, as a StreamReader's buffer does; a peer may end its stream at any *)
(* token, fall silent until a timeout, or stop reading, for which no       *)
(* timeout exists: drain() waits for it.                                   *)
(***************************************************************************)
EXTENDS Integers, Sequences

CONSTANTS
    Origins,     \* the hosts a client may ask for
    Scripts,     \* sequences of requests a client may send on one connection
    Answers,     \* the answers an origin may give
    Slots,       \* MAX_CLIENT_CONNECTIONS
    MaxPieces    \* BOUND: pieces relayed in each direction of a CONNECT

NoOrigin == "none"
Directions == {"up", "down"}

Requests == [method: STRING, origin: Origins, close: BOOLEAN,
             framing: {"none", "length", "chunked", "bad"},
             hop: BOOLEAN]   \* its Connection header names its framing header
Framings == {"length", "chunked", "eof"}

ASSUME ProxyAssumption ==
    /\ {NoOrigin, "proxy"} \cap Origins = {}
    /\ \A s \in Scripts : s \in Seq(Requests) /\ s # <<>>
    /\ Answers \subseteq [interim: Nat, body: BOOLEAN, close: BOOLEAN,
                          framing: Framings \cup {"bad"}]
    /\ Slots \in Nat \ {0} /\ MaxPieces \in Nat

VARIABLES
    step,        \* where the connection's task is
    script,      \* what the client sends: its requests
    tokens,      \* its stream: the request it is in, and what is left of that one
                 \* (nothing: the stream has ended)
    current,     \* the request being served
    remote,      \* the upstream connection: origin, and its stream left to read
    opened,      \* upstream connections opened so far
    framing,     \* how the body being relayed ends: length, chunked, eof
    keep,        \* the connection is kept after the answer
    raised,      \* handle_http ends with a TimeoutError
    out,         \* what the client was sent
    delivered,   \* what each upstream connection was sent
    others,      \* slots held by other connections
    holding,     \* this connection holds a slot
    active,      \* the statistics' count of this connection
    waits,       \* peers a drain() waits for: their buffer is full
    flow         \* a CONNECT's directions: pieces given, taken, and the state

request  == <<script, tokens, current>>
upstream == <<remote, opened, framing, keep, raised>>
ends     == <<others, holding, active, waits>>
vars == <<step, request, upstream, out, delivered, ends, flow>>

-----------------------------------------------------------------------------
(* Streams.                                                                *)

\* A request is [method, origin, framing, close]; a body without framing is
\* bytes the proxy cannot delimit.
BodyOf(r) ==
    IF r.framing \in {"length", "chunked"} THEN <<"data", "last">>
    ELSE IF r.method = "POST" THEN <<"raw">> ELSE <<>>
Tokens(n) ==
    LET body == BodyOf(script[n])
    IN  [i \in 1 .. 1 + Len(body) |-> [n |-> n, kind |-> IF i = 1 THEN "head" ELSE body[i - 1]]]

\* The stream behind its first token: a request's end is the next one's beginning.
Coming == tokens.left # <<>>
Past ==
    IF Len(tokens.left) > 1 \/ tokens.n = Len(script)
    THEN [tokens EXCEPT !.left = Tail(@)]
    ELSE [n |-> tokens.n + 1, left |-> Tokens(tokens.n + 1)]

\* An answer is [interim, body, framing, close]; HEAD never gets a body.
Answered(n, a) ==
    LET b == [a EXCEPT !.body = @ /\ script[n].method # "HEAD"]
    IN  [i \in 1 .. b.interim |-> [n |-> n, kind |-> "interim"]]
        \o <<[n |-> n, kind |-> "head", answer |-> b]>>
        \o (IF b.body THEN <<[n |-> n, kind |-> "data"], [n |-> n, kind |-> "last"]>>
                      ELSE <<>>)

NoRemote  == [origin |-> NoOrigin, stream |-> <<>>]
NoCurrent == [n |-> 0, kind |-> "none"]
Idle == [given |-> 0, taken |-> 0, state |-> "idle"]

Init ==
    /\ step = "accept"
    /\ script \in Scripts /\ tokens = [n |-> 1, left |-> Tokens(1)] /\ current = NoCurrent
    /\ remote = NoRemote /\ opened = 0 /\ framing = "none" /\ keep = TRUE
    /\ raised = FALSE /\ out = <<>> /\ delivered = <<>>
    /\ others \in 0 .. Slots /\ holding = FALSE /\ active = 0 /\ waits = {}
    /\ flow = [d \in Directions |-> Idle]

Steps == {"accept", "line", "head", "checked", "forward", "body", "answer", "payload",
          "settle", "finally", "late", "release", "closed", "tunnel", "relay"}
TypeOK ==
    /\ step \in Steps /\ script \in Scripts
    /\ remote.origin \in Origins \cup {NoOrigin}
    /\ framing \in {"none", "length", "chunked", "eof"}
    /\ {keep, raised, holding} \subseteq BOOLEAN
    /\ others \in 0 .. Slots /\ active \in 0 .. 1 /\ waits \subseteq {"client", "upstream"}
    /\ \A d \in Directions : flow[d].given \in 0 .. MaxPieces

Say(n, kind) == out' = Append(out, [n |-> n, kind |-> kind, from |-> "proxy"])
Goes(s) == step' = s
Served == script[current.n]     \* the request whose head was read

\* drain() returns at once, or waits until its peer has read some of its buffer.
Drain(p) == waits' \in {{}, {p}}

-----------------------------------------------------------------------------
(* limited_client and handle_client.                                       *)

\* Other connections take and return slots; a waiting client gets one within
\* a second, or is answered 503.
OtherTakes ==
    /\ step = "accept" /\ others < Slots /\ others' = others + 1
    /\ UNCHANGED <<step, request, upstream, out, delivered, holding, active, waits, flow>>
OtherLeaves ==
    /\ step = "accept" /\ others > 0 /\ others' = others - 1
    /\ UNCHANGED <<step, request, upstream, out, delivered, holding, active, waits, flow>>

Acquire ==
    /\ step = "accept" /\ others < Slots
    /\ holding' = TRUE /\ Goes("line")
    /\ UNCHANGED <<request, upstream, out, delivered, others, active, waits, flow>>

SlotTimeout ==
    /\ step = "accept" /\ others = Slots
    /\ Say(0, "503") /\ Goes("closed")
    /\ UNCHANGED <<request, upstream, delivered, ends, flow>>

\* The request line: none, none in time, CONNECT, or a plain request.  From
\* here on the connection counts in the statistics.
FirstLine ==
    /\ step = "line"
    /\ \/ ~Coming /\ Goes("release") /\ UNCHANGED <<active, out>>
       \/ Say(0, "400") /\ Goes("release") /\ UNCHANGED active
       \/ /\ Coming /\ active' = 1
          /\ Goes(IF script[1].method = "CONNECT" THEN "tunnel" ELSE "head")
          /\ UNCHANGED out
    /\ UNCHANGED <<request, upstream, delivered, others, holding, waits, flow>>

\* The 400 of handle_client for a TimeoutError.  handle_http has closed the
\* writer by then, but while its buffer is not empty it still takes it.
LateAnswer ==
    /\ step = "late"
    /\ IF script[1].method = "CONNECT" THEN Say(0, "400")
       ELSE Say(current.n, "late") \/ UNCHANGED out
    /\ Goes("release") /\ Drain("client")
    /\ UNCHANGED <<request, upstream, delivered, others, holding, active, flow>>

Release ==
    /\ step = "release"
    /\ holding' = FALSE /\ Goes("closed")
    /\ UNCHANGED <<request, upstream, out, delivered, others, active, waits, flow>>

-----------------------------------------------------------------------------
(* handle_http: one request after the other on the client's connection.    *)

\* The client ends its stream, or breaks it off, wherever it is read.
ClientEnds ==
    /\ step \in {"line", "head", "body"} /\ Coming
    /\ tokens' = [tokens EXCEPT !.left = <<>>]
    /\ UNCHANGED <<step, script, current, upstream, out, delivered, ends, flow>>

\* Whatever comes next is taken for a head, unless the client is silent or gone.
ReadHead ==
    /\ step = "head"
    /\ \/ Goes("finally") /\ UNCHANGED <<tokens, current>>
       \/ /\ Coming
          /\ current' = Head(tokens.left) /\ tokens' = Past
          /\ Goes("checked")
    /\ UNCHANGED <<script, upstream, out, delivered, ends, flow>>

\* A target or a framing that cannot be trusted is refused before anything is
\* forwarded; another origin closes the upstream connection first.
\* Mutant of Indeterminate: a body without framing is taken for none.
MutantNeverIndeterminate(r) == FALSE

Indeterminate(r) == r.method = "POST" /\ r.framing = "none"
\* Mutant of Check: the upstream connection is reused whatever its origin.
MutantReuses ==
    /\ step = "checked" /\ Goes("forward")
    /\ UNCHANGED <<request, remote, opened, framing, keep, raised, out, delivered, ends, flow>>

Check ==
    /\ step = "checked"
    /\ \/ /\ Served.framing = "bad"
          /\ Say(current.n, "400") /\ Goes("finally") /\ Drain("client")
          /\ UNCHANGED remote
       \/ /\ Served.framing # "bad"
          /\ remote' = IF remote.origin = Served.origin THEN remote ELSE NoRemote
          /\ Goes("forward")
          /\ UNCHANGED <<out, waits>>
    /\ UNCHANGED <<request, opened, framing, keep, raised, delivered, others, holding, active, flow>>

\* The headers that Connection names are dropped from the head, the one that
\* frames the body as well; the body itself is relayed as it was framed.
Bare(r) == r.hop /\ r.framing \in {"length", "chunked"}

\* What a request leaves on the upstream's side: its answer, some time later, and
\* where the origin was not told of the body, what it makes of the stray bytes.
Replies(r, n) ==
    LET strays == IF Bare(r) THEN {Answered(n, b) : b \in Answers} ELSE {}
    IN  {Answered(n, a) \o s : a \in Answers, s \in {<<>>} \cup strays}
Forwarded(conn, role) ==
    delivered' = Append(delivered,
        [conn |-> conn, n |-> current.n, role |-> role, origin |-> remote'.origin,
         kind |-> IF Bare(Served) THEN "bare" ELSE current.kind])
Forward ==
    /\ step = "forward"
    /\ \/ /\ remote = NoRemote         \* socks5_connect fails
          /\ Say(current.n, "502") /\ Goes("finally") /\ Drain("client")
          /\ UNCHANGED <<remote, opened, delivered, framing>>
       \/ /\ opened' = opened + (IF remote = NoRemote THEN 1 ELSE 0)
          /\ \E s \in Replies(Served, current.n) :
              remote' = [origin |-> IF remote = NoRemote THEN Served.origin ELSE remote.origin,
                         stream |-> remote.stream \o s]
          /\ Forwarded(opened', "start")
          /\ framing' = Served.framing
          /\ IF Served.framing \in {"length", "chunked"}
             THEN Goes("body") /\ UNCHANGED waits
             ELSE Goes("answer") /\ Drain("upstream")
          /\ UNCHANGED out
    /\ UNCHANGED <<request, keep, raised, others, holding, active, flow>>

\* The request's body is relayed up to its framing's end, and not past it.
RelayRequest ==
    /\ step = "body" /\ Coming
    /\ LET t == Head(tokens.left)
       IN  /\ delivered' = Append(delivered, [conn |-> opened, n |-> t.n, role |-> "body",
                                              kind |-> t.kind, origin |-> remote.origin])
           /\ IF t.kind = "last" THEN Goes("answer") /\ Drain("upstream")
                                 ELSE Goes("body") /\ UNCHANGED waits
    /\ tokens' = Past
    /\ UNCHANGED <<script, current, upstream, out, others, holding, active, flow>>

RequestCut ==
    /\ step = "body" /\ ~Coming
    /\ Goes("finally")
    /\ UNCHANGED <<request, upstream, out, delivered, ends, flow>>

\* A body that takes longer than the timeout: neither handler expects it here.
BodyTimeout ==
    /\ step \in {"body", "payload"}
    /\ raised' = TRUE /\ Goes("finally")
    /\ UNCHANGED <<request, remote, opened, framing, keep, out, delivered, ends, flow>>

\* The upstream ends its stream.
UpstreamEnds ==
    /\ step \in {"forward", "body", "answer", "payload"} /\ remote.stream # <<>>
    /\ remote' = [remote EXCEPT !.stream = <<>>]
    /\ UNCHANGED <<step, request, opened, framing, keep, raised, out, delivered, ends, flow>>

-----------------------------------------------------------------------------
(* _relay_one_response.                                                    *)

\* A head without a body is an answer of one piece.
Pass ==
    LET t == Head(remote.stream)
        kind == IF t.kind = "head" /\ ~t.answer.body THEN "only" ELSE t.kind
    IN  out' = Append(out, [n |-> t.n, kind |-> kind, from |-> remote.origin])

NoAnswer ==
    /\ step = "answer"                 \* end of stream, timeout, not a head
    /\ keep' = FALSE /\ Goes("finally")
    /\ UNCHANGED <<request, remote, opened, framing, raised, out, delivered, ends, flow>>

\* Interim answers are passed on; the real one says how its body ends.
AnswerHead ==
    /\ step = "answer" /\ remote.stream # <<>>
    /\ LET t == Head(remote.stream)
       IN  \/ /\ t.kind = "interim" /\ Drain("client") /\ UNCHANGED <<framing, keep, step>>
           \/ /\ t.kind = "head" /\ UNCHANGED waits
              /\ framing' = IF t.answer.framing = "bad" THEN "eof" ELSE t.answer.framing
              /\ IF ~t.answer.body
                 THEN keep' = TRUE /\ Goes("settle")
                 ELSE /\ keep' = (framing' # "eof" /\ ~t.answer.close)
                      /\ Goes("payload")
    /\ Pass
    /\ remote' = [remote EXCEPT !.stream = Tail(@)]
    /\ UNCHANGED <<request, opened, raised, delivered, others, holding, active, flow>>

RelayAnswer ==
    /\ step = "payload" /\ remote.stream # <<>>
    /\ Pass
    /\ remote' = [remote EXCEPT !.stream = Tail(@)]
    /\ Goes(IF Head(remote.stream).kind = "last" /\ framing # "eof" THEN "settle" ELSE "payload")
    /\ UNCHANGED <<request, opened, framing, keep, raised, delivered, ends, flow>>

\* The end of the stream ends an undelimited body and cuts any other.
\* Mutant of AnswerEnds: a delimited body that was cut keeps the connection.
MutantKeepsCut ==
    /\ step = "payload" /\ remote.stream = <<>>
    /\ keep' = (framing # "eof") /\ Goes("settle")
    /\ UNCHANGED <<request, remote, opened, framing, raised, out, delivered, ends, flow>>

AnswerEnds ==
    /\ step = "payload" /\ remote.stream = <<>>
    /\ keep' = FALSE /\ Goes(IF framing = "eof" THEN "settle" ELSE "finally")
    /\ UNCHANGED <<request, remote, opened, framing, raised, out, delivered, ends, flow>>

\* The answer is relayed; its last drain has no timeout.
Settle ==
    /\ step = "settle" /\ Drain("client")
    /\ Goes(IF ~keep \/ Served.close \/ Indeterminate(Served) THEN "finally" ELSE "head")
    /\ UNCHANGED <<request, upstream, out, delivered, others, holding, active, flow>>

\* The peer reads again, or its connection breaks and drain() raises.
Reads(p) ==
    /\ waits' = waits \ {p} /\ p \in waits
    /\ UNCHANGED <<step, request, upstream, out, delivered, others, holding, active, flow>>
Breaks(p) ==
    /\ p \in waits /\ waits' = {}
    /\ step # "relay" /\ Goes(IF step = "release" THEN "release" ELSE "finally")
    /\ UNCHANGED <<request, upstream, out, delivered, others, holding, active, flow>>

\* Mutant of Finally: a handler that raises leaves its place in the statistics.
MutantStillActive ==
    /\ step = "finally"
    /\ remote' = NoRemote /\ active' = IF raised THEN active ELSE 0
    /\ Goes(IF raised THEN "late" ELSE "release")
    /\ UNCHANGED <<request, opened, framing, keep, raised, out, delivered, others, holding, waits, flow>>

Finally ==
    /\ step = "finally"
    /\ remote' = NoRemote /\ active' = 0
    /\ Goes(IF raised THEN "late" ELSE "release")
    /\ UNCHANGED <<request, opened, framing, keep, raised, out, delivered, others, holding, waits, flow>>

-----------------------------------------------------------------------------
(* handle_connect and bidirectional_relay.                                 *)

Tunnel ==
    /\ step = "tunnel"
    /\ \/ /\ raised' = TRUE /\ Goes("finally")      \* no headers in time
          /\ UNCHANGED <<out, remote, flow>>
       \/ /\ Say(1, "502") /\ Goes("finally")
          /\ UNCHANGED <<remote, flow, raised>>
       \/ /\ Say(1, "200") /\ Goes("relay")
          /\ remote' = [origin |-> script[1].origin, stream |-> <<>>]
          /\ flow' = [d \in Directions |-> [Idle EXCEPT !.state = "open"]]
          /\ UNCHANGED raised
    /\ UNCHANGED <<request, opened, framing, keep, delivered, ends>>

Reader(d) == IF d = "up" THEN "upstream" ELSE "client"
Relaying(d) == step = "relay" /\ flow[d].state \in {"open", "ended"}
Set(d, f) ==
    /\ flow' = [flow EXCEPT ![d] = f]
    /\ UNCHANGED <<step, request, upstream, out, delivered, others, holding, active>>

\* The peer that sends in a direction gives a piece, or ends its stream.
Give(d) ==
    /\ step = "relay" /\ flow[d].state = "open" /\ flow[d].given < MaxPieces
    /\ Set(d, [flow[d] EXCEPT !.given = @ + 1]) /\ UNCHANGED waits
Hangup(d) ==
    /\ step = "relay" /\ flow[d].state = "open"
    /\ Set(d, [flow[d] EXCEPT !.state = "ended"]) /\ UNCHANGED waits

\* A piece is read and written on, and sometimes drained, as all are at the end.
Take(d) ==
    /\ Relaying(d) /\ flow[d].taken < flow[d].given
    /\ Set(d, [flow[d] EXCEPT !.taken = @ + 1])
    /\ waits' \in {waits, waits \cup {Reader(d)}}

\* End of stream: what was read before it is written out, then EOF is passed on.
PassEof(d) ==
    /\ Relaying(d) /\ flow[d].state = "ended" /\ flow[d].taken = flow[d].given
    /\ Set(d, [flow[d] EXCEPT !.state = "eof"]) /\ UNCHANGED waits

\* No byte within the timeout, or an error on either side; EOF is passed on.
PassIdle(d) ==
    /\ Relaying(d) /\ flow[d].state = "open" /\ flow[d].taken = flow[d].given
    /\ Set(d, [flow[d] EXCEPT !.state = "idle"]) /\ UNCHANGED waits
Reset(d) ==
    /\ Relaying(d)
    /\ Set(d, [flow[d] EXCEPT !.state = "reset"]) /\ waits' = waits \ {Reader(d)}

\* Mutant of RelayDone: the relay waits for the end of both streams.
MutantWaitsForEof ==
    /\ step = "relay" /\ \A d \in Directions : flow[d].state \in {"eof", "reset"}
    /\ Goes("finally")
    /\ UNCHANGED <<request, upstream, out, delivered, ends, flow>>

RelayDone ==
    /\ step = "relay" /\ \A d \in Directions : ~Relaying(d)
    /\ Goes("finally")
    /\ UNCHANGED <<request, upstream, out, delivered, ends, flow>>

-----------------------------------------------------------------------------

\* A task, or a direction of a tunnel, that waits in a drain does nothing else.
Runs ==
    \/ Acquire \/ SlotTimeout \/ FirstLine \/ LateAnswer \/ Release
    \/ ReadHead \/ Check \/ Forward \/ RelayRequest \/ RequestCut
    \/ NoAnswer \/ AnswerHead \/ RelayAnswer \/ AnswerEnds \/ Settle \/ Finally
    \/ Tunnel \/ RelayDone
Task == waits = {} /\ Runs
Direction(d) == Reader(d) \notin waits /\ (Take(d) \/ PassEof(d) \/ PassIdle(d))
Peers ==
    \/ OtherTakes \/ OtherLeaves \/ ClientEnds \/ UpstreamEnds \/ BodyTimeout
    \/ \E p \in {"client", "upstream"} : Reads(p) \/ Breaks(p)
    \/ \E d \in Directions : Give(d) \/ Hangup(d) \/ Reset(d)
Next == Task \/ Peers \/ \E d \in Directions : Direction(d)

\* The loop runs its tasks; each read has a timeout, so each relay goes on.  No
\* peer has to read.
Spec ==
    /\ Init /\ [][Next]_vars /\ WF_vars(Task)
    /\ \A d \in Directions : WF_vars(Direction(d))

-----------------------------------------------------------------------------
(* Properties.                                                             *)

Relayed == {i \in DOMAIN out : out[i].from # "proxy"}
Opens   == {i \in Relayed : out[i].kind \in {"head", "only"}}
Closes  == {i \in Relayed : out[i].kind \in {"last", "only"}}

\* No request of the connection makes its own framing header hop-by-hop (Bare).
Plain == \A n \in DOMAIN script : ~script[n].hop

\* Every answer the client gets comes from the origin of the request it answers,
\* and answers come in the order of the requests, one to each.
Attribution ==
    /\ \A i \in Relayed : out[i].from = script[out[i].n].origin
    /\ \A i, j \in Opens : i < j => out[i].n < out[j].n
    /\ \A i, j \in Relayed : i < j => out[i].n <= out[j].n
Attributed == Plain => Attribution

\* Nothing but its own pieces follows an answer that was not relayed to its end:
\* neither another answer nor a refusal of the proxy's own.  Left out is the
\* late 400 of LateAnswer.
NoneAfterCut ==
    \A i \in Opens, j \in DOMAIN out :
        (i < j /\ out[j].kind \notin {"data", "last", "late"})
            => \E k \in Closes : i <= k /\ k < j
NothingAfterCut == Plain => NoneAfterCut

\* What an upstream connection is sent is requests to its own origin: each
\* starts with a head, its body is its own, and a request that was cut is the
\* last one on that connection.
Intact ==
    \A i \in DOMAIN delivered :
        LET d == delivered[i]
        IN  /\ d.origin = script[d.n].origin
            /\ d.role = "start" => d.kind = "head"
            /\ d.role = "body" => i > 1 /\ delivered[i - 1].n = d.n /\ delivered[i - 1].conn = d.conn
            /\ (d.role = "start" /\ i > 1 /\ delivered[i - 1].conn = d.conn)
                => script[delivered[i - 1].n].framing = "none" \/ delivered[i - 1].kind = "last"
RequestsIntact == Plain => Intact

\* Every connection is over in the end, and then holds no slot, no upstream and
\* no place in the statistics, or it waits for ever in a drain: for a peer that
\* neither reads nor goes away.
Over == step = "closed" /\ ~holding /\ active = 0 /\ remote = NoRemote
ConnectionsEnd == <>Over \/ <>[](waits # {})
=============================================================================

--------------------------- MODULE HttpProxyProofs ---------------------------
(***************************************************************************)
(* Machine-checked facts about HttpProxy, for clients that pipeline any    *)
(* number of requests to any number of origins, with any framing, and for  *)
(* any number of interim answers.  The invariant is that of connections on *)
(* which no request makes its own framing hop-by-hop (Plain): behind one   *)
(* that does, the origin is not told of the body it is sent.               *)
(***************************************************************************)
EXTENDS HttpProxy, SequenceTheorems, TLAPS

Tok(n, kind) == [n |-> n, kind |-> kind]
Heads(n, a)  == [n |-> n, kind |-> "head", answer |-> a]

Token == [n: Nat, kind: {"head", "data", "last", "raw"}]
Reply == [interim: Nat, body: BOOLEAN, close: BOOLEAN, framing: Framings \cup {"bad"}]
Piece == [n: Nat, kind: {"interim", "data", "last"}]
            \cup [n: Nat, kind: {"head"}, answer: Reply]
Kinds == {"interim", "head", "only", "data", "last", "200", "400", "502", "503", "late"}
Said  == [n: Nat, kind: Kinds, from: Origins \cup {NoOrigin, "proxy"}]
Sent  == [conn: Nat, n: Nat, role: {"start", "body"}, kind: {"head", "data", "last", "raw"},
          origin: Origins \cup {NoOrigin}]

\* The steps at which a request is being served.
Serving == {"checked", "forward", "body", "answer", "payload", "settle"}

TypeInv ==
    /\ step \in Steps /\ script \in Scripts
    /\ tokens \in [n: DOMAIN script, left: Seq(Token)]
    /\ current.n \in Nat
    /\ step \in Serving => current.n \in DOMAIN script /\ current = Tok(current.n, "head")
    /\ remote \in [origin: Origins \cup {NoOrigin}, stream: Seq(Piece)]
    /\ opened \in Nat /\ keep \in BOOLEAN
    /\ out \in Seq(Said) /\ delivered \in Seq(Sent)

\* The client's stream stands before a request that is still to be served.
Ahead == Coming => tokens.left = Tokens(tokens.n) /\ tokens.n > current.n

\* What is left of the request that is being served is its body's end.
BodyLeft ==
    /\ tokens.n = current.n
    /\ \/ tokens.left = <<Tok(current.n, "data"), Tok(current.n, "last")>>
       \/ tokens.left = <<Tok(current.n, "last")>>

\* Whatever has no framing and may have a body ends the connection, everything
\* else leaves the stream before a head.
StreamInv ==
    /\ step \in {"accept", "line"} =>
          current = NoCurrent /\ tokens.n = 1 /\ (Coming => tokens.left = Tokens(1))
    /\ step = "head" => Ahead
    /\ step \in {"checked", "forward"} =>
          /\ Served.framing \in {"length", "chunked"} => BodyLeft
          /\ Served.framing = "none" /\ Served.method # "POST" => Ahead
    /\ step \in Serving \ {"checked"} => Served.framing # "bad"
    /\ step = "body" => (Coming => BodyLeft)
    /\ step \in {"answer", "payload", "settle"} => Indeterminate(Served) \/ Ahead

\* An answer not begun: interim pieces, the head, and the body that it announces.
Entire(s) ==
    \E k \in Nat, a \in Reply :
        /\ Len(s) = IF a.body THEN k + 3 ELSE k + 1
        /\ \A i \in 1 .. k : s[i] = Tok(current.n, "interim")
        /\ s[k + 1] = Heads(current.n, a)
        /\ a.body => s[k + 2] = Tok(current.n, "data") /\ s[k + 3] = Tok(current.n, "last")

\* What is left of an answer's body.
Remainder(s) ==
    s \in {<<>>, <<Tok(current.n, "last")>>,
           <<Tok(current.n, "data"), Tok(current.n, "last")>>}

\* The upstream connection is to the origin that is asked, and has nothing left of
\* an earlier answer.
RemoteInv ==
    /\ step \in {"accept", "line", "head", "checked", "forward"} => remote.stream = <<>>
    /\ step = "forward" => remote = NoRemote \/ remote.origin = Served.origin
    /\ step \in {"body", "answer", "payload", "settle"} => remote.origin = Served.origin
    /\ step \in {"body", "answer"} => remote.stream = <<>> \/ Entire(remote.stream)
    /\ step = "payload" => Remainder(remote.stream) /\ (framing = "eof" => ~keep)
    /\ step = "settle" /\ keep => remote.stream = <<>>

\* A connection serves requests or is a tunnel.
KindInv ==
    /\ step \in {"accept", "line", "tunnel"} => out = <<>> /\ delivered = <<>>
    /\ step \in {"tunnel", "relay"} => script[1].method = "CONNECT"
    /\ script[1].method = "CONNECT" => Relayed = {} /\ step \notin Serving \cup {"head"}

\* What was relayed belongs to the requests read so far, and an answer begins once.
AnswersInv ==
    /\ Attribution
    /\ \A i \in Relayed : out[i].n <= current.n
    /\ step \in {"checked", "forward", "body", "answer"} =>
          \A i \in Opens : out[i].n < current.n

\* Where something new may be said, every answer begun has been relayed to its end.
CutInv ==
    /\ NoneAfterCut
    /\ step \in {"head", "checked", "forward", "body", "answer"} \/ (step = "settle" /\ keep) =>
          \A i \in Opens : \E k \in Closes : i <= k

\* Where a request may be forwarded, the one before it was forwarded to its end.
LastSent == delivered[Len(delivered)]
SentInv ==
    /\ Intact
    /\ step \in {"head", "checked", "forward", "answer", "payload", "settle"} =>
          (delivered # <<>> =>
              script[LastSent.n].framing = "none" \/ LastSent.kind = "last")
    /\ step = "body" =>
          delivered # <<>> /\ LastSent.n = current.n /\ LastSent.conn = opened

IInv == /\ TypeInv /\ StreamInv /\ RemoteInv /\ KindInv
        /\ AnswersInv /\ CutInv /\ SentInv

-----------------------------------------------------------------------------
(* The streams.                                                            *)

\* A script's requests are requests, and it has one.
LEMMA ScriptFacts ==
    ASSUME script \in Scripts
    PROVE  /\ script \in Seq(Requests) /\ script # <<>>
           /\ 1 \in DOMAIN script /\ DOMAIN script = 1 .. Len(script)
           /\ \A n \in DOMAIN script : script[n] \in Requests
  <1>1. script \in Seq(Requests) /\ script # <<>>
    BY ProxyAssumption
  <1> QED
    BY <1>1

\* A request's tokens are its head and its body (BodyOf: what parse_framing finds).
LEMMA TokensFacts ==
    ASSUME script \in Scripts, NEW n \in DOMAIN script
    PROVE  /\ Tokens(n) \in Seq(Token)
           /\ script[n].framing \in {"length", "chunked"} =>
                 Tokens(n) = <<Tok(n, "head"), Tok(n, "data"), Tok(n, "last")>>
           /\ script[n].framing \notin {"length", "chunked"} /\ script[n].method = "POST" =>
                 Tokens(n) = <<Tok(n, "head"), Tok(n, "raw")>>
           /\ script[n].framing \notin {"length", "chunked"} /\ script[n].method # "POST" =>
                 Tokens(n) = <<Tok(n, "head")>>
  <1>1. n \in Nat
    BY ScriptFacts
  <1>2. CASE script[n].framing \in {"length", "chunked"}
    <2>1. BodyOf(script[n]) = <<"data", "last">>
      BY <1>2 DEF BodyOf
    <2> HIDE DEF BodyOf
    <2>2. Tokens(n) = [i \in 1 .. 3 |->
                 [n |-> n, kind |-> IF i = 1 THEN "head" ELSE <<"data", "last">>[i - 1]]]
      BY <2>1 DEF Tokens
    <2>3. Tokens(n) = <<Tok(n, "head"), Tok(n, "data"), Tok(n, "last")>>
      BY <2>2 DEF Tok
    <2>4. <<Tok(n, "head"), Tok(n, "data"), Tok(n, "last")>> \in Seq(Token)
      BY <1>1 DEF Tok, Token
    <2> QED
      BY <1>2, <2>3, <2>4
  <1>3. CASE script[n].framing \notin {"length", "chunked"} /\ script[n].method = "POST"
    <2>1. BodyOf(script[n]) = <<"raw">>
      BY <1>3 DEF BodyOf
    <2>2. Tokens(n) = [i \in 1 .. 2 |->
                 [n |-> n, kind |-> IF i = 1 THEN "head" ELSE <<"raw">>[i - 1]]]
      BY <2>1 DEF Tokens
    <2>3. Tokens(n) = <<Tok(n, "head"), Tok(n, "raw")>>
      BY <2>2 DEF Tok
    <2>4. <<Tok(n, "head"), Tok(n, "raw")>> \in Seq(Token)
      BY <1>1 DEF Tok, Token
    <2> QED
      BY <1>3, <2>3, <2>4
  <1>4. CASE script[n].framing \notin {"length", "chunked"} /\ script[n].method # "POST"
    <2>1. BodyOf(script[n]) = <<>>
      BY <1>4 DEF BodyOf
    <2>2. Tokens(n) = [i \in 1 .. 1 |->
                 [n |-> n, kind |-> IF i = 1 THEN "head" ELSE << >>[i - 1]]]
      BY <2>1 DEF Tokens
    <2>3. Tokens(n) = <<Tok(n, "head")>>
      BY <2>2 DEF Tok
    <2>4. <<Tok(n, "head")>> \in Seq(Token)
      BY <1>1 DEF Tok, Token
    <2> QED
      BY <1>4, <2>3, <2>4
  <1> QED
    BY <1>2, <1>3, <1>4

\* The cursor behind a token is a cursor (StreamReader's buffer after a read).
LEMMA PastTypes ==
    ASSUME script \in Scripts, tokens \in [n: DOMAIN script, left: Seq(Token)], Coming
    PROVE  /\ Past \in [n: DOMAIN script, left: Seq(Token)]
           /\ Len(tokens.left) > 1 => Past = [n |-> tokens.n, left |-> Tail(tokens.left)]
           /\ Len(tokens.left) = 1 =>
                 \/ tokens.n < Len(script)
                    /\ Past = [n |-> tokens.n + 1, left |-> Tokens(tokens.n + 1)]
                 \/ tokens.n = Len(script) /\ Past = [n |-> tokens.n, left |-> <<>>]
  <1>1. /\ tokens.n \in 1 .. Len(script) /\ Len(script) \in Nat /\ DOMAIN script = 1 .. Len(script)
        /\ tokens.left \in Seq(Token) /\ tokens.left # <<>> /\ Len(tokens.left) \in Nat \ {0}
        /\ tokens = [n |-> tokens.n, left |-> tokens.left]
    BY ScriptFacts DEF Coming
  <1>2. Tail(tokens.left) \in Seq(Token) /\ Len(Tail(tokens.left)) = Len(tokens.left) - 1
    BY <1>1, HeadTailProperties
  <1> DEFINE rest == Tail(tokens.left)
  <1>3. [tokens EXCEPT !.left = rest] = [n |-> tokens.n, left |-> rest]
    <2> HIDE DEF rest
    <2> QED
      BY <1>1
  <1>4. CASE Len(tokens.left) > 1
    <2>1. Past = [n |-> tokens.n, left |-> Tail(tokens.left)]
      BY <1>3, <1>4 DEF Past
    <2>2. Past \in [n: DOMAIN script, left: Seq(Token)]
      BY <1>1, <1>2, <2>1
    <2> QED
      BY <1>4, <2>1, <2>2
  <1>5. CASE Len(tokens.left) = 1 /\ tokens.n = Len(script)
    <2>1. rest = <<>>
      <3>1. rest \in Seq(Token) /\ Len(rest) = 0
        BY <1>1, <1>2, <1>5
      <3> HIDE DEF rest
      <3> QED
        BY <3>1, EmptySeq
    <2>2. Past = [n |-> tokens.n, left |-> <<>>]
      BY <1>3, <1>5, <2>1 DEF Past
    <2>3. Past \in [n: DOMAIN script, left: Seq(Token)]
      BY <1>1, <1>2, <2>1, <2>2
    <2> QED
      BY <1>5, <2>2, <2>3
  <1>6. CASE Len(tokens.left) = 1 /\ tokens.n < Len(script)
    <2>1. tokens.n + 1 \in DOMAIN script
      BY <1>1, <1>6
    <2>2. Tokens(tokens.n + 1) \in Seq(Token)
      BY <2>1, TokensFacts
    <2>3. Past = [n |-> tokens.n + 1, left |-> Tokens(tokens.n + 1)]
      BY <1>1, <1>6 DEF Past
    <2> QED
      BY <1>6, <2>1, <2>2, <2>3
  <1>7. Len(tokens.left) > 1 \/ (Len(tokens.left) = 1
            /\ (tokens.n = Len(script) \/ tokens.n < Len(script)))
    <2> DEFINE k == Len(tokens.left)
               l == Len(script)
               n == tokens.n
    <2>1. k \in Nat \ {0} /\ l \in Nat /\ n \in 1 .. l
      BY <1>1
    <2> HIDE DEF k, l, n
    <2>2. k > 1 \/ (k = 1 /\ (n = l \/ n < l))
      BY <2>1
    <2> QED
      BY <2>2 DEF k, l, n
  <1> QED
    BY <1>4, <1>5, <1>6, <1>7

\* An origin's answer is interim pieces, a head, and the body the head announces.
LEMMA AnsweredFacts ==
    ASSUME script \in Scripts, current.n \in DOMAIN script, NEW a \in Answers
    PROVE  Answered(current.n, a) \in Seq(Piece) /\ Entire(Answered(current.n, a))
  <1> DEFINE n == current.n
             b == [a EXCEPT !.body = @ /\ script[n].method # "HEAD"]
             s1 == [i \in 1 .. b.interim |-> [n |-> n, kind |-> "interim"]]
             s2 == <<[n |-> n, kind |-> "head", answer |-> b]>>
             s3 == IF b.body
                   THEN <<[n |-> n, kind |-> "data"], [n |-> n, kind |-> "last"]>> ELSE <<>>
             k == b.interim
  <1>1. n \in Nat /\ a \in Reply
    BY ScriptFacts, ProxyAssumption DEF Reply
  <1>2. b \in Reply
    <2>1. (a.body /\ script[n].method # "HEAD") \in BOOLEAN
      OBVIOUS
    <2> DEFINE body == a.body /\ script[n].method # "HEAD"
    <2>2. b = [a EXCEPT !.body = body]
      OBVIOUS
    <2> HIDE DEF body
    <2> QED
      BY <1>1, <2>1, <2>2 DEF Reply, body
  <1>3. Answered(n, a) = s1 \o s2 \o s3
    BY DEF Answered
  <1> HIDE DEF n, b
  <1>4. k \in Nat /\ b.body \in BOOLEAN
    BY <1>2 DEF Reply
  <1>5. /\ s1 \in Seq(Piece) /\ Len(s1) = k
        /\ \A i \in 1 .. k : s1[i] = Tok(n, "interim")
    BY <1>1, <1>4 DEF Piece, Tok
  <1>6. s2 \in Seq(Piece) /\ Len(s2) = 1 /\ s2[1] = Heads(n, b)
    BY <1>1, <1>2 DEF Piece, Heads
  <1>7. /\ s3 \in Seq(Piece) /\ Len(s3) = (IF b.body THEN 2 ELSE 0)
        /\ b.body => s3[1] = Tok(n, "data") /\ s3[2] = Tok(n, "last")
    <2>1. CASE b.body
      <3>1. <<[n |-> n, kind |-> "data"], [n |-> n, kind |-> "last"]>> \in Seq(Piece)
        BY <1>1 DEF Piece
      <3> QED
        BY <2>1, <3>1 DEF Tok
    <2>2. CASE ~b.body
      BY <2>2
    <2> QED
      BY <2>1, <2>2
  <1> HIDE DEF s1, s2, s3, k
  <1>8. /\ s1 \o s2 \in Seq(Piece) /\ Len(s1 \o s2) = k + 1
        /\ \A i \in 1 .. k : (s1 \o s2)[i] = Tok(n, "interim")
        /\ (s1 \o s2)[k + 1] = Heads(n, b)
    <2>1. /\ s1 \o s2 \in Seq(Piece) /\ Len(s1 \o s2) = Len(s1) + Len(s2)
          /\ \A i \in 1 .. Len(s1) + Len(s2) : (s1 \o s2)[i] =
                IF i <= Len(s1) THEN s1[i] ELSE s2[i - Len(s1)]
      BY <1>5, <1>6, ConcatProperties
    <2> DEFINE s12 == s1 \o s2
    <2> HIDE DEF s12
    <2> QED
      BY <1>4, <1>5, <1>6, <2>1 DEF s12
  <1> DEFINE s12 == s1 \o s2
             s  == s12 \o s3
  <1>9. /\ s \in Seq(Piece) /\ Len(s) = IF b.body THEN k + 3 ELSE k + 1
        /\ \A i \in 1 .. k : s[i] = Tok(n, "interim")
        /\ s[k + 1] = Heads(n, b)
        /\ b.body => s[k + 2] = Tok(n, "data") /\ s[k + 3] = Tok(n, "last")
    <2>1. /\ s12 \in Seq(Piece) /\ Len(s12) = k + 1
          /\ \A i \in 1 .. k : s12[i] = Tok(n, "interim")
          /\ s12[k + 1] = Heads(n, b)
      BY <1>8
    <2> HIDE DEF s12
    <2>2. /\ s \in Seq(Piece) /\ Len(s) = Len(s12) + Len(s3)
          /\ \A i \in 1 .. Len(s12) + Len(s3) : s[i] =
                IF i <= Len(s12) THEN s12[i] ELSE s3[i - Len(s12)]
      BY <1>7, <2>1, ConcatProperties
    <2> HIDE DEF s
    <2> QED
      BY <1>4, <1>7, <2>1, <2>2
  <1> HIDE DEF s
  <1>10. Answered(n, a) = s
    BY <1>3 DEF s
  <1> QED
    BY <1>2, <1>4, <1>9, <1>10 DEF Entire, n

\* Behind an interim piece an answer is still entire, behind its head is its body
\* (_relay_one_response).
LEMMA EntireTail ==
    ASSUME NEW s \in Seq(Piece), Entire(s)
    PROVE  /\ s # <<>>
           /\ \/ Head(s) = Tok(current.n, "interim") /\ Entire(Tail(s))
              \/ \E a \in Reply :
                    /\ Head(s) = Heads(current.n, a)
                    /\ ~a.body => Tail(s) = <<>>
                    /\ a.body => Tail(s) =
                          <<Tok(current.n, "data"), Tok(current.n, "last")>>
  <1>1. PICK k \in Nat, a \in Reply :
          /\ Len(s) = IF a.body THEN k + 3 ELSE k + 1
          /\ \A i \in 1 .. k : s[i] = Tok(current.n, "interim")
          /\ s[k + 1] = Heads(current.n, a)
          /\ a.body => s[k + 2] = Tok(current.n, "data") /\ s[k + 3] = Tok(current.n, "last")
    BY DEF Entire
  <1>2. s # <<>> /\ Len(s) \in Nat \ {0} /\ a.body \in BOOLEAN
    <2>1. Len(s) # 0
      BY <1>1
    <2> QED
      BY <2>1, EmptySeq DEF Reply
  <1> DEFINE t == Tail(s)
  <1>3. /\ t \in Seq(Piece) /\ Len(t) = Len(s) - 1
        /\ \A i \in 1 .. Len(t) : t[i] = s[i + 1]
    BY <1>2, HeadTailProperties
  <1>4. Head(s) = s[1]
    BY <1>2
  <1> HIDE DEF t
  <1>5. CASE k > 0
    <2> DEFINE j == k - 1
    <2>1. j \in Nat /\ Len(t) = (IF a.body THEN j + 3 ELSE j + 1) /\ j + 1 = k
      BY <1>1, <1>3, <1>5
    <2>2. \A i \in 1 .. j : t[i] = Tok(current.n, "interim")
      BY <1>1, <1>3, <2>1
    <2>3. t[j + 1] = Heads(current.n, a)
      BY <1>1, <1>3, <2>1
    <2>4. a.body => t[j + 2] = Tok(current.n, "data") /\ t[j + 3] = Tok(current.n, "last")
      BY <1>1, <1>3, <2>1
    <2> HIDE DEF j
    <2>5. Entire(t)
      BY <2>1, <2>2, <2>3, <2>4 DEF Entire
    <2>6. s[1] = Tok(current.n, "interim")
      BY <1>1, <1>5
    <2> QED
      BY <1>2, <1>4, <2>5, <2>6 DEF t
  <1>6. CASE k = 0
    <2>1. s[1] = Heads(current.n, a)
      BY <1>1, <1>6
    <2>2. ~a.body => t = <<>>
      BY <1>1, <1>3, <1>6, EmptySeq
    <2>3. a.body => t = <<Tok(current.n, "data"), Tok(current.n, "last")>>
      <3> DEFINE u == <<Tok(current.n, "data"), Tok(current.n, "last")>>
      <3>1. ASSUME a.body PROVE t = u
        <4>1. Len(t) = 2 /\ t[1] = s[2] /\ t[2] = s[3]
          BY <1>1, <1>3, <1>6, <3>1
        <4>2. s[2] = Tok(current.n, "data") /\ s[3] = Tok(current.n, "last")
          BY <1>1, <1>6, <3>1
        <4>3. t[1] = Tok(current.n, "data") /\ t[2] = Tok(current.n, "last")
          BY <4>1, <4>2
        <4>4. t[1] \in Piece /\ t[2] \in Piece
          BY <1>3, <4>1, ElementOfSeq
        <4>5. u \in Seq(Piece) /\ Len(u) = 2 /\ u[1] = t[1] /\ u[2] = t[2]
          BY <4>3, <4>4
        <4> HIDE DEF u
        <4> QED
          BY <1>3, <4>1, <4>5, SeqEqual
      <3> QED
        BY <3>1
    <2> QED
      BY <1>2, <1>4, <2>1, <2>2, <2>3 DEF t
  <1> QED
    BY <1>5, <1>6

-----------------------------------------------------------------------------
(* What the client and the upstream were sent.                             *)

\* While nothing is said, what was said is judged as before.
LEMMA OutSame ==
    ASSUME out' = out, script' = script
    PROVE  /\ Relayed' = Relayed /\ Opens' = Opens /\ Closes' = Closes
           /\ (Attribution => Attribution') /\ (NoneAfterCut => NoneAfterCut')
  BY DEF Relayed, Opens, Closes, Attribution, NoneAfterCut

\* While nothing is forwarded, what was forwarded is judged as before.
LEMMA SentSame ==
    ASSUME delivered' = delivered, script' = script
    PROVE  LastSent' = LastSent /\ (Intact => Intact')
  BY DEF LastSent, Intact

\* Something more is said to the client.
LEMMA OutGrows ==
    ASSUME out \in Seq(Said), NEW e \in Said, out' = Append(out, e)
    PROVE  LET l == Len(out) + 1
           IN  /\ out' \in Seq(Said) /\ l \in DOMAIN out'
               /\ DOMAIN out' = DOMAIN out \cup {l}
               /\ \A i \in DOMAIN out : i \in Nat /\ i < l /\ out'[i] = out[i]
               /\ out'[l] = e
               /\ e.from = "proxy" =>
                     Relayed' = Relayed /\ Opens' = Opens /\ Closes' = Closes
               /\ e.from # "proxy" =>
                     /\ Relayed' = Relayed \cup {l}
                     /\ Opens'  = Opens  \cup (IF e.kind \in {"head", "only"} THEN {l} ELSE {})
                     /\ Closes' = Closes \cup (IF e.kind \in {"last", "only"} THEN {l} ELSE {})
  <1> DEFINE l == Len(out) + 1
  <1>1. Len(out) \in Nat /\ DOMAIN out = 1 .. Len(out)
    BY LenProperties
  <1>2. /\ out' \in Seq(Said) /\ Len(out') = Len(out) + 1
        /\ \A i \in 1 .. Len(out) : out'[i] = out[i]
        /\ out'[Len(out) + 1] = e
    BY AppendProperties
  <1>3. DOMAIN out' = 1 .. Len(out')
    BY <1>2, LenProperties
  <1>4. /\ DOMAIN out' = DOMAIN out \cup {l}
        /\ \A i \in DOMAIN out : i \in Nat /\ i < l /\ out'[i] = out[i]
        /\ out'[l] = e /\ out' \in Seq(Said)
    BY <1>1, <1>2, <1>3
  <1> HIDE DEF l
  <1>5. Relayed' = Relayed \cup (IF e.from # "proxy" THEN {l} ELSE {})
    BY <1>4 DEF Relayed
  <1>6. Relayed \subseteq DOMAIN out
    BY DEF Relayed
  <1>7. CASE e.from = "proxy"
    <2>1. Relayed' = Relayed
      BY <1>5, <1>7
    <2>2. Opens' = Opens /\ Closes' = Closes
      BY <1>4, <1>6, <2>1 DEF Opens, Closes
    <2> QED
      BY <1>4, <1>7, <2>1, <2>2 DEF l
  <1>8. CASE e.from # "proxy"
    <2>1. Relayed' = Relayed \cup {l}
      BY <1>5, <1>8
    <2>2. Opens'  = Opens  \cup (IF e.kind \in {"head", "only"} THEN {l} ELSE {})
      BY <1>4, <1>6, <2>1 DEF Opens
    <2>3. Closes' = Closes \cup (IF e.kind \in {"last", "only"} THEN {l} ELSE {})
      BY <1>4, <1>6, <2>1 DEF Closes
    <2> QED
      BY <1>4, <1>8, <2>1, <2>2, <2>3 DEF l
  <1> QED
    BY <1>7, <1>8

\* The proxy speaks for itself (_send_error): that is no answer of an origin's, and
\* allowed where every answer begun is complete.
LEMMA SayKeeps ==
    ASSUME out \in Seq(Said), script' = script, NEW n \in Nat, NEW kind \in Kinds,
           out' = Append(out, [n |-> n, kind |-> kind, from |-> "proxy"]),
           Attribution, NoneAfterCut,
           kind # "late" => \A i \in Opens : \E k \in Closes : i <= k
    PROVE  /\ out' \in Seq(Said) /\ Relayed' = Relayed /\ Opens' = Opens /\ Closes' = Closes
           /\ Attribution' /\ NoneAfterCut'
           /\ \A i \in Relayed : out'[i] = out[i]
  <1> DEFINE e == [n |-> n, kind |-> kind, from |-> "proxy"]
             l == Len(out) + 1
  <1>1. e \in Said /\ e.from = "proxy" /\ e.kind = kind
    BY DEF Said
  <1>2. out' = Append(out, e)
    OBVIOUS
  <1> HIDE DEF e
  <1>3. /\ out' \in Seq(Said) /\ Relayed' = Relayed /\ Opens' = Opens /\ Closes' = Closes
        /\ DOMAIN out' = DOMAIN out \cup {l}
        /\ \A i \in DOMAIN out : i \in Nat /\ i < l /\ out'[i] = out[i]
        /\ out'[l] = e
    BY <1>1, <1>2, OutGrows
  <1> HIDE DEF l
  <1>4. Relayed \subseteq DOMAIN out /\ Opens \subseteq Relayed /\ Closes \subseteq Relayed
    BY DEF Relayed, Opens, Closes
  <1>5. Attribution'
    BY <1>3, <1>4 DEF Attribution
  <1>6. NoneAfterCut'
    <2> SUFFICES ASSUME NEW i \in Opens, NEW j \in DOMAIN out',
                        i < j, out'[j].kind \notin {"data", "last", "late"}
                 PROVE  \E k \in Closes : i <= k /\ k < j
      BY <1>3 DEF NoneAfterCut
    <2>1. CASE j \in DOMAIN out
      BY <1>3, <2>1 DEF NoneAfterCut
    <2>2. CASE j = l
      <3>1. kind # "late"
        BY <1>1, <1>3, <2>2
      <3>2. PICK k \in Closes : i <= k
        BY <3>1
      <3>3. k < l
        BY <1>3, <1>4
      <3> QED
        BY <2>2, <3>2, <3>3
    <2> QED
      BY <1>3, <2>1, <2>2
  <1> QED
    BY <1>3, <1>4, <1>5, <1>6

-----------------------------------------------------------------------------
(* The invariant.                                                          *)

\* A connection that has just been accepted satisfies the invariant.
LEMMA InitInv == Init => IInv
  <1> SUFFICES ASSUME Init PROVE IInv
    OBVIOUS
  <1>1. /\ step = "accept" /\ script \in Scripts
        /\ tokens = [n |-> 1, left |-> Tokens(1)] /\ current = NoCurrent
        /\ remote = NoRemote /\ opened = 0 /\ keep = TRUE
        /\ out = <<>> /\ delivered = <<>>
    BY DEF Init
  <1>2. 1 \in DOMAIN script /\ Tokens(1) \in Seq(Token)
    BY <1>1, ScriptFacts, TokensFacts
  <1>3. Relayed = {} /\ Opens = {} /\ Closes = {}
    BY <1>1 DEF Relayed, Opens, Closes
  <1>4. TypeInv
    <2>1. tokens \in [n: DOMAIN script, left: Seq(Token)]
      <3> HIDE DEF Tokens
      <3> QED
        BY <1>1, <1>2
    <2>2. remote \in [origin: Origins \cup {NoOrigin}, stream: Seq(Piece)]
      BY <1>1 DEF NoRemote
    <2>3. current.n = 0
      BY <1>1 DEF NoCurrent
    <2> QED
      BY <1>1, <2>1, <2>2, <2>3 DEF TypeInv, Steps, Serving
  <1>5. StreamInv
    <2>1. tokens.n = 1 /\ tokens.left = Tokens(1)
      BY <1>1
    <2> QED
      BY <1>1, <2>1 DEF StreamInv, Serving
  <1>6. RemoteInv
    BY <1>1 DEF RemoteInv, NoRemote
  <1>7. KindInv
    BY <1>1, <1>3 DEF KindInv, Serving
  <1>8. AnswersInv
    BY <1>1, <1>3 DEF AnswersInv, Attribution
  <1>9. CutInv
    BY <1>1, <1>3 DEF CutInv, NoneAfterCut
  <1>10. SentInv
    BY <1>1 DEF SentInv, Intact
  <1> QED
    BY <1>4, <1>5, <1>6, <1>7, <1>8, <1>9, <1>10 DEF IInv

\* Other connections' slots and a tunnel's pieces do not concern the invariant.
LEMMA ElsewhereKeeps ==
    ASSUME IInv, UNCHANGED <<step, request, upstream, out, delivered>>
    PROVE  IInv'
  <1>1. /\ step' = step /\ script' = script /\ tokens' = tokens /\ current' = current
        /\ remote' = remote /\ opened' = opened /\ framing' = framing /\ keep' = keep
        /\ out' = out /\ delivered' = delivered
    BY DEF request, upstream
  <1>2. TypeInv'
    BY <1>1 DEF IInv, TypeInv
  <1>3. StreamInv'
    BY <1>1 DEF IInv, StreamInv, Coming, Served, Indeterminate, BodyLeft, Ahead, Tokens
  <1>4. RemoteInv'
    BY <1>1 DEF IInv, RemoteInv, Served, Entire, Remainder
  <1>5. KindInv'
    BY <1>1, OutSame DEF IInv, KindInv
  <1>6. AnswersInv'
    BY <1>1, OutSame DEF IInv, AnswersInv
  <1>7. CutInv'
    BY <1>1, OutSame DEF IInv, CutInv
  <1>8. SentInv'
    BY <1>1, SentSame DEF IInv, SentInv
  <1> QED
    BY <1>2, <1>3, <1>4, <1>5, <1>6, <1>7, <1>8 DEF IInv

\* The steps at which the connection only goes to its end.
Ending == {"finally", "late", "release", "closed"}

\* Once a connection goes to its end there is little to be kept.
LEMMA EndingKeeps ==
    ASSUME IInv, step' \in Ending, UNCHANGED <<request, opened, delivered>>,
           keep' \in BOOLEAN,
           remote' = remote \/ remote' = NoRemote,
           out' \in Seq(Said), Relayed' = Relayed, Attribution', NoneAfterCut',
           \A i \in Relayed : out'[i] = out[i]
    PROVE  IInv'
  <1>1. /\ script' = script /\ tokens' = tokens /\ current' = current
        /\ opened' = opened /\ delivered' = delivered
    BY DEF request
  <1>2. /\ step' \in Steps
        /\ step' \notin Serving \cup {"accept", "line", "head", "tunnel", "relay"}
    BY DEF Ending, Serving, Steps
  <1>3. TypeInv'
    <2>1. remote' \in [origin: Origins \cup {NoOrigin}, stream: Seq(Piece)]
      <3>1. NoRemote \in [origin: Origins \cup {NoOrigin}, stream: Seq(Piece)]
        BY DEF NoRemote
      <3> QED
        BY <3>1 DEF IInv, TypeInv
    <2> QED
      BY <1>1, <1>2, <2>1 DEF IInv, TypeInv
  <1>4. StreamInv'
    BY <1>2 DEF StreamInv, Serving
  <1>5. RemoteInv'
    BY <1>2 DEF RemoteInv, Serving
  <1>6. KindInv'
    BY <1>1, <1>2 DEF IInv, KindInv
  <1>7. AnswersInv'
    BY <1>1, <1>2 DEF IInv, AnswersInv, Serving
  <1>8. CutInv'
    BY <1>2 DEF CutInv, Serving
  <1>9. SentInv'
    BY <1>1, <1>2, SentSame DEF IInv, SentInv, Serving
  <1> QED
    BY <1>3, <1>4, <1>5, <1>6, <1>7, <1>8, <1>9 DEF IInv

\* ... in silence,
LEMMA QuietEnd ==
    ASSUME IInv, step' \in Ending, UNCHANGED <<request, opened, delivered, out>>,
           keep' \in BOOLEAN, remote' = remote \/ remote' = NoRemote
    PROVE  IInv'
  <1>1. script' = script
    BY DEF request
  <1> QED
    BY <1>1, OutSame, EndingKeeps DEF IInv, TypeInv, AnswersInv, CutInv

\* ... or with a refusal.
LEMMA SaidEnd ==
    ASSUME IInv, step' \in Ending, UNCHANGED <<request, opened, delivered>>,
           keep' \in BOOLEAN, remote' = remote \/ remote' = NoRemote,
           NEW n \in Nat, NEW kind \in Kinds, Say(n, kind),
           kind # "late" => \A i \in Opens : \E k \in Closes : i <= k
    PROVE  IInv'
  <1>1. script' = script
    BY DEF request
  <1> QED
    BY <1>1, SayKeeps, EndingKeeps DEF IInv, TypeInv, AnswersInv, CutInv, Say

-----------------------------------------------------------------------------
(* The first line, and the tunnel.                                         *)

\* handle_client goes on to the first line (Acquire).
LEMMA AcquireKeeps == ASSUME IInv, Acquire PROVE IInv'
  <1>1. /\ step = "accept" /\ step' = "line"
        /\ script' = script /\ tokens' = tokens /\ current' = current
        /\ remote' = remote /\ opened' = opened /\ framing' = framing /\ keep' = keep
        /\ out' = out /\ delivered' = delivered
    BY DEF Acquire, Goes, request, upstream
  <1>2. TypeInv'
    BY <1>1 DEF IInv, TypeInv, Steps, Serving
  <1>3. StreamInv'
    BY <1>1 DEF IInv, StreamInv, Coming, Tokens, Serving
  <1>4. RemoteInv'
    BY <1>1 DEF IInv, RemoteInv
  <1>5. KindInv'
    BY <1>1, OutSame DEF IInv, KindInv, Serving
  <1>6. AnswersInv'
    BY <1>1, OutSame DEF IInv, AnswersInv
  <1>7. CutInv'
    BY <1>1, OutSame DEF IInv, CutInv
  <1>8. SentInv'
    BY <1>1, SentSame DEF IInv, SentInv
  <1> QED
    BY <1>2, <1>3, <1>4, <1>5, <1>6, <1>7, <1>8 DEF IInv

\* Before anything was said no answer was begun.
LEMMA NothingSaid ==
    ASSUME out = <<>> PROVE Relayed = {} /\ Opens = {} /\ Closes = {}
  BY DEF Relayed, Opens, Closes

\* The request line decides between a tunnel and requests (handle_client).
LEMMA FirstLineKeeps == ASSUME IInv, FirstLine PROVE IInv'
  <1>1. /\ step = "line" /\ UNCHANGED <<request, opened, delivered, remote, keep>>
        /\ script' = script /\ tokens' = tokens /\ current' = current /\ framing' = framing
    BY DEF FirstLine, request, upstream
  <1>2. out = <<>> /\ delivered = <<>> /\ keep \in BOOLEAN
    BY <1>1 DEF IInv, KindInv, TypeInv
  <1>3. CASE step' = "release" /\ out' = out
    BY <1>1, <1>2, <1>3, QuietEnd DEF Ending
  <1>4. CASE step' = "release" /\ Say(0, "400")
    <2>1. Opens = {}
      BY <1>2, NothingSaid
    <2>2. step' \in Ending /\ (remote' = remote \/ remote' = NoRemote) /\ keep' \in BOOLEAN
      BY <1>1, <1>2, <1>4 DEF Ending
    <2>3. 0 \in Nat /\ "400" \in Kinds /\ Say(0, "400")
      BY <1>4 DEF Kinds
    <2>4. UNCHANGED <<request, opened, delivered>>
      BY <1>1
    <2> QED
      BY <2>1, <2>2, <2>3, <2>4, SaidEnd, Zenon
  <1>5. CASE Coming /\ step' = (IF script[1].method = "CONNECT" THEN "tunnel" ELSE "head")
                    /\ out' = out
    <2>1. /\ Relayed = {} /\ Opens = {} /\ Closes = {}
          /\ Relayed' = {} /\ Opens' = {} /\ Closes' = {}
      BY <1>1, <1>2, <1>5, NothingSaid, OutSame
    <2>2. TypeInv'
      BY <1>1, <1>5 DEF IInv, TypeInv, Steps, Serving
    <2>3. StreamInv'
      <3>1. current = NoCurrent /\ tokens.n = 1 /\ tokens.left = Tokens(1)
        BY <1>1, <1>5 DEF IInv, StreamInv
      <3>2. tokens.n > current.n
        BY <3>1 DEF NoCurrent
      <3>3. Ahead'
        BY <1>1, <3>1, <3>2 DEF Ahead, Coming, Tokens
      <3> QED
        BY <1>5, <3>3 DEF StreamInv, Serving
    <2>4. RemoteInv'
      BY <1>1, <1>5 DEF IInv, RemoteInv
    <2>5. KindInv'
      BY <1>1, <1>2, <1>5, <2>1 DEF IInv, KindInv, Serving
    <2>6. AnswersInv'
      BY <1>1, <1>5, <2>1, OutSame DEF IInv, AnswersInv
    <2>7. CutInv'
      BY <1>1, <1>5, <2>1, OutSame DEF IInv, CutInv
    <2>8. SentInv'
      BY <1>1, <1>2, <1>5, SentSame DEF IInv, SentInv
    <2> QED
      BY <2>2, <2>3, <2>4, <2>5, <2>6, <2>7, <2>8 DEF IInv
  <1> QED
    BY <1>3, <1>4, <1>5 DEF FirstLine, Goes

\* A CONNECT is refused, or becomes a tunnel that carries no requests (handle_connect).
LEMMA TunnelKeeps == ASSUME IInv, Tunnel PROVE IInv'
  <1>1. /\ step = "tunnel" /\ UNCHANGED <<request, opened, delivered, keep, framing>>
        /\ script' = script /\ tokens' = tokens /\ current' = current
    BY DEF Tunnel, request
  <1>2. out = <<>> /\ keep \in BOOLEAN /\ script[1].method = "CONNECT" /\ out \in Seq(Said)
    BY <1>1 DEF IInv, KindInv, TypeInv
  <1>3. CASE step' = "finally" /\ out' = out /\ remote' = remote
    BY <1>1, <1>2, <1>3, QuietEnd DEF Ending
  <1>4. CASE step' = "finally" /\ Say(1, "502") /\ remote' = remote
    <2>1. Opens = {}
      BY <1>2, NothingSaid
    <2>2. step' \in Ending /\ (remote' = remote \/ remote' = NoRemote) /\ keep' \in BOOLEAN
      BY <1>1, <1>2, <1>4 DEF Ending
    <2>3. 1 \in Nat /\ "502" \in Kinds /\ Say(1, "502")
      BY <1>4 DEF Kinds
    <2>4. UNCHANGED <<request, opened, delivered>>
      BY <1>1
    <2> QED
      BY <2>1, <2>2, <2>3, <2>4, SaidEnd, Zenon
  <1>5. CASE Say(1, "200") /\ step' = "relay"
             /\ remote' = [origin |-> script[1].origin, stream |-> <<>>]
    <2>1. Relayed = {} /\ Opens = {} /\ Closes = {}
      BY <1>2, NothingSaid
    <2>2. /\ out' \in Seq(Said) /\ Relayed' = {} /\ Opens' = {} /\ Closes' = {}
          /\ Attribution' /\ NoneAfterCut'
      <3>1. Attribution /\ NoneAfterCut /\ \A i \in Opens : \E k \in Closes : i <= k
        BY <2>1 DEF IInv, AnswersInv, CutInv
      <3>2. 1 \in Nat /\ "200" \in Kinds
            /\ out' = Append(out, [n |-> 1, kind |-> "200", from |-> "proxy"])
        BY <1>5 DEF Say, Kinds
      <3> QED
        BY <1>1, <1>2, <2>1, <3>1, <3>2, SayKeeps, Zenon
    <2>3. remote' \in [origin: Origins \cup {NoOrigin}, stream: Seq(Piece)]
      <3>1. script[1].origin \in Origins
        BY ScriptFacts DEF IInv, TypeInv, Requests
      <3> QED
        BY <1>5, <3>1
    <2>4. TypeInv'
      BY <1>1, <1>5, <2>2, <2>3 DEF IInv, TypeInv, Steps, Serving
    <2>5. StreamInv'
      BY <1>5 DEF StreamInv, Serving
    <2>6. RemoteInv'
      BY <1>5 DEF RemoteInv
    <2>7. KindInv'
      BY <1>1, <1>2, <1>5, <2>2 DEF KindInv, Serving
    <2>8. AnswersInv'
      BY <1>5, <2>2 DEF AnswersInv
    <2>9. CutInv'
      BY <1>5, <2>2 DEF CutInv
    <2>10. SentInv'
      BY <1>1, <1>5, SentSame DEF IInv, SentInv
    <2> QED
      BY <2>4, <2>5, <2>6, <2>7, <2>8, <2>9, <2>10 DEF IInv
  <1> QED
    BY <1>3, <1>4, <1>5 DEF Tunnel, Goes

-----------------------------------------------------------------------------
(* Requests.                                                               *)

\* The client may be gone wherever it is read.
LEMMA ClientEndsKeeps == ASSUME IInv, ClientEnds PROVE IInv'
  <1>1. /\ step \in {"line", "head", "body"} /\ Coming /\ step' = step
        /\ tokens' = [tokens EXCEPT !.left = <<>>]
        /\ script' = script /\ current' = current
        /\ remote' = remote /\ opened' = opened /\ framing' = framing /\ keep' = keep
        /\ out' = out /\ delivered' = delivered
    BY DEF ClientEnds, upstream
  <1>2. tokens \in [n: DOMAIN script, left: Seq(Token)]
    BY DEF IInv, TypeInv
  <1>3. tokens' \in [n: DOMAIN script, left: Seq(Token)] /\ tokens'.n = tokens.n
        /\ tokens'.left = <<>>
    BY <1>1, <1>2, EmptySeq
  <1>4. TypeInv'
    BY <1>1, <1>3 DEF IInv, TypeInv
  <1>5. StreamInv'
    BY <1>1, <1>3 DEF IInv, StreamInv, Coming, Served, Ahead, Serving
  <1>6. RemoteInv'
    BY <1>1 DEF IInv, RemoteInv, Served, Entire, Remainder
  <1>7. KindInv'
    BY <1>1, OutSame DEF IInv, KindInv
  <1>8. AnswersInv'
    BY <1>1, OutSame DEF IInv, AnswersInv
  <1>9. CutInv'
    BY <1>1, OutSame DEF IInv, CutInv
  <1>10. SentInv'
    BY <1>1, SentSame DEF IInv, SentInv
  <1> QED
    BY <1>4, <1>5, <1>6, <1>7, <1>8, <1>9, <1>10 DEF IInv

\* The next head is that of a later request, and what is left of the stream is that
\* request's body, if it has one that the proxy can delimit (read_head).
LEMMA HeadRead ==
    ASSUME script \in Scripts, tokens \in [n: DOMAIN script, left: Seq(Token)], Coming,
           tokens.left = Tokens(tokens.n)
    PROVE  LET r == script[tokens.n]
               H == Tok(tokens.n, "head")
           IN  /\ Head(tokens.left) = H
               /\ r.framing \in {"length", "chunked"} =>
                     Past = [n |-> tokens.n, left |->
                               <<Tok(tokens.n, "data"), Tok(tokens.n, "last")>>]
               /\ r.framing = "none" /\ r.method # "POST" /\ Past.left # <<>> =>
                     Past.left = Tokens(Past.n) /\ Past.n > tokens.n
  <1> DEFINE n == tokens.n
             r == script[n]
  <1>1. n \in DOMAIN script /\ n \in Nat
    BY ScriptFacts
  <1>2. /\ r.framing \in {"length", "chunked"} =>
              Tokens(n) = <<Tok(n, "head"), Tok(n, "data"), Tok(n, "last")>>
        /\ r.framing \notin {"length", "chunked"} /\ r.method = "POST" =>
              Tokens(n) = <<Tok(n, "head"), Tok(n, "raw")>>
        /\ r.framing \notin {"length", "chunked"} /\ r.method # "POST" =>
              Tokens(n) = <<Tok(n, "head")>>
    BY <1>1, TokensFacts
  <1>3. Head(tokens.left) = Tok(n, "head")
    <2> HIDE DEF n
    <2>1. tokens.left = Tokens(n)
      BY DEF n
    <2> QED
      BY <1>2, <2>1
  <1>4. r.framing \in {"length", "chunked"} =>
            Past = [n |-> n, left |-> <<Tok(n, "data"), Tok(n, "last")>>]
    <2> SUFFICES ASSUME r.framing \in {"length", "chunked"}
                 PROVE  Past = [n |-> n, left |-> <<Tok(n, "data"), Tok(n, "last")>>]
      OBVIOUS
    <2>1. tokens.left = <<Tok(n, "head"), Tok(n, "data"), Tok(n, "last")>>
      BY <1>2
    <2>2. Len(tokens.left) = 3 /\ Tail(tokens.left) = <<Tok(n, "data"), Tok(n, "last")>>
      BY <2>1
    <2>3. Past = [n |-> n, left |-> Tail(tokens.left)]
      BY <2>2, PastTypes
    <2> QED
      BY <2>2, <2>3
  <1>5. r.framing = "none" /\ r.method # "POST" /\ Past.left # <<>> =>
            Past.left = Tokens(Past.n) /\ Past.n > n
    <2> SUFFICES ASSUME r.framing = "none", r.method # "POST", Past.left # <<>>
                 PROVE  Past.left = Tokens(Past.n) /\ Past.n > n
      OBVIOUS
    <2>1. tokens.left = <<Tok(n, "head")>>
      BY <1>2
    <2>2. Len(tokens.left) = 1
      BY <2>1
    <2>3. \/ Past = [n |-> n + 1, left |-> Tokens(n + 1)]
          \/ Past = [n |-> n, left |-> <<>>]
      BY <2>2, PastTypes
    <2>4. Past = [n |-> n + 1, left |-> Tokens(n + 1)]
      BY <2>3
    <2>5. Past.n = n + 1 /\ Past.left = Tokens(n + 1)
      BY <2>4
    <2>6. n + 1 > n
      BY <1>1
    <2> QED
      BY <2>5, <2>6
  <1> QED
    BY <1>3, <1>4, <1>5

\* Whatever comes next is taken for a head, and it is one (read_head).
LEMMA ReadHeadKeeps == ASSUME IInv, ReadHead PROVE IInv'
  <1>1. /\ step = "head"
        /\ script' = script
        /\ remote' = remote /\ opened' = opened /\ framing' = framing /\ keep' = keep
        /\ out' = out /\ delivered' = delivered
    BY DEF ReadHead, upstream
  <1>2. /\ tokens \in [n: DOMAIN script, left: Seq(Token)] /\ script \in Scripts
        /\ keep \in BOOLEAN /\ current.n \in Nat /\ remote.stream = <<>>
    BY <1>1 DEF IInv, TypeInv, RemoteInv
  <1>3. CASE step' = "finally" /\ UNCHANGED <<tokens, current>>
    BY <1>1, <1>2, <1>3, QuietEnd DEF Ending, request
  <1>4. CASE Coming /\ current' = Head(tokens.left) /\ tokens' = Past /\ step' = "checked"
    <2>1. tokens.left = Tokens(tokens.n) /\ tokens.n > current.n
      BY <1>1, <1>4 DEF IInv, StreamInv, Ahead
    <2> DEFINE n == tokens.n
               r == script[n]
    <2>2. /\ current' = Tok(n, "head")
          /\ r.framing \in {"length", "chunked"} =>
                tokens' = [n |-> n, left |-> <<Tok(n, "data"), Tok(n, "last")>>]
          /\ r.framing = "none" /\ r.method # "POST" /\ tokens'.left # <<>> =>
                tokens'.left = Tokens(tokens'.n) /\ tokens'.n > n
      BY <1>2, <1>4, <2>1, HeadRead
    <2>3. current'.n = n /\ n \in DOMAIN script /\ n \in Nat /\ Served' = r
      BY <1>1, <1>2, <2>2, ScriptFacts DEF Tok, Served
    <2>4. tokens' \in [n: DOMAIN script, left: Seq(Token)]
      BY <1>2, <1>4, PastTypes
    <2> HIDE DEF n, r
    <2>5. TypeInv'
      BY <1>1, <1>2, <1>4, <2>2, <2>3, <2>4 DEF IInv, TypeInv, Steps
    <2>6. StreamInv'
      <3>1. r.framing \in {"length", "chunked"} => BodyLeft'
        BY <2>2, <2>3 DEF BodyLeft
      <3>2. r.framing = "none" /\ r.method # "POST" => Ahead'
        BY <1>1, <2>2, <2>3 DEF Ahead, Coming, Tokens
      <3> QED
        BY <1>4, <2>3, <3>1, <3>2 DEF StreamInv
    <2>7. RemoteInv'
      BY <1>1, <1>2, <1>4 DEF RemoteInv
    <2>8. KindInv'
      BY <1>1, <1>4, OutSame DEF IInv, KindInv
    <2>9. AnswersInv'
      <3>1. current'.n > current.n
        BY <2>1, <2>3 DEF n
      <3>2. \A i \in Relayed : out[i].n <= current.n /\ out[i].n \in Nat
        <4>1. out \in Seq(Said)
          BY DEF IInv, TypeInv
        <4>2. \A i \in DOMAIN out : out[i] \in Said
          BY <4>1
        <4> QED
          BY <4>2 DEF Relayed, IInv, AnswersInv, Said
      <3>3. \A i \in Relayed : out[i].n < current'.n
        BY <1>2, <2>3, <3>1, <3>2
      <3>4. \A i \in Opens : out[i].n < current'.n
        BY <3>3 DEF Opens
      <3>5. \A i \in Relayed : out[i].n <= current'.n
        BY <2>3, <3>2, <3>3
      <3> QED
        BY <1>1, <3>4, <3>5, OutSame DEF IInv, AnswersInv
    <2>10. CutInv'
      BY <1>1, <1>4, OutSame DEF IInv, CutInv
    <2>11. SentInv'
      BY <1>1, <1>4, SentSame DEF IInv, SentInv
    <2> QED
      BY <2>5, <2>6, <2>7, <2>8, <2>9, <2>10, <2>11 DEF IInv
  <1> QED
    BY <1>3, <1>4 DEF ReadHead, Goes

\* A request that cannot be trusted is refused, and an upstream connection to
\* another origin is closed first (handle_http).
LEMMA CheckKeeps == ASSUME IInv, Check PROVE IInv'
  <1>1. /\ step = "checked"
        /\ script' = script /\ tokens' = tokens /\ current' = current
        /\ opened' = opened /\ framing' = framing /\ keep' = keep /\ delivered' = delivered
    BY DEF Check, request
  <1>2. /\ keep \in BOOLEAN /\ remote.stream = <<>> /\ current.n \in Nat
        /\ remote \in [origin: Origins \cup {NoOrigin}, stream: Seq(Piece)]
    BY <1>1 DEF IInv, TypeInv, RemoteInv
  <1>3. CASE Say(current.n, "400") /\ step' = "finally" /\ remote' = remote
    <2>1. \A i \in Opens : \E k \in Closes : i <= k
      BY <1>1 DEF IInv, CutInv
    <2>2. step' \in Ending /\ (remote' = remote \/ remote' = NoRemote) /\ keep' \in BOOLEAN
      BY <1>1, <1>2, <1>3 DEF Ending
    <2>3. current.n \in Nat /\ "400" \in Kinds /\ Say(current.n, "400")
      BY <1>2, <1>3 DEF Kinds
    <2>4. UNCHANGED <<request, opened, delivered>>
      BY <1>1 DEF request
    <2> QED
      BY <2>1, <2>2, <2>3, <2>4, SaidEnd, Zenon
  <1>4. CASE /\ Served.framing # "bad" /\ step' = "forward" /\ out' = out
             /\ remote' = IF remote.origin = Served.origin THEN remote ELSE NoRemote
    <2>1. remote' \in [origin: Origins \cup {NoOrigin}, stream: Seq(Piece)]
          /\ remote'.stream = <<>> /\ (remote' = NoRemote \/ remote'.origin = Served.origin)
      BY <1>2, <1>4 DEF NoRemote
    <2>2. TypeInv'
      BY <1>1, <1>4, <2>1 DEF IInv, TypeInv, Steps, Serving
    <2>3. StreamInv'
      BY <1>1, <1>4 DEF IInv, StreamInv, Coming, Served, BodyLeft, Ahead, Tokens, Serving
    <2>4. RemoteInv'
      <3>1. Served' = Served /\ NoRemote' = NoRemote
        BY <1>1 DEF Served, NoRemote
      <3> QED
        BY <1>4, <2>1, <3>1 DEF RemoteInv
    <2>5. KindInv'
      BY <1>1, <1>4, OutSame DEF IInv, KindInv, Serving
    <2>6. AnswersInv'
      BY <1>1, <1>4, OutSame DEF IInv, AnswersInv
    <2>7. CutInv'
      BY <1>1, <1>4, OutSame DEF IInv, CutInv
    <2>8. SentInv'
      BY <1>1, <1>4, SentSame DEF IInv, SentInv
    <2> QED
      BY <2>2, <2>3, <2>4, <2>5, <2>6, <2>7, <2>8 DEF IInv
  <1> QED
    BY <1>3, <1>4 DEF Check, Goes

\* What is forwarded next starts a request behind a complete one, or continues the
\* one before it.
LEMMA SentGrows ==
    ASSUME delivered \in Seq(Sent), script' = script, NEW e \in Sent,
           delivered' = Append(delivered, e), Intact,
           e.origin = script[e.n].origin,
           e.role = "start" =>
               /\ e.kind = "head"
               /\ delivered # <<>> => script[LastSent.n].framing = "none" \/ LastSent.kind = "last",
           e.role = "body" => delivered # <<>> /\ LastSent.n = e.n /\ LastSent.conn = e.conn
    PROVE  delivered' \in Seq(Sent) /\ delivered' # <<>> /\ LastSent' = e /\ Intact'
  <1> DEFINE l == Len(delivered)
  <1>1. l \in Nat /\ DOMAIN delivered = 1 .. l
    BY LenProperties
  <1>2. /\ delivered' \in Seq(Sent) /\ Len(delivered') = l + 1 /\ delivered' # <<>>
        /\ \A i \in 1 .. l : delivered'[i] = delivered[i]
        /\ delivered'[l + 1] = e
    BY AppendProperties
  <1>3. DOMAIN delivered' = 1 .. l + 1
    BY <1>2, LenProperties
  <1>4. LastSent' = e
    BY <1>2 DEF LastSent
  <1>5. l > 0 => delivered # <<>> /\ LastSent = delivered[l]
    BY EmptySeq DEF LastSent
  <1> HIDE DEF l
  <1>6. ASSUME NEW i \in 1 .. l
        PROVE  LET d == delivered'[i]
               IN  /\ d.origin = script[d.n].origin
                   /\ d.role = "start" => d.kind = "head"
                   /\ d.role = "body" => i > 1 /\ delivered'[i - 1].n = d.n
                                               /\ delivered'[i - 1].conn = d.conn
                   /\ (d.role = "start" /\ i > 1 /\ delivered'[i - 1].conn = d.conn)
                        => script[delivered'[i - 1].n].framing = "none"
                           \/ delivered'[i - 1].kind = "last"
    <2>1. delivered'[i] = delivered[i] /\ (i > 1 => delivered'[i - 1] = delivered[i - 1])
      BY <1>1, <1>2
    <2> QED
      BY <1>1, <2>1 DEF Intact
  <1>7. /\ e.role = "body" => l > 0 /\ delivered'[l].n = e.n /\ delivered'[l].conn = e.conn
        /\ (e.role = "start" /\ l > 0)
             => script[delivered'[l].n].framing = "none" \/ delivered'[l].kind = "last"
    <2>1. l > 0 => delivered'[l] = LastSent
      BY <1>1, <1>2, <1>5
    <2>2. delivered # <<>> => l > 0
      BY <1>1, EmptySeq DEF l
    <2> QED
      BY <2>1, <2>2, <1>5
  <1>8. Intact'
    <2> SUFFICES ASSUME NEW i \in DOMAIN delivered'
                 PROVE  LET d == delivered'[i]
                        IN  /\ d.origin = script[d.n].origin
                            /\ d.role = "start" => d.kind = "head"
                            /\ d.role = "body" => i > 1 /\ delivered'[i - 1].n = d.n
                                                        /\ delivered'[i - 1].conn = d.conn
                            /\ (d.role = "start" /\ i > 1 /\ delivered'[i - 1].conn = d.conn)
                                 => script[delivered'[i - 1].n].framing = "none"
                                    \/ delivered'[i - 1].kind = "last"
      BY DEF Intact
    <2>1. i \in 1 .. l \/ i = l + 1
      BY <1>1, <1>3
    <2>2. CASE i \in 1 .. l
      BY <1>6, <2>2
    <2>3. CASE i = l + 1
      <3>1. i - 1 = l /\ (i > 1 <=> l > 0) /\ delivered'[i] = e
        BY <1>1, <1>2, <2>3
      <3> QED
        BY <1>7, <3>1
    <2> QED
      BY <2>1, <2>2, <2>3
  <1> QED
    BY <1>2, <1>4, <1>8

\* A head that keeps its framing header is answered by one answer, and is a head.
LEMMA PlainForward ==
    ASSUME Plain, current.n \in DOMAIN script
    PROVE  /\ ~Bare(Served)
           /\ \A s \in Replies(Served, current.n) :
                 \E a \in Answers : s = Answered(current.n, a) \o <<>>
  <1>1. ~Bare(Served)
    BY DEF Plain, Bare, Served
  <1>2. Replies(Served, current.n) =
           {Answered(current.n, a) \o s : a \in Answers, s \in {<<>>} \cup {}}
    BY <1>1 DEF Replies
  <1> QED
    BY <1>1, <1>2

\* A request is forwarded on a connection to its own origin, with nothing of an
\* earlier answer in front of its own (handle_http).
LEMMA ForwardKeeps == ASSUME Plain, IInv, Forward PROVE IInv'
  <1>1. /\ step = "forward"
        /\ script' = script /\ tokens' = tokens /\ current' = current /\ keep' = keep
    BY DEF Forward, request
  <1>2. /\ keep \in BOOLEAN /\ remote.stream = <<>> /\ current.n \in DOMAIN script
        /\ current.n \in Nat /\ current = Tok(current.n, "head") /\ script \in Scripts
        /\ remote \in [origin: Origins \cup {NoOrigin}, stream: Seq(Piece)]
        /\ remote = NoRemote \/ remote.origin = Served.origin
        /\ opened \in Nat /\ delivered \in Seq(Sent)
    BY <1>1 DEF IInv, TypeInv, RemoteInv, Serving
  <1>3. CASE Say(current.n, "502") /\ step' = "finally"
             /\ UNCHANGED <<remote, opened, delivered, framing>>
    <2>1. \A i \in Opens : \E k \in Closes : i <= k
      BY <1>1 DEF IInv, CutInv
    <2>2. step' \in Ending /\ (remote' = remote \/ remote' = NoRemote) /\ keep' \in BOOLEAN
      BY <1>1, <1>2, <1>3 DEF Ending
    <2>3. current.n \in Nat /\ "502" \in Kinds /\ Say(current.n, "502")
      BY <1>2, <1>3 DEF Kinds
    <2>4. UNCHANGED <<request, opened, delivered>>
      BY <1>1, <1>3 DEF request
    <2> QED
      BY <2>1, <2>2, <2>3, <2>4, SaidEnd, Zenon
  <1>4. ASSUME opened' = opened + (IF remote = NoRemote THEN 1 ELSE 0),
               NEW a \in Answers,
               remote' = [origin |-> IF remote = NoRemote THEN Served.origin ELSE remote.origin,
                          stream |-> remote.stream \o (Answered(current.n, a) \o <<>>)],
               Forwarded(opened', "start"), framing' = Served.framing,
               step' = (IF Served.framing \in {"length", "chunked"} THEN "body" ELSE "answer"),
               out' = out
        PROVE  IInv'
    <2>1. Served \in Requests /\ Served' = Served /\ Served.framing # "bad"
      BY <1>1, <1>2, ScriptFacts DEF Served, IInv, StreamInv, Serving
    <2>2. Answered(current.n, a) \in Seq(Piece) /\ Entire(Answered(current.n, a))
      BY <1>2, AnsweredFacts
    <2>3. remote.stream \o (Answered(current.n, a) \o <<>>) = Answered(current.n, a)
      BY <1>2, <2>2, ConcatEmptySeq
    <2>4. remote' = [origin |-> Served.origin, stream |-> Answered(current.n, a)]
      BY <1>2, <1>4, <2>3
    <2> DEFINE s == Answered(current.n, a)
    <2> HIDE DEF s
    <2>5. /\ remote' \in [origin: Origins \cup {NoOrigin}, stream: Seq(Piece)]
          /\ remote'.origin = Served.origin /\ remote'.stream = s
          /\ s \in Seq(Piece) /\ Entire(s)
      BY <2>1, <2>2, <2>4 DEF s, Requests
    <2> DEFINE e == [conn |-> opened', n |-> current.n, role |-> "start",
                     kind |-> current.kind, origin |-> remote'.origin]
    <2>6. /\ e \in Sent /\ delivered' = Append(delivered, e) /\ opened' \in Nat
          /\ e.kind = "head" /\ e.role = "start" /\ e.origin = script[e.n].origin
          /\ e.n = current.n /\ e.conn = opened'
      <3>1. current.kind = "head"
        BY <1>2 DEF Tok
      <3>2. opened' \in Nat
        BY <1>2, <1>4
      <3>3. Served.origin \in Origins
        BY <2>1 DEF Requests
      <3> QED
        BY <1>2, <1>4, <2>5, <3>1, <3>2, <3>3, PlainForward DEF Sent, Forwarded, Served
    <2> HIDE DEF e
    <2>7. delivered' \in Seq(Sent) /\ delivered' # <<>> /\ LastSent' = e /\ Intact'
      <3>1. delivered # <<>> => script[LastSent.n].framing = "none" \/ LastSent.kind = "last"
        BY <1>1 DEF IInv, SentInv
      <3>2. e.role # "body" /\ Intact
        BY <2>6 DEF IInv, SentInv
      <3> QED
        BY <1>1, <1>2, <2>6, <3>1, <3>2, SentGrows
    <2>8. step' \in {"body", "answer"}
      BY <1>4
    <2>9. TypeInv'
      BY <1>1, <1>2, <1>4, <2>5, <2>6, <2>7, <2>8 DEF IInv, TypeInv, Steps
    <2>10. StreamInv'
      <3>1. CASE Served.framing \in {"length", "chunked"}
        <4>1. step' = "body" /\ BodyLeft
          BY <1>1, <1>4, <3>1 DEF IInv, StreamInv
        <4>2. BodyLeft'
          BY <1>1, <4>1 DEF BodyLeft
        <4> QED
          BY <2>1, <4>1, <4>2 DEF StreamInv
      <3>2. CASE Served.framing = "none"
        <4>1. step' = "answer" /\ (Served.method # "POST" => Ahead)
          BY <1>1, <1>4, <3>2 DEF IInv, StreamInv
        <4>2. Indeterminate(Served') \/ Ahead'
          BY <1>1, <2>1, <3>2, <4>1 DEF Indeterminate, Ahead, Coming, Tokens
        <4> QED
          BY <2>1, <4>1, <4>2 DEF StreamInv, Indeterminate
      <3> QED
        BY <2>1, <3>1, <3>2 DEF Requests
    <2>11. RemoteInv'
      <3>1. Entire(remote.stream)'
        BY <1>1, <2>5 DEF Entire
      <3> QED
        BY <2>1, <2>5, <2>8, <3>1 DEF RemoteInv
    <2>12. KindInv'
      BY <1>1, <1>4, <2>8, OutSame DEF IInv, KindInv, Serving
    <2>13. AnswersInv'
      BY <1>1, <1>4, <2>8, OutSame DEF IInv, AnswersInv
    <2>14. CutInv'
      BY <1>1, <1>4, <2>8, OutSame DEF IInv, CutInv
    <2>15. SentInv'
      <3>1. e.kind = "head" /\ e.n = current'.n /\ e.conn = opened'
        BY <1>1, <2>6
      <3>2. step' = "answer" => script'[e.n].framing = "none"
        BY <1>1, <1>4, <2>1, <2>6 DEF Requests, Served
      <3> QED
        BY <2>7, <2>8, <3>1, <3>2 DEF SentInv
    <2> QED
      BY <2>9, <2>10, <2>11, <2>12, <2>13, <2>14, <2>15 DEF IInv
  <1>5. \/ Say(current.n, "502") /\ step' = "finally"
           /\ UNCHANGED <<remote, opened, delivered, framing>>
        \/ /\ opened' = opened + (IF remote = NoRemote THEN 1 ELSE 0)
           /\ \E s \in Replies(Served, current.n) :
                 remote' = [origin |-> IF remote = NoRemote THEN Served.origin ELSE remote.origin,
                            stream |-> remote.stream \o s]
           /\ Forwarded(opened', "start") /\ framing' = Served.framing
           /\ step' = (IF Served.framing \in {"length", "chunked"} THEN "body" ELSE "answer")
           /\ out' = out
    BY DEF Forward, Goes
  <1> QED
    BY <1>2, <1>3, <1>4, <1>5, PlainForward

\* A body is relayed up to its end and not past it (relay_body).
LEMMA RelayRequestKeeps == ASSUME IInv, RelayRequest PROVE IInv'
  <1> DEFINE n == current.n
             t == Head(tokens.left)
             e == [conn |-> opened, n |-> t.n, role |-> "body", kind |-> t.kind,
                   origin |-> remote.origin]
  <1>1. /\ step = "body" /\ Coming /\ tokens' = Past
        /\ step' = (IF t.kind = "last" THEN "answer" ELSE "body")
        /\ delivered' = Append(delivered, e)
        /\ script' = script /\ current' = current
        /\ remote' = remote /\ opened' = opened /\ framing' = framing /\ keep' = keep
        /\ out' = out
    BY DEF RelayRequest, Goes, upstream
  <1>2. /\ tokens \in [n: DOMAIN script, left: Seq(Token)] /\ script \in Scripts
        /\ n \in Nat /\ n \in DOMAIN script /\ tokens.n = n /\ opened \in Nat
        /\ delivered \in Seq(Sent)
        /\ remote \in [origin: Origins \cup {NoOrigin}, stream: Seq(Piece)]
        /\ remote.origin = Served.origin
    BY <1>1 DEF IInv, TypeInv, Serving, StreamInv, BodyLeft, RemoteInv
  <1>3. Past \in [n: DOMAIN script, left: Seq(Token)]
    BY <1>1, <1>2, PastTypes
  <1>4. \/ /\ t = Tok(n, "data") /\ step' = "body"
           /\ tokens'.n = n /\ tokens'.left = <<Tok(n, "last")>>
        \/ /\ t = Tok(n, "last") /\ step' = "answer"
           /\ tokens'.left # <<>> => tokens'.left = Tokens(tokens'.n) /\ tokens'.n > n
    <2>1. CASE tokens.left = <<Tok(n, "data"), Tok(n, "last")>>
      <3>1. t = Tok(n, "data") /\ Len(tokens.left) = 2
            /\ Tail(tokens.left) = <<Tok(n, "last")>>
        BY <2>1
      <3>2. Past = [n |-> n, left |-> <<Tok(n, "last")>>]
        <4>1. Len(tokens.left) > 1
          BY <3>1
        <4>2. Past = [n |-> tokens.n, left |-> Tail(tokens.left)]
          BY <1>1, <1>2, <4>1, PastTypes
        <4> QED
          BY <1>2, <3>1, <4>2
      <3>3. t.kind = "data"
        BY <3>1 DEF Tok
      <3>4. tokens'.n = n /\ tokens'.left = <<Tok(n, "last")>>
        BY <1>1, <3>2
      <3>5. step' = "body"
        BY <1>1, <3>3
      <3> HIDE DEF t
      <3> QED
        BY <3>1, <3>4, <3>5
    <2>2. CASE tokens.left = <<Tok(n, "last")>>
      <3>1. t = Tok(n, "last") /\ Len(tokens.left) = 1
        BY <2>2
      <3>2. \/ Past = [n |-> n + 1, left |-> Tokens(n + 1)]
            \/ Past = [n |-> n, left |-> <<>>]
        BY <1>1, <1>2, <3>1, PastTypes
      <3>3. t.kind = "last"
        BY <3>1 DEF Tok
      <3>4. Past.left # <<>> => Past.n = n + 1 /\ Past.left = Tokens(n + 1)
        BY <3>2
      <3>5. n + 1 > n
        BY <1>2
      <3> QED
        BY <1>1, <3>1, <3>3, <3>4, <3>5
    <2> QED
      BY <1>1, <2>1, <2>2 DEF IInv, StreamInv, BodyLeft
  <1>5. t.n = n /\ t.kind \in {"data", "last"} /\ (t.kind = "last" <=> step' = "answer")
    BY <1>4 DEF Tok
  <1> HIDE DEF t
  <1>6. Served' = Served /\ Served \in Requests
    BY <1>1, <1>2, ScriptFacts DEF Served
  <1>7. /\ e \in Sent /\ e.origin = script[e.n].origin /\ e.role = "body"
        /\ e.n = n /\ e.conn = opened /\ e.kind = t.kind
    BY <1>2, <1>5, <1>6 DEF Sent, Served
  <1> HIDE DEF e
  <1>8. delivered' \in Seq(Sent) /\ delivered' # <<>> /\ LastSent' = e /\ Intact'
    <2>1. delivered # <<>> /\ LastSent.n = n /\ LastSent.conn = opened /\ Intact
      BY <1>1 DEF IInv, SentInv
    <2> QED
      BY <1>1, <1>2, <1>7, <2>1, SentGrows
  <1>9. TypeInv'
    BY <1>1, <1>2, <1>3, <1>8 DEF IInv, TypeInv, Steps, Serving
  <1>10. StreamInv'
    <2>1. step' = "body" => BodyLeft'
      BY <1>1, <1>4, <1>5 DEF BodyLeft
    <2>2. step' = "answer" => Ahead'
      BY <1>1, <1>4, <1>5, <1>6 DEF Ahead, Coming, Tokens, Tok
    <2>3. step' \in {"body", "answer"} /\ Served'.framing # "bad"
      BY <1>1, <1>6 DEF IInv, StreamInv, Serving
    <2> QED
      BY <2>1, <2>2, <2>3 DEF StreamInv
  <1>11. RemoteInv'
    <2>1. remote.stream = <<>> \/ Entire(remote.stream)
      BY <1>1 DEF IInv, RemoteInv
    <2>2. (remote.stream = <<>> \/ Entire(remote.stream))'
      BY <1>1, <2>1 DEF Entire
    <2> QED
      BY <1>1, <1>2, <1>6, <2>2 DEF RemoteInv
  <1>12. KindInv'
    BY <1>1, OutSame DEF IInv, KindInv, Serving
  <1>13. AnswersInv'
    BY <1>1, OutSame DEF IInv, AnswersInv
  <1>14. CutInv'
    BY <1>1, OutSame DEF IInv, CutInv
  <1>15. SentInv'
    BY <1>1, <1>5, <1>7, <1>8 DEF SentInv
  <1> QED
    BY <1>9, <1>10, <1>11, <1>12, <1>13, <1>14, <1>15 DEF IInv

-----------------------------------------------------------------------------
(* Answers.                                                                *)

\* The upstream may be gone wherever it is read.
LEMMA UpstreamEndsKeeps == ASSUME IInv, UpstreamEnds PROVE IInv'
  <1>1. /\ step \in {"forward", "body", "answer", "payload"} /\ step' = step
        /\ remote' = [remote EXCEPT !.stream = <<>>] /\ remote.stream # <<>>
        /\ script' = script /\ tokens' = tokens /\ current' = current
        /\ opened' = opened /\ framing' = framing /\ keep' = keep
        /\ out' = out /\ delivered' = delivered
    BY DEF UpstreamEnds, request
  <1>2. /\ remote \in [origin: Origins \cup {NoOrigin}, stream: Seq(Piece)]
        /\ step # "forward"
    BY <1>1 DEF IInv, TypeInv, RemoteInv
  <1>3. /\ remote' \in [origin: Origins \cup {NoOrigin}, stream: Seq(Piece)]
        /\ remote'.origin = remote.origin /\ remote'.stream = <<>>
    BY <1>1, <1>2, EmptySeq
  <1>4. TypeInv'
    BY <1>1, <1>3 DEF IInv, TypeInv
  <1>5. StreamInv'
    BY <1>1 DEF IInv, StreamInv, Coming, Served, Indeterminate, BodyLeft, Ahead, Tokens
  <1>6. RemoteInv'
    BY <1>1, <1>2, <1>3 DEF IInv, RemoteInv, Served, Remainder
  <1>7. KindInv'
    BY <1>1, OutSame DEF IInv, KindInv
  <1>8. AnswersInv'
    BY <1>1, OutSame DEF IInv, AnswersInv
  <1>9. CutInv'
    BY <1>1, OutSame DEF IInv, CutInv
  <1>10. SentInv'
    BY <1>1, SentSame DEF IInv, SentInv
  <1> QED
    BY <1>4, <1>5, <1>6, <1>7, <1>8, <1>9, <1>10 DEF IInv

\* No answer, or one cut short, is not followed by another on the same connection.
LEMMA CutKeeps == ASSUME IInv, NoAnswer \/ AnswerEnds PROVE IInv'
  <1>1. /\ step \in {"answer", "payload"} /\ step' \in {"settle", "finally"} /\ keep' = FALSE
        /\ script' = script /\ tokens' = tokens /\ current' = current
        /\ remote' = remote /\ opened' = opened /\ framing' = framing
        /\ out' = out /\ delivered' = delivered
    BY DEF NoAnswer, AnswerEnds, Goes, request
  <1>2. TypeInv'
    BY <1>1 DEF IInv, TypeInv, Steps, Serving
  <1>3. StreamInv'
    BY <1>1 DEF IInv, StreamInv, Coming, Served, Indeterminate, Ahead, Tokens, Serving
  <1>4. RemoteInv'
    BY <1>1 DEF IInv, RemoteInv, Served
  <1>5. KindInv'
    BY <1>1, OutSame DEF IInv, KindInv, Serving
  <1>6. AnswersInv'
    BY <1>1, OutSame DEF IInv, AnswersInv
  <1>7. CutInv'
    BY <1>1, OutSame DEF IInv, CutInv
  <1>8. SentInv'
    BY <1>1, SentSame DEF IInv, SentInv
  <1> QED
    BY <1>2, <1>3, <1>4, <1>5, <1>6, <1>7, <1>8 DEF IInv

\* After a complete answer the connection may be read for the next head (handle_http).
LEMMA SettleKeeps == ASSUME IInv, Settle PROVE IInv'
  <1>1. /\ step = "settle"
        /\ step' = IF ~keep \/ Served.close \/ Indeterminate(Served) THEN "finally" ELSE "head"
        /\ script' = script /\ tokens' = tokens /\ current' = current
        /\ remote' = remote /\ opened' = opened /\ framing' = framing /\ keep' = keep
        /\ out' = out /\ delivered' = delivered
    BY DEF Settle, Goes, request, upstream
  <1>2. keep \in BOOLEAN
    BY DEF IInv, TypeInv
  <1>3. CASE step' = "finally"
    BY <1>1, <1>2, <1>3, QuietEnd DEF Ending, request
  <1>4. CASE step' = "head" /\ keep /\ ~Indeterminate(Served)
    <2>1. TypeInv'
      BY <1>1, <1>4 DEF IInv, TypeInv, Steps, Serving
    <2>2. StreamInv'
      BY <1>1, <1>4 DEF IInv, StreamInv, Coming, Ahead, Tokens, Serving
    <2>3. RemoteInv'
      BY <1>1, <1>4 DEF IInv, RemoteInv
    <2>4. KindInv'
      BY <1>1, <1>4, OutSame DEF IInv, KindInv, Serving
    <2>5. AnswersInv'
      BY <1>1, <1>4, OutSame DEF IInv, AnswersInv
    <2>6. CutInv'
      BY <1>1, <1>4, OutSame DEF IInv, CutInv
    <2>7. SentInv'
      BY <1>1, <1>4, SentSame DEF IInv, SentInv
    <2> QED
      BY <2>1, <2>2, <2>3, <2>4, <2>5, <2>6, <2>7 DEF IInv
  <1> QED
    BY <1>1, <1>3, <1>4

\* The late 400 of handle_client is said, or is not.
LEMMA LateAnswerKeeps == ASSUME IInv, LateAnswer PROVE IInv'
  <1>1. /\ step' \in Ending /\ UNCHANGED <<request, opened, delivered>>
        /\ keep' \in BOOLEAN /\ (remote' = remote \/ remote' = NoRemote)
        /\ current.n \in Nat
    BY DEF LateAnswer, Goes, Ending, upstream, IInv, TypeInv
  <1>2. CASE script[1].method = "CONNECT" /\ Say(0, "400")
    <2>1. \A i \in Opens : \E k \in Closes : i <= k
      BY <1>2 DEF IInv, KindInv, Opens
    <2>2. 0 \in Nat /\ "400" \in Kinds
      BY DEF Kinds
    <2> QED
      BY <1>1, <1>2, <2>1, <2>2, SaidEnd, Zenon
  <1>3. CASE Say(current.n, "late")
    <2>1. "late" \in Kinds
      BY DEF Kinds
    <2> QED
      BY <1>1, <1>3, <2>1, SaidEnd, Zenon
  <1>4. CASE out' = out
    BY <1>1, <1>4, QuietEnd
  <1> QED
    BY <1>2, <1>3, <1>4 DEF LateAnswer

\* A piece of the answer is passed on (_relay_one_response): interim answers and
\* heads behind complete answers, the rest behind its own head.
LEMMA PassKeeps ==
    ASSUME out \in Seq(Said), script \in Scripts, script' = script,
           current.n \in DOMAIN script, Served.origin \in Origins, NEW kind \in Kinds,
           out' = Append(out, [n |-> current.n, kind |-> kind, from |-> Served.origin]),
           Attribution, NoneAfterCut, \A i \in Relayed : out[i].n <= current.n,
           kind \in {"head", "only"} => \A i \in Opens : out[i].n < current.n,
           kind \notin {"data", "last"} => \A i \in Opens : \E k \in Closes : i <= k
    PROVE  /\ out' \in Seq(Said) /\ Attribution' /\ NoneAfterCut'
           /\ \A i \in Relayed' : out'[i].n <= current.n
           /\ kind = "interim" => \A i \in Opens' : i \in Opens /\ out'[i] = out[i]
           /\ kind \in {"interim", "last", "only"} =>
                 \A i \in Opens' : \E k \in Closes' : i <= k
  <1> DEFINE e == [n |-> current.n, kind |-> kind, from |-> Served.origin]
             l == Len(out) + 1
             n == current.n
  <1>1. n \in Nat /\ Served.origin # "proxy"
    BY ScriptFacts, ProxyAssumption
  <1>2. /\ e \in Said /\ e.from # "proxy" /\ e.kind = kind /\ e.n = n
        /\ e.from = script[e.n].origin
    BY <1>1 DEF Said, Served
  <1>3. out' = Append(out, e)
    OBVIOUS
  <1> HIDE DEF e
  <1>4. /\ out' \in Seq(Said)
        /\ DOMAIN out' = DOMAIN out \cup {l}
        /\ \A i \in DOMAIN out : i \in Nat /\ i < l /\ out'[i] = out[i]
        /\ out'[l] = e
        /\ Relayed' = Relayed \cup {l}
        /\ Opens'  = Opens  \cup (IF kind \in {"head", "only"} THEN {l} ELSE {})
        /\ Closes' = Closes \cup (IF kind \in {"last", "only"} THEN {l} ELSE {})
    BY <1>2, <1>3, OutGrows
  <1>5. l \in Nat
    BY LenProperties
  <1> HIDE DEF l
  <1>6. Relayed \subseteq DOMAIN out /\ Opens \subseteq Relayed /\ Closes \subseteq Relayed
    BY DEF Relayed, Opens, Closes
  <1>7. \A i \in Relayed : out[i].n \in Nat /\ out'[i] = out[i] /\ i \in Nat /\ i < l
    <2>1. \A i \in DOMAIN out : out[i] \in Said
      OBVIOUS
    <2> QED
      BY <1>4, <1>6, <2>1 DEF Said
  <1>8. Attribution'
    <2>1. ASSUME NEW i \in Relayed' PROVE out'[i].from = script'[out'[i].n].origin
      BY <1>2, <1>4, <1>7, <2>1 DEF Attribution
    <2>2. ASSUME NEW i \in Opens', NEW j \in Opens', i < j PROVE out'[i].n < out'[j].n
      <3>1. i # l /\ i \in Opens
        BY <1>4, <1>5, <1>6, <1>7, <2>2
      <3>2. CASE j \in Opens
        BY <1>6, <1>7, <2>2, <3>1, <3>2 DEF Attribution
      <3>3. CASE j = l
        BY <1>2, <1>4, <1>6, <1>7, <2>2, <3>1, <3>3
      <3> QED
        BY <1>4, <3>2, <3>3
    <2>3. ASSUME NEW i \in Relayed', NEW j \in Relayed', i < j PROVE out'[i].n <= out'[j].n
      <3>1. i # l /\ i \in Relayed
        BY <1>4, <1>5, <1>7, <2>3
      <3>2. CASE j \in Relayed
        BY <1>7, <2>3, <3>1, <3>2 DEF Attribution
      <3>3. CASE j = l
        BY <1>2, <1>4, <1>7, <3>1, <3>3
      <3> QED
        BY <1>4, <3>2, <3>3
    <2> QED
      BY <2>1, <2>2, <2>3 DEF Attribution
  <1>9. NoneAfterCut'
    <2> SUFFICES ASSUME NEW i \in Opens', NEW j \in DOMAIN out',
                        i < j, out'[j].kind \notin {"data", "last", "late"}
                 PROVE  \E k \in Closes' : i <= k /\ k < j
      BY DEF NoneAfterCut
    <2>1. i \in Opens
      BY <1>4, <1>5, <1>6, <1>7
    <2>2. CASE j \in DOMAIN out
      BY <1>4, <2>1, <2>2 DEF NoneAfterCut
    <2>3. CASE j = l
      <3>1. kind \notin {"data", "last"}
        BY <1>2, <1>4, <2>3
      <3>2. PICK k \in Closes : i <= k
        BY <2>1, <3>1
      <3> QED
        BY <1>4, <1>6, <1>7, <2>3, <3>2
    <2> QED
      BY <1>4, <2>2, <2>3
  <1>10. \A i \in Relayed' : out'[i].n <= n
    <2> SUFFICES ASSUME NEW i \in Relayed' PROVE out'[i].n <= n
      OBVIOUS
    <2>1. CASE i \in Relayed
      BY <1>7, <2>1
    <2>2. CASE i = l
      BY <1>1, <1>2, <1>4, <2>2
    <2> QED
      BY <1>4, <2>1, <2>2
  <1>11. kind = "interim" => \A i \in Opens' : i \in Opens /\ out'[i] = out[i]
    BY <1>4, <1>6, <1>7
  <1>12. kind \in {"interim", "last", "only"} =>
             \A i \in Opens' : \E k \in Closes' : i <= k
    <2>1. CASE kind \in {"last", "only"}
      <3>1. l \in Closes'
        BY <1>4, <2>1
      <3>2. \A i \in Opens' : i <= l
        BY <1>4, <1>5, <1>6, <1>7
      <3> QED
        BY <3>1, <3>2
    <2>2. CASE kind = "interim"
      BY <1>4, <2>2
    <2> QED
      BY <2>1, <2>2
  <1> QED
    BY <1>4, <1>8, <1>9, <1>10, <1>11, <1>12

\* What _relay_one_response makes of the piece in front of it.
LEMMA AnswerHeadCases ==
    ASSUME IInv, AnswerHead
    PROVE  LET Passed(kind) ==
                 out' = Append(out, [n |-> current.n, kind |-> kind, from |-> Served.origin])
           IN  /\ remote'.origin = Served.origin
               /\ remote' \in [origin: Origins \cup {NoOrigin}, stream: Seq(Piece)]
               /\ \/ /\ Passed("interim") /\ step' = "answer" /\ keep' = keep
                     /\ Entire(remote'.stream)
                  \/ /\ Passed("only") /\ step' = "settle" /\ keep' = TRUE
                     /\ remote'.stream = <<>>
                  \/ /\ Passed("head") /\ step' = "payload" /\ keep' \in BOOLEAN
                     /\ Remainder(remote'.stream) /\ (framing' = "eof" => ~keep')
  <1> DEFINE s == remote.stream
             t == Head(s)
             kind == IF t.kind = "head" /\ ~t.answer.body THEN "only" ELSE t.kind
             n == current.n
  <1>1. /\ step = "answer" /\ s # <<>>
        /\ remote' = [remote EXCEPT !.stream = Tail(s)]
        /\ out' = Append(out, [n |-> t.n, kind |-> kind, from |-> remote.origin])
        /\ \/ t.kind = "interim" /\ UNCHANGED <<framing, keep, step>>
           \/ /\ t.kind = "head"
              /\ IF ~t.answer.body
                 THEN keep' = TRUE /\ step' = "settle"
                 ELSE /\ keep' = (framing' # "eof" /\ ~t.answer.close)
                      /\ step' = "payload"
    BY DEF AnswerHead, Pass, Goes
  <1>2. /\ remote \in [origin: Origins \cup {NoOrigin}, stream: Seq(Piece)]
        /\ remote.origin = Served.origin /\ s \in Seq(Piece) /\ Entire(s)
    BY <1>1 DEF IInv, TypeInv, RemoteInv
  <1> DEFINE rest == Tail(s)
  <1>3. rest \in Seq(Piece)
    BY <1>1, <1>2, HeadTailProperties
  <1>4. \/ t = Tok(n, "interim") /\ Entire(rest)
        \/ \E a \in Reply :
              /\ t = Heads(n, a)
              /\ ~a.body => rest = <<>>
              /\ a.body => rest = <<Tok(n, "data"), Tok(n, "last")>>
    BY <1>2, EntireTail
  <1> HIDE DEF rest, t, s
  <1>5. /\ remote' \in [origin: Origins \cup {NoOrigin}, stream: Seq(Piece)]
        /\ remote'.origin = Served.origin /\ remote'.stream = rest
    BY <1>1, <1>2, <1>3 DEF rest
  <1>6. CASE t = Tok(n, "interim") /\ Entire(rest)
    <2>1. t.kind = "interim" /\ t.n = n
      BY <1>6 DEF Tok
    <2>2. kind = "interim"
      BY <2>1
    <2>3. step' = "answer" /\ keep' = keep
      BY <1>1, <2>1
    <2> HIDE DEF kind
    <2>4. out' = Append(out, [n |-> n, kind |-> "interim", from |-> Served.origin])
      BY <1>1, <1>2, <2>1, <2>2
    <2> QED
      BY <1>5, <1>6, <2>3, <2>4
  <1>7. ASSUME NEW a \in Reply, t = Heads(n, a),
               ~a.body => rest = <<>>,
               a.body => rest = <<Tok(n, "data"), Tok(n, "last")>>
        PROVE  \/ /\ out' = Append(out, [n |-> n, kind |-> "only", from |-> Served.origin])
                  /\ step' = "settle" /\ keep' = TRUE /\ rest = <<>>
               \/ /\ out' = Append(out, [n |-> n, kind |-> "head", from |-> Served.origin])
                  /\ step' = "payload" /\ keep' \in BOOLEAN
                  /\ Remainder(rest) /\ (framing' = "eof" => ~keep')
    <2>1. t.kind = "head" /\ t.n = n /\ t.answer = a
      BY <1>7 DEF Heads
    <2>2. CASE a.body
      <3>1. kind = "head"
        BY <2>1, <2>2
      <3>2. step' = "payload" /\ keep' = (framing' # "eof" /\ ~a.close)
        BY <1>1, <2>1, <2>2
      <3> HIDE DEF kind
      <3>3. out' = Append(out, [n |-> n, kind |-> "head", from |-> Served.origin])
        BY <1>1, <1>2, <2>1, <3>1
      <3>4. keep' \in BOOLEAN /\ (framing' = "eof" => ~keep')
        BY <3>2
      <3> QED
        BY <1>7, <2>2, <3>2, <3>3, <3>4 DEF Remainder
    <2>3. CASE ~a.body
      <3>1. kind = "only"
        BY <2>1, <2>3
      <3>2. step' = "settle" /\ keep' = TRUE
        BY <1>1, <2>1, <2>3
      <3> HIDE DEF kind
      <3>3. out' = Append(out, [n |-> n, kind |-> "only", from |-> Served.origin])
        BY <1>1, <1>2, <2>1, <3>1
      <3> QED
        BY <1>7, <2>3, <3>2, <3>3
    <2> QED
      BY <2>2, <2>3
  <1> QED
    BY <1>4, <1>5, <1>6, <1>7

\* Interim answers are passed on, the real one opens an answer.
LEMMA AnswerHeadKeeps == ASSUME IInv, AnswerHead PROVE IInv'
  <1> DEFINE Passed(kind) ==
          out' = Append(out, [n |-> current.n, kind |-> kind, from |-> Served.origin])
  <1>1. /\ step = "answer"
        /\ script' = script /\ tokens' = tokens /\ current' = current
        /\ opened' = opened /\ delivered' = delivered
    BY DEF AnswerHead, request
  <1>2. /\ out \in Seq(Said) /\ script \in Scripts /\ current.n \in DOMAIN script
        /\ keep \in BOOLEAN
        /\ Attribution /\ NoneAfterCut /\ \A i \in Relayed : out[i].n <= current.n
        /\ \A i \in Opens : out[i].n < current.n
        /\ \A i \in Opens : \E k \in Closes : i <= k
    BY <1>1 DEF IInv, TypeInv, Serving, AnswersInv, CutInv
  <1>3. Served \in Requests /\ Served' = Served /\ Served.origin \in Origins
    BY <1>1, <1>2, ScriptFacts DEF Served, Requests
  <1>4. /\ remote'.origin = Served.origin
        /\ remote' \in [origin: Origins \cup {NoOrigin}, stream: Seq(Piece)]
        /\ \/ /\ Passed("interim") /\ step' = "answer" /\ keep' = keep
              /\ Entire(remote'.stream)
           \/ /\ Passed("only") /\ step' = "settle" /\ keep' = TRUE
              /\ remote'.stream = <<>>
           \/ /\ Passed("head") /\ step' = "payload" /\ keep' \in BOOLEAN
              /\ Remainder(remote'.stream) /\ (framing' = "eof" => ~keep')
    BY AnswerHeadCases
  <1>5. PICK kind \in {"interim", "only", "head"} :
           /\ Passed(kind)
           /\ kind = "interim" => /\ step' = "answer" /\ keep' = keep
                                  /\ Entire(remote'.stream)
           /\ kind = "only" => step' = "settle" /\ keep' = TRUE /\ remote'.stream = <<>>
           /\ kind = "head" => /\ step' = "payload" /\ keep' \in BOOLEAN
                               /\ Remainder(remote'.stream) /\ (framing' = "eof" => ~keep')
    BY <1>4
  <1>6. kind \in Kinds /\ kind \notin {"data", "last"}
    BY DEF Kinds
  <1>7. /\ out' \in Seq(Said) /\ Attribution' /\ NoneAfterCut'
        /\ \A i \in Relayed' : out'[i].n <= current.n
        /\ kind = "interim" => \A i \in Opens' : i \in Opens /\ out'[i] = out[i]
        /\ kind \in {"interim", "last", "only"} =>
              \A i \in Opens' : \E k \in Closes' : i <= k
    BY <1>1, <1>2, <1>3, <1>5, <1>6, PassKeeps
  <1>8. /\ step' \in {"answer", "settle", "payload"} /\ keep' \in BOOLEAN
        /\ (step' = "answer" <=> kind = "interim") /\ (step' = "settle" <=> kind = "only")
        /\ (step' = "payload" <=> kind = "head")
    BY <1>2, <1>5
  <1>9. TypeInv'
    BY <1>1, <1>4, <1>7, <1>8 DEF IInv, TypeInv, Steps, Serving
  <1>10. StreamInv'
    BY <1>1, <1>3, <1>8 DEF IInv, StreamInv, Coming, Indeterminate, Ahead, Tokens, Serving
  <1>11. RemoteInv'
    <2>1. Entire(remote'.stream) => Entire(remote.stream)'
      BY <1>1 DEF Entire
    <2>2. Remainder(remote'.stream) => Remainder(remote.stream)'
      BY <1>1 DEF Remainder
    <2> QED
      BY <1>3, <1>4, <1>5, <1>8, <2>1, <2>2 DEF RemoteInv
  <1>12. KindInv'
    BY <1>1, <1>8 DEF IInv, KindInv, Serving
  <1>13. AnswersInv'
    BY <1>1, <1>2, <1>7, <1>8 DEF AnswersInv
  <1>14. CutInv'
    BY <1>7, <1>8 DEF CutInv
  <1>15. SentInv'
    BY <1>1, <1>8, SentSame DEF IInv, SentInv
  <1> QED
    BY <1>9, <1>10, <1>11, <1>12, <1>13, <1>14, <1>15 DEF IInv

\* A delimited answer's end is where the upstream connection may be used again.
LEMMA RelayAnswerKeeps == ASSUME IInv, RelayAnswer PROVE IInv'
  <1> DEFINE s == remote.stream
             t == Head(s)
             n == current.n
  <1>1. /\ step = "payload" /\ s # <<>>
        /\ script' = script /\ tokens' = tokens /\ current' = current
        /\ opened' = opened /\ framing' = framing /\ keep' = keep /\ delivered' = delivered
        /\ remote' = [remote EXCEPT !.stream = Tail(s)]
        /\ out' = Append(out, [n |-> t.n,
               kind |-> IF t.kind = "head" /\ ~t.answer.body THEN "only" ELSE t.kind,
               from |-> remote.origin])
        /\ step' = IF t.kind = "last" /\ framing # "eof" THEN "settle" ELSE "payload"
    BY DEF RelayAnswer, Pass, Goes, request
  <1>2. /\ out \in Seq(Said) /\ script \in Scripts /\ n \in DOMAIN script
        /\ keep \in BOOLEAN
        /\ Attribution /\ NoneAfterCut /\ \A i \in Relayed : out[i].n <= n
        /\ remote \in [origin: Origins \cup {NoOrigin}, stream: Seq(Piece)]
        /\ remote.origin = Served.origin /\ Remainder(s) /\ (framing = "eof" => ~keep)
    BY <1>1 DEF IInv, TypeInv, Serving, AnswersInv, CutInv, RemoteInv
  <1>3. Served \in Requests /\ Served' = Served /\ Served.origin \in Origins
    BY <1>1, <1>2, ScriptFacts DEF Served, Requests
  <1>4. \/ t = Tok(n, "data") /\ Tail(s) = <<Tok(n, "last")>>
        \/ t = Tok(n, "last") /\ Tail(s) = <<>>
    <2>1. CASE s = <<Tok(n, "data"), Tok(n, "last")>>
      BY <2>1
    <2>2. CASE s = <<Tok(n, "last")>>
      BY <2>2
    <2> QED
      BY <1>1, <1>2, <2>1, <2>2 DEF Remainder
  <1>5. Tail(s) \in Seq(Piece)
    BY <1>1, <1>2, HeadTailProperties
  <1> DEFINE rest == Tail(s)
  <1> HIDE DEF rest, t, s
  <1>6. /\ remote' \in [origin: Origins \cup {NoOrigin}, stream: Seq(Piece)]
        /\ remote'.origin = Served.origin /\ remote'.stream = rest
    BY <1>1, <1>2, <1>5 DEF rest
  <1>7. t.n = n /\ t.kind \in {"data", "last"}
    BY <1>4 DEF Tok
  <1> DEFINE kind == t.kind
  <1>8. out' = Append(out, [n |-> n, kind |-> kind, from |-> Served.origin])
    BY <1>1, <1>2, <1>7
  <1>9. kind \in Kinds /\ kind \in {"data", "last"} /\ kind \notin {"head", "only", "interim"}
    BY <1>7 DEF Kinds
  <1>10. /\ kind = "last" => rest = <<>>
         /\ Remainder(rest)
    BY <1>4 DEF rest, Remainder, Tok
  <1>11. /\ out' \in Seq(Said) /\ Attribution' /\ NoneAfterCut'
         /\ \A i \in Relayed' : out'[i].n <= n
         /\ kind \in {"interim", "last", "only"} =>
               \A i \in Opens' : \E k \in Closes' : i <= k
    <2> HIDE DEF kind
    <2> QED
      BY <1>1, <1>2, <1>3, <1>8, <1>9, PassKeeps
  <1>12. step' \in {"settle", "payload"} /\ (step' = "settle" => kind = "last")
    BY <1>1
  <1>13. TypeInv'
    BY <1>1, <1>6, <1>11, <1>12 DEF IInv, TypeInv, Steps, Serving
  <1>14. StreamInv'
    BY <1>1, <1>3, <1>12 DEF IInv, StreamInv, Coming, Indeterminate, Ahead, Tokens, Serving
  <1>15. RemoteInv'
    <2>1. Remainder(remote.stream)'
      BY <1>1, <1>6, <1>10 DEF Remainder
    <2> QED
      BY <1>1, <1>2, <1>3, <1>6, <1>10, <1>12, <2>1 DEF RemoteInv
  <1>16. KindInv'
    BY <1>1, <1>12 DEF IInv, KindInv, Serving
  <1>17. AnswersInv'
    BY <1>1, <1>11, <1>12 DEF AnswersInv
  <1>18. CutInv'
    BY <1>11, <1>12 DEF CutInv
  <1>19. SentInv'
    BY <1>1, <1>12, SentSame DEF IInv, SentInv
  <1> QED
    BY <1>13, <1>14, <1>15, <1>16, <1>17, <1>18, <1>19 DEF IInv

-----------------------------------------------------------------------------
(* The theorems.                                                           *)

\* What the client sends on a connection is settled from the start.
LEMMA ScriptStays == [Next]_vars => script' = script
  <1>1. Runs => script' = script
    BY DEF Runs, Acquire, SlotTimeout, FirstLine, LateAnswer, Release, ReadHead, Check, Forward,
           RelayRequest, RequestCut, NoAnswer, AnswerHead, RelayAnswer, AnswerEnds, Settle,
           Finally, Tunnel, RelayDone, request
  <1>2. Peers => script' = script
    BY DEF Peers, OtherTakes, OtherLeaves, ClientEnds, UpstreamEnds, BodyTimeout, Reads, Breaks,
           Give, Hangup, Reset, Set, request
  <1>3. \A d \in Directions : Direction(d) => script' = script
    BY DEF Direction, Take, PassEof, PassIdle, Set, request
  <1> QED
    BY <1>1, <1>2, <1>3 DEF Next, Task, vars, request

\* Every step of the connection and of its peers keeps the invariant.
LEMMA NextKeeps == ASSUME Plain, IInv, [Next]_vars PROVE IInv'
  <1>1. CASE UNCHANGED vars
    BY <1>1, ElsewhereKeeps DEF vars
  <1>2. CASE OtherTakes \/ OtherLeaves
    BY <1>2, ElsewhereKeeps DEF OtherTakes, OtherLeaves
  <1>3. CASE \E d \in Directions : Give(d) \/ Hangup(d) \/ Reset(d) \/ Direction(d)
    BY <1>3, ElsewhereKeeps DEF Give, Hangup, Reset, Direction, Take, PassEof, PassIdle, Set
  <1>4. CASE Acquire \/ FirstLine \/ LateAnswer
    BY <1>4, AcquireKeeps, FirstLineKeeps, LateAnswerKeeps
  <1>5. CASE ReadHead \/ Check \/ Forward \/ RelayRequest
    BY <1>5, ReadHeadKeeps, CheckKeeps, ForwardKeeps, RelayRequestKeeps
  <1>6. CASE NoAnswer \/ AnswerHead \/ RelayAnswer \/ AnswerEnds \/ Settle
    BY <1>6, CutKeeps, AnswerHeadKeeps, RelayAnswerKeeps, SettleKeeps
  <1>7. CASE Tunnel \/ ClientEnds \/ UpstreamEnds
    BY <1>7, TunnelKeeps, ClientEndsKeeps, UpstreamEndsKeeps
  <1>8. CASE SlotTimeout
    <2>1. Opens = {}
      BY <1>8, NothingSaid DEF SlotTimeout, IInv, KindInv
    <2>2. /\ step' \in Ending /\ UNCHANGED <<request, opened, delivered>>
          /\ keep' \in BOOLEAN /\ (remote' = remote \/ remote' = NoRemote)
      BY <1>8 DEF SlotTimeout, Goes, Ending, upstream, IInv, TypeInv
    <2>3. 0 \in Nat /\ "503" \in Kinds /\ Say(0, "503")
      BY <1>8 DEF SlotTimeout, Kinds
    <2> QED
      BY <2>1, <2>2, <2>3, SaidEnd, Zenon
  <1>10. CASE \E p \in {"client", "upstream"} : Reads(p)
    BY <1>10, ElsewhereKeeps DEF Reads
  <1>11. CASE \E p \in {"client", "upstream"} : Breaks(p)
    <2>1. /\ step' \in Ending /\ UNCHANGED <<request, opened, delivered, out>>
          /\ keep' = keep /\ remote' = remote
      BY <1>11 DEF Breaks, Goes, Ending, upstream
    <2>2. keep' \in BOOLEAN
      BY <2>1 DEF IInv, TypeInv
    <2> QED
      BY <2>1, <2>2, QuietEnd
  <1>9. CASE Release \/ RequestCut \/ BodyTimeout \/ Finally \/ RelayDone
    <2>1. /\ step' \in Ending /\ UNCHANGED <<request, opened, delivered, out>>
          /\ keep' = keep /\ (remote' = remote \/ remote' = NoRemote)
      BY <1>9 DEF Release, RequestCut, BodyTimeout, Finally, RelayDone, Goes, Ending, upstream
    <2>2. keep' \in BOOLEAN
      BY <2>1 DEF IInv, TypeInv
    <2> QED
      BY <2>1, <2>2, QuietEnd
  <1> QED
    BY <1>1, <1>2, <1>3, <1>4, <1>5, <1>6, <1>7, <1>8, <1>9, <1>10, <1>11
       DEF Next, Task, Runs, Peers

\* Every reachable state of a plain connection satisfies the invariant.
THEOREM Invariance == Spec => [](Plain => IInv)
  <1>1. (Plain => IInv) /\ [Next]_vars => (Plain => IInv)'
    <2>1. [Next]_vars => (Plain' => Plain)
      BY ScriptStays DEF Plain
    <2> QED
      BY <2>1, NextKeeps
  <1> QED
    BY <1>1, InitInv, PTL DEF Spec

\* However the client pipelines and the upstreams answer, break off or fall silent,
\* each answer relayed is the one of its own request's origin, once per request and
\* in the order of the requests (handle_http's reuse of the upstream connection), if no
\* request names its own framing header in Connection.
THEOREM AnswersAreAttributed == Spec => []Attributed
  <1>1. (Plain => IInv) => Attributed
    BY DEF IInv, AnswersInv, Attributed
  <1> QED
    BY <1>1, Invariance, PTL

\* An answer that was not relayed to its end is the last thing the client is told,
\* the late 400 aside (the keep flag of _relay_one_response); for Plain requests.
THEOREM NothingFollowsACut == Spec => []NothingAfterCut
  <1>1. (Plain => IInv) => NothingAfterCut
    BY DEF IInv, CutInv, NothingAfterCut
  <1> QED
    BY <1>1, Invariance, PTL

\* What an upstream is sent is whole requests to its own origin, of which at most the
\* last was cut: no body is taken for a head (parse_framing, relay_body); for Plain
\* requests, since the head of another may lose its framing.
THEOREM RequestsStayIntact == Spec => []RequestsIntact
  <1>1. (Plain => IInv) => RequestsIntact
    BY DEF IInv, SentInv, RequestsIntact
  <1> QED
    BY <1>1, Invariance, PTL
=============================================================================

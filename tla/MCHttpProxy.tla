----------------------------- MODULE MCHttpProxy -----------------------------
(* HttpProxy with clients that pipeline up to three requests to two origins. *)
EXTENDS HttpProxy

Req(m, o, f, c) ==
    [method |-> m, origin |-> o, framing |-> f, close |-> c, hop |-> FALSE]
Named(r) == [r EXCEPT !.hop = TRUE]
MCRequests ==
    {Req("GET", "a", "none", FALSE), Req("GET", "b", "none", TRUE), Req("HEAD", "a", "none", FALSE),
     Req("POST", "a", "length", FALSE), Req("POST", "b", "chunked", FALSE),
     Req("POST", "a", "none", FALSE), Req("GET", "a", "bad", FALSE),
     Named(Req("POST", "a", "length", FALSE))}
MCScripts ==
    {<<r>> : r \in MCRequests \cup {Req("CONNECT", "a", "none", FALSE)}}
    \cup {<<q, r>> : q, r \in MCRequests}
    \cup {<<Req("GET", "a", "none", FALSE), Req("POST", "a", "length", FALSE), r>> :
             r \in MCRequests}

Ans(i, b, f, c) ==
    [interim |-> i, body |-> b, framing |-> f, close |-> c]
MCAnswers ==
    {Ans(0, TRUE, "length", FALSE), Ans(1, TRUE, "chunked", TRUE), Ans(0, FALSE, "eof", FALSE),
     Ans(0, TRUE, "eof", FALSE), Ans(0, TRUE, "bad", FALSE)}
=============================================================================

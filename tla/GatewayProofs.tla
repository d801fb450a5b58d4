---------------------------- MODULE GatewayProofs ----------------------------
(***************************************************************************)
(* Machine-checked facts about Gateway, for every configuration of its     *)
(* providers and rules, every set of requests and streams of any length.   *)
(***************************************************************************)
EXTENDS Gateway, WellFoundedInduction, SequenceTheorems, FiniteSetTheorems, TLAPS

\* Before anything is sent; and once nothing will be sent any more.
Unsent == {"middleware", "parse", "lane"}
Reading == {"read", "stream", "tail"}

\* What may have been done upstream: nothing before the request is sent, at
\* most one piece of work per attempt, and none without an idempotency key
\* before an attempt that is still to come.
WorkInv ==
    /\ phase \in Phases
    /\ attempt \in {0, 1} /\ worked \in 0 .. attempt + 1
    /\ phase \in Unsent => attempt = 0 /\ worked = 0
    /\ phase = "send" => worked <= attempt /\ (~req.idem => worked = 0)
    /\ NoDoubleWork

\* Nothing is accounted before the end, and one thing at most at the end.
Silent == records = <<>> /\ failures = 0
Logged == \/ failures = 1 /\ records = <<>>
          \/ failures = 0 /\ \E e : records = <<e>>

LogInv ==
    /\ phase # "done" => Silent
    /\ Silent \/ Logged
    /\ phase = "read" => Translated \/ req.path = "count"
    /\ phase = "tail" => ending # "unstarted"
    /\ phase = "done" =>
          \/ Logged
          \/ ~Accounted \/ worked = 0 \/ answer.status = 500
          \/ ending = "unstarted"

\* From the route on, the route is the one the request decides; an answer
\* with the upstream's own status tells what the route has to announce.
Routed == route = DecideRoute(req) /\ route # NoRoute

AnswerInv ==
    /\ phase \in Phases
    /\ code \in {0, 200, 400, 500}
    /\ phase \in Unsent \cup {"send"} => code = 0
    /\ phase \in Reading => code # 0
    /\ phase \in {"lane", "send"} \/ code # 0 => Routed
    /\ phase = "read" => answer.status = 0
    /\ phase \in Unsent \cup {"send"} => answer.status = 0
    /\ answer.status = code /\ code # 0 =>
          (answer.announced <=> route.from # NoName)

-----------------------------------------------------------------------------
(* Work                                                                    *)

\* A request without a key is sent again only after an attempt that provably
\* never reached the upstream.
LEMMA WorkStep == WorkInv /\ [Next]_vars => WorkInv'
  <1> SUFFICES ASSUME WorkInv, [Next]_vars
               PROVE  WorkInv'
    OBVIOUS
  <1> USE DEF WorkInv, Phases, Unsent, NoDoubleWork
  <1>1. ASSUME NEW s, Refuse(s)
        PROVE  /\ UNCHANGED <<req, attempt, worked>>
               /\ phase' = "done"
    BY <1>1 DEF Refuse
  <1>2. CASE Middleware
    BY <1>1, <1>2 DEF Middleware, handler
  <1>3. CASE Parse
    BY <1>1, <1>3 DEF Parse
  <1>4. CASE Lane
    BY <1>1, <1>4 DEF Lane
  <1>5. CASE SendFails
    <2>1. PICK error \in {"presend", "transport", "timeout"}, did \in {0, 1} :
              /\ error = "presend" => did = 0
              /\ worked' = worked + did
              /\ IF ShouldRetry(error)
                 THEN attempt' = attempt + 1 /\ UNCHANGED <<phase, answer, log>>
                 ELSE BadGateway /\ UNCHANGED attempt
      BY <1>5 DEF SendFails
    <2>2. CASE ShouldRetry(error)
      BY <1>5, <2>1, <2>2 DEF SendFails, ShouldRetry, Idempotent, MaxRetries
    <2>3. CASE ~ShouldRetry(error)
      BY <1>5, <2>1, <2>3 DEF SendFails, BadGateway
    <2> QED
      BY <2>2, <2>3
  <1>6. CASE SendAnswered
    <2>1. PICK s \in {200, 400, 500}, t \in {"sse", "json", "html"}, did \in {0, 1} :
              /\ worked' = worked + did
              /\ \/ BadGateway
                 \/ phase' \in {"read", "stream"}
      BY <1>6 DEF SendAnswered
    <2>2. phase = "send" /\ UNCHANGED <<req, attempt>>
      BY <1>6 DEF SendAnswered
    <2>3. phase' \in {"read", "stream", "done"}
      BY <2>1 DEF BadGateway
    <2> QED
      BY <2>1, <2>2, <2>3
  <1>7. CASE ReadFails \/ ReadDone
    <2>1. CASE ReadFails
      BY <2>1 DEF ReadFails, BadGateway
    <2>2. CASE ReadDone
      <3>1. phase = "read" /\ phase' = "done" /\ UNCHANGED <<req, attempt, worked>>
        BY <2>2 DEF ReadDone
      <3> QED
        BY <3>1
    <2> QED
      BY <1>7, <2>1, <2>2
  <1>8. CASE \/ \E n \in Pieces \cup {Huge} : RelayPiece(n)
             \/ \E c \in Chunks : RelayChunk(c)
             \/ Drained \/ Interrupted \/ Unstarted
    <2>1. /\ UNCHANGED <<req, attempt, worked>>
          /\ phase = "stream" /\ phase' \in {"stream", "done"}
      BY <1>8 DEF RelayPiece, RelayChunk, Drained, Interrupted, Unstarted,
                  handler, Streaming
    <2> QED
      BY <2>1
  <1>9. CASE CloseUpstream \/ WriteEntry
    BY <1>9 DEF CloseUpstream, WriteEntry, handler
  <1>10. CASE UNCHANGED vars \/ ClientGoesOn
    BY <1>10 DEF ClientGoesOn, vars, handler
  <1>11. CASE BodyBroken
    BY <1>11 DEF BodyBroken
  <1> QED
    BY <1>2, <1>3, <1>4, <1>5, <1>6, <1>7, <1>8, <1>9, <1>10, <1>11
       DEF Next, Handler, Upstream, Client

\* A request without an idempotency key is worked on at most once, whatever
\* fails on the way to the upstream and whatever is sent again.
THEOREM WorkedOnOnce == Spec => []NoDoubleWork
  <1>1. Init => WorkInv
    BY DEF Init, WorkInv, Phases, Unsent, NoDoubleWork
  <1>2. WorkInv => NoDoubleWork
    BY DEF WorkInv
  <1> QED
    BY <1>1, <1>2, WorkStep, PTL DEF Spec

-----------------------------------------------------------------------------
(* The usage log                                                           *)

\* One write to an empty log leaves one entry or one counted failure.
LEMMA WriteLogs ==
  ASSUME NEW status, NEW tokens, NEW error, Silent, Write(status, tokens, error)
  PROVE  Logged'
  <1> DEFINE e == [status |-> status, tokens |-> tokens, error |-> error]
  <1>1. CASE records' = Append(records, e) /\ UNCHANGED failures
    <2>1. Append(<<>>, e) = <<e>>
      OBVIOUS
    <2> QED
      BY <1>1, <2>1 DEF Silent, Logged
  <1>2. CASE failures' = failures + 1 /\ UNCHANGED records
    BY <1>2 DEF Silent, Logged
  <1> QED
    BY <1>1, <1>2 DEF Write

\* A failed request is accounted on every lane but count_tokens.
LEMMA BadGatewayLogs ==
  ASSUME Silent, BadGateway, UNCHANGED req
  PROVE  phase' = "done" /\ (Silent \/ Logged)' /\ (Accounted' => Logged')
  <1>1. CASE req.path = "count"
    BY <1>1 DEF BadGateway, Silent, log, Accounted
  <1>2. CASE req.path # "count"
    BY <1>2, WriteLogs DEF BadGateway
  <1> QED
    BY <1>1, <1>2 DEF BadGateway

\* Every way to the end of a request that was worked for goes past the log once.
LEMMA LogStep == WorkInv /\ LogInv /\ [Next]_vars => LogInv'
  <1> SUFFICES ASSUME WorkInv, LogInv, [Next]_vars
               PROVE  LogInv'
    OBVIOUS
  <1>1. CASE UNCHANGED vars \/ ClientGoesOn
    BY <1>1 DEF ClientGoesOn, vars, handler, log, stream, body, LogInv, Silent, Logged, Translated,
                Accounted, Provider
  <1>2. ASSUME NEW s, Refuse(s), phase \in Unsent
        PROVE  LogInv'
    BY <1>2 DEF Refuse, WorkInv, LogInv, Unsent, Silent, Logged, log, Reading
  <1>3. ASSUME phase \notin Reading, phase' \in Unsent \cup {"send"},
               UNCHANGED log, phase # "done"
        PROVE  LogInv'
    BY <1>3 DEF LogInv, Unsent, Silent, Logged, log, Reading
  <1>4. CASE Middleware \/ Parse \/ Lane
    BY <1>2, <1>3, <1>4 DEF Middleware, Parse, Lane, Unsent, Reading
  <1>5. ASSUME phase # "done", BadGateway, UNCHANGED req
        PROVE  LogInv'
    <2>1. Silent
      BY <1>5 DEF LogInv
    <2> QED
      BY <2>1, <1>5, BadGatewayLogs DEF LogInv, Reading, Silent
  <1>6. CASE SendFails
    <2>1. phase = "send" /\ UNCHANGED <<req, route>>
      BY <1>6 DEF SendFails
    <2>2. \/ UNCHANGED <<phase, log>>
          \/ BadGateway
      BY <1>6 DEF SendFails
    <2>3. CASE UNCHANGED <<phase, log>>
      BY <2>1, <2>3 DEF LogInv, Silent, Logged, log, Reading
    <2> QED
      BY <1>5, <2>1, <2>2, <2>3
  <1>7. CASE SendAnswered
    <2>1. phase = "send" /\ UNCHANGED <<req, route>>
      BY <1>7 DEF SendAnswered
    <2>2. \/ BadGateway
          \/ /\ UNCHANGED log
             /\ phase' \in {"read", "stream"}
             /\ phase' = "read" => req.path = "count" \/ Translated
      BY <1>7 DEF SendAnswered
    <2>3. ASSUME UNCHANGED log, phase' \in {"read", "stream"},
                 phase' = "read" => req.path = "count" \/ Translated
          PROVE  LogInv'
      BY <2>1, <2>3 DEF LogInv, Silent, log, Translated, Provider
    <2> QED
      BY <1>5, <2>1, <2>2, <2>3
  <1>8. CASE ReadFails
    BY <1>5, <1>8 DEF ReadFails
  <1>9. CASE ReadDone
    <2>1. PICK tokens \in Pieces :
              IF Translated /\ code = 200 /\ ctype # "json"
              THEN Answer(500, FALSE) /\ UNCHANGED log
              ELSE /\ Answer(code, route.from # NoName)
                   /\ IF req.path = "count" THEN UNCHANGED log
                      ELSE Write(code, IF code = 200 THEN tokens ELSE 0, FALSE)
      BY <1>9 DEF ReadDone
    <2>2. /\ Silent /\ phase' = "done"
          /\ UNCHANGED <<req, route>>
      BY <1>9 DEF ReadDone, LogInv
    <2>3. CASE UNCHANGED log /\ Answer(500, FALSE)
      BY <2>2, <2>3 DEF Answer, LogInv, Silent, log
    <2>4. CASE UNCHANGED log /\ req.path = "count"
      BY <2>2, <2>4 DEF LogInv, Silent, log, Accounted
    <2>5. CASE \E n : Write(code, n, FALSE)
      BY <2>2, <2>5, WriteLogs DEF LogInv
    <2> QED
      BY <2>1, <2>3, <2>4, <2>5
  <1>10. CASE \/ \E n \in Pieces \cup {Huge} : RelayPiece(n)
              \/ \E c \in Chunks : RelayChunk(c)
              \/ Drained \/ Interrupted
    <2>1. /\ phase = "stream" /\ phase' = "stream"
          /\ UNCHANGED log
      BY <1>10 DEF RelayPiece, RelayChunk, Drained, Interrupted, Streaming
    <2> QED
      BY <2>1 DEF LogInv, Silent, log
  <1>11. CASE Unstarted
    BY <1>11 DEF Unstarted, Streaming, LogInv, Silent, log
  <1>12. CASE CloseUpstream
    BY <1>12 DEF CloseUpstream, LogInv, Silent, log, stream, body
  <1>13. CASE WriteEntry
    BY <1>13, WriteLogs DEF WriteEntry, LogInv
  <1>14. CASE BodyBroken
    <2>1. /\ phase = "parse" /\ phase' = "done" /\ answer'.status = 400
          /\ UNCHANGED <<req, route, log, worked>>
      BY <1>14 DEF BodyBroken, Answer
    <2> QED
      BY <2>1 DEF WorkInv, LogInv, Unsent, Silent, Logged, log, Reading
  <1> QED
    BY <1>1, <1>4, <1>6, <1>7, <1>8, <1>9, <1>10, <1>11, <1>12, <1>13, <1>14
       DEF Next, Handler, Upstream, Client

\* A request that was worked for is accounted once when it is over, by an entry
\* or by a counted failure to write one, and no request is accounted twice.
THEOREM AccountedOnce == Spec => []OneRecord
  <1>1. Init => WorkInv /\ LogInv
    BY DEF Init, WorkInv, LogInv, Phases, Unsent, NoDoubleWork, Silent, Reading
  <1>2. WorkInv /\ LogInv => OneRecord
    <2> SUFFICES ASSUME WorkInv, LogInv
                 PROVE  OneRecord
      OBVIOUS
    <2>1. CASE Silent
      BY <2>1 DEF Silent, OneRecord, LogInv, Logged
    <2>2. CASE Logged
      <3>1. Len(<<>>) = 0 /\ \A e : Len(<<e>>) = 1
        OBVIOUS
      <3>2. ASSUME failures = 1, records = <<>>
            PROVE  Len(records) + failures = 1
        BY <3>1, <3>2
      <3>3. ASSUME failures = 0, NEW e, records = <<e>>
            PROVE  Len(records) + failures = 1
        <4>1. Len(records) = 1
          BY <3>1, <3>3
        <4> QED
          BY <3>3, <4>1
      <3>4. Len(records) + failures = 1
        BY <2>2, <3>1, <3>2, <3>3 DEF Logged
      <3> QED
        BY <3>4 DEF OneRecord
    <2> QED
      BY <2>1, <2>2 DEF LogInv
  <1>3. WorkInv /\ LogInv /\ [Next]_vars => (WorkInv /\ LogInv)'
    BY WorkStep, LogStep
  <1> QED
    BY <1>1, <1>2, <1>3, PTL DEF Spec

-----------------------------------------------------------------------------
(* A least one among many.                                                *)

\* A set of natural numbers has a least one: what Min chooses is among them.
LEMMA LeastOf ==
  ASSUME NEW T, T \subseteq Nat, T # {}
  PROVE  Min(T) \in T /\ \A n \in T : Min(T) <= n
  <1> DEFINE less == {p \in Nat \X Nat : p[1] < p[2]}
  <1>1. IsWellFoundedOn(less, Nat)
    BY NatLessThanWellFounded DEF OpToRel
  <1>2. PICK m \in T : \A n \in T : <<n, m>> \notin less
    BY <1>1, WFMin
  <1>3. ASSUME NEW n \in T
        PROVE  m <= n
    <2>1. <<n, m>> \notin less
      BY <1>2
    <2> QED
      BY <2>1
  <1> QED
    BY <1>2, <1>3 DEF Min

-----------------------------------------------------------------------------
(* Routing                                                                 *)

\* The rule that routes a request, if any does, names a provider in service.
LEMMA RuleIsUsable ==
  ASSUME NEW model, RulesFor(model) # {}
  PROVE  Usable(Rules[Min(RulesFor(model))].to)
  <1>1. RulesFor(model) \subseteq Nat
    BY GatewayAssumption DEF RulesFor, GatewayAssumption
  <1>2. Min(RulesFor(model)) \in RulesFor(model)
    BY <1>1, LeastOf
  <1> QED
    BY <1>2 DEF RulesFor

\* Of a request that is routed, and not by its marker, the route announces what
\* it falls back from exactly when the request named another provider.
LEMMA RouteTells ==
  ASSUME NEW r, DecideRoute(r) # NoRoute, DecideRoute(r).scenario # "subagent"
  PROVE  DecideRoute(r).from # NoName
            <=> Named(r) \notin {NoName, DecideRoute(r).provider}
  <1>1. \A n : Usable(n) => n # NoName
    BY GatewayAssumption DEF Usable, GatewayAssumption
  <1> DEFINE to == Rules[Min(RulesFor(r.model))].to
             from == IF r.inline # NoName THEN r.inline ELSE r.marker
  <1>2. CASE Usable(r.inline)
    BY <1>1, <1>2 DEF DecideRoute, Named
  <1>3. CASE ~Usable(r.inline) /\ Usable(r.marker)
    BY <1>3 DEF DecideRoute
  <1>4. ASSUME ~Usable(r.inline), ~Usable(r.marker), RulesFor(r.model) # {}
        PROVE  DecideRoute(r).from = Named(r) /\ DecideRoute(r).provider = to
    BY <1>4 DEF DecideRoute, Named
  <1>5. ASSUME ~Usable(r.inline), ~Usable(r.marker), RulesFor(r.model) = {}
        PROVE  /\ Usable(Default)
               /\ DecideRoute(r).from = Named(r)
               /\ DecideRoute(r).provider = Default
    BY <1>5 DEF DecideRoute, Named
  <1> QED
    BY <1>1, <1>2, <1>3, <1>4, <1>5, RuleIsUsable DEF Named

\* An answer says what it announces.
LEMMA AnswerTells ==
  ASSUME NEW s, Answer(s, route.from # NoName)
  PROVE  answer'.status = s /\ (answer'.announced <=> route.from # NoName)
  <1>1. CASE route.from = NoName
    BY <1>1 DEF Answer
  <1>2. CASE route.from # NoName
    BY <1>2 DEF Answer
  <1> QED
    BY <1>1, <1>2

\* The handlers announce what they relay.
LEMMA AnswerStep == AnswerInv /\ [Next]_vars => AnswerInv'
  <1> SUFFICES ASSUME AnswerInv, [Next]_vars
               PROVE  AnswerInv'
    OBVIOUS
  <1> USE DEF AnswerInv, Phases, Unsent, Reading
  <1>1. ASSUME UNCHANGED <<req, route, answer, code>>, phase' = phase
        PROVE  AnswerInv'
    BY <1>1 DEF Routed
  <1>2. CASE UNCHANGED vars \/ ClientGoesOn
    BY <1>1, <1>2 DEF ClientGoesOn, vars, handler, reply
  <1>3. ASSUME NEW s, Refuse(s), phase \in Unsent
        PROVE  AnswerInv'
    BY <1>3 DEF Refuse, reply
  <1>4. CASE Middleware
    <2>1. /\ phase' = "parse" /\ phase = "middleware"
          /\ UNCHANGED <<req, route, answer, code>>
          => AnswerInv'
      OBVIOUS
    <2> QED
      BY <1>3, <1>4, <2>1 DEF Middleware, handler, reply
  <1>5. CASE Parse
    <2>1. /\ phase' = "lane" /\ phase = "parse" /\ Routed'
          /\ UNCHANGED <<answer, code>>
          => AnswerInv'
      OBVIOUS
    <2> QED
      BY <1>3, <1>5, <2>1 DEF Parse, reply, Routed
  <1>6. CASE Lane
    <2>1. /\ phase' = "send" /\ phase = "lane"
          /\ UNCHANGED <<req, route, answer, code>>
          => AnswerInv'
      BY DEF Routed
    <2> QED
      BY <1>3, <1>6, <2>1 DEF Lane, reply
  <1>7. CASE SendFails
    <2>1. /\ phase = "send"
          /\ UNCHANGED <<req, route, code>>
          /\ \/ UNCHANGED <<phase, answer>>
             \/ BadGateway
      BY <1>7 DEF SendFails, reply
    <2> QED
      BY <1>1, <2>1 DEF BadGateway, Answer
  <1>8. CASE SendAnswered
    <2>1. /\ phase = "send" /\ Routed
          /\ code' \in {200, 400, 500}
          /\ UNCHANGED <<req, route>>
          /\ \/ BadGateway
             \/ phase' = "read" /\ UNCHANGED answer
             \/ /\ phase' = "stream"
                /\ Answer(code', route.from # NoName)
      BY <1>8 DEF SendAnswered, Answer
    <2>2. Routed'
      BY <2>1 DEF Routed
    <2> QED
      <3>1. CASE BadGateway
        BY <2>1, <2>2, <3>1 DEF BadGateway, Answer
      <3>2. CASE Answer(code', route.from # NoName) /\ phase' = "stream"
        BY <2>1, <2>2, <3>2, AnswerTells
      <3>3. CASE UNCHANGED answer /\ phase' = "read"
        BY <2>1, <2>2, <3>3
      <3> QED
        BY <2>1, <3>1, <3>2, <3>3
  <1>9. CASE ReadFails
    BY <1>9 DEF ReadFails, BadGateway, Answer, Routed
  <1>10. CASE ReadDone
    <2>1. /\ phase = "read" /\ phase' = "done"
          /\ UNCHANGED <<req, route, code>>
          /\ \/ Answer(500, FALSE) /\ code = 200
             \/ Answer(code, route.from # NoName)
      BY <1>10 DEF ReadDone
    <2>2. Routed'
      BY <2>1 DEF Routed
    <2>3. CASE Answer(500, FALSE) /\ code = 200
      BY <2>1, <2>2, <2>3 DEF Answer
    <2>4. CASE Answer(code, route.from # NoName)
      BY <2>1, <2>2, <2>4, AnswerTells
    <2> QED
      BY <2>1, <2>3, <2>4
  <1>11. CASE \/ \E n \in Pieces \cup {Huge} : RelayPiece(n)
              \/ \E c \in Chunks : RelayChunk(c)
              \/ Drained \/ Interrupted
    BY <1>1, <1>11 DEF RelayPiece, RelayChunk, Drained, Interrupted, handler,
                       reply
  <1>12. CASE Unstarted \/ CloseUpstream \/ WriteEntry
    <2>1. /\ phase \in {"stream", "tail"} /\ phase' \in {"tail", "done"}
          /\ UNCHANGED <<req, route, answer, code>>
      BY <1>12 DEF Unstarted, CloseUpstream, WriteEntry, Streaming, handler,
                   reply
    <2> QED
      BY <2>1 DEF Routed
  <1>13. CASE BodyBroken
    BY <1>13 DEF BodyBroken, Answer, reply
  <1> QED
    BY <1>2, <1>4, <1>5, <1>6, <1>7, <1>8, <1>9, <1>10, <1>11, <1>12, <1>13
       DEF Next, Handler, Upstream, Client

\* Whoever named a provider and was answered by another is told so, and nobody
\* else is, for every set of providers and rules.
THEOREM FallbackIsTold == Spec => []FallbackAnnounced
  <1>1. Init => AnswerInv
    BY DEF Init, AnswerInv, Phases, Unsent, Reading, NoAnswer
  <1>2. AnswerInv => FallbackAnnounced
    BY RouteTells DEF AnswerInv, Routed, FallbackAnnounced
  <1> QED
    BY <1>1, <1>2, AnswerStep, PTL DEF Spec

-----------------------------------------------------------------------------
(* Folds: what the library's recursive function over sets of positions does *)
(* along a sequence.                                                       *)

\* What holds at 0 and is handed on from each position to the next holds up
\* to the last.
LEMMA StepByStep ==
  ASSUME NEW n \in Nat, NEW P, 0 \in P,
         \A k \in 1 .. n : k - 1 \in P => k \in P
  PROVE  \A k \in 0 .. n : k \in P
  <1> DEFINE Bad == {k \in 0 .. n : k \notin P}
  <1> SUFFICES ASSUME Bad # {}
               PROVE  FALSE
    OBVIOUS
  <1>1. Bad \subseteq Nat
    OBVIOUS
  <1>2. PICK m \in Bad : \A k \in Bad : m <= k
    <2> HIDE DEF Bad
    <2> QED
      BY <1>1, LeastOf
  <1>3. m \in 1 .. n
    BY <1>2
  <1>4. m - 1 \notin Bad /\ m - 1 \in 0 .. n
    <2>1. m - 1 \in Bad => m <= m - 1
      BY <1>2
    <2> QED
      BY <1>3, <2>1
  <1> QED
    BY <1>2, <1>3, <1>4

\* A set of positions has a last one; the others come before it.
LEMMA LastOf ==
  ASSUME NEW n \in Nat, NEW s \in SUBSET (1 .. n), s # {}
  PROVE  Max(s) \in s /\ s \ {Max(s)} \in SUBSET (1 .. n - 1)
  <1> DEFINE T == {n - x : x \in s}
  <1>0. \A x \in s : x \in 1 .. n
    OBVIOUS
  <1>1. T \subseteq Nat /\ T # {}
    <2>1. \A x \in s : n - x \in Nat
      BY <1>0
    <2> QED
      BY <2>1
  <1>2. PICK m \in T : \A k \in T : m <= k
    <2> HIDE DEF T
    <2> QED
      BY <1>1, LeastOf
  <1>3. PICK x \in s : m = n - x
    BY <1>2
  <1>4. \A y \in s : x >= y
    <2> TAKE y \in s
    <2>1. n - y \in T
      OBVIOUS
    <2>2. n - x <= n - y
      BY <1>2, <1>3, <2>1
    <2>3. x \in Nat /\ y \in Nat
      OBVIOUS
    <2> HIDE DEF T
    <2> QED
      BY <2>2, <2>3
  <1>5. Max(s) \in s /\ \A y \in s : Max(s) >= y
    <2> HIDE DEF T
    <2> QED
      BY <1>3, <1>4 DEF Max
  <1> DEFINE b == Max(s)
  <1>6. b \in 1 .. n /\ b \in s /\ \A y \in s : b >= y
    BY <1>5
  <1> HIDE DEF T, b
  <1>7. ASSUME NEW y \in s \ {b}
        PROVE  y \in 1 .. n - 1
    BY <1>6, <1>7
  <1>8. s \ {b} \subseteq 1 .. n - 1
    BY <1>7
  <1> QED
    BY <1>6, <1>8 DEF b

\* The last of the first k positions is k.
LEMMA LastOfFirst ==
  ASSUME NEW k \in Nat, k # 0
  PROVE  1 .. k # {} /\ Max(1 .. k) = k /\ (1 .. k) \ {k} = 1 .. k - 1
  <1> DEFINE s == 1 .. k
             m == Max(s)
  <1>0. k \notin 1 .. k - 1 /\ k \in s /\ s # {} /\ s \in SUBSET (1 .. k)
    OBVIOUS
  <1>1. s \ {k} = 1 .. k - 1
    OBVIOUS
  <1> HIDE DEF s
  <1>2. m \in s /\ s \ {m} \in SUBSET (1 .. k - 1)
    BY <1>0, LastOf
  <1> HIDE DEF m
  <1>3. m = k
    BY <1>0, <1>2
  <1> QED
    BY <1>0, <1>1, <1>3 DEF s, m

\* The recursive function of a fold with the function g.
Folding(it, g, base, s, L) ==
    it = [p \in L |-> IF p = {} THEN base ELSE g[<<it[p \ {Max(p)}], s[Max(p)]>>]]
Folded(it, g, base, s, p) ==
    IF p = {} THEN base ELSE g[<<it[p \ {Max(p)}], s[Max(p)]>>]

\* The function, position by position.
LEMMA FoldingOf ==
  ASSUME NEW it, NEW g, NEW base, NEW s, NEW L
  PROVE  Folding(it, g, base, s, L) <=> it = [p \in L |-> Folded(it, g, base, s, p)]
  BY DEF Folding, Folded

\* There is one, over all sets of positions.
LEMMA FoldingExists ==
  ASSUME NEW g, NEW base, NEW s, NEW n \in Nat
  PROVE  \E it : Folding(it, g, base, s, SUBSET (1 .. n))
  <1> DEFINE P == {k \in 0 .. n : \E it : Folding(it, g, base, s, SUBSET (1 .. k))}
  <1>1. 0 \in P
    <2> DEFINE it == [p \in {{}} |-> base]
    <2>1. SUBSET (1 .. 0) = {{}}
      <3>1. 1 .. 0 = {}
        OBVIOUS
      <3> QED
        BY <3>1
    <2>2. Folding(it, g, base, s, {{}})
      BY DEF Folding
    <2> HIDE DEF it
    <2>3. \E jt : Folding(jt, g, base, s, SUBSET (1 .. 0))
      BY <2>1, <2>2
    <2>4. 0 \in 0 .. n
      OBVIOUS
    <2> QED
      BY <2>3, <2>4
  <1>2. ASSUME NEW k \in 1 .. n, k - 1 \in P
        PROVE  k \in P
    <2>1. PICK it : Folding(it, g, base, s, SUBSET (1 .. k - 1))
      BY <1>2
    <2> DEFINE jt == [p \in SUBSET (1 .. k) |-> Folded(it, g, base, s, p)]
    <2>2. it = [p \in SUBSET (1 .. k - 1) |-> Folded(it, g, base, s, p)]
      BY <2>1, FoldingOf
    <2>3. SUBSET (1 .. k - 1) \subseteq SUBSET (1 .. k)
      OBVIOUS
    <2>4. ASSUME NEW p \in SUBSET (1 .. k - 1)
          PROVE  jt[p] = it[p]
      BY <2>2, <2>3
    <2>5. ASSUME NEW p \in SUBSET (1 .. k)
          PROVE  Folded(it, g, base, s, p) = Folded(jt, g, base, s, p)
      <3>1. p # {} => p \ {Max(p)} \in SUBSET (1 .. k - 1)
        BY LastOf
      <3> HIDE DEF jt
      <3> QED
        BY <2>4, <3>1 DEF Folded
    <2>6. jt = [p \in SUBSET (1 .. k) |-> Folded(jt, g, base, s, p)]
      <3>1. jt = [p \in SUBSET (1 .. k) |-> Folded(it, g, base, s, p)]
        OBVIOUS
      <3> HIDE DEF jt
      <3> QED
        BY <2>5, <3>1
    <2>7. Folding(jt, g, base, s, SUBSET (1 .. k))
      <3> HIDE DEF jt
      <3> QED
        BY <2>6, FoldingOf
    <2> QED
      BY <2>7
  <1>3. \A k \in 0 .. n : k \in P
    <2> HIDE DEF P
    <2> QED
      BY <1>1, <1>2, StepByStep
  <1>4. n \in P
    <2> HIDE DEF P
    <2> QED
      BY <1>3
  <1> QED
    BY <1>4

\* With a function that stays in T, it stays there.
LEMMA FoldingStays ==
  ASSUME NEW T, NEW X, NEW g \in [T \X X -> T], NEW base \in T, NEW n \in Nat,
         NEW s, \A i \in 1 .. n : s[i] \in X,
         NEW it, Folding(it, g, base, s, SUBSET (1 .. n))
  PROVE  /\ \A p \in SUBSET (1 .. n) : it[p] \in T
         /\ it[{}] = base
         /\ \A p \in SUBSET (1 .. n) : p # {} =>
               /\ Max(p) \in 1 .. n /\ p \ {Max(p)} \in SUBSET (1 .. n)
               /\ it[p] = g[<<it[p \ {Max(p)}], s[Max(p)]>>]
  <1>1. \A p \in SUBSET (1 .. n) :
            it[p] = IF p = {} THEN base ELSE g[<<it[p \ {Max(p)}], s[Max(p)]>>]
    BY DEF Folding
  <1>2. \A p \in SUBSET (1 .. n) : p # {} =>
            Max(p) \in 1 .. n /\ p \ {Max(p)} \in SUBSET (1 .. n)
    BY LastOf
  <1> DEFINE P == {k \in 0 .. n : \A p \in SUBSET (1 .. k) : it[p] \in T}
  <1>3. 0 \in P
    <2>1. \A p \in SUBSET (1 .. 0) : p = {} /\ p \in SUBSET (1 .. n)
      OBVIOUS
    <2>2. \A p \in SUBSET (1 .. 0) : it[p] \in T
      BY <1>1, <2>1
    <2>3. 0 \in 0 .. n
      OBVIOUS
    <2> QED
      BY <2>2, <2>3
  <1>4. ASSUME NEW k \in 1 .. n, k - 1 \in P
        PROVE  k \in P
    <2>1. ASSUME NEW p \in SUBSET (1 .. k)
          PROVE  it[p] \in T
      <3>1. CASE p = {}
        BY <1>1, <3>1
      <3>2. CASE p # {}
        <4>1. p \ {Max(p)} \in SUBSET (1 .. k - 1)
          BY <3>2, LastOf
        <4>2. it[p \ {Max(p)}] \in T
          BY <1>4, <4>1
        <4>3. p \in SUBSET (1 .. n)
          OBVIOUS
        <4>4. s[Max(p)] \in X
          BY <1>2, <3>2, <4>3
        <4>5. <<it[p \ {Max(p)}], s[Max(p)]>> \in T \X X
          BY <4>2, <4>4
        <4>6. g[<<it[p \ {Max(p)}], s[Max(p)]>>] \in T
          BY <4>5
        <4> QED
          BY <1>1, <3>2, <4>3, <4>6
      <3> QED
        BY <3>1, <3>2
    <2> QED
      BY <2>1
  <1>5. \A k \in 0 .. n : k \in P
    <2> HIDE DEF P
    <2> QED
      BY <1>3, <1>4, StepByStep
  <1>6. n \in P
    <2> HIDE DEF P
    <2> QED
      BY <1>5
  <1> QED
    BY <1>1, <1>2, <1>6

-----------------------------------------------------------------------------
(* The events of a translated stream: what one of them does to their order.*)

\* What a translator is, and the events it emits (compat.py).
Event ==
    [type : {"message_start", "message_stop", "error"}]
    \cup [type : {"start", "stop", "delta"}, index : Int]
    \cup [type : {"message_delta"}, reason : {StopReason(f) : f \in Finishes}, usage : Nat]
StreamTranslator ==
    [started : BOOLEAN, index : Int, open : {"none", "text", "tool"},
     toolBlock : [ToolIndexes -> Int], finish : Finishes, usage : Nat,
     done : BOOLEAN, out : Seq(Event)]

Marks == {"message_start", "start", "stop", "delta"}
HasError(s) == \E i \in DOMAIN s : s[i].type = "error"

\* s goes on as v, with events of the types in K.
Grows(s, v, K) ==
    /\ Len(s) <= Len(v)
    /\ \A i \in 1 .. Len(s) : v[i] = s[i]
    /\ \A i \in Len(s) + 1 .. Len(v) : v[i].type \in K

\* The events of a stream that is in order so far, with its translator t.
At(s, type) == {i \in DOMAIN s : s[i].type = type}
Closed(s, i, j) == \E k \in i .. j : s[k] = [type |-> "stop", index |-> s[i].index]
Nests(s, t) ==
    /\ ~HasError(s)
    /\ t.started <=> s # <<>>
    /\ s # <<>> => s[1].type = "message_start"
    /\ \A i \in At(s, "message_start") : i = 1
    /\ t.index + 1 = Cardinality(At(s, "start"))
    /\ \A i \in At(s, "start") :
          /\ s[i].index = Cardinality(At(s, "start") \cap 1 .. i - 1)
          /\ (t.open # "none" /\ s[i].index = t.index) \/ Closed(s, i, Len(s))
          /\ \A j \in At(s, "start") \cup At(s, "message_delta") : i < j => Closed(s, i, j)
    /\ \A i \in At(s, "stop") :
          /\ s[i].index <= t.index
          /\ t.open # "none" => s[i].index < t.index
          /\ \A j \in At(s, "stop") : s[i] = s[j] => i = j
    /\ ~t.done => At(s, "message_delta") = {} /\ At(s, "message_stop") = {}
    /\ \A i \in At(s, "message_stop") :
          i = Len(s) /\ i > 2 /\ s[i - 1].type = "message_delta"

\* A part of the translation that emits no end and no error.
Quiet(t, u) ==
    /\ u \in StreamTranslator
    /\ u.usage = t.usage /\ u.done = t.done
    /\ t.started => u.started
    /\ Grows(t.out, u.out, Marks)
    /\ \A h \in Seq(Event) : ~t.done /\ Nests(h \o t.out, t) => Nests(h \o u.out, u)

\* What goes on twice goes on.
LEMMA GrowsOn ==
  ASSUME NEW s \in Seq(Event), NEW v \in Seq(Event), NEW w \in Seq(Event),
         NEW K, NEW L, NEW M, Grows(s, v, K), Grows(v, w, L), K \subseteq M, L \subseteq M
  PROVE  Grows(s, w, M)
  <1>1. Len(s) \in Nat /\ Len(v) \in Nat /\ Len(w) \in Nat
    BY LenProperties
  <1>2. ASSUME NEW i \in Len(s) + 1 .. Len(w)
        PROVE  w[i].type \in M
    <2>1. CASE i <= Len(v)
      <3>1. w[i] = v[i] /\ v[i].type \in K
        BY <1>1, <2>1 DEF Grows
      <3> QED
        BY <3>1
    <2>2. CASE ~(i <= Len(v))
      <3>1. w[i].type \in L
        BY <1>1, <2>2 DEF Grows
      <3> QED
        BY <3>1
    <2> QED
      BY <2>1, <2>2
  <1>3. ASSUME NEW i \in 1 .. Len(s)
        PROVE  w[i] = s[i]
    BY <1>1 DEF Grows
  <1>4. Len(s) <= Len(w)
    BY <1>1 DEF Grows
  <1> QED
    BY <1>2, <1>3, <1>4 DEF Grows

\* Nothing need be emitted.
LEMMA GrowsNot ==
  ASSUME NEW s, NEW K, Len(s) \in Nat
  PROVE  Grows(s, s, K)
  BY DEF Grows

\* One event is emitted.
LEMMA GrowsByOne ==
  ASSUME NEW s \in Seq(Event), NEW e \in Event, NEW K, e.type \in K
  PROVE  Append(s, e) \in Seq(Event) /\ Grows(s, Append(s, e), K)
  <1>1. /\ Append(s, e) \in Seq(Event) /\ Len(s) \in Nat
        /\ Len(Append(s, e)) = Len(s) + 1
        /\ \A i \in 1 .. Len(s) : Append(s, e)[i] = s[i]
        /\ Append(s, e)[Len(s) + 1] = e
    BY AppendProperties, LenProperties
  <1> HIDE DEF Event
  <1> DEFINE v == Append(s, e)
  <1> HIDE DEF v
  <1>2. v \in Seq(Event) /\ Len(s) \in Nat /\ Len(v) = Len(s) + 1
        /\ (\A i \in 1 .. Len(s) : v[i] = s[i]) /\ v[Len(s) + 1] = e
    BY <1>1 DEF v
  <1>3. Grows(s, v, K)
    BY <1>2 DEF Grows
  <1> QED
    BY <1>2, <1>3 DEF v

\* Two quiet parts of the translation make one.
LEMMA QuietOn ==
  ASSUME NEW t \in StreamTranslator, NEW u, NEW w, Quiet(t, u), Quiet(u, w)
  PROVE  Quiet(t, w)
  <1>1. t.out \in Seq(Event) /\ u.out \in Seq(Event) /\ w.out \in Seq(Event)
    BY DEF Quiet, StreamTranslator
  <1>2. Grows(t.out, w.out, Marks)
    BY <1>1, GrowsOn DEF Quiet
  <1> QED
    BY <1>2 DEF Quiet

\* Doing nothing is quiet.
LEMMA QuietNot ==
  ASSUME NEW t \in StreamTranslator
  PROVE  Quiet(t, t)
  <1>1. Len(t.out) \in Nat
    BY LenProperties DEF StreamTranslator
  <1> QED
    BY <1>1, GrowsNot DEF Quiet

-----------------------------------------------------------------------------
\* v is s with one more event.
Adds(s, v, e) ==
    /\ Len(s) \in Nat /\ Len(v) = Len(s) + 1
    /\ DOMAIN s = 1 .. Len(s) /\ DOMAIN v = 1 .. Len(s) + 1
    /\ \A i \in 1 .. Len(s) : v[i] = s[i]
    /\ v[Len(s) + 1] = e /\ v # <<>>

\* Append adds one event.
LEMMA AppendAdds ==
  ASSUME NEW s \in Seq(Event), NEW e \in Event
  PROVE  Append(s, e) \in Seq(Event) /\ Adds(s, Append(s, e), e)
  <1>1. /\ Append(s, e) \in Seq(Event) /\ Len(s) \in Nat
        /\ Len(Append(s, e)) = Len(s) + 1
        /\ \A i \in 1 .. Len(s) : Append(s, e)[i] = s[i]
        /\ Append(s, e)[Len(s) + 1] = e
        /\ Append(s, e) # <<>>
    BY AppendProperties, LenProperties
  <1> DEFINE v == Append(s, e)
  <1> HIDE DEF v
  <1>2. /\ v # <<>> /\ v \in Seq(Event) /\ Len(s) \in Nat /\ Len(v) = Len(s) + 1
        /\ (\A i \in 1 .. Len(s) : v[i] = s[i]) /\ v[Len(s) + 1] = e
    BY <1>1 DEF v
  <1>3. DOMAIN s = 1 .. Len(s) /\ DOMAIN v = 1 .. Len(v)
    BY <1>2, LenProperties
  <1>4. Adds(s, v, e)
    BY <1>2, <1>3 DEF Adds
  <1> QED
    BY <1>2, <1>4 DEF v

\* What one more event leaves as it was.
AddsTo(s, v, e) ==
    /\ \A y : At(s, y) \subseteq 1 .. Len(s) /\ At(s, y) \subseteq At(v, y)
    /\ \A y : e.type # y => At(v, y) = At(s, y)
    /\ \A y : e.type = y => At(v, y) = At(s, y) \cup {Len(s) + 1}
    /\ \A y : \A i \in 1 .. Len(s) + 1 : At(v, y) \cap 1 .. i - 1 = At(s, y) \cap 1 .. i - 1
    /\ \A i \in 1 .. Len(s), j \in 1 .. Len(s) : Closed(s, i, j) => Closed(v, i, j)
    /\ \A i \in 1 .. Len(s) : Closed(s, i, Len(s)) => Closed(v, i, Len(s) + 1)
    /\ HasError(v) <=> HasError(s) \/ e.type = "error"

\* What was said of the events before stays true of them.
LEMMA AddsKeeps ==
  ASSUME NEW s, NEW v, NEW e, Adds(s, v, e)
  PROVE  AddsTo(s, v, e)
  <1> USE DEF Adds
  <1>1. \A y : At(s, y) \subseteq 1 .. Len(s) /\ At(s, y) \subseteq At(v, y)
    BY DEF At
  <1>2. \A y : e.type # y => At(v, y) = At(s, y)
    BY DEF At
  <1>3. \A y : e.type = y => At(v, y) = At(s, y) \cup {Len(s) + 1}
    BY DEF At
  <1>4. ASSUME NEW i \in 1 .. Len(s) + 1, NEW y
        PROVE  At(v, y) \cap 1 .. i - 1 = At(s, y) \cap 1 .. i - 1
    <2>1. ASSUME NEW k \in 1 .. i - 1
          PROVE  k \in At(v, y) <=> k \in At(s, y)
      BY DEF At
    <2> QED
      BY <2>1
  <1>5. ASSUME NEW i \in 1 .. Len(s), NEW j \in 1 .. Len(s), Closed(s, i, j)
        PROVE  Closed(v, i, j)
    <2>1. PICK k \in i .. j : s[k] = [type |-> "stop", index |-> s[i].index]
      BY <1>5 DEF Closed
    <2>2. k \in 1 .. Len(s)
      OBVIOUS
    <2>3. v[k] = s[k] /\ v[i] = s[i]
      BY <2>2
    <2> QED
      BY <2>1, <2>3 DEF Closed
  <1>6. ASSUME NEW i \in 1 .. Len(s), Closed(s, i, Len(s))
        PROVE  Closed(v, i, Len(s) + 1)
    <2>1. PICK k \in i .. Len(s) : s[k] = [type |-> "stop", index |-> s[i].index]
      BY <1>6 DEF Closed
    <2>2. k \in 1 .. Len(s) /\ k \in i .. Len(s) + 1
      OBVIOUS
    <2>3. v[k] = s[k] /\ v[i] = s[i]
      BY <2>2
    <2> QED
      BY <2>1, <2>2, <2>3 DEF Closed
  <1>7. HasError(v) <=> HasError(s) \/ e.type = "error"
    BY DEF HasError
  <1> QED
    BY <1>1, <1>2, <1>3, <1>4, <1>5, <1>6, <1>7 DEF AddsTo

\* A translator that nests as another does.
LEMMA SameNests ==
  ASSUME NEW s, NEW t, NEW u, Nests(s, t), u.started = t.started, u.open = t.open,
         u.index = t.index, u.done = t.done
  PROVE  Nests(s, u)
  BY DEF Nests

\* The first event.
LEMMA FirstNests ==
  ASSUME NEW s, NEW t, NEW u, NEW v, NEW e, Adds(s, v, e), Nests(s, t), ~t.started,
         e = [type |-> "message_start"], u.started, u.open = t.open, u.index = t.index,
         u.done = t.done, Len(s) = 0
  PROVE  Nests(v, u)
  <1>0. AddsTo(s, v, e)
    BY AddsKeeps
  <1>1. e.type = "message_start"
    OBVIOUS
  <1>2. DOMAIN s = {} /\ DOMAIN v = {1} /\ v[1] = e
    BY DEF Adds
  <1>3. \A y : At(s, y) = {}
    BY <1>2 DEF At
  <1>4. \A y : y # "message_start" => At(v, y) = {}
    BY <1>0, <1>1, <1>3 DEF AddsTo
  <1>5. v # <<>>
    BY DEF Adds
  <1>6. ~HasError(v)
    BY <1>0, <1>1 DEF Nests, AddsTo
  <1>7. At(v, "message_start") = {1}
    BY <1>1, <1>2 DEF At
  <1>8. u.index + 1 = Cardinality(At(v, "start"))
    BY <1>3, <1>4 DEF Nests
  <1> QED
    BY <1>1, <1>2, <1>4, <1>5, <1>6, <1>7, <1>8 DEF Nests

\* An event that opens and closes nothing.
LEMMA DeltaNests ==
  ASSUME NEW s, NEW t, NEW u, NEW v, NEW e, Adds(s, v, e), Nests(s, t),
         e.type = "delta", s # <<>>, ~t.done,
         u.started = t.started, u.open = t.open, u.index = t.index, u.done = t.done
  PROVE  Nests(v, u)
  <1>0. AddsTo(s, v, e)
    BY AddsKeeps
  <1>1. \A y : y # "delta" => At(v, y) = At(s, y) /\ At(s, y) \subseteq 1 .. Len(s)
    BY <1>0 DEF AddsTo
  <1>2. /\ Len(s) \in Nat /\ Len(s) # 0 /\ Len(v) = Len(s) + 1
        /\ \A i \in 1 .. Len(s) : v[i] = s[i]
    BY DEF Adds
  <1>3. ~HasError(v) /\ v # <<>> /\ v[1].type = "message_start"
    BY <1>0, <1>2 DEF Nests, Adds, AddsTo
  <1>4. ASSUME NEW i \in At(v, "start")
        PROVE  /\ v[i].index = Cardinality(At(v, "start") \cap 1 .. i - 1)
               /\ (u.open # "none" /\ v[i].index = u.index) \/ Closed(v, i, Len(v))
               /\ \A j \in At(v, "start") \cup At(v, "message_delta") : i < j => Closed(v, i, j)
    <2>1. i \in At(s, "start") /\ i \in 1 .. Len(s) /\ v[i] = s[i]
      BY <1>1, <1>2
    <2>2. At(v, "start") = At(s, "start") /\ At(v, "message_delta") = At(s, "message_delta")
      BY <1>1
    <2>3. \A j \in At(v, "start") \cup At(v, "message_delta") : j \in 1 .. Len(s)
      BY <1>1
    <2>4. v[i].index = Cardinality(At(v, "start") \cap 1 .. i - 1)
      <3>1. s[i].index = Cardinality(At(s, "start") \cap 1 .. i - 1)
        BY <2>1 DEF Nests
      <3>2. At(v, "start") \cap 1 .. i - 1 = At(s, "start") \cap 1 .. i - 1
        BY <2>2
      <3> QED
        BY <2>1, <3>1, <3>2
    <2>5. (u.open # "none" /\ v[i].index = u.index) \/ Closed(v, i, Len(v))
      BY <1>0, <1>2, <2>1 DEF Nests, AddsTo
    <2>6. \A j \in At(v, "start") \cup At(v, "message_delta") : i < j => Closed(v, i, j)
      BY <1>0, <2>1, <2>2, <2>3 DEF Nests, AddsTo
    <2> QED
      BY <2>4, <2>5, <2>6
  <1>5. ASSUME NEW i \in At(v, "stop")
        PROVE  /\ v[i].index <= u.index
               /\ u.open # "none" => v[i].index < u.index
               /\ \A j \in At(v, "stop") : v[i] = v[j] => i = j
    BY <1>1, <1>2 DEF Nests
  <1> QED
    BY <1>1, <1>2, <1>3, <1>4, <1>5 DEF Nests

\* The stop of the block that is open.
LEMMA StopNests ==
  ASSUME NEW s, NEW t, NEW u, NEW v, NEW e, Adds(s, v, e), Nests(s, t),
         t.open # "none", t.index \in Int, ~t.done, s # <<>>,
         e = [type |-> "stop", index |-> t.index],
         u.started = t.started, u.open = "none", u.index = t.index, u.done = t.done
  PROVE  Nests(v, u)
  <1>0. AddsTo(s, v, e)
    BY AddsKeeps
  <1>1. /\ \A y : y # "stop" => At(v, y) = At(s, y)
        /\ At(v, "stop") = At(s, "stop") \cup {Len(s) + 1}
        /\ \A y : At(s, y) \subseteq 1 .. Len(s)
    BY <1>0 DEF AddsTo
  <1>2. /\ Len(s) \in Nat /\ Len(s) # 0 /\ Len(v) = Len(s) + 1
        /\ \A i \in 1 .. Len(s) : v[i] = s[i]
        /\ v[Len(s) + 1] = e
    BY DEF Adds
  <1>3. ~HasError(v) /\ v # <<>> /\ v[1].type = "message_start"
    BY <1>0, <1>2 DEF Nests, Adds, AddsTo
  <1>4. ASSUME NEW i \in At(v, "start")
        PROVE  /\ v[i].index = Cardinality(At(v, "start") \cap 1 .. i - 1)
               /\ (u.open # "none" /\ v[i].index = u.index) \/ Closed(v, i, Len(v))
               /\ \A j \in At(v, "start") \cup At(v, "message_delta") : i < j => Closed(v, i, j)
    <2>1. i \in At(s, "start") /\ i \in 1 .. Len(s) /\ v[i] = s[i]
      BY <1>1, <1>2
    <2>2. At(v, "start") = At(s, "start") /\ At(v, "message_delta") = At(s, "message_delta")
      BY <1>1
    <2>3. \A j \in At(v, "start") \cup At(v, "message_delta") : j \in 1 .. Len(s)
      BY <1>1
    <2>4. v[i].index = Cardinality(At(v, "start") \cap 1 .. i - 1)
      <3>1. s[i].index = Cardinality(At(s, "start") \cap 1 .. i - 1)
        BY <2>1 DEF Nests
      <3>2. At(v, "start") \cap 1 .. i - 1 = At(s, "start") \cap 1 .. i - 1
        BY <2>2
      <3> QED
        BY <2>1, <3>1, <3>2
    <2>5. Closed(v, i, Len(v))
      <3>1. CASE s[i].index = t.index
        <4>1. Len(s) + 1 \in i .. Len(v)
          BY <1>2, <2>1
        <4>2. v[Len(s) + 1] = [type |-> "stop", index |-> v[i].index]
          BY <1>2, <2>1, <3>1
        <4> QED
          BY <4>1, <4>2 DEF Closed
      <3>2. CASE Closed(s, i, Len(s))
        BY <1>0, <1>2, <2>1, <3>2 DEF AddsTo
      <3> QED
        BY <2>1, <3>1, <3>2 DEF Nests
    <2>6. \A j \in At(v, "start") \cup At(v, "message_delta") : i < j => Closed(v, i, j)
      BY <1>0, <2>1, <2>2, <2>3 DEF Nests, AddsTo
    <2> QED
      BY <2>4, <2>5, <2>6
  <1>5. ASSUME NEW i \in At(s, "stop")
        PROVE  /\ v[i] = s[i] /\ v[i].index <= t.index /\ v[i] # e
               /\ \A j \in At(s, "stop") : v[i] = v[j] => i = j
    <2>1. s[i].index < t.index /\ s[i].index <= t.index /\ v[i] = s[i]
      BY <1>1, <1>2 DEF Nests
    <2>2. s[i].index # t.index
      BY <2>1
    <2>3. \A j \in At(s, "stop") : v[i] = v[j] => i = j
      BY <1>1, <1>2 DEF Nests
    <2> QED
      BY <2>1, <2>2, <2>3
  <1>6. ASSUME NEW i \in At(v, "stop")
        PROVE  /\ v[i].index <= u.index
               /\ u.open # "none" => v[i].index < u.index
               /\ \A j \in At(v, "stop") : v[i] = v[j] => i = j
    <2>1. CASE i \in At(s, "stop")
      BY <1>1, <1>2, <1>5, <2>1
    <2>2. CASE i = Len(s) + 1
      BY <1>1, <1>2, <1>5, <2>2
    <2> QED
      BY <1>1, <2>1, <2>2
  <1> QED
    BY <1>1, <1>2, <1>3, <1>4, <1>6 DEF Nests

\* The start of a block when none is open.
LEMMA StartNests ==
  ASSUME NEW s \in Seq(Event), NEW t, NEW u, NEW v, NEW e, Adds(s, v, e), Nests(s, t),
         t.open = "none", t.index \in Int, ~t.done, s # <<>>,
         e = [type |-> "start", index |-> t.index + 1],
         u.started = t.started, u.open # "none", u.index = t.index + 1, u.done = t.done
  PROVE  Nests(v, u)
  <1>0. AddsTo(s, v, e)
    BY AddsKeeps
  <1>1. /\ \A y : y # "start" => At(v, y) = At(s, y)
        /\ At(v, "start") = At(s, "start") \cup {Len(s) + 1}
        /\ \A y : At(s, y) \subseteq 1 .. Len(s)
    BY <1>0 DEF AddsTo
  <1>2. /\ Len(s) \in Nat /\ Len(s) # 0 /\ Len(v) = Len(s) + 1
        /\ \A i \in 1 .. Len(s) : v[i] = s[i]
        /\ v[Len(s) + 1] = e
    BY DEF Adds
  <1>3. ~HasError(v) /\ v # <<>> /\ v[1].type = "message_start"
    BY <1>0, <1>2 DEF Nests, Adds, AddsTo
  <1>c. u.index + 1 = Cardinality(At(v, "start"))
    <2>1. IsFiniteSet(At(s, "start"))
      <3>1. IsFiniteSet(1 .. Len(s))
        BY <1>2, FS_Interval
      <3>2. At(s, "start") \subseteq 1 .. Len(s)
        BY <1>1
      <3> QED
        BY <3>1, <3>2, FS_Subset
    <2>2. Len(s) + 1 \notin At(s, "start")
      BY <1>1, <1>2
    <2>3. Cardinality(At(v, "start")) = Cardinality(At(s, "start")) + 1
      BY <1>1, <2>1, <2>2, FS_AddElement
    <2>4. t.index + 1 = Cardinality(At(s, "start"))
      BY DEF Nests
    <2> QED
      BY <2>3, <2>4
  <1>4. ASSUME NEW i \in At(s, "start")
        PROVE  /\ v[i].index = Cardinality(At(v, "start") \cap 1 .. i - 1)
               /\ Closed(v, i, Len(v))
               /\ \A j \in At(v, "start") \cup At(v, "message_delta") : i < j => Closed(v, i, j)
    <2>1. i \in 1 .. Len(s) /\ v[i] = s[i]
      BY <1>1, <1>2
    <2>4. v[i].index = Cardinality(At(v, "start") \cap 1 .. i - 1)
      <3>1. s[i].index = Cardinality(At(s, "start") \cap 1 .. i - 1)
        BY DEF Nests
      <3>2. At(v, "start") \cap 1 .. i - 1 = At(s, "start") \cap 1 .. i - 1
        BY <1>0, <1>2, <2>1 DEF AddsTo
      <3> QED
        BY <2>1, <3>1, <3>2
    <2>5. Closed(v, i, Len(s) + 1)
      BY <1>0, <2>1 DEF Nests, AddsTo
    <2>6. ASSUME NEW j \in At(v, "start") \cup At(v, "message_delta"), i < j
          PROVE  Closed(v, i, j)
      <3>1. CASE j = Len(s) + 1
        BY <2>5, <3>1
      <3>2. CASE j # Len(s) + 1
        <4>1. j \in At(s, "start") \cup At(s, "message_delta") /\ j \in 1 .. Len(s)
          BY <1>1, <3>2
        <4>2. Closed(s, i, j)
          BY <2>6, <4>1 DEF Nests
        <4> QED
          BY <1>0, <2>1, <4>1, <4>2 DEF AddsTo
      <3> QED
        BY <3>1, <3>2
    <2> QED
      BY <1>2, <2>4, <2>5, <2>6
  <1>5. /\ e.index = Cardinality(At(v, "start") \cap 1 .. Len(s))
        /\ \A j \in At(v, "start") \cup At(v, "message_delta") : ~(Len(s) + 1 < j)
    <2>1. At(v, "start") \cap 1 .. Len(s) = At(s, "start")
      BY <1>1, <1>2
    <2>2. t.index + 1 = Cardinality(At(s, "start"))
      BY DEF Nests
    <2>3. e.index = Cardinality(At(v, "start") \cap 1 .. Len(s))
      BY <2>1, <2>2
    <2>4. \A j \in At(v, "start") \cup At(v, "message_delta") : j \in 1 .. Len(s) + 1
      BY <1>1, <1>2
    <2> QED
      BY <1>2, <2>3, <2>4
  <1>6. ASSUME NEW i \in At(v, "start")
        PROVE  /\ v[i].index = Cardinality(At(v, "start") \cap 1 .. i - 1)
               /\ (u.open # "none" /\ v[i].index = u.index) \/ Closed(v, i, Len(v))
               /\ \A j \in At(v, "start") \cup At(v, "message_delta") : i < j => Closed(v, i, j)
    <2>1. CASE i \in At(s, "start")
      BY <1>4, <2>1
    <2>2. CASE i = Len(s) + 1
      <3>1. v[i] = e /\ i - 1 = Len(s) /\ e.index = u.index
        BY <1>2, <2>2
      <3> QED
        BY <1>5, <2>2, <3>1
    <2> QED
      BY <1>1, <2>1, <2>2
  <1>7. ASSUME NEW i \in At(v, "stop")
        PROVE  /\ v[i].index <= u.index
               /\ u.open # "none" => v[i].index < u.index
               /\ \A j \in At(v, "stop") : v[i] = v[j] => i = j
    <2>1. i \in At(s, "stop") /\ v[i] = s[i]
      BY <1>1, <1>2
    <2>2. s[i] \in Event /\ s[i].type = "stop"
      BY <1>1, <2>1, ElementOfSeq DEF At
    <2>3. s[i].index \in Int
      BY <2>2 DEF Event
    <2>4. s[i].index <= t.index
      BY <2>1 DEF Nests
    <2>5. s[i].index < u.index /\ s[i].index <= u.index
      BY <2>3, <2>4
    <2>6. \A j \in At(v, "stop") : v[i] = v[j] => i = j
      BY <1>1, <1>2 DEF Nests
    <2> QED
      BY <2>1, <2>5, <2>6
  <1> QED
    BY <1>1, <1>2, <1>3, <1>c, <1>6, <1>7 DEF Nests

\* The end of the message, when no block is open.
LEMMA EndNests ==
  ASSUME NEW s, NEW t, NEW u, NEW v, NEW w, NEW d, NEW e,
         Adds(s, v, d), Adds(v, w, e), Nests(s, t),
         t.open = "none", ~t.done, s # <<>>,
         d.type = "message_delta", e.type = "message_stop",
         u.started = t.started, u.open = "none", u.index = t.index, u.done
  PROVE  Nests(w, u)
  <1>0. AddsTo(s, v, d) /\ AddsTo(v, w, e)
    BY AddsKeeps
  <1>1. /\ \A y : y \notin {"message_delta", "message_stop"} => At(w, y) = At(s, y)
        /\ At(w, "message_delta") = {Len(s) + 1} /\ At(w, "message_stop") = {Len(v) + 1}
        /\ \A y : At(s, y) \subseteq 1 .. Len(s)
    <2>1. At(s, "message_delta") = {} /\ At(s, "message_stop") = {}
      BY DEF Nests
    <2>2. \A y : y \notin {"message_delta", "message_stop"} => At(w, y) = At(s, y)
      BY <1>0 DEF AddsTo
    <2>3. At(v, "message_delta") = {Len(s) + 1} /\ At(v, "message_stop") = {}
      BY <1>0, <2>1 DEF AddsTo
    <2>4. At(w, "message_delta") = {Len(s) + 1} /\ At(w, "message_stop") = {Len(v) + 1}
      BY <1>0, <2>3 DEF AddsTo
    <2> QED
      BY <1>0, <2>2, <2>4 DEF AddsTo
  <1>2. /\ Len(s) \in Nat /\ Len(s) # 0 /\ Len(v) = Len(s) + 1 /\ Len(w) = Len(s) + 2
        /\ \A i \in 1 .. Len(s) : w[i] = s[i]
        /\ w[Len(s) + 1] = d /\ w[Len(s) + 2] = e
    <2>1. /\ Len(s) \in Nat /\ Len(s) # 0 /\ Len(v) = Len(s) + 1
          /\ \A i \in 1 .. Len(s) : v[i] = s[i]
          /\ v[Len(s) + 1] = d
      BY DEF Adds
    <2>2. /\ Len(w) = Len(v) + 1
          /\ \A i \in 1 .. Len(v) : w[i] = v[i]
          /\ w[Len(v) + 1] = e
      BY DEF Adds
    <2> QED
      BY <2>1, <2>2
  <1>3. ~HasError(w) /\ w # <<>> /\ w[1].type = "message_start"
    BY <1>0, <1>2 DEF Nests, Adds, AddsTo
  <1>4. ASSUME NEW i \in At(w, "start")
        PROVE  /\ w[i].index = Cardinality(At(w, "start") \cap 1 .. i - 1)
               /\ (u.open # "none" /\ w[i].index = u.index) \/ Closed(w, i, Len(w))
               /\ \A j \in At(w, "start") \cup At(w, "message_delta") : i < j => Closed(w, i, j)
    <2>1. i \in At(s, "start") /\ i \in 1 .. Len(s) /\ w[i] = s[i]
      BY <1>1, <1>2
    <2>4. w[i].index = Cardinality(At(w, "start") \cap 1 .. i - 1)
      <3>1. s[i].index = Cardinality(At(s, "start") \cap 1 .. i - 1)
        BY <2>1 DEF Nests
      <3>2. At(w, "start") \cap 1 .. i - 1 = At(s, "start") \cap 1 .. i - 1
        BY <1>1
      <3> QED
        BY <2>1, <3>1, <3>2
    <2>5. Closed(s, i, Len(s))
      BY <2>1 DEF Nests
    <2>6. Closed(v, i, Len(s) + 1)
      BY <1>0, <2>1, <2>5 DEF AddsTo
    <2>7. i \in 1 .. Len(v) /\ Len(s) + 1 \in 1 .. Len(v) /\ Len(s) + 1 = Len(v)
      BY <1>2, <2>1
    <2>8. Closed(w, i, Len(s) + 1) /\ Closed(w, i, Len(w))
      <3>1. Closed(w, i, Len(s) + 1)
        BY <1>0, <2>6, <2>7 DEF AddsTo
      <3>2. Closed(w, i, Len(v) + 1)
        BY <1>0, <2>6, <2>7 DEF AddsTo
      <3> QED
        BY <1>2, <3>1, <3>2
    <2>9. ASSUME NEW j \in At(w, "start") \cup At(w, "message_delta"), i < j
          PROVE  Closed(w, i, j)
      <3>1. CASE j = Len(s) + 1
        BY <2>8, <3>1
      <3>2. CASE j # Len(s) + 1
        <4>1. j \in At(s, "start") /\ j \in 1 .. Len(s) /\ j \in 1 .. Len(v)
          BY <1>1, <1>2, <3>2
        <4>2. Closed(s, i, j)
          BY <2>1, <2>9, <4>1 DEF Nests
        <4>3. Closed(v, i, j)
          BY <1>0, <2>1, <4>1, <4>2 DEF AddsTo
        <4> QED
          BY <1>0, <2>7, <4>1, <4>3 DEF AddsTo
      <3> QED
        BY <3>1, <3>2
    <2> QED
      BY <2>4, <2>8, <2>9
  <1>5. ASSUME NEW i \in At(w, "stop")
        PROVE  /\ w[i].index <= u.index
               /\ u.open # "none" => w[i].index < u.index
               /\ \A j \in At(w, "stop") : w[i] = w[j] => i = j
    BY <1>1, <1>2 DEF Nests
  <1>6. \A i \in At(w, "message_stop") :
          i = Len(w) /\ i > 2 /\ w[i - 1].type = "message_delta"
    <2>1. Len(v) + 1 = Len(s) + 2 /\ (Len(s) + 2) - 1 = Len(s) + 1 /\ Len(s) + 2 > 2
      BY <1>2
    <2> QED
      BY <1>1, <1>2, <2>1
  <1>7. /\ \A i \in At(w, "message_start") : i = 1
        /\ u.index + 1 = Cardinality(At(w, "start"))
        /\ u.started
    BY <1>1 DEF Nests
  <1> QED
    BY <1>3, <1>4, <1>5, <1>6, <1>7 DEF Nests

-----------------------------------------------------------------------------
(* The parts of the translation.                                           *)

\* Appending comes after what the client has.
LEMMA ConcatAppend ==
  ASSUME NEW h \in Seq(Event), NEW s \in Seq(Event), NEW e \in Event
  PROVE  h \o Append(s, e) = Append(h \o s, e)
  <1>1. <<e>> \in Seq(Event)
    OBVIOUS
  <1>2. Append(s, e) = s \o <<e>>
    BY AppendIsConcat
  <1>3. h \o s \in Seq(Event)
    BY ConcatProperties
  <1>4. Append(h \o s, e) = (h \o s) \o <<e>>
    BY <1>3, AppendIsConcat
  <1> QED
    BY <1>1, <1>2, <1>4, ConcatAssociative

\* What Emit does to the record.
LEMMA EmitOf ==
  ASSUME NEW t \in StreamTranslator, NEW e \in Event
  PROVE  /\ Emit(t, e) \in StreamTranslator
         /\ Emit(t, e).out = Append(t.out, e)
         /\ Emit(t, e).started = t.started /\ Emit(t, e).index = t.index
         /\ Emit(t, e).open = t.open /\ Emit(t, e).toolBlock = t.toolBlock
         /\ Emit(t, e).finish = t.finish /\ Emit(t, e).usage = t.usage
         /\ Emit(t, e).done = t.done
  <1>1. t.out \in Seq(Event)
    BY DEF StreamTranslator
  <1>2. Append(t.out, e) \in Seq(Event)
    BY <1>1, AppendProperties
  <1> DEFINE x == Append(t.out, e)
  <1>3. Emit(t, e) = [t EXCEPT !.out = x]
    BY DEF Emit
  <1> HIDE DEF x
  <1>4. x \in Seq(Event)
    BY <1>2 DEF x
  <1> QED
    BY <1>3, <1>4 DEF StreamTranslator, x

\* One event that marks no end.
LEMMA EmitQuiet ==
  ASSUME NEW t \in StreamTranslator, NEW e \in Event, e.type \in Marks,
         NEW u \in StreamTranslator, u.out = Append(t.out, e),
         u.usage = t.usage, u.done = t.done, t.started => u.started,
         \A s \in Seq(Event), v \in Seq(Event) :
            Adds(s, v, e) /\ ~t.done /\ Nests(s, t) => Nests(v, u)
  PROVE  Quiet(t, u)
  <1>1. t.out \in Seq(Event)
    BY DEF StreamTranslator
  <1>2. Grows(t.out, u.out, Marks)
    BY <1>1, GrowsByOne
  <1>3. ASSUME NEW h \in Seq(Event), ~t.done, Nests(h \o t.out, t)
        PROVE  Nests(h \o u.out, u)
    <2>1. h \o t.out \in Seq(Event)
      BY <1>1, ConcatProperties
    <2>2. h \o u.out = Append(h \o t.out, e)
      BY <1>1, ConcatAppend
    <2> DEFINE s == h \o t.out
               v == h \o u.out
    <2> HIDE DEF s, v
    <2>3. s \in Seq(Event) /\ v = Append(s, e) /\ Nests(s, t)
      BY <1>3, <2>1, <2>2 DEF s, v
    <2>4. v \in Seq(Event) /\ Adds(s, v, e)
      BY <2>3, AppendAdds
    <2>5. Nests(v, u)
      BY <1>3, <2>3, <2>4
    <2> QED
      BY <2>5 DEF v
  <1> QED
    BY <1>2, <1>3 DEF Quiet

\* message_start is emitted once, and first.
LEMMA MessageStartQuiet ==
  ASSUME NEW t \in StreamTranslator
  PROVE  /\ Quiet(t, MessageStart(t)) /\ MessageStart(t).started
         /\ MessageStart(t).toolBlock = t.toolBlock
  <1>1. CASE t.started
    BY <1>1, QuietNot DEF MessageStart
  <1>2. CASE ~t.started
    <2> DEFINE e == [type |-> "message_start"]
               m == Emit(t, e)
               u == [m EXCEPT !.started = TRUE]
    <2>1. e \in Event /\ e.type \in Marks
      BY DEF Event, Marks
    <2>2. MessageStart(t) = u
      BY <1>2 DEF MessageStart
    <2>3. /\ m \in StreamTranslator /\ m.out = Append(t.out, e) /\ m.index = t.index
          /\ m.open = t.open /\ m.toolBlock = t.toolBlock /\ m.usage = t.usage
          /\ m.done = t.done /\ m.finish = t.finish
      BY <2>1, EmitOf
    <2> HIDE DEF m
    <2>4. /\ u \in StreamTranslator /\ u.out = Append(t.out, e) /\ u.index = t.index
          /\ u.open = t.open /\ u.toolBlock = t.toolBlock /\ u.usage = t.usage
          /\ u.done = t.done /\ u.finish = t.finish /\ u.started
      BY <2>3 DEF StreamTranslator
    <2> HIDE DEF u
    <2>5. ASSUME NEW s \in Seq(Event), NEW v \in Seq(Event), Adds(s, v, e), ~t.done, Nests(s, t)
          PROVE  Nests(v, u)
      <3>1. s = <<>>
        BY <1>2, <2>5 DEF Nests
      <3>2. Len(s) = 0
        BY <3>1
      <3> QED
        BY <1>2, <2>4, <2>5, <3>2, FirstNests
    <2> HIDE DEF e
    <2>6. Quiet(t, u)
      BY <2>1, <2>4, <2>5, EmitQuiet
    <2> QED
      BY <2>2, <2>4, <2>6
  <1> QED
    BY <1>1, <1>2

\* _close_block: the open block is stopped, and only once.
LEMMA CloseBlockQuiet ==
  ASSUME NEW t \in StreamTranslator, t.started
  PROVE  /\ Quiet(t, CloseBlock(t)) /\ CloseBlock(t).open = "none"
         /\ CloseBlock(t).index = t.index /\ CloseBlock(t).toolBlock = t.toolBlock
  <1>1. CASE t.open = "none"
    BY <1>1, QuietNot DEF CloseBlock
  <1>2. CASE t.open # "none"
    <2> DEFINE e == [type |-> "stop", index |-> t.index]
               m == Emit(t, e)
               u == [m EXCEPT !.open = "none"]
    <2>0. t.index \in Int
      BY DEF StreamTranslator
    <2>1. e \in Event /\ e.type \in Marks
      BY <2>0 DEF Event, Marks
    <2>2. CloseBlock(t) = u
      BY <1>2 DEF CloseBlock
    <2>3. /\ m \in StreamTranslator /\ m.out = Append(t.out, e) /\ m.index = t.index
          /\ m.started = t.started /\ m.toolBlock = t.toolBlock /\ m.usage = t.usage
          /\ m.done = t.done /\ m.finish = t.finish
      BY <2>1, EmitOf
    <2> HIDE DEF m
    <2>4. /\ u \in StreamTranslator /\ u.out = Append(t.out, e) /\ u.index = t.index
          /\ u.started = t.started /\ u.toolBlock = t.toolBlock /\ u.usage = t.usage
          /\ u.done = t.done /\ u.finish = t.finish /\ u.open = "none"
      BY <2>3 DEF StreamTranslator
    <2> HIDE DEF u
    <2>5. ASSUME NEW s \in Seq(Event), NEW v \in Seq(Event), Adds(s, v, e), ~t.done, Nests(s, t)
          PROVE  Nests(v, u)
      <3>1. s # <<>>
        BY <2>5 DEF Nests
      <3> QED
        BY <1>2, <2>0, <2>4, <2>5, <3>1, StopNests
    <2> HIDE DEF e
    <2>6. Quiet(t, u)
      BY <2>1, <2>4, <2>5, EmitQuiet
    <2> QED
      BY <2>2, <2>4, <2>6
  <1> QED
    BY <1>1, <1>2

\* A block opens when the one before it is closed, under the next index.
LEMMA OpenBlockQuiet ==
  ASSUME NEW t \in StreamTranslator, t.started, NEW type \in {"text", "tool"}
  PROVE  /\ Quiet(t, OpenBlock(t, type)) /\ OpenBlock(t, type).index = t.index + 1
         /\ OpenBlock(t, type).toolBlock = t.toolBlock
  <1> DEFINE c == CloseBlock(t)
             e == [type |-> "start", index |-> c.index + 1]
             m == Emit(c, e)
             u == [m EXCEPT !.index = @ + 1, !.open = type]
  <1>1. OpenBlock(t, type) = u
    BY DEF OpenBlock
  <1>2. /\ Quiet(t, c) /\ c.open = "none" /\ c.index = t.index /\ c.toolBlock = t.toolBlock
    BY CloseBlockQuiet
  <1> HIDE DEF c
  <1>3. c \in StreamTranslator /\ c.index \in Int /\ c.started
    BY <1>2 DEF Quiet, StreamTranslator
  <1>4. e \in Event /\ e.type \in Marks
    BY <1>3 DEF Event, Marks
  <1>5. /\ m \in StreamTranslator /\ m.out = Append(c.out, e) /\ m.index = c.index
        /\ m.started = c.started /\ m.toolBlock = c.toolBlock /\ m.usage = c.usage
        /\ m.done = c.done /\ m.finish = c.finish
    BY <1>3, <1>4, EmitOf
  <1> HIDE DEF m
  <1>6. type # "none"
    OBVIOUS
  <1>7. /\ u \in StreamTranslator /\ u.out = Append(c.out, e) /\ u.index = c.index + 1
        /\ u.started = c.started /\ u.toolBlock = c.toolBlock /\ u.usage = c.usage
        /\ u.done = c.done /\ u.finish = c.finish /\ u.open = type
    <2> DEFINE k == m.index + 1
    <2>1. u = [m EXCEPT !.index = k, !.open = type]
      BY <1>5 DEF StreamTranslator
    <2>2. k \in Int /\ k = c.index + 1
      BY <1>3, <1>5
    <2> HIDE DEF k
    <2>3. type \in {"none", "text", "tool"}
      OBVIOUS
    <2>4. u \in StreamTranslator
      BY <1>5, <2>1, <2>2, <2>3 DEF StreamTranslator
    <2> QED
      BY <1>5, <2>1, <2>2, <2>4 DEF StreamTranslator
  <1> HIDE DEF u
  <1>8. ASSUME NEW s \in Seq(Event), NEW v \in Seq(Event), Adds(s, v, e), ~c.done, Nests(s, c)
        PROVE  Nests(v, u)
    <2>1. s # <<>>
      BY <1>3, <1>8 DEF Nests
    <2> QED
      BY <1>2, <1>3, <1>6, <1>7, <1>8, <2>1, StartNests
  <1> HIDE DEF e
  <1>9. Quiet(c, u)
    BY <1>3, <1>4, <1>7, <1>8, EmitQuiet
  <1>10. Quiet(t, u)
    BY <1>2, <1>9, QuietOn
  <1> QED
    BY <1>1, <1>2, <1>7, <1>10

\* A delta goes to a block of some index.
LEMMA DeltaQuiet ==
  ASSUME NEW t \in StreamTranslator, t.started, NEW i \in Int
  PROVE  Quiet(t, Emit(t, [type |-> "delta", index |-> i]))
  <1> DEFINE e == [type |-> "delta", index |-> i]
             u == Emit(t, e)
  <1>1. e \in Event /\ e.type \in Marks /\ e.type = "delta"
    BY DEF Event, Marks
  <1> HIDE DEF e
  <1>2. /\ u \in StreamTranslator /\ u.out = Append(t.out, e) /\ u.index = t.index
        /\ u.started = t.started /\ u.open = t.open /\ u.usage = t.usage
        /\ u.done = t.done /\ u.finish = t.finish
    BY <1>1, EmitOf
  <1> HIDE DEF u
  <1>3. ASSUME NEW s \in Seq(Event), NEW v \in Seq(Event), Adds(s, v, e), ~t.done, Nests(s, t)
        PROVE  Nests(v, u)
    <2>1. s # <<>>
      BY <1>3 DEF Nests
    <2> QED
      BY <1>1, <1>2, <1>3, <2>1, DeltaNests
  <1>4. Quiet(t, u)
    BY <1>1, <1>2, <1>3, EmitQuiet
  <1> QED
    BY <1>4 DEF u, e

\* Text goes to a text block, opened for it if need be.
LEMMA TextDeltaQuiet ==
  ASSUME NEW t \in StreamTranslator, t.started
  PROVE  Quiet(t, TextDelta(t))
  <1> DEFINE b == IF t.open = "text" THEN t ELSE OpenBlock(t, "text")
  <1>1. Quiet(t, b)
    BY QuietNot, OpenBlockQuiet
  <1>2. TextDelta(t) = Emit(b, [type |-> "delta", index |-> b.index])
    BY DEF TextDelta
  <1> HIDE DEF b
  <1>3. b \in StreamTranslator /\ b.started /\ b.index \in Int
    BY <1>1 DEF Quiet, StreamTranslator
  <1>4. Quiet(b, TextDelta(t))
    BY <1>2, <1>3, DeltaQuiet
  <1> QED
    BY <1>1, <1>4, QuietOn

\* A tool call goes to its block, opened the first time.
LEMMA ToolDeltaQuiet ==
  ASSUME NEW t \in StreamTranslator, t.started, NEW call \in ToolCall
  PROVE  Quiet(t, ToolDelta(t, call))
  <1> DEFINE o == OpenBlock(t, "tool")
             p == [o EXCEPT !.toolBlock[call.index] = t.index + 1]
             b == IF t.toolBlock[call.index] # NoBlock THEN t ELSE p
  <1>0. call.index \in ToolIndexes /\ call.args \in BOOLEAN /\ t.index \in Int
    BY DEF ToolCall, StreamTranslator
  <1>1. Quiet(t, o)
    BY OpenBlockQuiet
  <1> HIDE DEF o
  <1>2. o \in StreamTranslator
    BY <1>1 DEF Quiet
  <1>3. /\ p \in StreamTranslator /\ p.out = o.out /\ p.index = o.index
        /\ p.started = o.started /\ p.open = o.open /\ p.usage = o.usage
        /\ p.done = o.done /\ p.finish = o.finish
    <2> DEFINE f == [o.toolBlock EXCEPT ![call.index] = t.index + 1]
    <2>1. p = [o EXCEPT !.toolBlock = f]
      BY <1>2 DEF StreamTranslator
    <2>2. f \in [ToolIndexes -> Int]
      <3>1. o.toolBlock \in [ToolIndexes -> Int]
        BY <1>2 DEF StreamTranslator
      <3>2. t.index + 1 \in Int
        BY <1>0
      <3> QED
        BY <3>1, <3>2
    <2> HIDE DEF f
    <2> QED
      BY <1>2, <2>1, <2>2 DEF StreamTranslator
  <1>4. ToolDelta(t, call) = IF call.args
                             THEN Emit(b, [type |-> "delta", index |-> b.toolBlock[call.index]])
                             ELSE b
    BY DEF ToolDelta, o
  <1> HIDE DEF p
  <1>5. Quiet(t, p)
    <2>1. \A s : Nests(s, o) => Nests(s, p)
      BY <1>3, SameNests
    <2> QED
      BY <1>1, <1>3, <2>1 DEF Quiet
  <1>6. Quiet(t, b)
    BY <1>5, QuietNot
  <1> HIDE DEF b
  <1>7. b \in StreamTranslator /\ b.started /\ b.toolBlock[call.index] \in Int
    BY <1>0, <1>6 DEF Quiet, StreamTranslator
  <1>8. Quiet(b, Emit(b, [type |-> "delta", index |-> b.toolBlock[call.index]]))
    BY <1>7, DeltaQuiet
  <1>9. Quiet(t, Emit(b, [type |-> "delta", index |-> b.toolBlock[call.index]]))
    BY <1>6, <1>8, QuietOn
  <1> QED
    BY <1>4, <1>6, <1>9

-----------------------------------------------------------------------------
(* Ends, and the tool calls of a chunk.                                    *)

\* The end of a message: what is open is closed, then the two last events.
Ends(t, u) ==
    /\ u \in StreamTranslator /\ u.usage = t.usage /\ u.done
    /\ \E b \in StreamTranslator, d \in Event, e \in Event :
          /\ Grows(t.out, b.out, Marks) /\ u.out = Append(Append(b.out, d), e)
          /\ d.type = "message_delta" /\ d.usage = t.usage /\ e.type = "message_stop"
    /\ \A h \in Seq(Event) : ~t.done /\ Nests(h \o t.out, t) => Nests(h \o u.out, u)

\* The end of the message, in the order the client relies on.
LEMMA CloseEnds ==
  ASSUME NEW t \in StreamTranslator
  PROVE  Ends(t, Close(t))
  <1> DEFINE s == MessageStart(t)
             b == CloseBlock(s)
             d == [type |-> "message_delta", reason |-> StopReason(t.finish), usage |-> t.usage]
             e == [type |-> "message_stop"]
             m == Emit(b, d)
             n == Emit(m, e)
             u == [n EXCEPT !.done = TRUE]
  <1>1. Close(t) = u
    BY DEF Close
  <1>2. d \in Event /\ e \in Event
    <2>1. t.finish \in Finishes /\ t.usage \in Nat
      BY DEF StreamTranslator
    <2> QED
      BY <2>1 DEF Event
  <1>3. d.type = "message_delta" /\ d.usage = t.usage /\ e.type = "message_stop"
    OBVIOUS
  <1>4. Quiet(t, s) /\ s.started
    BY MessageStartQuiet
  <1> HIDE DEF s
  <1>5. Quiet(s, b) /\ b.open = "none"
    BY <1>4, CloseBlockQuiet DEF Quiet
  <1> HIDE DEF b
  <1>6. Quiet(t, b) /\ b \in StreamTranslator /\ b.started
    BY <1>4, <1>5, QuietOn DEF Quiet
  <1> HIDE DEF d, e
  <1>7. /\ m \in StreamTranslator /\ m.out = Append(b.out, d) /\ m.index = b.index
        /\ m.started = b.started /\ m.usage = b.usage /\ m.open = b.open
    BY <1>2, <1>6, EmitOf
  <1> HIDE DEF m
  <1>8. /\ n \in StreamTranslator /\ n.out = Append(Append(b.out, d), e) /\ n.index = b.index
        /\ n.started = b.started /\ n.usage = b.usage /\ n.open = b.open
    BY <1>2, <1>7, EmitOf
  <1> HIDE DEF n
  <1>9. /\ u \in StreamTranslator /\ u.out = Append(Append(b.out, d), e) /\ u.index = b.index
        /\ u.started = b.started /\ u.usage = b.usage /\ u.open = b.open /\ u.done
    BY <1>8 DEF StreamTranslator
  <1> HIDE DEF u
  <1>10. u.usage = t.usage /\ Grows(t.out, b.out, Marks) /\ b.done = t.done
    BY <1>6, <1>9 DEF Quiet
  <1>11. ASSUME NEW h \in Seq(Event), ~t.done, Nests(h \o t.out, t)
         PROVE  Nests(h \o u.out, u)
    <2>1. Nests(h \o b.out, b)
      BY <1>6, <1>11 DEF Quiet
    <2>2. b.out \in Seq(Event) /\ Append(b.out, d) \in Seq(Event)
      <3>1. b.out \in Seq(Event)
        BY <1>6 DEF StreamTranslator
      <3> QED
        BY <1>2, <3>1, AppendAdds
    <2> DEFINE x == h \o b.out
               v == Append(x, d)
               w == Append(v, e)
    <2>3. h \o u.out = w
      <3>1. h \o u.out = Append(h \o Append(b.out, d), e)
        BY <1>2, <1>9, <2>2, ConcatAppend
      <3>2. h \o Append(b.out, d) = Append(h \o b.out, d)
        BY <1>2, <2>2, ConcatAppend
      <3> QED
        BY <3>1, <3>2
    <2>4. x \in Seq(Event)
      BY <2>2, ConcatProperties
    <2> HIDE DEF x
    <2>5. v \in Seq(Event) /\ Adds(x, v, d)
      BY <1>2, <2>4, AppendAdds
    <2> HIDE DEF v
    <2>6. Adds(v, w, e)
      BY <1>2, <2>5, AppendAdds
    <2> HIDE DEF w
    <2>7. Nests(x, b)
      BY <2>1 DEF x
    <2>8. x # <<>>
      BY <1>6, <2>7 DEF Nests
    <2>9. Nests(w, u)
      BY <1>3, <1>5, <1>9, <1>10, <1>11, <2>5, <2>6, <2>7, <2>8, EndNests
    <2> QED
      BY <2>3, <2>9
  <1>12. Ends(t, u)
    BY <1>2, <1>3, <1>6, <1>9, <1>10, <1>11 DEF Ends
  <1> QED
    BY <1>1, <1>12

-----------------------------------------------------------------------------
(* The tool calls of a chunk.                                              *)

ToolRun(it, t, calls) ==
    it = [p \in SUBSET DOMAIN calls |->
            IF p = {} THEN t ELSE ToolDelta(it[p \ {Max(p)}], calls[Max(p)])]

\* The tool calls of a chunk are taken one after the other.
LEMMA ToolFold ==
  ASSUME NEW t, NEW calls
  PROVE  FoldLeft(ToolDelta, t, calls) = (CHOOSE it : ToolRun(it, t, calls))[DOMAIN calls]
  BY DEF FoldLeft, MapThenFoldSet, ToolRun

\* There is such a run.
LEMMA ToolRunExists ==
  ASSUME NEW t \in StreamTranslator, t.started, NEW calls \in Seq(ToolCall)
  PROVE  \E it : ToolRun(it, t, calls)
  <1> DEFINE T == {u \in StreamTranslator : u.started}
             n == Len(calls)
             g == [p \in T \X ToolCall |-> ToolDelta(p[1], p[2])]
  <1>1. \A u \in T, c \in ToolCall : ToolDelta(u, c) \in T
    BY ToolDeltaQuiet DEF Quiet
  <1>2. t \in T /\ n \in Nat /\ DOMAIN calls = 1 .. n /\ \A i \in 1 .. n : calls[i] \in ToolCall
    BY LenProperties, ElementOfSeq
  <1> HIDE DEF T, n
  <1>3. g \in [T \X ToolCall -> T] /\ \A u \in T, c \in ToolCall : g[<<u, c>>] = ToolDelta(u, c)
    BY <1>1
  <1> HIDE DEF g
  <1>4. PICK it : Folding(it, g, t, calls, SUBSET (1 .. n))
    BY <1>2, FoldingExists
  <1>5. \A p \in SUBSET (1 .. n) :
           /\ it[p] \in T
           /\ p # {} => Max(p) \in 1 .. n /\ p \ {Max(p)} \in SUBSET (1 .. n)
    <2>1. \A p \in SUBSET (1 .. n) : it[p] \in T
      BY <1>2, <1>3, <1>4, FoldingStays
    <2>2. \A p \in SUBSET (1 .. n) :
             p # {} => Max(p) \in 1 .. n /\ p \ {Max(p)} \in SUBSET (1 .. n)
      BY <1>2, LastOf
    <2> QED
      BY <2>1, <2>2
  <1>6. \A p \in SUBSET (1 .. n) :
           p # {} => g[<<it[p \ {Max(p)}], calls[Max(p)]>>] = ToolDelta(it[p \ {Max(p)}], calls[Max(p)])
    BY <1>2, <1>3, <1>5
  <1>7. ToolRun(it, t, calls)
    BY <1>2, <1>4, <1>6 DEF Folding, ToolRun
  <1> QED
    BY <1>7

\* Each step of it takes one call.
LEMMA ToolSteps ==
  ASSUME NEW t \in StreamTranslator, t.started, NEW calls \in Seq(ToolCall)
  PROVE  \E R : /\ R[0] = t
                /\ \A k \in 1 .. Len(calls) : R[k] = ToolDelta(R[k - 1], calls[k])
                /\ FoldLeft(ToolDelta, t, calls) = R[Len(calls)]
  <1> DEFINE it == CHOOSE i : ToolRun(i, t, calls)
             n == Len(calls)
             R == [k \in 0 .. n |-> it[1 .. k]]
  <1>1. ToolRun(it, t, calls)
    BY ToolRunExists
  <1>2. FoldLeft(ToolDelta, t, calls) = it[DOMAIN calls]
    BY ToolFold
  <1> HIDE DEF it
  <1>3. n \in Nat /\ DOMAIN calls = 1 .. n
    BY LenProperties
  <1> HIDE DEF n
  <1>4. \A p \in SUBSET (1 .. n) :
           it[p] = IF p = {} THEN t ELSE ToolDelta(it[p \ {Max(p)}], calls[Max(p)])
    BY <1>1, <1>3 DEF ToolRun
  <1>5. \A k \in 0 .. n : 1 .. k \in SUBSET (1 .. n) /\ R[k] = it[1 .. k]
    BY <1>3
  <1>6. R[0] = t
    <2>1. 1 .. 0 = {} /\ 0 \in 0 .. n /\ {} \in SUBSET (1 .. n)
      BY <1>3
    <2>2. it[{}] = t
      BY <1>4, <2>1
    <2> HIDE DEF R
    <2> QED
      BY <1>5, <2>1, <2>2
  <1>7. ASSUME NEW k \in 1 .. n
        PROVE  R[k] = ToolDelta(R[k - 1], calls[k])
    <2>0. k \in Nat /\ k # 0
      BY <1>3
    <2>1. 1 .. k # {} /\ Max(1 .. k) = k /\ (1 .. k) \ {k} = 1 .. k - 1
      BY <2>0, LastOfFirst
    <2>2. R[k - 1] = it[1 .. k - 1] /\ R[k] = it[1 .. k] /\ 1 .. k \in SUBSET (1 .. n)
      BY <1>3, <1>5
    <2> QED
      BY <1>4, <2>1, <2>2
  <1>8. R[n] = it[1 .. n]
    BY <1>3, <1>5
  <1> HIDE DEF R
  <1> QED
    BY <1>2, <1>3, <1>6, <1>7, <1>8 DEF n

\* However many calls a chunk has, it emits no end.
LEMMA ToolsQuiet ==
  ASSUME NEW t \in StreamTranslator, t.started, NEW calls \in Seq(ToolCall)
  PROVE  Quiet(t, FoldLeft(ToolDelta, t, calls))
  <1>1. PICK R : /\ R[0] = t
                 /\ \A k \in 1 .. Len(calls) : R[k] = ToolDelta(R[k - 1], calls[k])
                 /\ FoldLeft(ToolDelta, t, calls) = R[Len(calls)]
    BY ToolSteps
  <1>2. Len(calls) \in Nat /\ \A i \in 1 .. Len(calls) : calls[i] \in ToolCall
    BY LenProperties, ElementOfSeq
  <1> DEFINE n == Len(calls)
             P == {k \in 0 .. n : Quiet(t, R[k])}
  <1> HIDE DEF n
  <1>3. n \in Nat
    BY <1>2 DEF n
  <1>4. 0 \in P
    BY <1>1, <1>3, QuietNot
  <1>5. ASSUME NEW k \in 1 .. n, k - 1 \in P
        PROVE  k \in P
    <2>1. Quiet(t, R[k - 1])
      BY <1>5
    <2>2. R[k - 1] \in StreamTranslator /\ R[k - 1].started
      BY <2>1 DEF Quiet
    <2>3. R[k] = ToolDelta(R[k - 1], calls[k]) /\ calls[k] \in ToolCall
      BY <1>1, <1>2 DEF n
    <2>4. Quiet(R[k - 1], R[k])
      BY <2>2, <2>3, ToolDeltaQuiet
    <2>5. Quiet(t, R[k])
      BY <2>1, <2>4, QuietOn
    <2> QED
      BY <1>3, <2>5
  <1>6. \A k \in 0 .. n : k \in P
    <2> HIDE DEF P
    <2> QED
      BY <1>3, <1>4, <1>5, StepByStep
  <1>7. Quiet(t, R[n])
    BY <1>3, <1>6
  <1> QED
    BY <1>1, <1>7 DEF n

-----------------------------------------------------------------------------
(* A line of the stream.                                                   *)

\* BlocksNest of any sequence of events.
PlacesOf(s, type) == {i \in DOMAIN s : /\ s[i].type = type
                                       /\ \A j \in 1 .. i - 1 : s[j].type # "error"}
NestOf(s) ==
    /\ \A i \in PlacesOf(s, "message_start") : i = 1
    /\ \A i \in PlacesOf(s, "start") :
          s[i].index = Cardinality(PlacesOf(s, "start") \cap 1 .. i - 1)
    /\ \A i \in PlacesOf(s, "start"), j \in PlacesOf(s, "start") \cup PlacesOf(s, "message_delta") :
          i < j => \E k \in i .. j : s[k] = [type |-> "stop", index |-> s[i].index]
    /\ \A i, j \in PlacesOf(s, "stop") : s[i] = s[j] => i = j
    /\ \A i \in PlacesOf(s, "message_stop") : i = Len(s)
    /\ \A i \in PlacesOf(s, "message_stop") : i > 2 /\ s[i - 1].type = "message_delta"
    /\ \A i \in DOMAIN s : i = 1 => s[i].type \in {"message_start", "error"}

\* In order up to an error, which nothing can put out of order.
Frozen(s) == HasError(s) /\ NestOf(s) /\ PlacesOf(s, "message_stop") = {}

\* A stream in order nests, and without its end it has none.
LEMMA NestsIsNest ==
  ASSUME NEW s \in Seq(Event), NEW t, Nests(s, t)
  PROVE  NestOf(s) /\ (~t.done => PlacesOf(s, "message_stop") = {})
  <1>1. \A y : PlacesOf(s, y) = At(s, y)
    <2>1. \A i \in DOMAIN s : s[i].type # "error"
      BY DEF Nests, HasError
    <2>2. DOMAIN s = 1 .. Len(s) /\ Len(s) \in Nat
      BY LenProperties
    <2>3. \A i \in DOMAIN s : \A j \in 1 .. i - 1 : s[j].type # "error"
      BY <2>1, <2>2
    <2> QED
      BY <2>3 DEF PlacesOf, At
  <1>2. \A i \in DOMAIN s : i = 1 => s[i].type \in {"message_start", "error"}
    <2>1. CASE s = <<>>
      BY <2>1
    <2>2. CASE s # <<>>
      BY <2>2 DEF Nests
    <2> QED
      BY <2>1, <2>2
  <1>3. \A i \in At(s, "start"), j \in At(s, "start") \cup At(s, "message_delta") :
          i < j => \E k \in i .. j : s[k] = [type |-> "stop", index |-> s[i].index]
    BY DEF Nests, Closed
  <1>4. /\ \A i, j \in At(s, "stop") : s[i] = s[j] => i = j
        /\ \A i \in At(s, "message_stop") : i = Len(s)
        /\ \A i \in At(s, "message_stop") : i > 2 /\ s[i - 1].type = "message_delta"
    BY DEF Nests
  <1>5. \A i \in At(s, "message_start") : i = 1
    BY DEF Nests
  <1>6. \A i \in At(s, "start") : s[i].index = Cardinality(At(s, "start") \cap 1 .. i - 1)
    BY DEF Nests
  <1>7. NestOf(s)
    <2>1. /\ PlacesOf(s, "message_start") = At(s, "message_start")
          /\ PlacesOf(s, "start") = At(s, "start") /\ PlacesOf(s, "stop") = At(s, "stop")
          /\ PlacesOf(s, "message_delta") = At(s, "message_delta")
          /\ PlacesOf(s, "message_stop") = At(s, "message_stop")
      BY <1>1
    <2> QED
      BY <1>2, <1>3, <1>4, <1>5, <1>6, <2>1 DEF NestOf
  <1> QED
    BY <1>1, <1>7 DEF Nests

\* v goes on where s ends.
Extends(s, v) ==
    /\ Len(s) \in Nat /\ Len(v) \in Nat /\ Len(s) <= Len(v)
    /\ DOMAIN s = 1 .. Len(s) /\ DOMAIN v = 1 .. Len(v)
    /\ \A i \in 1 .. Len(s) : v[i] = s[i]

\* What grows goes on where it was.
LEMMA GrownExtends ==
  ASSUME NEW s \in Seq(Event), NEW v \in Seq(Event), NEW K, Grows(s, v, K)
  PROVE  Extends(s, v)
  BY LenProperties DEF Grows, Extends

\* An error that was sent stays sent.
LEMMA ErrorStays ==
  ASSUME NEW s, NEW v, Extends(s, v), HasError(s)
  PROVE  HasError(v)
  <1>1. PICK i \in 1 .. Len(s) : s[i].type = "error"
    BY DEF HasError, Extends
  <1>2. v[i].type = "error" /\ i \in 1 .. Len(v)
    BY <1>1 DEF Extends
  <1> QED
    BY <1>2 DEF HasError, Extends

\* What follows an error has no place.
LEMMA PlacesFrozen ==
  ASSUME NEW s, NEW v, Extends(s, v),
         HasError(s) \/ (Len(v) = Len(s) + 1 /\ v[Len(v)].type = "error"), NEW y, y # "error"
  PROVE  PlacesOf(v, y) = PlacesOf(s, y)
  <1>1. /\ Len(s) \in Nat /\ Len(v) \in Nat /\ Len(s) <= Len(v)
        /\ \A i \in 1 .. Len(s) : v[i] = s[i]
    BY DEF Extends
  <1>p. /\ \A i \in PlacesOf(s, y) : i \in 1 .. Len(s) /\ s[i].type = y
        /\ \A i \in PlacesOf(v, y) : i \in 1 .. Len(v) /\ v[i].type = y
        /\ \A i \in PlacesOf(s, y) : \A j \in 1 .. i - 1 : s[j].type # "error"
        /\ \A i \in PlacesOf(v, y) : \A j \in 1 .. i - 1 : v[j].type # "error"
    BY DEF Extends, PlacesOf
  <1>2. ASSUME NEW i \in 1 .. Len(s)
        PROVE  i \in PlacesOf(v, y) <=> i \in PlacesOf(s, y)
    <2>1. ASSUME NEW j \in 1 .. i - 1
          PROVE  v[j].type = s[j].type
      <3>1. j \in 1 .. Len(s)
        BY <1>1
      <3> QED
        BY <1>1, <3>1
    <2>2. v[i] = s[i]
      BY <1>1
    <2>3. i \in DOMAIN s /\ i \in DOMAIN v
      <3>1. i \in 1 .. Len(v)
        BY <1>1
      <3>2. DOMAIN s = 1 .. Len(s) /\ DOMAIN v = 1 .. Len(v)
        BY DEF Extends
      <3> QED
        BY <3>1, <3>2
    <2> QED
      BY <2>1, <2>2, <2>3 DEF PlacesOf
  <1>3. ASSUME NEW i \in PlacesOf(v, y)
        PROVE  i \in 1 .. Len(s)
    <2>1. i \in 1 .. Len(v) /\ v[i].type # "error" /\ \A j \in 1 .. i - 1 : v[j].type # "error"
      BY <1>p
    <2>2. CASE HasError(s)
      <3>1. PICK e \in 1 .. Len(s) : s[e].type = "error"
        BY <2>2 DEF HasError, Extends
      <3>2. v[e].type = "error"
        BY <1>1, <3>1
      <3>3. e \notin 1 .. i - 1
        BY <2>1, <3>2
      <3>4. e \in Nat /\ 1 <= e /\ e <= Len(s) /\ i \in Nat /\ 1 <= i
        BY <1>1, <2>1
      <3>5. ~(e <= i - 1)
        BY <3>3, <3>4
      <3> QED
        BY <1>1, <3>4, <3>5
    <2>3. CASE Len(v) = Len(s) + 1 /\ v[Len(v)].type = "error"
      <3>1. i # Len(v)
        BY <2>1, <2>3
      <3> QED
        BY <1>1, <2>1, <2>3, <3>1
    <2> QED
      BY <2>2, <2>3
  <1> QED
    BY <1>p, <1>2, <1>3

\* After an error, or with one, nothing can put the stream out of order.
LEMMA FrozenGrows ==
  ASSUME NEW s, NEW v, Extends(s, v),
         HasError(s) \/ (Len(v) = Len(s) + 1 /\ v[Len(v)].type = "error"),
         NestOf(s), PlacesOf(s, "message_stop") = {}
  PROVE  Frozen(v)
  <1>1. \A y : y # "error" => PlacesOf(v, y) = PlacesOf(s, y)
    BY PlacesFrozen
  <1>2. /\ Len(s) \in Nat /\ Len(v) \in Nat /\ Len(s) <= Len(v)
        /\ \A i \in 1 .. Len(s) : v[i] = s[i]
    BY DEF Extends
  <1>3. HasError(v)
    <2>1. CASE HasError(s)
      BY <2>1, ErrorStays
    <2>2. CASE Len(v) = Len(s) + 1 /\ v[Len(v)].type = "error"
      <3>1. Len(v) \in 1 .. Len(v)
        BY <1>2, <2>2
      <3> QED
        BY <2>2, <3>1 DEF HasError, Extends
    <2> QED
      BY <2>1, <2>2
  <1>4. \A y : \A i \in PlacesOf(s, y) : i \in 1 .. Len(s) /\ v[i] = s[i]
    BY DEF Extends, PlacesOf
  <1>5. PlacesOf(v, "message_stop") = {}
    BY <1>1
  <1>6. \A i \in PlacesOf(v, "message_start") : i = 1
    BY <1>1 DEF NestOf
  <1>7. \A i \in PlacesOf(v, "start") :
          v[i].index = Cardinality(PlacesOf(v, "start") \cap 1 .. i - 1)
    <2>1. PlacesOf(v, "start") = PlacesOf(s, "start")
      BY <1>1
    <2> QED
      BY <1>4, <2>1 DEF NestOf
  <1>8. ASSUME NEW i \in PlacesOf(v, "start"),
               NEW j \in PlacesOf(v, "start") \cup PlacesOf(v, "message_delta"), i < j
        PROVE  \E k \in i .. j : v[k] = [type |-> "stop", index |-> v[i].index]
    <2>1. i \in PlacesOf(s, "start") /\ j \in PlacesOf(s, "start") \cup PlacesOf(s, "message_delta")
      BY <1>1
    <2>2. PICK k \in i .. j : s[k] = [type |-> "stop", index |-> s[i].index]
      BY <1>8, <2>1 DEF NestOf
    <2>3. i \in 1 .. Len(s) /\ j \in 1 .. Len(s) /\ v[i] = s[i]
      BY <1>4, <2>1
    <2>4. k \in 1 .. Len(s)
      BY <1>2, <2>3
    <2>5. v[k] = s[k]
      BY <1>2, <2>4
    <2> QED
      BY <2>2, <2>3, <2>5
  <1>9. \A i, j \in PlacesOf(v, "stop") : v[i] = v[j] => i = j
    BY <1>1, <1>4 DEF NestOf
  <1>10. \A i \in DOMAIN v : i = 1 => v[i].type \in {"message_start", "error"}
    <2>1. CASE Len(s) = 0
      <3>1. ~HasError(s)
        BY <2>1 DEF HasError, Extends
      <3>2. Len(v) = 1 /\ v[1].type = "error"
        BY <2>1, <3>1
      <3> QED
        BY <3>2
    <2>2. CASE Len(s) # 0
      <3>0. 1 \in 1 .. Len(s)
        BY <1>2, <2>2
      <3>1. 1 \in DOMAIN s /\ v[1] = s[1]
        BY <1>2, <3>0 DEF Extends
      <3> QED
        BY <3>1 DEF NestOf
    <2> QED
      BY <2>1, <2>2
  <1> QED
    BY <1>3, <1>5, <1>6, <1>7, <1>8, <1>9, <1>10 DEF Frozen, NestOf

-----------------------------------------------------------------------------
\* A chunk's delta: finish reason, text, tool calls.
LEMMA ChoiceQuiet ==
  ASSUME NEW t \in StreamTranslator, NEW chunk \in Line
  PROVE  Quiet(t, Choice(t, chunk))
  <1> DEFINE f == IF chunk.finish = "none" THEN t ELSE [t EXCEPT !.finish = chunk.finish]
             s == MessageStart(f)
             x == IF chunk.text THEN TextDelta(s) ELSE s
  <1>0. chunk.finish \in Finishes /\ chunk.tools \in Seq(ToolCall) /\ chunk.text \in BOOLEAN
    BY DEF Line
  <1>1. Choice(t, chunk) = FoldLeft(ToolDelta, x, chunk.tools)
    BY DEF Choice
  <1>2. /\ f \in StreamTranslator /\ f.out = t.out /\ f.started = t.started /\ f.open = t.open
        /\ f.index = t.index /\ f.done = t.done /\ f.usage = t.usage
    BY <1>0 DEF StreamTranslator
  <1> HIDE DEF f
  <1>3. Quiet(t, f)
    <2>1. \A v : Nests(v, t) => Nests(v, f)
      BY <1>2, SameNests
    <2>2. Grows(t.out, t.out, Marks)
      BY GrowsNot, LenProperties DEF StreamTranslator
    <2> QED
      BY <1>2, <2>1, <2>2 DEF Quiet
  <1>4. Quiet(f, s) /\ s.started
    BY <1>2, MessageStartQuiet
  <1> HIDE DEF s
  <1>5. s \in StreamTranslator
    BY <1>4 DEF Quiet
  <1>6. Quiet(s, x)
    BY <1>4, <1>5, QuietNot, TextDeltaQuiet
  <1> HIDE DEF x
  <1>7. x \in StreamTranslator /\ x.started
    BY <1>4, <1>6 DEF Quiet
  <1>8. Quiet(x, Choice(t, chunk))
    BY <1>0, <1>1, <1>7, ToolsQuiet
  <1>9. Quiet(t, s)
    BY <1>2, <1>3, <1>4, QuietOn
  <1>10. Quiet(t, x)
    BY <1>6, <1>9, QuietOn
  <1> QED
    BY <1>8, <1>10, QuietOn

\* A line of the stream, [DONE] among them, as feed reads it.
OneLine(t, l) == IF l.kind = "done" THEN Close(t) ELSE OnChunk(t, l)
Latest(n, l) == IF l.usage = 0 THEN n ELSE l.usage
InOrder(s, t) == Nests(s, t) \/ Frozen(s)

\* The stream's translator with the usage of a line.
WithUsage(t, l) == IF l.usage = 0 THEN t ELSE [t EXCEPT !.usage = l.usage]

\* The usage of a line emits nothing.
LEMMA UsageQuiet ==
  ASSUME NEW t \in StreamTranslator, NEW l \in Line
  PROVE  /\ WithUsage(t, l) \in StreamTranslator
         /\ WithUsage(t, l).usage = Latest(t.usage, l) /\ WithUsage(t, l).done = t.done
         /\ WithUsage(t, l).out = t.out /\ \A s : Nests(s, t) => Nests(s, WithUsage(t, l))
  <1> DEFINE u == WithUsage(t, l)
  <1>1. l.usage \in Nat
    BY DEF Line
  <1>2. /\ u \in StreamTranslator /\ u.usage = Latest(t.usage, l) /\ u.done = t.done
        /\ u.out = t.out /\ u.started = t.started /\ u.open = t.open /\ u.index = t.index
    BY <1>1 DEF StreamTranslator, Latest, WithUsage
  <1> HIDE DEF u
  <1>3. \A s : Nests(s, t) => Nests(s, u)
    BY <1>2, SameNests
  <1> QED
    BY <1>2, <1>3 DEF u

\* What a line that is neither [DONE] nor an error does.
Reads(t, u, l) ==
    /\ u \in StreamTranslator /\ u.usage = Latest(t.usage, l) /\ u.done = t.done
    /\ Grows(t.out, u.out, Marks)
    /\ \A h \in Seq(Event) : ~t.done /\ Nests(h \o t.out, t) => Nests(h \o u.out, u)

\* A chunk is read, and nothing ends.
LEMMA ChunkReads ==
  ASSUME NEW t \in StreamTranslator, NEW l \in Line, l.kind \in {"choice", "usage"}
  PROVE  Reads(t, OnChunk(t, l), l)
  <1> DEFINE u == WithUsage(t, l)
  <1>1. OnChunk(t, l) = IF l.kind = "choice" THEN Choice(u, l) ELSE u
    BY DEF OnChunk, WithUsage
  <1>2. /\ u \in StreamTranslator /\ u.usage = Latest(t.usage, l) /\ u.done = t.done
        /\ u.out = t.out /\ \A s : Nests(s, t) => Nests(s, u)
    BY UsageQuiet
  <1> HIDE DEF u
  <1>3. CASE l.kind = "choice"
    <2>1. Quiet(u, Choice(u, l))
      BY <1>2, ChoiceQuiet
    <2> QED
      BY <1>1, <1>2, <1>3, <2>1 DEF Quiet, Reads
  <1>4. CASE l.kind = "usage"
    <2>1. Grows(t.out, t.out, Marks)
      BY GrowsNot, LenProperties DEF StreamTranslator
    <2> QED
      BY <1>1, <1>2, <1>4, <2>1 DEF Reads
  <1> QED
    BY <1>3, <1>4

\* What an error does.
Errs(t, u) ==
    /\ u \in StreamTranslator
    /\ \E e \in Event : e.type = "error" /\ u.out = Append(t.out, e)

\* An error is passed on and ends the translation.
LEMMA ChunkErrs ==
  ASSUME NEW t \in StreamTranslator, NEW l \in Line, l.kind = "error"
  PROVE  Errs(t, OnChunk(t, l))
  <1> DEFINE e == [type |-> "error"]
             m == Emit(t, e)
             u == [m EXCEPT !.done = TRUE]
  <1>1. OnChunk(t, l) = u
    BY DEF OnChunk
  <1>2. e \in Event /\ e.type = "error"
    BY DEF Event
  <1> HIDE DEF e
  <1>3. m \in StreamTranslator /\ m.out = Append(t.out, e)
    BY <1>2, EmitOf
  <1> HIDE DEF m
  <1>4. u \in StreamTranslator /\ u.out = Append(t.out, e)
    BY <1>3 DEF StreamTranslator
  <1> QED
    BY <1>1, <1>2, <1>4 DEF Errs

\* Whatever a line is, what was emitted stays.
LEMMA LineExtends ==
  ASSUME NEW t \in StreamTranslator, NEW l \in Line
  PROVE  /\ OneLine(t, l) \in StreamTranslator
         /\ Extends(t.out, OneLine(t, l).out)
  <1> DEFINE u == OneLine(t, l)
  <1>0. t.out \in Seq(Event)
    BY DEF StreamTranslator
  <1>1. CASE l.kind = "done"
    <2>1. Ends(t, u)
      BY <1>1, CloseEnds DEF OneLine
    <2>2. PICK b \in StreamTranslator, d \in Event, e \in Event :
             Grows(t.out, b.out, Marks) /\ u.out = Append(Append(b.out, d), e)
      BY <2>1 DEF Ends
    <2>3. b.out \in Seq(Event)
      BY DEF StreamTranslator
    <2>4. Append(b.out, d) \in Seq(Event) /\ Adds(b.out, Append(b.out, d), d)
      BY <2>3, AppendAdds
    <2>5. Adds(Append(b.out, d), u.out, e)
      BY <2>2, <2>4, AppendAdds
    <2>6. Extends(t.out, b.out)
      BY <1>0, <2>2, <2>3, GrownExtends
    <2>7. Extends(t.out, u.out)
      <3> DEFINE x == t.out
                 y == b.out
                 z == Append(b.out, d)
                 w == u.out
      <3>1. Extends(x, y) /\ Adds(y, z, d) /\ Adds(z, w, e)
        BY <2>4, <2>5, <2>6
      <3> HIDE DEF x, y, z, w
      <3>2. /\ Len(x) \in Nat /\ Len(y) \in Nat /\ Len(x) <= Len(y) /\ Len(w) = Len(y) + 2
            /\ DOMAIN x = 1 .. Len(x) /\ DOMAIN w = 1 .. Len(w)
        BY <3>1 DEF Extends, Adds
      <3>3. \A i \in 1 .. Len(x) : w[i] = x[i]
        <4> TAKE i \in 1 .. Len(x)
        <4>1. i \in 1 .. Len(y) /\ i \in 1 .. Len(z)
          BY <3>1, <3>2 DEF Adds
        <4> QED
          BY <3>1, <4>1 DEF Extends, Adds
      <3>4. Extends(x, w)
        BY <3>2, <3>3 DEF Extends
      <3> QED
        BY <3>4 DEF x, w
    <2> QED
      BY <2>1, <2>7 DEF Ends
  <1>2. CASE l.kind = "error"
    <2>1. Errs(t, u)
      BY <1>2, ChunkErrs DEF OneLine
    <2>2. PICK e \in Event : u.out = Append(t.out, e)
      BY <2>1 DEF Errs
    <2>3. Adds(t.out, u.out, e)
      BY <1>0, <2>2, AppendAdds
    <2> HIDE DEF u
    <2>4. Extends(t.out, u.out)
      BY <2>3 DEF Adds, Extends
    <2> QED
      BY <2>1, <2>4 DEF Errs, u
  <1>3. CASE l.kind \in {"choice", "usage"}
    <2>1. Reads(t, u, l)
      BY <1>3, ChunkReads DEF OneLine
    <2>2. u.out \in Seq(Event)
      BY <2>1 DEF Reads, StreamTranslator
    <2> QED
      BY <1>0, <2>1, <2>2, GrownExtends DEF Reads
  <1> QED
    BY <1>1, <1>2, <1>3 DEF Line

-----------------------------------------------------------------------------
(* A piece of the stream.                                                  *)

\* In order, with more to come.
Going(s, t) == Frozen(s) \/ (Nests(s, t) /\ ~t.done)

\* What goes on goes on after what the client has.
LEMMA ConcatExtends ==
  ASSUME NEW h \in Seq(Event), NEW s \in Seq(Event), NEW v \in Seq(Event), Extends(s, v)
  PROVE  Extends(h \o s, h \o v)
  <1> DEFINE x == h \o s
             y == h \o v
  <1>1. /\ Len(h) \in Nat /\ x \in Seq(Event) /\ y \in Seq(Event)
        /\ Len(x) = Len(h) + Len(s) /\ Len(y) = Len(h) + Len(v)
    BY ConcatProperties, LenProperties
  <1>2. /\ \A i \in 1 .. Len(h) + Len(s) : x[i] = IF i <= Len(h) THEN h[i] ELSE s[i - Len(h)]
        /\ \A i \in 1 .. Len(h) + Len(v) : y[i] = IF i <= Len(h) THEN h[i] ELSE v[i - Len(h)]
    BY ConcatProperties
  <1>3. DOMAIN x = 1 .. Len(x) /\ DOMAIN y = 1 .. Len(y)
    BY <1>1, LenProperties
  <1> HIDE DEF x, y
  <1>4. Len(s) \in Nat /\ Len(v) \in Nat /\ Len(s) <= Len(v) /\ \A i \in 1 .. Len(s) : v[i] = s[i]
    BY DEF Extends
  <1>5. ASSUME NEW i \in 1 .. Len(x)
        PROVE  y[i] = x[i]
    <2>1. i \in 1 .. Len(h) + Len(s) /\ i \in 1 .. Len(h) + Len(v)
      BY <1>1, <1>4
    <2>2. CASE i <= Len(h)
      BY <1>2, <2>1, <2>2
    <2>3. CASE ~(i <= Len(h))
      <3>1. i - Len(h) \in 1 .. Len(s)
        BY <1>1, <1>4, <2>1, <2>3
      <3>2. v[i - Len(h)] = s[i - Len(h)]
        BY <1>4, <3>1
      <3> QED
        BY <1>2, <2>1, <2>3, <3>2
    <2> QED
      BY <2>2, <2>3
  <1>6. Len(x) \in Nat /\ Len(y) \in Nat /\ Len(x) <= Len(y)
    BY <1>1, <1>4
  <1>7. Extends(x, y)
    BY <1>3, <1>5, <1>6 DEF Extends
  <1> QED
    BY <1>7 DEF x, y

\* A line keeps the stream in order, and after [DONE] nothing goes on.
LEMMA LineInOrder ==
  ASSUME NEW t \in StreamTranslator, NEW l \in Line, NEW h \in Seq(Event),
         Going(h \o t.out, t)
  PROVE  /\ InOrder(h \o OneLine(t, l).out, OneLine(t, l))
         /\ l.kind # "done" => Going(h \o OneLine(t, l).out, OneLine(t, l))
  <1> DEFINE u == OneLine(t, l)
             s == h \o t.out
             v == h \o u.out
  <1>1. u \in StreamTranslator /\ Extends(t.out, u.out)
    BY LineExtends
  <1>2. t.out \in Seq(Event) /\ u.out \in Seq(Event)
    BY <1>1 DEF StreamTranslator
  <1> HIDE DEF u
  <1>3. s \in Seq(Event) /\ v \in Seq(Event) /\ Extends(s, v)
    BY <1>1, <1>2, ConcatExtends, ConcatProperties
  <1>4. CASE Frozen(s)
    <2> HIDE DEF s, v
    <2>1. Frozen(v)
      BY <1>3, <1>4, FrozenGrows DEF Frozen
    <2> QED
      BY <2>1 DEF Going, InOrder, v, u
  <1>5. CASE Nests(s, t) /\ ~t.done
    <2>1. CASE l.kind = "done"
      <3>1. Ends(t, u)
        BY <2>1, CloseEnds DEF OneLine, u
      <3>2. Nests(v, u)
        BY <1>5, <3>1 DEF Ends
      <3> QED
        BY <2>1, <3>2 DEF InOrder, u
    <2>2. CASE l.kind = "error"
      <3>1. Errs(t, u)
        BY <2>2, ChunkErrs DEF OneLine, u
      <3>2. PICK e \in Event : e.type = "error" /\ u.out = Append(t.out, e)
        BY <3>1 DEF Errs
      <3>3. v = Append(s, e)
        BY <1>2, <3>2, ConcatAppend
      <3> HIDE DEF s, v
      <3>4. Adds(s, v, e)
        BY <1>3, <3>3, AppendAdds
      <3>5. Len(v) = Len(s) + 1 /\ v[Len(v)].type = "error"
        BY <3>2, <3>4 DEF Adds
      <3>6. NestOf(s) /\ PlacesOf(s, "message_stop") = {}
        BY <1>3, <1>5, NestsIsNest
      <3>7. Frozen(v)
        BY <1>3, <3>5, <3>6, FrozenGrows
      <3> QED
        BY <3>7 DEF Going, InOrder, v, u
    <2>3. CASE l.kind \in {"choice", "usage"}
      <3>1. Reads(t, u, l)
        BY <2>3, ChunkReads DEF OneLine, u
      <3>2. Nests(v, u) /\ ~u.done
        BY <1>5, <3>1 DEF Reads
      <3> QED
        BY <3>2 DEF InOrder, Going, u
    <2> QED
      BY <2>1, <2>2, <2>3 DEF Line
  <1> QED
    BY <1>4, <1>5 DEF Going

\* What a line tells of the usage, once n was reported.
Told(t) ==
    /\ t.done
    /\ \E b \in Seq(Event), d \in Event, e \in Event :
          /\ Grows(<<>>, b, Marks) /\ t.out = Append(Append(b, d), e)
          /\ d.type = "message_delta" /\ d.usage = t.usage /\ e.type = "message_stop"
Untold(t) == ~t.done /\ Grows(<<>>, t.out, Marks)

\* A line before the end tells nothing; the end tells the usage there is.
LEMMA LineTells ==
  ASSUME NEW t \in StreamTranslator, NEW l \in Line,
         HasError(t.out) \/ Untold(t)
  PROVE  LET u == OneLine(t, l)
         IN  \/ HasError(u.out)
             \/ /\ l.kind # "done" => u.usage = Latest(t.usage, l) /\ Untold(u)
                /\ l.kind = "done" => u.usage = t.usage /\ Told(u)
  <1> DEFINE u == OneLine(t, l)
  <1>1. u \in StreamTranslator /\ Extends(t.out, u.out)
    BY LineExtends
  <1>2. t.out \in Seq(Event) /\ u.out \in Seq(Event) /\ <<>> \in Seq(Event)
    BY <1>1 DEF StreamTranslator
  <1> HIDE DEF u
  <1> SUFFICES \/ HasError(u.out)
               \/ /\ l.kind # "done" => u.usage = Latest(t.usage, l) /\ Untold(u)
                  /\ l.kind = "done" => u.usage = t.usage /\ Told(u)
    BY DEF u
  <1>3. CASE HasError(t.out)
    BY <1>1, <1>3, ErrorStays
  <1>4. CASE Untold(t)
    <2>1. CASE l.kind = "done"
      <3>1. Ends(t, u)
        BY <2>1, CloseEnds DEF OneLine, u
      <3>2. PICK b \in StreamTranslator, d \in Event, e \in Event :
               /\ Grows(t.out, b.out, Marks) /\ u.out = Append(Append(b.out, d), e)
               /\ d.type = "message_delta" /\ d.usage = t.usage /\ e.type = "message_stop"
        BY <3>1 DEF Ends
      <3>3. b.out \in Seq(Event)
        BY DEF StreamTranslator
      <3>4. Grows(<<>>, b.out, Marks)
        BY <1>2, <1>4, <3>2, <3>3, GrowsOn DEF Untold
      <3>5. u.usage = t.usage /\ u.done
        BY <3>1 DEF Ends
      <3>6. Told(u)
        BY <3>2, <3>3, <3>4, <3>5 DEF Told
      <3> QED
        BY <2>1, <3>5, <3>6
    <2>2. CASE l.kind = "error"
      <3>1. Errs(t, u)
        BY <2>2, ChunkErrs DEF OneLine, u
      <3>2. PICK e \in Event : e.type = "error" /\ u.out = Append(t.out, e)
        BY <3>1 DEF Errs
      <3>3. Adds(t.out, u.out, e)
        BY <1>2, <3>2, AppendAdds
      <3>4. HasError(u.out)
        BY <3>2, <3>3 DEF Adds, HasError
      <3> QED
        BY <3>4
    <2>3. CASE l.kind \in {"choice", "usage"}
      <3>1. Reads(t, u, l)
        BY <2>3, ChunkReads DEF OneLine, u
      <3>2. Grows(<<>>, u.out, Marks)
        BY <1>2, <1>4, <3>1, GrowsOn DEF Reads, Untold
      <3> QED
        BY <1>4, <2>3, <3>1, <3>2 DEF Reads, Untold
    <2> QED
      BY <2>1, <2>2, <2>3 DEF Line
  <1> QED
    BY <1>3, <1>4

-----------------------------------------------------------------------------
(* The lines of a piece.                                                   *)

LineRun(it, t, lines) ==
    it = [p \in SUBSET DOMAIN lines |->
            IF p = {} THEN t ELSE OneLine(it[p \ {Max(p)}], lines[Max(p)])]

\* What a call emits begins with nothing.
Emptied(t) == [t EXCEPT !.out = <<>>]

\* Nothing else changes, and nothing else is out of order.
LEMMA EmptiedOf ==
  ASSUME NEW t \in StreamTranslator
  PROVE  /\ Emptied(t) \in StreamTranslator /\ Emptied(t).out = <<>>
         /\ Emptied(t).usage = t.usage /\ Emptied(t).done = t.done
         /\ \A s : Nests(s, t) => Nests(s, Emptied(t))
  <1> DEFINE o == <<>>
             q == Emptied(t)
  <1>1. o \in Seq(Event)
    OBVIOUS
  <1>2. q = [t EXCEPT !.out = o]
    BY DEF Emptied
  <1> HIDE DEF o, q
  <1>3. /\ q \in StreamTranslator /\ q.out = o /\ q.usage = t.usage /\ q.done = t.done
        /\ q.started = t.started /\ q.open = t.open /\ q.index = t.index
    BY <1>1, <1>2 DEF StreamTranslator
  <1>4. \A s : Nests(s, t) => Nests(s, q)
    BY <1>3, SameNests
  <1> QED
    BY <1>3, <1>4 DEF o, q

\* feed takes the lines of a piece one after the other.
LEMMA FeedFold ==
  ASSUME NEW t, NEW lines, ~t.done
  PROVE  Feed(t, lines) =
           (CHOOSE it : LineRun(it, Emptied(t), UpToDone(lines)))[DOMAIN UpToDone(lines)]
  BY DEF Feed, FoldLeft, MapThenFoldSet, LineRun, OneLine, Emptied

\* There is such a run.
LEMMA LineRunExists ==
  ASSUME NEW t \in StreamTranslator, NEW lines \in Seq(Line)
  PROVE  \E it : LineRun(it, t, lines)
  <1> DEFINE T == StreamTranslator
             n == Len(lines)
             g == [p \in T \X Line |-> OneLine(p[1], p[2])]
  <1>1. \A u \in T, l \in Line : OneLine(u, l) \in T
    BY LineExtends
  <1>2. t \in T /\ n \in Nat /\ DOMAIN lines = 1 .. n /\ \A i \in 1 .. n : lines[i] \in Line
    BY LenProperties, ElementOfSeq
  <1> HIDE DEF T, n
  <1>3. g \in [T \X Line -> T] /\ \A u \in T, l \in Line : g[<<u, l>>] = OneLine(u, l)
    BY <1>1
  <1> HIDE DEF g
  <1>4. PICK it : Folding(it, g, t, lines, SUBSET (1 .. n))
    BY <1>2, FoldingExists
  <1>5. \A p \in SUBSET (1 .. n) :
           /\ it[p] \in T
           /\ p # {} => Max(p) \in 1 .. n /\ p \ {Max(p)} \in SUBSET (1 .. n)
    <2>1. \A p \in SUBSET (1 .. n) : it[p] \in T
      BY <1>2, <1>3, <1>4, FoldingStays
    <2>2. \A p \in SUBSET (1 .. n) :
             p # {} => Max(p) \in 1 .. n /\ p \ {Max(p)} \in SUBSET (1 .. n)
      BY <1>2, LastOf
    <2> QED
      BY <2>1, <2>2
  <1>6. \A p \in SUBSET (1 .. n) :
           p # {} => g[<<it[p \ {Max(p)}], lines[Max(p)]>>] = OneLine(it[p \ {Max(p)}], lines[Max(p)])
    BY <1>2, <1>3, <1>5
  <1>7. LineRun(it, t, lines)
    BY <1>2, <1>4, <1>6 DEF Folding, LineRun
  <1> QED
    BY <1>7

\* The translator after each line of a piece.
Follows(R, t, lines) ==
    /\ R[0] = t
    /\ \A k \in 1 .. Len(lines) : R[k] = OneLine(R[k - 1], lines[k])

\* Each step of it reads one line.
LEMMA FeedSteps ==
  ASSUME NEW t \in StreamTranslator, ~t.done, NEW lines, UpToDone(lines) \in Seq(Line)
  PROVE  \E R : /\ Follows(R, Emptied(t), UpToDone(lines))
                /\ Feed(t, lines) = R[Len(UpToDone(lines))]
  <1> DEFINE q == Emptied(t)
             L == UpToDone(lines)
             it == CHOOSE i : LineRun(i, q, L)
             n == Len(L)
             R == [k \in 0 .. n |-> it[1 .. k]]
  <1>0. q \in StreamTranslator
    BY EmptiedOf
  <1>2. Feed(t, lines) = it[DOMAIN L]
    BY FeedFold
  <1> HIDE DEF q, L
  <1>1. LineRun(it, q, L)
    BY <1>0, LineRunExists DEF L
  <1> HIDE DEF it
  <1>3. n \in Nat /\ DOMAIN L = 1 .. n
    BY LenProperties DEF L
  <1> HIDE DEF n
  <1>4. \A p \in SUBSET (1 .. n) :
           it[p] = IF p = {} THEN q ELSE OneLine(it[p \ {Max(p)}], L[Max(p)])
    BY <1>1, <1>3 DEF LineRun
  <1>5. \A k \in 0 .. n : 1 .. k \in SUBSET (1 .. n) /\ R[k] = it[1 .. k]
    BY <1>3
  <1>6. R[0] = q
    <2>1. 1 .. 0 = {} /\ 0 \in 0 .. n /\ {} \in SUBSET (1 .. n)
      BY <1>3
    <2>2. it[{}] = q
      BY <1>4, <2>1
    <2> HIDE DEF R
    <2> QED
      BY <1>5, <2>1, <2>2
  <1>7. ASSUME NEW k \in 1 .. n
        PROVE  R[k] = OneLine(R[k - 1], L[k])
    <2>0. k \in Nat /\ k # 0
      BY <1>3
    <2>1. 1 .. k # {} /\ Max(1 .. k) = k /\ (1 .. k) \ {k} = 1 .. k - 1
      BY <2>0, LastOfFirst
    <2>2. R[k - 1] = it[1 .. k - 1] /\ R[k] = it[1 .. k] /\ 1 .. k \in SUBSET (1 .. n)
      BY <1>3, <1>5
    <2> QED
      BY <1>4, <2>1, <2>2
  <1>8. R[n] = it[1 .. n]
    BY <1>3, <1>5
  <1> HIDE DEF R
  <1>9. Follows(R, q, L) /\ Feed(t, lines) = R[n]
    BY <1>2, <1>3, <1>6, <1>7, <1>8 DEF Follows, n
  <1> QED
    BY <1>9 DEF q, L, n

\* What is read of a piece: no line but the last is [DONE].
LEMMA UpToDoneOf ==
  ASSUME NEW lines \in Seq(Line)
  PROVE  /\ UpToDone(lines) \in Seq(Line)
         /\ \A k \in 1 .. Len(UpToDone(lines)) - 1 : UpToDone(lines)[k].kind # "done"
  <1> DEFINE I == {i \in 1 .. Len(lines) : lines[i].kind = "done"}
             d == IF I # {} THEN Min(I) ELSE 0
  <1>1. UpToDone(lines) = IF d = 0 THEN lines ELSE SubSeq(lines, 1, d)
    BY DEF UpToDone, SelectInSeq
  <1>2. Len(lines) \in Nat
    BY LenProperties
  <1>3. CASE I = {}
    <2>1. UpToDone(lines) = lines
      BY <1>1, <1>3
    <2> QED
      BY <1>2, <1>3, <2>1
  <1>4. CASE I # {}
    <2>1. I \subseteq Nat
      BY <1>2
    <2> DEFINE m == Min(I)
    <2>2. m \in I /\ \A i \in I : m <= i
      <3> HIDE DEF I
      <3> QED
        BY <1>4, <2>1, LeastOf
    <2>3. d = m
      BY <1>4
    <2> HIDE DEF m, d
    <2>4. m \in 1 .. Len(lines)
      BY <2>2
    <2>5. \A k \in 1 .. m - 1 : lines[k].kind # "done"
      BY <1>2, <2>2, <2>4
    <2> DEFINE L == SubSeq(lines, 1, m)
    <2>6. L \in Seq(Line) /\ Len(L) = m /\ \A k \in 1 .. m : L[k] = lines[k]
      <3>1. 1 \in 1 .. Len(lines) + 1 /\ m \in 1 - 1 .. Len(lines)
        BY <1>2, <2>4
      <3>2. /\ L \in Seq(Line)
            /\ Len(L) = m - 1 + 1
            /\ \A k \in 1 .. m - 1 + 1 : L[k] = lines[1 + k - 1]
        BY <1>2, <2>4, SubSeqProperties
      <3>3. m - 1 + 1 = m /\ \A k \in 1 .. m : 1 + k - 1 = k
        BY <1>2, <2>4
      <3> HIDE DEF L
      <3> QED
        BY <3>2, <3>3
    <2>7. UpToDone(lines) = L
      BY <1>1, <1>2, <2>3, <2>4
    <2> HIDE DEF L
    <2>8. \A k \in 1 .. Len(L) - 1 : L[k].kind # "done"
      BY <1>2, <2>4, <2>5, <2>6
    <2> QED
      BY <2>6, <2>7, <2>8
  <1> QED
    BY <1>3, <1>4

\* A piece keeps the stream in order.
LEMMA FeedInOrder ==
  ASSUME NEW t \in StreamTranslator, NEW lines \in Seq(Line), NEW h \in Seq(Event),
         InOrder(h, t)
  PROVE  Feed(t, lines) \in StreamTranslator /\ InOrder(h \o Feed(t, lines).out, Feed(t, lines))
  <1> DEFINE q == Emptied(t)
             L == UpToDone(lines)
             n == Len(L)
  <1>1. /\ q \in StreamTranslator /\ q.out = <<>> /\ q.done = t.done
        /\ \A s : Nests(s, t) => Nests(s, q)
    BY EmptiedOf
  <1>2. CASE t.done
    <2>1. Feed(t, lines) = q
      BY <1>2 DEF Feed, Emptied
    <2> HIDE DEF q
    <2>2. h \o q.out = h
      BY <1>1, ConcatEmptySeq
    <2>3. InOrder(h, q)
      BY <1>1 DEF InOrder
    <2> QED
      BY <1>1, <2>1, <2>2, <2>3
  <1>3. CASE ~t.done
    <2> HIDE DEF q
    <2>1. L \in Seq(Line) /\ \A k \in 1 .. n - 1 : L[k].kind # "done"
      BY UpToDoneOf
    <2>2. PICK R : Follows(R, q, L) /\ Feed(t, lines) = R[n]
      BY <1>3, <2>1, FeedSteps DEF q
    <2> HIDE DEF L
    <2>3. n \in Nat /\ \A k \in 1 .. n : L[k] \in Line
      BY <2>1, LenProperties, ElementOfSeq
    <2>4. R[0] = q /\ \A k \in 1 .. n : R[k] = OneLine(R[k - 1], L[k])
      BY <2>2 DEF Follows
    <2> HIDE DEF n
    <2> DEFINE P == {k \in 0 .. n : /\ R[k] \in StreamTranslator
                                    /\ InOrder(h \o R[k].out, R[k])
                                    /\ k < n => Going(h \o R[k].out, R[k])}
    <2>5. 0 \in P
      <3>1. h \o q.out = h
        BY <1>1, ConcatEmptySeq
      <3>2. InOrder(h, q) /\ Going(h, q)
        BY <1>1, <1>3 DEF InOrder, Going
      <3>3. InOrder(h \o R[0].out, R[0]) /\ Going(h \o R[0].out, R[0])
        BY <2>4, <3>1, <3>2
      <3> QED
        BY <1>1, <2>3, <2>4, <3>3
    <2>6. ASSUME NEW k \in 1 .. n, k - 1 \in P
          PROVE  k \in P
      <3>1. /\ R[k - 1] \in StreamTranslator
            /\ Going(h \o R[k - 1].out, R[k - 1])
        BY <2>3, <2>6
      <3>2. R[k] = OneLine(R[k - 1], L[k]) /\ L[k] \in Line
        BY <2>3, <2>4
      <3>3. R[k] \in StreamTranslator
        BY <3>1, <3>2, LineExtends
      <3>4. /\ InOrder(h \o R[k].out, R[k])
            /\ L[k].kind # "done" => Going(h \o R[k].out, R[k])
        BY <3>1, <3>2, LineInOrder
      <3>5. k < n => L[k].kind # "done"
        BY <2>1, <2>3
      <3> QED
        BY <2>3, <3>3, <3>4, <3>5
    <2>7. \A k \in 0 .. n : k \in P
      <3> HIDE DEF P
      <3> QED
        BY <2>3, <2>5, <2>6, StepByStep
    <2>8. n \in P
      <3> HIDE DEF P
      <3> QED
        BY <2>3, <2>7
    <2> QED
      BY <2>2, <2>8
  <1> QED
    BY <1>2, <1>3

-----------------------------------------------------------------------------
(* What a piece tells of the usage.                                        *)

\* The usage the upstream has reported after each line.
Reported(n, lines) == FoldLeft(LAMBDA m, l : IF l.usage = 0 THEN m ELSE l.usage, n, lines)

ReportRun(it, n, lines) ==
    it = [p \in SUBSET DOMAIN lines |->
            IF p = {} THEN n ELSE Latest(it[p \ {Max(p)}], lines[Max(p)])]

\* What was reported is counted line by line.
LEMMA ReportFold ==
  ASSUME NEW n, NEW lines
  PROVE  Reported(n, lines) = (CHOOSE it : ReportRun(it, n, lines))[DOMAIN lines]
  BY DEF Reported, FoldLeft, MapThenFoldSet, ReportRun, Latest

\* There is such a run.
LEMMA ReportRunExists ==
  ASSUME NEW m \in Nat, NEW lines \in Seq(Line)
  PROVE  \E it : ReportRun(it, m, lines)
  <1> DEFINE n == Len(lines)
             g == [p \in Nat \X Line |-> Latest(p[1], p[2])]
  <1>1. \A u \in Nat, l \in Line : Latest(u, l) \in Nat
    BY DEF Line, Latest
  <1>2. n \in Nat /\ DOMAIN lines = 1 .. n /\ \A i \in 1 .. n : lines[i] \in Line
    BY LenProperties, ElementOfSeq
  <1> HIDE DEF n
  <1>3. g \in [Nat \X Line -> Nat] /\ \A u \in Nat, l \in Line : g[<<u, l>>] = Latest(u, l)
    BY <1>1
  <1> HIDE DEF g
  <1>4. PICK it : Folding(it, g, m, lines, SUBSET (1 .. n))
    BY <1>2, FoldingExists
  <1>5. \A p \in SUBSET (1 .. n) :
           /\ it[p] \in Nat
           /\ p # {} => Max(p) \in 1 .. n /\ p \ {Max(p)} \in SUBSET (1 .. n)
    <2>1. \A p \in SUBSET (1 .. n) : it[p] \in Nat
      BY <1>2, <1>3, <1>4, FoldingStays
    <2>2. \A p \in SUBSET (1 .. n) :
             p # {} => Max(p) \in 1 .. n /\ p \ {Max(p)} \in SUBSET (1 .. n)
      BY <1>2, LastOf
    <2> QED
      BY <2>1, <2>2
  <1>6. \A p \in SUBSET (1 .. n) :
           p # {} => g[<<it[p \ {Max(p)}], lines[Max(p)]>>] = Latest(it[p \ {Max(p)}], lines[Max(p)])
    BY <1>2, <1>3, <1>5
  <1>7. ReportRun(it, m, lines)
    BY <1>2, <1>4, <1>6 DEF Folding, ReportRun
  <1> QED
    BY <1>7

\* Each step of it counts one line.
LEMMA ReportSteps ==
  ASSUME NEW m \in Nat, NEW lines \in Seq(Line)
  PROVE  \E R : /\ R[0] = m
                /\ \A k \in 1 .. Len(lines) : R[k] = Latest(R[k - 1], lines[k])
                /\ Reported(m, lines) = R[Len(lines)]
  <1> DEFINE it == CHOOSE i : ReportRun(i, m, lines)
             n == Len(lines)
             R == [k \in 0 .. n |-> it[1 .. k]]
  <1>1. ReportRun(it, m, lines)
    BY ReportRunExists
  <1>2. Reported(m, lines) = it[DOMAIN lines]
    BY ReportFold
  <1> HIDE DEF it
  <1>3. n \in Nat /\ DOMAIN lines = 1 .. n
    BY LenProperties
  <1> HIDE DEF n
  <1>4. \A p \in SUBSET (1 .. n) :
           it[p] = IF p = {} THEN m ELSE Latest(it[p \ {Max(p)}], lines[Max(p)])
    BY <1>1, <1>3 DEF ReportRun
  <1>5. \A k \in 0 .. n : 1 .. k \in SUBSET (1 .. n) /\ R[k] = it[1 .. k]
    BY <1>3
  <1>6. R[0] = m
    <2>1. 1 .. 0 = {} /\ 0 \in 0 .. n /\ {} \in SUBSET (1 .. n)
      BY <1>3
    <2>2. it[{}] = m
      BY <1>4, <2>1
    <2> HIDE DEF R
    <2> QED
      BY <1>5, <2>1, <2>2
  <1>7. ASSUME NEW k \in 1 .. n
        PROVE  R[k] = Latest(R[k - 1], lines[k])
    <2>0. k \in Nat /\ k # 0
      BY <1>3
    <2>1. 1 .. k # {} /\ Max(1 .. k) = k /\ (1 .. k) \ {k} = 1 .. k - 1
      BY <2>0, LastOfFirst
    <2>2. R[k - 1] = it[1 .. k - 1] /\ R[k] = it[1 .. k] /\ 1 .. k \in SUBSET (1 .. n)
      BY <1>3, <1>5
    <2> QED
      BY <1>4, <2>1, <2>2
  <1>8. R[n] = it[1 .. n]
    BY <1>3, <1>5
  <1> HIDE DEF R
  <1> QED
    BY <1>2, <1>3, <1>6, <1>7, <1>8 DEF n

\* The translator has the usage that was reported, and tells it at the end.
Tells(u, n) == HasError(u.out) \/ (u.usage = n /\ (Untold(u) \/ Told(u)))

\* A piece of a stream that is not over: what the translator has of the usage.
LEMMA FeedTells ==
  ASSUME NEW t \in StreamTranslator, NEW lines \in Seq(Line), ~t.done
  PROVE  /\ Tells(Feed(t, lines), Reported(t.usage, UpToDone(lines)))
         /\ Reported(t.usage, UpToDone(lines)) \in Nat
  <1> DEFINE q == Emptied(t)
             L == UpToDone(lines)
             n == Len(L)
             m == t.usage
  <1>1. q \in StreamTranslator /\ q.out = <<>> /\ q.done = t.done /\ q.usage = m
    BY EmptiedOf
  <1> HIDE DEF q
  <1>2. L \in Seq(Line) /\ \A k \in 1 .. n - 1 : L[k].kind # "done"
    BY UpToDoneOf
  <1>3. PICK R : Follows(R, q, L) /\ Feed(t, lines) = R[n]
    BY <1>2, FeedSteps DEF q
  <1> HIDE DEF L
  <1>4. m \in Nat
    BY DEF StreamTranslator
  <1> HIDE DEF m
  <1>5. PICK Q : /\ Q[0] = m
                 /\ \A k \in 1 .. n : Q[k] = Latest(Q[k - 1], L[k])
                 /\ Reported(m, L) = Q[n]
    BY <1>2, <1>4, ReportSteps
  <1>6. n \in Nat /\ \A k \in 1 .. n : L[k] \in Line
    BY <1>2, LenProperties, ElementOfSeq
  <1>7. R[0] = q /\ \A k \in 1 .. n : R[k] = OneLine(R[k - 1], L[k])
    BY <1>3 DEF Follows
  <1> HIDE DEF n
  <1> DEFINE P == {k \in 0 .. n : /\ R[k] \in StreamTranslator /\ Q[k] \in Nat
                                  /\ Tells(R[k], Q[k])
                                  /\ k < n => HasError(R[k].out) \/ Untold(R[k])}
  <1>8. 0 \in P
    <2>1. Grows(<<>>, q.out, Marks)
      <3>1. Len(<<>>) \in Nat
        OBVIOUS
      <3> QED
        BY <1>1, <3>1, GrowsNot
    <2>2. Untold(q) /\ Tells(q, m)
      BY <1>1, <2>1 DEF Untold, Tells
    <2> QED
      BY <1>1, <1>4, <1>5, <1>6, <1>7, <2>2
  <1>9. ASSUME NEW k \in 1 .. n, k - 1 \in P
        PROVE  k \in P
    <2>1. /\ R[k - 1] \in StreamTranslator /\ Q[k - 1] \in Nat
          /\ Tells(R[k - 1], Q[k - 1])
          /\ HasError(R[k - 1].out) \/ Untold(R[k - 1])
      BY <1>6, <1>9
    <2>2. R[k] = OneLine(R[k - 1], L[k]) /\ L[k] \in Line /\ Q[k] = Latest(Q[k - 1], L[k])
      BY <1>5, <1>6, <1>7
    <2>3. R[k] \in StreamTranslator /\ Extends(R[k - 1].out, R[k].out)
      BY <2>1, <2>2, LineExtends
    <2>4. Q[k] \in Nat
      BY <2>1, <2>2 DEF Line, Latest
    <2>5. \/ HasError(R[k].out)
          \/ /\ L[k].kind # "done" => R[k].usage = Latest(R[k - 1].usage, L[k]) /\ Untold(R[k])
             /\ L[k].kind = "done" => R[k].usage = R[k - 1].usage /\ Told(R[k])
      BY <2>1, <2>2, LineTells
    <2>6. L[k].kind = "done" => Q[k] = Q[k - 1]
      BY <2>2 DEF Line, Latest
    <2>7. HasError(R[k - 1].out) => HasError(R[k].out)
      BY <2>3, ErrorStays
    <2>8. HasError(R[k].out) \/ R[k - 1].usage = Q[k - 1]
      BY <2>1, <2>7 DEF Tells
    <2>9. Tells(R[k], Q[k])
      BY <2>2, <2>5, <2>6, <2>8 DEF Tells
    <2>10. k < n => HasError(R[k].out) \/ Untold(R[k])
      BY <1>2, <1>6, <2>5
    <2> QED
      BY <1>6, <2>3, <2>4, <2>9, <2>10
  <1>10. \A k \in 0 .. n : k \in P
    <2> HIDE DEF P
    <2> QED
      BY <1>6, <1>8, <1>9, StepByStep
  <1>11. n \in P
    <2> HIDE DEF P
    <2> QED
      BY <1>6, <1>10
  <1>12. Tells(Feed(t, lines), Reported(m, L)) /\ Reported(m, L) \in Nat
    BY <1>3, <1>5, <1>11 DEF n
  <1> QED
    BY <1>12 DEF m, L

-----------------------------------------------------------------------------
(* What the extractor finds in the events.                                 *)

Counted(n, e) == IF e.type = "message_delta" THEN Larger(n, e.usage) ELSE n

CountRun(it, events) ==
    it = [p \in SUBSET DOMAIN events |->
            IF p = {} THEN 0 ELSE Counted(it[p \ {Max(p)}], events[Max(p)])]

\* The extractor looks at the events one after the other.
LEMMA CountFold ==
  ASSUME NEW events
  PROVE  Carried(events) = (CHOOSE it : CountRun(it, events))[DOMAIN events]
  BY DEF Carried, FoldLeft, MapThenFoldSet, CountRun, Counted

\* There is such a run.
LEMMA CountRunExists ==
  ASSUME NEW events \in Seq(Event)
  PROVE  \E it : CountRun(it, events)
  <1> DEFINE n == Len(events)
             g == [p \in Nat \X Event |-> Counted(p[1], p[2])]
  <1>1. \A u \in Nat, e \in Event : Counted(u, e) \in Nat
    <2> TAKE u \in Nat, e \in Event
    <2>1. CASE e.type = "message_delta"
      <3>1. e.usage \in Nat
        BY <2>1 DEF Event
      <3> QED
        BY <3>1 DEF Counted, Larger
    <2>2. CASE e.type # "message_delta"
      BY <2>2 DEF Counted
    <2> QED
      BY <2>1, <2>2
  <1>2. n \in Nat /\ DOMAIN events = 1 .. n /\ \A i \in 1 .. n : events[i] \in Event
    BY LenProperties, ElementOfSeq
  <1> HIDE DEF n
  <1>3. g \in [Nat \X Event -> Nat] /\ \A u \in Nat, e \in Event : g[<<u, e>>] = Counted(u, e)
    BY <1>1
  <1> HIDE DEF g
  <1>4. PICK it : Folding(it, g, 0, events, SUBSET (1 .. n))
    BY <1>2, FoldingExists
  <1>5. \A p \in SUBSET (1 .. n) :
           /\ it[p] \in Nat
           /\ p # {} => Max(p) \in 1 .. n /\ p \ {Max(p)} \in SUBSET (1 .. n)
    <2>1. \A p \in SUBSET (1 .. n) : it[p] \in Nat
      BY <1>2, <1>3, <1>4, FoldingStays
    <2>2. \A p \in SUBSET (1 .. n) :
             p # {} => Max(p) \in 1 .. n /\ p \ {Max(p)} \in SUBSET (1 .. n)
      BY <1>2, LastOf
    <2> QED
      BY <2>1, <2>2
  <1>6. \A p \in SUBSET (1 .. n) :
           p # {} => g[<<it[p \ {Max(p)}], events[Max(p)]>>] = Counted(it[p \ {Max(p)}], events[Max(p)])
    BY <1>2, <1>3, <1>5
  <1>7. CountRun(it, events)
    BY <1>2, <1>4, <1>6 DEF Folding, CountRun
  <1> QED
    BY <1>7

\* Each step of it looks at one event.
LEMMA CountSteps ==
  ASSUME NEW events \in Seq(Event)
  PROVE  \E R : /\ R[0] = 0
                /\ \A k \in 1 .. Len(events) : R[k] = Counted(R[k - 1], events[k])
                /\ Carried(events) = R[Len(events)]
  <1> DEFINE it == CHOOSE i : CountRun(i, events)
             n == Len(events)
             R == [k \in 0 .. n |-> it[1 .. k]]
  <1>1. CountRun(it, events)
    BY CountRunExists
  <1>2. Carried(events) = it[DOMAIN events]
    BY CountFold
  <1> HIDE DEF it
  <1>3. n \in Nat /\ DOMAIN events = 1 .. n
    BY LenProperties
  <1> HIDE DEF n
  <1>4. \A p \in SUBSET (1 .. n) :
           it[p] = IF p = {} THEN 0 ELSE Counted(it[p \ {Max(p)}], events[Max(p)])
    BY <1>1, <1>3 DEF CountRun
  <1>5. \A k \in 0 .. n : 1 .. k \in SUBSET (1 .. n) /\ R[k] = it[1 .. k]
    BY <1>3
  <1>6. R[0] = 0
    <2>1. 1 .. 0 = {} /\ 0 \in 0 .. n /\ {} \in SUBSET (1 .. n)
      BY <1>3
    <2>2. it[{}] = 0
      BY <1>4, <2>1
    <2> HIDE DEF R
    <2> QED
      BY <1>5, <2>1, <2>2
  <1>7. ASSUME NEW k \in 1 .. n
        PROVE  R[k] = Counted(R[k - 1], events[k])
    <2>0. k \in Nat /\ k # 0
      BY <1>3
    <2>1. 1 .. k # {} /\ Max(1 .. k) = k /\ (1 .. k) \ {k} = 1 .. k - 1
      BY <2>0, LastOfFirst
    <2>2. R[k - 1] = it[1 .. k - 1] /\ R[k] = it[1 .. k] /\ 1 .. k \in SUBSET (1 .. n)
      BY <1>3, <1>5
    <2> QED
      BY <1>4, <2>1, <2>2
  <1>8. R[n] = it[1 .. n]
    BY <1>3, <1>5
  <1> HIDE DEF R
  <1> QED
    BY <1>2, <1>3, <1>6, <1>7, <1>8 DEF n

\* Nothing before the end; the usage that is told there.
LEMMA CarriedIsTold ==
  ASSUME NEW t \in StreamTranslator
  PROVE  /\ Untold(t) => Carried(t.out) = 0
         /\ Told(t) => Carried(t.out) = t.usage
         /\ Carried(t.out) \in Nat
         /\ t.out = <<>> => Carried(t.out) = 0
  <1> DEFINE s == t.out
             n == Len(s)
  <1>1. s \in Seq(Event) /\ t.usage \in Nat
    BY DEF StreamTranslator
  <1> HIDE DEF s
  <1>2. PICK R : /\ R[0] = 0
                 /\ \A k \in 1 .. n : R[k] = Counted(R[k - 1], s[k])
                 /\ Carried(s) = R[n]
    BY <1>1, CountSteps
  <1>3. n \in Nat /\ \A k \in 1 .. n : s[k] \in Event
    BY <1>1, LenProperties, ElementOfSeq
  <1> HIDE DEF n
  <1>4. ASSUME NEW m \in 0 .. n, \A k \in 1 .. m : s[k].type \in Marks
        PROVE  R[m] = 0
    <2> DEFINE P == {k \in 0 .. m : R[k] = 0}
    <2>1. 0 \in P /\ m \in Nat
      BY <1>2, <1>3
    <2>2. ASSUME NEW k \in 1 .. m, k - 1 \in P
          PROVE  k \in P
      <3>1. R[k - 1] = 0 /\ k \in 1 .. n
        BY <1>3, <2>2
      <3>2. s[k].type # "message_delta"
        BY <1>4 DEF Marks
      <3>3. R[k] = 0
        BY <1>2, <3>1, <3>2 DEF Counted
      <3> QED
        BY <3>3
    <2>3. \A k \in 0 .. m : k \in P
      <3> HIDE DEF P
      <3> QED
        BY <2>1, <2>2, StepByStep
    <2> QED
      BY <2>1, <2>3
  <1>5. ASSUME Untold(t)
        PROVE  Carried(s) = 0
    <2>1. \A k \in 1 .. n : s[k].type \in Marks
      <3>1. Grows(<<>>, s, Marks)
        BY <1>5 DEF Untold, s
      <3>2. Len(<<>>) = 0
        OBVIOUS
      <3> QED
        BY <3>1, <3>2 DEF Grows, n
    <2> QED
      BY <1>2, <1>3, <1>4, <2>1
  <1>6. ASSUME Told(t)
        PROVE  Carried(s) = t.usage
    <2>1. PICK b \in Seq(Event), d \in Event, e \in Event :
             /\ Grows(<<>>, b, Marks) /\ s = Append(Append(b, d), e)
             /\ d.type = "message_delta" /\ d.usage = t.usage /\ e.type = "message_stop"
      BY <1>6 DEF Told, s
    <2> DEFINE v == Append(b, d)
    <2>2. v \in Seq(Event) /\ Adds(b, v, d)
      BY AppendAdds
    <2> HIDE DEF v
    <2>3. Adds(v, s, e)
      BY <2>1, <2>2, AppendAdds DEF v
    <2> DEFINE m == Len(b)
    <2>4. /\ m \in Nat /\ n = m + 2 /\ s[m + 1] = d /\ s[m + 2] = e
          /\ \A k \in 1 .. m : s[k] = b[k]
      <3>1. /\ m \in Nat /\ Len(v) = m + 1 /\ v[m + 1] = d
            /\ \A k \in 1 .. m : v[k] = b[k]
        BY <2>2 DEF Adds
      <3>2. /\ n = Len(v) + 1 /\ s[Len(v) + 1] = e
            /\ \A k \in 1 .. Len(v) : s[k] = v[k]
        BY <2>3 DEF Adds, n
      <3> HIDE DEF m
      <3> QED
        BY <3>1, <3>2
    <2>5. \A k \in 1 .. m : b[k].type \in Marks
      <3>1. Len(<<>>) = 0
        OBVIOUS
      <3> QED
        BY <2>1, <3>1 DEF Grows
    <2> HIDE DEF m
    <2>6. R[m] = 0
      BY <1>4, <2>4, <2>5
    <2>7. R[m + 1] = Counted(0, d)
      <3>1. m + 1 \in 1 .. n /\ (m + 1) - 1 = m
        BY <2>4
      <3> QED
        BY <1>2, <2>4, <2>6, <3>1
    <2>8. R[m + 1] = t.usage
      BY <1>1, <2>1, <2>7 DEF Counted, Larger
    <2>9. R[m + 2] = Counted(R[m + 1], e)
      <3>1. m + 2 \in 1 .. n /\ (m + 2) - 1 = m + 1
        BY <2>4
      <3> QED
        BY <1>2, <2>4, <3>1
    <2>10. R[m + 2] = t.usage
      BY <2>1, <2>8, <2>9 DEF Counted
    <2> QED
      BY <1>2, <2>4, <2>10
  <1>7. Carried(s) \in Nat
    <2> DEFINE P == {k \in 0 .. n : R[k] \in Nat}
    <2>1. 0 \in P
      BY <1>2, <1>3
    <2>2. ASSUME NEW k \in 1 .. n, k - 1 \in P
          PROVE  k \in P
      <3>1. R[k - 1] \in Nat /\ R[k] = Counted(R[k - 1], s[k]) /\ s[k] \in Event
        BY <1>2, <1>3, <2>2
      <3>2. R[k] \in Nat
        <4>1. CASE s[k].type = "message_delta"
          <5>1. s[k].usage \in Nat
            BY <3>1, <4>1 DEF Event
          <5> QED
            BY <3>1, <4>1, <5>1 DEF Counted, Larger
        <4>2. CASE s[k].type # "message_delta"
          BY <3>1, <4>2 DEF Counted
        <4> QED
          BY <4>1, <4>2
      <3> QED
        BY <3>2
    <2>3. \A k \in 0 .. n : k \in P
      <3> HIDE DEF P
      <3> QED
        BY <1>3, <2>1, <2>2, StepByStep
    <2> QED
      BY <1>2, <1>3, <2>3
  <1>8. s = <<>> => Carried(s) = 0
    <2>1. s = <<>> => n = 0
      BY DEF n
    <2> QED
      BY <1>2, <2>1
  <1> QED
    BY <1>5, <1>6, <1>7, <1>8 DEF s

-----------------------------------------------------------------------------
(* Beginnings and ends.                                                    *)

\* An error that was emitted is among the events the client has got.
LEMMA ConcatErrs ==
  ASSUME NEW h \in Seq(Event), NEW s \in Seq(Event), HasError(h) \/ HasError(s)
  PROVE  HasError(h \o s)
  <1> DEFINE x == h \o s
  <1>1. /\ Len(h) \in Nat /\ Len(s) \in Nat /\ x \in Seq(Event) /\ Len(x) = Len(h) + Len(s)
        /\ \A i \in 1 .. Len(h) + Len(s) : x[i] = IF i <= Len(h) THEN h[i] ELSE s[i - Len(h)]
    BY ConcatProperties, LenProperties
  <1>2. DOMAIN x = 1 .. Len(x) /\ DOMAIN h = 1 .. Len(h) /\ DOMAIN s = 1 .. Len(s)
    BY <1>1, LenProperties
  <1> HIDE DEF x
  <1>3. CASE HasError(h)
    <2>1. PICK i \in 1 .. Len(h) : h[i].type = "error"
      BY <1>2, <1>3 DEF HasError
    <2>2. i \in 1 .. Len(x) /\ x[i] = h[i]
      BY <1>1
    <2> QED
      BY <1>2, <2>1, <2>2 DEF HasError, x
  <1>4. CASE HasError(s)
    <2>1. PICK i \in 1 .. Len(s) : s[i].type = "error"
      BY <1>2, <1>4 DEF HasError
    <2>2. Len(h) + i \in 1 .. Len(x) /\ ~(Len(h) + i <= Len(h)) /\ (Len(h) + i) - Len(h) = i
      BY <1>1
    <2>3. x[Len(h) + i] = s[i]
      BY <1>1, <2>2
    <2> QED
      BY <1>2, <2>1, <2>2, <2>3 DEF HasError, x
  <1> QED
    BY <1>3, <1>4

\* The translator of a stream that has just begun.
LEMMA NewInOrder == NewTranslator \in StreamTranslator /\ InOrder(<<>>, NewTranslator)
  <1>1. <<>> \in Seq(Event)
    OBVIOUS
  <1>2. NewTranslator \in StreamTranslator
    BY <1>1 DEF NewTranslator, StreamTranslator, NoBlock, Finishes
  <1>3. \A y : At(<<>>, y) = {}
    BY DEF At
  <1>4. NewTranslator.index + 1 = Cardinality(At(<<>>, "start"))
    BY <1>3, FS_EmptySet DEF NewTranslator, NoBlock
  <1>5. ~HasError(<<>>)
    BY DEF HasError
  <1>6. ~NewTranslator.started
    BY DEF NewTranslator
  <1>7. Nests(<<>>, NewTranslator)
    BY <1>3, <1>4, <1>5, <1>6 DEF Nests
  <1> QED
    BY <1>2, <1>7 DEF InOrder

\* The end of the stream keeps it in order and tells what it owes.
LEMMA FinishTells ==
  ASSUME NEW t \in StreamTranslator, NEW h \in Seq(Event), InOrder(h, t)
  PROVE  /\ Finish(t) \in StreamTranslator
         /\ InOrder(h \o Finish(t).out, Finish(t))
         /\ ~t.done => \/ HasError(Finish(t).out)
                       \/ Finish(t).usage = t.usage /\ Told(Finish(t))
  <1> DEFINE q == Emptied(t)
             l == [kind |-> "done", text |-> FALSE, tools |-> <<>>, finish |-> "none", usage |-> 0]
  <1>1. /\ q \in StreamTranslator /\ q.out = <<>> /\ q.done = t.done /\ q.usage = t.usage
        /\ \A s : Nests(s, t) => Nests(s, q)
    BY EmptiedOf
  <1>2. h \o q.out = h
    BY <1>1, ConcatEmptySeq
  <1>3. InOrder(h, q)
    BY <1>1 DEF InOrder
  <1>4. Finish(t) = IF t.done THEN q ELSE Close(q)
    BY DEF Finish, Emptied
  <1>5. l \in Line /\ l.kind = "done"
    BY DEF Line, Finishes
  <1>6. Close(q) = OneLine(q, l)
    BY <1>5 DEF OneLine
  <1> HIDE DEF q, l
  <1>7. CASE t.done
    BY <1>1, <1>2, <1>3, <1>4, <1>7
  <1>8. CASE ~t.done
    <2>1. Going(h \o q.out, q)
      BY <1>1, <1>2, <1>3, <1>8 DEF Going, InOrder
    <2>2. OneLine(q, l) \in StreamTranslator
      BY <1>1, <1>5, LineExtends
    <2>3. InOrder(h \o OneLine(q, l).out, OneLine(q, l))
      BY <1>1, <1>5, <2>1, LineInOrder
    <2>4. Untold(q)
      BY <1>1, <1>8 DEF Untold, Grows
    <2>5. HasError(OneLine(q, l).out) \/ (OneLine(q, l).usage = q.usage /\ Told(OneLine(q, l)))
      BY <1>1, <1>5, <2>4, LineTells
    <2> QED
      BY <1>1, <1>4, <1>6, <1>8, <2>2, <2>3, <2>5
  <1> QED
    BY <1>7, <1>8

\* What is over stays as it was: no piece and no end emits anything any more.
LEMMA NothingAfterDone ==
  ASSUME NEW t \in StreamTranslator, NEW lines, t.done
  PROVE  \A u \in {Feed(t, lines), Finish(t)} : u.done /\ u.usage = t.usage /\ u.out = <<>>
  <1>1. Feed(t, lines) = Emptied(t) /\ Finish(t) = Emptied(t)
    BY DEF Feed, Finish, Emptied
  <1>2. Emptied(t).done = t.done /\ Emptied(t).usage = t.usage /\ Emptied(t).out = <<>>
    BY EmptiedOf
  <1> QED
    BY <1>1, <1>2

-----------------------------------------------------------------------------
(* Translated streams                                                      *)

\* What the client has got is in order, as far as the translator is.
StreamInv ==
    /\ tr \in StreamTranslator /\ heard \in Seq(Event)
    /\ InOrder(heard, tr)

\* Only a piece of a translated stream and its end are translated.
LEMMA StreamFrame ==
  ASSUME [Next]_vars
  PROVE  \/ UNCHANGED <<tr, heard>>
         \/ \E c \in Chunks : RelayChunk(c)
         \/ Drained /\ Translated
  <1>1. CASE UNCHANGED vars \/ ClientGoesOn
    BY <1>1 DEF ClientGoesOn, vars, stream, body
  <1>2. ASSUME NEW s, Refuse(s)
        PROVE  UNCHANGED <<tr, heard>>
    BY <1>2 DEF Refuse, stream, body
  <1>3. CASE Middleware \/ Parse \/ Lane
    <2>1. ASSUME UNCHANGED stream
          PROVE  UNCHANGED <<tr, heard>>
      BY <2>1 DEF stream, body
    <2>2. CASE Middleware
      BY <1>2, <2>2 DEF Middleware, body
    <2>3. CASE Parse
      BY <1>2, <2>1, <2>3 DEF Parse
    <2>4. CASE Lane
      BY <1>2, <2>1, <2>4 DEF Lane
    <2> QED
      BY <1>3, <2>2, <2>3, <2>4
  <1>4. CASE SendFails \/ SendAnswered \/ ReadFails \/ ReadDone
    BY <1>4 DEF SendFails, SendAnswered, ReadFails, ReadDone, stream, body
  <1>5. CASE \/ \E n \in Pieces \cup {Huge} : RelayPiece(n)
             \/ Interrupted \/ Unstarted \/ BodyBroken
    BY <1>5 DEF RelayPiece, Interrupted, Unstarted, BodyBroken, body
  <1>6. CASE Drained /\ ~Translated
    BY <1>6 DEF Drained
  <1>7. CASE CloseUpstream \/ WriteEntry
    BY <1>7 DEF CloseUpstream, WriteEntry, stream, body
  <1>8. \/ Handler \/ Upstream \/ Client \/ UNCHANGED vars
    BY DEF Next
  <1>9. CASE Handler
    BY <1>3, <1>7, <1>9 DEF Handler
  <1>10. CASE Upstream
    BY <1>4, <1>5, <1>6, <1>10 DEF Upstream
  <1>11. CASE Client
    BY <1>1, <1>5, <1>11 DEF Client
  <1> QED
    BY <1>1, <1>8, <1>9, <1>10, <1>11

\* Every piece that is relayed, and the end, keep what the client got in order.
LEMMA StreamStep == StreamInv /\ [Next]_vars => StreamInv'
  <1> SUFFICES ASSUME StreamInv, [Next]_vars
               PROVE  StreamInv'
    OBVIOUS
  <1>0. ASSUME tr' \in StreamTranslator
        PROVE  heard \o tr'.out \in Seq(Event)
    <2>1. tr'.out \in Seq(Event) /\ heard \in Seq(Event)
      BY <1>0 DEF StreamTranslator, StreamInv
    <2> QED
      BY <2>1, ConcatProperties
  <1>1. CASE UNCHANGED <<tr, heard>>
    BY <1>1 DEF StreamInv
  <1>2. CASE \E c \in Chunks : RelayChunk(c)
    <2>1. PICK c \in Chunks : tr' = Feed(tr, c) /\ heard' = heard \o tr'.out
      BY <1>2 DEF RelayChunk
    <2>2. c \in Seq(Line)
      BY GatewayAssumption DEF GatewayAssumption
    <2>3. Feed(tr, c) \in StreamTranslator /\ InOrder(heard \o Feed(tr, c).out, Feed(tr, c))
      BY <2>2, FeedInOrder DEF StreamInv
    <2> QED
      BY <1>0, <2>1, <2>3 DEF StreamInv
  <1>3. CASE Drained /\ Translated
    <2>1. tr' = Finish(tr) /\ heard' = heard \o tr'.out
      BY <1>3 DEF Drained
    <2>2. Finish(tr) \in StreamTranslator /\ InOrder(heard \o Finish(tr).out, Finish(tr))
      BY FinishTells DEF StreamInv
    <2> QED
      BY <1>0, <2>1, <2>2 DEF StreamInv
  <1> QED
    BY <1>1, <1>2, <1>3, StreamFrame

\* The invariant begins.
LEMMA StreamInit == Init => StreamInv
  <1>1. <<>> \in Seq(Event)
    OBVIOUS
  <1> QED
    BY <1>1, NewInOrder DEF Init, StreamInv

\* The client of a translated stream gets a message whose blocks nest, for
\* every stream the upstream may send, cut into pieces of any number of lines
\* (StreamTranslator of compat.py).
THEOREM StreamsNest == Spec => []BlocksNest
  <1>1. StreamInv => BlocksNest
    <2> SUFFICES ASSUME StreamInv
                 PROVE  BlocksNest
      OBVIOUS
    <2>1. NestOf(heard)
      BY NestsIsNest DEF StreamInv, InOrder, Frozen
    <2> QED
      BY <2>1 DEF NestOf, PlacesOf, BlocksNest, Places
  <1> QED
    BY <1>1, StreamInit, StreamStep, PTL DEF Spec

-----------------------------------------------------------------------------
(* The usage of streams                                                    *)

\* As long as the extractor looks, it has seen the largest count there was.
UsageInv ==
    /\ phase \notin {"stream", "tail", "done"} =>
          usage = 0 /\ reported = 0 /\ ending = "none"
    /\ phase \in {"stream", "tail"} /\ ~Translated =>
          usage \in Nat /\ reported \in Nat /\ (~cut => usage = reported)
    /\ ~Translated => UsageIsReported

\* A step that leaves the stream's accounts alone, and does not begin to write.
LEMMA UsageFrame ==
    ASSUME UsageInv, UNCHANGED <<usage, reported, cut, ending>>, phase' \in Phases,
           \/ UNCHANGED <<req, route>> /\ phase' = phase /\ UNCHANGED <<heard, records>>
           \/ ending = "none" /\ phase \notin {"stream", "tail", "done"}
    PROVE  UsageInv'
  <1>1. CASE UNCHANGED <<req, route>> /\ phase' = phase /\ UNCHANGED <<heard, records>>
    BY <1>1 DEF UsageInv, UsageIsReported, Erred, Translated, Provider
  <1>2. CASE ending = "none" /\ phase \notin {"stream", "tail", "done"}
    BY <1>2 DEF UsageInv, UsageIsReported
  <1> QED
    BY <1>1, <1>2

\* The extractor and what was reported grow alike (UsageExtractor.feed).
LEMMA UsageStep == LogInv /\ WorkInv /\ WorkInv' /\ UsageInv /\ [Next]_vars => UsageInv'
  <1> SUFFICES ASSUME LogInv, WorkInv, WorkInv', UsageInv, [Next]_vars
               PROVE  UsageInv'
    OBVIOUS
  <1>0. phase \in Phases /\ phase' \in Phases
    BY DEF WorkInv
  <1>1. CASE UNCHANGED vars \/ ClientGoesOn
    BY <1>0, <1>1, UsageFrame DEF ClientGoesOn, vars, handler, stream, body, log
  <1>2. CASE Middleware \/ Parse \/ BodyBroken \/ Lane \/ SendFails \/ SendAnswered \/ ReadFails
    <2>1. /\ phase \notin {"stream", "tail", "done"}
          /\ UNCHANGED <<usage, reported, cut, ending>>
      BY <1>2 DEF Middleware, Parse, BodyBroken, Lane, SendFails, SendAnswered, ReadFails, Refuse, stream, body
    <2>2. ending = "none"
      BY <2>1 DEF UsageInv
    <2> QED
      BY <1>0, <2>1, <2>2, UsageFrame
  <1>3. CASE ReadDone
    <2>1. PICK tokens \in Pieces :
             /\ phase' = "done"
             /\ reported' = IF code = 200 /\ ctype = "json" THEN tokens ELSE 0
      BY <1>3, Zenon DEF ReadDone
    <2>2. phase = "read" /\ UNCHANGED <<usage, cut, ending>>
      BY <1>3 DEF ReadDone
    <2>3. ending' = "none"
      BY <2>2 DEF UsageInv
    <2> QED
      BY <2>1, <2>3 DEF UsageInv, UsageIsReported
  <1>4. CASE \E n \in Pieces \cup {Huge} : RelayPiece(n)
    <2>1. PICK n \in Pieces \cup {Huge} : RelayPiece(n)
      BY <1>4
    <2>2. /\ phase = "stream" /\ phase' = "stream" /\ ~Translated /\ ending' = "none"
          /\ UNCHANGED <<req, route>>
          /\ reported' = IF n = Huge THEN reported ELSE Larger(reported, n)
          /\ IF cut \/ n = Huge THEN /\ cut' = TRUE /\ UNCHANGED usage
                                ELSE /\ usage' = Larger(usage, n) /\ UNCHANGED cut
      BY <2>1 DEF RelayPiece, Streaming, Extract, handler
    <2>3. n = Huge \/ n \in Nat
      BY GatewayAssumption DEF GatewayAssumption
    <2>4. usage' \in Nat /\ reported' \in Nat
      BY <2>2, <2>3 DEF Larger, UsageInv
    <2>5. ~cut' => usage' = reported'
      BY <2>2 DEF Larger, UsageInv
    <2> QED
      BY <2>2, <2>4, <2>5 DEF UsageInv, UsageIsReported
  <1>5. CASE \/ \E c \in Chunks : RelayChunk(c)
             \/ Drained \/ Interrupted
    <2>1. /\ phase = "stream" /\ phase' = "stream"
          /\ UNCHANGED <<req, route, records>>
      BY <1>5 DEF RelayChunk, Drained, Interrupted, Streaming, handler, log
    <2>2. records' = <<>>
      BY <2>1 DEF LogInv, Silent
    <2>3. ~Translated => UNCHANGED <<usage, reported, cut>>
      BY <1>5 DEF RelayChunk, Drained, Interrupted
    <2> QED
      BY <2>1, <2>2, <2>3 DEF UsageInv, UsageIsReported, Translated, Provider
  <1>6. CASE Unstarted
    <2>1. phase' = "done" /\ ending' = "unstarted"
      BY <1>6 DEF Unstarted
    <2> QED
      BY <2>1 DEF UsageInv, UsageIsReported
  <1>7. CASE CloseUpstream
    <2>1. /\ phase = "stream" /\ phase' = "tail"
          /\ UNCHANGED <<req, route, usage, reported, cut, ending>>
      BY <1>7 DEF CloseUpstream, handler, stream, body
    <2> QED
      BY <2>1 DEF UsageInv, UsageIsReported, Translated, Provider
  <1>8. CASE WriteEntry
    <2>1. /\ phase = "tail" /\ phase' = "done" /\ Write(code, usage, ending = "broken")
          /\ UNCHANGED <<req, route, usage, reported, cut, ending>>
      BY <1>8 DEF WriteEntry, handler, stream, body
    <2>2. records = <<>>
      BY <2>1 DEF LogInv, Silent
    <2> DEFINE e == [status |-> code, tokens |-> usage, error |-> ending = "broken"]
    <2>3. records' = Append(records, e) \/ records' = records
      BY <2>1 DEF Write
    <2>4. ASSUME NEW x PROVE Append(<<>>, x)[1] = x
      OBVIOUS
    <2>5. e.tokens = usage
      OBVIOUS
    <2> HIDE DEF e
    <2>6. records' # <<>> => records'[1] = e
      BY <2>2, <2>3, <2>4
    <2>7. ~Translated /\ ~cut => usage = reported
      BY <2>1 DEF UsageInv
    <2>8. ~Translated' => UsageIsReported'
      BY <2>1, <2>5, <2>6, <2>7 DEF UsageIsReported, Translated, Provider
    <2> QED
      BY <2>1, <2>8 DEF UsageInv
  <1> QED
    BY <1>1, <1>2, <1>3, <1>4, <1>5, <1>6, <1>7, <1>8 DEF Next, Handler, Upstream, Client

\* Of a translated stream the extractor sees nothing before the end, and then
\* what the translator kept, which is what was reported.
Accounts ==
    IF tr.done THEN usage = reported
               ELSE usage = 0 /\ reported = tr.usage /\ ending # "whole"
ToldInv ==
    /\ phase \notin {"stream", "tail", "done"} => ~tr.done /\ tr.usage = 0
    /\ phase \in {"stream", "tail"} /\ Translated =>
          usage \in Nat /\ (cut \/ Erred \/ Accounts)
    /\ Translated => UsageIsReported

\* The extractor takes in what a piece carries.
LEMMA ExtractTells ==
  ASSUME NEW u \in StreamTranslator, Extract(Carried(u.out)), usage \in Nat
  PROVE  /\ usage' \in Nat /\ (cut => cut')
         /\ cut' \/ (/\ Untold(u) \/ u.out = <<>> => usage' = usage
                     /\ Told(u) /\ usage = 0 => usage' = u.usage)
  <1> DEFINE n == Carried(u.out)
  <1>1. /\ Untold(u) \/ u.out = <<>> => n = 0
        /\ Told(u) => n = u.usage
        /\ n \in Nat
    BY CarriedIsTold
  <1>2. Extract(n)
    OBVIOUS
  <1> HIDE DEF n
  <1>3. IF cut THEN cut' = TRUE /\ UNCHANGED usage
               ELSE usage' = Larger(usage, n) /\ UNCHANGED cut
    BY <1>1, <1>2 DEF Extract, Huge
  <1> QED
    BY <1>1, <1>3 DEF Larger

\* An error the client got, or is sent now, is among what it has.
LEMMA ErrsHeard ==
  ASSUME StreamInv, tr' \in StreamTranslator, heard' = heard \o tr'.out,
         Erred \/ HasError(tr'.out)
  PROVE  Erred'
  <1>1. tr'.out \in Seq(Event) /\ heard \in Seq(Event)
    BY DEF StreamTranslator, StreamInv
  <1>2. HasError(heard) \/ HasError(tr'.out)
    BY DEF Erred, HasError
  <1>3. HasError(heard \o tr'.out)
    BY <1>1, <1>2, ConcatErrs
  <1> QED
    BY <1>3 DEF Erred, HasError

\* A piece: the translator keeps what was reported until it tells it.
LEMMA ChunkAccounts ==
  ASSUME StreamInv, usage \in Nat, cut \/ Erred \/ Accounts, ending = "none",
         NEW c \in Chunks, RelayChunk(c)
  PROVE  usage' \in Nat /\ (cut' \/ Erred' \/ Accounts')
  <1>1. /\ tr' = Feed(tr, c) /\ heard' = heard \o tr'.out /\ Extract(Carried(tr'.out))
        /\ ending' = "none"
        /\ reported' = IF tr.done THEN reported ELSE Reported(reported, UpToDone(c))
    BY DEF RelayChunk, Reported
  <1>2. c \in Seq(Line)
    BY GatewayAssumption DEF GatewayAssumption
  <1>3. tr \in StreamTranslator /\ InOrder(heard, tr) /\ heard \in Seq(Event)
    BY DEF StreamInv
  <1>4. tr' \in StreamTranslator
    BY <1>1, <1>2, <1>3, FeedInOrder
  <1>5. /\ usage' \in Nat /\ (cut => cut')
        /\ cut' \/ (/\ Untold(tr') \/ tr'.out = <<>> => usage' = usage
                    /\ Told(tr') /\ usage = 0 => usage' = tr'.usage)
    BY <1>1, <1>4, ExtractTells
  <1>6. CASE cut \/ Erred
    BY <1>1, <1>4, <1>5, <1>6, ErrsHeard
  <1>7. CASE ~cut /\ ~Erred /\ tr.done
    <2>1. tr'.done /\ tr'.out = <<>>
      BY <1>1, <1>3, <1>7, NothingAfterDone
    <2> QED
      BY <1>1, <1>5, <1>7, <2>1 DEF Accounts
  <1>8. CASE ~cut /\ ~Erred /\ ~tr.done
    <2>1. usage = 0 /\ reported = tr.usage
      BY <1>8 DEF Accounts
    <2>2. Tells(tr', reported')
      BY <1>1, <1>2, <1>3, <1>8, <2>1, FeedTells
    <2>3. HasError(tr'.out) \/ (tr'.usage = reported' /\ (Untold(tr') \/ Told(tr')))
      BY <2>2 DEF Tells
    <2>4. CASE HasError(tr'.out)
      BY <1>1, <1>4, <1>5, <2>4, ErrsHeard
    <2>5. CASE tr'.usage = reported' /\ Untold(tr')
      <3>1. ~tr'.done
        BY <2>5 DEF Untold
      <3> QED
        BY <1>1, <1>5, <2>1, <2>5, <3>1 DEF Accounts
    <2>6. CASE tr'.usage = reported' /\ Told(tr')
      <3>1. tr'.done
        BY <2>6 DEF Told
      <3> QED
        BY <1>5, <2>1, <2>6, <3>1 DEF Accounts
    <2> QED
      BY <2>3, <2>4, <2>5, <2>6
  <1> QED
    BY <1>6, <1>7, <1>8

\* The end of the stream: what was kept is told now, if it was not before.
LEMMA EndAccounts ==
  ASSUME StreamInv, usage \in Nat, cut \/ Erred \/ Accounts, Drained, Translated
  PROVE  usage' \in Nat /\ (cut' \/ Erred' \/ Accounts')
  <1>1. /\ tr' = Finish(tr) /\ heard' = heard \o tr'.out /\ Extract(Carried(tr'.out))
        /\ reported' = reported
    BY DEF Drained
  <1>3. tr \in StreamTranslator /\ InOrder(heard, tr) /\ heard \in Seq(Event)
    BY DEF StreamInv
  <1>4. tr' \in StreamTranslator
    BY <1>1, <1>3, FinishTells
  <1>5. /\ usage' \in Nat /\ (cut => cut')
        /\ cut' \/ (/\ Untold(tr') \/ tr'.out = <<>> => usage' = usage
                    /\ Told(tr') /\ usage = 0 => usage' = tr'.usage)
    BY <1>1, <1>4, ExtractTells
  <1>6. CASE cut \/ Erred
    BY <1>1, <1>4, <1>5, <1>6, ErrsHeard
  <1>7. CASE ~cut /\ ~Erred /\ tr.done
    <2>1. tr'.done /\ tr'.out = <<>>
      BY <1>1, <1>3, <1>7, NothingAfterDone
    <2> QED
      BY <1>1, <1>5, <1>7, <2>1 DEF Accounts
  <1>8. CASE ~cut /\ ~Erred /\ ~tr.done
    <2>1. usage = 0 /\ reported = tr.usage
      BY <1>8 DEF Accounts
    <2>2. HasError(tr'.out) \/ (tr'.usage = tr.usage /\ Told(tr'))
      BY <1>1, <1>3, <1>8, FinishTells
    <2>3. CASE HasError(tr'.out)
      BY <1>1, <1>4, <1>5, <2>3, ErrsHeard
    <2>4. CASE tr'.usage = tr.usage /\ Told(tr')
      <3>1. tr'.done
        BY <2>4 DEF Told
      <3> QED
        BY <1>1, <1>5, <2>1, <2>4, <3>1 DEF Accounts
    <2> QED
      BY <2>2, <2>3, <2>4
  <1> QED
    BY <1>6, <1>7, <1>8

\* The accounts of a translated stream, step by step.
LEMMA ToldStep ==
    LogInv /\ WorkInv /\ WorkInv' /\ UsageInv /\ StreamInv /\ ToldInv /\ [Next]_vars => ToldInv'
  <1> SUFFICES ASSUME LogInv, WorkInv, WorkInv', UsageInv, StreamInv, ToldInv, [Next]_vars
               PROVE  ToldInv'
    OBVIOUS
  <1>1. CASE UNCHANGED vars \/ ClientGoesOn
    BY <1>1 DEF ClientGoesOn, vars, handler, stream, body, log, ToldInv, UsageIsReported, Erred, Accounts, Translated,
                Provider
  <1>2. CASE Middleware \/ Parse \/ BodyBroken \/ Lane \/ SendFails \/ SendAnswered \/ ReadFails
    <2>1. /\ phase \notin {"stream", "tail", "done"}
          /\ UNCHANGED <<tr, usage, reported, cut, ending>>
      BY <1>2 DEF Middleware, Parse, BodyBroken, Lane, SendFails, SendAnswered, ReadFails, Refuse, stream, body
    <2>2. ending' = "none" /\ usage' = 0 /\ reported' = 0 /\ ~tr'.done /\ tr'.usage = 0
      BY <2>1 DEF UsageInv, ToldInv
    <2>3. Accounts' /\ UsageIsReported' /\ usage' \in Nat
      BY <2>2 DEF Accounts, UsageIsReported
    <2> QED
      BY <2>2, <2>3 DEF ToldInv
  <1>3. CASE ReadDone
    <2>1. phase = "read" /\ phase' = "done" /\ UNCHANGED ending
      BY <1>3 DEF ReadDone
    <2>2. ending' = "none"
      BY <2>1 DEF UsageInv
    <2> QED
      BY <2>1, <2>2 DEF ToldInv, UsageIsReported
  <1>4. CASE \E n \in Pieces \cup {Huge} : RelayPiece(n)
    <2>1. phase' = "stream" /\ ~Translated /\ UNCHANGED <<req, route>>
      BY <1>4 DEF RelayPiece, Streaming, handler
    <2>2. ~Translated'
      BY <2>1 DEF Translated, Provider
    <2> QED
      BY <2>1, <2>2 DEF ToldInv
  <1>5. ASSUME Streaming, phase' = "stream", UNCHANGED <<req, route>>,
               Translated => usage' \in Nat /\ (cut' \/ Erred' \/ Accounts')
        PROVE  ToldInv'
    <2>1. Translated' => Translated
      BY <1>5 DEF Translated, Provider
    <2> QED
      BY <1>5, <2>1 DEF ToldInv, UsageIsReported
  <1>6. CASE \E c \in Chunks : RelayChunk(c)
    <2>1. PICK c \in Chunks : RelayChunk(c)
      BY <1>6
    <2>2. Streaming /\ Translated /\ phase' = "stream" /\ UNCHANGED <<req, route>>
      BY <2>1 DEF RelayChunk, Streaming, handler
    <2>3. usage \in Nat /\ (cut \/ Erred \/ Accounts) /\ ending = "none"
      BY <2>2 DEF ToldInv, Streaming
    <2> QED
      BY <1>5, <2>1, <2>2, <2>3, ChunkAccounts
  <1>7. CASE Drained
    <2>1. Streaming /\ phase' = "stream" /\ UNCHANGED <<req, route>>
      BY <1>7 DEF Drained, Streaming, handler
    <2>2. Translated => usage \in Nat /\ (cut \/ Erred \/ Accounts)
      BY <2>1 DEF ToldInv, Streaming
    <2> QED
      BY <1>5, <1>7, <2>1, <2>2, EndAccounts
  <1>8. CASE Interrupted
    <2>1. /\ Streaming /\ phase' = "stream" /\ ending' \in {"broken", "left"}
          /\ UNCHANGED <<req, route, tr, usage, reported, cut, heard>>
      BY <1>8 DEF Interrupted, Streaming, handler
    <2>2. Translated => usage \in Nat /\ (cut \/ Erred \/ Accounts)
      BY <2>1 DEF ToldInv, Streaming
    <2>3. Translated => usage' \in Nat /\ (cut' \/ Erred' \/ Accounts')
      BY <2>1, <2>2 DEF Erred, Accounts
    <2> QED
      BY <1>5, <2>1, <2>3
  <1>9. CASE Unstarted
    <2>1. phase' = "done" /\ ending' = "unstarted"
      BY <1>9 DEF Unstarted
    <2> QED
      BY <2>1 DEF ToldInv, UsageIsReported
  <1>10. CASE CloseUpstream
    <2>1. /\ phase = "stream" /\ phase' = "tail"
          /\ UNCHANGED <<req, route, tr, usage, reported, cut, heard, ending>>
      BY <1>10 DEF CloseUpstream, handler, stream, body
    <2>2. /\ Translated' <=> Translated
          /\ Erred' <=> Erred
          /\ Accounts' <=> Accounts
      BY <2>1 DEF Translated, Provider, Erred, Accounts
    <2> QED
      BY <2>1, <2>2 DEF ToldInv, UsageIsReported
  <1>11. CASE WriteEntry
    <2>1. /\ phase = "tail" /\ phase' = "done" /\ Write(code, usage, ending = "broken")
          /\ UNCHANGED <<req, route, tr, usage, reported, cut, heard, ending>>
      BY <1>11 DEF WriteEntry, handler, stream, body
    <2>2. records = <<>>
      BY <2>1 DEF LogInv, Silent
    <2> DEFINE e == [status |-> code, tokens |-> usage, error |-> ending = "broken"]
    <2>3. records' = Append(records, e) \/ records' = records
      BY <2>1 DEF Write
    <2>4. ASSUME NEW x PROVE Append(<<>>, x)[1] = x
      OBVIOUS
    <2>5. e.tokens = usage
      OBVIOUS
    <2> HIDE DEF e
    <2>6. records' # <<>> => records'[1] = e
      BY <2>2, <2>3, <2>4
    <2>7. Translated /\ ~cut /\ ~Erred /\ ending = "whole" => usage = reported
      BY <2>1 DEF ToldInv, Accounts
    <2>8. Translated' <=> Translated
      BY <2>1 DEF Translated, Provider
    <2>9. Erred' <=> Erred
      BY <2>1 DEF Erred
    <2>10. Translated' => UsageIsReported'
      BY <2>1, <2>5, <2>6, <2>7, <2>8, <2>9 DEF UsageIsReported
    <2> QED
      BY <2>1, <2>10 DEF ToldInv
  <1> QED
    BY <1>1, <1>2, <1>3, <1>4, <1>6, <1>7, <1>8, <1>9, <1>10, <1>11 DEF Next, Handler, Upstream, Client

\* A stream that was relayed to its end is accounted with the usage the upstream
\* put on it, whatever it sends and for any number of pieces: the largest count
\* of one that is passed on as it came, the last of one that is translated
\* (drain_and_log).
THEOREM StreamsAreAccounted == Spec => []UsageIsReported
  <1> DEFINE I == WorkInv /\ LogInv /\ UsageInv /\ StreamInv /\ ToldInv
  <1>1. Init => I
    <2> SUFFICES ASSUME Init
                 PROVE  I
      OBVIOUS
    <2>1. WorkInv /\ LogInv /\ UsageInv
      BY DEF Init, WorkInv, LogInv, UsageInv, Phases, Unsent, NoDoubleWork, Silent, Reading,
             UsageIsReported
    <2>2. tr = NewTranslator /\ phase = "middleware"
      BY DEF Init
    <2>3. ToldInv
      BY <2>2 DEF ToldInv, UsageIsReported, NewTranslator
    <2> QED
      BY <2>1, <2>3, StreamInit
  <1>2. I /\ [Next]_vars => I'
    BY WorkStep, LogStep, UsageStep, StreamStep, ToldStep
  <1>3. I => UsageIsReported
    BY DEF UsageInv, ToldInv
  <1> QED
    BY <1>1, <1>2, <1>3, PTL DEF Spec

-----------------------------------------------------------------------------
(* The conversation on its way out: which blocks a message keeps.          *)

\* What goes out on the OpenAI wire.
OpenAIMessage ==
    [role : {"system"}]
    \cup [role : {"tool"}, id : STRING]
    \cup [role : {"user"}, parts : Seq(Block)]
    \cup [role : {"assistant"}, parts : Seq(Block), calls : Seq(STRING)]
ToolIds(s) == {m.id : m \in OfRole(s, "tool")}
CallIds(s) == UNION {ToSet(m.calls) : m \in OfRole(s, "assistant")}

\* One more element, and one more sequence.
LEMMA AppendSet ==
  ASSUME NEW S, NEW s \in Seq(S), NEW x \in S
  PROVE  Append(s, x) \in Seq(S) /\ ToSet(Append(s, x)) = ToSet(s) \cup {x}
  <1> DEFINE v == Append(s, x)
             n == Len(s)
  <1>1. /\ v \in Seq(S) /\ Len(v) = n + 1
        /\ \A i \in 1 .. n : v[i] = s[i]
        /\ v[n + 1] = x
    BY AppendProperties
  <1> HIDE DEF v
  <1>2. DOMAIN s = 1 .. n /\ DOMAIN v = 1 .. Len(v) /\ n \in Nat
    BY <1>1, LenProperties
  <1> HIDE DEF n
  <1>3. 1 .. n + 1 = (1 .. n) \cup {n + 1}
    BY <1>2
  <1>4. ToSet(v) = {v[i] : i \in (1 .. n) \cup {n + 1}}
    BY <1>1, <1>2, <1>3 DEF ToSet
  <1>5. ToSet(s) = {s[i] : i \in 1 .. n}
    BY <1>2 DEF ToSet
  <1>6. ToSet(v) = ToSet(s) \cup {x}
    BY <1>1, <1>4, <1>5
  <1> QED
    BY <1>1, <1>6 DEF v

\* The elements of two sequences in a row.
LEMMA ConcatSet ==
  ASSUME NEW S, NEW s \in Seq(S), NEW u \in Seq(S)
  PROVE  s \o u \in Seq(S) /\ ToSet(s \o u) = ToSet(s) \cup ToSet(u)
  <1> DEFINE v == s \o u
             n == Len(s)
             m == Len(u)
  <1>1. /\ v \in Seq(S) /\ Len(v) = n + m
        /\ \A i \in 1 .. n + m : v[i] = IF i <= n THEN s[i] ELSE u[i - n]
    BY ConcatProperties
  <1> HIDE DEF v
  <1>2. /\ DOMAIN s = 1 .. n /\ DOMAIN u = 1 .. m /\ DOMAIN v = 1 .. Len(v)
        /\ n \in Nat /\ m \in Nat
    BY <1>1, LenProperties
  <1> HIDE DEF n, m
  <1>3. \A x \in ToSet(v) : x \in ToSet(s) \cup ToSet(u)
    <2> TAKE x \in ToSet(v)
    <2>1. PICK i \in 1 .. n + m : x = v[i]
      BY <1>1, <1>2 DEF ToSet
    <2>2. CASE i <= n
      <3>1. x = s[i] /\ i \in 1 .. n
        BY <1>1, <1>2, <2>1, <2>2
      <3> QED
        BY <1>2, <3>1 DEF ToSet
    <2>3. CASE ~(i <= n)
      <3>1. x = u[i - n] /\ i - n \in 1 .. m
        BY <1>1, <1>2, <2>1, <2>3
      <3> QED
        BY <1>2, <3>1 DEF ToSet
    <2> QED
      BY <2>2, <2>3
  <1>4. ASSUME NEW i \in 1 .. n
        PROVE  s[i] \in ToSet(v)
    <2>1. i \in 1 .. n + m /\ v[i] = s[i]
      BY <1>1, <1>2
    <2> QED
      BY <1>1, <1>2, <2>1 DEF ToSet
  <1>5. ASSUME NEW i \in 1 .. m
        PROVE  u[i] \in ToSet(v)
    <2>1. n + i \in 1 .. n + m /\ ~(n + i <= n) /\ (n + i) - n = i
      BY <1>2
    <2>2. v[n + i] = u[i]
      BY <1>1, <2>1
    <2> QED
      BY <1>1, <1>2, <2>1, <2>2 DEF ToSet
  <1>6. ToSet(s) \subseteq ToSet(v) /\ ToSet(u) \subseteq ToSet(v)
    BY <1>2, <1>4, <1>5 DEF ToSet
  <1> QED
    BY <1>1, <1>3, <1>6 DEF v

\* A block that is kept is put after those kept before.
KeptOn(kept, b, kinds) == IF b.kind \in kinds THEN Append(kept, b) ELSE kept
KeptRun(it, kinds, blocks) ==
    it = [p \in SUBSET DOMAIN blocks |->
            IF p = {} THEN <<>> ELSE KeptOn(it[p \ {Max(p)}], blocks[Max(p)], kinds)]

\* Blocks are kept one by one.
LEMMA KeptFold ==
  ASSUME NEW kinds, NEW blocks
  PROVE  Kept(blocks, kinds) = (CHOOSE it : KeptRun(it, kinds, blocks))[DOMAIN blocks]
  BY DEF Kept, FoldLeft, MapThenFoldSet, KeptRun, KeptOn

\* There is such a run.
LEMMA KeptRunExists ==
  ASSUME NEW kinds, NEW blocks \in Seq(Block)
  PROVE  \E it : KeptRun(it, kinds, blocks)
  <1> DEFINE n == Len(blocks)
             T == Seq(Block)
             g == [p \in T \X Block |-> KeptOn(p[1], p[2], kinds)]
  <1>1. \A u \in T, b \in Block : KeptOn(u, b, kinds) \in T
    BY AppendProperties DEF KeptOn
  <1>2. n \in Nat /\ DOMAIN blocks = 1 .. n /\ \A i \in 1 .. n : blocks[i] \in Block
    BY LenProperties, ElementOfSeq
  <1>0. <<>> \in T
    OBVIOUS
  <1> HIDE DEF n, T
  <1>3. /\ g \in [T \X Block -> T]
        /\ \A u \in T, b \in Block : g[<<u, b>>] = KeptOn(u, b, kinds)
    BY <1>1
  <1> HIDE DEF g
  <1>4. PICK it : Folding(it, g, <<>>, blocks, SUBSET (1 .. n))
    BY <1>2, FoldingExists
  <1>5. \A p \in SUBSET (1 .. n) :
           /\ it[p] \in T
           /\ p # {} => Max(p) \in 1 .. n /\ p \ {Max(p)} \in SUBSET (1 .. n)
    <2>1. \A p \in SUBSET (1 .. n) : it[p] \in T
      BY <1>0, <1>2, <1>3, <1>4, FoldingStays
    <2>2. \A p \in SUBSET (1 .. n) :
             p # {} => Max(p) \in 1 .. n /\ p \ {Max(p)} \in SUBSET (1 .. n)
      BY <1>2, LastOf
    <2> QED
      BY <2>1, <2>2
  <1>6. \A p \in SUBSET (1 .. n) :
           p # {} => g[<<it[p \ {Max(p)}], blocks[Max(p)]>>]
                     = KeptOn(it[p \ {Max(p)}], blocks[Max(p)], kinds)
    BY <1>2, <1>3, <1>5
  <1>7. KeptRun(it, kinds, blocks)
    BY <1>2, <1>4, <1>6 DEF Folding, KeptRun
  <1> QED
    BY <1>7

\* Each step of it looks at one block.
LEMMA KeptSteps ==
  ASSUME NEW kinds, NEW blocks \in Seq(Block)
  PROVE  \E R : /\ R[0] = <<>>
                /\ \A k \in 1 .. Len(blocks) : R[k] = KeptOn(R[k - 1], blocks[k], kinds)
                /\ Kept(blocks, kinds) = R[Len(blocks)]
  <1> DEFINE it == CHOOSE i : KeptRun(i, kinds, blocks)
             n == Len(blocks)
             R == [k \in 0 .. n |-> it[1 .. k]]
  <1>1. KeptRun(it, kinds, blocks)
    BY KeptRunExists
  <1>2. Kept(blocks, kinds) = it[DOMAIN blocks]
    BY KeptFold
  <1> HIDE DEF it
  <1>3. n \in Nat /\ DOMAIN blocks = 1 .. n
    BY LenProperties
  <1> HIDE DEF n
  <1>4. \A p \in SUBSET (1 .. n) :
           it[p] = IF p = {} THEN <<>> ELSE KeptOn(it[p \ {Max(p)}], blocks[Max(p)], kinds)
    BY <1>1, <1>3 DEF KeptRun
  <1>5. \A k \in 0 .. n : 1 .. k \in SUBSET (1 .. n) /\ R[k] = it[1 .. k]
    BY <1>3
  <1>6. R[0] = <<>>
    <2>1. 1 .. 0 = {} /\ 0 \in 0 .. n /\ {} \in SUBSET (1 .. n)
      BY <1>3
    <2>2. it[{}] = <<>>
      BY <1>4, <2>1
    <2> HIDE DEF R
    <2> QED
      BY <1>5, <2>1, <2>2
  <1>7. ASSUME NEW k \in 1 .. n
        PROVE  R[k] = KeptOn(R[k - 1], blocks[k], kinds)
    <2>0. k \in Nat /\ k # 0
      BY <1>3
    <2>1. 1 .. k # {} /\ Max(1 .. k) = k /\ (1 .. k) \ {k} = 1 .. k - 1
      BY <2>0, LastOfFirst
    <2>2. R[k - 1] = it[1 .. k - 1] /\ R[k] = it[1 .. k] /\ 1 .. k \in SUBSET (1 .. n)
      BY <1>3, <1>5
    <2> QED
      BY <1>4, <2>1, <2>2
  <1>8. R[n] = it[1 .. n]
    BY <1>3, <1>5
  <1> HIDE DEF R
  <1> QED
    BY <1>2, <1>3, <1>6, <1>7, <1>8 DEF n

\* The blocks that are kept are those of the kinds, and all of them.
LEMMA KeptOf ==
  ASSUME NEW kinds, NEW blocks \in Seq(Block)
  PROVE  /\ Kept(blocks, kinds) \in Seq(Block)
         /\ ToSet(Kept(blocks, kinds)) = {b \in ToSet(blocks) : b.kind \in kinds}
  <1> DEFINE n == Len(blocks)
             Upto(k) == {b \in {blocks[i] : i \in 1 .. k} : b.kind \in kinds}
  <1>1. PICK R : /\ R[0] = <<>>
                 /\ \A k \in 1 .. n : R[k] = KeptOn(R[k - 1], blocks[k], kinds)
                 /\ Kept(blocks, kinds) = R[n]
    BY KeptSteps
  <1>2. n \in Nat /\ DOMAIN blocks = 1 .. n /\ \A k \in 1 .. n : blocks[k] \in Block
    BY LenProperties, ElementOfSeq
  <1> HIDE DEF n
  <1> DEFINE P == {k \in 0 .. n : R[k] \in Seq(Block) /\ ToSet(R[k]) = Upto(k)}
  <1>3. 0 \in P
    <2>1. ToSet(<<>>) = {}
      BY DEF ToSet
    <2>2. Upto(0) = {}
      OBVIOUS
    <2>3. 0 \in 0 .. n /\ <<>> \in Seq(Block)
      BY <1>2
    <2> HIDE DEF Upto
    <2> QED
      BY <1>1, <2>1, <2>2, <2>3
  <1>4. ASSUME NEW k \in 1 .. n, k - 1 \in P
        PROVE  k \in P
    <2> DEFINE s == R[k - 1]
               b == blocks[k]
    <2>1. s \in Seq(Block) /\ ToSet(s) = Upto(k - 1) /\ R[k] = KeptOn(s, b, kinds) /\ b \in Block
      BY <1>1, <1>2, <1>4
    <2>2. 1 .. k = (1 .. k - 1) \cup {k} /\ k \in 0 .. n
      BY <1>2
    <2>3. Upto(k) = Upto(k - 1) \cup {x \in {b} : x.kind \in kinds}
      BY <2>2
    <2> HIDE DEF s, b, Upto
    <2>4. R[k] \in Seq(Block) /\ ToSet(R[k]) = Upto(k)
      <3>1. CASE b.kind \in kinds
        <4>1. Append(s, b) \in Seq(Block) /\ ToSet(Append(s, b)) = ToSet(s) \cup {b}
          BY <2>1, AppendSet
        <4>2. R[k] = Append(s, b)
          BY <2>1, <3>1 DEF KeptOn
        <4> QED
          BY <2>1, <2>3, <3>1, <4>1, <4>2
      <3>2. CASE b.kind \notin kinds
        <4>1. R[k] = s
          BY <2>1, <3>2 DEF KeptOn
        <4> QED
          BY <2>1, <2>3, <3>2, <4>1
      <3> QED
        BY <3>1, <3>2
    <2> QED
      BY <2>2, <2>4
  <1>5. \A k \in 0 .. n : k \in P
    <2> HIDE DEF P
    <2> QED
      BY <1>2, <1>3, <1>4, StepByStep
  <1>6. n \in P
    <2> HIDE DEF P
    <2> QED
      BY <1>2, <1>5
  <1>7. Upto(n) = {b \in ToSet(blocks) : b.kind \in kinds}
    BY <1>2 DEF ToSet
  <1> HIDE DEF Upto
  <1> QED
    BY <1>1, <1>6, <1>7

-----------------------------------------------------------------------------
(* What becomes of a message.                                              *)

\* The ids of the blocks of a kind that has them, in their order.
IdsIn(blocks, kind) ==
    [i \in DOMAIN Kept(blocks, {kind}) |-> Kept(blocks, {kind})[i].id]

\* They are the ids of the message.
LEMMA IdsInOf ==
  ASSUME NEW blocks \in Seq(Block), NEW kind \in {"call", "result"}
  PROVE  /\ IdsIn(blocks, kind) \in Seq(STRING)
         /\ ToSet(IdsIn(blocks, kind)) = Ids(blocks, kind)
  <1> DEFINE s == Kept(blocks, {kind})
             n == Len(s)
             v == IdsIn(blocks, kind)
  <1>1. s \in Seq(Block) /\ ToSet(s) = {b \in ToSet(blocks) : b.kind = kind}
    <2>1. /\ s \in Seq(Block)
          /\ ToSet(s) = {b \in ToSet(blocks) : b.kind \in {kind}}
      BY KeptOf
    <2> HIDE DEF s
    <2> QED
      BY <2>1
  <1>2. v = [i \in DOMAIN s |-> s[i].id]
    BY DEF IdsIn
  <1> HIDE DEF s, v
  <1>3. n \in Nat /\ DOMAIN s = 1 .. n /\ \A i \in 1 .. n : s[i] \in Block
    BY <1>1, LenProperties, ElementOfSeq
  <1> HIDE DEF n
  <1>4. ToSet(s) = {s[i] : i \in 1 .. n}
    BY <1>3 DEF ToSet
  <1>5. \A b \in Block : b.kind = kind => b.id \in STRING
    BY DEF Block
  <1>6. \A i \in 1 .. n : s[i].id \in STRING
    BY <1>1, <1>3, <1>4, <1>5
  <1>7. v \in Seq(STRING) /\ DOMAIN v = 1 .. n /\ \A i \in 1 .. n : v[i] = s[i].id
    BY <1>2, <1>3, <1>6
  <1>8. ToSet(v) = {s[i].id : i \in 1 .. n}
    BY <1>7 DEF ToSet
  <1>9. ToSet(v) = {b.id : b \in ToSet(s)}
    BY <1>4, <1>8
  <1> QED
    BY <1>1, <1>7, <1>9 DEF Ids, v

\* A message of the assistant goes out as one that makes the same calls.
LEMMA AssistantOf ==
  ASSUME NEW blocks \in Seq(Block)
  PROVE  \E m \in OpenAIMessage :
            /\ AssistantMessages(blocks) = <<m>>
            /\ m.role = "assistant" /\ ToSet(m.calls) = Ids(blocks, "call")
  <1> DEFINE p == Kept(blocks, {"text"})
             c == IdsIn(blocks, "call")
             m == [role |-> "assistant", parts |-> p, calls |-> c]
  <1>1. p \in Seq(Block)
    BY KeptOf
  <1>2. c \in Seq(STRING) /\ ToSet(c) = Ids(blocks, "call")
    BY IdsInOf
  <1>3. AssistantMessages(blocks) = <<m>>
    BY DEF AssistantMessages, IdsIn
  <1> HIDE DEF p, c
  <1>4. m \in OpenAIMessage
    BY <1>1, <1>2 DEF OpenAIMessage
  <1>5. m.role = "assistant" /\ m.calls = c
    OBVIOUS
  <1> HIDE DEF m
  <1> QED
    BY <1>2, <1>3, <1>4, <1>5

\* The results come first, and what is left is one message of the user.
ResultsOut(blocks) ==
    [i \in DOMAIN IdsIn(blocks, "result") |->
        [role |-> "tool", id |-> IdsIn(blocks, "result")[i]]]
RestOut(blocks) ==
    IF Kept(blocks, {"text", "image"}) = <<>> THEN <<>>
    ELSE <<[role |-> "user", parts |-> Kept(blocks, {"text", "image"})]>>

\* A message of the user goes out as those two.
LEMMA UserIs ==
  ASSUME NEW blocks \in Seq(Block)
  PROVE  UserMessages(blocks) = ResultsOut(blocks) \o RestOut(blocks)
  <1> DEFINE s == Kept(blocks, {"result"})
             v == [i \in DOMAIN s |-> [role |-> "tool", id |-> s[i].id]]
             c == IdsIn(blocks, "result")
  <1>1. UserMessages(blocks) = v \o RestOut(blocks)
    BY DEF UserMessages, RestOut
  <1>2. c = [i \in DOMAIN s |-> s[i].id]
    BY DEF IdsIn
  <1>3. ResultsOut(blocks) = [i \in DOMAIN c |-> [role |-> "tool", id |-> c[i]]]
    BY DEF ResultsOut
  <1> HIDE DEF s, c
  <1>4. v = ResultsOut(blocks)
    BY <1>2, <1>3
  <1> QED
    BY <1>1, <1>4

\* The results name what they answer.
LEMMA ResultsOf ==
  ASSUME NEW blocks \in Seq(Block)
  PROVE  /\ ResultsOut(blocks) \in Seq(OpenAIMessage)
         /\ \A i \in 1 .. Len(ResultsOut(blocks)) :
               /\ ResultsOut(blocks)[i].role = "tool"
               /\ ResultsOut(blocks)[i].id \in Ids(blocks, "result")
         /\ ToolIds(ResultsOut(blocks)) = Ids(blocks, "result")
         /\ CallIds(ResultsOut(blocks)) = {}
  <1> DEFINE c == IdsIn(blocks, "result")
             n == Len(c)
             v == ResultsOut(blocks)
  <1>1. c \in Seq(STRING) /\ ToSet(c) = Ids(blocks, "result")
    BY IdsInOf
  <1>2. v = [i \in DOMAIN c |-> [role |-> "tool", id |-> c[i]]]
    BY DEF ResultsOut
  <1> HIDE DEF c, v
  <1>3. n \in Nat /\ DOMAIN c = 1 .. n /\ \A i \in 1 .. n : c[i] \in STRING
    BY <1>1, LenProperties, ElementOfSeq
  <1> HIDE DEF n
  <1>4. \A x \in STRING : [role |-> "tool", id |-> x] \in OpenAIMessage
    BY DEF OpenAIMessage
  <1>5. /\ v \in Seq(OpenAIMessage) /\ Len(v) = n /\ DOMAIN v = 1 .. n
        /\ \A i \in 1 .. n : v[i] = [role |-> "tool", id |-> c[i]]
    <2>1. DOMAIN v = 1 .. n /\ \A i \in 1 .. n : v[i] = [role |-> "tool", id |-> c[i]]
      BY <1>2, <1>3
    <2>2. \A i \in 1 .. n : v[i] \in OpenAIMessage
      BY <1>3, <1>4, <2>1
    <2>3. v = [i \in 1 .. n |-> v[i]]
      BY <1>2, <1>3
    <2>4. v \in [1 .. n -> OpenAIMessage]
      BY <2>2, <2>3
    <2>5. v \in Seq(OpenAIMessage) /\ Len(v) = n
      BY <1>3, <2>4
    <2> QED
      BY <2>1, <2>5
  <1>6. \A i \in 1 .. n : v[i].role = "tool" /\ v[i].id = c[i]
    BY <1>5
  <1>7. \A m \in ToSet(v) : m.role = "tool"
    BY <1>5, <1>6 DEF ToSet
  <1>8. OfRole(v, "tool") = {v[i] : i \in 1 .. n} /\ OfRole(v, "assistant") = {}
    BY <1>5, <1>7 DEF ToSet, OfRole
  <1>9. ToSet(c) = {c[i] : i \in 1 .. n}
    BY <1>3 DEF ToSet
  <1>10. ToolIds(v) = ToSet(c)
    BY <1>6, <1>8, <1>9 DEF ToolIds
  <1>11. CallIds(v) = {}
    BY <1>8 DEF CallIds
  <1>12. \A i \in 1 .. n : c[i] \in ToSet(c)
    BY <1>9
  <1> QED
    BY <1>1, <1>5, <1>6, <1>10, <1>11, <1>12 DEF v

\* The rest neither calls nor answers.
LEMMA RestOf ==
  ASSUME NEW blocks \in Seq(Block)
  PROVE  /\ RestOut(blocks) \in Seq(OpenAIMessage)
         /\ \A i \in 1 .. Len(RestOut(blocks)) : RestOut(blocks)[i].role = "user"
         /\ ToolIds(RestOut(blocks)) = {} /\ CallIds(RestOut(blocks)) = {}
  <1> DEFINE p == Kept(blocks, {"text", "image"})
             m == [role |-> "user", parts |-> p]
             v == RestOut(blocks)
  <1>1. p \in Seq(Block)
    BY KeptOf
  <1>2. v = IF p = <<>> THEN <<>> ELSE <<m>>
    BY DEF RestOut
  <1> HIDE DEF p
  <1>3. m \in OpenAIMessage /\ m.role = "user"
    BY <1>1 DEF OpenAIMessage
  <1> HIDE DEF m
  <1>4. v \in Seq(OpenAIMessage) /\ \A i \in 1 .. Len(v) : v[i].role = "user"
    BY <1>2, <1>3
  <1> HIDE DEF v
  <1>5. DOMAIN v = 1 .. Len(v)
    BY <1>4, LenProperties
  <1>6. OfRole(v, "tool") = {} /\ OfRole(v, "assistant") = {}
    BY <1>4, <1>5 DEF OfRole, ToSet
  <1>7. ToolIds(v) = {} /\ CallIds(v) = {}
    BY <1>6 DEF ToolIds, CallIds
  <1> QED
    BY <1>4, <1>7 DEF v

\* What two parts of a conversation answer and call.
LEMMA ConcatIds ==
  ASSUME NEW s \in Seq(OpenAIMessage), NEW u \in Seq(OpenAIMessage)
  PROVE  /\ s \o u \in Seq(OpenAIMessage)
         /\ ToolIds(s \o u) = ToolIds(s) \cup ToolIds(u)
         /\ CallIds(s \o u) = CallIds(s) \cup CallIds(u)
  <1> DEFINE v == s \o u
  <1>1. v \in Seq(OpenAIMessage) /\ ToSet(v) = ToSet(s) \cup ToSet(u)
    BY ConcatSet
  <1> HIDE DEF v
  <1>2. /\ OfRole(v, "tool") = OfRole(s, "tool") \cup OfRole(u, "tool")
        /\ OfRole(v, "assistant") = OfRole(s, "assistant") \cup OfRole(u, "assistant")
    BY <1>1 DEF OfRole
  <1>3. ToolIds(v) = ToolIds(s) \cup ToolIds(u)
    BY <1>2 DEF ToolIds
  <1>4. CallIds(v) = CallIds(s) \cup CallIds(u)
    BY <1>2 DEF CallIds
  <1> QED
    BY <1>1, <1>3, <1>4 DEF v

-----------------------------------------------------------------------------
(* The conversation, message by message.                                   *)

\* The last message of s makes the call that m answers.
Calling(s, ids) ==
    s # <<>> /\ s[Len(s)].role = "assistant" /\ ToSet(s[Len(s)].calls) = ids
Called(s, m) ==
    /\ s # <<>> /\ s[Len(s)].role = "assistant"
    /\ m.role = "tool" /\ m.id \in ToSet(s[Len(s)].calls)

\* What is no result may follow anything, and results follow their calls.
LEMMA PlacedOn ==
  ASSUME NEW s \in Seq(OpenAIMessage), NEW u \in Seq(OpenAIMessage), Placed(s),
         \/ \A i \in 1 .. Len(u) : u[i].role # "tool"
         \/ \A i \in 1 .. Len(u) : Called(s, u[i])
  PROVE  Placed(s \o u)
  <1> DEFINE v == s \o u
             n == Len(s)
             m == Len(u)
  <1>1. /\ Len(v) = n + m
        /\ \A i \in 1 .. n + m : v[i] = IF i <= n THEN s[i] ELSE u[i - n]
        /\ v \in Seq(OpenAIMessage)
    BY ConcatProperties
  <1> HIDE DEF v
  <1>2. /\ n \in Nat /\ m \in Nat /\ DOMAIN v = 1 .. n + m /\ DOMAIN s = 1 .. n
        /\ s # <<>> => n # 0
    BY <1>1, LenProperties, EmptySeq
  <1>3. /\ \A i \in 1 .. n : s[i].role = "tool" =>
              \E j \in 1 .. i - 1 :
                 /\ s[j].role = "assistant" /\ s[i].id \in ToSet(s[j].calls)
                 /\ \A k \in j + 1 .. i - 1 : s[k].role = "tool"
    BY <1>2 DEF Placed
  <1>4. \/ \A i \in 1 .. m : u[i].role # "tool"
        \/ \A i \in 1 .. m : /\ s # <<>> /\ s[n].role = "assistant"
                             /\ u[i].role = "tool" /\ u[i].id \in ToSet(s[n].calls)
    BY DEF Called
  <1> HIDE DEF n, m
  <1> SUFFICES ASSUME NEW i \in 1 .. n + m, v[i].role = "tool"
               PROVE  \E j \in 1 .. i - 1 :
                         /\ v[j].role = "assistant" /\ v[i].id \in ToSet(v[j].calls)
                         /\ \A k \in j + 1 .. i - 1 : v[k].role = "tool"
    BY <1>2 DEF Placed, v
  <1>5. CASE i <= n
    <2>1. v[i] = s[i] /\ i \in 1 .. n
      BY <1>1, <1>2, <1>5
    <2>2. PICK j \in 1 .. i - 1 :
             /\ s[j].role = "assistant" /\ s[i].id \in ToSet(s[j].calls)
             /\ \A k \in j + 1 .. i - 1 : s[k].role = "tool"
      BY <1>3, <2>1
    <2>3. \A k \in 1 .. i - 1 : v[k] = s[k]
      BY <1>1, <1>2, <1>5
    <2>4. \A k \in j + 1 .. i - 1 : k \in 1 .. i - 1
      BY <1>2
    <2> QED
      BY <2>1, <2>2, <2>3, <2>4
  <1>6. CASE ~(i <= n)
    <2>1. v[i] = u[i - n] /\ i - n \in 1 .. m
      BY <1>1, <1>2, <1>6
    <2>2. /\ s # <<>> /\ s[n].role = "assistant" /\ u[i - n].id \in ToSet(s[n].calls)
          /\ \A k \in 1 .. m : u[k].role = "tool"
      BY <1>4, <2>1
    <2>3. n \in 1 .. i - 1 /\ v[n] = s[n]
      BY <1>1, <1>2, <1>6, <2>2
    <2>4. ASSUME NEW k \in n + 1 .. i - 1
          PROVE  v[k].role = "tool"
      <3>1. v[k] = u[k - n] /\ k - n \in 1 .. m
        BY <1>1, <1>2, <1>6
      <3> QED
        BY <2>2, <3>1
    <2> QED
      BY <2>1, <2>2, <2>3, <2>4
  <1> QED
    BY <1>5, <1>6

\* One message more goes out.
OutOn(out, m) == out \o OneToOpenAI(m)
OutRun(it, base, messages) ==
    it = [p \in SUBSET DOMAIN messages |->
            IF p = {} THEN base ELSE OutOn(it[p \ {Max(p)}], messages[Max(p)])]
First(system) == IF system THEN <<[role |-> "system"]>> ELSE <<>>

\* What one message becomes.
LEMMA OneOf ==
  ASSUME NEW m \in AnthropicMessage
  PROVE  /\ OneToOpenAI(m) \in Seq(OpenAIMessage)
         /\ m.blocks \in Seq(Block) /\ m.role \in {"user", "assistant"}
  <1> DEFINE b == m.blocks
  <1>1. b \in Seq(Block) /\ m.role \in {"user", "assistant"}
    BY DEF AnthropicMessage
  <1> HIDE DEF b
  <1>2. AssistantMessages(b) \in Seq(OpenAIMessage)
    <2>1. PICK x \in OpenAIMessage : AssistantMessages(b) = <<x>>
      BY <1>1, AssistantOf
    <2> QED
      BY <2>1
  <1>3. UserMessages(b) \in Seq(OpenAIMessage)
    <2>1. /\ ResultsOut(b) \in Seq(OpenAIMessage) /\ RestOut(b) \in Seq(OpenAIMessage)
          /\ UserMessages(b) = ResultsOut(b) \o RestOut(b)
      BY <1>1, ResultsOf, RestOf, UserIs
    <2> QED
      BY <2>1, ConcatProperties
  <1>4. OneToOpenAI(m) = IF m.role = "assistant" THEN AssistantMessages(b) ELSE UserMessages(b)
    BY DEF OneToOpenAI, b
  <1>5. OneToOpenAI(m) \in Seq(OpenAIMessage)
    BY <1>2, <1>3, <1>4
  <1> QED
    BY <1>1, <1>5 DEF b

\* The messages go out one by one.
LEMMA OutFold ==
  ASSUME NEW system, NEW messages
  PROVE  ToOpenAI(system, messages)
            = (CHOOSE it : OutRun(it, First(system), messages))[DOMAIN messages]
  BY DEF ToOpenAI, FoldLeft, MapThenFoldSet, OutRun, OutOn, First

\* There is such a run.
LEMMA OutRunExists ==
  ASSUME NEW base \in Seq(OpenAIMessage), NEW messages \in Seq(AnthropicMessage)
  PROVE  \E it : OutRun(it, base, messages)
  <1> DEFINE n == Len(messages)
             T == Seq(OpenAIMessage)
             X == AnthropicMessage
             g == [p \in T \X X |-> OutOn(p[1], p[2])]
  <1>1. \A u \in T, m \in X : OutOn(u, m) \in T
    BY OneOf, ConcatProperties DEF OutOn
  <1>2. n \in Nat /\ DOMAIN messages = 1 .. n /\ \A i \in 1 .. n : messages[i] \in X
    BY LenProperties, ElementOfSeq
  <1>0. base \in T
    OBVIOUS
  <1> HIDE DEF n, T, X
  <1>3. /\ g \in [T \X X -> T]
        /\ \A u \in T, m \in X : g[<<u, m>>] = OutOn(u, m)
    BY <1>1
  <1> HIDE DEF g
  <1>4. PICK it : Folding(it, g, base, messages, SUBSET (1 .. n))
    BY <1>2, FoldingExists
  <1>5. \A p \in SUBSET (1 .. n) :
           /\ it[p] \in T
           /\ p # {} => Max(p) \in 1 .. n /\ p \ {Max(p)} \in SUBSET (1 .. n)
    <2>1. \A p \in SUBSET (1 .. n) : it[p] \in T
      BY <1>0, <1>2, <1>3, <1>4, FoldingStays
    <2>2. \A p \in SUBSET (1 .. n) :
             p # {} => Max(p) \in 1 .. n /\ p \ {Max(p)} \in SUBSET (1 .. n)
      BY <1>2, LastOf
    <2> QED
      BY <2>1, <2>2
  <1>6. \A p \in SUBSET (1 .. n) :
           p # {} => g[<<it[p \ {Max(p)}], messages[Max(p)]>>]
                     = OutOn(it[p \ {Max(p)}], messages[Max(p)])
    BY <1>2, <1>3, <1>5
  <1>7. OutRun(it, base, messages)
    BY <1>2, <1>4, <1>6 DEF Folding, OutRun
  <1> QED
    BY <1>7

\* Each step of it sends one message on.
LEMMA OutSteps ==
  ASSUME NEW system, NEW messages \in Seq(AnthropicMessage)
  PROVE  \E R : /\ R[0] = First(system)
                /\ \A k \in 1 .. Len(messages) : R[k] = OutOn(R[k - 1], messages[k])
                /\ ToOpenAI(system, messages) = R[Len(messages)]
  <1> DEFINE base == First(system)
             it == CHOOSE i : OutRun(i, base, messages)
             n == Len(messages)
             R == [k \in 0 .. n |-> it[1 .. k]]
  <1>0. base \in Seq(OpenAIMessage)
    <2>1. [role |-> "system"] \in OpenAIMessage
      BY DEF OpenAIMessage
    <2> QED
      BY <2>1 DEF First
  <1>2. ToOpenAI(system, messages) = it[DOMAIN messages]
    BY OutFold
  <1> HIDE DEF base
  <1>1. OutRun(it, base, messages)
    BY <1>0, OutRunExists
  <1> HIDE DEF it
  <1>3. n \in Nat /\ DOMAIN messages = 1 .. n
    BY LenProperties
  <1> HIDE DEF n
  <1>4. \A p \in SUBSET (1 .. n) :
           it[p] = IF p = {} THEN base ELSE OutOn(it[p \ {Max(p)}], messages[Max(p)])
    BY <1>1, <1>3 DEF OutRun
  <1>5. \A k \in 0 .. n : 1 .. k \in SUBSET (1 .. n) /\ R[k] = it[1 .. k]
    BY <1>3
  <1>6. R[0] = base
    <2>1. 1 .. 0 = {} /\ 0 \in 0 .. n /\ {} \in SUBSET (1 .. n)
      BY <1>3
    <2>2. it[{}] = base
      BY <1>4, <2>1
    <2> HIDE DEF R
    <2> QED
      BY <1>5, <2>1, <2>2
  <1>7. ASSUME NEW k \in 1 .. n
        PROVE  R[k] = OutOn(R[k - 1], messages[k])
    <2>0. k \in Nat /\ k # 0
      BY <1>3
    <2>1. 1 .. k # {} /\ Max(1 .. k) = k /\ (1 .. k) \ {k} = 1 .. k - 1
      BY <2>0, LastOfFirst
    <2>2. R[k - 1] = it[1 .. k - 1] /\ R[k] = it[1 .. k] /\ 1 .. k \in SUBSET (1 .. n)
      BY <1>3, <1>5
    <2> QED
      BY <1>4, <2>1, <2>2
  <1>8. R[n] = it[1 .. n]
    BY <1>3, <1>5
  <1> HIDE DEF R
  <1> QED
    BY <1>2, <1>3, <1>6, <1>7, <1>8 DEF n, base

\* What is out after the first k messages: their results and their calls, each
\* result in its place, and last of all what the k-th called.
AllIds(messages, k, kind) == UNION {Ids(messages[i].blocks, kind) : i \in 1 .. k}
GoneOut(s, messages, k) ==
    /\ s \in Seq(OpenAIMessage)
    /\ ToolIds(s) = AllIds(messages, k, "result")
    /\ CallIds(s) = AllIds(messages, k, "call")
    /\ Placed(s)
    /\ (k # 0 /\ messages[k].role = "assistant") => Calling(s, Ids(messages[k].blocks, "call"))

\* The ids of one message more.
LEMMA AllIdsOn ==
  ASSUME NEW messages, NEW n \in Nat, NEW k \in 1 .. n, NEW kind
  PROVE  AllIds(messages, k, kind)
            = AllIds(messages, k - 1, kind) \cup Ids(messages[k].blocks, kind)
  <1>1. 1 .. k = (1 .. k - 1) \cup {k}
    OBVIOUS
  <1> QED
    BY <1>1 DEF AllIds

\* The next message is the assistant's.
LEMMA AssistantOn ==
  ASSUME NEW s \in Seq(OpenAIMessage), Placed(s), NEW b \in Seq(Block)
  PROVE  LET v == s \o AssistantMessages(b)
         IN  /\ v \in Seq(OpenAIMessage) /\ Placed(v)
             /\ ToolIds(v) = ToolIds(s)
             /\ CallIds(v) = CallIds(s) \cup Ids(b, "call")
             /\ Calling(v, Ids(b, "call"))
  <1>1. PICK m \in OpenAIMessage :
            /\ AssistantMessages(b) = <<m>>
            /\ m.role = "assistant" /\ ToSet(m.calls) = Ids(b, "call")
    BY AssistantOf
  <1> DEFINE u == <<m>>
             v == s \o u
  <1>2. u \in Seq(OpenAIMessage) /\ Len(u) = 1 /\ u[1] = m /\ ToSet(u) = {m}
    <2>1. u \in Seq(OpenAIMessage) /\ Len(u) = 1 /\ u[1] = m
      OBVIOUS
    <2>2. ToSet(u) = {u[i] : i \in 1 .. 1} /\ 1 .. 1 = {1}
      BY DEF ToSet
    <2> QED
      BY <2>1, <2>2
  <1> HIDE DEF u
  <1>3. Placed(v)
    <2>1. \A i \in 1 .. Len(u) : u[i].role # "tool"
      BY <1>1, <1>2
    <2> QED
      BY <1>2, <2>1, PlacedOn
  <1>4. ToolIds(u) = {} /\ CallIds(u) = Ids(b, "call")
    <2>1. OfRole(u, "tool") = {} /\ OfRole(u, "assistant") = {m}
      BY <1>1, <1>2 DEF OfRole
    <2>2. ToolIds(u) = {}
      BY <2>1 DEF ToolIds
    <2>3. CallIds(u) = UNION {ToSet(x.calls) : x \in {m}}
      BY <2>1 DEF CallIds
    <2> QED
      BY <1>1, <2>2, <2>3
  <1>5. /\ v \in Seq(OpenAIMessage)
        /\ ToolIds(v) = ToolIds(s) \cup ToolIds(u)
        /\ CallIds(v) = CallIds(s) \cup CallIds(u)
    BY <1>2, ConcatIds
  <1>6. Calling(v, Ids(b, "call"))
    <2>1. Len(s) \in Nat /\ Len(v) = Len(s) + 1
      BY <1>2, ConcatProperties, LenProperties
    <2>2. v[Len(s) + 1] = u[(Len(s) + 1) - Len(s)] /\ (Len(s) + 1) - Len(s) = 1
      BY <1>2, <2>1, ConcatProperties
    <2>3. v # <<>>
      BY <1>5, <2>1, EmptySeq
    <2>4. v[Len(v)] = m
      BY <1>2, <2>1, <2>2
    <2> HIDE DEF v
    <2> QED
      BY <1>1, <2>3, <2>4 DEF Calling
  <1>7. v = s \o AssistantMessages(b)
    BY <1>1 DEF u
  <1> HIDE DEF v
  <1> QED
    BY <1>3, <1>4, <1>5, <1>6, <1>7

\* The next message is the user's: its results answer the message before.
LEMMA UserOn ==
  ASSUME NEW s \in Seq(OpenAIMessage), Placed(s), NEW b \in Seq(Block),
         NEW calls, Ids(b, "result") \subseteq calls,
         Ids(b, "result") # {} => Calling(s, calls)
  PROVE  LET v == s \o UserMessages(b)
         IN  /\ v \in Seq(OpenAIMessage) /\ Placed(v)
             /\ ToolIds(v) = ToolIds(s) \cup Ids(b, "result")
             /\ CallIds(v) = CallIds(s)
  <1> DEFINE r == ResultsOut(b)
             u == RestOut(b)
             w == s \o r
             v == s \o UserMessages(b)
  <1>1. /\ r \in Seq(OpenAIMessage) /\ ToolIds(r) = Ids(b, "result") /\ CallIds(r) = {}
        /\ \A i \in 1 .. Len(r) : r[i].role = "tool" /\ r[i].id \in Ids(b, "result")
    BY ResultsOf
  <1>2. /\ u \in Seq(OpenAIMessage) /\ ToolIds(u) = {} /\ CallIds(u) = {}
        /\ \A i \in 1 .. Len(u) : u[i].role = "user"
    BY RestOf
  <1>3. v = s \o (r \o u)
    BY UserIs
  <1> HIDE DEF r, u, v
  <1>4. v = w \o u
    BY <1>1, <1>2, <1>3, ConcatAssociative
  <1>5. /\ w \in Seq(OpenAIMessage)
        /\ ToolIds(w) = ToolIds(s) \cup ToolIds(r)
        /\ CallIds(w) = CallIds(s) \cup CallIds(r)
    BY <1>1, ConcatIds
  <1>6. Placed(w)
    <2>1. \A i \in 1 .. Len(r) : Called(s, r[i])
      <3> TAKE i \in 1 .. Len(r)
      <3>1. r[i].role = "tool" /\ r[i].id \in Ids(b, "result")
        BY <1>1
      <3>2. Calling(s, calls)
        BY <3>1
      <3> QED
        BY <3>1, <3>2 DEF Calling, Called
    <2> QED
      BY <1>1, <2>1, PlacedOn
  <1> HIDE DEF w
  <1>7. Placed(w \o u)
    <2>1. \A i \in 1 .. Len(u) : u[i].role # "tool"
      BY <1>2
    <2> QED
      BY <1>2, <1>5, <1>6, <2>1, PlacedOn
  <1>8. /\ w \o u \in Seq(OpenAIMessage)
        /\ ToolIds(w \o u) = ToolIds(w) \cup ToolIds(u)
        /\ CallIds(w \o u) = CallIds(w) \cup CallIds(u)
    BY <1>2, <1>5, ConcatIds
  <1>9. /\ v \in Seq(OpenAIMessage) /\ Placed(v)
        /\ ToolIds(v) = ToolIds(s) \cup Ids(b, "result")
        /\ CallIds(v) = CallIds(s)
    BY <1>1, <1>2, <1>4, <1>5, <1>7, <1>8
  <1> QED
    BY <1>9 DEF v

\* A message goes out after those before it.
LEMMA GoneOutOn ==
  ASSUME NEW messages, Conversation(messages), NEW k \in 1 .. Len(messages),
         NEW s, GoneOut(s, messages, k - 1)
  PROVE  GoneOut(OutOn(s, messages[k]), messages, k)
  <1> DEFINE n == Len(messages)
             m == messages[k]
             v == OutOn(s, m)
             prior == IF k = 1 THEN {} ELSE Ids(messages[k - 1].blocks, "call")
  <1>1. /\ n \in Nat /\ DOMAIN messages = 1 .. n
        /\ \A i \in 1 .. n : messages[i] \in AnthropicMessage
    BY LenProperties, ElementOfSeq DEF Conversation
  <1>2. k \in Nat /\ k # 0 /\ k \in 1 .. n
    BY <1>1
  <1>3. /\ m.blocks \in Seq(Block) /\ m.role \in {"user", "assistant"}
        /\ m.role = "assistant" => Ids(m.blocks, "result") = {}
        /\ m.role = "user" => Ids(m.blocks, "call") = {}
        /\ Ids(m.blocks, "result") \subseteq prior
    <2>1. m \in AnthropicMessage
      BY <1>1, <1>2
    <2>2. m.blocks \in Seq(Block) /\ m.role \in {"user", "assistant"}
      BY <2>1, OneOf
    <2>3. /\ m.role = "assistant" => Ids(m.blocks, "result") = {}
          /\ m.role = "user" => Ids(m.blocks, "call") = {}
          /\ Ids(m.blocks, "result") \subseteq prior
      BY <1>1, <1>2 DEF Conversation
    <2> QED
      BY <2>2, <2>3
  <1>4. prior # {} => Calling(s, prior)
    <2> SUFFICES ASSUME prior # {}
                 PROVE  Calling(s, prior)
      OBVIOUS
    <2>1. k # 1 /\ prior = Ids(messages[k - 1].blocks, "call")
      OBVIOUS
    <2>2. k - 1 \in 1 .. n /\ k - 1 # 0
      BY <1>1, <1>2, <2>1
    <2>3. /\ messages[k - 1].role \in {"user", "assistant"}
          /\ messages[k - 1].role = "user" => Ids(messages[k - 1].blocks, "call") = {}
      BY <1>1, <2>2, OneOf DEF Conversation
    <2>4. messages[k - 1].role = "assistant"
      BY <2>1, <2>3
    <2> QED
      BY <2>1, <2>2, <2>4 DEF GoneOut
  <1> HIDE DEF prior
  <1>5. /\ s \in Seq(OpenAIMessage) /\ Placed(s)
        /\ ToolIds(s) = AllIds(messages, k - 1, "result")
        /\ CallIds(s) = AllIds(messages, k - 1, "call")
    BY DEF GoneOut
  <1>6. /\ AllIds(messages, k, "result")
             = AllIds(messages, k - 1, "result") \cup Ids(m.blocks, "result")
        /\ AllIds(messages, k, "call")
             = AllIds(messages, k - 1, "call") \cup Ids(m.blocks, "call")
    BY <1>1, <1>2, AllIdsOn
  <1>7. v = s \o (IF m.role = "assistant" THEN AssistantMessages(m.blocks)
                                           ELSE UserMessages(m.blocks))
    BY DEF OutOn, OneToOpenAI
  <1> DEFINE b == m.blocks
  <1>8. GoneOut(v, messages, k) <=>
           /\ v \in Seq(OpenAIMessage)
           /\ ToolIds(v) = AllIds(messages, k, "result")
           /\ CallIds(v) = AllIds(messages, k, "call")
           /\ Placed(v)
           /\ m.role = "assistant" => Calling(v, Ids(b, "call"))
    BY <1>2 DEF GoneOut
  <1> HIDE DEF v, b
  <1>9. ASSUME m.role = "assistant"
        PROVE  GoneOut(v, messages, k)
    <2>1. v = s \o AssistantMessages(b)
      BY <1>7, <1>9 DEF b
    <2>2. b \in Seq(Block) /\ Ids(b, "result") = {}
      BY <1>3, <1>9 DEF b
    <2>3. /\ v \in Seq(OpenAIMessage) /\ Placed(v)
          /\ ToolIds(v) = ToolIds(s)
          /\ CallIds(v) = CallIds(s) \cup Ids(b, "call")
          /\ Calling(v, Ids(b, "call"))
      BY <1>5, <2>1, <2>2, AssistantOn
    <2>4. /\ AllIds(messages, k, "result") = ToolIds(v)
          /\ AllIds(messages, k, "call") = CallIds(v)
      BY <1>5, <1>6, <2>2, <2>3 DEF b
    <2> QED
      BY <1>8, <1>9, <2>3, <2>4
  <1>10. ASSUME m.role # "assistant"
         PROVE  GoneOut(v, messages, k)
    <2>1. v = s \o UserMessages(b)
      BY <1>7, <1>10 DEF b
    <2>2. /\ b \in Seq(Block) /\ Ids(b, "call") = {} /\ Ids(b, "result") \subseteq prior
          /\ Ids(b, "result") # {} => Calling(s, prior)
      BY <1>3, <1>4, <1>10 DEF b
    <2>3. /\ v \in Seq(OpenAIMessage) /\ Placed(v)
          /\ ToolIds(v) = ToolIds(s) \cup Ids(b, "result")
          /\ CallIds(v) = CallIds(s)
      BY <1>5, <2>1, <2>2, UserOn
    <2>4. /\ AllIds(messages, k, "result") = ToolIds(v)
          /\ AllIds(messages, k, "call") = CallIds(v)
      BY <1>5, <1>6, <2>2, <2>3 DEF b
    <2> QED
      BY <1>8, <1>10, <2>3, <2>4
  <1> QED
    BY <1>9, <1>10 DEF v

\* A whole conversation goes out.
LEMMA ConversationGoesOut ==
  ASSUME NEW system, NEW messages, Conversation(messages)
  PROVE  GoneOut(ToOpenAI(system, messages), messages, Len(messages))
  <1> DEFINE n == Len(messages)
  <1>1. messages \in Seq(AnthropicMessage)
    BY DEF Conversation
  <1>2. n \in Nat
    BY <1>1, LenProperties
  <1>3. PICK R : /\ R[0] = First(system)
                 /\ \A k \in 1 .. n : R[k] = OutOn(R[k - 1], messages[k])
                 /\ ToOpenAI(system, messages) = R[n]
    BY <1>1, OutSteps
  <1>4. ASSUME NEW k \in 1 .. n, GoneOut(R[k - 1], messages, k - 1)
        PROVE  GoneOut(R[k], messages, k)
    <2>1. GoneOut(OutOn(R[k - 1], messages[k]), messages, k)
      BY <1>4, GoneOutOn
    <2> QED
      BY <1>3, <2>1
  <1> HIDE DEF n
  <1> DEFINE P == {k \in 0 .. n : GoneOut(R[k], messages, k)}
  <1>5. 0 \in P
    <2> DEFINE s == First(system)
    <2>1. s \in Seq(OpenAIMessage) /\ \A i \in 1 .. Len(s) : s[i].role = "system"
      <3>1. [role |-> "system"] \in OpenAIMessage
        BY DEF OpenAIMessage
      <3> QED
        BY <3>1 DEF First
    <2> HIDE DEF s
    <2>2. DOMAIN s = 1 .. Len(s)
      BY <2>1, LenProperties
    <2>3. OfRole(s, "tool") = {} /\ OfRole(s, "assistant") = {} /\ Placed(s)
      BY <2>1, <2>2 DEF OfRole, ToSet, Placed
    <2>4. ToolIds(s) = {} /\ CallIds(s) = {}
      BY <2>3 DEF ToolIds, CallIds
    <2>5. \A kind : AllIds(messages, 0, kind) = {}
      <3>1. 1 .. 0 = {}
        OBVIOUS
      <3> QED
        BY <3>1 DEF AllIds
    <2>6. GoneOut(s, messages, 0)
      BY <2>1, <2>3, <2>4, <2>5 DEF GoneOut
    <2>7. R[0] = s /\ 0 \in 0 .. n
      BY <1>2, <1>3 DEF s
    <2> QED
      BY <2>6, <2>7
  <1>6. ASSUME NEW k \in 1 .. n, k - 1 \in P
        PROVE  k \in P
    <2>1. k \in 0 .. n
      BY <1>2
    <2>2. GoneOut(R[k - 1], messages, k - 1)
      BY <1>6
    <2> QED
      BY <1>4, <2>1, <2>2
  <1>7. \A k \in 0 .. n : k \in P
    <2> HIDE DEF P
    <2> QED
      BY <1>2, <1>5, <1>6, StepByStep
  <1>8. n \in P
    <2> HIDE DEF P
    <2> QED
      BY <1>2, <1>7
  <1>9. GoneOut(R[n], messages, n)
    BY <1>8
  <1> QED
    BY <1>3, <1>9 DEF n

\* What is sent is the client's conversation, converted.
SentInv ==
    (phase = "send" /\ Translated) => sent = ToOpenAI(SystemLeft, req.messages)

\* It stays so while the request is sent again.
LEMMA SentStep == SentInv /\ [Next]_vars => SentInv'
  <1> SUFFICES ASSUME SentInv, [Next]_vars
               PROVE  SentInv'
    OBVIOUS
  <1> DEFINE Same == UNCHANGED <<req, route, sent>>
  <1>1. Same /\ (phase' = "send" => phase = "send") => SentInv'
    BY DEF SentInv, Translated, Provider, SystemLeft
  <1>2. CASE Middleware
    BY <1>2 DEF Middleware, Refuse, SentInv
  <1>3. CASE Parse
    BY <1>3 DEF Parse, Refuse, SentInv
  <1>4. CASE Lane
    <2>1. CASE WrongEndpoint /\ Refuse(400)
      BY <2>1 DEF Refuse, SentInv
    <2>2. CASE sent' = Outgoing /\ UNCHANGED <<req, route>>
      <3>1. Translated' = Translated /\ SystemLeft' = SystemLeft
        BY <2>2 DEF Translated, Provider, SystemLeft
      <3> QED
        BY <2>2, <3>1 DEF Outgoing, SentInv
    <2> QED
      BY <1>4, <2>1, <2>2 DEF Lane
  <1>5. CASE SendFails
    <2>1. phase = "send" /\ Same
      BY <1>5 DEF SendFails
    <2> QED
      BY <1>1, <2>1
  <1>6. CASE SendAnswered
    <2>1. phase = "send" /\ Same
      BY <1>6 DEF SendAnswered
    <2> QED
      BY <1>1, <2>1
  <1>7. CASE ReadFails \/ ReadDone
    BY <1>7 DEF ReadFails, ReadDone, BadGateway, SentInv
  <1>8. CASE (\E n \in Pieces \cup {Huge} : RelayPiece(n)) \/ (\E c \in Chunks : RelayChunk(c))
    BY <1>1, <1>8 DEF RelayPiece, RelayChunk, handler
  <1>9. CASE Drained \/ Interrupted \/ Unstarted \/ BodyBroken
    BY <1>1, <1>9 DEF Drained, Interrupted, Unstarted, BodyBroken, handler
  <1>10. CASE CloseUpstream \/ WriteEntry
    BY <1>1, <1>10 DEF CloseUpstream, WriteEntry, handler
  <1>11. CASE UNCHANGED vars \/ ClientGoesOn
    BY <1>1, <1>11 DEF ClientGoesOn, vars, handler
  <1> QED
    BY <1>2, <1>3, <1>4, <1>5, <1>6, <1>7, <1>8, <1>9, <1>10, <1>11 DEF Next, Handler, Upstream, Client

\* Whatever conversation a client has, as the Anthropic API has it, goes out on
\* the OpenAI wire with every result right behind the message that called it,
\* and with all the calls and results it came with (_user_message_to_openai,
\* _assistant_message_to_openai).
THEOREM ResultsFollowCalls == Spec => []AnswersFollowCalls
  <1>1. Init => SentInv
    BY DEF Init, SentInv
  <1>2. SentInv => AnswersFollowCalls
    <2> SUFFICES ASSUME sent = ToOpenAI(SystemLeft, req.messages), Conversation(req.messages)
                 PROVE  /\ Flat("result") = ToolIds(sent) /\ Flat("call") = CallIds(sent)
                        /\ Placed(sent)
      BY DEF SentInv, AnswersFollowCalls, ToolIds, CallIds
    <2> DEFINE s == req.messages
    <2>1. GoneOut(sent, s, Len(s))
      BY ConversationGoesOut
    <2>2. DOMAIN s = 1 .. Len(s)
      BY LenProperties DEF Conversation
    <2>3. \A kind : Flat(kind) = AllIds(s, Len(s), kind)
      BY <2>2 DEF Flat, AllIds, ToSet
    <2> QED
      BY <2>1, <2>3 DEF GoneOut
  <1> QED
    BY <1>1, <1>2, SentStep, PTL DEF Spec
=============================================================================

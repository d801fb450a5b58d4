---------------------------- MODULE ProcessProofs ----------------------------
(***************************************************************************)
(* Machine-checked facts about what a process has one of.                  *)
(*                                                                         *)
(* AsyncRuntime, the server thread: for any number of threads that call    *)
(* start and stop, any bound on the generations and any mishaps, until two *)
(* starts meet where the code does not keep them apart.                    *)
(*                                                                         *)
(* InstanceOwner, the process itself: for any number of runs, any          *)
(* assignment of pids to them and any set of hazards.                      *)
(***************************************************************************)
EXTENDS AsyncRuntime, InstanceOwner, FiniteSetTheorems, TLAPS

Busy(c) == call[c] # "idle"

\* start is the only one to claim, and no two starts have met.
StartInv ==
    /\ \A c \in Callers :
          call[c] \in {"claim", "publish"} => mine[c].op = "start"
    /\ \A c, d \in Callers : InSection(c) /\ InSection(d) => c = d

\* The thread that lives is the one the object knows, with its stop event.
LiveInv == \A g \in Gens : Alive(g) => g = gen /\ thread = g /\ stopEvent = g

\* What a call knows of the thread that lives, if the call is a start that no
\* other start has met, or if it has met no other call at all.
CallInv(c) ==
    /\ call[c] = "signal" =>
          \A g \in Gens : Alive(g) => mine[c].thr = g /\ mine[c].ev = g
    /\ call[c] = "join" =>
          \A g \in Gens : Alive(g) => mine[c].thr = g /\ isSet[g]
    /\ call[c] = "post" =>
          \A g \in Gens : Alive(g) => mine[c].alive /\ isSet[g]
    /\ call[c] \in {"claim", "publish"} => \A g \in Gens : ~Alive(g)
    /\ call[c] = "publish" => mine[c].new = gen /\ gen # 0 /\ stopEvent = gen

\* A server nobody has told to stop is starting, or running once it serves.
Reported ==
    gen # 0 /\ ~isSet[gen] =>
        /\ work[gen] \in {"begin", "build", "check", "mark"} => state = "STARTING"
        /\ work[gen] = "serve" => state = "RUNNING"

AloneInv ==
    alone =>
        /\ \A c, d \in Callers : Busy(c) /\ Busy(d) => c = d
        /\ state = "STOPPED" => \A g \in Gens : ~Alive(g)
        /\ \A c \in Callers : call[c] = "publish" => state = "STARTING"
        /\ (\A c \in Callers : Busy(c) => call[c] = "read" /\ mine[c].op = "stop")
           => Reported

IInv ==
    /\ TypeOK /\ StartInv /\ LiveInv /\ AloneInv
    /\ \A c \in Callers : InSection(c) \/ alone => CallInv(c)

-----------------------------------------------------------------------------
(* Types                                                                   *)

\* A call that returns forgets what it read, and nothing else changes.
LEMMA ReturnFacts ==
  ASSUME TypeOK, NEW c \in Callers, NEW r \in {"start", "refused", "stop", "late"},
         Return(c, r)
  PROVE  /\ call' \in [Callers -> Calls] /\ mine' \in [Callers -> Locals]
         /\ call'[c] = "idle"
         /\ \A d \in Callers \ {c} : call'[d] = call[d] /\ mine'[d] = mine[d]
  <1>1. NoGen \in 0 .. MaxGen
    BY RuntimeAssumption DEF NoGen, RuntimeAssumption
  <1>2. mine' = [mine EXCEPT ![c] = [@ EXCEPT !.last = r, !.thr = NoGen,
                    !.fn = NoGen, !.ev = NoGen, !.new = NoGen, !.alive = FALSE]]
    BY DEF Return, TypeOK, Locals
  <1>3. mine[c] \in Locals
    BY DEF TypeOK
  <1>4. [mine[c] EXCEPT !.last = r, !.thr = NoGen, !.fn = NoGen, !.ev = NoGen,
                        !.new = NoGen, !.alive = FALSE] \in Locals
    BY <1>1, <1>3 DEF Locals
  <1>5. mine' \in [Callers -> Locals]
    BY <1>2, <1>4 DEF TypeOK
  <1> QED
    BY <1>2, <1>5 DEF TypeOK, Return, Goto, Calls

\* A call that moves on moves alone.
LEMMA GotoFacts ==
  ASSUME TypeOK, NEW c \in Callers, NEW s \in Calls, Goto(c, s)
  PROVE  /\ call' \in [Callers -> Calls]
         /\ call'[c] = s
         /\ \A d \in Callers \ {c} : call'[d] = call[d]
  BY DEF TypeOK, Goto

\* A thread that moves on moves alone.
LEMMA AdvanceFacts ==
  ASSUME TypeOK, NEW g \in Gens, NEW s \in Work, Advance(g, s)
  PROVE  /\ work' \in [Gens -> Work]
         /\ work'[g] = s
         /\ \A h \in Gens \ {g} : work'[h] = work[h]
  BY DEF TypeOK, Advance

\* Every step of a call keeps the variables in their types.
LEMMA CallTypes ==
  ASSUME TypeOK, NEW c \in Callers,
         StartCall(c) \/ StopCall(c) \/ Calling(c)
  PROVE  TypeOK'
  <1> USE RuntimeAssumption DEF RuntimeAssumption
  <1>1. CASE StartCall(c)
    <2>1. call' \in [Callers -> Calls] /\ state' \in States
      BY <1>1 DEF StartCall, Goto, Calls, States, TypeOK
    <2>2. mine' \in [Callers -> Locals]
      BY <1>1 DEF StartCall, TypeOK, Locals
    <2>3. alone' \in BOOLEAN /\ apart' \in BOOLEAN
      BY <1>1 DEF StartCall, TypeOK, Enter, EnterSection
    <2> QED
      BY <1>1, <2>1, <2>2, <2>3 DEF StartCall, TypeOK, published, history
  <1>2. CASE StopCall(c)
    <2>1. call' \in [Callers -> Calls]
      BY <1>2, GotoFacts DEF StopCall, Calls
    <2>2. mine' \in [Callers -> Locals]
      BY <1>2 DEF StopCall, TypeOK, Locals
    <2>3. alone' \in BOOLEAN /\ apart' \in BOOLEAN
      BY <1>2 DEF StopCall, TypeOK, Enter
    <2> QED
      BY <1>2, <2>1, <2>2, <2>3 DEF StopCall, TypeOK, published, history
  <1>3. CASE StopRead(c)
    <2>1. call' \in [Callers -> Calls] /\ state' \in States
      BY <1>3, GotoFacts DEF StopRead, Calls, States, TypeOK
    <2>2. mine[c] \in Locals /\ {thread, stopFn, stopEvent} \subseteq 0 .. MaxGen
      BY DEF TypeOK
    <2>3. [mine[c] EXCEPT !.thr = thread, !.fn = stopFn, !.ev = stopEvent]
             \in Locals
      BY <2>2 DEF Locals
    <2>4. mine' = [mine EXCEPT ![c] =
                      [@ EXCEPT !.thr = thread, !.fn = stopFn, !.ev = stopEvent]]
      BY <1>3, <2>2 DEF StopRead, TypeOK, Locals
    <2>5. mine' \in [Callers -> Locals]
      BY <2>3, <2>4 DEF TypeOK
    <2>6. alone' \in BOOLEAN /\ apart' \in BOOLEAN
      BY <1>3 DEF StopRead, EnterSection, TypeOK
    <2> QED
      BY <1>3, <2>1, <2>5, <2>6 DEF StopRead, TypeOK, published
  <1>4. CASE StopSignal(c)
    <2>1. call' \in [Callers -> Calls]
      BY <1>4, GotoFacts DEF StopSignal, Calls
    <2> QED
      BY <1>4, <2>1 DEF StopSignal, TypeOK, published, history
  <1>5. CASE StopJoin(c)
    <2>1. call' \in [Callers -> Calls]
      BY <1>5, GotoFacts DEF StopJoin, Calls
    <2>2. Alive(mine[c].thr) \in BOOLEAN
      BY DEF Alive
    <2>3. mine' \in [Callers -> Locals]
      BY <1>5, <2>2 DEF StopJoin, TypeOK, Locals
    <2> QED
      BY <1>5, <2>1, <2>3 DEF StopJoin, TypeOK, published, history
  <1>6. CASE StopPost(c)
    <2>1. state' \in States
      BY <1>6 DEF StopPost, AfterStop, States, TypeOK
    <2>2. call' \in [Callers -> Calls] /\ mine' \in [Callers -> Locals]
      <3>1. ASSUME Goto(c, "claim"), UNCHANGED mine
            PROVE  call' \in [Callers -> Calls] /\ mine' \in [Callers -> Locals]
        BY <3>1, GotoFacts DEF Calls, TypeOK
      <3> QED
        BY <1>6, <3>1, ReturnFacts DEF StopPost
    <2> QED
      BY <1>6, <2>1, <2>2 DEF StopPost, TypeOK, published, history
  <1>7. CASE Claim(c)
    <2>1. CASE state \in {"STOPPED", "FAILED"}
      <3>1. gen + 1 \in 0 .. MaxGen
        BY <1>7 DEF Claim, MayClaim, TypeOK
      <3>2. call' \in [Callers -> Calls]
        BY <1>7, <2>1, GotoFacts DEF Claim, Calls
      <3>3. [mine[c] EXCEPT !.new = gen + 1] \in Locals
        BY <3>1 DEF TypeOK, Locals
      <3>4. mine' \in [Callers -> Locals]
        BY <1>7, <2>1, <3>3 DEF Claim, TypeOK
      <3> QED
        BY <1>7, <2>1, <3>1, <3>2, <3>4 DEF Claim, TypeOK, States, history
    <2>2. CASE state \notin {"STOPPED", "FAILED"}
      BY <1>7, <2>2, ReturnFacts DEF Claim, TypeOK, published, history
    <2> QED
      BY <2>1, <2>2
  <1>8. CASE Publish(c)
    <2>1. mine[c].new \in 0 .. MaxGen
      BY DEF TypeOK, Locals
    <2>2. work' \in [Gens -> Work]
      BY <1>8 DEF Publish, TypeOK, Work
    <2> QED
      BY <1>8, <2>1, <2>2, ReturnFacts DEF Publish, TypeOK, history
  <1> QED
    BY <1>1, <1>2, <1>3, <1>4, <1>5, <1>6, <1>7, <1>8 DEF Calling

\* So does every step of a thread.
LEMMA WorkTypes ==
  ASSUME TypeOK, NEW g \in Gens, Working(g)
  PROVE  TypeOK'
  <1> USE RuntimeAssumption DEF RuntimeAssumption
  <1>1. \E s \in Work : Advance(g, s)
    BY DEF Working, Begin, Build, Check, Mark, Serve, Fail, End, Work
  <1>2. work' \in [Gens -> Work]
    BY <1>1, AdvanceFacts
  <1>3. g \in 0 .. MaxGen
    BY DEF Gens
  <1> QED
    BY <1>2, <1>3 DEF Working, Begin, Build, Check, Mark, Serve, Fail, End,
                      TypeOK, published, history, NoGen, States

-----------------------------------------------------------------------------
(* The worker thread                                                       *)

\* Until its last step a thread stays alive; that step clears what is published
\* of it, and it can clear nobody else's.
LEMMA WorkStep ==
  ASSUME IInv, NEW g \in Gens, Working(g)
  PROVE  IInv'
  <1> USE RuntimeAssumption DEF RuntimeAssumption
  <1>1. TypeOK /\ StartInv /\ LiveInv /\ AloneInv
    BY DEF IInv
  <1>2. TypeOK'
    BY <1>1, WorkTypes
  <1>3. UNCHANGED <<gen, isSet, call, mine, alone>>
    BY DEF Working, Begin, Build, Check, Mark, Serve, Fail, End, published, history
  <1>4. Alive(g) /\ g = gen /\ thread = g /\ stopEvent = g
    BY <1>1 DEF Working, Begin, Build, Check, Mark, Serve, Fail, End, Alive,
                Gens, NoGen, LiveInv
  <1>5. \A h \in Gens \ {g} : ~Alive(h)
    BY <1>1, <1>4 DEF LiveInv
  <1>6. \E s \in Work \ {"none"} : Advance(g, s)
    BY DEF Working, Begin, Build, Check, Mark, Serve, Fail, End, Work
  <1>7. \A h \in Gens : Alive(h)' => h = g
    BY <1>1, <1>5, <1>6, AdvanceFacts DEF Alive
  <1>8. \A h \in Gens : Alive(h)' => Alive(h)
    BY <1>4, <1>7
  <1>9. StartInv'
    BY <1>1, <1>3 DEF StartInv, InSection
  <1>10. ~Alive(g)' \/ UNCHANGED <<thread, stopEvent>>
    <2>1. CASE End(g)
      BY <1>1, <2>1, AdvanceFacts DEF End, Alive, Work
    <2> QED
      BY <2>1 DEF Working, Begin, Build, Check, Mark, Serve, Fail, published, history
  <1>11. LiveInv'
    BY <1>3, <1>4, <1>7, <1>10 DEF LiveInv
  <1>12. ASSUME NEW c \in Callers, (InSection(c) \/ alone)'
         PROVE  CallInv(c)'
    <2>1. CallInv(c)
      BY <1>3, <1>12 DEF IInv, InSection
    <2>2. call[c] # "publish"
      BY <1>4, <2>1 DEF CallInv
    <2> QED
      BY <1>3, <1>8, <2>1, <2>2 DEF CallInv
  <1>13. AloneInv'
    <2> SUFFICES ASSUME alone
                 PROVE  /\ state' = "STOPPED" => \A h \in Gens : ~Alive(h)'
                        /\ \A c \in Callers : call[c] # "publish"
                        /\ (\A c \in Callers :
                               Busy(c) => call[c] = "read" /\ mine[c].op = "stop")
                           => Reported'
      BY <1>1, <1>3 DEF AloneInv, Busy
    <2>1. \A c \in Callers : call[c] # "publish"
      BY <1>4 DEF IInv, CallInv
    <2>2. state # "STOPPED"
      BY <1>1, <1>4 DEF AloneInv
    <2>3. state' = "STOPPED" => \A h \in Gens : ~Alive(h)'
      <3>1. CASE End(g)
        BY <1>1, <1>5, <1>7, <3>1, AdvanceFacts DEF End, Alive, Work
      <3> QED
        BY <2>2, <3>1 DEF Working, Begin, Build, Check, Mark, Serve, Fail
    <2>4. ASSUME Reported
          PROVE  Reported'
      BY <1>1, <1>3, <1>4, <2>4
         DEF Reported, Working, Begin, Build, Check, Mark, Serve, Fail, End,
             Advance, TypeOK
    <2> QED
      BY <1>1, <2>1, <2>3, <2>4 DEF AloneInv
  <1> QED
    BY <1>2, <1>9, <1>11, <1>12, <1>13 DEF IInv

-----------------------------------------------------------------------------
(* The calls                                                               *)

\* A step of a call that leaves the generations alone disturbs no other call;
\* what it has to show is its own.
LEMMA QuietCall ==
  ASSUME IInv, NEW c \in Callers, TypeOK',
         UNCHANGED <<gen, thread, stopEvent, work>>,
         \A g \in Gens : isSet[g] => isSet'[g],
         \A d \in Callers \ {c} : call'[d] = call[d] /\ mine'[d] = mine[d],
         alone' => alone,
         InSection(c)' => InSection(c) \/ \A d \in Callers \ {c} : ~InSection(d),
         call'[c] \in {"claim", "publish"} => mine'[c].op = "start",
         (InSection(c) \/ alone)' => CallInv(c)',
         AloneInv'
  PROVE  IInv'
  <1>1. StartInv'
    BY DEF IInv, StartInv, InSection
  <1>2. LiveInv'
    BY DEF IInv, LiveInv, Alive
  <1>3. ASSUME NEW d \in Callers, (InSection(d) \/ alone)'
        PROVE  CallInv(d)'
    <2>1. CASE d = c
      BY <1>3, <2>1
    <2>2. CASE d # c
      <3>1. InSection(d) \/ alone
        BY <1>3, <2>2 DEF InSection
      <3>2. CallInv(d)
        BY <3>1 DEF IInv
      <3> QED
        BY <2>2, <3>2 DEF CallInv, Alive
    <2> QED
      BY <2>1, <2>2
  <1> QED
    BY <1>1, <1>2, <1>3 DEF IInv

\* start finds no thread alive or goes on as a stop does.
LEMMA StartCallKeeps ==
  ASSUME IInv, apart', NEW c \in Callers, StartCall(c)
  PROVE  IInv'
  <1> USE RuntimeAssumption DEF RuntimeAssumption
  <1>1. TypeOK /\ StartInv /\ LiveInv /\ AloneInv
    BY DEF IInv
  <1>2. TypeOK'
    BY <1>1, CallTypes
  <1>3. InSection(c)' => \A d \in Callers \ {c} : ~InSection(d)
    <2>1. CASE Goto(c, "claim") /\ EnterSection(c)
      BY <2>1 DEF EnterSection
    <2>2. CASE Goto(c, "read")
      BY <1>1, <2>2, GotoFacts DEF Calls, InSection
    <2> QED
      BY <2>1, <2>2 DEF StartCall
  <1>4. /\ call'[c] \in {"claim", "read"} /\ mine'[c].op = "start"
        /\ \A d \in Callers \ {c} : call'[d] = call[d] /\ mine'[d] = mine[d]
    BY <1>1 DEF StartCall, Goto, TypeOK, Locals
  <1>5. CallInv(c)'
    <2>1. call'[c] = "claim" => ~Alive(thread)
      BY <1>1 DEF StartCall, Goto, TypeOK
    <2>2. call'[c] = "claim" => \A g \in Gens : ~Alive(g)'
      BY <1>1, <2>1 DEF StartCall, LiveInv, Alive, published, history
    <2> QED
      BY <1>4, <2>2 DEF CallInv
  <1>6. AloneInv'
    <2> SUFFICES ASSUME alone'
                 PROVE  AloneInv'
      BY DEF AloneInv
    <2>1. alone /\ \A d \in Callers : call[d] = "idle"
      BY DEF StartCall, Enter
    <2>2. state' = "STOPPED" => \A g \in Gens : ~Alive(g)'
      BY <1>1, <2>1 DEF StartCall, AloneInv, Alive, published, history
    <2> QED
      BY <1>4, <2>1, <2>2 DEF AloneInv, Busy
  <1>7. UNCHANGED <<gen, thread, stopEvent, work, isSet>> /\ (alone' => alone)
    BY DEF StartCall, published, history, Enter
  <1> QED
    BY <1>2, <1>3, <1>4, <1>5, <1>6, <1>7, QuietCall

\* stop has learned nothing yet.
LEMMA StopCallKeeps ==
  ASSUME IInv, apart', NEW c \in Callers, StopCall(c)
  PROVE  IInv'
  <1>1. TypeOK /\ StartInv /\ LiveInv /\ AloneInv
    BY DEF IInv
  <1>2. TypeOK'
    BY <1>1, CallTypes
  <1>3. /\ call[c] = "idle" /\ call'[c] = "read" /\ mine'[c].op = "stop"
        /\ \A d \in Callers \ {c} : call'[d] = call[d] /\ mine'[d] = mine[d]
    BY <1>1 DEF StopCall, Goto, TypeOK, Locals
  <1>4. UNCHANGED <<state, gen, thread, stopEvent, work, isSet>> /\ (alone' => alone)
    BY DEF StopCall, published, history, Enter
  <1>5. CallInv(c)'
    BY <1>3 DEF CallInv
  <1>6. AloneInv'
    <2> SUFFICES ASSUME alone'
                 PROVE  AloneInv'
      BY DEF AloneInv
    <2>1. alone /\ \A d \in Callers : call[d] = "idle"
      BY DEF StopCall, Enter
    <2>2. Reported'
      BY <1>1, <1>4, <2>1 DEF AloneInv, Busy, Reported
    <2> QED
      BY <1>1, <1>3, <1>4, <2>1, <2>2 DEF AloneInv, Busy, Alive
  <1>7. ~InSection(c)'
    BY <1>3 DEF InSection
  <1> QED
    BY <1>2, <1>3, <1>4, <1>5, <1>6, <1>7, QuietCall

\* What stop reads is the thread that lives; what it signals is its event; what
\* is_alive says after the join is of that thread.
LEMMA StopKeeps ==
  ASSUME IInv, apart', NEW c \in Callers,
         StopRead(c) \/ StopSignal(c) \/ StopJoin(c)
  PROVE  IInv'
  <1>1. TypeOK /\ StartInv /\ LiveInv /\ AloneInv
    BY DEF IInv
  <1>2. TypeOK'
    BY <1>1, CallTypes DEF Calling
  <1>3. /\ call[c] \in {"read", "signal", "join"}
        /\ call'[c] \in {"signal", "join", "post"} /\ mine'[c].op = mine[c].op
        /\ \A d \in Callers \ {c} : call'[d] = call[d] /\ mine'[d] = mine[d]
    <2>1. CASE StopRead(c)
      BY <1>1, <2>1 DEF StopRead, Goto, TypeOK, Locals
    <2>2. CASE StopSignal(c)
      BY <1>1, <2>2 DEF StopSignal, Goto, TypeOK
    <2>3. CASE StopJoin(c)
      BY <1>1, <2>3 DEF StopJoin, Goto, TypeOK, Locals
    <2> QED
      BY <2>1, <2>2, <2>3
  <1>4. /\ UNCHANGED <<gen, thread, stopEvent, work, alone>>
        /\ \A g \in Gens : isSet[g] => isSet'[g]
    BY DEF StopRead, StopSignal, StopJoin, published, history
  <1>5. ASSUME (InSection(c) \/ alone)'
        PROVE  CallInv(c)'
    <2>1. call[c] \in {"signal", "join"} => CallInv(c)
      BY <1>3, <1>4, <1>5 DEF IInv, InSection
    <2>2. CASE StopRead(c)
      <3>1. call'[c] = "signal" /\ mine'[c].thr = thread /\ mine'[c].ev = stopEvent
        BY <1>1, <2>2 DEF StopRead, Goto, TypeOK, Locals
      <3> QED
        BY <1>1, <1>4, <3>1 DEF CallInv, LiveInv, Alive
    <2>3. CASE StopSignal(c)
      <3>1. call'[c] = "join" /\ mine' = mine
        BY <1>1, <2>3 DEF StopSignal, Goto, TypeOK
      <3>2. call[c] = "signal" /\ \A g \in Gens : mine[c].ev = g => isSet'[g]
        BY <2>3 DEF StopSignal
      <3> QED
        BY <1>4, <2>1, <3>1, <3>2 DEF CallInv, Alive
    <2>4. CASE StopJoin(c)
      <3>1. call[c] = "join" /\ call'[c] = "post" /\ isSet' = isSet
            /\ mine'[c].alive = Alive(mine[c].thr)
        BY <1>1, <2>4 DEF StopJoin, Goto, TypeOK, Locals
      <3> QED
        BY <1>4, <2>1, <3>1 DEF CallInv, Alive
    <2> QED
      BY <2>2, <2>3, <2>4
  <1>6. AloneInv'
    <2> SUFFICES ASSUME alone
                 PROVE  AloneInv'
      BY <1>4 DEF AloneInv
    <2>1. \A d \in Callers : d # c => call[d] = "idle"
      BY <1>1, <1>3 DEF AloneInv, Busy
    <2>2. state' = "STOPPED" => state = "STOPPED"
      BY DEF StopRead, StopSignal, StopJoin
    <2> QED
      BY <1>1, <1>3, <1>4, <2>1, <2>2 DEF AloneInv, Busy, Alive
  <1>7. InSection(c)' => InSection(c) \/ \A d \in Callers \ {c} : ~InSection(d)
    <2>1. CASE StopRead(c)
      BY <1>3, <2>1 DEF StopRead, InSection, EnterSection
    <2>2. CASE ~StopRead(c)
      BY <1>3, <2>2 DEF StopSignal, StopJoin, InSection
    <2> QED
      BY <2>1, <2>2
  <1> QED
    BY <1>2, <1>3, <1>4, <1>5, <1>6, <1>7, QuietCall

\* A stop that ends says the truth of the thread it has joined.
LEMMA PostKeeps ==
  ASSUME IInv, apart', NEW c \in Callers, StopPost(c)
  PROVE  IInv'
  <1> USE RuntimeAssumption DEF RuntimeAssumption
  <1>1. TypeOK /\ StartInv /\ LiveInv /\ AloneInv
    BY DEF IInv
  <1>2. TypeOK'
    BY <1>1, CallTypes DEF Calling
  <1>3. /\ call[c] = "post" /\ call'[c] \in {"idle", "claim"}
        /\ call'[c] = "claim" => /\ ~mine[c].alive /\ mine[c].op = "start"
                                  /\ mine' = mine
        /\ \A d \in Callers \ {c} : call'[d] = call[d] /\ mine'[d] = mine[d]
    <2>1. CASE Goto(c, "claim")
      <3>1. call'[c] = "claim" /\ \A d \in Callers \ {c} : call'[d] = call[d]
        BY <1>1, <2>1, GotoFacts DEF Calls
      <3>2. ~Goto(c, "idle")
        BY <1>1, <3>1 DEF Goto, TypeOK
      <3>3. mine[c].op \in {"start", "stop"}
        BY <1>1 DEF TypeOK, Locals
      <3> QED
        BY <3>1, <3>2, <3>3 DEF StopPost, Return
    <2>2. CASE ~Goto(c, "claim")
      <3>1. \E r \in {"start", "refused", "stop", "late"} : Return(c, r)
        BY <2>2 DEF StopPost
      <3> QED
        BY <1>1, <3>1, ReturnFacts DEF StopPost
    <2> QED
      BY <2>1, <2>2
  <1>4. UNCHANGED <<gen, thread, stopEvent, work, isSet, alone>>
    BY DEF StopPost, published, history
  <1>5. ASSUME (InSection(c) \/ alone)'
        PROVE  CallInv(c)'
    <2> SUFFICES ASSUME call'[c] = "claim"
                 PROVE  \A g \in Gens : ~Alive(g)'
      BY <1>3 DEF CallInv
    <2>1. CallInv(c)
      BY <1>3, <1>4 DEF IInv, InSection
    <2> QED
      BY <1>3, <1>4, <2>1 DEF CallInv, Alive
  <1>6. AloneInv'
    <2> SUFFICES ASSUME alone
                 PROVE  AloneInv'
      BY <1>4 DEF AloneInv
    <2>1. \A d \in Callers : d # c => call[d] = "idle"
      BY <1>1, <1>3 DEF AloneInv, Busy
    <2>2. \A g \in Gens : Alive(g) => mine[c].alive /\ isSet[g]
      BY <1>3 DEF IInv, CallInv
    <2>3. state' = "STOPPED" => \A g \in Gens : ~Alive(g)
      BY <1>1, <2>2 DEF StopPost, AfterStop, AloneInv
    <2>4. gen # 0 => gen \in Gens
      BY <1>1 DEF TypeOK, Gens
    <2>5. Reported'
      BY <1>4, <2>2, <2>4 DEF Reported, Alive, NoGen
    <2> QED
      BY <1>3, <1>4, <2>1, <2>3, <2>5 DEF AloneInv, Busy, Alive
  <1>7. /\ InSection(c)' => InSection(c)
        /\ call'[c] \in {"claim", "publish"} => mine'[c].op = "start"
    BY <1>3 DEF InSection
  <1> QED
    BY <1>2, <1>3, <1>4, <1>5, <1>6, <1>7, QuietCall

\* The next generation is claimed when no thread is left.
LEMMA ClaimKeeps ==
  ASSUME IInv, apart', NEW c \in Callers, Claim(c)
  PROVE  IInv'
  <1> USE RuntimeAssumption DEF RuntimeAssumption
  <1>1. TypeOK /\ StartInv /\ LiveInv /\ AloneInv
    BY DEF IInv
  <1>2. TypeOK'
    BY <1>1, CallTypes DEF Calling
  <1>3. call[c] = "claim" /\ InSection(c) /\ CallInv(c)
    BY <1>1 DEF Claim, IInv, StartInv, InSection
  <1>4. \A g \in Gens : ~Alive(g)
    BY <1>3 DEF CallInv
  <1>5. UNCHANGED <<work, isSet, alone>>
    BY DEF Claim, history
  <1>6. alone => \A d \in Callers : d # c => call[d] = "idle"
    BY <1>1, <1>3 DEF AloneInv, Busy
  <1>7. CASE state \in {"STOPPED", "FAILED"}
    <2>1. /\ gen' = gen + 1 /\ stopEvent' = gen' /\ thread' = thread
          /\ state' = "STARTING"
          /\ call'[c] = "publish" /\ mine'[c].new = gen'
          /\ mine'[c].op = mine[c].op
          /\ \A d \in Callers \ {c} : call'[d] = call[d] /\ mine'[d] = mine[d]
      BY <1>1, <1>7 DEF Claim, Goto, TypeOK, Locals
    <2>2. StartInv'
      <3>1. mine'[c].op = "start"
        BY <1>3, <2>1 DEF InSection
      <3>2. \A d \in Callers \ {c} : ~InSection(d)'
        BY <1>1, <1>3, <2>1 DEF StartInv, InSection
      <3> QED
        BY <1>1, <2>1, <3>1, <3>2 DEF StartInv
    <2>3. LiveInv'
      BY <1>4, <1>5 DEF LiveInv, Alive
    <2>4. gen' # 0
      BY <1>1, <2>1 DEF TypeOK
    <2>5. ASSUME NEW d \in Callers, (InSection(d) \/ alone)'
          PROVE  CallInv(d)'
      <3>1. CASE d = c
        BY <1>4, <1>5, <2>1, <2>4, <3>1 DEF CallInv, Alive
      <3>2. CASE d # c
        <4>1. ~InSection(d)'
          BY <1>1, <1>3, <2>1, <3>2 DEF StartInv, InSection
        <4>2. call'[d] = "idle"
          BY <1>5, <1>6, <2>1, <2>5, <3>2, <4>1
        <4> QED
          BY <4>2 DEF CallInv
      <3> QED
        BY <3>1, <3>2
    <2>6. AloneInv'
      BY <1>4, <1>5, <1>6, <2>1 DEF AloneInv, Busy, Alive
    <2> QED
      BY <1>2, <2>2, <2>3, <2>5, <2>6 DEF IInv
  <1>8. CASE state \notin {"STOPPED", "FAILED"}
    <2>1. /\ UNCHANGED <<state, gen, thread, stopEvent>> /\ call'[c] = "idle"
          /\ \A d \in Callers \ {c} : call'[d] = call[d] /\ mine'[d] = mine[d]
      BY <1>1, <1>8, ReturnFacts DEF Claim, published, history
    <2>2. AloneInv'
      <3>1. gen # 0 => gen \in Gens
        BY <1>1 DEF TypeOK, Gens
      <3>2. Reported'
        BY <1>4, <1>5, <2>1, <3>1 DEF Reported, Alive, NoGen
      <3> QED
        BY <1>4, <1>5, <1>6, <2>1, <3>2 DEF AloneInv, Busy, Alive
    <2>3. ~InSection(c)' /\ CallInv(c)'
      BY <2>1 DEF InSection, CallInv
    <2> QED
      BY <1>2, <1>5, <2>1, <2>2, <2>3, QuietCall
  <1> QED
    BY <1>7, <1>8

\* The published thread is the only one.
LEMMA PublishKeeps ==
  ASSUME IInv, apart', NEW c \in Callers, Publish(c)
  PROVE  IInv'
  <1> USE RuntimeAssumption DEF RuntimeAssumption
  <1>1. TypeOK /\ StartInv /\ LiveInv /\ AloneInv
    BY DEF IInv
  <1>2. TypeOK'
    BY <1>1, CallTypes DEF Calling
  <1>3. call[c] = "publish" /\ InSection(c) /\ CallInv(c)
    BY <1>1 DEF Publish, IInv, StartInv, InSection
  <1>4. /\ \A g \in Gens : ~Alive(g)
        /\ mine[c].new = gen /\ gen \in Gens /\ stopEvent = gen
    BY <1>1, <1>3 DEF CallInv, TypeOK, Gens
  <1>5. UNCHANGED <<state, gen, stopEvent, isSet, alone>> /\ thread' = gen
        /\ work' = [work EXCEPT ![gen] = "begin"]
    BY <1>4 DEF Publish, history
  <1>6. \A g \in Gens : Alive(g)' => g = gen
    BY <1>1, <1>4, <1>5 DEF Alive, TypeOK
  <1>7. /\ call'[c] = "idle"
        /\ \A d \in Callers \ {c} : call'[d] = call[d] /\ mine'[d] = mine[d]
    BY <1>1, ReturnFacts DEF Publish
  <1>8. \A d \in Callers : ~InSection(d)'
    BY <1>1, <1>3, <1>7 DEF StartInv, InSection
  <1>9. StartInv'
    BY <1>1, <1>7, <1>8 DEF StartInv
  <1>10. LiveInv'
    BY <1>5, <1>6, <1>4 DEF LiveInv
  <1>11. alone => \A d \in Callers : call'[d] = "idle"
    BY <1>1, <1>3, <1>7 DEF AloneInv, Busy
  <1>12. ASSUME NEW d \in Callers, (InSection(d) \/ alone)'
         PROVE  CallInv(d)'
    BY <1>5, <1>8, <1>11, <1>12 DEF CallInv
  <1>13. AloneInv'
    <2> SUFFICES ASSUME alone
                 PROVE  AloneInv'
      BY <1>5 DEF AloneInv
    <2>1. state = "STARTING"
      BY <1>1, <1>3 DEF AloneInv
    <2>2. Reported'
      BY <1>1, <1>4, <1>5, <2>1 DEF Reported, TypeOK
    <2> QED
      BY <1>5, <1>11, <2>1, <2>2 DEF AloneInv, Busy
  <1> QED
    BY <1>2, <1>9, <1>10, <1>12, <1>13 DEF IInv

-----------------------------------------------------------------------------
(* The invariant and what it says                                          *)

LEMMA InitInv == Init => IInv
  <1> USE RuntimeAssumption DEF RuntimeAssumption
  <1> SUFFICES ASSUME Init
               PROVE  IInv
    OBVIOUS
  <1>1. TypeOK
    BY DEF Init, TypeOK, States, Work, Calls, Locals, NoGen
  <1>2. \A g \in Gens : ~Alive(g)
    BY DEF Init, Alive
  <1>3. \A c \in Callers : call[c] = "idle"
    BY DEF Init
  <1>4. StartInv /\ LiveInv
    BY <1>2, <1>3 DEF StartInv, InSection, LiveInv
  <1>5. AloneInv
    BY <1>2, <1>3 DEF AloneInv, Busy, Reported, Init
  <1>6. \A c \in Callers : CallInv(c)
    BY <1>3 DEF CallInv
  <1> QED
    BY <1>1, <1>4, <1>5, <1>6 DEF IInv

LEMMA InvStep ==
  ASSUME IInv, apart', [Next]_vars
  PROVE  IInv'
  <1>1. ASSUME NEW c \in Callers, StartCall(c) \/ StopCall(c) \/ Calling(c)
        PROVE  IInv'
    BY <1>1, StartCallKeeps, StopCallKeeps, StopKeeps, PostKeeps, ClaimKeeps,
       PublishKeeps DEF Calling
  <1>2. ASSUME NEW g \in Gens, Working(g)
        PROVE  IInv'
    BY <1>2, WorkStep
  <1>3. CASE UNCHANGED vars
    BY <1>3 DEF vars, published, history, IInv, TypeOK, StartInv, InSection, LiveInv,
                Alive, Busy, AloneInv, Reported, CallInv
  <1> QED
    BY <1>1, <1>2, <1>3 DEF Next

\* What holds of every state, and what holds until two starts meet.
SafeInv == TypeOK /\ (apart => IInv)

\* One server at a time, which stop can reach, and while calls do not overlap the
\* state tells the truth about it: whatever threads start and stop, until the first
\* two starts that meet between their reading of the previous thread and the
\* publication of their own.
THEOREM OneServerAtATime == Spec => []OneServer
  <1>1. Init => SafeInv
    BY InitInv DEF SafeInv, IInv
  <1>2. SafeInv /\ [Next]_vars => SafeInv'
    <2> SUFFICES ASSUME SafeInv, [Next]_vars
                 PROVE  SafeInv'
      OBVIOUS
    <2>1. TypeOK'
      <3>1. CASE Next
        BY <3>1, CallTypes, WorkTypes DEF SafeInv, Next
      <3>2. CASE UNCHANGED vars
        BY <3>2 DEF SafeInv, TypeOK, vars, published, history
      <3> QED
        BY <3>1, <3>2
    <2>2. apart' => apart
      BY DEF Next, vars, published, history, StartCall, StopCall, Calling, StopRead,
             StopSignal, StopJoin, StopPost, Claim, Publish, Working, Begin, Build,
             Check, Mark, Serve, Fail, End, EnterSection
    <2> QED
      BY <2>1, <2>2, InvStep DEF SafeInv
  <1>3. SafeInv => OneServer
    <2> SUFFICES ASSUME IInv
                 PROVE  /\ \A g \in Live : g = gen /\ thread = g
                        /\ ReportIsTrue
      BY DEF SafeInv, OneServer
    <2>1. TypeOK /\ LiveInv /\ AloneInv
      BY DEF IInv
    <2>2. alone /\ state = "STOPPED" => Live = {}
      BY <2>1 DEF AloneInv, Live
    <2>3. (/\ alone /\ \A c \in Callers : call[c] = "idle"
           /\ gen # 0 /\ work[gen] = "serve" /\ ~isSet[gen])
          => state = "RUNNING"
      BY <2>1 DEF AloneInv, Busy, Reported
    <2> QED
      BY <2>1, <2>2, <2>3 DEF ReportIsTrue, Live, LiveInv
  <1> QED
    BY <1>1, <1>2, <1>3, PTL DEF Spec

-----------------------------------------------------------------------------
(* The single-instance lock.                                               *)

\* Only an unowned lock has no author.
Authored == lock.by = NoProc => lock = NoLock

\* Whoever holds the services: an owner, until its own file is unlinked.
Holds(p) == stage[p] \in {"owner", "unlink"}

\* What a lone launch knows of the lock at each step of acquire.
StageInv(p) ==
    /\ Holds(p) => lock = Lock(p, "good")
    /\ stage[p] = "write" => lock = Lock(p, "empty")
    /\ stage[p] = "verify" => lock = Lock(p, "good")
    /\ stage[p] = "ps" /\ (\E q \in Procs : Holds(q)) => seen[p] = lock
    /\ stage[p] = "takeover" => \A q \in Procs : ~Holds(q)

\* While no launch has overlapped another and ps has always answered.
LoneInv ==
    met = {} =>
        /\ \A p, q \in Procs :
              stage[p] \in Acquiring /\ stage[q] \in Acquiring => p = q
        /\ \A p \in Procs : StageInv(p)

\* Nobody who was started has left.
NoneLeft == \A p \in Procs : stage[p] \notin {"dead", "unlink"}

\* The lock is as the behaviour found it: nobody alive has written it.
Untouched == lock = NoLock \/ stage[lock.by] = "history"

\* Until somebody leaves, the last process to put its name in the lock is the
\* owner or about to be, and while nobody has, nobody can have been refused.
RaceInv ==
    NoneLeft =>
        /\ ~Untouched => stage[lock.by] \in {"write", "verify", "owner"}
        /\ Untouched => \A p \in Procs :
              /\ stage[p] \in {"unborn", "history", "create", "load", "ps",
                               "takeover"}
              /\ stage[p] = "ps" => seen[p] = lock

OwnerInv == OwnerTypeOK /\ Authored /\ LoneInv /\ RaceInv

-----------------------------------------------------------------------------

\* The lock a process writes, whole or still empty, is a lock.
LEMMA LockType ==
  ASSUME NEW p \in Procs, NEW rec \in Records
  PROVE  Lock(p, rec) \in Locks /\ Lock(p, rec) # NoLock
  BY OwnerAssumption DEF Lock, Locks, NoLock, OwnerAssumption

\* Every step of acquire, run and release keeps the variables in their types.
LEMMA OwnerTypeStep == OwnerTypeOK /\ [OwnerNext]_ownerVars => OwnerTypeOK'
  <1> SUFFICES ASSUME OwnerTypeOK, [OwnerNext]_ownerVars
               PROVE  OwnerTypeOK'
    OBVIOUS
  <1> USE OwnerAssumption DEF OwnerAssumption, OwnerTypeOK
  <1>1. NoLock \in Locks
    BY DEF NoLock, Lock, Locks, Records
  <1>2. ASSUME NEW p \in Procs, NEW rec \in {"blind", "good"}, OwnRecord(p, rec)
        PROVE  lock' \in Locks /\ met' \subseteq Hazards
    BY <1>2, LockType DEF OwnRecord, Records
  <1>3. ASSUME NEW p \in Procs, Start(p)
        PROVE  OwnerTypeOK'
    BY <1>3 DEF Start, Enters, Stages, Acquiring
  <1>4. ASSUME NEW p \in Procs, Create(p)
        PROVE  OwnerTypeOK'
    BY <1>4, LockType DEF Create, Enters, Stages, Acquiring, Records
  <1>5. ASSUME NEW p \in Procs, Write(p)
        PROVE  OwnerTypeOK'
    BY <1>5, <1>2 DEF Write, Enters, Stages
  <1>6. ASSUME NEW p \in Procs, Load(p)
        PROVE  OwnerTypeOK'
    BY <1>6 DEF Load, Enters, Stages, Acquiring
  <1>7. ASSUME NEW p \in Procs, Ps(p)
        PROVE  OwnerTypeOK'
    BY <1>7 DEF Ps, Enters, Stages, Acquiring
  <1>8. ASSUME NEW p \in Procs, Replace(p)
        PROVE  OwnerTypeOK'
    BY <1>8, <1>2 DEF Replace, Enters, Stages, Acquiring
  <1>9. ASSUME NEW p \in Procs, Verify(p)
        PROVE  OwnerTypeOK'
    BY <1>9 DEF Verify, Enters, Stages
  <1>10. ASSUME NEW p \in Procs, Release(p)
         PROVE  OwnerTypeOK'
    BY <1>10 DEF Release, Enters, Stages
  <1>11. ASSUME NEW p \in Procs, Unlink(p)
         PROVE  OwnerTypeOK'
    BY <1>11, <1>1 DEF Unlink, Enters, Stages
  <1>12. ASSUME NEW p \in Procs, Exit(p) \/ Die(p)
         PROVE  OwnerTypeOK'
    BY <1>12 DEF Exit, Die, Enters, Stages
  <1>13. CASE UNCHANGED ownerVars
    BY <1>13 DEF ownerVars
  <1> QED
    BY <1>3, <1>4, <1>5, <1>6, <1>7, <1>8, <1>9, <1>10, <1>11, <1>12, <1>13
       DEF OwnerNext

\* The invariant holds of a machine with no lock or with a stale one.
LEMMA OwnerStart == OwnerInit => OwnerInv
  <1> SUFFICES ASSUME OwnerInit
               PROVE  OwnerInv
    OBVIOUS
  <1> USE OwnerAssumption DEF OwnerAssumption
  <1>1. NoLock \in Locks /\ \A q \in Procs : Lock(q, "good") \in Locks
    BY DEF NoLock, Lock, Locks, Records
  <1>2. OwnerTypeOK
    BY <1>1 DEF OwnerInit, OwnerTypeOK, Stages
  <1>3. \A p \in Procs : stage[p] \in {"unborn", "history"}
    BY DEF OwnerInit
  <1>4. Authored
    BY DEF OwnerInit, Authored, Lock
  <1>5. LoneInv
    BY <1>3 DEF LoneInv, StageInv, Acquiring, Holds
  <1>6. Untouched
    BY DEF OwnerInit, Untouched, Lock
  <1>7. RaceInv
    BY <1>3, <1>6 DEF RaceInv
  <1> QED
    BY <1>2, <1>4, <1>5, <1>7 DEF OwnerInv

-----------------------------------------------------------------------------
(* Launches that do not overlap                                            *)

\* One step of a process p leaves every other process where it was.
LEMMA OthersStand ==
  ASSUME OwnerTypeOK, NEW p \in Procs, NEW s, Enters(p, s)
  PROVE  /\ stage'[p] = s
         /\ \A q \in Procs \ {p} : stage'[q] = stage[q]
  BY DEF OwnerTypeOK, Enters

\* A launch that meets no other launch, and to which ps answers, takes the lock
\* only from nobody or from the dead, and holds it under its own name.
LEMMA AloneStep == OwnerTypeOK /\ LoneInv /\ [OwnerNext]_ownerVars => LoneInv'
  <1> SUFFICES ASSUME OwnerTypeOK, LoneInv, [OwnerNext]_ownerVars, met' = {}
               PROVE  /\ \A p, q \in Procs :
                            stage'[p] \in Acquiring /\ stage'[q] \in Acquiring
                            => p = q
                      /\ \A p \in Procs : StageInv(p)'
    BY DEF LoneInv
  <1>1. CASE UNCHANGED ownerVars
    BY <1>1 DEF ownerVars, LoneInv, StageInv, Holds
  <1> SUFFICES ASSUME NEW p \in Procs,
                      \/ Start(p) \/ Create(p) \/ Write(p) \/ Load(p) \/ Ps(p)
                      \/ Replace(p) \/ Verify(p) \/ Release(p) \/ Unlink(p)
                      \/ Exit(p) \/ Die(p)
               PROVE  /\ \A q, r \in Procs :
                            stage'[q] \in Acquiring /\ stage'[r] \in Acquiring
                            => q = r
                      /\ \A q \in Procs : StageInv(q)'
    BY <1>1 DEF OwnerNext
  <1>2. /\ met = {}
        /\ \A q, r \in Procs :
              stage[q] \in Acquiring /\ stage[r] \in Acquiring => q = r
        /\ \A q \in Procs : StageInv(q)
    BY DEF LoneInv, Start, Create, Write, Load, Ps, Replace, Verify, Release,
           Unlink, Exit, Die, OwnRecord
  <1>3. CASE Start(p)
    BY <1>2, <1>3, OthersStand
       DEF Start, Acquiring, StageInv, Holds, Lock, OwnerTypeOK
  <1>4. CASE Create(p)
    BY <1>2, <1>4, OthersStand
       DEF Create, NoLock, Acquiring, StageInv, Holds, Lock, OwnerTypeOK
  <1>5. CASE Write(p)
    BY <1>2, <1>5, OthersStand
       DEF Write, OwnRecord, Acquiring, StageInv, Holds, Lock, OwnerTypeOK
  <1>6. CASE Load(p)
    BY <1>2, <1>6, OthersStand
       DEF Load, Acquiring, StageInv, Holds, Lock, OwnerTypeOK
  <1>7. CASE Ps(p)
    BY <1>2, <1>7, OthersStand
       DEF Ps, HolderAlive, Living, Acquiring, StageInv, Holds, Lock, OwnerTypeOK
  <1>8. CASE Replace(p)
    BY <1>2, <1>8, OthersStand
       DEF Replace, OwnRecord, Acquiring, StageInv, Holds, Lock, OwnerTypeOK
  <1>9. CASE Verify(p)
    BY <1>2, <1>9, OthersStand
       DEF Verify, Acquiring, StageInv, Holds, Lock, OwnerTypeOK
  <1>10. CASE Release(p)
    BY <1>2, <1>10, OthersStand
       DEF Release, Acquiring, StageInv, Holds, Lock, OwnerTypeOK
  <1>11. CASE Unlink(p)
    BY <1>2, <1>11, OthersStand
       DEF Unlink, NoLock, Acquiring, StageInv, Holds, Lock, OwnerTypeOK
  <1>12. CASE Exit(p) \/ Die(p)
    BY <1>2, <1>12, OthersStand
       DEF Exit, Die, Acquiring, StageInv, Holds, Lock, OwnerTypeOK
  <1> QED
    BY <1>3, <1>4, <1>5, <1>6, <1>7, <1>8, <1>9, <1>10, <1>11, <1>12

\* While launches do not overlap and ps answers, the lock names the one owner,
\* whatever is killed and however pids are used again.
THEOREM OneOwner == OwnerSpec => []OneOwnerAlone
  <1>1. OwnerTypeOK /\ LoneInv => OneOwnerAlone
    <2> SUFFICES ASSUME LoneInv, met = {}
                 PROVE  /\ \A p, q \in Owners : p = q
                        /\ \A p \in Owners : lock = Lock(p, "good")
      BY DEF OneOwnerAlone
    <2>1. \A p \in Owners : lock = Lock(p, "good")
      BY DEF LoneInv, StageInv, Holds, Owners
    <2> QED
      BY <2>1 DEF Lock
  <1>2. OwnerTypeOK /\ LoneInv /\ [OwnerNext]_ownerVars => (OwnerTypeOK /\ LoneInv)'
    BY OwnerTypeStep, AloneStep
  <1> QED
    BY <1>1, <1>2, OwnerStart, PTL DEF OwnerSpec, OwnerInv

-----------------------------------------------------------------------------
(* Launches that race each other                                           *)

\* Nothing but a process's own write names it in the lock, and only an unlink
\* empties it.
LEMMA AuthorStep == OwnerTypeOK /\ Authored /\ [OwnerNext]_ownerVars => Authored'
  <1> SUFFICES ASSUME OwnerTypeOK, Authored, [OwnerNext]_ownerVars
               PROVE  Authored'
    OBVIOUS
  <1>1. lock' # lock => lock' = NoLock \/ lock'.by \in Procs
    BY DEF OwnerNext, ownerVars, Start, Create, Write, Load, Ps, Replace, Verify, Release,
           Unlink, Exit, Die, OwnRecord, Lock
  <1> QED
    BY <1>1, OwnerAssumption DEF Authored, OwnerAssumption

\* Who has left does not come back: leaving is for good.
LEMMA LeavingIsFinal == OwnerTypeOK /\ [OwnerNext]_ownerVars /\ NoneLeft' => NoneLeft
  <1> SUFFICES ASSUME OwnerTypeOK, [OwnerNext]_ownerVars, ~NoneLeft
               PROVE  ~NoneLeft'
    OBVIOUS
  <1>1. PICK q \in Procs : stage[q] \in {"dead", "unlink"}
    BY DEF NoneLeft
  <1>2. CASE UNCHANGED ownerVars
    BY <1>1, <1>2 DEF ownerVars, NoneLeft
  <1>3. ASSUME NEW p \in Procs, OwnerNext!(p)
        PROVE  ~NoneLeft'
    <2>1. stage'[q] \in {"dead", "unlink"}
      BY <1>1, <1>3, OthersStand
         DEF Start, Create, Write, Load, Ps, Replace, Verify, Release, Unlink,
             Exit, Die, Acquiring, Living
    <2> QED
      BY <2>1 DEF NoneLeft
  <1> QED
    BY <1>2, <1>3 DEF OwnerNext

\* The last to write the lock stays on its way to owning it until it is
\* overwritten, and before the first write every answer is still open.
LEMMA RaceStep == OwnerTypeOK /\ Authored /\ RaceInv /\ [OwnerNext]_ownerVars => RaceInv'
  <1> SUFFICES ASSUME OwnerTypeOK, Authored, RaceInv, [OwnerNext]_ownerVars, NoneLeft'
               PROVE  RaceInv'
    BY DEF RaceInv
  <1>1. NoneLeft
    BY LeavingIsFinal
  <1>2. CASE UNCHANGED ownerVars
    BY <1>2 DEF ownerVars, RaceInv, NoneLeft, Untouched
  <1> SUFFICES ASSUME NEW p \in Procs,
                      \/ Start(p) \/ Create(p) \/ Write(p) \/ Load(p) \/ Ps(p)
                      \/ Replace(p) \/ Verify(p) \/ Release(p) \/ Unlink(p)
                      \/ Exit(p) \/ Die(p)
               PROVE  RaceInv'
    BY <1>2 DEF OwnerNext
  <1> USE OwnerAssumption DEF OwnerAssumption
  <1>3. stage'[p] \notin {"dead", "unlink"}
    BY DEF NoneLeft
  <1>4. lock # NoLock => lock.by \in Procs
    BY DEF OwnerTypeOK, Locks, Authored
  <1>5. CASE Start(p)
    BY <1>1, <1>3, <1>4, <1>5, OthersStand
       DEF Start, RaceInv, Untouched, Lock, OwnerTypeOK
  <1>6. CASE Create(p)
    BY <1>1, <1>3, <1>4, <1>6, OthersStand
       DEF Create, NoLock, RaceInv, Untouched, Lock, OwnerTypeOK
  <1>7. CASE Write(p)
    BY <1>1, <1>3, <1>4, <1>7, OthersStand
       DEF Write, OwnRecord, NoLock, RaceInv, Untouched, Lock, OwnerTypeOK
  <1>8. CASE Load(p)
    BY <1>1, <1>3, <1>4, <1>8, OthersStand
       DEF Load, RaceInv, Untouched, Lock, OwnerTypeOK
  <1>9. CASE Ps(p)
    BY <1>1, <1>3, <1>4, <1>9, OthersStand
       DEF Ps, HolderAlive, Living, NoLock, RaceInv, Untouched, Lock, OwnerTypeOK
  <1>10. CASE Replace(p)
    BY <1>1, <1>3, <1>4, <1>10, OthersStand
       DEF Replace, OwnRecord, NoLock, RaceInv, Untouched, Lock, OwnerTypeOK
  <1>11. CASE Verify(p)
    BY <1>1, <1>3, <1>4, <1>11, OthersStand
       DEF Verify, RaceInv, Untouched, Lock, OwnerTypeOK
  <1>12. CASE Release(p) \/ Unlink(p) \/ Exit(p) \/ Die(p)
    BY <1>1, <1>3, <1>4, <1>12, OthersStand
       DEF Release, Unlink, Exit, Die, RaceInv, Untouched, Lock, OwnerTypeOK
  <1> QED
    BY <1>5, <1>6, <1>7, <1>8, <1>9, <1>10, <1>11, <1>12

\* However launches race, and even when ps fails them, they never all lose:
\* once everyone started has its answer and nobody has left, someone owns.
THEOREM RacersNeverAllLose == OwnerSpec => []SomeoneWins
  <1> USE OwnerAssumption DEF OwnerAssumption
  <1>1. OwnerTypeOK /\ Authored /\ RaceInv => SomeoneWins
    <2> SUFFICES ASSUME OwnerTypeOK, Authored, RaceInv,
                        NEW p \in Procs, Living(p),
                        \A q \in Procs : stage[q] \in {"unborn", "owner",
                                                       "refused", "history"}
                 PROVE  Owners # {}
      BY DEF SomeoneWins
    <2>1. NoneLeft
      BY DEF NoneLeft
    <2>2. ~Untouched
      BY <2>1 DEF RaceInv, Living
    <2>3. lock.by \in Procs
      BY <2>2 DEF OwnerTypeOK, Locks, Authored, Untouched
    <2>4. stage[lock.by] = "owner"
      BY <2>1, <2>2, <2>3 DEF RaceInv
    <2> QED
      BY <2>3, <2>4 DEF Owners
  <1>2. OwnerInv /\ [OwnerNext]_ownerVars => OwnerInv'
    BY OwnerTypeStep, AuthorStep, AloneStep, RaceStep DEF OwnerInv
  <1> QED
    BY <1>1, <1>2, OwnerStart, PTL DEF OwnerSpec, OwnerInv

=============================================================================

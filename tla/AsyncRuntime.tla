---------------------------- MODULE AsyncRuntime -----------------------------
(***************************************************************************)
(* tunnel/async_runtime.py: one object that owns one server thread at a    *)
(* time, for the HTTP proxy (ProxyRuntime) and for the AI gateway          *)
(* (SuanpanRuntime).  start and stop are called from the menu's thread,    *)
(* the configuration server's threads and the gateway healer; each of      *)
(* their critical sections under _lock is one step, and so is each test or *)
(* signal between two of them.                                             *)
(*                                                                         *)
(* A generation is one thread with its stop event, its coroutine and its   *)
(* stop function, so all four are named by the generation's number; 0      *)
(* stands for None.                                                        *)
(***************************************************************************)
EXTENDS Naturals, FiniteSets

CONSTANTS
    Starters,  \* threads that call start
    Stoppers,  \* threads that call stop; a thread may be both
    MaxGen,    \* BOUND: generations started per behaviour
    Mishaps    \* what a server may do, a subset of MishapKinds

MishapKinds == {"factory",   \* its factory raises (bad configuration)
                "serve"}     \* it ends or raises without being asked

Callers == Starters \cup Stoppers
Gens    == 1 .. MaxGen
NoGen   == 0

ASSUME RuntimeAssumption ==
    /\ MaxGen \in Nat
    /\ Mishaps \subseteq MishapKinds

VARIABLES
    state,      \* _state
    gen,        \* _generation
    thread,     \* _thread
    stopFn,     \* _stop_fn
    stopEvent,  \* _stop_event
    isSet,      \* [Gens -> the stop event of the generation is set]
    asked,      \* [Gens -> its stop function has been called]
    work,       \* [Gens -> where its thread is]
    call,       \* [Callers -> where the caller is]
    mine,       \* [Callers -> the caller's local variables]
    alone,      \* history: no call has begun during another
    apart       \* history: the sections of two starts have not met

published == <<gen, thread, stopFn, stopEvent>>
history   == <<alone, apart>>
vars == <<state, published, isSet, asked, work, call, mine, history>>

States == {"STOPPED", "STARTING", "RUNNING", "STOPPING", "FAILED"}
Work   == {"none", "begin", "build", "check", "mark", "serve", "fail", "end",
           "gone"}
Calls  == {"idle", "read", "signal", "join", "post", "claim", "publish"}

\* op: the public method; thr, fn, ev: what stop read; alive: what it saw after
\* the join; new: the generation start has claimed; last: what the last call
\* returned, or what it was before any.
Locals == [op : {"start", "stop"}, thr : 0 .. MaxGen, fn : 0 .. MaxGen,
           ev : 0 .. MaxGen, alive : BOOLEAN, new : 0 .. MaxGen,
           last : {"none", "start", "refused", "stop", "late"}]

TypeOK ==
    /\ state \in States
    /\ {gen, thread, stopFn, stopEvent} \subseteq 0 .. MaxGen
    /\ isSet \in [Gens -> BOOLEAN]
    /\ asked \in [Gens -> BOOLEAN]
    /\ work \in [Gens -> Work]
    /\ call \in [Callers -> Calls]
    /\ mine \in [Callers -> Locals]
    /\ alone \in BOOLEAN /\ apart \in BOOLEAN

Init ==
    /\ state = "STOPPED"
    /\ gen = 0 /\ thread = NoGen /\ stopFn = NoGen /\ stopEvent = NoGen
    /\ isSet = [g \in Gens |-> FALSE]
    /\ asked = [g \in Gens |-> FALSE]
    /\ work = [g \in Gens |-> "none"]
    /\ call = [c \in Callers |-> "idle"]
    /\ mine = [c \in Callers |->
                  [op |-> "stop", thr |-> NoGen, fn |-> NoGen, ev |-> NoGen,
                   alive |-> FALSE, new |-> NoGen, last |-> "none"]]
    /\ alone = TRUE /\ apart = TRUE

Alive(g) == g # NoGen /\ work[g] \notin {"none", "gone"}
Goto(c, step) == call' = [call EXCEPT ![c] = step]
Enter(c) == alone' = (alone /\ \A d \in Callers : call[d] = "idle")
Return(c, r) ==
    /\ Goto(c, "idle")
    /\ mine' = [mine EXCEPT ![c].last = r, ![c].thr = NoGen, ![c].fn = NoGen,
                            ![c].ev = NoGen, ![c].new = NoGen,
                            ![c].alive = FALSE]

-----------------------------------------------------------------------------
(* start and stop                                                           *)

\* The bound.
MayClaim == gen < MaxGen

(* From what a start reads of the previous thread to the publication of its *)
(* own it lets go of the lock five times, and nothing keeps another start   *)
(* out; of two that meet there, the second may claim while the thread of    *)
(* the first is not published yet, or write STOPPED over it.                *)
InSection(c) ==
    /\ mine[c].op = "start"
    /\ call[c] \in {"signal", "join", "post", "claim", "publish"}

EnterSection(c) == apart' = (apart /\ \A d \in Callers \ {c} : ~InSection(d))

\* Mutant of StartCall: _shutdown_previous trusts the state alone.
StartCallTrusting(c) ==
    /\ c \in Starters /\ call[c] = "idle" /\ MayClaim
    /\ IF state \in {"STOPPED", "FAILED"}
       THEN Goto(c, "claim") /\ EnterSection(c) /\ UNCHANGED state
       ELSE Goto(c, "read") /\ state' = "STOPPING" /\ UNCHANGED apart
    /\ mine' = [mine EXCEPT ![c].op = "start"]
    /\ Enter(c)
    /\ UNCHANGED <<published, isSet, asked, work>>

\* The lock section of _shutdown_previous.
StartCall(c) ==
    /\ c \in Starters /\ call[c] = "idle" /\ MayClaim
    /\ IF state \in {"STOPPED", "FAILED"} /\ ~Alive(thread)
       THEN Goto(c, "claim") /\ EnterSection(c) /\ UNCHANGED state
       ELSE Goto(c, "read") /\ state' = "STOPPING" /\ UNCHANGED apart
    /\ mine' = [mine EXCEPT ![c].op = "start"]
    /\ Enter(c)
    /\ UNCHANGED <<published, isSet, asked, work>>

StopCall(c) ==
    /\ c \in Stoppers /\ call[c] = "idle"
    /\ Goto(c, "read")
    /\ mine' = [mine EXCEPT ![c].op = "stop"]
    /\ Enter(c)
    /\ UNCHANGED <<state, published, isSet, asked, work, apart>>

StopRead(c) ==
    /\ call[c] = "read"
    /\ mine' = [mine EXCEPT ![c].thr = thread, ![c].fn = stopFn,
                            ![c].ev = stopEvent]
    /\ state' = IF state = "STARTING" THEN "STOPPING" ELSE state
    /\ Goto(c, "signal")
    /\ IF mine[c].op = "start" THEN EnterSection(c) ELSE UNCHANGED apart
    /\ UNCHANGED <<published, isSet, asked, work, alone>>

\* Mutant of StopSignal: the stop function is not called.
StopSignalEventOnly(c) ==
    /\ call[c] = "signal"
    /\ isSet' = [g \in Gens |-> isSet[g] \/ g = mine[c].ev]
    /\ Goto(c, "join")
    /\ UNCHANGED <<state, published, asked, work, mine, history>>

\* Set the event, call the stop function, as far as stop read them.
StopSignal(c) ==
    /\ call[c] = "signal"
    /\ isSet' = [g \in Gens |-> isSet[g] \/ g = mine[c].ev]
    /\ asked' = [g \in Gens |-> asked[g] \/ g = mine[c].fn]
    /\ Goto(c, "join")
    /\ UNCHANGED <<state, published, work, mine, history>>

\* The join returns because the thread ended or because it timed out; what
\* is_alive says afterwards is what counts.
StopJoin(c) ==
    /\ call[c] = "join"
    /\ mine' = [mine EXCEPT ![c].alive = Alive(mine[c].thr)]
    /\ Goto(c, "post")
    /\ UNCHANGED <<state, published, isSet, asked, work, history>>

AfterStop(alive, ev) ==
    IF state = "FAILED" THEN state
    ELSE IF alive THEN (IF ev = NoGen THEN "RUNNING" ELSE state)
    ELSE "STOPPED"

StopPost(c) ==
    /\ call[c] = "post"
    /\ state' = AfterStop(mine[c].alive, mine[c].ev)
    /\ IF mine[c].op = "stop" THEN Return(c, IF mine[c].alive THEN "late" ELSE "stop")
       ELSE IF mine[c].alive THEN Return(c, "refused")
       ELSE Goto(c, "claim") /\ UNCHANGED mine
    /\ UNCHANGED <<published, isSet, asked, work, history>>

\* The second lock section of start: claim the next generation.
Claim(c) ==
    /\ call[c] = "claim" /\ MayClaim
    /\ IF state \in {"STOPPED", "FAILED"}
       THEN /\ gen' = gen + 1
            /\ stopEvent' = gen'
            /\ state' = "STARTING"
            /\ mine' = [mine EXCEPT ![c].new = gen']
            /\ Goto(c, "publish")
            /\ UNCHANGED <<thread, stopFn>>
       ELSE /\ Return(c, "refused")
            /\ UNCHANGED <<state, published>>
    /\ UNCHANGED <<isSet, asked, work, history>>

\* The third: publish the thread and start it.
Publish(c) ==
    /\ call[c] = "publish"
    /\ thread' = mine[c].new
    /\ work' = [work EXCEPT ![mine[c].new] = "begin"]
    /\ Return(c, "start")
    /\ UNCHANGED <<state, gen, stopFn, stopEvent, isSet, asked, history>>

-----------------------------------------------------------------------------
(* The worker thread                                                        *)

Advance(g, step) == work' = [work EXCEPT ![g] = step]

Begin(g) ==
    /\ work[g] = "begin"
    /\ Advance(g, IF isSet[g] THEN "end" ELSE "build")
    /\ UNCHANGED <<state, published, isSet, asked, call, mine, history>>

\* Call the factory; publish its stop function unless superseded.
Build(g) ==
    /\ work[g] = "build"
    /\ \/ /\ g # gen
          /\ Advance(g, "end") /\ UNCHANGED stopFn
       \/ /\ g = gen
          /\ Advance(g, "check") /\ stopFn' = g
       \/ /\ "factory" \in Mishaps
          /\ Advance(g, "fail") /\ UNCHANGED stopFn
    /\ UNCHANGED <<state, gen, thread, stopEvent, isSet, asked, call, mine, history>>

Check(g) ==
    /\ work[g] = "check"
    /\ Advance(g, IF isSet[g] THEN "end" ELSE "mark")
    /\ asked' = [asked EXCEPT ![g] = @ \/ isSet[g]]
    /\ UNCHANGED <<state, published, isSet, call, mine, history>>

Mark(g) ==
    /\ work[g] = "mark"
    /\ state' = IF state = "STARTING" THEN "RUNNING" ELSE state
    /\ Advance(g, "serve")
    /\ UNCHANGED <<published, isSet, asked, call, mine, history>>

\* run_until_complete returns because the server was asked to stop, or by
\* itself, or it raises.
Serve(g) ==
    /\ work[g] = "serve"
    /\ \/ asked[g] /\ Advance(g, "end")
       \/ "serve" \in Mishaps /\ (Advance(g, "end") \/ Advance(g, "fail"))
    /\ UNCHANGED <<state, published, isSet, asked, call, mine, history>>

Fail(g) ==
    /\ work[g] = "fail"
    /\ state' = IF g = gen THEN "FAILED" ELSE state
    /\ Advance(g, "end")
    /\ UNCHANGED <<published, isSet, asked, call, mine, history>>

\* The finally clause: a generation clears only itself.
End(g) ==
    /\ work[g] = "end"
    /\ IF g = gen
       THEN /\ thread' = NoGen /\ stopFn' = NoGen /\ stopEvent' = NoGen
            /\ state' = IF state = "FAILED" THEN state ELSE "STOPPED"
       ELSE UNCHANGED <<state, thread, stopFn, stopEvent>>
    /\ Advance(g, "gone")
    /\ UNCHANGED <<gen, isSet, asked, call, mine, history>>

-----------------------------------------------------------------------------

Working(g) ==
    Begin(g) \/ Build(g) \/ Check(g) \/ Mark(g) \/ Serve(g) \/ Fail(g) \/ End(g)

Calling(c) ==
    \/ StopRead(c) \/ StopSignal(c) \/ StopJoin(c) \/ StopPost(c)
    \/ Claim(c) \/ Publish(c)

Next ==
    \/ \E c \in Callers : StartCall(c) \/ StopCall(c) \/ Calling(c)
    \/ \E g \in Gens : Working(g)

Spec == Init /\ [][Next]_vars

\* Threads that run keep running and a server that was asked to stop ends;
\* nobody has to call anything and no server has to fail.
Fairness ==
    /\ \A c \in Callers : WF_vars(Calling(c))
    /\ \A g \in Gens : WF_vars((work[g] = "serve" => asked[g]) /\ Working(g))
FairSpec == Spec /\ Fairness

-----------------------------------------------------------------------------
(* Properties                                                               *)

Live == {g \in Gens : Alive(g)}

\* What the runtime reports is so (as long as no two calls have overlapped): a
\* server that has stopped has no thread left, so that its port is free and its
\* configuration may change; one that serves and was not told to stop is
\* reported as running, which the watchdog and the menu believe.
ReportIsTrue ==
    alone =>
        /\ state = "STOPPED" => Live = {}
        /\ (/\ \A c \in Callers : call[c] = "idle"
            /\ gen # 0 /\ work[gen] = "serve" /\ ~isSet[gen])
           => state = "RUNNING"

\* One server at a time, always one that stop can reach, and truly reported: a
\* generation is published only after its predecessor's thread has ended.  Starts
\* and stops come from any thread at any moment; what is said ends with the first
\* two starts that meet between their reading of the previous thread and the
\* publication of their own, which the code does not keep apart.
OneServer ==
    apart => /\ \A g \in Live : g = gen /\ thread = g
             /\ ReportIsTrue

\* A caller that goes on asking gets the server stopped: a stop that comes too
\* early to reach it is repaired by a later one.
StopsPrevail ==
    (/\ []apart
     /\ <>[](\A c \in Callers : mine[c].op = "stop")
     /\ []<>(\E c \in Stoppers : call[c] = "signal"))
    => <>[](Live = {})

=============================================================================

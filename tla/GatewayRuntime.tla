--------------------------- MODULE GatewayRuntime ---------------------------
(***************************************************************************)
(* services/suanpan_runtime.py and services/gateway_watchdog.py: the       *)
(* gateway's server, whoever starts and stops it, and the watchdog that    *)
(* compares what it says of itself with its port.                          *)
(*                                                                         *)
(* Three kinds of thread call it: "main" (the menu and the one-second      *)
(* tick), the settings server's handlers (a save reloads the gateway) and  *)
(* "heal" (the watchdog's one worker).  SuanpanRuntime itself has no lock: *)
(* start() is a stop, the forgetting of the cached address and a launch,   *)
(* and other threads may come between; AsyncRuntime below it takes its     *)
(* lock for a few lines at a time, so that a stop is seen here from its    *)
(* signal to what it writes after the join, and a launch from its claim to *)
(* the publication of its thread.  A claim that falls into another's stop, *)
(* or before another's publication, is recorded (crossed): from there on   *)
(* there may be two servers, or one that is reported stopped, and the      *)
(* state here is only one of them.  AsyncRuntime.tla has the sections and  *)
(* locals of one call.                                                     *)
(***************************************************************************)
EXTENDS Naturals, FiniteSets

CONSTANTS
    Configs,     \* configurations that load; each listens on a port of its own
    BadConfig,   \* a file that does not load
    None,
    Handlers,    \* request threads of the settings server
    Misses,      \* miss_threshold
    Families     \* BOUND: the kinds of event that one behaviour mixes, with the
                 \* number of its events

Threads == {"main", "heal"} \cup Handlers

Kinds == {"gateway",  \* the gateway's menu entries
          "fault",    \* a stop that times out, a port that is taken or lost
          "mp", "sp", \* a save of that part (PUT /api/state)
          "server",   \* the settings window, its menu entries, its port
          "capture", "sleep", "quit"}

ASSUME GatewayAssumption ==
    /\ {BadConfig, None} \cap Configs = {}
    /\ {"main", "heal"} \cap Handlers = {}
    /\ Misses \in Nat \ {0}
    /\ \A f \in Families : f.kinds \subseteq Kinds /\ f.most \in Nat

VARIABLES
    disk,      \* suanpan.yaml: a configuration or BadConfig
    gw,        \* the AsyncRuntime: its state, the configuration it serves, and
               \* that configuration's port: unbound, open, or lost
    cached,    \* _cached_listen: the configuration whose address it is, or None
    seen,      \* what listen_address() has just read on the main thread
    call,      \* [Threads -> the step its call into the runtime is at]
    dog,       \* GatewayWatchdog: misses, healing, and whether the backoff runs
    broken,    \* history: a stop, or a fault, that no later save has mended
    crossed,   \* history: a claim fell into another thread's stop, or between
               \* another's claim, which a stop has undone, and its publication
    allowed,   \* the family of this behaviour
    events     \* events so far

history == <<broken, crossed>>
gateway == <<disk, gw, cached, seen, call, dog, history>>

Down(s)  == [state |-> s, cfg |-> None, port |-> "unbound"]
Running  == gw.state = "running"                       \* AsyncRuntime.running
Accepts(c) == gw.port = "open" /\ gw.cfg = c           \* _probe_tcp
Ended    == gw.state \in {"stopped", "failed"}         \* no thread
Happens(kind) ==
    /\ kind \in allowed.kinds /\ events < allowed.most
    /\ events' = events + 1

Goto(t, step) == call' = [call EXCEPT ![t] = step]

-----------------------------------------------------------------------------
(* AsyncRuntime.stop: asks the server to exit and joins its thread; what    *)
(* it then writes about the state is a step of its own (Joined).  The join  *)
(* may time out (a blocked loop): the thread is then on its way out, the    *)
(* runtime no longer calls itself running, and nothing is written.  A claim *)
(* whose thread is not published yet is undone: there is nothing to join,   *)
(* and the thread, once published, ends before it begins.                   *)
Stopped == IF Ended THEN gw ELSE Down("stopped")

StopServer(late) ==
    /\ IF late THEN /\ ~Ended /\ gw.state # "claimed"
                    /\ Happens("fault")
                    /\ gw' = [gw EXCEPT !.state = "stopping"]
                    /\ broken' = TRUE
               ELSE gw' = Stopped /\ UNCHANGED <<events, broken>>
    /\ UNCHANGED crossed

\* A stop that has joined: of a start, of its launch, of the menu or the quit, of
\* a restart from the menu.
Joining(t) == call[t] \in {"join", "rejoin", "halt", "restart"}
Joined(t) ==
    /\ Joining(t)
    /\ Goto(t, CASE call[t] = "join"    -> "shut"
                 [] call[t] = "rejoin"  -> "open"
                 [] call[t] = "halt"    -> "idle"
                 [] call[t] = "restart" -> "stop")
    /\ UNCHANGED <<disk, gw, cached, seen, dog, history, events>>

(* The server's thread: the factory loads the file and builds the app,     *)
(* uvicorn then binds.  A configuration that does not load, or a port that *)
(* is taken, ends the thread.                                              *)
Load ==
    /\ gw.state = "starting"
    /\ gw' = IF disk = BadConfig THEN Down("failed")
             ELSE [state |-> "running", cfg |-> disk, port |-> "unbound"]
    /\ UNCHANGED <<disk, cached, seen, call, dog, history, events>>

Bind ==
    /\ Running /\ gw.port = "unbound"
    /\ gw' = [gw EXCEPT !.port = "open"]
    /\ UNCHANGED <<disk, cached, seen, call, dog, history, events>>

PortTaken ==
    /\ Running /\ gw.port = "unbound"
    /\ Happens("fault")
    /\ gw' = Down("stopped")
    /\ broken' = TRUE
    /\ UNCHANGED <<disk, cached, seen, call, dog, crossed>>

\* The thread of a stop that timed out ends after all.
ThreadEnds ==
    /\ gw.state = "stopping"
    /\ gw' = Down("stopped")
    /\ UNCHANGED <<disk, cached, seen, call, dog, history, events>>

-----------------------------------------------------------------------------
(* SuanpanRuntime.start, on thread t: stop, forget the address, launch.  A *)
(* launch stops the previous server once more, where there is one; then it *)
(* claims the runtime under the lock, or is refused unless nothing runs;   *)
(* then it publishes and starts its thread.                                *)
\* Mutant: the busy flag is not reset.
MutantStaysBusy(ok) == dog' = [misses |-> 0, healing |-> TRUE, backoff |-> ~ok]

HealEnds(ok) ==
    dog' = [misses |-> 0, healing |-> FALSE, backoff |-> ~ok]

StartStops(t) ==
    /\ call[t] = "stop"
    /\ \E late \in BOOLEAN : StopServer(late) /\ Goto(t, IF late THEN "shut" ELSE "join")
    /\ cached' = None
    /\ UNCHANGED <<disk, seen, dog>>

Returns(t, ok) ==
    /\ Goto(t, "idle")
    /\ IF t = "heal" THEN HealEnds(ok) ELSE UNCHANGED dog

LaunchStops(t) ==
    /\ call[t] = "shut"
    /\ \/ Ended /\ Goto(t, "open") /\ UNCHANGED <<gw, dog, history, events>>
       \/ ~Ended /\ StopServer(FALSE) /\ Goto(t, "rejoin") /\ UNCHANGED dog
       \/ StopServer(TRUE) /\ Returns(t, FALSE)
    /\ UNCHANGED <<disk, cached, seen>>

LaunchClaims(t) ==
    /\ call[t] = "open"
    /\ IF Ended THEN /\ gw' = Down("claimed")
                     /\ crossed' = (crossed \/ \E u \in Threads :
                                                 Joining(u) \/ call[u] = "publish")
                     /\ Goto(t, "publish") /\ UNCHANGED dog
                ELSE Returns(t, FALSE) /\ UNCHANGED <<gw, crossed>>
    /\ UNCHANGED <<disk, cached, seen, broken, events>>

LaunchPublishes(t) ==
    /\ call[t] = "publish"
    /\ gw' = IF gw.state = "claimed" THEN Down("starting") ELSE gw
    /\ Returns(t, TRUE)
    /\ UNCHANGED <<disk, cached, seen, history, events>>

(* reload_or_start after a save: a running gateway is reloaded, a stopped  *)
(* one started.  reload() asks again whether it runs.                      *)
\* Mutant: what runs is left alone.   Mutant: what does not run is not started.
MutantStartOnly(t)  == Goto(t, IF Running THEN "idle" ELSE "stop")
MutantReloadOnly(t) == Goto(t, IF Running THEN "reload" ELSE "idle")

ReloadOrStart(t) == Goto(t, IF Running THEN "reload" ELSE "stop")

Reload(t) ==
    /\ call[t] = "reload"
    /\ IF Running THEN cached' = None /\ Goto(t, "stop")
                  ELSE UNCHANGED cached /\ Goto(t, "idle")
    /\ UNCHANGED <<disk, gw, seen, dog, history, events>>

Caller(t) == \/ StartStops(t) \/ LaunchStops(t) \/ LaunchClaims(t)
             \/ LaunchPublishes(t) \/ Joined(t) \/ Reload(t)

-----------------------------------------------------------------------------
(* Binding a port takes less than the five seconds between two audits: at  *)
(* most one audit falls into the gap that a reload leaves.                 *)
InTime == ~(Running /\ gw.port = "unbound" /\ dog.misses > 0)

(* The tick, in two steps: the address is read, then cached, probed and    *)
(* judged; a handler may commit and reload in between.  Only the ticks     *)
(* that audit (every fifth) are modelled.  A file that does not load has   *)
(* the default address, which is not cached.                               *)
Address == IF cached # None THEN cached ELSE disk

ReadAddress ==
    /\ InTime
    /\ seen' = IF Running THEN Address ELSE None
    /\ Goto("main", "audit")
    /\ UNCHANGED <<disk, gw, cached, dog, history, events>>

Mismatch == Running /\ ~Accepts(seen)

Judge ==
    IF dog.healing THEN UNCHANGED dog
    ELSE IF seen = None \/ ~Mismatch THEN dog' = [dog EXCEPT !.misses = 0]
    ELSE LET n == dog.misses + 1
         IN  IF n < Misses \/ dog.backoff
             THEN dog' = [dog EXCEPT !.misses = IF n < Misses THEN n ELSE Misses]
             ELSE dog' = [dog EXCEPT !.misses = n, !.healing = TRUE]

Audit ==
    /\ cached' = IF seen \in Configs THEN seen ELSE cached
    /\ seen' = None
    /\ Judge
    /\ call' = [call EXCEPT
                  !["main"] = "idle",
                  !["heal"] = IF dog'.healing /\ ~dog.healing THEN "queued" ELSE @]
    /\ UNCHANGED <<disk, gw, history>>

\* The worker takes the job, which asks nothing before it starts the gateway.
HealStarts ==
    /\ call["heal"] = "queued"
    /\ Goto("heal", "stop")
    /\ UNCHANGED <<disk, gw, cached, seen, dog, history, events>>

BackoffEnds ==
    /\ dog.backoff
    /\ dog' = [dog EXCEPT !.backoff = FALSE]
    /\ UNCHANGED <<disk, gw, cached, seen, call, history, events>>

\* The fault the watchdog is there for: the server runs and nobody accepts.
SocketLost ==
    /\ Running /\ gw.port = "open"
    /\ Happens("fault")
    /\ gw' = [gw EXCEPT !.port = "lost"]
    /\ UNCHANGED <<disk, cached, seen, call, dog, history>>
=============================================================================

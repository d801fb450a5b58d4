------------------------------- MODULE Shell -------------------------------
(***************************************************************************)
(* app.py, services/lifecycle_runtime.py and what they own: the settings   *)
(* server and who holds it open, capture mode, the sleep assertion, the    *)
(* gateway (GatewayRuntime), the start and the quit.                       *)
(*                                                                         *)
(* The main thread runs one callback, tick or quit at a time; "todo" holds *)
(* what is left of it, step by step where another thread can come between. *)
(* The settings server answers each request on a thread of its own, and    *)
(* the callbacks of a save run on that thread.  The ssh sessions, mounts   *)
(* and the system proxy, which the quit takes down first, have modules of  *)
(* their own.                                                              *)
(***************************************************************************)
EXTENDS GatewayRuntime, Sequences

VARIABLES
    todo,     \* [Threads -> the steps its callback, request or quit has left]
    holds,    \* who wants the settings server: window, api (in memory), latch
    apiDisk,  \* config_api_enabled on disk
    read,     \* [Handlers -> the api flag its save's callback loaded]
    wanted,   \* [Threads -> what it decided about the server]
    httpd,    \* ConfigServer: down, up, or dying (stopped, its thread not gone)
    window,   \* the settings window: none, shown, minimised, closed
    capture,  \* CaptureController and CaptureMonitor, the mitmdumps alive, and
              \* whether one that the quit told to end is not gone
    guides,   \* CA guide windows open
    sleep,    \* [latch: _caffeinate_on, alive: the child, lulled: it was killed]
    prevent,  \* prevent_sleep
    linked,   \* a session or a mount is up and not paused
    life,     \* up, quitting, left (the instance lock is released: what is still
              \* at work goes on until the process is gone)
    raced,    \* history: two decisions about the settings server overlapped, and
              \* none that reads the disk has begun alone since
    refused,  \* the last start of the settings server found its port taken
    overtaken \* history: a save or the watchdog started the gateway during the
              \* quit, or the quit met it still starting

server == <<holds, apiDisk, read, wanted, httpd, window, raced, refused>>
mitm   == <<capture, guides>>
awake  == <<sleep, prevent, linked, allowed>>
vars   == <<gateway, events, todo, server, mitm, awake, life, overtaken>>

Idle(t)  == todo[t] = <<>> /\ call[t] = "idle"
Free     == life = "up" /\ Idle("main")       \* the main thread takes an event
Due(t, step) == todo[t] # <<>> /\ Head(todo[t]) = step /\ call[t] = "idle"
Done(t)  == todo' = [todo EXCEPT ![t] = Tail(@)]
Syncs(t) == \E i \in DOMAIN todo[t] : todo[t][i] \in {"load", "assign", "act", "httpd"}

-----------------------------------------------------------------------------
(* The settings server and its holders.                                    *)
Wanted(h) == h.window \/ h.api \/ h.latch           \* config_server_wanted

Meets(t)    == \E u \in Threads \ {t} : Syncs(u)
Overlaps(t) == raced' = (raced \/ Meets(t))
\* One that begins from what is on disk owes nothing to those before it.
BeginsAfresh(t) == raced' = ((raced /\ life # "up") \/ Meets(t))

\* A decision of thread t for the holders h, to be acted on by its next steps.
Chooses(t, h, steps) ==
    /\ holds' = h
    /\ wanted' = [wanted EXCEPT ![t] = Wanted(h)]
    /\ todo' = [todo EXCEPT ![t] = steps]
Decide(t, h, steps) == Chooses(t, h, steps) /\ Overlaps(t)

(* sync_config_server: start (true when the server's thread is alive,      *)
(* false when the port is taken) or stop.                                  *)
StartServer(taken) ==
    IF httpd # "down"
    THEN /\ ~taken
         /\ raced' = (raced \/ httpd = "dying")
         /\ UNCHANGED <<httpd, refused, events>>
    ELSE /\ IF taken THEN Happens("server") /\ UNCHANGED httpd
                     ELSE httpd' = "up" /\ UNCHANGED events
         /\ refused' = taken
         /\ UNCHANGED raced

StopServerThread ==
    /\ httpd' = IF httpd = "up" THEN "dying" ELSE httpd
    /\ refused' = FALSE
    /\ UNCHANGED <<raced, events>>

Act(t) ==
    /\ Due(t, "act")
    /\ \E taken \in BOOLEAN :
         IF wanted[t]
         THEN /\ StartServer(taken)
              /\ IF taken /\ Tail(todo[t]) = <<"show">>      \* the window stays shut
                 THEN /\ todo' = [todo EXCEPT ![t] = <<>>]
                      /\ holds' = [holds EXCEPT !.window = FALSE]
                 ELSE Done(t) /\ UNCHANGED holds
         ELSE ~taken /\ StopServerThread /\ Done(t) /\ UNCHANGED holds
    /\ wanted' = [wanted EXCEPT ![t] = FALSE]
    /\ UNCHANGED <<gateway, apiDisk, read, window, mitm, awake, life, overtaken>>

ServerThreadEnds ==
    /\ httpd = "dying"
    /\ httpd' = "down"
    /\ UNCHANGED <<gateway, events, todo, holds, apiDisk, read, wanted, window, raced,
                   refused, mitm, awake, life, overtaken>>

(* The window: opening it is a holder, and so is the flag it clears when   *)
(* AppKit says that it closes.  A window that is not visible (closed, or   *)
(* in the Dock) is closed and replaced by a new one.                       *)
OpenWindow ==
    /\ Free /\ Happens("server")
    /\ Decide("main", [holds EXCEPT !.window = TRUE], <<"act", "show">>)
    /\ UNCHANGED <<gateway, apiDisk, read, httpd, window, refused, mitm, awake, life, overtaken>>

Replaced == [holds EXCEPT !.window = FALSE]          \* _on_config_window_closed

ShowWindow ==
    /\ Due("main", "show")
    /\ IF window = "minimised"
       THEN Decide("main", Replaced, <<"act", "shown">>) /\ UNCHANGED window
       ELSE /\ window' = "shown" /\ Done("main")
            /\ UNCHANGED <<holds, wanted, raced>>
    /\ UNCHANGED <<gateway, events, apiDisk, read, httpd, refused, mitm, awake, life,
                   overtaken>>

ShowFails == [holds EXCEPT !.window = FALSE]

\* Mutant: the flag is cleared and nothing follows from it.
MutantRaises ==
    /\ Due("main", "show") /\ window # "shown" /\ Happens("server")
    /\ holds' = ShowFails
    /\ todo' = [todo EXCEPT !["main"] = <<>>]
    /\ UNCHANGED <<gateway, apiDisk, read, wanted, httpd, window, raced, refused, mitm, awake,
                   life, overtaken>>

WindowRaises ==
    /\ Due("main", "show") /\ window # "shown" /\ Happens("server")
    /\ Decide("main", ShowFails, <<"act">>)
    /\ UNCHANGED <<gateway, apiDisk, read, httpd, window, refused, mitm, awake, life,
                   overtaken>>

WindowShown ==
    /\ Due("main", "shown")
    /\ window' = "shown" /\ Done("main")
    /\ UNCHANGED <<gateway, events, holds, wanted, apiDisk, read, httpd, raced, refused, mitm,
                   awake, life, overtaken>>

CloseWindow ==
    /\ Free /\ window # "none" /\ window # "closed" /\ Happens("server")
    /\ window' = "closed"
    /\ Decide("main", [holds EXCEPT !.window = FALSE], <<"act">>)
    /\ UNCHANGED <<gateway, apiDisk, read, httpd, refused, mitm, awake, life, overtaken>>

Minimise ==
    /\ Free /\ window = "shown" /\ Happens("server")
    /\ window' = "minimised"
    /\ UNCHANGED <<gateway, todo, holds, apiDisk, read, wanted, httpd, raced, refused, mitm,
                   awake, life, overtaken>>

CopyInstructions ==
    /\ Free /\ ~holds.latch /\ Happens("server")
    /\ Decide("main", [holds EXCEPT !.latch = TRUE], <<"act">>)
    /\ UNCHANGED <<gateway, apiDisk, read, httpd, window, refused, mitm, awake, life, overtaken>>

\* toggle_config_api: the target comes from the disk, the copy is read back.
ToggleApi ==
    /\ Free /\ Happens("server")
    /\ apiDisk' = ~apiDisk
    /\ Chooses("main", [holds EXCEPT !.api = ~apiDisk], <<"act">>)
    /\ BeginsAfresh("main")
    /\ UNCHANGED <<gateway, read, httpd, window, refused, mitm, awake, life, overtaken>>

-----------------------------------------------------------------------------
(* PUT /api/state on thread h: the commit, then the callbacks of the parts *)
(* that were saved, the application's copy before the gateway.             *)
Sections == {{"mp"}, {"sp"}, {"mp", "sp"}}
Callbacks(saved) == (IF "mp" \in saved THEN <<"load", "assign", "act">> ELSE <<>>)
                    \o (IF "sp" \in saved THEN <<"gateway">> ELSE <<>>)

Put(h) ==
    /\ httpd = "up" /\ Idle(h)
    /\ \E saved \in Sections :
         /\ saved \subseteq allowed.kinds
         /\ \E part \in saved : Happens(part)
         /\ IF "mp" \in saved THEN apiDisk' \in BOOLEAN /\ BeginsAfresh(h)
                              ELSE UNCHANGED <<apiDisk, raced>>
         /\ IF "sp" \in saved THEN disk' \in Configs /\ broken' = FALSE
                              ELSE UNCHANGED <<disk, broken>>
         /\ todo' = [todo EXCEPT ![h] = Callbacks(saved)]
    /\ UNCHANGED <<gw, cached, seen, call, dog, crossed, holds, read, wanted, httpd, window, refused,
                   mitm, awake, life, overtaken>>

LoadSaved(h) ==
    /\ Due(h, "load")
    /\ read' = [read EXCEPT ![h] = apiDisk]
    /\ Done(h)
    /\ UNCHANGED <<gateway, events, holds, apiDisk, wanted, httpd, window, raced, refused, mitm,
                   awake, life, overtaken>>

AssignSaved(h) ==
    /\ Due(h, "assign")
    /\ Decide(h, [holds EXCEPT !.api = read[h]], Tail(todo[h]))
    /\ read' = [read EXCEPT ![h] = FALSE]
    /\ UNCHANGED <<gateway, events, apiDisk, httpd, window, refused, mitm, awake,
                   life, overtaken>>

GatewaySaved(h) ==
    /\ Due(h, "gateway")
    /\ ReloadOrStart(h)
    /\ Done(h)
    /\ UNCHANGED <<disk, gw, cached, seen, dog, history, events, server, mitm, awake, life,
                   overtaken>>

-----------------------------------------------------------------------------
(* The gateway's menu entries and its other threads.                       *)
others == <<server, mitm, awake, life>>

ToggleGateway ==
    /\ Free /\ Happens("gateway")
    /\ IF Running THEN gw' = Stopped /\ broken' = TRUE /\ Goto("main", "halt")
                  ELSE Goto("main", "stop") /\ UNCHANGED <<gw, broken>>
    /\ UNCHANGED <<disk, cached, seen, dog, crossed, todo, others, overtaken>>

ReloadGateway ==
    /\ Free /\ Running /\ Happens("gateway")
    /\ Goto("main", "reload")
    /\ UNCHANGED <<disk, gw, cached, seen, dog, history, todo, others, overtaken>>

RestartGateway ==
    /\ Free /\ Happens("gateway")
    /\ gw' = IF Running THEN Stopped ELSE gw
    /\ Goto("main", IF Running THEN "restart" ELSE "stop")
    /\ UNCHANGED <<disk, cached, seen, dog, history, todo, others, overtaken>>

\* Mutant: the lock goes before the settings server.
MutantLockFirst == <<"lines", "owner", "httpd">>

QuitSteps == <<"lines", "httpd", "owner">>

Calls(t) ==
    /\ Caller(t)
    /\ overtaken' = (overtaken \/ (/\ life # "up" /\ todo["main"] # QuitSteps
                                   /\ gw'.state \in {"claimed", "starting"}))
    /\ UNCHANGED <<todo, others>>

Alone(A) == A /\ UNCHANGED <<todo, others, overtaken>>
Serving  == Alone(Load) \/ Alone(Bind) \/ Alone(ThreadEnds)
Faults   == Alone(PortTaken) \/ Alone(SocketLost)

-----------------------------------------------------------------------------
(* Capture mode.  Its process is the monitor's handle; "alive" counts the  *)
(* mitmdumps that run and have not been told to end.                       *)
StopMonitor(c) ==
    [c EXCEPT !.handle = "none", !.status = "stopped",
              !.alive = IF c.handle = "running" THEN c.alive - 1 ELSE c.alive]

\* Mutant: only a mitmdump that is ready is stopped.
MutantDisable == IF capture.status = "running"
                 THEN [StopMonitor(capture) EXCEPT !.enabled = FALSE]
                 ELSE [capture EXCEPT !.enabled = FALSE]

Disable == IF capture.status # "stopped"
           THEN [StopMonitor(capture) EXCEPT !.enabled = FALSE]
           ELSE [capture EXCEPT !.enabled = FALSE]

Started == LET c == StopMonitor(capture)
           IN  [c EXCEPT !.enabled = TRUE, !.status = "starting", !.handle = "running",
                         !.alive = @ + 1]
SpawnFailed == [StopMonitor(capture) EXCEPT !.status = "error", !.enabled = FALSE]

\* CaptureController.enable: preflight failure, spawn failure, or a process.
Enable ==
    IF capture.status # "stopped"
    THEN capture' = [capture EXCEPT !.enabled = TRUE]
    ELSE capture' \in {capture, SpawnFailed, Started}

\* toggle_capture: at once if the CA is trusted, else through the guide.  (A
\* port the user does not want freed ends it, and changes nothing.)
ToggleCapture ==
    /\ Free /\ Happens("capture")
    /\ IF capture.enabled THEN capture' = Disable /\ UNCHANGED guides
       ELSE \/ Enable /\ UNCHANGED guides
            \/ guides' = guides + 1 /\ UNCHANGED capture
    /\ UNCHANGED <<gateway, todo, server, awake, life, overtaken>>

GuideTrusts ==
    /\ Free /\ guides > 0 /\ Happens("capture")
    /\ guides' = guides - 1
    /\ Enable
    /\ UNCHANGED <<gateway, todo, server, awake, life, overtaken>>

GuideGivenUp ==
    /\ Free /\ guides > 0 /\ Happens("capture")
    /\ guides' = guides - 1
    /\ UNCHANGED <<gateway, todo, server, capture, awake, life, overtaken>>

MitmDies ==
    /\ capture.handle = "running" /\ Happens("capture")
    /\ capture' = [capture EXCEPT !.handle = "dead", !.alive = @ - 1]
    /\ UNCHANGED <<gateway, todo, server, guides, awake, life, overtaken>>

\* SubprocessMonitor.check, once a tick while capture mode is enabled.
Checked ==
    IF ~capture.enabled THEN {capture}
    ELSE CASE capture.handle = "dead" ->
                {[capture EXCEPT !.handle = "none", !.status = "error"]}
           [] capture.handle = "running" /\ capture.status = "starting" ->
                {capture, [capture EXCEPT !.status = "running"]}
           [] OTHER -> {capture}

-----------------------------------------------------------------------------
(* The sleep assertion: the latch follows the wish; a child that did not   *)
(* start leaves the latch down, so that the next tick tries again.         *)
Wish == prevent /\ linked
\* Mutant: the latch rises whatever became of the child.
MutantLatched(ok) == [sleep EXCEPT !.latch = TRUE, !.alive = ok, !.lulled = FALSE]

Acquired(ok) == [sleep EXCEPT !.latch = ok, !.alive = ok, !.lulled = FALSE]
Released     == [latch |-> FALSE, alive |-> FALSE, lulled |-> FALSE]

SyncSleep ==
    CASE Wish /\ ~sleep.latch -> \/ sleep' = Acquired(TRUE) /\ UNCHANGED events
                                 \/ sleep' = Acquired(FALSE) /\ Happens("sleep")
      [] ~Wish /\ sleep.latch -> sleep' = Released /\ UNCHANGED events
      [] OTHER                -> UNCHANGED <<sleep, events>>

TogglePrevent ==
    /\ Free /\ Happens("sleep")
    /\ prevent' = ~prevent
    /\ sleep' = IF prevent' /\ linked /\ ~sleep.latch THEN Acquired(TRUE)
                ELSE IF ~(prevent' /\ linked) /\ sleep.latch THEN Released ELSE sleep
    /\ UNCHANGED <<gateway, todo, server, mitm, linked, allowed, life, overtaken>>

LinkChanges ==
    /\ Happens("sleep")
    /\ linked' = ~linked
    /\ UNCHANGED <<gateway, todo, server, mitm, sleep, prevent, allowed, life, overtaken>>

CaffeinateKilled ==
    /\ sleep.alive /\ Happens("sleep")
    /\ sleep' = [sleep EXCEPT !.alive = FALSE, !.lulled = TRUE]
    /\ UNCHANGED <<gateway, todo, server, mitm, prevent, linked, allowed, life, overtaken>>

-----------------------------------------------------------------------------
(* The tick, the start and the quit.                                       *)
TickBegins ==
    /\ Free
    /\ ReadAddress
    /\ UNCHANGED <<todo, others, overtaken>>

\* LifecycleRuntime.tick and sync_sleep, in the order of the code.
TickEnds ==
    /\ call["main"] = "audit"
    /\ capture' \in Checked
    /\ Audit
    /\ SyncSleep
    /\ UNCHANGED <<todo, server, guides, prevent, linked, allowed, life, overtaken>>

BootServer ==
    /\ Due("main", "boot")
    /\ \E taken \in BOOLEAN :
         IF holds.api THEN StartServer(taken)
         ELSE ~taken /\ UNCHANGED <<httpd, refused, raced, events>>
    /\ Goto("main", "stop")
    /\ Done("main")
    /\ UNCHANGED <<disk, gw, cached, seen, dog, history, holds, apiDisk, read, wanted, window,
                   mitm, awake, life, overtaken>>

Quit ==
    /\ Free /\ Happens("quit")
    /\ life' = "quitting"
    /\ todo' = [todo EXCEPT !["main"] = QuitSteps]
    /\ Overlaps("main")
    /\ UNCHANGED <<gateway, holds, apiDisk, read, wanted, httpd, window, refused, mitm, awake,
                   overtaken>>

\* stop_all: the gateway if it runs, the sleep assertion, capture mode.  Its stop
\* does not wait: mitmdump is sent a SIGTERM and forgotten.
QuitMonitor == [StopMonitor(capture) EXCEPT !.told = (capture.handle = "running")]

\* It ends when it likes; the reaper that would kill it dies with the application.
ToldEnds ==
    /\ capture.told
    /\ capture' = [capture EXCEPT !.told = FALSE]
    /\ UNCHANGED <<gateway, events, todo, server, guides, awake, life, overtaken>>

StopLines ==
    /\ Due("main", "lines")
    /\ gw' = IF Running THEN Stopped ELSE gw
    /\ call' = IF Running THEN [call EXCEPT !["main"] = "halt"] ELSE call
    /\ overtaken' = (overtaken \/ gw.state \in {"claimed", "starting"})
    /\ sleep' = Released
    /\ capture' = QuitMonitor
    /\ Done("main")
    /\ UNCHANGED <<disk, cached, seen, dog, history, events, server, guides,
                   prevent, linked, allowed, life>>

QuitServer ==
    /\ Due("main", "httpd")
    /\ StopServerThread
    /\ Done("main")
    /\ UNCHANGED <<gateway, holds, apiDisk, read, wanted, window, mitm, awake, life, overtaken>>

ReleaseOwner ==
    /\ Due("main", "owner")
    /\ life' = "left"
    /\ Done("main")
    /\ UNCHANGED <<gateway, events, server, mitm, awake, overtaken>>

-----------------------------------------------------------------------------
Init ==
    /\ disk \in Configs \cup {BadConfig}
    /\ gw = Down("stopped")
    /\ cached = None /\ seen = None
    /\ call = [t \in Threads |-> "idle"]
    /\ dog = [misses |-> 0, healing |-> FALSE, backoff |-> FALSE]
    /\ broken = FALSE /\ crossed = FALSE /\ events = 0
    /\ allowed \in Families
    /\ apiDisk \in BOOLEAN
    /\ holds = [window |-> FALSE, api |-> apiDisk, latch |-> FALSE]
    /\ todo = [t \in Threads |-> IF t = "main" THEN <<"boot">> ELSE <<>>]
    /\ read = [h \in Handlers |-> FALSE]
    /\ wanted = [t \in Threads |-> FALSE]
    /\ httpd = "down" /\ window = "none"
    /\ capture = [enabled |-> FALSE, status |-> "stopped", handle |-> "none", alive |-> 0,
                  told |-> FALSE]
    /\ guides = 0
    /\ sleep = Released
    /\ prevent = FALSE /\ linked = FALSE
    /\ life = "up" /\ raced = FALSE /\ refused = FALSE /\ overtaken = FALSE

Menu == \/ OpenWindow \/ CloseWindow \/ Minimise \/ CopyInstructions \/ ToggleApi
        \/ ToggleGateway \/ ReloadGateway \/ RestartGateway
        \/ ToggleCapture \/ GuideTrusts \/ GuideGivenUp \/ TogglePrevent \/ Quit
Main == \/ BootServer \/ Act("main") \/ ShowWindow \/ WindowShown
        \/ TickEnds \/ StopLines \/ QuitServer \/ ReleaseOwner
Request(h) == LoadSaved(h) \/ AssignSaved(h) \/ Act(h) \/ GatewaySaved(h)

Next ==
     \/ Menu \/ Main \/ TickBegins
     \/ \E h \in Handlers : Put(h) \/ Request(h)
     \/ \E t \in Threads : Calls(t)
     \/ Serving \/ Faults \/ Alone(HealStarts) \/ Alone(BackoffEnds)
     \/ ServerThreadEnds \/ WindowRaises
     \/ MitmDies \/ ToldEnds \/ LinkChanges \/ CaffeinateKilled

(* Fairness: a thread that has work goes on, the tick comes, a server's     *)
(* thread ends, time passes.  Clicks, requests and faults are never owed.   *)
Works(t) == \/ Calls(t)
            \/ t = "main" /\ Main
            \/ t = "heal" /\ Alone(HealStarts)
            \/ t \in Handlers /\ Request(t)
Fairness ==
    /\ \A t \in Threads : WF_vars(Works(t))
    /\ WF_vars(TickBegins) /\ WF_vars(Serving) /\ WF_vars(Alone(BackoffEnds))

Spec == Init /\ [][Next]_vars /\ Fairness
-----------------------------------------------------------------------------
(* The settings server listens when somebody wants it and only then, and   *)
(* the api holder in memory is the disk's, once every callback has         *)
(* returned (config_server_wanted, _set_config_holders, _on_mp_saved).     *)
(* Two decisions that overlap may leave it wrong; the next save or switch  *)
(* of the API that meets no other puts it right.  The exception is a port  *)
(* that was taken when the server was last started.                        *)
ServerFollowsHolders ==
    (/\ life = "up" /\ ~raced /\ \A t \in Threads : todo[t] = <<>>)
    => /\ httpd = "up" => Wanted(holds)
       /\ Wanted(holds) => httpd = "up" \/ refused
       /\ holds.api = apiDisk

(* Whoever starts it in whatever order (saves on several threads, the      *)
(* watchdog, the menu), a gateway that accepts serves the configuration    *)
(* that was saved last, once the saves have returned (reload_or_start),    *)
(* while no claim of one thread has met the stop of another (crossed).     *)
ServedIsSaved ==
    (/\ Running /\ gw.port = "open" /\ ~crossed
     /\ \A h \in Handlers : Idle(h))
    => gw.cfg = disk

(* Until the quit at most one mitmdump runs, and none while capture mode   *)
(* is off (CaptureController.disable, SubprocessMonitor.stop).             *)
NoStrayCapture ==
    life = "up" =>
        /\ capture.alive \in {0, 1}
        /\ ~capture.enabled => capture.alive = 0

(* The instance lock is released last: by then everything has been stopped *)
(* or told to end, unless a save or the watchdog started it during the     *)
(* quit, or the quit met it starting (LifecycleRuntime.quit).  A mitmdump  *)
(* and the settings server's thread may still be on their way out.         *)
QuitIsClean ==
    life = "left" =>
        /\ Running => overtaken \/ crossed
        /\ httpd = "up" => raced
        /\ capture.alive = 0 /\ ~sleep.alive

(* A gateway whose port is lost, or that is said to listen somewhere else  *)
(* than it does, does not stay so: the watchdog rebuilds it, unless a      *)
(* claim has met a stop (GatewayWatchdog.tick, _heal_job).                 *)
Zombie == Running /\ (gw.port = "lost" \/ cached \notin {None, gw.cfg})
ZombieIsRebuilt == Zombie ~> (~Zombie \/ life # "up" \/ crossed)

(* A save brings up a gateway that serves it, also one that was dead (its  *)
(* former configuration did not load), unless the user stops it, a stop    *)
(* times out, its port is taken or a claim meets a stop                    *)
(* (SuanpanRuntime.reload_or_start).                                       *)
SaveRevives ==
    \A h \in Handlers :
        (todo[h] # <<>> /\ Head(todo[h]) = "gateway")
        ~> (Running /\ gw.port = "open" /\ gw.cfg = disk) \/ broken \/ crossed
           \/ life # "up"

(* Sleep is held off while something is carried, also after a caffeinate   *)
(* that failed to start; one that was killed is not missed (sync_sleep).   *)
SleepIsHeld == Wish ~> (~Wish \/ sleep.alive \/ sleep.lulled \/ life # "up")

(* The types of the state.                                                 *)
TypeOK ==
    /\ disk \in Configs \cup {BadConfig} /\ cached \in Configs \cup {None}
    /\ gw \in [state: {"stopped", "claimed", "starting", "running", "stopping", "failed"},
              cfg: Configs \cup {None}, port: {"unbound", "open", "lost"}]
    /\ dog \in [misses: 0 .. Misses + 1, healing: BOOLEAN, backoff: BOOLEAN]
    /\ holds \in [window: BOOLEAN, api: BOOLEAN, latch: BOOLEAN]
    /\ httpd \in {"down", "up", "dying"}
    /\ window \in {"none", "shown", "minimised", "closed"}
    /\ capture.alive \in 0 .. 2 /\ life \in {"up", "quitting", "left"}
    /\ sleep \in [latch: BOOLEAN, alive: BOOLEAN, lulled: BOOLEAN]

(* An open settings window has its server: opening it "must not stop the   *)
(* server it is about to use" (_open_config_window).                       *)
WindowIsServed ==
    (/\ window = "shown" /\ Idle("main") /\ ~raced /\ life = "up")
    => httpd = "up"
=============================================================================

---------------------------- MODULE ShellProofs -----------------------------
(***************************************************************************)
(* Machine-checked facts about Shell (and the GatewayRuntime it extends),  *)
(* for any number of request threads of the settings server, any           *)
(* configurations and any mix and number of events.                        *)
(***************************************************************************)
EXTENDS Shell, SequenceTheorems, TLAPS

-----------------------------------------------------------------------------
(* What a thread may have left to do                                       *)

Loading   == {<<"load", "assign", "act">>, <<"load", "assign", "act", "gateway">>}
Assigning == {<<"assign", "act">>, <<"assign", "act", "gateway">>}
Acting    == {<<"act">>, <<"act", "gateway">>}
Owing     == {<<"load", "assign", "act", "gateway">>, <<"assign", "act", "gateway">>,
              <<"act", "gateway">>, <<"gateway">>}
Booting   == <<"boot">>
Deciding  == {<<"act">>, <<"act", "show">>, <<"act", "shown">>}
Leaving   == {QuitSteps, <<"httpd", "owner">>, <<"owner">>}

\* The lists that hold a step of a decision about the settings server.
Syncing == Loading \cup Assigning \cup Acting \cup Deciding
           \cup {QuitSteps, <<"httpd", "owner">>}

HandlerTodos == {<<>>} \cup Loading \cup Assigning \cup Acting \cup Owing
MainTodos    == {<<>>, Booting, <<"show">>, <<"shown">>} \cup Deciding \cup Leaving
Todos        == HandlerTodos \cup MainTodos

\* Thread t is about to act on what it decided about the settings server.
Acts(t) == todo[t] \in Acting \cup Deciding
\* Thread h has saved a configuration that it has yet to bring to the gateway.
Owes(h) == todo[h] \in Owing \/ call[h] \in {"reload", "stop"}

StepNames == {"idle", "audit", "queued", "stop", "shut", "open", "reload", "publish"}
             \cup {"join", "rejoin", "halt", "restart"}

\* The types of what TypeOK leaves out, and of a watchdog that is not healing.
ShapeInv ==
    /\ call \in [Threads -> StepNames]
    /\ todo \in [Threads -> Todos]
    /\ todo["main"] \in MainTodos /\ todo["heal"] = <<>>
    /\ \A h \in Handlers : todo[h] \in HandlerTodos
    /\ read \in [Handlers -> BOOLEAN] /\ wanted \in [Threads -> BOOLEAN]
    /\ apiDisk \in BOOLEAN /\ raced \in BOOLEAN /\ refused \in BOOLEAN
    /\ overtaken \in BOOLEAN
    /\ seen \in Configs \cup {BadConfig, None}
    /\ ~dog.healing => dog.misses <= Misses

\* The monitor's handle tells whether a mitmdump runs, and none runs while capture
\* mode is off or stopped.
CaptureInv ==
    /\ capture \in [enabled: BOOLEAN, status: {"stopped", "starting", "running", "error"},
                    handle: {"none", "running", "dead"}, alive: {0, 1}, told: BOOLEAN]
    /\ capture.alive = 1 <=> capture.handle = "running"
    /\ capture.handle = "running" =>
          capture.enabled /\ capture.status \in {"starting", "running"}

\* A quit has the main thread for itself, and what its steps have taken down stays
\* down.
QuitInv ==
    /\ life = "up" <=> todo["main"] \notin Leaving /\ life # "left"
    /\ life = "left" => todo["main"] = <<>>
    /\ life # "up" =>
          /\ call["main"] \in {"idle", "halt"}
          /\ ~raced => \A h \in Handlers : todo[h] \notin Loading \cup Assigning \cup Acting
          /\ todo["main"] # QuitSteps =>
                /\ capture.alive = 0 /\ ~sleep.alive
                /\ gw.state \in {"claimed", "starting", "running"} => overtaken
          /\ todo["main"] \in {<<>>, <<"owner">>} => (httpd = "up" => raced)

\* A configuration that runs and is no longer the one on disk is about to be
\* replaced by the save that wrote the other.
ServedInv == Running => gw.cfg = disk \/ \E h \in Handlers : Owes(h)

\* One decision about the settings server at a time, made for the holders as they
\* are, and the server as the last one wanted it, unless a save is about to decide
\* from what is on disk.
OneDecision == \A t, u \in Threads : todo[t] \in Syncing /\ todo[u] \in Syncing => t = u

AtBoot == todo["main"] = Booting =>
             /\ httpd = "down" /\ ~holds.window /\ ~holds.latch
             /\ \A h \in Handlers : todo[h] = <<>>

Decided ==
    /\ \A t \in Threads : Acts(t) => wanted[t] = Wanted(holds)
    /\ \A h \in Handlers : todo[h] \in Assigning => read[h] = apiDisk
    /\ (\A h \in Handlers : todo[h] \notin Loading \cup Assigning) => holds.api = apiDisk

Followed == (/\ todo["main"] # Booting /\ \A t \in Threads : ~Acts(t)
             /\ \A h \in Handlers : todo[h] \notin Loading \cup Assigning) =>
               /\ httpd = "up" => Wanted(holds)
               /\ Wanted(holds) => httpd = "up" \/ refused

ServerInv == (life = "up" /\ ~raced) => OneDecision /\ AtBoot /\ Decided /\ Followed

IInv == TypeOK /\ ShapeInv /\ CaptureInv /\ QuitInv /\ ServedInv /\ AtBoot /\ ServerInv

-----------------------------------------------------------------------------
(* Facts about the steps                                                   *)

\* The steps of a list of Todos, one after the other.
LEMMA StepFacts ==
  ASSUME NEW q \in Todos, q # <<>>
  PROVE  /\ q \in MainTodos => Tail(q) \in MainTodos
         /\ q \in HandlerTodos => Tail(q) \in HandlerTodos
         /\ Head(q) = "load" =>
              /\ q \in Loading /\ Tail(q) \in Assigning
              /\ q \in Owing <=> Tail(q) \in Owing
         /\ Head(q) = "assign" =>
              /\ q \in Assigning /\ Tail(q) \in Acting
              /\ q \in Owing <=> Tail(q) \in Owing
         /\ Head(q) = "act" =>
              /\ q \in Acting \cup Deciding
              /\ q \in Acting => Tail(q) \in {<<>>, <<"gateway">>}
              /\ q \in Deciding => Tail(q) \in {<<>>, <<"show">>, <<"shown">>}
              /\ q \in Owing <=> Tail(q) \in Owing
         /\ Head(q) = "gateway" => q = <<"gateway">> /\ Tail(q) = <<>>
         /\ Head(q) = "boot" => q = Booting /\ Tail(q) = <<>>
         /\ Head(q) = "show" => q = <<"show">> /\ Tail(q) = <<>>
         /\ Head(q) = "shown" => q = <<"shown">> /\ Tail(q) = <<>>
         /\ Head(q) = "lines" => q = QuitSteps /\ Tail(q) = <<"httpd", "owner">>
         /\ Head(q) = "httpd" => q = <<"httpd", "owner">> /\ Tail(q) = <<"owner">>
         /\ Head(q) = "owner" => q = <<"owner">> /\ Tail(q) = <<>>
  <1>1. CASE q = <<"load", "assign", "act">>
    <2>1. Head(q) = "load" /\ Tail(q) = <<"assign", "act">>
      BY <1>1
    <2> QED
      BY <1>1, <2>1 DEF Loading, Assigning, Acting, Owing, Booting, Deciding, QuitSteps,
                         MainTodos, HandlerTodos, Leaving
  <1>2. CASE q = <<"load", "assign", "act", "gateway">>
    <2>1. Head(q) = "load" /\ Tail(q) = <<"assign", "act", "gateway">>
      BY <1>2
    <2> QED
      BY <1>2, <2>1 DEF Loading, Assigning, Acting, Owing, Booting, Deciding, QuitSteps,
                         MainTodos, HandlerTodos, Leaving
  <1>3. CASE q = <<"assign", "act">>
    <2>1. Head(q) = "assign" /\ Tail(q) = <<"act">>
      BY <1>3
    <2> QED
      BY <1>3, <2>1 DEF Loading, Assigning, Acting, Owing, Booting, Deciding, QuitSteps,
                         MainTodos, HandlerTodos, Leaving
  <1>4. CASE q = <<"assign", "act", "gateway">>
    <2>1. Head(q) = "assign" /\ Tail(q) = <<"act", "gateway">>
      BY <1>4
    <2> QED
      BY <1>4, <2>1 DEF Loading, Assigning, Acting, Owing, Booting, Deciding, QuitSteps,
                         MainTodos, HandlerTodos, Leaving
  <1>5. CASE q = <<"act">>
    <2>1. Head(q) = "act" /\ Tail(q) = <<>>
      BY <1>5
    <2> QED
      BY <1>5, <2>1 DEF Loading, Assigning, Acting, Owing, Booting, Deciding, QuitSteps,
                         MainTodos, HandlerTodos, Leaving
  <1>6. CASE q = <<"act", "gateway">>
    <2>1. Head(q) = "act" /\ Tail(q) = <<"gateway">>
      BY <1>6
    <2> QED
      BY <1>6, <2>1 DEF Loading, Assigning, Acting, Owing, Booting, Deciding, QuitSteps,
                         MainTodos, HandlerTodos, Leaving
  <1>7. CASE q = <<"gateway">>
    <2>1. Head(q) = "gateway" /\ Tail(q) = <<>>
      BY <1>7
    <2> QED
      BY <1>7, <2>1 DEF Loading, Assigning, Acting, Owing, Booting, Deciding, QuitSteps,
                         MainTodos, HandlerTodos, Leaving
  <1>8. CASE q = <<"boot">>
    <2>1. Head(q) = "boot" /\ Tail(q) = <<>>
      BY <1>8
    <2> QED
      BY <1>8, <2>1 DEF Loading, Assigning, Acting, Owing, Booting, Deciding, QuitSteps,
                         MainTodos, HandlerTodos, Leaving
  <1>9. CASE q = <<"show">>
    <2>1. Head(q) = "show" /\ Tail(q) = <<>>
      BY <1>9
    <2> QED
      BY <1>9, <2>1 DEF Loading, Assigning, Acting, Owing, Booting, Deciding, QuitSteps,
                         MainTodos, HandlerTodos, Leaving
  <1>10. CASE q = <<"shown">>
    <2>1. Head(q) = "shown" /\ Tail(q) = <<>>
      BY <1>10
    <2> QED
      BY <1>10, <2>1 DEF Loading, Assigning, Acting, Owing, Booting, Deciding, QuitSteps,
                         MainTodos, HandlerTodos, Leaving
  <1>11. CASE q = <<"act", "show">>
    <2>1. Head(q) = "act" /\ Tail(q) = <<"show">>
      BY <1>11
    <2> QED
      BY <1>11, <2>1 DEF Loading, Assigning, Acting, Owing, Booting, Deciding, QuitSteps,
                         MainTodos, HandlerTodos, Leaving
  <1>12. CASE q = <<"act", "shown">>
    <2>1. Head(q) = "act" /\ Tail(q) = <<"shown">>
      BY <1>12
    <2> QED
      BY <1>12, <2>1 DEF Loading, Assigning, Acting, Owing, Booting, Deciding, QuitSteps,
                         MainTodos, HandlerTodos, Leaving
  <1>13. CASE q = <<"lines", "httpd", "owner">>
    <2>1. Head(q) = "lines" /\ Tail(q) = <<"httpd", "owner">>
      BY <1>13
    <2> QED
      BY <1>13, <2>1 DEF Loading, Assigning, Acting, Owing, Booting, Deciding, QuitSteps,
                         MainTodos, HandlerTodos, Leaving
  <1>14. CASE q = <<"httpd", "owner">>
    <2>1. Head(q) = "httpd" /\ Tail(q) = <<"owner">>
      BY <1>14
    <2> QED
      BY <1>14, <2>1 DEF Loading, Assigning, Acting, Owing, Booting, Deciding, QuitSteps,
                         MainTodos, HandlerTodos, Leaving
  <1>15. CASE q = <<"owner">>
    <2>1. Head(q) = "owner" /\ Tail(q) = <<>>
      BY <1>15
    <2> QED
      BY <1>15, <2>1 DEF Loading, Assigning, Acting, Owing, Booting, Deciding, QuitSteps,
                         MainTodos, HandlerTodos, Leaving
  <1> QED
    BY <1>1, <1>2, <1>3, <1>4, <1>5, <1>6, <1>7, <1>8, <1>9, <1>10, <1>11, <1>12, <1>13,
       <1>14, <1>15
       DEF Todos, HandlerTodos, MainTodos, Loading, Assigning, Acting, Owing, Booting,
           Deciding, Leaving, QuitSteps

\* Syncing names the lists that Syncs looks for.
LEMMA SyncFacts ==
  ASSUME NEW q \in Todos
  PROVE  (\E i \in DOMAIN q : q[i] \in {"load", "assign", "act", "httpd"}) <=> q \in Syncing
  BY DEF Todos, HandlerTodos, MainTodos, Loading, Assigning, Acting, Owing, Booting,
         Deciding, Leaving, QuitSteps, Syncing

-----------------------------------------------------------------------------
(* The first state                                                         *)

LEMMA InitInv == Init => IInv
  <1> SUFFICES ASSUME Init PROVE IInv
    OBVIOUS
  <1> USE GatewayAssumption
  <1>1. TypeOK
    BY DEF Init, TypeOK, Down, Released
  <1>2. ShapeInv
    <2>1. /\ call \in [Threads -> StepNames]
          /\ read \in [Handlers -> BOOLEAN] /\ wanted \in [Threads -> BOOLEAN]
          /\ apiDisk \in BOOLEAN /\ raced \in BOOLEAN /\ refused \in BOOLEAN
          /\ overtaken \in BOOLEAN
      BY DEF Init, StepNames
    <2>2. /\ seen \in Configs \cup {BadConfig, None}
          /\ ~dog.healing => dog.misses <= Misses
      BY DEF Init
    <2>3. \A t \in Threads : todo[t] = IF t = "main" THEN Booting ELSE <<>>
      BY DEF Init, Booting
    <2>4. {Booting, <<>>} \subseteq MainTodos /\ <<>> \in HandlerTodos
      BY DEF MainTodos, HandlerTodos
    <2>5. todo \in [Threads -> Todos]
      BY <2>3, <2>4 DEF Init, Todos, Booting
    <2> QED
      BY <2>1, <2>2, <2>3, <2>4, <2>5 DEF ShapeInv, Threads
  <1>3. CaptureInv
    BY DEF Init, CaptureInv
  <1>4. QuitInv
    BY DEF Init, QuitInv, Leaving, QuitSteps, Threads
  <1>5. ServedInv
    BY DEF Init, ServedInv, Running, Down
  <1>6. ServerInv
    <2>1. \A t \in Threads : todo[t] = IF t = "main" THEN Booting ELSE <<>>
      BY DEF Init, Booting
    <2>2. Booting \notin Syncing /\ <<>> \notin Syncing
      BY DEF Syncing, Loading, Assigning, Acting, Deciding, Booting, QuitSteps
    <2>3. \A t \in Threads : todo[t] \notin Syncing
      BY <2>1, <2>2
    <2>4. \A h \in Handlers : todo[h] = <<>>
      BY <2>1 DEF Threads
    <2>5. todo["main"] = Booting
      BY <2>1 DEF Threads
    <2>6. \A t \in Threads : ~Acts(t)
      BY <2>3 DEF Acts, Syncing
    <2> QED
      BY <2>2, <2>3, <2>4, <2>5, <2>6
         DEF Init, ServerInv, OneDecision, AtBoot, Decided, Followed, Syncing
  <1>7. AtBoot
    <2>1. todo["main"] = Booting /\ \A h \in Handlers : todo[h] = <<>>
      BY DEF Init, Booting, Threads
    <2> QED
      BY <2>1 DEF Init, AtBoot
  <1> QED
    BY <1>1, <1>2, <1>3, <1>4, <1>5, <1>6, <1>7 DEF IInv

-----------------------------------------------------------------------------
(* Capture mode                                                            *)

\* Stopping the monitor leaves no mitmdump, and disabling and enabling capture mode
\* leave the handle and the mitmdump in step.
LEMMA StopFacts ==
  ASSUME CaptureInv
  PROVE  StopMonitor(capture) =
            [enabled |-> capture.enabled, status |-> "stopped", handle |-> "none",
             alive |-> 0, told |-> capture.told]
  <1> DEFINE left == IF capture.handle = "running" THEN capture.alive - 1 ELSE capture.alive
  <1>1. left = 0
    BY DEF CaptureInv
  <1>2. StopMonitor(capture) = [capture EXCEPT !.handle = "none", !.status = "stopped",
                                               !.alive = left]
    BY DEF StopMonitor
  <1>3. capture = [enabled |-> capture.enabled, status |-> capture.status,
                   handle |-> capture.handle, alive |-> capture.alive,
                   told |-> capture.told]
    BY DEF CaptureInv
  <1> HIDE DEF left
  <1> QED
    BY <1>1, <1>2, <1>3

\* The quit's stop, which tells the mitmdump to end and forgets it.
LEMMA QuitFacts ==
  ASSUME CaptureInv
  PROVE  /\ QuitMonitor = [enabled |-> capture.enabled, status |-> "stopped",
                           handle |-> "none", alive |-> 0,
                           told |-> (capture.handle = "running")]
         /\ capture.enabled \in BOOLEAN
  <1> DEFINE c == [enabled |-> capture.enabled, status |-> "stopped", handle |-> "none",
                   alive |-> 0, told |-> capture.told]
             runs == (capture.handle = "running")
  <1>1. QuitMonitor = [c EXCEPT !.told = runs]
    BY StopFacts DEF QuitMonitor
  <1> HIDE DEF runs
  <1>2. QuitMonitor = [enabled |-> capture.enabled, status |-> "stopped",
                       handle |-> "none", alive |-> 0, told |-> runs]
    BY <1>1
  <1> QED
    BY <1>2 DEF runs, CaptureInv

LEMMA CaptureFacts ==
  ASSUME CaptureInv
  PROVE  /\ capture' = Disable => CaptureInv'
         /\ Enable => CaptureInv'
  <1> DEFINE c == [enabled |-> capture.enabled, status |-> "stopped", handle |-> "none",
                   alive |-> 0, told |-> capture.told]
  <1>1. StopMonitor(capture) = c
    BY StopFacts
  <1>2. ASSUME capture' = Disable PROVE CaptureInv'
    <2>1. CASE capture.status = "stopped"
      BY <2>1, <1>2 DEF CaptureInv, Disable
    <2>2. CASE capture.status # "stopped"
      <3>1. capture' = [c EXCEPT !.enabled = FALSE]
        BY <1>1, <1>2, <2>2 DEF Disable
      <3>2. capture' = [enabled |-> FALSE, status |-> "stopped", handle |-> "none",
                        alive |-> 0, told |-> capture.told]
        BY <3>1
      <3>3. capture.told \in BOOLEAN
        BY DEF CaptureInv
      <3> QED
        BY <3>2, <3>3 DEF CaptureInv
    <2> QED
      BY <2>1, <2>2
  <1>3. ASSUME Enable PROVE CaptureInv'
    <2>0. capture.told \in BOOLEAN
      BY DEF CaptureInv
    <2>1. Started = [enabled |-> TRUE, status |-> "starting", handle |-> "running",
                     alive |-> 1, told |-> capture.told]
      <3> DEFINE one == c.alive + 1
      <3>1. one = 1
        OBVIOUS
      <3>2. Started = [c EXCEPT !.enabled = TRUE, !.status = "starting",
                                !.handle = "running", !.alive = one]
        BY <1>1 DEF Started
      <3> HIDE DEF one
      <3> QED
        BY <3>1, <3>2
    <2>2. SpawnFailed = [enabled |-> FALSE, status |-> "error", handle |-> "none",
                         alive |-> 0, told |-> capture.told]
      <3>1. SpawnFailed = [c EXCEPT !.status = "error", !.enabled = FALSE]
        BY <1>1 DEF SpawnFailed
      <3> QED
        BY <3>1
    <2>3. \/ capture.status # "stopped" /\ capture' = [capture EXCEPT !.enabled = TRUE]
          \/ capture' = capture \/ capture' = Started \/ capture' = SpawnFailed
      BY <1>3 DEF Enable
    <2>4. CASE capture' = [capture EXCEPT !.enabled = TRUE]
      BY <2>4 DEF CaptureInv
    <2>5. CASE capture' = Started
      BY <2>0, <2>1, <2>5 DEF CaptureInv
    <2>6. CASE capture' = SpawnFailed
      BY <2>0, <2>2, <2>6 DEF CaptureInv
    <2> QED
      BY <2>3, <2>4, <2>5, <2>6 DEF CaptureInv
  <1> QED
    BY <1>2, <1>3

LEMMA CaptureStep ==
  ASSUME CaptureInv, [Next]_vars
  PROVE  CaptureInv'
  <1>1. CASE ToggleCapture
    <2>1. capture' = Disable \/ Enable \/ capture' = capture
      BY <1>1 DEF ToggleCapture
    <2>2. CASE capture' = capture
      BY <2>2 DEF CaptureInv
    <2> QED
      BY <2>1, <2>2, CaptureFacts
  <1>2. CASE GuideTrusts
    BY <1>2, CaptureFacts DEF GuideTrusts
  <1>3. CASE MitmDies
    <2>1. /\ capture.handle = "running" /\ capture.alive = 1
          /\ capture' = [capture EXCEPT !.handle = "dead", !.alive = @ - 1]
      BY <1>3 DEF MitmDies, CaptureInv
    <2>2. capture = [enabled |-> capture.enabled, status |-> capture.status,
                     handle |-> capture.handle, alive |-> capture.alive,
                     told |-> capture.told]
      BY DEF CaptureInv
    <2>3. capture' = [enabled |-> capture.enabled, status |-> capture.status,
                      handle |-> "dead", alive |-> 0, told |-> capture.told]
      <3> DEFINE left == capture.alive - 1
      <3>1. left = 0
        BY <2>1
      <3>2. capture' = [capture EXCEPT !.handle = "dead", !.alive = left]
        BY <2>1
      <3> HIDE DEF left
      <3> QED
        BY <2>2, <3>1, <3>2
    <2> QED
      BY <2>1, <2>3 DEF CaptureInv
  <1>4. CASE TickEnds
    <2>1. capture' \in Checked
      BY <1>4 DEF TickEnds
    <2>2. \/ capture' = capture
          \/ /\ capture.handle = "dead"
             /\ capture' = [capture EXCEPT !.handle = "none", !.status = "error"]
          \/ /\ capture.handle = "running"
             /\ capture' = [capture EXCEPT !.status = "running"]
      BY <2>1 DEF Checked
    <2> QED
      BY <2>2 DEF CaptureInv
  <1>5. CASE StopLines
    <2> DEFINE runs == (capture.handle = "running")
    <2>1. capture' = QuitMonitor
      BY <1>5 DEF StopLines
    <2>2. capture' = [enabled |-> capture.enabled, status |-> "stopped",
                      handle |-> "none", alive |-> 0, told |-> runs]
      BY <2>1, QuitFacts
    <2>3. runs \in BOOLEAN /\ capture.enabled \in BOOLEAN
      BY QuitFacts
    <2> HIDE DEF runs
    <2> QED
      BY <2>2, <2>3 DEF CaptureInv
  <1>6. ASSUME ~ToggleCapture, ~GuideTrusts, ~MitmDies, ~TickEnds, ~StopLines, ~ToldEnds
        PROVE  capture' = capture
    BY <1>6 DEF Next, Menu, Main, Request, Serving, Faults, Alone, others, mitm, vars,
       OpenWindow, CloseWindow, Minimise, CopyInstructions, ToggleApi, ToggleGateway,
       ReloadGateway, RestartGateway, GuideGivenUp, TogglePrevent, Quit, BootServer, Act,
       ShowWindow, WindowShown, QuitServer, ReleaseOwner, TickBegins, Put, LoadSaved,
       AssignSaved, GatewaySaved, Calls, ServerThreadEnds, WindowRaises, LinkChanges,
       CaffeinateKilled
  <1>7. CASE capture' = capture
    BY <1>7 DEF CaptureInv
  <1>8. CASE ToldEnds
    BY <1>8 DEF ToldEnds, CaptureInv
  <1> QED
    BY <1>1, <1>2, <1>3, <1>4, <1>5, <1>6, <1>7, <1>8

-----------------------------------------------------------------------------
(* Types of the gateway's runtime                                          *)

Servers == [state: {"stopped", "claimed", "starting", "running", "stopping", "failed"},
            cfg: Configs \cup {None}, port: {"unbound", "open", "lost"}]
Dogs    == [misses: 0 .. Misses + 1, healing: BOOLEAN, backoff: BOOLEAN]

RuntimeTypes ==
    /\ disk \in Configs \cup {BadConfig} /\ cached \in Configs \cup {None}
    /\ seen \in Configs \cup {BadConfig, None}
    /\ gw \in Servers
    /\ dog \in Dogs /\ (~dog.healing => dog.misses <= Misses)
    /\ call \in [Threads -> StepNames]

LEMMA DownType ==
  \A st \in {"stopped", "claimed", "starting", "failed"} : Down(st) \in Servers
  BY DEF Down, Servers

LEMMA StoppedFacts ==
  ASSUME gw \in Servers
  PROVE  Stopped \in Servers /\ Stopped.state \in {"stopped", "failed"}
  BY DownType DEF Stopped, Ended, Down, Servers

\* A stop leaves a server that no longer runs.
LEMMA StopServerFacts ==
  ASSUME gw \in Servers, NEW late \in BOOLEAN, StopServer(late)
  PROVE  gw' \in Servers /\ gw'.state \in {"stopped", "failed", "stopping"}
  <1>1. CASE late
    BY <1>1 DEF StopServer, Servers
  <1>2. CASE ~late
    BY <1>2, StoppedFacts DEF StopServer
  <1> QED
    BY <1>1, <1>2

\* Nor does a server run behind the second stop of a start.
LEMMA LaunchStopsFacts ==
  ASSUME gw \in Servers, NEW t \in Threads, LaunchStops(t)
  PROVE  gw'.state # "running"
  <1>1. CASE Ended /\ gw' = gw
    BY <1>1 DEF Ended
  <1>2. ASSUME NEW late \in BOOLEAN, StopServer(late) PROVE gw'.state # "running"
    BY <1>2, StopServerFacts
  <1>3. \/ Ended /\ gw' = gw
        \/ StopServer(FALSE) \/ StopServer(TRUE)
    BY DEF LaunchStops
  <1> QED
    BY <1>1, <1>2, <1>3

\* The other steps of a call start nothing that runs at once.
LEMMA LaunchFacts ==
  ASSUME NEW t \in Threads,
         LaunchClaims(t) \/ LaunchPublishes(t) \/ Joined(t) \/ Reload(t)
  PROVE  gw' = gw \/ gw'.state # "running"
  <1>1. CASE LaunchClaims(t)
    <2>1. CASE Ended
      BY <1>1, <2>1 DEF LaunchClaims, Down
    <2>2. CASE ~Ended
      BY <1>1, <2>2 DEF LaunchClaims
    <2> QED
      BY <2>1, <2>2
  <1>4. CASE LaunchPublishes(t)
    <2>1. gw' = gw \/ gw' = Down("starting")
      BY <1>4, Zenon DEF LaunchPublishes
    <2> QED
      BY <2>1 DEF Down
  <1>2. CASE Joined(t)
    BY <1>2, Zenon DEF Joined
  <1>3. CASE Reload(t)
    BY <1>3 DEF Reload, history
  <1> QED
    BY <1>1, <1>2, <1>3, <1>4

LEMMA GotoType ==
  ASSUME call \in [Threads -> StepNames], NEW t \in Threads, NEW step \in StepNames,
         Goto(t, step)
  PROVE  call' \in [Threads -> StepNames]
  BY DEF Goto

LEMMA HealType ==
  ASSUME NEW ok \in BOOLEAN, HealEnds(ok)
  PROVE  dog' \in Dogs /\ (~dog'.healing => dog'.misses <= Misses)
  BY GatewayAssumption DEF HealEnds, Dogs

LEMMA ReturnType ==
  ASSUME RuntimeTypes, NEW t \in Threads, NEW ok \in BOOLEAN, Returns(t, ok)
  PROVE  /\ call' \in [Threads -> StepNames]
         /\ dog' \in Dogs /\ (~dog'.healing => dog'.misses <= Misses)
  <1>1. call' \in [Threads -> StepNames]
    BY GotoType DEF Returns, RuntimeTypes, StepNames
  <1>2. CASE t = "heal"
    BY <1>1, <1>2, HealType DEF Returns
  <1>3. CASE t # "heal"
    BY <1>1, <1>3 DEF Returns, RuntimeTypes
  <1> QED
    BY <1>2, <1>3

LEMMA CallerType ==
  ASSUME RuntimeTypes, NEW t \in Threads, Caller(t)
  PROVE  RuntimeTypes'
  <1> USE DEF RuntimeTypes
  <1>1. CASE StartStops(t)
    <2>1. PICK late \in BOOLEAN :
             StopServer(late) /\ Goto(t, IF late THEN "shut" ELSE "join")
      BY <1>1 DEF StartStops
    <2> QED
      BY <1>1, <2>1, StopServerFacts, GotoType DEF StartStops, StepNames
  <1>2. CASE LaunchStops(t)
    <2>1. CASE StopServer(FALSE) /\ Goto(t, "rejoin") /\ UNCHANGED dog
      BY <1>2, <2>1, StopServerFacts, GotoType DEF LaunchStops, StepNames
    <2>3. CASE Goto(t, "open") /\ UNCHANGED <<gw, dog, history, events>>
      BY <1>2, <2>3, GotoType DEF LaunchStops, StepNames
    <2>2. CASE StopServer(TRUE) /\ Returns(t, FALSE)
      BY <1>2, <2>2, StopServerFacts, ReturnType DEF LaunchStops
    <2> QED
      BY <1>2, <2>1, <2>2, <2>3 DEF LaunchStops
  <1>3. CASE LaunchClaims(t)
    <2>1. CASE Ended
      BY <1>3, <2>1, DownType, GotoType DEF LaunchClaims, StepNames
    <2>2. CASE ~Ended
      BY <1>3, <2>2, ReturnType DEF LaunchClaims
    <2> QED
      BY <2>1, <2>2
  <1>4. CASE LaunchPublishes(t)
    <2>1. gw' \in Servers
      BY <1>4, DownType DEF LaunchPublishes
    <2> QED
      BY <1>4, <2>1, ReturnType DEF LaunchPublishes
  <1>5. CASE Joined(t)
    <2>1. call' \in [Threads -> StepNames]
      BY <1>5, GotoType DEF Joined, Joining, StepNames
    <2> QED
      BY <1>5, <2>1 DEF Joined
  <1>6. CASE Reload(t)
    BY <1>6, GotoType DEF Reload, StepNames
  <1> QED
    BY <1>1, <1>2, <1>3, <1>4, <1>5, <1>6 DEF Caller

LEMMA ServingType ==
  ASSUME RuntimeTypes,
         Load \/ Bind \/ ThreadEnds \/ PortTaken \/ SocketLost \/ HealStarts \/ BackoffEnds
  PROVE  RuntimeTypes'
  <1> USE DEF RuntimeTypes
  <1>1. CASE Load
    <2>1. CASE disk = BadConfig
      BY <1>1, <2>1, DownType DEF Load
    <2>2. CASE disk # BadConfig
      BY <1>1, <2>2 DEF Load, Servers
    <2> QED
      BY <2>1, <2>2
  <1>2. CASE Bind \/ SocketLost
    BY <1>2 DEF Bind, SocketLost, Servers
  <1>3. CASE ThreadEnds \/ PortTaken
    BY <1>3, DownType DEF ThreadEnds, PortTaken
  <1>4. CASE HealStarts
    BY <1>4, GotoType DEF HealStarts, StepNames, Threads
  <1>5. CASE BackoffEnds
    BY <1>5 DEF BackoffEnds, Dogs
  <1> QED
    BY <1>1, <1>2, <1>3, <1>4, <1>5

\* The watchdog's count stays within one of its threshold.
LEMMA AuditType ==
  ASSUME RuntimeTypes, Audit
  PROVE  RuntimeTypes'
  <1> USE DEF RuntimeTypes
  <1>1. dog' \in Dogs /\ (~dog'.healing => dog'.misses <= Misses)
    <2> USE GatewayAssumption DEF Dogs
    <2>1. CASE dog.healing
      BY <2>1 DEF Audit, Judge
    <2>2. CASE ~dog.healing /\ dog' = [dog EXCEPT !.misses = 0]
      BY <2>2
    <2>3. CASE ~dog.healing /\ (dog.misses + 1 < Misses \/ dog.backoff)
               /\ dog' = [dog EXCEPT !.misses = IF dog.misses + 1 < Misses
                                                THEN dog.misses + 1 ELSE Misses]
      BY <2>3
    <2>4. CASE ~dog.healing /\ dog' = [dog EXCEPT !.misses = dog.misses + 1, !.healing = TRUE]
      <3>1. dog.misses + 1 \in 0 .. Misses + 1
        BY <2>4
      <3>2. dog'.healing = TRUE
        BY <2>4
      <3> QED
        BY <2>4, <3>1, <3>2
    <2> QED
      BY <2>1, <2>2, <2>3, <2>4 DEF Audit, Judge
  <1>2. call' \in [Threads -> StepNames]
    BY DEF Audit, StepNames
  <1> QED
    BY <1>1, <1>2 DEF Audit

-----------------------------------------------------------------------------
(* Types of the rest                                                       *)

TodoTypes ==
    /\ todo \in [Threads -> Todos]
    /\ todo["main"] \in MainTodos /\ todo["heal"] = <<>>
    /\ \A h \in Handlers : todo[h] \in HandlerTodos

Holds  == [window: BOOLEAN, api: BOOLEAN, latch: BOOLEAN]
Sleeps == [latch: BOOLEAN, alive: BOOLEAN, lulled: BOOLEAN]

ShellTypes ==
    /\ read \in [Handlers -> BOOLEAN] /\ wanted \in [Threads -> BOOLEAN]
    /\ apiDisk \in BOOLEAN /\ raced \in BOOLEAN /\ refused \in BOOLEAN
    /\ overtaken \in BOOLEAN
    /\ holds \in Holds /\ sleep \in Sleeps
    /\ httpd \in {"down", "up", "dying"}
    /\ window \in {"none", "shown", "minimised", "closed"}
    /\ life \in {"up", "quitting", "left"}

LEMMA TypeParts ==
  /\ TypeOK /\ ShapeInv => RuntimeTypes /\ TodoTypes /\ ShellTypes
  /\ RuntimeTypes /\ TodoTypes /\ ShellTypes /\ CaptureInv => TypeOK /\ ShapeInv
  BY DEF TypeOK, ShapeInv, RuntimeTypes, TodoTypes, ShellTypes, Servers, Dogs, Holds, Sleeps,
         CaptureInv

LEMMA ThreadFacts ==
  /\ Handlers \subseteq Threads /\ {"main", "heal"} \subseteq Threads
  /\ \A h \in Handlers : h # "main" /\ h # "heal"
  BY GatewayAssumption DEF Threads

LEMMA MainTodo ==
  ASSUME TodoTypes, NEW q \in MainTodos, todo' = [todo EXCEPT !["main"] = q]
  PROVE  TodoTypes'
  BY ThreadFacts DEF TodoTypes, Todos

LEMMA HandlerTodo ==
  ASSUME TodoTypes, NEW h \in Handlers, NEW q \in HandlerTodos,
         todo' = [todo EXCEPT ![h] = q]
  PROVE  TodoTypes'
  BY ThreadFacts DEF TodoTypes, Todos

LEMMA DoneType ==
  ASSUME TodoTypes, NEW t \in Threads, todo[t] # <<>>, Done(t)
  PROVE  TodoTypes'
  <1>1. todo[t] \in Todos
    BY DEF TodoTypes
  <1>2. CASE t = "main"
    <2>1. Tail(todo["main"]) \in MainTodos
      BY <1>1, <1>2, StepFacts DEF TodoTypes
    <2> QED
      BY <1>2, <2>1, MainTodo DEF Done
  <1>3. CASE t \in Handlers
    <2>1. Tail(todo[t]) \in HandlerTodos
      BY <1>1, <1>3, StepFacts DEF TodoTypes
    <2> QED
      BY <1>3, <2>1, HandlerTodo DEF Done
  <1>4. t # "heal"
    BY DEF TodoTypes
  <1> QED
    BY <1>2, <1>3, <1>4 DEF Threads

\* Every decision of the main thread and of a request keeps the types.
LEMMA DecideType ==
  ASSUME TodoTypes, ShellTypes, NEW t \in Threads, NEW h \in Holds, NEW q,
         (t = "main" /\ q \in MainTodos) \/ (t \in Handlers /\ q \in HandlerTodos),
         Chooses(t, h, q), Overlaps(t) \/ BeginsAfresh(t)
  PROVE  /\ TodoTypes'
         /\ holds' \in Holds /\ wanted' \in [Threads -> BOOLEAN] /\ raced' \in BOOLEAN
  <1>1. TodoTypes'
    BY MainTodo, HandlerTodo DEF Chooses
  <1>2. Wanted(h) \in BOOLEAN
    BY DEF Wanted, Holds
  <1> QED
    BY <1>1, <1>2 DEF Chooses, Overlaps, BeginsAfresh, ShellTypes

LEMMA StartServerType ==
  ASSUME ShellTypes, NEW taken \in BOOLEAN, StartServer(taken)
  PROVE  httpd' \in {"down", "up", "dying"} /\ refused' \in BOOLEAN /\ raced' \in BOOLEAN
  BY DEF StartServer, ShellTypes

\* What the menu, the window and the quit may make of the holders and the steps.
LEMMA WindowTypes ==
  ASSUME TodoTypes, ShellTypes,
         OpenWindow \/ ShowWindow \/ WindowRaises \/ WindowShown \/ CloseWindow
         \/ Minimise \/ CopyInstructions \/ ToggleApi
  PROVE  TodoTypes' /\ ShellTypes'
  <1> USE DEF ShellTypes
  <1>1. {<<"act", "show">>, <<"act", "shown">>, <<"act">>} \subseteq MainTodos
    BY DEF MainTodos, Deciding
  <1>2. /\ [holds EXCEPT !.window = TRUE] \in Holds /\ [holds EXCEPT !.window = FALSE] \in Holds
        /\ [holds EXCEPT !.latch = TRUE] \in Holds /\ [holds EXCEPT !.api = ~apiDisk] \in Holds
    BY DEF Holds
  <1>3. CASE OpenWindow
    BY <1>1, <1>2, <1>3, DecideType, ThreadFacts DEF Decide, OpenWindow, awake, mitm
  <1>4. CASE ShowWindow
    <2>1. CASE window = "minimised"
      BY <1>1, <1>2, <1>4, <2>1, DecideType, ThreadFacts
         DEF Decide, ShowWindow, Replaced, awake, mitm
    <2>2. CASE window # "minimised"
      BY <1>4, <2>2, DoneType, ThreadFacts DEF ShowWindow, Due, awake, mitm
    <2> QED
      BY <2>1, <2>2
  <1>5. CASE WindowRaises
    BY <1>1, <1>2, <1>5, DecideType, ThreadFacts DEF Decide, WindowRaises, ShowFails, awake, mitm
  <1>6. CASE WindowShown
    BY <1>6, DoneType, ThreadFacts DEF WindowShown, Due, awake, mitm
  <1>7. CASE CloseWindow
    BY <1>1, <1>2, <1>7, DecideType, ThreadFacts DEF Decide, CloseWindow, awake, mitm
  <1>8. CASE Minimise
    BY <1>8 DEF Minimise, TodoTypes, awake, mitm
  <1>9. CASE CopyInstructions
    BY <1>1, <1>2, <1>9, DecideType, ThreadFacts DEF Decide, CopyInstructions, awake, mitm
  <1>10. CASE ToggleApi
    BY <1>1, <1>2, <1>10, DecideType, ThreadFacts DEF ToggleApi, awake, mitm
  <1> QED
    BY <1>3, <1>4, <1>5, <1>6, <1>7, <1>8, <1>9, <1>10

LEMMA CallbackFacts ==
  /\ Callbacks({"mp"}) = <<"load", "assign", "act">>
  /\ Callbacks({"sp"}) = <<"gateway">>
  /\ Callbacks({"mp", "sp"}) = <<"load", "assign", "act", "gateway">>
  <1>1. Callbacks({"mp"}) = <<"load", "assign", "act">>
    BY DEF Callbacks
  <1>2. Callbacks({"sp"}) = <<"gateway">>
    BY DEF Callbacks
  <1>3. Callbacks({"mp", "sp"}) = <<"load", "assign", "act", "gateway">>
    <2> DEFINE S == {"load", "assign", "act", "gateway"}
               mp == <<"load", "assign", "act">>
               sp == <<"gateway">>
               both == <<"load", "assign", "act", "gateway">>
    <2>1. mp \in Seq(S) /\ sp \in Seq(S) /\ both \in Seq(S)
      OBVIOUS
    <2>2. mp \o sp \in Seq(S) /\ Len(mp \o sp) = Len(both)
      BY <2>1
    <2>3. \A i \in 1 .. 4 : (mp \o sp)[i] = both[i]
      BY <2>1
    <2> HIDE DEF mp, sp
    <2>4. mp \o sp = both
      BY <2>1, <2>2, <2>3, SeqEqual
    <2> USE DEF mp, sp
    <2> QED
      BY <2>4 DEF Callbacks
  <1> QED
    BY <1>1, <1>2, <1>3

LEMMA CallbackTypes ==
  \A saved \in Sections : Callbacks(saved) \in HandlerTodos
  BY CallbackFacts DEF Sections, HandlerTodos, Loading, Owing

\* A thread that acts on its decision starts or stops the server, and a window that
\* finds the port taken stays shut.
LEMMA ActTypes ==
  ASSUME TodoTypes, ShellTypes, NEW t \in Threads, Act(t)
  PROVE  TodoTypes' /\ ShellTypes'
  <1> USE DEF ShellTypes
  <1>1. todo[t] # <<>>
    BY DEF Act, Due
  <1>2. t = "main" \/ t \in Handlers
    BY <1>1 DEF TodoTypes, Threads
  <1>3. PICK taken \in BOOLEAN :
           IF wanted[t]
           THEN /\ StartServer(taken)
                /\ IF taken /\ Tail(todo[t]) = <<"show">>
                   THEN /\ todo' = [todo EXCEPT ![t] = <<>>]
                        /\ holds' = [holds EXCEPT !.window = FALSE]
                   ELSE Done(t) /\ UNCHANGED holds
           ELSE ~taken /\ StopServerThread /\ Done(t) /\ UNCHANGED holds
    BY DEF Act
  <1>4. <<>> \in MainTodos /\ <<>> \in HandlerTodos
    BY DEF MainTodos, HandlerTodos
  <1>5. TodoTypes' /\ holds' \in Holds
    <2>1. CASE Done(t) /\ UNCHANGED holds
      BY <1>1, <2>1, DoneType
    <2>2. CASE /\ todo' = [todo EXCEPT ![t] = <<>>]
               /\ holds' = [holds EXCEPT !.window = FALSE]
      BY <1>2, <1>4, <2>2, MainTodo, HandlerTodo DEF Holds
    <2> QED
      BY <1>3, <2>1, <2>2
  <1>6. httpd' \in {"down", "up", "dying"} /\ refused' \in BOOLEAN /\ raced' \in BOOLEAN
    <2>1. CASE StartServer(taken)
      BY <2>1, StartServerType
    <2>2. CASE StopServerThread
      BY <2>2 DEF StopServerThread
    <2> QED
      BY <1>3, <2>1, <2>2
  <1>7. wanted' \in [Threads -> BOOLEAN]
    BY DEF Act
  <1> QED
    BY <1>5, <1>6, <1>7 DEF Act, awake, mitm

LEMMA RequestTypes ==
  ASSUME TodoTypes, ShellTypes, NEW h \in Handlers,
         Put(h) \/ LoadSaved(h) \/ AssignSaved(h) \/ GatewaySaved(h)
  PROVE  TodoTypes' /\ ShellTypes'
  <1> USE DEF ShellTypes, awake, mitm, server
  <1>1. h \in Threads /\ todo[h] \in Todos
    BY ThreadFacts DEF TodoTypes
  <1>2. CASE Put(h)
    <2>1. PICK saved \in Sections :
             /\ IF "mp" \in saved THEN apiDisk' \in BOOLEAN /\ BeginsAfresh(h)
                                  ELSE UNCHANGED <<apiDisk, raced>>
             /\ todo' = [todo EXCEPT ![h] = Callbacks(saved)]
      BY <1>2 DEF Put
    <2>2. apiDisk' \in BOOLEAN /\ raced' \in BOOLEAN
      BY <2>1 DEF BeginsAfresh
    <2>3. TodoTypes'
      BY <2>1, CallbackTypes, HandlerTodo
    <2> QED
      BY <1>2, <2>2, <2>3 DEF Put
  <1>3. CASE LoadSaved(h)
    BY <1>1, <1>3, DoneType DEF LoadSaved, Due
  <1>4. CASE AssignSaved(h)
    <2>1. todo[h] # <<>> /\ Tail(todo[h]) \in HandlerTodos
      BY <1>1, <1>4, StepFacts DEF AssignSaved, Due, TodoTypes
    <2>2. [holds EXCEPT !.api = read[h]] \in Holds
      BY DEF Holds
    <2> QED
      BY <1>1, <1>4, <2>1, <2>2, DecideType DEF Decide, AssignSaved
  <1>5. CASE GatewaySaved(h)
    BY <1>1, <1>5, DoneType DEF GatewaySaved, Due
  <1> QED
    BY <1>2, <1>3, <1>4, <1>5

\* The gateway's menu entries and the sleep assertion.
LEMMA MenuTypes ==
  ASSUME RuntimeTypes, TodoTypes, ShellTypes,
         ToggleGateway \/ ReloadGateway \/ RestartGateway \/ TogglePrevent \/ LinkChanges
         \/ CaffeinateKilled
  PROVE  RuntimeTypes' /\ TodoTypes' /\ ShellTypes'
  <1> USE ThreadFacts DEF RuntimeTypes, ShellTypes, others, server, awake, mitm, gateway
  <1>1. CASE ToggleGateway \/ ReloadGateway \/ RestartGateway
    <2>1. TodoTypes' /\ ShellTypes'
      BY <1>1 DEF ToggleGateway, ReloadGateway, RestartGateway, TodoTypes
    <2>2. gw' \in Servers
      BY <1>1, StoppedFacts DEF ToggleGateway, ReloadGateway, RestartGateway
    <2>3. call' \in [Threads -> StepNames]
      BY <1>1, GotoType DEF ToggleGateway, ReloadGateway, RestartGateway, StepNames
    <2> QED
      BY <1>1, <2>1, <2>2, <2>3 DEF ToggleGateway, ReloadGateway, RestartGateway
  <1>2. CASE TogglePrevent
    <2>1. sleep' \in Sleeps
      BY <1>2 DEF TogglePrevent, Acquired, Released, Sleeps
    <2>2. UNCHANGED <<gateway, todo, server, life, overtaken>>
      BY <1>2 DEF TogglePrevent
    <2> QED
      BY <2>1, <2>2 DEF TodoTypes
  <1>3. CASE LinkChanges
    BY <1>3 DEF LinkChanges, TodoTypes
  <1>4. CASE CaffeinateKilled
    <2>1. sleep' \in Sleeps
      BY <1>4 DEF CaffeinateKilled, Sleeps
    <2> QED
      BY <1>4, <2>1 DEF CaffeinateKilled, TodoTypes
  <1> QED
    BY <1>1, <1>2, <1>3, <1>4

\* The start, the tick and the quit.
LEMMA MainTypes ==
  ASSUME RuntimeTypes, TodoTypes, ShellTypes,
         BootServer \/ TickBegins \/ TickEnds \/ Quit \/ StopLines \/ QuitServer
         \/ ReleaseOwner
  PROVE  RuntimeTypes' /\ TodoTypes' /\ ShellTypes'
  <1> USE ThreadFacts DEF others, server, awake, mitm, gateway
  <1>1. CASE BootServer
    <2>1. PICK taken \in BOOLEAN :
             IF holds.api THEN StartServer(taken)
             ELSE ~taken /\ UNCHANGED <<httpd, refused, raced, events>>
      BY <1>1 DEF BootServer
    <2>2. httpd' \in {"down", "up", "dying"} /\ refused' \in BOOLEAN /\ raced' \in BOOLEAN
      BY <2>1, StartServerType DEF ShellTypes
    <2>3. call' \in [Threads -> StepNames]
      BY <1>1, GotoType DEF BootServer, RuntimeTypes, StepNames
    <2>4. TodoTypes'
      BY <1>1, DoneType DEF BootServer, Due
    <2> QED
      BY <1>1, <2>2, <2>3, <2>4 DEF BootServer, RuntimeTypes, ShellTypes
  <1>2. CASE TickBegins
    <2>1. seen' \in Configs \cup {BadConfig, None}
      BY <1>2 DEF TickBegins, ReadAddress, Address, RuntimeTypes
    <2>2. call' \in [Threads -> StepNames]
      BY <1>2, GotoType DEF TickBegins, ReadAddress, RuntimeTypes, StepNames
    <2> QED
      BY <1>2, <2>1, <2>2
         DEF TickBegins, ReadAddress, RuntimeTypes, ShellTypes, TodoTypes
  <1>3. CASE TickEnds
    <2>1. RuntimeTypes'
      BY <1>3, AuditType DEF TickEnds
    <2>2. sleep' \in Sleeps
      <3>1. \A ok \in BOOLEAN : Acquired(ok) \in Sleeps
        BY DEF Acquired, Sleeps, ShellTypes
      <3>2. Released \in Sleeps
        BY DEF Released, Sleeps
      <3>3. \/ sleep' = Acquired(TRUE) \/ sleep' = Acquired(FALSE)
            \/ sleep' = Released \/ sleep' = sleep
        BY <1>3 DEF TickEnds, SyncSleep
      <3> QED
        BY <3>1, <3>2, <3>3 DEF ShellTypes
    <2> QED
      BY <1>3, <2>1, <2>2 DEF TickEnds, ShellTypes, TodoTypes
  <1>4. CASE Quit
    <2>1. QuitSteps \in MainTodos
      BY DEF MainTodos, Leaving
    <2>2. TodoTypes'
      BY <1>4, <2>1, MainTodo DEF Quit
    <2> QED
      BY <1>4, <2>2 DEF Quit, Overlaps, RuntimeTypes, ShellTypes
  <1>5. CASE StopLines
    <2>1. TodoTypes'
      BY <1>5, DoneType DEF StopLines, Due
    <2>2. gw' \in Servers /\ call' \in [Threads -> StepNames]
      BY <1>5, StoppedFacts DEF StopLines, RuntimeTypes, StepNames
    <2>3. sleep' \in Sleeps /\ overtaken' \in BOOLEAN
      BY <1>5 DEF StopLines, Released, Sleeps, ShellTypes
    <2> QED
      BY <1>5, <2>1, <2>2, <2>3 DEF StopLines, RuntimeTypes, ShellTypes
  <1>6. CASE QuitServer
    <2>1. TodoTypes'
      BY <1>6, DoneType DEF QuitServer, Due
    <2>2. RuntimeTypes'
      BY <1>6 DEF QuitServer, StopServerThread, RuntimeTypes
    <2>3. httpd' \in {"down", "up", "dying"} /\ refused' \in BOOLEAN
      BY <1>6 DEF QuitServer, StopServerThread, ShellTypes
    <2>4. UNCHANGED <<read, wanted, apiDisk, raced, overtaken, holds, sleep, window, life>>
      BY <1>6 DEF QuitServer, StopServerThread, awake
    <2> QED
      BY <2>1, <2>2, <2>3, <2>4 DEF ShellTypes
  <1>7. CASE ReleaseOwner
    <2>1. TodoTypes'
      BY <1>7, DoneType DEF ReleaseOwner, Due
    <2> QED
      BY <1>7, <2>1 DEF ReleaseOwner, RuntimeTypes, ShellTypes
  <1> QED
    BY <1>1, <1>2, <1>3, <1>4, <1>5, <1>6, <1>7

LEMMA TypeStep ==
  ASSUME TypeOK, ShapeInv, CaptureInv', [Next]_vars
  PROVE  TypeOK' /\ ShapeInv'
  <1>1. RuntimeTypes /\ TodoTypes /\ ShellTypes
    BY TypeParts
  <1> SUFFICES RuntimeTypes' /\ TodoTypes' /\ ShellTypes'
    BY TypeParts, PTL
  <1> USE DEF others, server, awake, mitm, gateway
  <1>2. CASE OpenWindow \/ ShowWindow \/ WindowRaises \/ WindowShown \/ CloseWindow
             \/ Minimise \/ CopyInstructions \/ ToggleApi
    <2>1. UNCHANGED gateway
      BY <1>2 DEF OpenWindow, ShowWindow, WindowRaises, WindowShown, CloseWindow, Minimise,
                  CopyInstructions, ToggleApi
    <2> QED
      BY <1>1, <1>2, <2>1, WindowTypes DEF RuntimeTypes
  <1>3. CASE ToggleGateway \/ ReloadGateway \/ RestartGateway \/ TogglePrevent
             \/ LinkChanges \/ CaffeinateKilled
    BY <1>1, <1>3, MenuTypes
  <1>4. CASE BootServer \/ TickBegins \/ TickEnds \/ Quit \/ StopLines \/ QuitServer
             \/ ReleaseOwner
    BY <1>1, <1>4, MainTypes
  <1>5. CASE ToggleCapture \/ GuideTrusts \/ GuideGivenUp \/ MitmDies \/ ToldEnds
    BY <1>1, <1>5 DEF ToggleCapture, GuideTrusts, GuideGivenUp, MitmDies, ToldEnds,
                      RuntimeTypes, TodoTypes, ShellTypes
  <1>6. ASSUME NEW t \in Threads, Act(t) PROVE RuntimeTypes' /\ TodoTypes' /\ ShellTypes'
    BY <1>1, <1>6, ActTypes DEF Act, RuntimeTypes
  <1>7. ASSUME NEW h \in Handlers, Put(h) \/ LoadSaved(h) \/ AssignSaved(h) \/ GatewaySaved(h)
        PROVE  RuntimeTypes' /\ TodoTypes' /\ ShellTypes'
    <2>1. CASE Put(h) \/ LoadSaved(h) \/ AssignSaved(h)
      BY <1>1, <2>1, RequestTypes DEF Put, LoadSaved, AssignSaved, RuntimeTypes
    <2>2. CASE GatewaySaved(h)
      <3>1. call' \in [Threads -> StepNames]
        BY <1>1, <2>2, GotoType, ThreadFacts
           DEF GatewaySaved, ReloadOrStart, RuntimeTypes, StepNames
      <3> QED
        BY <1>1, <2>2, <3>1, RequestTypes DEF GatewaySaved, RuntimeTypes
    <2> QED
      BY <1>7, <2>1, <2>2
  <1>8. ASSUME NEW t \in Threads, Calls(t) PROVE RuntimeTypes' /\ TodoTypes' /\ ShellTypes'
    <2>1. overtaken' \in BOOLEAN
      BY <1>1, <1>8 DEF Calls, ShellTypes
    <2> QED
      BY <1>1, <1>8, <2>1, CallerType DEF Calls, TodoTypes, ShellTypes
  <1>9. CASE Serving \/ Faults \/ Alone(HealStarts) \/ Alone(BackoffEnds)
    BY <1>1, <1>9, ServingType DEF Serving, Faults, Alone, TodoTypes, ShellTypes
  <1>10. CASE ServerThreadEnds
    BY <1>1, <1>10 DEF ServerThreadEnds, RuntimeTypes, TodoTypes, ShellTypes
  <1>11. CASE UNCHANGED vars
    BY <1>1, <1>11 DEF vars, RuntimeTypes, TodoTypes, ShellTypes
  <1> QED
    BY <1>2, <1>3, <1>4, <1>5, <1>6, <1>7, <1>8, <1>9, <1>10, <1>11, ThreadFacts
       DEF Next, Menu, Main, Request

-----------------------------------------------------------------------------
(* The gateway serves what was saved                                       *)

\* A step of a list leaves the gateway's callback in it, when there is one.
LEMMA OwingKept ==
  ASSUME TodoTypes, NEW h \in Handlers,
         Due(h, "load") \/ Due(h, "assign") \/ Due(h, "act"), todo[h] \in Owing
  PROVE  Tail(todo[h]) \in Owing /\ Tail(todo[h]) # <<"show">>
  <1>1. todo[h] \in Todos /\ todo[h] # <<>>
    BY ThreadFacts DEF TodoTypes, Due
  <1>2. Tail(todo[h]) \in Owing
    BY <1>1, StepFacts DEF Due
  <1>3. <<"show">> \notin Owing
    BY DEF Owing
  <1> QED
    BY <1>2, <1>3

\* A call into the runtime either leaves no server running, or leaves the server and
\* what the requests owe.
LEMMA CallServes ==
  ASSUME RuntimeTypes, ServedInv, NEW t \in Threads, Caller(t), UNCHANGED todo
  PROVE  ServedInv'
  <1> USE DEF ServedInv, Running, RuntimeTypes
  <1>1. CASE StartStops(t)
    BY <1>1, StopServerFacts DEF StartStops
  <1>2. CASE LaunchStops(t)
    <2>1. gw'.state # "running"
      BY <1>2, LaunchStopsFacts
    <2> QED
      BY <2>1
  <1>3. CASE LaunchClaims(t) \/ LaunchPublishes(t) \/ Joined(t)
    <2>1. CASE gw' # gw
      BY <1>3, <2>1, LaunchFacts
    <2>2. CASE gw' = gw
      <3>1. /\ \E st : call' = [call EXCEPT ![t] = st]
            /\ disk' = disk /\ call[t] \notin {"reload", "stop"}
        <4>1. CASE LaunchClaims(t)
          BY <4>1 DEF LaunchClaims, Returns, Goto
        <4>2. CASE LaunchPublishes(t)
          BY <4>2 DEF LaunchPublishes, Returns, Goto
        <4>3. CASE Joined(t)
          <5>1. \E st : Goto(t, st)
            BY <4>3, Zenon DEF Joined
          <5> QED
            BY <4>3, <5>1 DEF Joined, Joining, Goto
        <4> QED
          BY <1>3, <4>1, <4>2, <4>3
      <3>2. \A h \in Handlers : Owes(h) => Owes(h)'
        BY <3>1 DEF Owes
      <3> QED
        BY <2>2, <3>1, <3>2
    <2> QED
      BY <2>1, <2>2
  <1>4. CASE Reload(t)
    <2>1. gw' = gw /\ disk' = disk
      BY <1>4 DEF Reload
    <2>2. Running => \A h \in Handlers : Owes(h) => Owes(h)'
      BY <1>4, ThreadFacts DEF Reload, Goto, Owes
    <2> QED
      BY <2>1, <2>2
  <1> QED
    BY <1>1, <1>2, <1>3, <1>4 DEF Caller

LEMMA ServedStep ==
  ASSUME RuntimeTypes, TodoTypes, ServedInv, [Next]_vars
  PROVE  ServedInv'
  <1> USE ThreadFacts
  <1>1. ASSUME disk' = disk, gw' = gw \/ gw'.state # "running",
               \A h \in Handlers : Owes(h) => Owes(h)'
        PROVE  ServedInv'
    BY <1>1 DEF ServedInv, Running
  <1>2. ASSUME UNCHANGED <<gateway, todo>> PROVE ServedInv'
    BY <1>1, <1>2 DEF gateway, Owes
  <1>3. ASSUME NEW q, todo' = [todo EXCEPT !["main"] = q], UNCHANGED gateway
        PROVE  ServedInv'
    <2>1. \A h \in Handlers : Owes(h) => Owes(h)'
      BY <1>3 DEF TodoTypes, Owes, gateway
    <2> QED
      BY <1>1, <1>3, <2>1 DEF gateway
  <1>4. ASSUME NEW h \in Handlers, Put(h) PROVE ServedInv'
    <2>1. PICK saved \in Sections :
             /\ IF "sp" \in saved THEN disk' \in Configs ELSE UNCHANGED disk
             /\ todo' = [todo EXCEPT ![h] = Callbacks(saved)]
      BY <1>4 DEF Put
    <2>2. gw' = gw /\ call' = call /\ todo[h] = <<>> /\ call[h] = "idle"
      BY <1>4 DEF Put, Idle
    <2>3. CASE "sp" \in saved
      <3>1. Callbacks(saved) \in Owing
        BY <2>3, CallbackFacts DEF Sections, Owing
      <3>2. Owes(h)'
        BY <2>1, <3>1 DEF Owes, TodoTypes
      <3> QED
        BY <3>2 DEF ServedInv
    <2>4. CASE "sp" \notin saved
      <3>1. <<>> \notin Owing
        BY DEF Owing
      <3>2. \A g \in Handlers : Owes(g) => Owes(g)'
        BY <2>1, <2>2, <3>1 DEF Owes, TodoTypes
      <3> QED
        BY <1>1, <2>1, <2>2, <2>4, <3>2
    <2> QED
      BY <2>3, <2>4
  <1>5. ASSUME NEW h \in Handlers, LoadSaved(h) \/ AssignSaved(h) \/ Act(h)
        PROVE  ServedInv'
    <2>1. Due(h, "load") \/ Due(h, "assign") \/ Due(h, "act")
      BY <1>5 DEF LoadSaved, AssignSaved, Act
    <2>2. \/ todo' = [todo EXCEPT ![h] = Tail(todo[h])]
          \/ todo' = [todo EXCEPT ![h] = <<>>] /\ Tail(todo[h]) = <<"show">>
      BY <1>5 DEF LoadSaved, AssignSaved, Act, Decide, Chooses, Done
    <2>3. UNCHANGED gateway
      BY <1>5 DEF LoadSaved, AssignSaved, Act
    <2>4. \A g \in Handlers : Owes(g) => Owes(g)'
      BY <2>1, <2>2, <2>3, OwingKept DEF Owes, TodoTypes, gateway
    <2> QED
      BY <1>1, <2>3, <2>4 DEF gateway
  <1>6. ASSUME NEW h \in Handlers, GatewaySaved(h) PROVE ServedInv'
    <2>1. call'[h] \in {"reload", "stop"}
      BY <1>6 DEF GatewaySaved, ReloadOrStart, Goto, RuntimeTypes
    <2> QED
      BY <2>1 DEF ServedInv, Owes
  <1>7. ASSUME NEW t \in Threads, Calls(t) PROVE ServedInv'
    BY <1>7, CallServes DEF Calls
  <1>8. CASE OpenWindow \/ ShowWindow \/ WindowRaises \/ WindowShown \/ CloseWindow
             \/ CopyInstructions \/ ToggleApi \/ Quit \/ QuitServer \/ ReleaseOwner
    <2>1. UNCHANGED gateway
      BY <1>8 DEF OpenWindow, ShowWindow, WindowRaises, WindowShown, CloseWindow,
                  CopyInstructions, ToggleApi, Quit, QuitServer, ReleaseOwner
    <2>2. \E q : todo' = [todo EXCEPT !["main"] = q]
      BY <1>8 DEF OpenWindow, ShowWindow, WindowRaises, WindowShown, CloseWindow,
                  CopyInstructions, ToggleApi, Quit, QuitServer, ReleaseOwner, Decide,
                  Chooses, Done
    <2> QED
      BY <1>3, <2>1, <2>2
  <1>9. CASE Act("main")
    <2>1. UNCHANGED gateway
      BY <1>9 DEF Act
    <2>2. \E q : todo' = [todo EXCEPT !["main"] = q]
      BY <1>9 DEF Act, Done
    <2> QED
      BY <1>3, <2>1, <2>2
  <1>10. CASE ToggleGateway \/ ReloadGateway \/ RestartGateway
    <2>1. disk' = disk /\ todo' = todo /\ (gw' = gw \/ gw'.state # "running")
      BY <1>10, StoppedFacts
         DEF ToggleGateway, ReloadGateway, RestartGateway, RuntimeTypes
    <2>2. call' = call \/ \E st : call' = [call EXCEPT !["main"] = st]
      BY <1>10 DEF ToggleGateway, ReloadGateway, RestartGateway, Goto
    <2>3. \A h \in Handlers : Owes(h) => Owes(h)'
      BY <2>1, <2>2 DEF Owes, RuntimeTypes
    <2> QED
      BY <1>1, <2>1, <2>3
  <1>11. CASE BootServer \/ StopLines
    <2>1. disk' = disk /\ (gw' = gw \/ gw'.state # "running")
      BY <1>11, StoppedFacts DEF BootServer, StopLines, RuntimeTypes
    <2>2. \E q : todo' = [todo EXCEPT !["main"] = q]
      BY <1>11 DEF BootServer, StopLines, Done
    <2>3. call' = call \/ \E st : call' = [call EXCEPT !["main"] = st]
      BY <1>11 DEF BootServer, StopLines, Goto
    <2>4. \A h \in Handlers : Owes(h) => Owes(h)'
      BY <2>2, <2>3 DEF Owes, RuntimeTypes, TodoTypes
    <2> QED
      BY <1>1, <2>1, <2>4
  <1>12. CASE TickBegins \/ TickEnds \/ Alone(HealStarts) \/ Alone(BackoffEnds)
    <2>1. disk' = disk /\ gw' = gw /\ todo' = todo
      BY <1>12 DEF TickBegins, TickEnds, Alone, ReadAddress, Audit, HealStarts, BackoffEnds
    <2>2. \A h \in Handlers : call'[h] = call[h]
      BY <1>12 DEF TickBegins, TickEnds, Alone, ReadAddress, Audit, HealStarts, BackoffEnds,
                   Goto, RuntimeTypes
    <2> QED
      BY <1>1, <2>1, <2>2 DEF Owes
  <1>13. CASE Serving \/ Faults
    <2>1. disk' = disk /\ call' = call /\ todo' = todo
      BY <1>13 DEF Serving, Faults, Alone, Load, Bind, ThreadEnds, PortTaken, SocketLost
    <2>2. CASE Alone(Load)
      <3>1. gw'.state = "running" => gw'.cfg = disk'
        BY <2>2 DEF Alone, Load, Down
      <3> QED
        BY <3>1 DEF ServedInv, Running
    <2>3. CASE Alone(Bind) \/ Alone(SocketLost)
      <3>1. gw'.state = gw.state /\ gw'.cfg = gw.cfg
        BY <2>3 DEF Alone, Bind, SocketLost, RuntimeTypes, Servers
      <3> QED
        BY <2>1, <3>1 DEF ServedInv, Running, Owes
    <2>4. CASE Alone(ThreadEnds) \/ Alone(PortTaken)
      <3>1. gw'.state # "running"
        BY <2>4 DEF Alone, ThreadEnds, PortTaken, Down
      <3> QED
        BY <3>1 DEF ServedInv, Running
    <2> QED
      BY <1>13, <2>2, <2>3, <2>4 DEF Serving, Faults
  <1>14. CASE Minimise \/ ToggleCapture \/ GuideTrusts \/ GuideGivenUp \/ TogglePrevent
              \/ MitmDies \/ ToldEnds \/ LinkChanges \/ CaffeinateKilled \/ ServerThreadEnds
              \/ UNCHANGED vars
    BY <1>2, <1>14 DEF Minimise, ToggleCapture, GuideTrusts, GuideGivenUp, TogglePrevent,
                       MitmDies, ToldEnds, LinkChanges, CaffeinateKilled, ServerThreadEnds, vars
  <1> QED
    BY <1>4, <1>5, <1>6, <1>7, <1>8, <1>9, <1>10, <1>11, <1>12, <1>13, <1>14
       DEF Next, Menu, Main, Request

-----------------------------------------------------------------------------
(* The quit                                                                *)

\* Only a quit gives the main thread the steps of one.
LEMMA UpStays ==
  ASSUME RuntimeTypes, TodoTypes, QuitInv, life = "up", [Next]_vars, ~Quit
  PROVE  life' = "up" /\ todo'["main"] \notin Leaving
  <1> USE ThreadFacts
  <1>1. todo["main"] \notin Leaving /\ todo["main"] \in Todos
    BY DEF QuitInv, TodoTypes
  <1>2. <<>> \notin Leaving /\ \A q \in Deciding \cup {<<"show">>, <<"shown">>} : q \notin Leaving
    BY DEF Leaving, Deciding, QuitSteps
  <1>3. ~StopLines /\ ~QuitServer /\ ~ReleaseOwner
    BY <1>1, StepFacts DEF StopLines, QuitServer, ReleaseOwner, Due, Leaving
  <1>4. life' = "up"
    BY <1>3 DEF Next, Menu, Main, Request, Serving, Faults, Alone, others, vars,
       OpenWindow, CloseWindow, Minimise, CopyInstructions, ToggleApi, ToggleGateway,
       ReloadGateway, RestartGateway, ToggleCapture, GuideTrusts, GuideGivenUp, TogglePrevent,
       BootServer, Act, ShowWindow, WindowShown, TickEnds, TickBegins, Put, LoadSaved,
       AssignSaved, GatewaySaved, Calls, ServerThreadEnds, WindowRaises, MitmDies, ToldEnds,
       LinkChanges, CaffeinateKilled
  <1>5. CASE OpenWindow \/ CloseWindow \/ CopyInstructions \/ ToggleApi \/ WindowRaises
    <2>1. \E q \in Deciding : todo' = [todo EXCEPT !["main"] = q]
      BY <1>5 DEF OpenWindow, CloseWindow, CopyInstructions, ToggleApi, WindowRaises, Decide,
                  Chooses, Deciding
    <2> QED
      BY <1>2, <1>4, <2>1 DEF TodoTypes
  <1>6. CASE ShowWindow
    <2>1. CASE window = "minimised"
      <3>1. \E q \in Deciding : todo' = [todo EXCEPT !["main"] = q]
        BY <1>6, <2>1 DEF ShowWindow, Decide, Chooses, Deciding
      <3> QED
        BY <1>2, <1>4, <3>1 DEF TodoTypes
    <2>2. CASE window # "minimised"
      <3>1. Tail(todo["main"]) = <<>>
        BY <1>1, <1>6, StepFacts DEF ShowWindow, Due
      <3> QED
        BY <1>2, <1>4, <1>6, <2>2, <3>1 DEF ShowWindow, Done, TodoTypes
    <2> QED
      BY <2>1, <2>2
  <1>7. CASE Act("main")
    <2>1. todo["main"] \in Acting \cup Deciding /\ todo["main"] # <<>>
      BY <1>1, <1>7, StepFacts DEF Act, Due
    <2>2. todo["main"] \in Deciding
      BY <2>1 DEF TodoTypes, MainTodos, Acting, Deciding, Booting, Leaving, QuitSteps
    <2>3. Tail(todo["main"]) \in {<<>>, <<"show">>, <<"shown">>}
      BY <1>1, <1>7, <2>2, StepFacts DEF Act, Due
    <2>4. \E q \in {<<>>, <<"show">>, <<"shown">>} : todo' = [todo EXCEPT !["main"] = q]
      BY <1>7, <2>3 DEF Act, Done
    <2> QED
      BY <1>2, <1>4, <2>4 DEF TodoTypes
  <1>8. CASE WindowShown \/ BootServer
    <2>1. Tail(todo["main"]) = <<>>
      BY <1>1, <1>8, StepFacts DEF WindowShown, BootServer, Due
    <2> QED
      BY <1>2, <1>4, <1>8, <2>1 DEF WindowShown, BootServer, Done, TodoTypes
  <1>9. ASSUME NEW h \in Handlers, Put(h) \/ Request(h) PROVE todo'["main"] = todo["main"]
    <2>1. \E q : todo' = [todo EXCEPT ![h] = q]
      BY <1>9 DEF Put, Request, LoadSaved, AssignSaved, Act, GatewaySaved, Decide, Chooses, Done
    <2> QED
      BY <2>1 DEF TodoTypes
  <1>10. ASSUME ~OpenWindow, ~CloseWindow, ~CopyInstructions, ~ToggleApi, ~WindowRaises,
                ~ShowWindow, ~Act("main"), ~WindowShown, ~BootServer,
                \A h \in Handlers : ~(Put(h) \/ Request(h))
         PROVE  todo' = todo
    BY <1>3, <1>10
       DEF Next, Menu, Main, Serving, Faults, Alone, others, vars, Minimise, ToggleGateway,
           ReloadGateway, RestartGateway, ToggleCapture, GuideTrusts, GuideGivenUp,
           TogglePrevent, TickEnds, TickBegins, Calls, ServerThreadEnds, MitmDies, ToldEnds,
           LinkChanges, CaffeinateKilled
  <1> QED
    BY <1>1, <1>4, <1>5, <1>6, <1>7, <1>8, <1>9, <1>10

\* Behind a quit nothing but its steps moves the main thread.
LEMMA QuitAlone ==
  ASSUME TodoTypes, QuitInv, life # "up"
  PROVE  /\ ~Menu /\ ~TickBegins /\ ~TickEnds /\ ~BootServer /\ ~Act("main")
         /\ ~ShowWindow /\ ~WindowShown /\ ~WindowRaises
         /\ Caller("main") => Joined("main") /\ call["main"] = "halt"
  <1>1. todo["main"] \in Leaving \cup {<<>>} /\ call["main"] \in {"idle", "halt"}
    BY DEF QuitInv, ShellTypes
  <1>2. todo["main"] # <<>> => Head(todo["main"]) \in {"lines", "httpd", "owner"}
    BY <1>1 DEF Leaving, QuitSteps
  <1>3. ~Due("main", "boot") /\ ~Due("main", "act") /\ ~Due("main", "show")
        /\ ~Due("main", "shown")
    BY <1>2 DEF Due
  <1>4. Caller("main") => Joined("main") /\ call["main"] = "halt"
    <2>1. ~StartStops("main") /\ ~LaunchStops("main") /\ ~LaunchClaims("main")
          /\ ~LaunchPublishes("main") /\ ~Reload("main")
      BY <1>1 DEF StartStops, LaunchStops, LaunchClaims, LaunchPublishes, Reload
    <2>2. Joined("main") => call["main"] = "halt"
      BY <1>1 DEF Joined, Joining
    <2> QED
      BY <2>1, <2>2 DEF Caller
  <1> QED
    BY <1>1, <1>3, <1>4
       DEF Menu, Free, OpenWindow, CloseWindow, Minimise, CopyInstructions, ToggleApi,
           ToggleGateway, ReloadGateway, RestartGateway, ToggleCapture, GuideTrusts,
           GuideGivenUp, TogglePrevent, Quit, TickBegins, TickEnds, BootServer, Act,
           ShowWindow, WindowShown, WindowRaises

\* What QuitInv says of a quit under way.
Deaf    == raced \/ \A h \in Handlers : todo[h] \notin Loading \cup Assigning \cup Acting
Torn    == /\ capture.alive = 0 /\ ~sleep.alive
           /\ gw.state \in {"claimed", "starting", "running"} => overtaken
Shut    == httpd = "up" => raced

LEMMA QuitParts ==
  ASSUME life # "up"
  PROVE  QuitInv <=>
           /\ todo["main"] \in Leaving \/ life = "left"
           /\ life = "left" => todo["main"] = <<>>
           /\ call["main"] \in {"idle", "halt"} /\ Deaf
           /\ todo["main"] # QuitSteps => Torn
           /\ todo["main"] \in {<<>>, <<"owner">>} => Shut
  BY DEF QuitInv, Deaf, Torn, Shut

\* The three steps of a quit.
LEMMA QuitsOn ==
  ASSUME RuntimeTypes, TodoTypes, CaptureInv, QuitInv, life # "up",
         StopLines \/ QuitServer \/ ReleaseOwner
  PROVE  QuitInv'
  <1> USE ThreadFacts
  <1>1. todo["main"] \in Todos
    BY DEF TodoTypes
  <1>2. \A h \in Handlers : todo'[h] = todo[h]
    BY DEF StopLines, QuitServer, ReleaseOwner, Done, TodoTypes
  <1>3. todo'["main"] = Tail(todo["main"]) /\ todo["main"] # <<>>
    BY DEF StopLines, QuitServer, ReleaseOwner, Done, Due, TodoTypes
  <1>4. call'["main"] \in {"idle", "halt"} /\ raced' = raced
    BY DEF StopLines, QuitServer, ReleaseOwner, StopServerThread, Due, gateway, server,
           RuntimeTypes
  <1>5. Deaf /\ life # "left"
    BY <1>3, QuitParts
  <1>6. Deaf'
    BY <1>2, <1>4, <1>5 DEF Deaf
  <1>7. CASE StopLines
    <2>1. todo["main"] = QuitSteps /\ todo'["main"] = <<"httpd", "owner">>
      BY <1>1, <1>3, <1>7, StepFacts DEF StopLines, Due
    <2>2. todo'["main"] \in Leaving /\ todo'["main"] \notin {<<>>, <<"owner">>}
      BY <2>1 DEF Leaving
    <2>3. capture'.alive = 0
      BY <1>7, QuitFacts DEF StopLines
    <2>4. ~sleep'.alive
      BY <1>7 DEF StopLines, Released
    <2>5. gw'.state \in {"claimed", "starting", "running"} => overtaken'
      BY <1>7 DEF StopLines, Running, Stopped, Ended, Down
    <2>6. life' = life
      BY <1>7 DEF StopLines
    <2> QED
      BY <1>4, <1>5, <1>6, <2>2, <2>3, <2>4, <2>5, <2>6 DEF QuitInv, Deaf
  <1>8. CASE QuitServer
    <2>1. todo["main"] = <<"httpd", "owner">> /\ todo'["main"] = <<"owner">>
      BY <1>1, <1>3, <1>8, StepFacts DEF QuitServer, Due
    <2>2. todo'["main"] \in Leaving /\ todo["main"] # QuitSteps
      BY <2>1 DEF Leaving, QuitSteps
    <2>3. Torn
      BY <2>2, QuitParts
    <2>4. life' = life /\ capture' = capture /\ sleep' = sleep /\ gw' = gw
          /\ overtaken' = overtaken /\ httpd' # "up"
      BY <1>8 DEF QuitServer, StopServerThread, gateway, mitm, awake
    <2> QED
      BY <1>4, <1>5, <1>6, <2>2, <2>3, <2>4 DEF QuitInv, Deaf, Torn
  <1>9. CASE ReleaseOwner
    <2>1. todo["main"] = <<"owner">> /\ todo'["main"] = <<>>
      BY <1>1, <1>3, <1>9, StepFacts DEF ReleaseOwner, Due
    <2>2. todo["main"] # QuitSteps /\ <<>> \notin Leaving
      BY <2>1 DEF Leaving, QuitSteps
    <2>3. Torn /\ Shut
      BY <2>1, <2>2, QuitParts
    <2>4. life' = "left" /\ capture' = capture /\ sleep' = sleep /\ gw' = gw
          /\ overtaken' = overtaken /\ httpd' = httpd
      BY <1>9 DEF ReleaseOwner, gateway, server, mitm, awake
    <2> QED
      BY <1>4, <1>5, <1>6, <2>1, <2>2, <2>3, <2>4 DEF QuitInv, Deaf, Torn, Shut
  <1> QED
    BY <1>7, <1>8, <1>9

\* The others, behind a quit.
LEMMA OthersBehindQuit ==
  ASSUME RuntimeTypes, TodoTypes, ShellTypes, CaptureInv, QuitInv, life # "up", [Next]_vars,
         ~StopLines, ~QuitServer, ~ReleaseOwner
  PROVE  QuitInv'
  <1> USE ThreadFacts
  <1>1. /\ todo["main"] \in Leaving \/ life = "left"
        /\ life = "left" => todo["main"] = <<>>
        /\ call["main"] \in {"idle", "halt"} /\ Deaf
        /\ todo["main"] # QuitSteps => Torn
        /\ todo["main"] \in {<<>>, <<"owner">>} => Shut
    BY QuitParts
  <1>2. SUFFICES /\ life' = life /\ todo'["main"] = todo["main"]
                 /\ call'["main"] \in {"idle", "halt"}
                 /\ Deaf' /\ (Deaf /\ Shut => Shut')
                 /\ todo["main"] # QuitSteps /\ Torn => Torn'
    BY <1>1 DEF QuitInv, Deaf, Torn, Shut
  <1>3. ASSUME UNCHANGED <<life, todo, capture, sleep, overtaken, httpd, raced>>,
               call'["main"] \in {"idle", "halt"},
               Torn => (gw'.state \in {"claimed", "starting", "running"} => overtaken)
        PROVE  /\ life' = life /\ todo'["main"] = todo["main"]
               /\ call'["main"] \in {"idle", "halt"}
               /\ Deaf' /\ (Deaf /\ Shut => Shut')
               /\ todo["main"] # QuitSteps /\ Torn => Torn'
    BY <1>1, <1>3 DEF Deaf, Torn, Shut
  <1>4. ASSUME NEW h \in Handlers, Put(h)
        PROVE  /\ life' = life /\ todo'["main"] = todo["main"]
               /\ call'["main"] \in {"idle", "halt"}
               /\ Deaf' /\ (Deaf /\ Shut => Shut')
               /\ todo["main"] # QuitSteps /\ Torn => Torn'
    <2>1. /\ life' = life /\ call' = call /\ capture' = capture /\ sleep' = sleep
          /\ gw' = gw /\ overtaken' = overtaken /\ httpd' = httpd /\ httpd = "up"
      BY <1>4 DEF Put, mitm, awake
    <2>2. PICK saved \in Sections :
             /\ IF "mp" \in saved THEN BeginsAfresh(h) ELSE UNCHANGED raced
             /\ todo' = [todo EXCEPT ![h] = Callbacks(saved)]
      BY <1>4 DEF Put
    <2>3. todo'["main"] = todo["main"] /\ raced' \in BOOLEAN /\ (raced => raced')
      BY <1>1, <2>2 DEF TodoTypes, ShellTypes, BeginsAfresh
    <2>4. Deaf'
      <3>1. CASE "mp" \notin saved
        <4>1. Callbacks(saved) = <<"gateway">>
          BY <2>2, <3>1, CallbackFacts DEF Sections
        <4>2. <<"gateway">> \notin Loading \cup Assigning \cup Acting
          BY DEF Loading, Assigning, Acting
        <4> QED
          BY <1>1, <2>2, <2>3, <4>1, <4>2 DEF Deaf, TodoTypes
      <3>2. CASE "mp" \in saved /\ todo["main"] \in {<<>>, <<"owner">>}
        BY <1>1, <2>1, <2>3, <3>2 DEF Deaf, Shut
      <3>3. CASE "mp" \in saved /\ todo["main"] \notin {<<>>, <<"owner">>}
        <4>1. todo["main"] \in Syncing /\ todo["main"] \in Todos
          BY <1>1, <3>3 DEF Leaving, Syncing, TodoTypes
        <4>2. Syncs("main")
          BY <4>1, SyncFacts DEF Syncs
        <4> QED
          BY <2>2, <2>3, <3>3, <4>2 DEF Deaf, BeginsAfresh, Meets
      <3> QED
        BY <3>1, <3>2, <3>3
    <2> QED
      BY <1>1, <2>1, <2>3, <2>4 DEF Torn, Shut
  <1>5. ASSUME NEW h \in Handlers, LoadSaved(h) \/ AssignSaved(h) \/ Act(h) \/ GatewaySaved(h)
        PROVE  /\ life' = life /\ todo'["main"] = todo["main"]
               /\ call'["main"] \in {"idle", "halt"}
               /\ Deaf' /\ (Deaf /\ Shut => Shut')
               /\ todo["main"] # QuitSteps /\ Torn => Torn'
    <2>1. /\ life' = life /\ capture' = capture /\ sleep' = sleep /\ gw' = gw
          /\ overtaken' = overtaken
      BY <1>5 DEF LoadSaved, AssignSaved, Act, GatewaySaved, gateway, server, mitm, awake
    <2>2. call'["main"] \in {"idle", "halt"}
      BY <1>1, <1>5 DEF LoadSaved, AssignSaved, Act, GatewaySaved, ReloadOrStart, Goto, gateway,
                        RuntimeTypes
    <2>3. \E q : todo' = [todo EXCEPT ![h] = q]
      BY <1>5 DEF LoadSaved, AssignSaved, Act, GatewaySaved, Decide, Chooses, Done
    <2>4. todo'["main"] = todo["main"] /\ todo[h] \in HandlerTodos /\ todo[h] \in Todos
      BY <2>3 DEF TodoTypes
    <2>5. CASE GatewaySaved(h)
      <3>1. todo'[h] = <<>>
        BY <2>4, <2>5, StepFacts DEF GatewaySaved, Due, Done, TodoTypes
      <3>2. <<>> \notin Loading \cup Assigning \cup Acting
        BY DEF Loading, Assigning, Acting
      <3>3. \A g \in Handlers : g # h => todo'[g] = todo[g]
        BY <2>3 DEF TodoTypes
      <3>4. raced' = raced /\ httpd' = httpd
        BY <2>5 DEF GatewaySaved, server
      <3> QED
        BY <1>1, <2>1, <2>2, <2>4, <3>1, <3>2, <3>3, <3>4 DEF Deaf, Torn, Shut
    <2>6. CASE LoadSaved(h) \/ AssignSaved(h) \/ Act(h)
      <3>1. todo[h] \in Loading \cup Assigning \cup Acting \cup Deciding
        BY <2>4, <2>6, StepFacts DEF LoadSaved, AssignSaved, Act, Due
      <3>2. todo[h] \in Loading \cup Assigning \cup Acting
        <4>1. todo[h] \in Deciding => todo[h] = <<"act">> \/ Len(todo[h]) = 2
          BY DEF Deciding
        <4>2. \A q \in HandlerTodos : Len(q) = 2 => q[2] \in {"act", "gateway"}
          <5>0. Len(<<>>) # 2 /\ \A q \in Loading : Len(q) # 2
            <6>1. Len(<<>>) = 0
              OBVIOUS
            <6>2. Len(<<"load", "assign", "act">>) = 3
              OBVIOUS
            <6>3. Len(<<"load", "assign", "act", "gateway">>) = 4
              OBVIOUS
            <6> QED
              BY <6>1, <6>2, <6>3 DEF Loading
          <5>1. \A q \in Owing : Len(q) = 2 => q[2] \in {"act", "gateway"}
            BY DEF Owing
          <5>2. \A q \in Assigning \cup Acting : Len(q) = 2 => q[2] \in {"act", "gateway"}
            BY DEF Assigning, Acting
          <5> QED
            BY <5>0, <5>1, <5>2 DEF HandlerTodos
        <4>3. \A q \in Deciding : Len(q) = 2 => q[2] \in {"show", "shown"}
          BY DEF Deciding
        <4>4. todo[h] \notin Deciding \/ todo[h] = <<"act">>
          BY <2>4, <4>1, <4>2, <4>3
        <4> QED
          BY <3>1, <4>4 DEF Acting
      <3>3. raced
        BY <1>1, <3>2 DEF Deaf
      <3>4. raced'
        BY <2>6, <3>3 DEF LoadSaved, AssignSaved, Act, Decide, Overlaps, StartServer,
                          StopServerThread
      <3> QED
        BY <2>1, <2>2, <2>4, <3>4 DEF Deaf, Torn, Shut
    <2> QED
      BY <1>5, <2>5, <2>6
  <1>6. ASSUME NEW t \in Threads, Calls(t)
        PROVE  /\ life' = life /\ todo'["main"] = todo["main"]
               /\ call'["main"] \in {"idle", "halt"}
               /\ Deaf' /\ (Deaf /\ Shut => Shut')
               /\ todo["main"] # QuitSteps /\ Torn => Torn'
    <2>1. t = "main" => Joined("main") /\ call["main"] = "halt"
      BY <1>6, QuitAlone DEF Calls
    <2>2. call'["main"] \in {"idle", "halt"}
      <3>1. CASE t = "main"
        BY <2>1, <3>1 DEF Joined, Goto, RuntimeTypes
      <3>2. CASE t # "main"
        <4>1. \E st : call' = [call EXCEPT ![t] = st]
          BY <1>6 DEF Calls, Caller, StartStops, LaunchStops, LaunchClaims, LaunchPublishes,
                      Joined, Reload, Returns, Goto
        <4> QED
          BY <1>1, <3>2, <4>1 DEF RuntimeTypes
      <3> QED
        BY <3>1, <3>2
    <2>3. UNCHANGED <<life, todo, capture, sleep, httpd, raced>>
      BY <1>6 DEF Calls, others, server, mitm, awake
    <2>4. gw'.state = "running" => gw' = gw
      <3>1. ASSUME NEW late \in BOOLEAN, StopServer(late) PROVE gw'.state # "running"
        BY <3>1, StopServerFacts DEF RuntimeTypes
      <3>2. CASE StartStops(t) \/ LaunchStops(t)
        <4>1. StartStops(t) => gw'.state # "running"
          BY <3>1 DEF StartStops
        <4> QED
          BY <3>2, <4>1, LaunchStopsFacts DEF RuntimeTypes
      <3>3. CASE LaunchClaims(t) \/ LaunchPublishes(t) \/ Joined(t) \/ Reload(t)
        BY <3>3, LaunchFacts
      <3> QED
        BY <1>6, <3>2, <3>3 DEF Calls, Caller
    <2>5. overtaken => overtaken'
      BY <1>6 DEF Calls
    <2>6. todo["main"] # QuitSteps /\ gw'.state \in {"claimed", "starting"} => overtaken'
      BY <1>6 DEF Calls
    <2> QED
      BY <1>1, <2>2, <2>3, <2>4, <2>5, <2>6 DEF Deaf, Torn, Shut
  <1>7. CASE Serving \/ Faults \/ Alone(HealStarts) \/ Alone(BackoffEnds)
    <2>1. UNCHANGED <<life, todo, capture, sleep, overtaken, httpd, raced>>
      BY <1>7 DEF Serving, Faults, Alone, others, server, mitm, awake
    <2>2. call'["main"] \in {"idle", "halt"}
      BY <1>1, <1>7 DEF Serving, Faults, Alone, Load, Bind, ThreadEnds, PortTaken, SocketLost,
                        HealStarts, BackoffEnds, Goto, RuntimeTypes
    <2>3. gw'.state \in {"claimed", "starting", "running"}
          => gw.state \in {"claimed", "starting", "running"}
      BY <1>7 DEF Serving, Faults, Alone, Load, Bind, ThreadEnds, PortTaken, SocketLost,
                  HealStarts, BackoffEnds, Running, Down, RuntimeTypes, Servers
    <2> QED
      BY <1>3, <2>1, <2>2, <2>3 DEF Torn
  <1>8. CASE ServerThreadEnds
    BY <1>1, <1>8 DEF ServerThreadEnds, Deaf, Torn, Shut, gateway, mitm, awake
  <1>9. CASE MitmDies
    <2>1. capture.alive # 0
      BY <1>9 DEF MitmDies, CaptureInv
    <2> QED
      BY <1>1, <1>9, <2>1 DEF MitmDies, Deaf, Torn, Shut, gateway, server, awake
  <1>10. CASE CaffeinateKilled
    <2>1. ~sleep'.alive
      BY <1>10 DEF CaffeinateKilled, ShellTypes, Sleeps
    <2> QED
      BY <1>1, <1>10, <2>1 DEF CaffeinateKilled, Deaf, Torn, Shut, gateway, server, mitm
  <1>11. CASE LinkChanges \/ UNCHANGED vars
    BY <1>1, <1>3, <1>11 DEF LinkChanges, vars, Torn, gateway, server, mitm, awake
  <1>12. CASE ToldEnds
    <2>1. capture'.alive = capture.alive
      BY <1>12 DEF ToldEnds, CaptureInv
    <2> QED
      BY <1>1, <1>12, <2>1 DEF ToldEnds, Deaf, Torn, Shut, gateway, server, awake
  <1> QED
    BY <1>4, <1>5, <1>6, <1>7, <1>8, <1>9, <1>10, <1>11, <1>12, QuitAlone
       DEF Next, Main, Request

LEMMA QuitStep ==
  ASSUME RuntimeTypes, TodoTypes, ShellTypes, CaptureInv, QuitInv, [Next]_vars
  PROVE  QuitInv'
  <1> USE ThreadFacts
  <1>1. CASE Quit
    <2>1. life' = "quitting" /\ todo' = [todo EXCEPT !["main"] = QuitSteps]
          /\ call["main"] = "idle" /\ call' = call
      BY <1>1 DEF Quit, Free, Idle, gateway
    <2>2. todo'["main"] = QuitSteps /\ QuitSteps \in Leaving
          /\ QuitSteps \notin {<<>>, <<"owner">>}
      BY <2>1 DEF TodoTypes, Leaving, QuitSteps
    <2>3. ASSUME NEW h \in Handlers, todo'[h] \in Loading \cup Assigning \cup Acting
          PROVE  raced'
      <3>1. todo[h] \in Syncing /\ todo[h] \in Todos
        BY <2>1, <2>3 DEF TodoTypes, Syncing
      <3>2. Syncs(h)
        BY <3>1, SyncFacts DEF Syncs
      <3> QED
        BY <1>1, <3>2 DEF Quit, Overlaps, Meets
    <2> QED
      BY <2>1, <2>2, <2>3 DEF QuitInv
  <1>2. CASE life = "up" /\ ~Quit
    BY <1>2, UpStays DEF QuitInv
  <1>3. CASE life # "up"
    BY <1>3, QuitsOn, OthersBehindQuit
  <1> QED
    BY <1>1, <1>2, <1>3

-----------------------------------------------------------------------------
(* The settings server follows its holders                                 *)

Agreed == OneDecision /\ AtBoot /\ Decided /\ Followed

\* The lists apart from one another.
LEMMA ListFacts ==
  /\ \A q \in {<<>>, <<"gateway">>, <<"show">>, <<"shown">>} : q \notin Syncing /\ q # Booting
  /\ \A q \in Acting \cup Deciding :
        q \in Syncing /\ q # Booting /\ q \notin Loading \cup Assigning
  /\ \A q \in Loading \cup Assigning : q \in Syncing /\ q \notin Acting \cup Deciding
  /\ Loading \cap Assigning = {}
  /\ Booting \notin Syncing
  BY DEF Syncing, Loading, Assigning, Acting, Deciding, Booting, QuitSteps

\* A thread whose list changes, and holds no decision before or after.
LEMMA QuietStep ==
  ASSUME TodoTypes, Agreed, NEW t \in Threads, NEW q, todo' = [todo EXCEPT ![t] = q],
         todo["main"] # Booting, todo[t] \notin Syncing, q \notin Syncing, q # Booting,
         UNCHANGED <<holds, apiDisk, read, wanted, httpd, refused>>
  PROVE  Agreed'
  <1> USE ThreadFacts
  <1>1. \A u \in Threads : todo'[u] = IF u = t THEN q ELSE todo[u]
    BY DEF TodoTypes
  <1>2. q \notin Loading \cup Assigning \cup Acting \cup Deciding
        /\ todo[t] \notin Loading \cup Assigning \cup Acting \cup Deciding
    BY DEF Syncing
  <1>3. \A u \in Threads : Acts(u)' <=> Acts(u)
    BY <1>1, <1>2 DEF Acts
  <1>4. \A h \in Handlers : /\ todo'[h] \in Assigning <=> todo[h] \in Assigning
                            /\ todo'[h] \in Loading <=> todo[h] \in Loading
    BY <1>1, <1>2
  <1>5. \A u \in Threads : todo'[u] \in Syncing <=> todo[u] \in Syncing
    BY <1>1
  <1>6. todo'["main"] # Booting
    BY <1>1
  <1> QED
    BY <1>3, <1>4, <1>5, <1>6 DEF Agreed, OneDecision, AtBoot, Decided, Followed

\* No other thread is deciding when a decision is made that nothing overlaps.
LEMMA AloneFacts ==
  ASSUME TodoTypes, NEW t \in Threads, ~Meets(t)
  PROVE  \A u \in Threads \ {t} : todo[u] \notin Syncing
  <1>1. \A u \in Threads \ {t} : ~Syncs(u)
    BY DEF Meets
  <1> QED
    BY <1>1, SyncFacts DEF Syncs, TodoTypes

\* A decision of one thread, for holders that agree with the disk.
LEMMA DecideAgrees ==
  ASSUME TodoTypes, ShellTypes, NEW t \in Threads, NEW h, NEW q \in Acting \cup Deciding,
         Chooses(t, h, q), ~Meets(t), todo["main"] # Booting, h.api = apiDisk'
  PROVE  Agreed'
  <1> USE ThreadFacts, ListFacts
  <1>1. \A u \in Threads : todo'[u] = IF u = t THEN q ELSE todo[u]
    BY DEF TodoTypes, Chooses
  <1>2. \A u \in Threads \ {t} : todo[u] \notin Syncing
    BY AloneFacts
  <1>3. \A u \in Threads : Acts(u)' => u = t
    BY <1>1, <1>2 DEF Acts, Syncing
  <1>4. Acts(t)' /\ wanted'[t] = Wanted(holds')
    BY <1>1 DEF Acts, Chooses, ShellTypes
  <1>5. \A g \in Handlers : todo'[g] \notin Assigning
    BY <1>1, <1>2 DEF Syncing
  <1>6. todo'["main"] # Booting
    BY <1>1
  <1>7. OneDecision'
    BY <1>1, <1>2 DEF OneDecision
  <1>8. Decided'
    BY <1>3, <1>4, <1>5 DEF Decided, Chooses
  <1> QED
    BY <1>4, <1>6, <1>7, <1>8 DEF Agreed, AtBoot, Followed

\* A save that brings the application's part new: its decision is still to come, and
\* what went before does not matter.
LEMMA PutAgrees ==
  ASSUME TodoTypes, ShellTypes, AtBoot, ~raced => Agreed, NEW h \in Handlers, Put(h),
         ~raced'
  PROVE  Agreed'
  <1> USE ThreadFacts, ListFacts
  <1>1. PICK saved \in Sections :
           /\ IF "mp" \in saved THEN apiDisk' \in BOOLEAN /\ BeginsAfresh(h)
                                ELSE UNCHANGED <<apiDisk, raced>>
           /\ todo' = [todo EXCEPT ![h] = Callbacks(saved)]
    BY DEF Put
  <1>2. todo[h] = <<>> /\ httpd = "up" /\ UNCHANGED <<holds, read, wanted, httpd, refused>>
    BY DEF Put, Idle
  <1>3. todo["main"] # Booting
    BY <1>2 DEF AtBoot
  <1>4. CASE "mp" \notin saved
    <2>1. Callbacks(saved) = <<"gateway">>
      BY <1>1, <1>4, CallbackFacts DEF Sections
    <2> QED
      BY <1>1, <1>2, <1>3, <1>4, <2>1, QuietStep
  <1>5. CASE "mp" \in saved
    <2>1. Callbacks(saved) \in Loading
      BY <1>1, <1>5, CallbackFacts DEF Sections, Loading
    <2>2. \A u \in Threads : todo'[u] = IF u = h THEN Callbacks(saved) ELSE todo[u]
      BY <1>1 DEF TodoTypes
    <2>3. \A u \in Threads \ {h} : todo[u] \notin Syncing
      BY <1>1, <1>5, AloneFacts DEF BeginsAfresh
    <2>4. \A u \in Threads : ~Acts(u) /\ ~Acts(u)'
      BY <1>2, <2>1, <2>2, <2>3 DEF Acts, Syncing
    <2>5. OneDecision'
      BY <2>2, <2>3 DEF OneDecision
    <2>6. todo'["main"] # Booting
      BY <1>3, <2>2
    <2>7. Decided'
      <3>1. \A g \in Handlers : todo'[g] \notin Assigning
        BY <2>1, <2>2, <2>3 DEF Syncing
      <3>2. todo'[h] \in Loading
        BY <2>1, <2>2
      <3> QED
        BY <2>4, <3>1, <3>2 DEF Decided
    <2>8. Followed'
      BY <2>1, <2>2 DEF Followed
    <2> QED
      BY <2>5, <2>6, <2>7, <2>8 DEF Agreed, AtBoot
  <1> QED
    BY <1>4, <1>5

\* Its callback loads the disk, and then assigns what it has loaded.
LEMMA LoadAgrees ==
  ASSUME TodoTypes, ShellTypes, Agreed, NEW h \in Handlers, LoadSaved(h)
  PROVE  Agreed'
  <1> USE ThreadFacts, ListFacts
  <1>1. todo[h] \in Loading /\ Tail(todo[h]) \in Assigning
    BY StepFacts DEF LoadSaved, Due, TodoTypes
  <1>2. \A u \in Threads : todo'[u] = IF u = h THEN Tail(todo[h]) ELSE todo[u]
    BY DEF LoadSaved, Done, TodoTypes
  <1>3. /\ UNCHANGED <<holds, apiDisk, wanted, httpd, refused>>
        /\ read' = [read EXCEPT ![h] = apiDisk]
    BY DEF LoadSaved
  <1>4. todo["main"] # Booting
    <2>1. <<>> \notin Loading
      BY DEF Loading
    <2> QED
      BY <1>1, <2>1 DEF Agreed, AtBoot
  <1>5. \A u \in Threads : Acts(u)' <=> Acts(u)
    BY <1>1, <1>2 DEF Acts
  <1>6. \A u \in Threads : todo'[u] \in Syncing <=> todo[u] \in Syncing
    BY <1>1, <1>2
  <1>7. todo'["main"] # Booting
    BY <1>2, <1>4
  <1>8. Decided'
    <2>1. \A g \in Handlers : todo'[g] \in Assigning => read'[g] = apiDisk
      BY <1>2, <1>3 DEF Agreed, Decided, ShellTypes
    <2>2. todo'[h] \in Assigning
      BY <1>1, <1>2
    <2> QED
      BY <1>3, <1>5, <2>1, <2>2 DEF Agreed, Decided
  <1>9. Followed'
    BY <1>1, <1>2 DEF Followed
  <1> QED
    BY <1>3, <1>4, <1>5, <1>6, <1>7, <1>8, <1>9 DEF Agreed, OneDecision, AtBoot

LEMMA AssignAgrees ==
  ASSUME TodoTypes, ShellTypes, Agreed, NEW h \in Handlers, AssignSaved(h), ~raced'
  PROVE  Agreed'
  <1> USE ThreadFacts, ListFacts
  <1>1. todo[h] \in Assigning /\ Tail(todo[h]) \in Acting
    BY StepFacts DEF AssignSaved, Due, TodoTypes
  <1>2. todo["main"] # Booting
    <2>1. <<>> \notin Assigning
      BY DEF Assigning
    <2> QED
      BY <1>1, <2>1 DEF Agreed, AtBoot
  <1>3. [holds EXCEPT !.api = read[h]].api = apiDisk'
    BY <1>1 DEF AssignSaved, Agreed, Decided, ShellTypes, Holds
  <1>4. Chooses(h, [holds EXCEPT !.api = read[h]], Tail(todo[h])) /\ ~Meets(h)
    BY DEF AssignSaved, Decide, Overlaps
  <1> QED
    BY <1>1, <1>2, <1>3, <1>4, DecideAgrees

\* Whoever decided starts or stops the server, and nobody else is deciding.
LEMMA ActAgrees ==
  ASSUME TodoTypes, ShellTypes, Agreed, NEW t \in Threads, Act(t), ~raced'
  PROVE  Agreed'
  <1> USE ThreadFacts, ListFacts
  <1>1. PICK taken \in BOOLEAN :
           IF wanted[t]
           THEN /\ StartServer(taken)
                /\ IF taken /\ Tail(todo[t]) = <<"show">>
                   THEN /\ todo' = [todo EXCEPT ![t] = <<>>]
                        /\ holds' = [holds EXCEPT !.window = FALSE]
                   ELSE Done(t) /\ UNCHANGED holds
           ELSE ~taken /\ StopServerThread /\ Done(t) /\ UNCHANGED holds
    BY DEF Act
  <1>2. todo[t] \in Acting \cup Deciding
        /\ Tail(todo[t]) \in {<<>>, <<"gateway">>, <<"show">>, <<"shown">>}
    BY StepFacts DEF Act, Due, TodoTypes
  <1>3. wanted[t] = Wanted(holds)
    BY <1>2 DEF Agreed, Decided, Acts
  <1>4. PICK q \in {<<>>, <<"gateway">>, <<"show">>, <<"shown">>} :
           todo' = [todo EXCEPT ![t] = q]
    BY <1>1, <1>2 DEF Done
  <1>5. \A u \in Threads : todo'[u] = IF u = t THEN q ELSE todo[u]
    BY <1>4 DEF TodoTypes
  <1>6. \A u \in Threads : todo'[u] \notin Syncing
    BY <1>2, <1>5 DEF Agreed, OneDecision
  <1>7. \A u \in Threads : ~Acts(u)'
    BY <1>6 DEF Acts
  <1>8. \A u \in Threads \ {t} : todo[u] \notin Syncing
    BY <1>2 DEF Agreed, OneDecision
  <1>9. holds.api = apiDisk
    BY <1>2, <1>8 DEF Agreed, Decided
  <1>10. todo'["main"] # Booting
    <2>1. CASE t = "main"
      BY <1>5, <2>1
    <2>2. CASE t \in Handlers
      <3>1. todo[t] # <<>>
        BY DEF Act, Due
      <3>2. todo["main"] # Booting
        BY <2>2, <3>1 DEF Agreed, AtBoot
      <3> QED
        BY <1>5, <2>2, <3>2
    <2>3. CASE t = "heal"
      BY <2>3 DEF Act, Due, TodoTypes
    <2> QED
      BY <2>1, <2>2, <2>3 DEF Threads
  <1>11. holds'.api = holds.api /\ apiDisk' = apiDisk
    BY <1>1 DEF Act, ShellTypes, Holds
  <1>12. /\ httpd' = "up" => Wanted(holds')
         /\ Wanted(holds') => httpd' = "up" \/ refused'
    <2>1. CASE ~Wanted(holds)
      BY <1>1, <1>3, <2>1 DEF StopServerThread
    <2>2. CASE Wanted(holds) /\ holds' = holds
      <3>1. StartServer(taken)
        BY <1>1, <1>3, <2>2
      <3>2. httpd' = "up" \/ refused'
        BY <3>1 DEF StartServer, ShellTypes
      <3> QED
        BY <2>2, <3>2
    <2>3. CASE Wanted(holds) /\ taken /\ Tail(todo[t]) = <<"show">>
      <3>1. StartServer(taken)
        BY <1>1, <1>3, <2>3
      <3>2. httpd' = "down" /\ refused'
        BY <2>3, <3>1 DEF StartServer, ShellTypes
      <3> QED
        BY <3>2
    <2> QED
      BY <1>1, <1>3, <2>1, <2>2, <2>3
  <1>13. Decided'
    BY <1>6, <1>7, <1>9, <1>11 DEF Decided
  <1> QED
    BY <1>6, <1>10, <1>12, <1>13 DEF Agreed, OneDecision, AtBoot, Followed

\* The server is started for the saved api before the first event.
LEMMA BootAgrees ==
  ASSUME TodoTypes, ShellTypes, Agreed, BootServer
  PROVE  Agreed'
  <1> USE ThreadFacts, ListFacts
  <1>1. todo["main"] = Booting /\ Tail(todo["main"]) = <<>>
    BY StepFacts DEF BootServer, Due, TodoTypes
  <1>2. httpd = "down" /\ ~holds.window /\ ~holds.latch /\ \A h \in Handlers : todo[h] = <<>>
    BY <1>1 DEF Agreed, AtBoot
  <1>3. \A t \in Threads : todo'[t] = <<>>
    BY <1>1, <1>2 DEF BootServer, Done, TodoTypes, Threads
  <1>4. \A t \in Threads : todo'[t] \notin Syncing /\ ~Acts(t)'
    BY <1>3 DEF Acts
  <1>5. UNCHANGED <<holds, apiDisk, read, wanted>>
    BY DEF BootServer
  <1>6. holds.api = apiDisk
    BY <1>2 DEF Agreed, Decided
  <1>7. PICK taken \in BOOLEAN :
           IF holds.api THEN StartServer(taken)
           ELSE ~taken /\ UNCHANGED <<httpd, refused, raced, events>>
    BY DEF BootServer
  <1>8. /\ httpd' = "up" => Wanted(holds)
        /\ Wanted(holds) => httpd' = "up" \/ refused'
    <2>1. CASE holds.api
      BY <1>2, <1>7, <2>1 DEF StartServer, Wanted
    <2>2. CASE ~holds.api
      BY <1>2, <1>7, <2>2 DEF Wanted
    <2> QED
      BY <2>1, <2>2
  <1> QED
    BY <1>3, <1>4, <1>5, <1>6, <1>8 DEF Agreed, OneDecision, AtBoot, Decided, Followed

\* What is done about the window and the menu is decided for the holders it leaves.
LEMMA MenuAgrees ==
  ASSUME TodoTypes, ShellTypes, Agreed, ~raced',
         OpenWindow \/ ShowWindow \/ WindowRaises \/ CloseWindow \/ CopyInstructions
  PROVE  Agreed'
  <1> USE ThreadFacts, ListFacts
  <1>1. {<<"act", "show">>, <<"act", "shown">>, <<"act">>} \subseteq Deciding
    BY DEF Deciding
  <1>2. todo["main"] = <<>> \/ Head(todo["main"]) = "show"
    BY DEF OpenWindow, ShowWindow, WindowRaises, CloseWindow, CopyInstructions, Free, Idle,
           Due
  <1>3. todo["main"] # Booting
    BY <1>2 DEF Booting
  <1>4. CASE ShowWindow /\ window # "minimised"
    <2>1. todo["main"] = <<"show">> /\ Tail(todo["main"]) = <<>>
      BY <1>4, StepFacts DEF ShowWindow, Due, TodoTypes
    <2> QED
      BY <1>3, <1>4, <2>1, QuietStep DEF ShowWindow, Done
  <1>5. ASSUME ~(ShowWindow /\ window # "minimised") PROVE Agreed'
    <2>1. PICK h \in Holds, q \in Deciding :
             Decide("main", h, q) /\ h.api = holds.api /\ apiDisk' = apiDisk
      <3>1. /\ [holds EXCEPT !.window = TRUE] \in Holds
            /\ [holds EXCEPT !.window = FALSE] \in Holds
            /\ [holds EXCEPT !.latch = TRUE] \in Holds
        BY DEF ShellTypes, Holds
      <3>2. /\ [holds EXCEPT !.window = TRUE].api = holds.api
            /\ [holds EXCEPT !.window = FALSE].api = holds.api
            /\ [holds EXCEPT !.latch = TRUE].api = holds.api
        BY DEF ShellTypes, Holds
      <3>3. CASE OpenWindow
        BY <1>1, <3>1, <3>2, <3>3 DEF OpenWindow
      <3>4. CASE ShowWindow \/ WindowRaises \/ CloseWindow
        BY <1>1, <1>5, <3>1, <3>2, <3>4
           DEF ShowWindow, WindowRaises, CloseWindow, Replaced, ShowFails
      <3>5. CASE CopyInstructions
        BY <1>1, <3>1, <3>2, <3>5 DEF CopyInstructions
      <3> QED
        BY <3>3, <3>4, <3>5
    <2>2. Chooses("main", h, q) /\ ~Meets("main") /\ \A g \in Handlers : todo[g] \notin Syncing
      BY <2>1, AloneFacts DEF Decide, Overlaps
    <2>3. holds.api = apiDisk
      BY <2>2 DEF Agreed, Decided
    <2>4. h.api = apiDisk'
      BY <2>1, <2>3
    <2> QED
      BY <1>3, <2>2, <2>4, DecideAgrees
  <1> QED
    BY <1>4, <1>5

\* The switch of the API decides from the disk, whatever went before.
LEMMA ToggleAgrees ==
  ASSUME TodoTypes, ShellTypes, ~raced', ToggleApi
  PROVE  Agreed'
  <1> USE ThreadFacts, ListFacts
  <1>1. todo["main"] # Booting /\ <<"act">> \in Deciding
    BY DEF ToggleApi, Free, Idle, Booting, Deciding
  <1>2. [holds EXCEPT !.api = ~apiDisk].api = apiDisk'
    BY DEF ToggleApi, ShellTypes, Holds
  <1>3. Chooses("main", [holds EXCEPT !.api = ~apiDisk], <<"act">>) /\ ~Meets("main")
    BY DEF ToggleApi, BeginsAfresh
  <1> QED
    BY <1>1, <1>2, <1>3, DecideAgrees

\* Nothing but the boot happens to the settings server before the boot.
LEMMA BootStep ==
  ASSUME TodoTypes, ShellTypes, AtBoot, [Next]_vars
  PROVE  AtBoot'
  <1> USE ThreadFacts
  <1>1. ASSUME NEW q \in MainTodos, q # <<>>
        PROVE  Tail(q) # Booting
    <2>1. q \in Todos /\ Booting # <<>>
      BY <1>1 DEF Todos, Booting
    <2>2. Head(q) \in {"act", "boot", "show", "shown", "lines", "httpd", "owner"}
      BY <1>1 DEF MainTodos, Booting, Deciding, Leaving, QuitSteps
    <2> QED
      BY <1>1, <2>1, <2>2, StepFacts, ListFacts DEF Booting
  <1>2. CASE Menu
    <2>1. todo["main"] = <<>> /\ UNCHANGED httpd
      BY <1>2 DEF Menu, Free, Idle, OpenWindow, CloseWindow, Minimise, CopyInstructions,
                  ToggleApi, ToggleGateway, ReloadGateway, RestartGateway, ToggleCapture,
                  GuideTrusts, GuideGivenUp, TogglePrevent, Quit, others, server
    <2>2. todo' = todo \/ \E q \in Deciding \cup {QuitSteps} : todo' = [todo EXCEPT !["main"] = q]
      BY <1>2 DEF Menu, OpenWindow, CloseWindow, Minimise, CopyInstructions, Decide, Chooses,
                  ToggleApi, ToggleGateway, ReloadGateway, RestartGateway, ToggleCapture,
                  GuideTrusts, GuideGivenUp, TogglePrevent, Quit, Deciding
    <2>3. <<>> # Booting /\ \A q \in Deciding \cup {QuitSteps} : q # Booting
      BY DEF Deciding, QuitSteps, Booting
    <2>4. todo'["main"] # Booting
      BY <2>1, <2>2, <2>3 DEF TodoTypes
    <2> QED
      BY <2>4 DEF AtBoot
  <1>3. ASSUME todo'["main"] = todo["main"],
               todo["main"] = Booting =>
                  UNCHANGED <<httpd, holds>> /\ \A h \in Handlers : todo'[h] = todo[h]
        PROVE  AtBoot'
    BY <1>3 DEF AtBoot
  <1>4. CASE Main \/ WindowRaises
    <2>1. CASE TickEnds
      BY <1>3, <2>1 DEF TickEnds, server
    <2>2. CASE ~TickEnds
      <3>1. todo["main"] # <<>> /\ todo["main"] \in MainTodos
        BY <1>4, <2>2 DEF Main, WindowRaises, BootServer, Act, ShowWindow, WindowShown,
                          StopLines, QuitServer, ReleaseOwner, Due, TodoTypes
      <3>2. todo'["main"] = Tail(todo["main"])
            \/ \E q \in {<<>>, <<"act", "shown">>, <<"act">>} : todo'["main"] = q
        BY <1>4, <2>2 DEF Main, WindowRaises, BootServer, Act, ShowWindow, WindowShown,
                          StopLines, QuitServer, ReleaseOwner, Done, Decide, Chooses, TodoTypes
      <3>3. \A q \in {<<>>, <<"act", "shown">>, <<"act">>} : q # Booting
        BY DEF Booting
      <3>4. todo'["main"] # Booting
        BY <1>1, <3>1, <3>2, <3>3
      <3> QED
        BY <3>4 DEF AtBoot
    <2> QED
      BY <2>1, <2>2
  <1>5. ASSUME NEW h \in Handlers, Put(h) \/ Request(h)
        PROVE  AtBoot'
    <2>1. todo["main"] # Booting
      BY <1>5 DEF AtBoot, Put, Request, LoadSaved, AssignSaved, Act, GatewaySaved, Due
    <2>2. todo'["main"] = todo["main"]
      BY <1>5 DEF Put, Request, LoadSaved, AssignSaved, Act, GatewaySaved, Done, Decide,
                  Chooses, TodoTypes
    <2> QED
      BY <2>1, <2>2 DEF AtBoot
  <1>6. CASE TickBegins \/ Serving \/ Faults \/ Alone(HealStarts) \/ Alone(BackoffEnds)
             \/ MitmDies \/ ToldEnds \/ LinkChanges \/ CaffeinateKilled \/ UNCHANGED vars
    <2>1. UNCHANGED <<todo, httpd, holds>>
      BY <1>6 DEF TickBegins, Serving, Faults, Alone, others, MitmDies, ToldEnds, LinkChanges,
                  CaffeinateKilled, vars, server
    <2> QED
      BY <1>3, <2>1
  <1>7. CASE ServerThreadEnds
    BY <1>7 DEF ServerThreadEnds, AtBoot
  <1>8. ASSUME NEW t \in Threads, Calls(t)
        PROVE  AtBoot'
    BY <1>3, <1>8 DEF Calls, others, server
  <1> QED
    BY <1>2, <1>4, <1>5, <1>6, <1>7, <1>8 DEF Next

LEMMA ServerStep ==
  ASSUME RuntimeTypes, TodoTypes, ShellTypes, QuitInv, AtBoot, ServerInv, [Next]_vars
  PROVE  ServerInv'
  <1> USE ThreadFacts, ListFacts
  <1>1. SUFFICES ASSUME life' = "up", ~raced' PROVE Agreed'
    BY DEF ServerInv, Agreed
  <1>2. life = "up" /\ ~Quit /\ ~StopLines /\ ~QuitServer /\ ~ReleaseOwner
    <2>1. ~Quit /\ ~ReleaseOwner
      BY <1>1 DEF Quit, ReleaseOwner
    <2>2. life = "up"
      BY <1>1, <2>1, QuitAlone
         DEF Next, Main, Request, Serving, Faults, Alone, others, vars, StopLines, QuitServer,
             Put, LoadSaved, AssignSaved, Act, GatewaySaved, Calls, ServerThreadEnds, MitmDies, ToldEnds,
             LinkChanges, CaffeinateKilled
    <2>3. todo["main"] \notin Leaving /\ todo["main"] \in Todos
      BY <2>2 DEF QuitInv, TodoTypes
    <2> QED
      BY <2>1, <2>2, <2>3, StepFacts DEF StopLines, QuitServer, Due, Leaving
  <1>3. ASSUME UNCHANGED <<holds, apiDisk, read, wanted, httpd, refused, todo, raced>>
        PROVE  Agreed'
    <2>1. Agreed
      BY <1>1, <1>2, <1>3 DEF ServerInv, Agreed
    <2> QED
      BY <1>3, <2>1 DEF Agreed, OneDecision, AtBoot, Decided, Followed, Acts
  <1>4. ASSUME ~raced PROVE Agreed
    BY <1>2, <1>4 DEF ServerInv, Agreed
  <1>5. CASE OpenWindow \/ ShowWindow \/ WindowRaises \/ CloseWindow \/ CopyInstructions
    <2>1. ~raced
      BY <1>1, <1>5 DEF OpenWindow, ShowWindow, WindowRaises, CloseWindow, CopyInstructions,
                        Decide, Overlaps
    <2> QED
      BY <1>1, <1>4, <1>5, <2>1, MenuAgrees
  <1>6. CASE WindowShown
    <2>1. todo["main"] = <<"shown">> /\ Tail(todo["main"]) = <<>>
      BY <1>6, StepFacts DEF WindowShown, Due, TodoTypes
    <2>2. Agreed
      BY <1>1, <1>4, <1>6 DEF WindowShown
    <2> QED
      BY <1>6, <2>1, <2>2, QuietStep DEF WindowShown, Done
  <1>7. ASSUME NEW t \in Threads, Act(t) PROVE Agreed'
    <2>1. ~raced
      BY <1>1, <1>7 DEF Act, StartServer, StopServerThread
    <2> QED
      BY <1>1, <1>4, <1>7, <2>1, ActAgrees
  <1>8. ASSUME NEW h \in Handlers, Put(h) \/ LoadSaved(h) \/ AssignSaved(h) PROVE Agreed'
    <2>1. CASE Put(h)
      BY <1>1, <1>4, <2>1, PutAgrees
    <2>2. CASE LoadSaved(h) \/ AssignSaved(h)
      <3>1. ~raced
        BY <1>1, <2>2 DEF LoadSaved, AssignSaved, Decide, Overlaps
      <3> QED
        BY <1>1, <1>4, <2>2, <3>1, LoadAgrees, AssignAgrees
    <2> QED
      BY <1>8, <2>1, <2>2
  <1>9. ASSUME NEW h \in Handlers, GatewaySaved(h) PROVE Agreed'
    <2>1. todo[h] = <<"gateway">> /\ Tail(todo[h]) = <<>>
      BY <1>9, StepFacts DEF GatewaySaved, Due, TodoTypes
    <2>2. Agreed
      BY <1>1, <1>4, <1>9 DEF GatewaySaved, server
    <2>3. todo["main"] # Booting
      BY <2>1, <2>2 DEF Agreed, AtBoot
    <2> QED
      BY <1>9, <2>1, <2>2, <2>3, QuietStep DEF GatewaySaved, Done, server
  <1>10. CASE BootServer
    <2>1. PICK taken \in BOOLEAN :
             IF holds.api THEN StartServer(taken)
             ELSE ~taken /\ UNCHANGED <<httpd, refused, raced, events>>
      BY <1>10 DEF BootServer
    <2>2. ~raced
      BY <1>1, <2>1 DEF StartServer
    <2> QED
      BY <1>4, <1>10, <2>2, BootAgrees
  <1>11. CASE ServerThreadEnds
    <2>1. Agreed
      BY <1>1, <1>4, <1>11 DEF ServerThreadEnds
    <2>2. /\ UNCHANGED <<holds, apiDisk, read, wanted, refused, todo>>
          /\ httpd = "dying" /\ httpd' = "down"
      BY <1>11 DEF ServerThreadEnds
    <2> QED
      BY <2>1, <2>2 DEF Agreed, OneDecision, AtBoot, Decided, Followed, Acts
  <1>12. CASE Minimise \/ ToggleGateway \/ ReloadGateway \/ RestartGateway \/ ToggleCapture
              \/ GuideTrusts \/ GuideGivenUp \/ TogglePrevent \/ TickBegins \/ TickEnds
    BY <1>3, <1>12 DEF Minimise, ToggleGateway, ReloadGateway, RestartGateway, ToggleCapture,
                       GuideTrusts, GuideGivenUp, TogglePrevent, TickBegins, TickEnds, others,
                       server
  <1>13. CASE Serving \/ Faults \/ Alone(HealStarts) \/ Alone(BackoffEnds) \/ MitmDies
              \/ ToldEnds \/ LinkChanges \/ CaffeinateKilled \/ UNCHANGED vars
    BY <1>3, <1>13 DEF Serving, Faults, Alone, others, MitmDies, ToldEnds, LinkChanges,
                       CaffeinateKilled, vars, server
  <1>14. ASSUME NEW t \in Threads, Calls(t) PROVE Agreed'
    BY <1>3, <1>14 DEF Calls, others, server
  <1>15. CASE ToggleApi
    BY <1>1, <1>15, ToggleAgrees
  <1> QED
    BY <1>2, <1>5, <1>6, <1>7, <1>8, <1>9, <1>10, <1>11, <1>12, <1>13, <1>14, <1>15
       DEF Next, Menu, Main, Request

-----------------------------------------------------------------------------
(* The theorems                                                            *)

LEMMA Invariance == Spec => []IInv
  <1>1. IInv /\ [Next]_vars => IInv'
    <2> SUFFICES ASSUME IInv, [Next]_vars PROVE IInv'
      OBVIOUS
    <2>1. RuntimeTypes /\ TodoTypes /\ ShellTypes
      BY TypeParts DEF IInv
    <2>2. CaptureInv'
      BY CaptureStep DEF IInv
    <2>3. TypeOK' /\ ShapeInv'
      BY <2>2, TypeStep DEF IInv
    <2>4. QuitInv'
      BY <2>1, QuitStep DEF IInv
    <2>5. ServedInv'
      BY <2>1, ServedStep DEF IInv
    <2>6. ServerInv'
      BY <2>1, ServerStep DEF IInv
    <2>7. AtBoot'
      BY <2>1, BootStep DEF IInv
    <2> QED
      BY <2>2, <2>3, <2>4, <2>5, <2>6, <2>7 DEF IInv
  <1> QED
    BY <1>1, InitInv, PTL DEF Spec

\* Every variable of the shell keeps its type: the watchdog's count stays within one
\* of its threshold, and the server's configuration is one that loads.
THEOREM ShellTypesHold == Spec => []TypeOK
  BY Invariance, PTL DEF IInv

\* Until the quit at most one mitmdump runs, and none while capture mode is off,
\* whatever starts, fails to start, dies, is toggled or is trusted in whatever order.
THEOREM NoCaptureIsStray == Spec => []NoStrayCapture
  <1>1. IInv => NoStrayCapture
    BY DEF IInv, CaptureInv, NoStrayCapture
  <1> QED
    BY <1>1, Invariance, PTL

\* Once the instance lock is released everything has been stopped or told to end: the
\* gateway, unless one was started during the quit or met starting (overtaken) or a
\* claim has met a stop (crossed); the settings server, unless two decisions about it
\* overlapped (raced); the sleep assertion; mitmdump, which has had its signal and may
\* still be on its way out, as may the settings server's thread.
THEOREM QuitReachesAll == Spec => []QuitIsClean
  <1>1. IInv => QuitIsClean
    <2>1. ASSUME QuitInv, life = "left" PROVE QuitIsClean
      <3>1. todo["main"] # QuitSteps
        BY <2>1 DEF QuitInv, QuitSteps
      <3> QED
        BY <2>1, <3>1 DEF QuitInv, QuitIsClean, Running
    <2> QED
      BY <2>1 DEF IInv, QuitIsClean
  <1> QED
    BY <1>1, Invariance, PTL

\* However saves, menu and watchdog interleave in the lockless runtime, as long as no
\* claim of one has met the stop of another, a gateway that accepts serves what was
\* saved last as soon as every save has returned.
THEOREM SavedIsServed == Spec => []ServedIsSaved
  <1>1. IInv => ServedIsSaved
    <2>1. ASSUME NEW h \in Handlers, Idle(h) PROVE ~Owes(h)
      BY <2>1 DEF Idle, Owes, Owing
    <2> QED
      BY <2>1 DEF IInv, ServedInv, ServedIsSaved
  <1> QED
    BY <1>1, Invariance, PTL

\* Once its callbacks have returned the settings server listens for whoever holds it
\* and for nobody else, or found its port taken, unless two decisions about it
\* overlapped (raced); and from there on too, as soon as a save or a switch of the API
\* has met no other decision.
THEOREM HoldersAreFollowed == Spec => []ServerFollowsHolders
  <1>1. IInv => ServerFollowsHolders
    <2> SUFFICES ASSUME IInv, life = "up", ~raced, \A t \in Threads : todo[t] = <<>>
                 PROVE  /\ httpd = "up" => Wanted(holds)
                        /\ Wanted(holds) => httpd = "up" \/ refused
                        /\ holds.api = apiDisk
      BY DEF ServerFollowsHolders
    <2>1. Agreed
      BY DEF IInv, ServerInv, Agreed
    <2>2. \A t \in Threads : /\ ~Acts(t) /\ todo[t] # Booting
                             /\ todo[t] \notin Loading \cup Assigning
      BY ListFacts DEF Acts, Syncing
    <2> QED
      BY <2>1, <2>2, ThreadFacts DEF Agreed, Decided, Followed
  <1> QED
    BY <1>1, Invariance, PTL
=============================================================================

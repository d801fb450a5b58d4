----------------------------- MODULE Connection ------------------------------
(***************************************************************************)
(* One ssh session and who drives it: the main session of                  *)
(* tunnel/connection_coordinator.py (role "proxy") or one of its forward   *)
(* sessions (role "forward", tunnel/ssh_session.py), each with its process *)
(* monitor, its retry scheduler and its host-key flow.                     *)
(*                                                                         *)
(* The main thread runs the menu, the one-second tick and the host-key     *)
(* callbacks; a daemon thread runs restart.  restart, the menu's calls and *)
(* the health check hold _lifecycle_lock; the retry of the main session    *)
(* and the host-key callbacks do not, so their stop and start of the       *)
(* process interleave with restart's.  Whatever takes time in between is a *)
(* step of its own; a call that holds the lock on the main thread is one   *)
(* step, since no other part of it can be seen.                            *)
(*                                                                         *)
(* HostKeyFlow's generation counter is modelled by what it decides: a new  *)
(* generation drops the inspection under way and makes the prompts that    *)
(* are open stale.                                                         *)
(***************************************************************************)
EXTENDS Naturals, Sequences

CONSTANTS
    Roles,      \* the roles the run looks at, a subset of RoleNames
    Procs,      \* ssh processes; one that is gone may be used again
    NoProc,
    Hazards,    \* what the run allows, a subset of HazardKinds
    MaxFaults,  \* BOUND: hazards met per behaviour
    MaxActs     \* BOUND: the user's acts, and wakes of the machine

RoleNames   == {"proxy", "forward"}
HazardKinds == {"spawn",    \* the ssh process cannot be started
                "link",     \* a connected ssh process dies
                "net",      \* the server cannot be reached, for a while
                "key",      \* the server changes its host key
                "inspect"}  \* the inspection of the key fails
Notes       == {"crossed",  \* a start and the stop of a restart met, both
                            \* waiting for the same process
                "outrun",   \* a forward session was stopped while it started
                "refused",  \* a prompt was refused while a process ran
                "stale",    \* a prompt was refused that had gone stale
                "revived"}  \* a key was replaced for a forward session that was
                            \* dropped, or in the middle of a restart

ASSUME ConnectionAssumption ==
    /\ Roles \subseteq RoleNames
    /\ NoProc \notin Procs
    /\ {MaxFaults, MaxActs} \subseteq Nat
    /\ Hazards \subseteq HazardKinds

VARIABLES
    role,       \* which session this is
    open,       \* forward: it is in _forward_sessions; proxy: always
    paused,     \* _paused
    status,     \* monitor._status
    reason,     \* monitor._error_msg, as is_host_key_changed classifies it
    proc,       \* monitor.process
    timer, due, \* the retry scheduler: a timer is alive; _due
    prompted,   \* host_key.change_prompted
    job,        \* the inspection of the current generation
    asks,       \* the prompts that are open, the innermost last
    main,       \* where the main thread is
    bg,         \* where the restart thread is; it holds the lock if anywhere
    living,     \* ssh processes that run
    told,       \* those that were sent SIGTERM
    up,         \* the one that forwards the port
    fate,       \* [Procs -> what a process that has ended says of it]
    known,      \* the server's key: unknown to us, trusted, or changed since
    net,        \* the server can be reached
    wanted,     \* history: the user's last word was to connect
    met, faults, acts

session == <<open, paused, status, reason, proc, timer, due, prompted, job, asks>>
world   == <<living, told, up, fate, known, net>>
history == <<wanted, met, faults, acts>>
vars == <<role, session, main, bg, world, history>>

-----------------------------------------------------------------------------

Reasons == {"none", "changed", "other"}
NoJob   == [kind |-> "none", result |-> "none"]
Jobs    == [kind : {"check", "replace"},
            result : {"pending", "known", "ask", "failed"}]
Asks    == [kind : {"check", "replace"}, fresh : BOOLEAN]

\* step: idle, or in the tick (retry done, "check" to do), or in monitor.start
\* ("stopping" the old process, "launch", "popen"); next: what start goes on to.
Idle  == [step |-> "idle", old |-> NoProc, next |-> "idle"]
Mains == [step : {"idle", "check", "stopping", "launch", "popen"},
          old : Procs \cup {NoProc}, next : {"idle", "check"}]
NoRestart == [step |-> "none", old |-> NoProc]
Restarts  == [step : {"none", "stopping", "connect"}, old : Procs \cup {NoProc}]

TypeOK ==
    /\ role \in RoleNames
    /\ {open, paused, timer, due, prompted, net, wanted} \subseteq BOOLEAN
    /\ status \in {"stopped", "connecting", "connected", "error"}
    /\ reason \in Reasons
    /\ proc \in Procs \cup {NoProc}
    /\ job \in Jobs \cup {NoJob}
    /\ asks \in Seq(Asks)
    /\ main \in Mains
    /\ bg \in Restarts
    /\ told \subseteq living /\ up \subseteq living /\ living \subseteq Procs
    /\ fate \in [Procs -> Reasons]
    /\ known \in {"unknown", "trusted", "changed"}
    /\ met \subseteq Hazards \cup Notes
    /\ faults \in 0 .. MaxFaults
    /\ acts \in 0 .. MaxActs

Init ==
    /\ role \in Roles
    /\ open = (role = "proxy")
    /\ paused = FALSE
    /\ status = "stopped" /\ reason = "none" /\ proc = NoProc
    /\ timer = FALSE /\ due = FALSE
    /\ prompted = FALSE /\ job = NoJob /\ asks = <<>>
    /\ main = Idle /\ bg = NoRestart
    /\ living = {} /\ told = {} /\ up = {}
    /\ fate = [p \in Procs |-> "none"]
    /\ known \in {"unknown", "trusted", "changed"}
    /\ net = TRUE
    /\ wanted = FALSE /\ met = {} /\ faults = 0 /\ acts = 0

May(h)   == h \in Hazards /\ faults < MaxFaults
Fault(h) ==
    /\ May(h)
    /\ faults' = faults + 1 /\ met' = met \cup {h}
    /\ UNCHANGED <<wanted, acts>>

MainFree == main = Idle
Starting == main.step \in {"stopping", "launch", "popen"}
\* The tick of a forward session holds the lock through both its halves.
LockFree == bg = NoRestart /\ ~(role = "forward" /\ main.step = "check")
Alerting == asks # <<>>

-----------------------------------------------------------------------------
(* What the calls are made of                                               *)

Stale == [i \in DOMAIN asks |-> [asks[i] EXCEPT !.fresh = FALSE]]

CancelRetry == timer' = FALSE /\ due' = FALSE

\* HostKeyFlow.cancel.
CancelHostKey ==
    /\ job' = NoJob
    /\ asks' = Stale
    /\ prompted' = FALSE

\* start_check: a new generation; "connecting" though no process runs yet.
StartCheck ==
    /\ job' = [kind |-> "check", result |-> "pending"]
    /\ asks' = Stale
    /\ status' = "connecting"
    /\ UNCHANGED prompted

\* monitor.stop, in full: the process is gone when it returns.
StopProc ==
    /\ proc' = NoProc
    /\ living' = living \ {proc} /\ told' = told \ {proc} /\ up' = up \ {proc}

\* History: n is met if b.
Note(n, b) ==
    /\ met' = IF b THEN met \cup {n} ELSE met
    /\ UNCHANGED <<wanted, faults, acts>>

\* Mutant of BeginStart: start does not stop the old process first.
BeginStartOver(next) ==
    /\ Note("crossed", bg.step = "stopping")
    /\ main' = [step |-> "launch", old |-> NoProc, next |-> next]
    /\ status' = "stopped"
    /\ UNCHANGED told

\* monitor.start, as far as its stop has to wait for the old process.
BeginStart(next) ==
    /\ Note("crossed", bg.step = "stopping")
    /\ IF proc = NoProc
       THEN /\ main' = [step |-> "launch", old |-> NoProc, next |-> next]
            /\ status' = "stopped"
            /\ UNCHANGED told
       ELSE /\ main' = [step |-> "stopping", old |-> proc, next |-> next]
            /\ told' = told \cup ({proc} \cap living)
            /\ UNCHANGED status

-----------------------------------------------------------------------------
(* The main thread inside monitor.start                                     *)

Stopped ==
    /\ main.step = "stopping" /\ main.old \notin living
    /\ proc' = NoProc
    /\ status' = "stopped"
    /\ main' = [main EXCEPT !.step = "launch", !.old = NoProc]
    /\ UNCHANGED <<role, open, paused, reason, timer, due, prompted, job, asks,
                   bg, world, history>>

Launch ==
    /\ main.step = "launch"
    /\ status' = "connecting" /\ reason' = "none"
    /\ main' = [main EXCEPT !.step = "popen"]
    /\ UNCHANGED <<role, open, paused, proc, timer, due, prompted, job, asks,
                   bg, world, history>>

Popen ==
    /\ main.step = "popen"
    /\ main' = [Idle EXCEPT !.step = main.next]
    /\ \/ \E p \in Procs \ (living \cup {proc, bg.old}) :
             /\ proc' = p
             /\ living' = living \cup {p}
             /\ fate' = [fate EXCEPT ![p] = "none"]
             /\ UNCHANGED <<status, reason, history>>
       \/ /\ Fault("spawn")
          /\ proc' = NoProc
          /\ status' = "error" /\ reason' = "other"
          /\ UNCHANGED <<living, fate>>
    /\ UNCHANGED <<role, open, paused, timer, due, prompted, job, asks, bg,
                   told, up, known, net>>

-----------------------------------------------------------------------------
(* The tick                                                                 *)

\* handle_retry: the main session starts ssh at once, without the lock.
RetryProxy ==
    /\ role = "proxy" /\ MainFree /\ ~Alerting
    /\ due' = FALSE
    /\ IF due /\ ~paused /\ status \in {"stopped", "error"}
       THEN BeginStart("check")
       ELSE /\ main' = [Idle EXCEPT !.step = "check"]
            /\ UNCHANGED <<status, told, history>>
    /\ UNCHANGED <<role, open, paused, reason, proc, timer, prompted, job, asks,
                   bg, living, up, fate, known, net>>

\* SshSession.tick, first half: a forward session goes through its host-key
\* check again.
RetryForward ==
    /\ role = "forward" /\ open /\ MainFree /\ ~Alerting /\ LockFree
    /\ IF due /\ status \in {"stopped", "error"}
       THEN CancelRetry /\ StartCheck
       ELSE due' = FALSE /\ UNCHANGED <<timer, job, asks, status, prompted>>
    /\ main' = [Idle EXCEPT !.step = "check"]
    /\ UNCHANGED <<role, open, paused, reason, proc, bg, world, history>>

\* Mutant of Recover: only the tick that finds ssh dead schedules a retry.
RecoverOnce(st, why) ==
    CASE st = "error" /\ why = "changed" /\ ~prompted ->
            /\ prompted' = TRUE
            /\ job' = [kind |-> "replace", result |-> "pending"]
            /\ asks' = Stale
            /\ UNCHANGED timer
      [] st = "error" /\ status # "error" /\ (why # "changed" \/ prompted) ->
            timer' = TRUE /\ UNCHANGED <<prompted, job, asks>>
      [] OTHER -> UNCHANGED <<timer, prompted, job, asks>>

\* Mutant of Recover: change_prompted is tested the wrong way round.
RecoverBackwards(st, why) ==
    CASE st = "error" /\ why = "changed" /\ prompted ->
            /\ job' = [kind |-> "replace", result |-> "pending"]
            /\ asks' = Stale
            /\ UNCHANGED <<timer, prompted>>
      [] st = "error" /\ (why # "changed" \/ ~prompted) ->
            timer' = TRUE /\ UNCHANGED <<prompted, job, asks>>
      [] OTHER -> UNCHANGED <<timer, prompted, job, asks>>

\* check_and_recover, after monitor.check.
Recover(st, why) ==
    CASE st = "error" /\ why = "changed" /\ ~prompted ->
            /\ prompted' = TRUE
            /\ job' = [kind |-> "replace", result |-> "pending"]
            /\ asks' = Stale
            /\ UNCHANGED timer
      [] st = "error" /\ (why # "changed" \/ prompted) ->
            timer' = TRUE /\ UNCHANGED <<prompted, job, asks>>
      [] OTHER -> UNCHANGED <<timer, prompted, job, asks>>

\* monitor.check polls the process; whoever serves the port makes it ready.
Check ==
    /\ main.step = "check"
    /\ main' = Idle
    /\ IF bg # NoRestart \/ paused
       THEN UNCHANGED <<status, reason, proc, timer, prompted, job, asks>>
       ELSE LET died == proc # NoProc /\ proc \notin living
                st == CASE died -> "error"
                        [] /\ proc # NoProc /\ ~died
                           /\ status = "connecting" /\ up # {} -> "connected"
                        [] OTHER -> status
                why == IF died THEN fate[proc] ELSE reason
            IN  /\ status' = st /\ reason' = why
                /\ proc' = IF died THEN NoProc ELSE proc
                /\ Recover(st, why)
    /\ UNCHANGED <<role, open, paused, due, bg, world, history>>

TimerFires ==
    /\ timer
    /\ timer' = FALSE /\ due' = TRUE
    /\ UNCHANGED <<role, open, paused, status, reason, proc, prompted, job, asks,
                   main, bg, world, history>>

-----------------------------------------------------------------------------
(* The host-key flow                                                        *)

\* The inspecting thread: a key on file is known without asking the server.
Inspect ==
    /\ job.result = "pending"
    /\ \/ /\ job' = [job EXCEPT !.result =
                IF job.kind = "check" /\ known # "unknown" THEN "known"
                ELSE IF net THEN "ask" ELSE "failed"]
          /\ UNCHANGED history
       \/ /\ Fault("inspect")
          /\ job' = [job EXCEPT !.result = "failed"]
    /\ UNCHANGED <<role, open, paused, status, reason, proc, timer, due, prompted,
                   asks, main, bg, world>>

\* The callbacks also run while a prompt is open, inside its event loop.
FinishKnown ==
    /\ MainFree /\ job = [kind |-> "check", result |-> "known"]
    /\ job' = NoJob
    /\ prompted' = FALSE
    /\ BeginStart("idle")
    /\ UNCHANGED <<role, open, paused, reason, proc, timer, due, asks, bg,
                   living, up, fate, known, net>>

FinishAsk ==
    /\ MainFree /\ job.result = "ask"
    /\ job' = NoJob
    /\ asks' = Append(asks, [kind |-> job.kind, fresh |-> TRUE])
    /\ UNCHANGED <<role, open, paused, status, reason, proc, timer, due, prompted,
                   main, bg, world, history>>

\* The alert that reports the failure is taken to be dismissed at once.
FinishFailed ==
    /\ MainFree /\ job.result = "failed"
    /\ job' = NoJob
    /\ IF job.kind = "check"
       THEN status' = "error" /\ reason' = "other"
       ELSE UNCHANGED <<status, reason>>
    /\ UNCHANGED <<role, open, paused, proc, timer, due, prompted, asks, main, bg,
                   world, history>>

Top == asks[Len(asks)]
Close == SubSeq(asks, 1, Len(asks) - 1)

\* "Trust and connect"; a prompt that has gone stale only stores the key.
AcceptCheck ==
    /\ MainFree /\ Alerting /\ Top.kind = "check"
    /\ asks' = Close
    /\ known' = IF known = "unknown" THEN "trusted" ELSE known
    /\ IF Top.fresh
       THEN prompted' = FALSE /\ BeginStart("idle")
       ELSE UNCHANGED <<prompted, main, status, told, history>>
    /\ UNCHANGED <<role, open, paused, reason, proc, timer, due, job, bg,
                   living, up, fate, net>>

\* "Checked, replace", then the connection starts over, whether or not the
\* prompt has gone stale: start_ssh takes the lock, SshSession.connect does not.
AcceptReplace ==
    /\ MainFree /\ Alerting /\ Top.kind = "replace"
    /\ role = "proxy" => LockFree
    /\ known' = "trusted"
    /\ CancelRetry
    /\ paused' = FALSE
    /\ job' = [kind |-> "check", result |-> "pending"]
    /\ asks' = [i \in DOMAIN Close |-> [Close[i] EXCEPT !.fresh = FALSE]]
    /\ status' = "connecting"
    /\ prompted' = FALSE
    /\ wanted' = open
    /\ met' = IF open /\ LockFree THEN met ELSE met \cup {"revived"}
    /\ UNCHANGED <<role, open, reason, proc, main, bg, living, told, up, fate, net,
                   faults, acts>>

\* "Cancel", or the key cannot be stored; stale or not.
Refuse ==
    /\ MainFree /\ Alerting
    /\ asks' = Close
    /\ status' = "stopped"
    /\ wanted' = (wanted /\ ~Top.fresh)
    /\ met' = met \cup (IF proc # NoProc THEN {"refused"} ELSE {})
                  \cup (IF Top.fresh THEN {} ELSE {"stale"})
    /\ UNCHANGED <<role, open, paused, reason, proc, timer, due, prompted, job,
                   main, bg, world, faults, acts>>

Answer == AcceptCheck \/ AcceptReplace \/ Refuse

-----------------------------------------------------------------------------
(* The user, and the machine that wakes                                     *)

Act(want) ==
    /\ acts < MaxActs /\ acts' = acts + 1
    /\ wanted' = want
    /\ UNCHANGED <<met, faults>>
AtMenu == MainFree /\ ~Alerting /\ LockFree

\* start at launch; start_forward, from a thread of its own.  A session that is
\* dropped is created anew when nothing of the old one is left.
Connect ==
    /\ LockFree /\ status \in {"stopped", "error"}
    /\ IF role = "proxy" THEN acts = 0
       ELSE open \/ (MainFree /\ ~Alerting /\ living = {})
    /\ Act(TRUE)
    /\ open' = TRUE
    /\ CancelRetry /\ StartCheck
    /\ UNCHANGED <<role, paused, reason, proc, main, bg, world>>

\* cancel; the tick of a forward session whose server has no forwards left.
Disconnect ==
    /\ AtMenu /\ open
    /\ Act(FALSE)
    /\ CancelRetry /\ CancelHostKey
    /\ StopProc /\ status' = "stopped"
    /\ open' = (role = "proxy")
    /\ UNCHANGED <<role, paused, reason, main, bg, fate, known, net>>

\* toggle_pause: ssh goes on while paused, but nobody looks at it.
Pause ==
    /\ role = "proxy" /\ AtMenu /\ ~paused
    /\ Act(wanted)
    /\ paused' = TRUE
    /\ UNCHANGED <<role, open, status, reason, proc, timer, due, prompted, job,
                   asks, main, bg, world>>

Resume ==
    /\ paused /\ AtMenu
    /\ paused' = FALSE
    /\ IF status \in {"stopped", "error"}
       THEN CancelRetry /\ StartCheck /\ wanted' = TRUE
       ELSE UNCHANGED <<timer, due, job, asks, status, prompted, wanted>>
    /\ UNCHANGED <<role, open, reason, proc, main, bg, world, met, faults, acts>>

\* handle_reconnect_trigger, reconnect_now: a connected session is taken for
\* dead, a connecting one left alone.
Wake ==
    /\ AtMenu /\ open /\ ~paused /\ status # "connecting"
    /\ Act(TRUE)
    /\ CancelRetry /\ StartCheck
    /\ IF status = "connected" THEN StopProc
       ELSE UNCHANGED <<proc, living, told, up>>
    /\ UNCHANGED <<role, open, paused, reason, main, bg, fate, known, net>>

-----------------------------------------------------------------------------
(* restart and restart_forward, in a thread of their own                    *)

\* stop_forward takes the session out of the registry first.
RestartBegin ==
    /\ open /\ LockFree
    /\ acts < MaxActs /\ acts' = acts + 1
    /\ open' \in (IF role = "proxy" THEN {TRUE} ELSE BOOLEAN) /\ wanted' = open'
    /\ met' = met \cup (IF main.step = "stopping" THEN {"crossed"} ELSE {})
                  \cup (IF role = "forward" /\ Starting THEN {"outrun"} ELSE {})
    /\ CancelRetry /\ CancelHostKey
    /\ IF proc = NoProc
       THEN /\ bg' = [step |-> "connect", old |-> NoProc]
            /\ status' = "stopped"
            /\ UNCHANGED told
       ELSE /\ bg' = [step |-> "stopping", old |-> proc]
            /\ told' = told \cup ({proc} \cap living)
            /\ UNCHANGED status
    /\ UNCHANGED <<role, paused, reason, proc, main, living, up, fate, known, net,
                   faults>>

RestartStopped ==
    /\ bg.step = "stopping" /\ bg.old \notin living
    /\ proc' = NoProc
    /\ status' = "stopped"
    /\ bg' = [step |-> "connect", old |-> NoProc]
    /\ UNCHANGED <<role, open, paused, reason, timer, due, prompted, job, asks,
                   main, world, history>>

\* The configuration is read again; what is left of it decides whether a
\* forward session goes on, if it was not to stop anyway.
RestartConnect ==
    /\ bg.step = "connect"
    /\ bg' = NoRestart
    /\ paused' = FALSE
    /\ \/ /\ open
          /\ CancelRetry /\ StartCheck
          /\ UNCHANGED <<open, wanted>>
       \/ /\ role = "forward"
          /\ open' = FALSE /\ wanted' = FALSE
          /\ UNCHANGED <<timer, due, job, asks, prompted, status>>
    /\ UNCHANGED <<role, reason, proc, main, world, met, faults, acts>>

-----------------------------------------------------------------------------
(* The ssh processes and the server                                         *)

ProcUp(p) ==
    /\ p \in living \ told
    /\ known = "trusted" /\ net /\ up = {}
    /\ up' = {p}
    /\ UNCHANGED <<role, session, main, bg, living, told, fate, known, net, history>>

\* It ends because it was told to, cannot reach or trust the server, or finds
\* its port taken.
Doomed(p) ==
    /\ p \in living
    /\ p \in told \/ (p \notin up /\ (known # "trusted" \/ ~net \/ up # {}))
ProcEnds(p) ==
    /\ p \in living
    /\ \/ Doomed(p) /\ UNCHANGED history
       \/ p \in up \ told /\ Fault("link")
    /\ living' = living \ {p} /\ told' = told \ {p} /\ up' = up \ {p}
    /\ fate' = [fate EXCEPT ![p] =
          IF p \notin told \cup up /\ known = "changed" /\ net
          THEN "changed" ELSE "other"]
    /\ UNCHANGED <<role, session, main, bg, known, net>>

NetDown ==
    /\ net /\ Fault("net")
    /\ net' = FALSE
    /\ UNCHANGED <<role, session, main, bg, living, told, up, fate, known>>

NetUp ==
    /\ ~net
    /\ net' = TRUE
    /\ UNCHANGED <<role, session, main, bg, living, told, up, fate, known, history>>

KeyChanges ==
    /\ known = "trusted" /\ Fault("key")
    /\ known' = "changed"
    /\ UNCHANGED <<role, session, main, bg, living, told, up, fate, net>>

-----------------------------------------------------------------------------

Next ==
    \/ Stopped \/ Launch \/ Popen
    \/ RetryProxy \/ RetryForward \/ Check \/ TimerFires
    \/ Inspect \/ FinishKnown \/ FinishAsk \/ FinishFailed \/ Answer
    \/ Connect \/ Disconnect \/ Pause \/ Resume \/ Wake
    \/ RestartBegin \/ RestartStopped \/ RestartConnect
    \/ \E p \in Procs : ProcUp(p) \/ ProcEnds(p)
    \/ NetDown \/ NetUp \/ KeyChanges

Spec == Init /\ [][Next]_vars

Finish == FinishKnown \/ FinishAsk \/ FinishFailed

\* Threads run, timers fire, ssh gets somewhere, and the main thread's loop
\* serves the callbacks as well as the ticks.  Nobody has to answer a prompt.
Fairness ==
    /\ WF_vars(Stopped \/ Launch \/ Popen)
    /\ WF_vars(RetryProxy \/ RetryForward) /\ WF_vars(Check)
    /\ WF_vars(TimerFires)
    /\ WF_vars(Inspect) /\ SF_vars(Finish)
    /\ WF_vars(RestartStopped \/ RestartConnect)
    /\ \A p \in Procs : WF_vars(ProcUp(p) \/ (Doomed(p) /\ ProcEnds(p)))
FairSpec == Spec /\ Fairness

-----------------------------------------------------------------------------
(* Properties                                                               *)

\* Nothing happened that the code is known not to cope with; the first of the Notes
\* loses a process, the next but "stale" leave one to a session that has stopped.
Orderly   == met \cap Notes = {}
Uncrossed == "crossed" \notin met
Followed  == Uncrossed /\ met \cap {"outrun", "refused", "revived"} = {}
AtRest    == MainFree /\ LockFree

\* Whoever stops and starts the session, and whatever restart comes in between, no
\* ssh process is lost sight of: one that runs and was not told to stop is the
\* monitor's, which alone can stop it.  So it is until a start and the stop of a
\* restart meet, both waiting for the same process; the later process = None of
\* the two then drops what the other has started.
\* And a session that says it has stopped, or is dropped, has none, unless a
\* forward session was stopped while it started, a prompt was refused over a
\* process, or a key was replaced for a session that was dropped or restarting.
NoOrphan ==
    /\ Uncrossed => \A p \in living : p \in told \/ p = proc
    /\ (Followed /\ AtRest /\ (status = "stopped" \/ ~open)) => living \subseteq told

\* Retries never give up: a session that is wanted is connected again and
\* again, as long as the server is there and its key trusted.
KeepsTrying ==
    <>[](wanted /\ open /\ ~paused /\ known = "trusted" /\ net /\ ~Alerting /\ Orderly)
      => []<>(status = "connected")

\* While a changed key stands between the main session and its server, a prompt is open again
\* and again (an answer either replaces the key or ends the wish), provided the scan for the
\* new key never failed: change_prompted outlives a failed scan, and nobody is
\* asked again.  (The retry of a forward session drops a scan under way, so one
\* that is slower than the retries is dropped each time.)
ChangeIsAsked ==
    <>[](/\ role = "proxy" /\ wanted /\ open /\ ~paused /\ known = "changed" /\ up = {}
         /\ met \subseteq {"spawn", "link", "key"})
      => []<>Alerting

=============================================================================

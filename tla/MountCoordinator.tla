-------------------------- MODULE MountCoordinator --------------------------
(***************************************************************************)
(* mount/coordinator.py: the NFS mounts of one server, carried by one ssh  *)
(* session that forwards one local port to the server's NFS port.          *)
(*                                                                         *)
(* The menu's calls and the one-second tick run on the main thread under   *)
(* _lock, so each is one step.  mount and umount run in worker threads,    *)
(* which take the lock only to read a row and to write their result.  The  *)
(* ssh session is modelled by what the coordinator sees of it (its status, *)
(* set when the tick checks it) and by what it does not (whether the port  *)
(* is served just now).                                                    *)
(***************************************************************************)
EXTENDS Naturals, FiniteSets

CONSTANTS
    Mounts,      \* names of the mount rows
    Auto,        \* the rows with auto_mount
    Ports,       \* local ports the user may configure
    NoPort,      \* no server, hence no port; also: not mounted
    MaxWorkers,  \* worker threads
    Hazards,     \* what the run allows, a subset of HazardKinds
    MaxFaults,   \* BOUND: hazards met per behaviour
    MaxIntents   \* BOUND: the user's start and stop requests per behaviour

HazardKinds == {"auth",     \* the administrator's authorisation is refused
                "mount",    \* mount_nfs fails, or times out and mounts later
                "umount",   \* the whole umount chain fails
                "link",     \* the ssh process dies
                "wake",     \* the machine wakes: sessions are rebuilt
                "table",    \* /sbin/mount fails: nothing seems to be mounted
                "eject",    \* the user unmounts in Finder
                "row",      \* the user removes a row, or adds it again
                "off",      \* the user turns the server's NFS off, or on
                "port",     \* the user changes the port
                "server",   \* the user removes the server, or adds it again
                "kill"}     \* the process dies

ASSUME MountAssumption ==
    /\ Auto \subseteq Mounts
    /\ NoPort \notin Ports
    /\ {MaxWorkers, MaxFaults, MaxIntents} \subseteq Nat
    /\ Hazards \subseteq HazardKinds

VARIABLES
    cfg,      \* the configuration on disk, as the coordinator reads it
    table,    \* [Mounts -> the port the mount goes through, or NoPort]: /sbin/mount
    life,     \* the process: down, up, quitting
    session,  \* [port, status] of _sessions' entry; NoSession when there is none
    served,   \* the session's port is served: its ssh process is connected
    desired,  \* _desired
    status,   \* [Mounts -> _MountState.status]
    busy,     \* [Mounts -> _MountState.busy]
    due,      \* [Mounts -> next_retry has passed]
    mjob,     \* [Mounts -> the step its _mount_job is at]
    ujob,     \* [Mounts -> the step its _unmount_job is at]
    jobPort,  \* [Mounts -> local_port of _mount_job]
    met, faults, intents

memory  == <<session, served, desired, status, busy, due>>
workers == <<mjob, ujob, jobPort>>
history == <<met, faults, intents>>
vars == <<cfg, table, life, memory, workers, history>>

-----------------------------------------------------------------------------

Configs   == [port : Ports \cup {NoPort}, on : BOOLEAN, rows : SUBSET Mounts]
NoSession == [port |-> NoPort, status |-> "none"]
Connecting(p) == [port |-> p, status |-> "connecting"]
Sessions  == [port : Ports, status : {"connecting", "connected", "error"}]

MountSteps   == {"none", "queued", "wait", "mount", "done", "failed"}
UnmountSteps == {"none", "queued", "umount", "done"}
Statuses == {"unmounted", "mounting", "mounted", "unmounting", "error"}

TypeOK ==
    /\ cfg \in Configs
    /\ table \in [Mounts -> Ports \cup {NoPort}]
    /\ life \in {"down", "up", "quitting"}
    /\ session \in Sessions \cup {NoSession}
    /\ served \in BOOLEAN
    /\ desired \subseteq Mounts
    /\ status \in [Mounts -> Statuses]
    /\ busy \in [Mounts -> BOOLEAN]
    /\ due \in [Mounts -> BOOLEAN]
    /\ mjob \in [Mounts -> MountSteps]
    /\ ujob \in [Mounts -> UnmountSteps]
    /\ jobPort \in [Mounts -> Ports \cup {NoPort}]
    /\ met \subseteq Hazards
    /\ faults \in 0 .. MaxFaults
    /\ intents \in 0 .. MaxIntents

May(h)   == h \in Hazards /\ faults < MaxFaults
Fault(h) ==
    /\ May(h)
    /\ faults' = faults + 1 /\ met' = met \cup {h}
    /\ UNCHANGED intents
Intent ==
    /\ life = "up" /\ intents < MaxIntents
    /\ intents' = intents + 1

\* The mount rows of a server that is still configured.
HasRow(m)   == cfg.port # NoPort /\ m \in cfg.rows
Enabled     == cfg.port # NoPort /\ cfg.on
Mounted(m)  == table[m] # NoPort
Connected   == session.status = "connected"
Listening(p) == served /\ session.port = p
Autostarts(c) == IF c.port # NoPort /\ c.on THEN c.rows \cap Auto ELSE {}

Fresh ==
    /\ session' = NoSession /\ served' = FALSE
    /\ status' = [m \in Mounts |-> "unmounted"]
    /\ busy' = [m \in Mounts |-> FALSE]
    /\ due' = [m \in Mounts |-> TRUE]
    /\ mjob' = [m \in Mounts |-> "none"]
    /\ ujob' = [m \in Mounts |-> "none"]
    /\ jobPort' = [m \in Mounts |-> NoPort]

\* nfs_mounts: what m looks like to one reading of the mount table; a reading that
\* fails, once for all rows, shows nothing.
Reads(ok)     == IF ok THEN UNCHANGED <<met, faults>>
                 ELSE May("table") /\ faults' = faults + 1 /\ met' = met \cup {"table"}
Seen(m, ok)   == ok /\ Mounted(m)

\* Mounts may be left from a process that was killed.
Init ==
    /\ cfg \in [port : Ports, on : {TRUE}, rows : {Mounts}]
    /\ table \in [Mounts -> {NoPort, cfg.port}]
    /\ life = "down"
    /\ session = NoSession /\ served = FALSE
    /\ desired = {}
    /\ status = [m \in Mounts |-> "unmounted"]
    /\ busy = [m \in Mounts |-> FALSE]
    /\ due = [m \in Mounts |-> TRUE]
    /\ mjob = [m \in Mounts |-> "none"]
    /\ ujob = [m \in Mounts |-> "none"]
    /\ jobPort = [m \in Mounts |-> NoPort]
    /\ met = {} /\ faults = 0 /\ intents = 0

-----------------------------------------------------------------------------
(* The user's intents                                                       *)

\* Queue a mount job for the rows of M and an unmount job for those of U,
\* unless the row is busy.
Dispatch(M, U) ==
    /\ busy' = [m \in Mounts |-> busy[m] \/ m \in M \cup U]
    /\ mjob' = [m \in Mounts |-> IF m \in M /\ ~busy[m] THEN "queued" ELSE mjob[m]]
    /\ ujob' = [m \in Mounts |-> IF m \in U /\ ~busy[m] THEN "queued" ELSE ujob[m]]

\* _ensure_session_locked: an explicit intent connects at once.
EnsureSession ==
    IF Enabled /\ session.status \in {"none", "error"}
    THEN /\ session' = Connecting(IF session = NoSession THEN cfg.port
                                  ELSE session.port)
         /\ served' = FALSE
    ELSE UNCHANGED <<session, served>>

StartMount(m) ==
    /\ Intent /\ HasRow(m)
    /\ desired' = desired \cup {m}
    /\ due' = [due EXCEPT ![m] = TRUE]
    /\ EnsureSession
    /\ Dispatch({m}, {})
    /\ status' = IF busy[m] THEN status ELSE [status EXCEPT ![m] = "mounting"]
    /\ UNCHANGED <<cfg, table, life, jobPort, met, faults>>

\* The unmount is queued, not awaited, before the session goes.
StopMount(m) ==
    /\ Intent /\ HasRow(m)
    /\ desired' = desired \ {m}
    /\ \E ok \in BOOLEAN :
       /\ Reads(ok)
       /\ IF Seen(m, ok)
          THEN /\ Dispatch({}, {m})
               /\ status' = IF busy[m] THEN status
                            ELSE [status EXCEPT ![m] = "unmounting"]
          ELSE UNCHANGED <<status, busy, mjob, ujob>>
    /\ IF desired' = {}
       THEN session' = NoSession /\ served' = FALSE
       ELSE UNCHANGED <<session, served>>
    /\ UNCHANGED <<cfg, table, life, due, jobPort>>

\* A save of the settings, and apply_autostarts after it.
Save(h, c) ==
    /\ life = "up"
    /\ Fault(h)
    /\ cfg' = c
    /\ desired' = desired \cup Autostarts(c)
    /\ UNCHANGED <<table, life, session, served, status, busy, due, workers>>

EditConfig ==
    \/ \E m \in Mounts :
          Save("row", [cfg EXCEPT !.rows = IF m \in @ THEN @ \ {m} ELSE @ \cup {m}])
    \/ Save("off", [cfg EXCEPT !.on = ~@])
    \/ cfg.port # NoPort /\ \E p \in Ports \ {cfg.port} :
          Save("port", [cfg EXCEPT !.port = p])
    \/ \E p \in Ports \cup {NoPort} :
          (p = NoPort) # (cfg.port = NoPort) /\ Save("server", [cfg EXCEPT !.port = p])

-----------------------------------------------------------------------------
(* tick                                                                     *)

SessionWanted == Enabled /\ desired # {}

\* SshSession.tick: what a check may make of the session.
Checked(s) ==
    IF served THEN {[s EXCEPT !.status = "connected"]}
    ELSE IF s.status = "connected" THEN {[s EXCEPT !.status = "error"]}
    ELSE {s, Connecting(s.port), [s EXCEPT !.status = "error"]}

\* _reconcile_sessions: session' is what the rest of the tick sees.
ReconcileSession ==
    IF ~SessionWanted
    THEN session' = NoSession /\ served' = FALSE
    ELSE IF session = NoSession \/ session.port # cfg.port
    THEN session' = Connecting(cfg.port) /\ served' = FALSE
    ELSE /\ session' \in Checked(session)
         /\ UNCHANGED served

\* Mutant of ToUnmount: a mount whose session has failed is left alone.
ToUnmountStrays(m, ok) == Seen(m, ok) /\ m \notin desired

\* Mutant of ToUnmount: a mount nobody wants is left alone.
ToUnmountWanted(m, ok) == Seen(m, ok) /\ m \in desired /\ session'.status # "connected"

\* _reconcile_mounts and _sweep_stale_mounts: what the tick does with a row.
ToMount(m, ok)   == /\ m \in desired /\ session'.status = "connected"
                    /\ ~Seen(m, ok) /\ due[m]
ToUnmount(m, ok) == Seen(m, ok) /\ (m \in desired => session'.status # "connected")

Tick ==
    /\ life = "up"
    /\ ReconcileSession
    /\ \E ok \in BOOLEAN :
       LET idle == {m \in Mounts : HasRow(m) /\ ~busy[m]}
           M == {m \in idle : ToMount(m, ok)}
           U == {m \in idle : ToUnmount(m, ok)}
       IN  /\ Reads(ok)
           /\ Dispatch(M, U)
           /\ status' = [m \in Mounts |->
                 IF m \in M THEN "mounting"
                 ELSE IF m \in U THEN "unmounting"
                 ELSE IF m \in idle \cap desired /\ Seen(m, ok) THEN "mounted"
                 ELSE IF m \in idle \cap desired /\ session'.status # "connected"
                 THEN "unmounted"
                 ELSE status[m]]
    /\ UNCHANGED <<cfg, table, life, desired, due, jobPort, intents>>

\* reconnect_now, on waking.
Wake ==
    /\ life = "up" /\ Fault("wake")
    /\ IF session.status \in {"connected", "error"}
       THEN session' = Connecting(session.port) /\ served' = FALSE
       ELSE UNCHANGED <<session, served>>
    /\ UNCHANGED <<cfg, table, life, desired, status, busy, due, workers>>

-----------------------------------------------------------------------------
(* The worker jobs                                                          *)

MountStep(m, from, to) ==
    /\ mjob[m] = from
    /\ mjob' = [mjob EXCEPT ![m] = to]
    /\ UNCHANGED <<cfg, life, session, served, desired, ujob>>

UnmountStep(m, from, to) ==
    /\ ujob[m] = from
    /\ ujob' = [ujob EXCEPT ![m] = to]
    /\ UNCHANGED <<cfg, life, session, served, desired, due, mjob, jobPort>>

Slot == Cardinality({m \in Mounts : mjob[m] \notin {"none", "queued"}})
      + Cardinality({m \in Mounts : ujob[m] \notin {"none", "queued"}}) < MaxWorkers

\* The job starts: it reads the port, once, and has the administrator create
\* the mount point.
MountBegin(m) ==
    /\ Slot
    /\ jobPort' = [jobPort EXCEPT ![m] = cfg.port]
    /\ \/ MountStep(m, "queued", "wait") /\ UNCHANGED history
       \/ MountStep(m, "queued", "failed") /\ Fault("auth")
    /\ UNCHANGED <<table, status, busy, due>>

\* _wait_tunnel.  Without a port the probe raises, and the job is never heard
\* of again: busy stays.
MountWait(m) ==
    /\ \/ Listening(jobPort[m]) /\ MountStep(m, "wait", "mount")
       \/ /\ jobPort[m] # NoPort /\ ~Listening(jobPort[m])
          /\ MountStep(m, "wait", "failed")
       \/ jobPort[m] = NoPort /\ MountStep(m, "wait", "none")
    /\ UNCHANGED <<table, status, busy, due, jobPort, history>>

\* mount_nfs; a mount that times out may still come true, and one that is not seen
\* to be there fails.
MountDo(m) ==
    /\ \/ /\ Mounted(m)
          /\ MountStep(m, "mount", "done") /\ UNCHANGED <<table, history>>
       \/ /\ ~Mounted(m) /\ Listening(jobPort[m])
          /\ table' = [table EXCEPT ![m] = jobPort[m]]
          /\ \/ MountStep(m, "mount", "done") /\ UNCHANGED history
             \/ MountStep(m, "mount", "failed") /\ Fault("mount")
       \/ /\ \/ ~Mounted(m) /\ ~Listening(jobPort[m]) /\ UNCHANGED history
             \/ ~Mounted(m) /\ Fault("mount")
             \/ Mounted(m) /\ Fault("table")
          /\ MountStep(m, "mount", "failed") /\ UNCHANGED table
    /\ UNCHANGED <<status, busy, due, jobPort>>

\* Mutant of MountEnd: a failed job does not release its row.
MountEndBusy(m) ==
    /\ \/ /\ MountStep(m, "done", "none")
          /\ status' = [status EXCEPT ![m] = "mounted"]
          /\ busy' = [busy EXCEPT ![m] = FALSE]
          /\ UNCHANGED due
       \/ /\ MountStep(m, "failed", "none")
          /\ status' = [status EXCEPT ![m] = "error"]
          /\ due' = [due EXCEPT ![m] = FALSE]
          /\ UNCHANGED busy
    /\ UNCHANGED <<table, jobPort, history>>

MountEnd(m) ==
    /\ \/ /\ MountStep(m, "done", "none")
          /\ status' = [status EXCEPT ![m] = "mounted"]
          /\ UNCHANGED due
       \/ /\ MountStep(m, "failed", "none")
          /\ status' = [status EXCEPT ![m] = "error"]
          /\ due' = [due EXCEPT ![m] = FALSE]
    /\ busy' = [busy EXCEPT ![m] = FALSE]
    /\ UNCHANGED <<table, jobPort, history>>

\* A row that is gone by the time the job starts has no directory to unmount.
UnmountBegin(m) ==
    /\ Slot
    /\ UnmountStep(m, "queued", IF HasRow(m) THEN "umount" ELSE "done")
    /\ UNCHANGED <<table, status, busy, history>>

UnmountDo(m) ==
    /\ UnmountStep(m, "umount", "done")
    /\ \/ table' = [table EXCEPT ![m] = NoPort] /\ UNCHANGED history
       \/ Fault("umount") /\ UNCHANGED table
    /\ UNCHANGED <<status, busy>>

UnmountEnd(m) ==
    /\ UnmountStep(m, "done", "none")
    /\ status' = [status EXCEPT ![m] = "unmounted"]
    /\ busy' = [busy EXCEPT ![m] = FALSE]
    /\ UNCHANGED <<table, history>>

Job(m) ==
    \/ MountBegin(m) \/ MountWait(m) \/ MountDo(m) \/ MountEnd(m)
    \/ UnmountBegin(m) \/ UnmountDo(m) \/ UnmountEnd(m)

-----------------------------------------------------------------------------
(* The world: time, the ssh process, Finder, the process itself             *)

\* MOUNT_RETRY_BACKOFF seconds have gone by.
RetryDue(m) ==
    /\ ~due[m]
    /\ due' = [due EXCEPT ![m] = TRUE]
    /\ UNCHANGED <<cfg, table, life, session, served, desired, status, busy,
                   workers, history>>

LinkUp ==
    /\ session.status = "connecting" /\ ~served
    /\ served' = TRUE
    /\ UNCHANGED <<cfg, table, life, session, desired, status, busy, due,
                   workers, history>>

LinkDies ==
    /\ served /\ Fault("link")
    /\ served' = FALSE
    /\ UNCHANGED <<cfg, table, life, session, desired, status, busy, due, workers>>

Eject(m) ==
    /\ Mounted(m) /\ Fault("eject")
    /\ table' = [table EXCEPT ![m] = NoPort]
    /\ UNCHANGED <<cfg, life, memory, workers>>

\* unmount_all: submits, drops the session, then waits, for a while.
Quit ==
    /\ life = "up"
    /\ life' = "quitting"
    /\ ujob' = [m \in Mounts |->
                   IF status[m] \in {"mounted", "mounting"} THEN "queued"
                   ELSE ujob[m]]
    /\ session' = NoSession /\ served' = FALSE
    /\ desired' = {}
    /\ UNCHANGED <<cfg, table, status, busy, due, mjob, jobPort, history>>

\* Whatever is left of the wait, the process ends.
Exit ==
    /\ life = "quitting"
    /\ life' = "down"
    /\ desired' = {} /\ Fresh
    /\ UNCHANGED <<cfg, table, history>>

Die ==
    /\ life # "down" /\ Fault("kill")
    /\ life' = "down"
    /\ desired' = {} /\ Fresh
    /\ UNCHANGED <<cfg, table>>

Start ==
    /\ life = "down"
    /\ life' = "up"
    /\ desired' = Autostarts(cfg) /\ Fresh
    /\ UNCHANGED <<cfg, table, history>>

Next ==
    \/ \E m \in Mounts :
          StartMount(m) \/ StopMount(m) \/ Job(m) \/ RetryDue(m) \/ Eject(m)
    \/ EditConfig
    \/ Tick \/ Wake
    \/ LinkUp \/ LinkDies
    \/ Quit \/ Exit \/ Die \/ Start

Spec == Init /\ [][Next]_vars

\* The timer ticks, the workers work, and time goes by.
Fairness ==
    /\ WF_vars(Tick)
    /\ \A m \in Mounts : WF_vars(Job(m)) /\ WF_vars(RetryDue(m))
FairSpec == Spec /\ Fairness

-----------------------------------------------------------------------------
(* Properties                                                               *)

\* A mount that hangs, because nothing serves its port any more, is unmounted
\* or served again, however the link broke and whatever jobs were under way.
Hanging(m) == life = "up" /\ HasRow(m) /\ Mounted(m) /\ ~Listening(table[m])
HangingEnds ==
    \A m \in Mounts :
        Hanging(m) ~> (~Hanging(m) \/ met \cap {"port", "server"} # {})

\* A mount nobody wants (stopped, or left by a process that was killed) goes.
Stray(m) == life = "up" /\ HasRow(m) /\ Mounted(m) /\ m \notin desired
StraysGo == \A m \in Mounts : Stray(m) ~> (~Stray(m) \/ "server" \in met)

\* A mount that is wanted gets mounted, whatever was refused or failed or was
\* unmounted before, once its session stays connected.
WantedMounts ==
    \A m \in Mounts :
        <>[](life = "up" /\ m \in desired /\ HasRow(m) /\ Connected /\ served)
           => []<>(Mounted(m) \/ "server" \in met)

=============================================================================

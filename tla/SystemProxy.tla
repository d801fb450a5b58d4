----------------------------- MODULE SystemProxy -----------------------------
(***************************************************************************)
(* The macOS system proxy: the edge-triggered controller of                *)
(* sysctl/sys_proxy_controller.py and the transaction it drives through    *)
(* networksetup, sysctl/system_proxy.py.                                   *)
(*                                                                         *)
(* A slot is one setting (web proxy, secure web proxy, bypass list) of one *)
(* network service; its value is one the user chose or one of our proxy    *)
(* endpoints.  sync runs on the main thread, from the one-second tick or   *)
(* from the menu, and reads its inputs (switch, connection, endpoint) only *)
(* when it begins, so they change between syncs here.  The order in which  *)
(* the slots of a transaction are written is left open.                    *)
(***************************************************************************)
EXTENDS Naturals, Functions

CONSTANTS
    Services,    \* active network services
    Kinds,       \* their settings
    UserValues,  \* what the user may choose for a setting
    Targets,     \* our endpoints: the HTTP proxy, the capture proxy
    NoTarget,
    Hazards,     \* what may go wrong or come in between, a subset of HazardKinds
    MaxFaults,   \* BOUND: failures, deaths and user edits per behaviour
    MaxStarts    \* BOUND: starts of the program

HazardKinds == {"command",     \* networksetup fails while applying
                "restore",     \* networksetup fails while restoring
                "journal",     \* the journal cannot be written
                "journal_held",\* ... while a transaction is open
                "unreadable",  \* networksetup cannot read a service in a sync
                "blind",       \* ... when a start finds a journal
                "edit",        \* the user changes settings we do not hold
                "edit_held",   \* the user changes settings we do hold
                "die",         \* the process dies between two syncs
                "die_inside",  \* the process dies inside a transaction
                "second"}      \* the user launches the program once more

Slots  == Services \X Kinds
Values == UserValues \cup Targets

ASSUME ProxyAssumption ==
    /\ UserValues \cap Targets = {}
    /\ NoTarget \notin Targets
    /\ Hazards \subseteq HazardKinds
    /\ {MaxFaults, MaxStarts} \subseteq Nat

VARIABLES
    net,            \* [Slots -> Values]: what networksetup reports
    user,           \* [Slots -> UserValues]: what the user last chose
    journal,        \* the recovery journal on disk
    life,           \* the process: down, up, quitting
    on,             \* _on: the menu switch
    conn,           \* connected, not paused
    target,         \* the endpoint sync would choose now
    applied,        \* _applied
    appliedTarget,  \* _applied_target
    snapshot,       \* _snapshot; Nothing stands for None
    desired,        \* _desired; Nothing stands for None
    pc,             \* where the transaction is
    todo,           \* slots it has still to write
    failed,         \* a restore command has failed
    met,            \* history: the hazards the behaviour has met
    faults, starts  \* counters

durable    == <<net, user, journal>>
inputs     == <<on, conn, target>>
controller == <<applied, appliedTarget, snapshot, desired>>
counters   == <<met, faults, starts>>
vars == <<durable, life, inputs, controller, pc, todo, failed, counters>>

-----------------------------------------------------------------------------

Nothing   == [x \in {} |-> NoTarget]
NoJournal == [original |-> Nothing, desired |-> Nothing]
Images    == UNION {[D \X Kinds -> Values] : D \in SUBSET Services}

TypeOK ==
    /\ net \in [Slots -> Values]
    /\ user \in [Slots -> UserValues]
    /\ journal \in [original : Images, desired : Images]
    /\ life \in {"down", "up", "quitting"}
    /\ {on, conn, applied, failed} \subseteq BOOLEAN
    /\ target \in Targets
    /\ appliedTarget \in Targets \cup {NoTarget}
    /\ {snapshot, desired} \subseteq Images
    /\ pc \in {"idle", "apply", "undo", "release", "recover"}
    /\ todo \subseteq Slots
    /\ met \subseteq Hazards
    /\ faults \in 0 .. MaxFaults
    /\ starts \in 0 .. MaxStarts

Init ==
    /\ user \in [Slots -> UserValues]
    /\ net = user
    /\ journal = NoJournal
    /\ life = "down"
    /\ on = FALSE /\ conn = FALSE
    /\ target \in Targets
    /\ applied = FALSE /\ appliedTarget = NoTarget
    /\ snapshot = Nothing /\ desired = Nothing
    /\ pc = "idle" /\ todo = {} /\ failed = FALSE
    /\ met = {} /\ faults = 0 /\ starts = 0

May(h)   == h \in Hazards /\ faults < MaxFaults
Fault(h) ==
    /\ May(h)
    /\ faults' = faults + 1 /\ met' = met \cup {h}
    /\ UNCHANGED starts

\* The services networksetup can read just now, and what it says of them.
Sight(h) == {Services} \cup IF May(h) THEN SUBSET Services ELSE {}
Readable == Sight("unreadable")
Read(R)  == Restrict(net, R \X Kinds)
ReadFault(R) == IF R = Services THEN UNCHANGED counters ELSE Fault("unreadable")

-----------------------------------------------------------------------------
(* apply_transaction                                                        *)

Wanted == on /\ conn

\* The transaction ends and sync returns (or quit goes on to exit).
Finish ==
    /\ pc' = "idle"
    /\ todo' = {}
    /\ failed' = FALSE

Forget ==
    /\ snapshot' = Nothing
    /\ desired' = Nothing

Due == Wanted /\ (~applied \/ appliedTarget # target)

\* Mutant of Original: the settings are snapshotted again on a change of
\* endpoint.
OriginalAfresh(R) == Read(R)

\* The settings the transaction will restore: one snapshot serves every change
\* of endpoint until the release.
Original(R) == IF applied THEN snapshot ELSE Read(R)

\* sync, first half: snapshot unless a transaction is open, write the journal.
\* With nothing to snapshot, or no journal, nothing is touched; but a failed
\* journal also forgets the snapshot of the transaction that is open.
BeginApply ==
    /\ Due
    /\ \E R \in Readable :
          LET snap == Original(R)
          IN  /\ applied => R = Services
              /\ \/ /\ snap # Nothing
                    /\ snapshot' = snap
                    /\ journal' = [original |-> snap,
                                   desired |-> [x \in DOMAIN snap |-> target]]
                    /\ pc' = "apply" /\ todo' = DOMAIN snap
                    /\ ReadFault(R)
                    /\ UNCHANGED <<applied, appliedTarget, desired>>
                 \/ /\ snap = Nothing
                    /\ snapshot' = snap
                    /\ ReadFault(R)
                    /\ UNCHANGED <<journal, pc, todo, applied, appliedTarget,
                                   desired>>
                 \/ /\ snap # Nothing /\ R = Services
                    /\ Fault(IF applied THEN "journal_held" ELSE "journal")
                    /\ Forget
                    /\ applied' = FALSE /\ appliedTarget' = NoTarget
                    /\ UNCHANGED <<journal, pc, todo>>
    /\ UNCHANGED <<net, user, inputs, failed>>

\* Mutant of Apply: a failed command ends the transaction without a rollback.
ApplyNoUndo(x) ==
    /\ pc = "apply" /\ x \in todo
    /\ \/ /\ net' = [net EXCEPT ![x] = journal.desired[x]]
          /\ todo' = todo \ {x}
          /\ UNCHANGED <<pc, counters, journal, failed>>
       \/ /\ Fault("command")
          /\ pc' = "undo" /\ todo' = {}
          /\ UNCHANGED <<net, journal, failed>>
    /\ UNCHANGED <<user, life, inputs, controller>>

Apply(x) ==
    /\ pc = "apply" /\ x \in todo
    /\ \/ /\ net' = [net EXCEPT ![x] = journal.desired[x]]
          /\ todo' = todo \ {x}
          /\ UNCHANGED <<pc, counters, journal, failed>>
       \/ /\ Fault("command")
          /\ pc' = "undo" /\ todo' = DOMAIN snapshot
          /\ UNCHANGED <<net, journal, failed>>
    /\ UNCHANGED <<user, life, inputs, controller>>

ApplyDone ==
    /\ pc = "apply" /\ todo = {}
    /\ applied' = TRUE
    /\ appliedTarget' = target
    /\ desired' = journal.desired
    /\ Finish
    /\ UNCHANGED <<durable, life, inputs, snapshot, counters>>

\* restore goes on after a failed command and reports it in the end.
Restore(x, image) ==
    /\ x \in todo
    /\ todo' = todo \ {x}
    /\ \/ /\ net' = [net EXCEPT ![x] = image[x]]
          /\ UNCHANGED <<failed, counters>>
       \/ /\ Fault("restore")
          /\ failed' = TRUE
          /\ UNCHANGED net
    /\ UNCHANGED <<user, journal, life, inputs, controller, pc>>

Undo(x) == pc = "undo" /\ Restore(x, snapshot)

\* The rollback is over.  If it failed, the switch is turned off, and the
\* snapshot and the journal stay.
UndoDone ==
    /\ pc = "undo" /\ todo = {}
    /\ applied' = FALSE /\ appliedTarget' = NoTarget
    /\ IF failed
       THEN /\ desired' = journal.desired
            /\ on' = FALSE
            /\ UNCHANGED <<snapshot, journal>>
       ELSE /\ journal' = NoJournal
            /\ Forget
            /\ UNCHANGED on
    /\ Finish
    /\ UNCHANGED <<net, user, life, conn, target, counters>>

-----------------------------------------------------------------------------
(* release_transaction                                                      *)

\* Mutant of Ours: the settings are not compared before they are restored.
OursAlways(R, image, want) == TRUE

\* _state_matches: the services of the snapshot can all be read, and their
\* settings are those we wrote.
Ours(R, image, want) ==
    DOMAIN image \subseteq R \X Kinds /\ Restrict(net, DOMAIN image) = want

\* A refused release leaves the transaction open, for the next tick to retry.
Refused ==
    /\ applied' = TRUE
    /\ life' = IF life = "quitting" THEN "down" ELSE life
    /\ UNCHANGED <<pc, todo>>

Release ==
    /\ snapshot # Nothing
    /\ \E R \in Readable :
          /\ IF Ours(R, snapshot, desired)
             THEN /\ pc' = "release" /\ todo' = DOMAIN snapshot
                  /\ UNCHANGED <<applied, life>>
             ELSE Refused
          /\ ReadFault(R)
    /\ UNCHANGED <<durable, inputs, appliedTarget, snapshot, desired, failed>>

ReleaseSlot(x) == pc = "release" /\ Restore(x, snapshot)

ReleaseDone ==
    /\ pc = "release" /\ todo = {}
    /\ IF failed
       THEN /\ applied' = TRUE
            /\ UNCHANGED <<journal, appliedTarget, snapshot, desired>>
       ELSE /\ applied' = FALSE /\ appliedTarget' = NoTarget
            /\ journal' = NoJournal
            /\ Forget
    /\ life' = IF life = "quitting" THEN "down" ELSE life
    /\ Finish
    /\ UNCHANGED <<net, user, inputs, counters>>

Idle == life = "up" /\ pc = "idle"

Sync ==
    /\ Idle
    /\ \/ BeginApply /\ UNCHANGED life
       \/ ~Wanted /\ Release

-----------------------------------------------------------------------------
(* The world around the controller                                          *)

\* The menu's toggle runs sync at once; the tick that follows does the same.
Toggle ==
    /\ Idle
    /\ on' = ~on
    /\ UNCHANGED <<durable, life, conn, target, controller, pc, todo, failed,
                   counters>>

Connection ==
    /\ Idle
    /\ conn' = ~conn
    /\ UNCHANGED <<durable, life, on, target, controller, pc, todo, failed,
                   counters>>

\* Capture starts or stops running, or the user edits a port.
Retarget ==
    /\ Idle
    /\ target' \in Targets \ {target}
    /\ UNCHANGED <<durable, life, on, conn, controller, pc, todo, failed,
                   counters>>

\* The user changes one setting in System Settings.
Edit(x) ==
    /\ pc = "idle"
    /\ \/ journal = NoJournal /\ Fault("edit")
       \/ journal # NoJournal /\ Fault("edit_held")
    /\ \E v \in UserValues \ {net[x]} :
          /\ net' = [net EXCEPT ![x] = v]
          /\ user' = [user EXCEPT ![x] = v]
    /\ UNCHANGED <<journal, life, inputs, controller, pc, todo, failed>>

-----------------------------------------------------------------------------
(* Start, quit, death                                                       *)

\* The process is gone, and what it had in memory with it.
Vanish ==
    /\ life' = "down"
    /\ on' = FALSE /\ conn' = FALSE
    /\ applied' = FALSE /\ appliedTarget' = NoTarget
    /\ Forget
    /\ Finish

Die ==
    /\ life # "down"
    /\ IF Idle THEN Fault("die") ELSE Fault("die_inside")
    /\ Vanish
    /\ UNCHANGED <<durable, target>>

\* quit_cleanup; the switch and the connection no longer matter.
Quit ==
    /\ Idle
    /\ IF snapshot = Nothing
       THEN Vanish /\ UNCHANGED counters
       ELSE /\ life' = "quitting"
            /\ UNCHANGED <<on, conn, controller, pc, todo, failed, counters>>
    /\ UNCHANGED <<durable, target>>

QuitRelease ==
    /\ life = "quitting" /\ pc = "idle"
    /\ Release

\* The constructor runs recover_stale_transaction, once: a recovery refused,
\* because a service of the journal cannot be read or is not as we left it, is
\* not tried again by this process.  The switch starts as the configuration says.
Recoverable(R) ==
    journal # NoJournal /\ Ours(R, journal.original, journal.desired)

BlindFault(R) ==
    IF DOMAIN journal.original \subseteq R \X Kinds
    THEN UNCHANGED <<met, faults>>
    ELSE faults' = faults + 1 /\ met' = met \cup {"blind"}

Start ==
    /\ life = "down"
    /\ starts < MaxStarts /\ starts' = starts + 1
    /\ life' = "up"
    /\ on' \in BOOLEAN /\ conn' = FALSE
    /\ applied' = FALSE /\ appliedTarget' = NoTarget
    /\ Forget
    /\ \E R \in Sight("blind") :
          /\ IF Recoverable(R)
             THEN pc' = "recover" /\ todo' = DOMAIN journal.original
             ELSE UNCHANGED <<pc, todo>>
          /\ BlindFault(R)
    /\ UNCHANGED <<durable, target, failed>>

Recover(x) == pc = "recover" /\ Restore(x, journal.original)

RecoverDone ==
    /\ pc = "recover" /\ todo = {}
    /\ journal' = IF failed THEN journal ELSE NoJournal
    /\ Finish
    /\ UNCHANGED <<net, user, life, inputs, controller, counters>>

\* Another launch builds the same constructor before it asks for the instance
\* lock, and then exits, refused.
SecondLaunch ==
    /\ Idle
    /\ Fault("second")
    /\ \E R \in SUBSET Services :
       IF Recoverable(R)
       THEN /\ net' = [x \in Slots |-> IF x \in DOMAIN journal.original
                                       THEN journal.original[x] ELSE net[x]]
            /\ journal' = NoJournal
       ELSE UNCHANGED <<net, journal>>
    /\ UNCHANGED <<user, life, inputs, controller, pc, todo, failed>>

-----------------------------------------------------------------------------

Transaction ==
    \/ \E x \in Slots : Apply(x) \/ Undo(x) \/ ReleaseSlot(x) \/ Recover(x)
    \/ ApplyDone \/ UndoDone \/ ReleaseDone \/ RecoverDone
    \/ QuitRelease

Next ==
    \/ Sync
    \/ Transaction
    \/ Toggle \/ Connection \/ Retarget
    \/ Quit \/ Start
    \/ Die \/ SecondLaunch
    \/ \E x \in Slots : Edit(x)

Spec == Init /\ [][Next]_vars

\* The timer keeps ticking and a command that was started returns.
Fairness == WF_vars(Sync) /\ WF_vars(Transaction)
FairSpec == Spec /\ Fairness

-----------------------------------------------------------------------------
(* Properties                                                               *)

\* Whatever we put in the place of the user's settings, the journal still says
\* what was there: every way out (release, quit, the next start after a death)
\* restores from a copy of it.  It is so through failing commands, reads of a
\* sync and journal writes, deaths between two syncs and edits of settings that
\* are not ours; not after one of these.  (After "blind", a death followed by a
\* recovery that cannot read a service, the next sync snapshots our own endpoint
\* and writes the journal over.)
Losing == {"restore", "journal_held", "edit_held", "die_inside", "second", "blind"}
OriginalSafe ==
    met \cap Losing = {} =>
        \A x \in Slots : net[x] # user[x] =>
            /\ x \in DOMAIN journal.original
            /\ journal.original[x] = user[x]

\* A release, and the recovery at a start, overwrite only what we wrote
\* ourselves: settings the user has made since are the user's, whatever else
\* has gone wrong.  (The rollback of a failed apply compares nothing.)
RestoreSparesUser ==
    [][\A x \in Slots :
          pc \in {"release", "recover"} /\ net'[x] # net[x]
             => net[x] \in Targets]_vars

\* sync converges, both ways: once the proxy is no longer wanted the user's
\* settings come back, and once it is wanted the traffic goes to the endpoint
\* that is up (or the wish changes, the process ends, or a restore is not ours
\* to make or has failed).
Excused == life # "up" \/ met \cap Losing # {}
Restored ==
    /\ (life = "up" /\ ~Wanted) ~> (net = user \/ Wanted \/ Excused)
    /\ (life = "up" /\ Wanted) ~>
         (\/ snapshot # Nothing /\ \A x \in DOMAIN snapshot : net[x] = target
          \/ ~Wanted \/ Excused)

=============================================================================

---------------------------- MODULE InstanceOwner ----------------------------
(***************************************************************************)
(* The single-instance lock of sysctl/instance_owner.py: a file that names *)
(* the process that owns the machine's services.  A process is one run of  *)
(* the program; its operating-system pid may be reused by a later one, its *)
(* start time may not, so (pid, start) is the process itself and only      *)
(* release, which compares pids alone, can confuse two.                    *)
(*                                                                         *)
(* A lock file is created empty and filled later, or replaced whole by a   *)
(* takeover.  `by` is the process that created or replaced it and `rec`    *)
(* its record: still empty, good, or blind, with no start time because ps  *)
(* failed when the process looked itself up.                               *)
(***************************************************************************)
EXTENDS Naturals

CONSTANTS
    Procs,          \* runs of the program
    Pids,           \* operating-system process ids
    PidOf,          \* the pid of each run
    NoProc,         \* no process
    FirstLock,      \* what a behaviour may find first, a subset of LockStates
    Hazards         \* what the run allows, a subset of HazardKinds

LockStates  == {"none", "stale"}
HazardKinds == {"kill",     \* a process is killed, at any point
                "overlap",  \* a run starts while another is inside acquire
                "ps"}       \* ps fails or times out

ASSUME OwnerAssumption ==
    /\ PidOf \in [Procs -> Pids]
    /\ NoProc \notin Procs
    /\ FirstLock \subseteq LockStates
    /\ Hazards \subseteq HazardKinds

VARIABLES
    stage,  \* [Procs -> where the process is in acquire, run, release]
    lock,   \* the lock file
    seen,   \* [Procs -> the lock as the process last read it]
    met     \* history: the hazards, other than kills, the behaviour has met

ownerVars == <<stage, lock, seen, met>>

Records == {"empty", "blind", "good"}
Locks  == [by : Procs \cup {NoProc}, rec : Records]
Lock(p, rec) == [by |-> p, rec |-> rec]
NoLock == Lock(NoProc, "empty")
\* What ps lets a process write about itself.
OwnRecord(p, rec) ==
    /\ lock' = Lock(p, rec)
    /\ \/ rec = "good" /\ UNCHANGED met
       \/ rec = "blind" /\ "ps" \in Hazards /\ met' = met \cup {"ps"}

Acquiring == {"create", "write", "load", "ps", "takeover", "verify"}
Stages    == Acquiring \cup {"unborn", "owner", "refused", "unlink", "dead",
                           "history"}

OwnerTypeOK ==
    /\ stage \in [Procs -> Stages]
    /\ lock \in Locks
    /\ seen \in [Procs -> Locks]
    /\ met \subseteq Hazards

Living(p) == stage[p] \notin {"unborn", "dead", "history"}

\* A stale lock was left by a run that was killed as an owner, earlier.
OwnerInit ==
    /\ seen = [p \in Procs |-> NoLock]
    /\ met = {}
    /\ \/ /\ "none" \in FirstLock
          /\ lock = NoLock
          /\ stage = [p \in Procs |-> "unborn"]
       \/ /\ "stale" \in FirstLock
          /\ \E q \in Procs :
                /\ lock = Lock(q, "good")
                /\ stage = [p \in Procs |->
                               IF p = q THEN "history" ELSE "unborn"]

Enters(p, s) == stage' = [stage EXCEPT ![p] = s]

\* The system starts the program; two living processes have different pids.
Start(p) ==
    /\ stage[p] = "unborn"
    /\ \A q \in Procs : Living(q) => PidOf[q] # PidOf[p]
    /\ \/ (\A q \in Procs : stage[q] \notin Acquiring) /\ UNCHANGED met
       \/ /\ \E q \in Procs : stage[q] \in Acquiring
          /\ "overlap" \in Hazards /\ met' = met \cup {"overlap"}
    /\ Enters(p, "create")
    /\ UNCHANGED <<lock, seen>>

\* Mutant of Create: the file is opened without O_EXCL.
CreateOver(p) ==
    /\ stage[p] = "create"
    /\ lock' = Lock(p, "empty")
    /\ Enters(p, "write")
    /\ UNCHANGED <<seen, met>>

\* os.open with O_CREAT | O_EXCL: the file exists from here on, still empty.
Create(p) ==
    /\ stage[p] = "create"
    /\ IF lock = NoLock
       THEN lock' = Lock(p, "empty") /\ Enters(p, "write")
       ELSE UNCHANGED lock /\ Enters(p, "load")
    /\ UNCHANGED <<seen, met>>

\* json.dump into the open descriptor: if the file has been replaced since,
\* the record goes to a file nobody can open any more.
Write(p) ==
    /\ stage[p] = "write"
    /\ IF lock.by = p
       THEN \E rec \in {"blind", "good"} : OwnRecord(p, rec)
       ELSE UNCHANGED <<lock, met>>
    /\ Enters(p, "owner")
    /\ UNCHANGED seen

\* _holder_alive: read the record, then ask ps about its pid.  No answer from
\* ps is taken for a dead holder.
Load(p) ==
    /\ stage[p] = "load"
    /\ seen' = [seen EXCEPT ![p] = lock]
    /\ Enters(p, "ps")
    /\ UNCHANGED <<lock, met>>

\* Mutant of HolderAlive: a readable record is taken for a living holder.
HolderAliveRecord(r) == r.rec = "good"

HolderAlive(r) == r.rec = "good" /\ Living(r.by)

Ps(p) ==
    /\ stage[p] = "ps"
    /\ \/ /\ Enters(p, IF HolderAlive(seen[p]) THEN "refused" ELSE "takeover")
          /\ UNCHANGED met
       \/ /\ "ps" \in Hazards /\ met' = met \cup {"ps"}
          /\ Enters(p, "takeover")
    /\ UNCHANGED <<lock, seen>>

\* _takeover: os.replace, then read the lock back.
Replace(p) ==
    /\ stage[p] = "takeover"
    /\ \E rec \in {"blind", "good"} : OwnRecord(p, rec)
    /\ Enters(p, "verify")
    /\ UNCHANGED seen

Verify(p) ==
    /\ stage[p] = "verify"
    /\ Enters(p, IF lock.by = p THEN "owner" ELSE "refused")
    /\ UNCHANGED <<lock, seen, met>>

\* release, the last thing quit does: the services have stopped by now.
Release(p) ==
    /\ stage[p] = "owner"
    /\ Enters(p, IF lock.rec # "empty" /\ PidOf[lock.by] = PidOf[p] THEN "unlink" ELSE "dead")
    /\ UNCHANGED <<lock, seen, met>>

Unlink(p) ==
    /\ stage[p] = "unlink"
    /\ lock' = NoLock
    /\ Enters(p, "dead")
    /\ UNCHANGED <<seen, met>>

\* A refused run shows its alert and exits without releasing anything.
Exit(p) ==
    /\ stage[p] = "refused"
    /\ Enters(p, "dead")
    /\ UNCHANGED <<lock, seen, met>>

Die(p) ==
    /\ "kill" \in Hazards
    /\ Living(p)
    /\ Enters(p, "dead")
    /\ UNCHANGED <<lock, seen, met>>

OwnerNext == \E p \in Procs :
    \/ Start(p) \/ Create(p) \/ Write(p) \/ Load(p) \/ Ps(p) \/ Replace(p)
    \/ Verify(p) \/ Release(p) \/ Unlink(p) \/ Exit(p) \/ Die(p)

OwnerSpec == OwnerInit /\ [][OwnerNext]_ownerVars

-----------------------------------------------------------------------------

Owners == {p \in Procs : stage[p] = "owner"}

\* Whatever is killed and whichever pid is used again, launches that do not
\* overlap, and can ask ps, find at most one owner, and a readable lock names
\* it, so that the next start can recognise it as alive.
OneOwnerAlone ==
    met = {} => /\ \A p, q \in Owners : p = q
                /\ \A p \in Owners : lock = Lock(p, "good")

\* Starts that race each other never all lose: once every process that has
\* been started has its answer and none has left, one of them owns.
SomeoneWins ==
    (/\ \E p \in Procs : Living(p)
     /\ \A p \in Procs : stage[p] \in {"unborn", "owner", "refused", "history"})
    => Owners # {}

=============================================================================

------------------------------ MODULE ConfigTxn ------------------------------
(***************************************************************************)
(* The configuration transaction of mpconf/config_state.py: one store over *)
(* two files (MP, the program's own settings; SP, the gateway's) and the   *)
(* macOS Keychain, with a redo journal beside the SP file.                 *)
(*                                                                         *)
(* A file's content is the set of saves whose edits it carries.  A whole   *)
(* form sent by the settings window replaces a file ({t}); the menu's      *)
(* update_mp and the rule writer read the file first and add to it.  The   *)
(* writers are the threads that call commit: nothing in the code           *)
(* serialises them, so the model does not either; the number of writers is *)
(* the parameter Writers.  Every file operation may fail, and the process  *)
(* may die between any two of them, as far as Faults allows.               *)
(***************************************************************************)
EXTENDS Naturals, FiniteSets

CONSTANTS
    Writers,    \* threads that save: config-server handlers, the menu, ...
    Accounts,   \* Keychain accounts, one per server row
    NoAccount,  \* no Keychain entry is being replaced
    MaxTxn,     \* BOUND: saves per behaviour
    Kinds,      \* the kinds of save the run allows, a subset of SaveKinds
    Faults      \* the failures the run allows, a subset of FaultKinds

VARIABLES
    disk,       \* [Sides -> content]: the two configuration files
    journal,    \* what <sp>.txn.json would replay; the empty function: no file
    keychain,   \* [Accounts -> save that stored the password]; 0: none stored
    life,       \* the process: down, replaying the journal, or up
    pc,         \* [Writers -> the step of commit the thread is at]
    plan,       \* [Writers -> the CommitPlan it carries out]
    old,        \* [Writers -> payload["mp_old"], payload["sp_old"]]
    result,     \* [Writers -> what the last save returned]
    nextTxn,    \* number of the next save
    done,       \* history: number of the last save that was told ok; 0: none
    overlap,    \* history: a save began while another was under way
    torn        \* history: since the process last died, a write of a rollback
                \* or of a recovery failed

vars == <<disk, journal, keychain, life, pc, plan, old, result, nextTxn,
          done, overlap, torn>>
history == <<done, overlap, torn>>

Sides      == {"mp", "sp"}
SaveKinds  == {"form", "form_mp", "form_sp", "update_mp", "rules"}
FaultKinds == {"journal", "install", "restore", "replay", "unlink",
               "keychain", "crash"}
Content    == SUBSET (1 .. MaxTxn)
Missing    == {0}   \* no such file: different from every content
Files      == Content \cup {Missing}

ASSUME ConfigAssumption ==
    /\ MaxTxn \in Nat
    /\ NoAccount \notin Accounts
    /\ Kinds \subseteq SaveKinds
    /\ Faults \subseteq FaultKinds

-----------------------------------------------------------------------------
(* Partial images of the two files: payload, journal, rollback content.    *)

Images(C)     == UNION {[S -> C] : S \in SUBSET Sides}
Nothing       == [s \in {} |-> {}]
Overlay(f, g) == [s \in Sides |-> IF s \in DOMAIN g THEN g[s] ELSE f[s]]

NoPlan == [id |-> 0, kind |-> "none", new |-> Nothing, sets |-> {},
           dels |-> {}, putting |-> NoAccount, err |-> FALSE]
Plans  == [id : 0 .. MaxTxn, kind : SaveKinds \cup {"none"},
           new : Images(Content),
           sets : SUBSET Accounts, dels : SUBSET Accounts,
           putting : Accounts \cup {NoAccount},
           err : BOOLEAN]

Stages == {"idle", "snapshot", "journal", "mp", "sp", "sets", "put", "dels",
           "clear", "undo_mp", "undo_sp", "undo_log"}
Lives  == {"down", "replay_mp", "replay_sp", "replay_log", "up"}

TypeOK ==
    /\ disk \in [Sides -> Files]
    /\ journal \in Images(Content)
    /\ keychain \in [Accounts -> 0 .. MaxTxn + 1]
    /\ life \in Lives
    /\ pc \in [Writers -> Stages]
    /\ plan \in [Writers -> Plans]
    /\ old \in [Writers -> Images(Files)]
    /\ result \in [Writers -> {"none", "ok", "failed"}]
    /\ nextTxn \in 1 .. MaxTxn + 1
    /\ done \in 0 .. MaxTxn
    /\ overlap \in BOOLEAN
    /\ torn \in BOOLEAN

\* Any mix of missing and existing files; some accounts hold a password
\* (MaxTxn + 1 stands for a password older than every save of the behaviour).
Init ==
    /\ disk \in [Sides -> {Missing, {}}]
    /\ journal = Nothing
    /\ keychain \in [Accounts -> {0, MaxTxn + 1}]
    /\ life = "down"
    /\ pc = [w \in Writers |-> "idle"]
    /\ plan = [w \in Writers |-> NoPlan]
    /\ old = [w \in Writers |-> Nothing]
    /\ result = [w \in Writers |-> "none"]
    /\ nextTxn = 1
    /\ done = 0
    /\ overlap = FALSE
    /\ torn = FALSE

-----------------------------------------------------------------------------
(* prepare, and the read that update_mp and _write_sp_rules do before it.   *)

\* Mutant of Read: a missing file is not replaced by the defaults.
ReadRaw(s) == disk[s]

Read(s) == IF disk[s] = Missing THEN {} ELSE disk[s]

Candidate(kind, t) ==
    CASE kind = "form"      -> [s \in Sides |-> {t}]
      [] kind = "form_mp"   -> [s \in {"mp"} |-> {t}]
      [] kind = "form_sp"   -> [s \in {"sp"} |-> {t}]
      [] kind = "update_mp" -> [s \in {"mp"} |-> Read("mp") \cup {t}]
      [] OTHER              -> [s \in {"sp"} |-> Read("sp") \cup {t}]

\* Only a save of MP derives Keychain work from its server rows.
Prepare(w) ==
    /\ life = "up"
    /\ pc[w] = "idle"
    /\ nextTxn <= MaxTxn
    /\ \E kind \in Kinds, sets \in SUBSET Accounts, dels \in SUBSET Accounts :
          LET new == Candidate(kind, nextTxn)
          IN  /\ sets \cap dels = {}
              /\ "mp" \notin DOMAIN new => sets = {} /\ dels = {}
              /\ plan' = [plan EXCEPT ![w] =
                    [id |-> nextTxn, kind |-> kind, new |-> new, sets |-> sets,
                     dels |-> dels, putting |-> NoAccount, err |-> FALSE]]
    /\ pc' = [pc EXCEPT ![w] = "snapshot"]
    /\ nextTxn' = nextTxn + 1
    /\ overlap' = (overlap \/ \E v \in Writers : pc[v] # "idle")
    /\ UNCHANGED <<disk, journal, keychain, life, old, result, done, torn>>

-----------------------------------------------------------------------------
(* commit                                                                   *)

\* Mutant of AfterFile: the Keychain is written between the two files.
AfterFileKeysEarly(s, new) == IF s = "mp" THEN "sets" ELSE "clear"

\* Mutant of AfterUndo: a rollback restores the first file only.
AfterUndoFirstOnly(s, new) == "undo_log"

FirstFile(new)  == IF "mp" \in DOMAIN new THEN "mp" ELSE "sp"
AfterFile(s, new) == IF s = "mp" /\ "sp" \in DOMAIN new THEN "sp" ELSE "sets"
FirstUndo(new)  == IF "mp" \in DOMAIN new THEN "undo_mp" ELSE "undo_sp"
AfterUndo(s, new) ==
    IF s = "mp" /\ "sp" \in DOMAIN new THEN "undo_sp" ELSE "undo_log"

Goto(w, stage) == pc' = [pc EXCEPT ![w] = stage]

\* commit returns r to its caller and forgets the payload.
Return(w, r) ==
    /\ Goto(w, "idle")
    /\ plan' = [plan EXCEPT ![w] = NoPlan]
    /\ old' = [old EXCEPT ![w] = Nothing]
    /\ result' = [result EXCEPT ![w] = r]

\* payload["mp_old"] and payload["sp_old"], only for the sides saved.
Snapshot(w) ==
    /\ pc[w] = "snapshot"
    /\ old' = [old EXCEPT ![w] = [s \in DOMAIN plan[w].new |-> disk[s]]]
    /\ Goto(w, "journal")
    /\ UNCHANGED <<disk, journal, keychain, life, plan, result, nextTxn,
                   history>>

\* Mutant of JournalWrite: a save of one file, which needs no journal to be
\* atomic, writes none.
JournalWriteForTwo(w) ==
    /\ pc[w] = "journal"
    /\ Goto(w, FirstFile(plan[w].new))
    /\ journal' = IF DOMAIN plan[w].new = Sides THEN plan[w].new ELSE journal
    /\ UNCHANGED <<disk, keychain, life, plan, old, result, nextTxn, history>>

JournalWrite(w) ==
    /\ pc[w] = "journal"
    /\ \/ journal' = plan[w].new /\ Goto(w, FirstFile(plan[w].new))
       \/ /\ "journal" \in Faults
          /\ Goto(w, FirstUndo(plan[w].new))
          /\ UNCHANGED journal
    /\ UNCHANGED <<disk, keychain, life, plan, old, result, nextTxn,
                   history>>

AtomicInstall(w, s) ==
    /\ pc[w] = s /\ s \in DOMAIN plan[w].new
    /\ \/ /\ disk' = [disk EXCEPT ![s] = plan[w].new[s]]
          /\ Goto(w, AfterFile(s, plan[w].new))
       \/ /\ "install" \in Faults
          /\ Goto(w, FirstUndo(plan[w].new))
          /\ UNCHANGED disk
    /\ UNCHANGED <<journal, keychain, life, plan, old, result, nextTxn,
                   history>>

\* set_password deletes the stored entry before it adds the new one.
SetErase(w, a) ==
    /\ pc[w] = "sets" /\ a \in plan[w].sets
    /\ \/ /\ keychain' = [keychain EXCEPT ![a] = 0]
          /\ plan' = [plan EXCEPT ![w] =
                [plan[w] EXCEPT !.putting = a]]
          /\ Goto(w, "put")
       \/ /\ "keychain" \in Faults
          /\ Goto(w, FirstUndo(plan[w].new))
          /\ UNCHANGED <<keychain, plan>>
    /\ UNCHANGED <<disk, journal, life, old, result, nextTxn,
                   history>>

SetAdd(w) ==
    /\ pc[w] = "put"
    /\ LET a == plan[w].putting
       IN  \/ /\ keychain' = [keychain EXCEPT ![a] = plan[w].id]
              /\ plan' = [plan EXCEPT ![w] =
                    [plan[w] EXCEPT !.sets = @ \ {a}, !.putting = NoAccount]]
              /\ Goto(w, "sets")
           \/ /\ "keychain" \in Faults
              /\ Goto(w, FirstUndo(plan[w].new))
              /\ UNCHANGED <<keychain, plan>>
    /\ UNCHANGED <<disk, journal, life, old, result, nextTxn,
                   history>>

SetsDone(w) ==
    /\ pc[w] = "sets" /\ plan[w].sets = {}
    /\ Goto(w, "dels")
    /\ UNCHANGED <<disk, journal, keychain, life, plan, old, result, nextTxn,
                   history>>

\* A failed deletion is collected, and the loop goes on.
Del(w, a) ==
    /\ pc[w] = "dels" /\ a \in plan[w].dels
    /\ \/ /\ keychain' = [keychain EXCEPT ![a] = 0]
          /\ plan' = [plan EXCEPT ![w].dels = @ \ {a}]
       \/ /\ "keychain" \in Faults
          /\ plan' = [plan EXCEPT ![w] =
                [plan[w] EXCEPT !.dels = @ \ {a}, !.err = TRUE]]
          /\ UNCHANGED keychain
    /\ UNCHANGED <<disk, journal, life, pc, old, result, nextTxn,
                   history>>

DelsDone(w) ==
    /\ pc[w] = "dels" /\ plan[w].dels = {}
    /\ Goto(w, IF plan[w].err THEN FirstUndo(plan[w].new) ELSE "clear")
    /\ UNCHANGED <<disk, journal, keychain, life, plan, old, result, nextTxn,
                   history>>

\* A journal that cannot be removed is ignored: the save still succeeds.
Clear(w) ==
    /\ pc[w] = "clear"
    /\ \/ journal' = Nothing
       \/ "unlink" \in Faults /\ UNCHANGED journal
    /\ Return(w, "ok")
    /\ done' = plan[w].id
    /\ UNCHANGED <<disk, keychain, life, nextTxn, overlap, torn>>

-----------------------------------------------------------------------------
(* _rollback                                                                *)

UndoStage(s) == IF s = "mp" THEN "undo_mp" ELSE "undo_sp"

\* A side that cannot be restored ends the rollback and keeps the journal.
Undo(w, s) ==
    /\ pc[w] = UndoStage(s) /\ s \in DOMAIN old[w]
    /\ \/ /\ disk' = [disk EXCEPT ![s] = old[w][s]]
          /\ Goto(w, AfterUndo(s, plan[w].new))
          /\ UNCHANGED <<plan, old, result, torn>>
       \/ /\ "restore" \in Faults
          /\ Return(w, "failed")
          /\ torn' = TRUE
          /\ UNCHANGED disk
    /\ UNCHANGED <<journal, keychain, life, nextTxn, done, overlap>>

\* A journal that cannot be removed is ignored here too: the caller is told
\* "failed", and the next start replays the save.
UndoLog(w) ==
    /\ pc[w] = "undo_log"
    /\ \/ journal' = Nothing
       \/ "unlink" \in Faults /\ UNCHANGED journal
    /\ Return(w, "failed")
    /\ UNCHANGED <<disk, keychain, life, nextTxn, history>>

-----------------------------------------------------------------------------
(* The process dies and starts again: recover runs before anything saves.   *)

Crash ==
    /\ "crash" \in Faults
    /\ life # "down"
    /\ life' = "down"
    /\ pc' = [w \in Writers |-> "idle"]
    /\ plan' = [w \in Writers |-> NoPlan]
    /\ old' = [w \in Writers |-> Nothing]
    /\ result' = [w \in Writers |-> "none"]
    /\ torn' = FALSE
    /\ UNCHANGED <<disk, journal, keychain, nextTxn, done, overlap>>

Start ==
    /\ life = "down"
    /\ life' = IF journal = Nothing THEN "up" ELSE "replay_mp"
    /\ UNCHANGED <<disk, journal, keychain, pc, plan, old, result, nextTxn,
                   history>>

\* A side the journal does not name is skipped; a failed write ends recover
\* with False, and the program goes on starting with the journal in place.
Replay(s) ==
    /\ life = IF s = "mp" THEN "replay_mp" ELSE "replay_sp"
    /\ \/ /\ disk' = IF s \in DOMAIN journal
                     THEN [disk EXCEPT ![s] = journal[s]] ELSE disk
          /\ life' = IF s = "mp" THEN "replay_sp" ELSE "replay_log"
          /\ UNCHANGED torn
       \/ /\ "replay" \in Faults
          /\ s \in DOMAIN journal
          /\ life' = "up"
          /\ torn' = TRUE
          /\ UNCHANGED disk
    /\ UNCHANGED <<journal, keychain, pc, plan, old, result, nextTxn,
                   done, overlap>>

ReplayLog ==
    /\ life = "replay_log"
    /\ \/ journal' = Nothing
       \/ "unlink" \in Faults /\ UNCHANGED journal
    /\ life' = "up"
    /\ UNCHANGED <<disk, keychain, pc, plan, old, result, nextTxn,
                   history>>

-----------------------------------------------------------------------------

Step(w) ==
    \/ Prepare(w)
    \/ Snapshot(w)
    \/ JournalWrite(w)
    \/ \E s \in Sides : AtomicInstall(w, s) \/ Undo(w, s)
    \/ \E a \in Accounts : SetErase(w, a) \/ Del(w, a)
    \/ SetAdd(w)
    \/ SetsDone(w)
    \/ DelsDone(w)
    \/ Clear(w)
    \/ UndoLog(w)

Recover == Start \/ (\E s \in Sides : Replay(s)) \/ ReplayLog

Next == (\E w \in Writers : Step(w)) \/ Crash \/ Recover

Spec == Init /\ [][Next]_vars

(* Properties.  They speak of the time before two saves first overlap: the   *)
(* code has no lock, and promises nothing of saves that do.                  *)

\* A journal file that outlives the save that wrote it (no removal of a
\* journal is checked) never takes back a save its caller was told is done:
\* replaying it at the next start changes nothing, or brings a later save.
NoStaleReplay ==
    ~overlap => \/ Overlay(disk, journal) = disk
                \/ \A s \in DOMAIN journal : \E t \in journal[s] : t > done

\* A stored password disappears only when the files of a save that is being
\* carried out are both on disk and its journal can still replay them:
\* commit touches the Keychain after the files, and never after a rollback.
PasswordsGoAfterFiles ==
    [][\A a \in Accounts :
          ~overlap /\ keychain[a] # 0 /\ keychain'[a] = 0 =>
             \E w \in Writers : /\ plan[w].new # Nothing
                                /\ Overlay(disk, plan[w].new) = disk
                                /\ journal = plan[w].new]_vars

\* The old contents of the files of the saves under way.
Before ==
    [s \in {s \in Sides : \E w \in Writers : s \in DOMAIN old[w]} |->
        LET w == CHOOSE w \in Writers : s \in DOMAIN old[w] IN old[w][s]]

\* What the two files amount to: the old contents while a save is under way,
\* since it may still roll back.
Effective == IF life = "up" THEN Overlay(disk, Before) ELSE disk

Atomic == INSTANCE AtomicConfig WITH
    cfg   <- Effective,
    boot  <- Overlay(disk, journal),
    up    <- life = "up",
    asked <- [w \in Writers |-> plan[w].new],
    told  <- [w \in Writers |->
                 IF pc[w] = "idle" THEN result[w] ELSE "pending"]

\* Saves are atomic over MP and SP, as AtomicConfig says: all of it or nothing
\* for a save that returns, through every failure but that of a rollback's or
\* a recovery's own write (torn), and all of it or nothing at the next start.
AtomicSaves == Atomic!Init /\ [][overlap' \/ Atomic!Next]_(Atomic!vars)

=============================================================================

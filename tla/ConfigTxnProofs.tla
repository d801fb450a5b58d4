--------------------------- MODULE ConfigTxnProofs ---------------------------
(***************************************************************************)
(* Machine-checked facts about ConfigTxn, for every value of its constants:*)
(* every set of failures, the repairs' own among them, and every number of *)
(* writers.  The code has no lock between saves, and promises nothing once *)
(* two of them have overlapped: the properties speak of the time before    *)
(* that, and so do the theorems.                                           *)
(***************************************************************************)
EXTENDS ConfigTxn, TLAPS

\* The disk already holds what image j would install.
Done(j) == \A s \in DOMAIN j : disk[s] = j[s]

Busy(w)     == pc[w] # "idle"
Forward     == {"mp", "sp", "sets", "put", "dels", "clear"}
Backward    == {"undo_mp", "undo_sp", "undo_log"}

\* The payload of a save under way: nothing while idle, the old contents of
\* exactly the saved sides from the snapshot on.
PayloadInv(w) ==
    /\ ~Busy(w) => plan[w].new = Nothing /\ old[w] = Nothing
    /\ Busy(w) => plan[w].new # Nothing /\ life = "up"
    /\ pc[w] = "snapshot" => old[w] = Nothing
    /\ pc[w] \notin {"idle", "snapshot"} => DOMAIN old[w] = DOMAIN plan[w].new
    /\ pc[w] \in {"mp", "undo_mp"} => "mp" \in DOMAIN plan[w].new
    /\ pc[w] \in {"sp", "undo_sp"} => "sp" \in DOMAIN plan[w].new

\* How far the files have got at each step of commit and _rollback; in
\* between, each is as it was or as it is to be.
ProgressInv(w) ==
    /\ pc[w] \in {"journal", "mp", "undo_log"} => Done(old[w])
    /\ pc[w] = "sp" =>
          /\ "mp" \in DOMAIN plan[w].new => disk["mp"] = plan[w].new["mp"]
          /\ disk["sp"] = old[w]["sp"]
    /\ pc[w] \in {"sets", "put", "dels", "clear"} => Done(plan[w].new)
    /\ pc[w] = "undo_sp" /\ "mp" \in DOMAIN plan[w].new =>
          disk["mp"] = old[w]["mp"]
    /\ pc[w] \in Backward =>
          \A s \in DOMAIN old[w] : disk[s] \in {old[w][s], plan[w].new[s]}

\* The journal is the save's own from its first install on; a rollback whose
\* journal was never written has nothing to undo.
JournalInv(w) ==
    /\ pc[w] \in Forward => journal = plan[w].new
    /\ pc[w] \in Backward => journal = plan[w].new \/ Done(old[w])

\* The number of a save under way is above that of every save told ok, and
\* its contents carry it.
IdInv(w) ==
    Busy(w) => /\ done < plan[w].id /\ plan[w].id < nextTxn
               /\ \A s \in DOMAIN plan[w].new : plan[w].id \in plan[w].new[s]

ReplayInv ==
    /\ life = "replay_sp" /\ "mp" \in DOMAIN journal =>
          disk["mp"] = journal["mp"]
    /\ life = "replay_log" => Done(journal)

NewerOrDone ==
    Done(journal) \/ \A s \in DOMAIN journal : \E t \in journal[s] : t > done

Alone == \A v, w \in Writers : Busy(v) /\ Busy(w) => v = w

\* What holds until two saves overlap.
Serial ==
    /\ Alone
    /\ done < nextTxn
    /\ ReplayInv
    /\ NewerOrDone
    /\ \A w \in Writers :
          PayloadInv(w) /\ ProgressInv(w) /\ JournalInv(w) /\ IdInv(w)

IInv == TypeOK /\ (overlap \/ Serial)

-----------------------------------------------------------------------------
(* Images                                                                   *)

\* The empty image is an image over any set of contents.
LEMMA NothingIsImage ==
  ASSUME NEW C
  PROVE  Nothing \in Images(C) /\ DOMAIN Nothing = {}
  BY DEF Nothing, Images, Sides

\* An image names only sides, and its values are contents.
LEMMA ImageFacts ==
  ASSUME NEW C, NEW f \in Images(C)
  PROVE  /\ DOMAIN f \subseteq Sides
         /\ \A s \in DOMAIN f : f[s] \in C
         /\ f # Nothing => DOMAIN f # {}
  BY DEF Images, Nothing

\* A partial function over some of the sides is an image.
LEMMA ImageIntro ==
  ASSUME NEW C, NEW S \in SUBSET Sides, NEW f \in [S -> C]
  PROVE  f \in Images(C)
  BY DEF Images

\* What prepare hands to commit is an image over contents, never empty.
LEMMA CandidateType ==
  ASSUME TypeOK, NEW kind \in Kinds, nextTxn <= MaxTxn
  PROVE  /\ Candidate(kind, nextTxn) \in Images(Content)
         /\ Candidate(kind, nextTxn) # Nothing
  <1> USE ConfigAssumption DEF ConfigAssumption
  <1> DEFINE c == Candidate(kind, nextTxn)
  <1>1. nextTxn \in 1 .. MaxTxn
    BY DEF TypeOK
  <1>2. \A s \in Sides : Read(s) \in Content
    BY DEF TypeOK, Read, Files, Content
  <1>3. /\ {nextTxn} \in Content
        /\ \A s \in Sides : Read(s) \cup {nextTxn} \in Content
    BY <1>1, <1>2 DEF Content
  <1>4. CASE kind = "form"
    BY <1>4, <1>3, ImageIntro DEF Candidate, Images, Sides, Nothing
  <1>5. CASE kind = "form_mp"
    BY <1>5, <1>3, ImageIntro DEF Candidate, Images, Sides, Nothing
  <1>6. CASE kind = "form_sp"
    BY <1>6, <1>3, ImageIntro DEF Candidate, Images, Sides, Nothing
  <1>7. CASE kind = "update_mp"
    BY <1>7, <1>3, ImageIntro DEF Candidate, Images, Sides, Nothing
  <1>8. CASE kind = "rules"
    BY <1>8, <1>3, ImageIntro DEF Candidate, Images, Sides, Nothing
  <1> QED
    BY <1>4, <1>5, <1>6, <1>7, <1>8 DEF SaveKinds

-----------------------------------------------------------------------------
(* Types                                                                    *)

\* The stages commit and _rollback move between are stages.
LEMMA StageType ==
  ASSUME NEW new, NEW s
  PROVE  {FirstFile(new), AfterFile(s, new), FirstUndo(new), AfterUndo(s, new)}
            \subseteq Stages
  BY DEF FirstFile, AfterFile, FirstUndo, AfterUndo, Stages

\* Forgetting the payload keeps the types.
LEMMA ReturnType ==
  ASSUME TypeOK, NEW w \in Writers, NEW r \in {"none", "ok", "failed"},
         Return(w, r)
  PROVE  /\ pc' \in [Writers -> Stages]
         /\ plan' \in [Writers -> Plans]
         /\ old' \in [Writers -> Images(Files)]
         /\ result' \in [Writers -> {"none", "ok", "failed"}]
  <1>1. NoPlan \in Plans
    BY NothingIsImage, ConfigAssumption DEF NoPlan, Plans, ConfigAssumption
  <1>2. Nothing \in Images(Files)
    BY NothingIsImage
  <1> QED
    BY <1>1, <1>2 DEF TypeOK, Return, Goto, Stages

\* The updates the Keychain loop makes to a plan give a plan.
LEMMA PlanUpdates ==
  ASSUME NEW p \in Plans, NEW a
  PROVE  /\ a \in Accounts =>
              [p EXCEPT !.putting = a] \in Plans
         /\ [p EXCEPT !.sets = @ \ {a}, !.putting = NoAccount]
              \in Plans
         /\ [p EXCEPT !.dels = @ \ {a}] \in Plans
         /\ [p EXCEPT !.dels = @ \ {a}, !.err = TRUE] \in Plans
  <1>1. 0 \in 0 .. MaxTxn + 1
    BY ConfigAssumption DEF ConfigAssumption
  <1>2. a \in Accounts => [p EXCEPT !.putting = a] \in Plans
    BY DEF Plans
  <1>3. [p EXCEPT !.sets = @ \ {a}, !.putting = NoAccount]
          \in Plans
    BY <1>1 DEF Plans
  <1>4. [p EXCEPT !.dels = @ \ {a}] \in Plans
    BY DEF Plans
  <1>5. [p EXCEPT !.dels = @ \ {a}, !.err = TRUE] \in Plans
    BY DEF Plans
  <1> QED
    BY <1>2, <1>3, <1>4, <1>5

\* Storing or erasing a password keeps the Keychain's type.
LEMMA KeychainUpdates ==
  ASSUME TypeOK, NEW a, NEW v \in 0 .. MaxTxn
  PROVE  [keychain EXCEPT ![a] = v] \in [Accounts -> 0 .. MaxTxn + 1]
  <1>1. v \in 0 .. MaxTxn + 1
    BY ConfigAssumption DEF ConfigAssumption
  <1>2. keychain \in [Accounts -> 0 .. MaxTxn + 1]
    BY DEF TypeOK
  <1> QED
    BY <1>1, <1>2

\* Every variable keeps its type: in particular a file always holds one whole
\* content, the old one or that of some save.
THEOREM TypeCorrect == Spec => []TypeOK
  <1> USE ConfigAssumption DEF ConfigAssumption, history
  <1>1. Init => TypeOK
    <2> SUFFICES ASSUME Init PROVE TypeOK
      OBVIOUS
    <2>1. overlap \in BOOLEAN /\ torn \in BOOLEAN
      BY DEF Init
    <2>2. /\ done \in 0 .. MaxTxn /\ nextTxn \in 1 .. MaxTxn + 1
          /\ keychain \in [Accounts -> 0 .. MaxTxn + 1]
      BY DEF Init
    <2>3. disk \in [Sides -> Files] /\ life \in Lives
      BY DEF Init, Lives, Files, Content, Missing
    <2>4. plan \in [Writers -> Plans] /\ old \in [Writers -> Images(Files)]
      BY NothingIsImage DEF Init, NoPlan, Plans
    <2>5. journal \in Images(Content)
      BY NothingIsImage DEF Init
    <2>6. /\ pc \in [Writers -> Stages]
          /\ result \in [Writers -> {"none", "ok", "failed"}]
      BY DEF Init, Stages
    <2> QED
      BY <2>1, <2>2, <2>3, <2>4, <2>5, <2>6 DEF TypeOK
  <1>2. TypeOK /\ [Next]_vars => TypeOK'
    <2> SUFFICES ASSUME TypeOK, [Next]_vars PROVE TypeOK'
      OBVIOUS
    <2>1. ASSUME NEW w \in Writers, Prepare(w) PROVE TypeOK'
      <3>1. PICK kind \in Kinds, sets \in SUBSET Accounts,
                 dels \in SUBSET Accounts :
               plan' = [plan EXCEPT ![w] =
                 [id |-> nextTxn, kind |-> kind,
                  new |-> Candidate(kind, nextTxn), sets |-> sets,
                  dels |-> dels, putting |-> NoAccount,
                  err |-> FALSE]]
        BY <2>1 DEF Prepare
      <3>2. Candidate(kind, nextTxn) \in Images(Content)
        BY <2>1, CandidateType DEF Prepare
      <3>3. plan' \in [Writers -> Plans]
        BY <3>1, <3>2, <2>1 DEF Prepare, TypeOK, Plans
      <3> QED
        BY <2>1, <3>3 DEF Prepare, TypeOK, Goto, Stages
    <2>2. ASSUME NEW w \in Writers, Snapshot(w) PROVE TypeOK'
      <3>1. plan[w].new \in Images(Content)
        BY DEF TypeOK, Plans
      <3>2. DOMAIN plan[w].new \in SUBSET Sides
        BY <3>1, ImageFacts
      <3>3. [s \in DOMAIN plan[w].new |-> disk[s]] \in Images(Files)
        BY <3>2, ImageIntro DEF TypeOK
      <3> QED
        BY <2>2, <3>3 DEF Snapshot, TypeOK, Goto, Stages
    <2>3. ASSUME NEW w \in Writers, JournalWrite(w) PROVE TypeOK'
      <3>1. plan[w].new \in Images(Content)
        BY DEF TypeOK, Plans
      <3> QED
        BY <2>3, <3>1, StageType DEF JournalWrite, TypeOK, Goto
    <2>4. ASSUME NEW w \in Writers, NEW s \in Sides, AtomicInstall(w, s)
          PROVE TypeOK'
      <3>1. plan[w].new \in Images(Content)
        BY DEF TypeOK, Plans
      <3>2. plan[w].new[s] \in Files
        BY <3>1, ImageFacts, <2>4 DEF AtomicInstall, Files
      <3> QED
        BY <2>4, <3>2, StageType DEF AtomicInstall, TypeOK, Goto
    <2>5. ASSUME NEW w \in Writers, NEW a \in Accounts, SetErase(w, a)
          PROVE TypeOK'
      <3>1. /\ plan[w] \in Plans /\ keychain[a] \in 0 .. MaxTxn + 1
            /\ 0 \in 0 .. MaxTxn
        BY DEF TypeOK
      <3>2. /\ [plan[w] EXCEPT !.putting = a] \in Plans
            /\ [keychain EXCEPT ![a] = 0] \in [Accounts -> 0 .. MaxTxn + 1]
        BY <3>1, PlanUpdates, KeychainUpdates
      <3> QED
        BY <2>5, <3>2, StageType DEF SetErase, TypeOK, Goto, Stages
    <2>6. ASSUME NEW w \in Writers, SetAdd(w) PROVE TypeOK'
      <3> DEFINE a == plan[w].putting
      <3>1. plan[w] \in Plans /\ plan[w].id \in 0 .. MaxTxn
        BY DEF TypeOK, Plans
      <3>2. 0 \in 0 .. MaxTxn + 1
        OBVIOUS
      <3>3. /\ [plan[w] EXCEPT !.sets = @ \ {a}, !.putting = NoAccount] \in Plans
            /\ [keychain EXCEPT ![a] = plan[w].id]
                 \in [Accounts -> 0 .. MaxTxn + 1]
        BY <3>1, <3>2, PlanUpdates, KeychainUpdates
      <3>4. plan \in [Writers -> Plans]
        BY DEF TypeOK
      <3>5. plan' \in [Writers -> Plans]
        BY <2>6, <3>3, <3>4 DEF SetAdd
      <3> QED
        BY <2>6, <3>3, <3>5, StageType DEF SetAdd, TypeOK, Goto, Stages
    <2>7. ASSUME NEW w \in Writers, SetsDone(w) PROVE TypeOK'
      BY <2>7 DEF SetsDone, TypeOK, Goto, Stages
    <2>8. ASSUME NEW w \in Writers, NEW a \in Accounts, Del(w, a)
          PROVE TypeOK'
      <3>1. plan[w] \in Plans /\ 0 \in 0 .. MaxTxn /\ 0 \in 0 .. MaxTxn + 1
        BY DEF TypeOK
      <3>2. /\ [plan[w] EXCEPT !.dels = @ \ {a}] \in Plans
            /\ [plan[w] EXCEPT !.dels = @ \ {a}, !.err = TRUE] \in Plans
            /\ [keychain EXCEPT ![a] = 0] \in [Accounts -> 0 .. MaxTxn + 1]
        BY <3>1, PlanUpdates, KeychainUpdates
      <3>3. plan \in [Writers -> Plans]
        BY DEF TypeOK
      <3>4. plan' \in [Writers -> Plans]
        BY <2>8, <3>2, <3>3 DEF Del
      <3> QED
        BY <2>8, <3>2, <3>4 DEF Del, TypeOK
    <2>9. ASSUME NEW w \in Writers, DelsDone(w) PROVE TypeOK'
      BY <2>9, StageType DEF DelsDone, TypeOK, Goto, Stages
    <2>10. ASSUME NEW w \in Writers, Clear(w) PROVE TypeOK'
      <3>1. plan[w].id \in 0 .. MaxTxn
        BY DEF TypeOK, Plans
      <3>2. journal' \in Images(Content) /\ done' \in 0 .. MaxTxn
        BY <2>10, <3>1, NothingIsImage DEF Clear, TypeOK
      <3>3. /\ pc' \in [Writers -> Stages]
            /\ plan' \in [Writers -> Plans]
            /\ old' \in [Writers -> Images(Files)]
            /\ result' \in [Writers -> {"none", "ok", "failed"}]
        BY <2>10, ReturnType DEF Clear
      <3>4. UNCHANGED <<disk, keychain, life, nextTxn, overlap, torn>>
        BY <2>10 DEF Clear
      <3> QED
        BY <3>2, <3>3, <3>4 DEF TypeOK
    <2>11. ASSUME NEW w \in Writers, NEW s \in Sides, Undo(w, s)
           PROVE TypeOK'
      <3>1. old[w][s] \in Files
        BY ImageFacts, <2>11 DEF Undo, TypeOK
      <3>2. torn' \in BOOLEAN /\ overlap' \in BOOLEAN
        BY <2>11 DEF Undo, TypeOK
      <3>3. disk' \in [Sides -> Files] /\ UNCHANGED <<journal, keychain, life, nextTxn, done>>
        BY <2>11, <3>1 DEF Undo, TypeOK
      <3>4. /\ pc' \in [Writers -> Stages]
            /\ plan' \in [Writers -> Plans]
            /\ old' \in [Writers -> Images(Files)]
            /\ result' \in [Writers -> {"none", "ok", "failed"}]
        <4>1. CASE Return(w, "failed")
          BY <4>1, ReturnType
        <4>2. CASE /\ Goto(w, AfterUndo(s, plan[w].new))
                   /\ UNCHANGED <<plan, old, result>>
          BY <4>2, StageType DEF Goto, TypeOK
        <4> QED
          BY <2>11, <4>1, <4>2 DEF Undo
      <3> QED
        BY <3>2, <3>3, <3>4 DEF TypeOK
    <2>12. ASSUME NEW w \in Writers, UndoLog(w) PROVE TypeOK'
      BY <2>12, ReturnType, NothingIsImage DEF UndoLog, TypeOK
    <2>13. ASSUME Crash PROVE TypeOK'
      <3>1. NoPlan \in Plans
        BY NothingIsImage DEF NoPlan, Plans
      <3> QED
        BY <2>13, <3>1, NothingIsImage DEF Crash, TypeOK, Stages, Lives
    <2>14. ASSUME Start PROVE TypeOK'
      BY <2>14 DEF Start, TypeOK, Lives
    <2>15. ASSUME NEW s \in Sides, Replay(s) PROVE TypeOK'
      <3>1. s \in DOMAIN journal => journal[s] \in Files
        BY ImageFacts DEF TypeOK, Files
      <3> QED
        BY <2>15, <3>1 DEF Replay, TypeOK, Lives
    <2>16. ASSUME ReplayLog PROVE TypeOK'
      BY <2>16, NothingIsImage DEF ReplayLog, TypeOK, Lives
    <2>17. CASE UNCHANGED vars
      BY <2>17 DEF vars, TypeOK
    <2> QED
      BY <2>1, <2>2, <2>3, <2>4, <2>5, <2>6, <2>7, <2>8, <2>9, <2>10, <2>11,
         <2>12, <2>13, <2>14, <2>15, <2>16, <2>17 DEF Next, Step, Recover
  <1> QED
    BY <1>1, <1>2, PTL DEF Spec

-----------------------------------------------------------------------------
(* The invariant of the journal                                             *)

\* The writers beside w are idle and stay so.
Still(w) ==
    \A v \in Writers \ {w} :
        /\ pc[v] = "idle" /\ pc'[v] = "idle"
        /\ plan[v].new = Nothing /\ old[v] = Nothing
        /\ plan'[v] = plan[v] /\ old'[v] = old[v]
        /\ result'[v] = result[v]

\* While no save has overlapped, the writers beside the one that steps are idle
\* and stay so.
LEMMA Others ==
  ASSUME TypeOK, Serial, NEW w \in Writers, Step(w), ~overlap'
  PROVE  /\ ~overlap
         /\ Still(w)
  <1>1. \A v \in Writers \ {w} :
           /\ pc'[v] = pc[v] /\ plan'[v] = plan[v] /\ old'[v] = old[v]
           /\ result'[v] = result[v]
    <2>1. CASE Prepare(w)
      BY <2>1 DEF Prepare, TypeOK
    <2>2. CASE Snapshot(w) \/ JournalWrite(w)
      BY <2>2 DEF Snapshot, JournalWrite, Goto, TypeOK
    <2>3. CASE \E s \in Sides : AtomicInstall(w, s) \/ Undo(w, s)
      BY <2>3 DEF AtomicInstall, Undo, Return, Goto, TypeOK
    <2>4. CASE \E a \in Accounts : SetErase(w, a) \/ Del(w, a)
      BY <2>4 DEF SetErase, Del, Goto, TypeOK
    <2>5. CASE SetAdd(w) \/ SetsDone(w) \/ DelsDone(w)
      BY <2>5 DEF SetAdd, SetsDone, DelsDone, Goto, TypeOK
    <2>6. CASE Clear(w) \/ UndoLog(w)
      BY <2>6 DEF Clear, UndoLog, Return, Goto, TypeOK
    <2> QED
      BY <2>1, <2>2, <2>3, <2>4, <2>5, <2>6 DEF Step
  <1>2. ~overlap
    BY DEF Step, Prepare, Snapshot, JournalWrite, AtomicInstall, Undo, SetErase,
           Del, SetAdd, SetsDone, DelsDone, Clear, UndoLog, history
  <1>3. \A v \in Writers \ {w} : pc[v] = "idle"
    <2>1. CASE Prepare(w)
      BY <2>1 DEF Prepare
    <2>2. CASE pc[w] # "idle"
      BY <2>2 DEF Serial, Alone, Busy
    <2>3. Prepare(w) \/ pc[w] # "idle"
      BY DEF Step, Snapshot, JournalWrite, AtomicInstall, Undo, SetErase, Del,
             SetAdd, SetsDone, DelsDone, Clear, UndoLog, UndoStage, Sides
    <2> QED
      BY <2>1, <2>2, <2>3
  <1> QED
    BY <1>1, <1>2, <1>3 DEF Serial, PayloadInv, Busy, Still

\* Every content a save asks for carries its number.
LEMMA CandidateId ==
  ASSUME TypeOK, NEW kind \in Kinds, nextTxn <= MaxTxn,
         NEW s \in DOMAIN Candidate(kind, nextTxn)
  PROVE  nextTxn \in Candidate(kind, nextTxn)[s]
  <1> USE ConfigAssumption DEF ConfigAssumption
  <1>4. CASE kind = "form"
    BY <1>4 DEF Candidate
  <1>5. CASE kind = "form_mp"
    BY <1>5 DEF Candidate
  <1>6. CASE kind = "form_sp"
    BY <1>6 DEF Candidate
  <1>7. CASE kind = "update_mp"
    BY <1>7 DEF Candidate
  <1>8. CASE kind = "rules"
    BY <1>8 DEF Candidate
  <1> QED
    BY <1>4, <1>5, <1>6, <1>7, <1>8 DEF SaveKinds

\* After it is prepared, a save keeps its number and contents to its end.
LEMMA PlanStays ==
  ASSUME TypeOK, NEW w \in Writers, Step(w), ~Prepare(w)
  PROVE  \/ plan'[w].id = plan[w].id /\ plan'[w].new = plan[w].new
         \/ pc'[w] = "idle"
  <1> DEFINE Same == plan'[w].id = plan[w].id /\ plan'[w].new = plan[w].new
  <1>0. plan[w] \in Plans /\ plan \in [Writers -> Plans] /\ pc \in [Writers -> Stages]
    BY DEF TypeOK
  <1>1. ASSUME NEW a, SetErase(w, a) PROVE Same
    <2>1. \/ plan' = plan
          \/ plan'[w] = [plan[w] EXCEPT !.putting = a]
      BY <1>1, <1>0 DEF SetErase
    <2>2. LET q == [plan[w] EXCEPT !.putting = a]
          IN  q.id = plan[w].id /\ q.new = plan[w].new
      BY <1>0 DEF Plans
    <2> QED
      BY <2>1, <2>2
  <1>2. ASSUME NEW a, Del(w, a) PROVE Same
    <2>1. \/ plan'[w] = [plan[w] EXCEPT !.dels = @ \ {a}]
          \/ plan'[w] = [plan[w] EXCEPT !.dels = @ \ {a}, !.err = TRUE]
      BY <1>2, <1>0 DEF Del
    <2>2. LET q == [plan[w] EXCEPT !.dels = @ \ {a}]
          IN  q.id = plan[w].id /\ q.new = plan[w].new
      BY <1>0 DEF Plans
    <2>3. LET q == [plan[w] EXCEPT !.dels = @ \ {a}, !.err = TRUE]
          IN  q.id = plan[w].id /\ q.new = plan[w].new
      BY <1>0 DEF Plans
    <2> QED
      BY <2>1, <2>2, <2>3
  <1>3. ASSUME SetAdd(w) PROVE Same
    <2>1. \/ plan' = plan
          \/ plan'[w] = [plan[w] EXCEPT !.sets = @ \ {plan[w].putting},
                                       !.putting = NoAccount]
      BY <1>3, <1>0 DEF SetAdd
    <2>2. LET q == [plan[w] EXCEPT !.sets = @ \ {plan[w].putting},
                                   !.putting = NoAccount]
          IN  q.id = plan[w].id /\ q.new = plan[w].new
      BY <1>0 DEF Plans
    <2> QED
      BY <2>1, <2>2
  <1>4. CASE Snapshot(w) \/ JournalWrite(w) \/ SetsDone(w) \/ DelsDone(w)
    BY <1>4 DEF Snapshot, JournalWrite, SetsDone, DelsDone
  <1>5. CASE \E s \in Sides : AtomicInstall(w, s) \/ Undo(w, s)
    BY <1>5, <1>0 DEF AtomicInstall, Undo, Return, Goto
  <1>6. CASE Clear(w) \/ UndoLog(w)
    BY <1>6, <1>0 DEF Clear, UndoLog, Return, Goto
  <1> QED
    BY <1>1, <1>2, <1>3, <1>4, <1>5, <1>6 DEF Step

\* Numbers grow: a save under way is later than every save told ok.
LEMMA IdStep ==
  ASSUME TypeOK, Serial, NEW w \in Writers, Step(w), ~overlap', TypeOK'
  PROVE  IdInv(w)' /\ done' < nextTxn'
  <1> USE ConfigAssumption DEF ConfigAssumption
  <1>0. done < nextTxn /\ IdInv(w) /\ done \in Nat /\ nextTxn \in Nat
    BY DEF Serial, TypeOK
  <1>1. CASE Prepare(w)
    <2>1. PICK kind \in Kinds : /\ plan'[w].new = Candidate(kind, nextTxn)
                                /\ plan'[w].id = nextTxn
      BY <1>1 DEF Prepare, TypeOK
    <2>2. nextTxn <= MaxTxn /\ nextTxn' = nextTxn + 1 /\ done' = done
      BY <1>1 DEF Prepare
    <2>3. \A s \in DOMAIN plan'[w].new : nextTxn \in plan'[w].new[s]
      BY <2>1, <2>2, CandidateId
    <2> QED
      BY <2>1, <2>2, <2>3, <1>0 DEF IdInv
  <1>2. CASE ~Prepare(w)
    <2>1. pc[w] # "idle"
      BY <1>2 DEF Step, Snapshot, JournalWrite, AtomicInstall, Undo, SetErase,
             Del, SetAdd, SetsDone, DelsDone, Clear, UndoLog, UndoStage, Sides
    <2>2. nextTxn' = nextTxn
      BY <1>2 DEF Step, Snapshot, JournalWrite, AtomicInstall, Undo, SetErase,
             Del, SetAdd, SetsDone, DelsDone, Clear, UndoLog
    <2>3. done' = done \/ (done' = plan[w].id /\ pc'[w] = "idle")
      BY <1>2 DEF Step, Snapshot, JournalWrite, AtomicInstall, Undo, SetErase,
             Del, SetAdd, SetsDone, DelsDone, Clear, UndoLog, Return, Goto,
             history, TypeOK
    <2>4. done' < nextTxn'
      BY <2>1, <2>2, <2>3, <1>0 DEF IdInv, Busy
    <2>5. CASE pc'[w] = "idle"
      BY <2>4, <2>5 DEF IdInv, Busy
    <2>6. CASE pc'[w] # "idle"
      BY <2>1, <2>2, <2>3, <2>4, <2>6, <1>2, <1>0, PlanStays DEF IdInv, Busy
    <2> QED
      BY <2>4, <2>5, <2>6
  <1> QED
    BY <1>1, <1>2

\* No step brings a stale journal about: one is written only with the number
\* of a save later than every save told ok, and that save is told ok only when
\* the files hold all of it.
LEMMA StaleStep ==
  ASSUME TypeOK, Serial, [Next]_vars, ~overlap', TypeOK'
  PROVE  NewerOrDone'
  <1> USE DEF NewerOrDone, Done
  <1>0. NewerOrDone /\ disk \in [Sides -> Files]
    BY DEF Serial, TypeOK
  <1>1. CASE UNCHANGED <<disk, journal, done>>
    BY <1>1, <1>0
  <1>2. CASE journal' = Nothing
    BY <1>2 DEF Nothing
  <1>3. ASSUME NEW w \in Writers, Step(w) PROVE NewerOrDone'
    <2>0. /\ PayloadInv(w) /\ ProgressInv(w) /\ JournalInv(w)
          /\ IdInv(w)
      BY <1>3 DEF Serial
    <2>1. CASE JournalWrite(w)
      <3>1. UNCHANGED <<disk, journal, done>> \/ (journal' = plan[w].new /\ done' = done)
        BY <2>1 DEF JournalWrite, history
      <3>2. \A s \in DOMAIN plan[w].new : plan[w].id \in plan[w].new[s]
        BY <2>0, <2>1 DEF IdInv, Busy, JournalWrite
      <3>3. plan[w].id > done
        BY <2>0, <2>1 DEF IdInv, Busy, JournalWrite
      <3> QED
        BY <3>1, <3>2, <3>3, <1>1
    <2>2. ASSUME NEW s \in Sides, AtomicInstall(w, s) PROVE NewerOrDone'
      <3>1. pc[w] \in {"mp", "sp"} /\ journal' = journal /\ done' = done
        BY <2>2 DEF AtomicInstall, Sides, history
      <3>2. journal = plan[w].new
        BY <2>0, <3>1 DEF JournalInv, Forward
      <3>3. /\ \A r \in DOMAIN plan[w].new : plan[w].id \in plan[w].new[r]
            /\ plan[w].id > done
        BY <2>0, <3>1 DEF IdInv, Busy
      <3> QED
        BY <3>1, <3>2, <3>3
    <2>3. ASSUME NEW s \in Sides, Undo(w, s) PROVE NewerOrDone'
      <3>1. /\ pc[w] \in {"undo_mp", "undo_sp"} /\ journal' = journal /\ done' = done
            /\ s \in DOMAIN old[w]
            /\ disk' = disk \/ disk' = [disk EXCEPT ![s] = old[w][s]]
        BY <2>3 DEF Undo, UndoStage, Sides
      <3>2. CASE journal = plan[w].new
        <4>1. /\ \A r \in DOMAIN plan[w].new : plan[w].id \in plan[w].new[r]
              /\ plan[w].id > done
          BY <2>0, <3>1 DEF IdInv, Busy
        <4> QED
          BY <3>1, <3>2, <4>1
      <3>3. CASE Done(old[w])
        <4>1. disk' = disk
          BY <3>1, <3>3, <1>0
        <4> QED
          BY <3>1, <4>1, <1>1
      <3> QED
        BY <2>0, <3>1, <3>2, <3>3 DEF JournalInv, Backward
    <2>4. CASE Clear(w)
      <3>1. /\ pc[w] = "clear" /\ disk' = disk
            /\ journal' = Nothing \/ journal' = journal
        BY <2>4 DEF Clear
      <3>2. journal = plan[w].new /\ Done(plan[w].new)
        BY <2>0, <3>1 DEF JournalInv, ProgressInv, Forward
      <3> QED
        BY <3>1, <3>2, <1>2
    <2>5. CASE UndoLog(w)
      BY <2>5, <1>1, <1>2 DEF UndoLog, history
    <2>6. CASE Prepare(w) \/ Snapshot(w) \/ SetAdd(w) \/ SetsDone(w) \/ DelsDone(w)
      BY <2>6, <1>1 DEF Prepare, Snapshot, SetAdd, SetsDone, DelsDone, history
    <2>7. CASE \E a \in Accounts : SetErase(w, a) \/ Del(w, a)
      BY <2>7, <1>1 DEF SetErase, Del, history
    <2> QED
      BY <1>3, <2>1, <2>2, <2>3, <2>4, <2>5, <2>6, <2>7 DEF Step
  <1>4. ASSUME NEW s \in Sides, Replay(s) PROVE NewerOrDone'
    <2>1. /\ journal' = journal /\ done' = done
          /\ \/ disk' = disk
             \/ s \in DOMAIN journal /\ disk' = [disk EXCEPT ![s] = journal[s]]
      BY <1>4 DEF Replay
    <2> QED
      BY <2>1, <1>0
  <1>5. CASE Crash \/ Start \/ ReplayLog
    BY <1>5, <1>1, <1>2 DEF Crash, Start, ReplayLog, history
  <1>6. CASE UNCHANGED vars
    BY <1>6, <1>1 DEF vars
  <1> QED
    BY <1>3, <1>4, <1>5, <1>6 DEF Next, Recover

\* Every step keeps the journal invariant: until two saves overlap, only the
\* saving thread's own view has to be followed.
LEMMA InvStep ==
  ASSUME TypeOK, Serial, [Next]_vars, ~overlap', TypeOK'
  PROVE  Serial'
  <1> USE DEF PayloadInv, ProgressInv, JournalInv, Busy, Forward, Backward,
              ReplayInv
  <1> DEFINE Rest(v) == PayloadInv(v) /\ ProgressInv(v) /\ JournalInv(v)
  <1>1. ASSUME NEW w \in Writers, Prepare(w)
        PROVE  ReplayInv' /\ Rest(w)'
    <2>1. PICK kind \in Kinds : plan'[w].new = Candidate(kind, nextTxn)
      BY <1>1 DEF Prepare, Serial, TypeOK, Plans
    <2>2. plan'[w].new # Nothing
      BY <1>1, <2>1, CandidateType DEF Prepare, Serial
    <2>3. /\ pc[w] = "idle" /\ pc'[w] = "snapshot" /\ life = "up"
          /\ UNCHANGED <<disk, journal, life, old>>
      BY <1>1 DEF Prepare, Serial, TypeOK, Goto
    <2>4. Rest(w)
      BY DEF Serial
    <2> QED
      BY <2>2, <2>3, <2>4 DEF Done
  <1>2. ASSUME NEW w \in Writers, Snapshot(w)
        PROVE  ReplayInv' /\ Rest(w)'
    <2>1. /\ pc[w] = "snapshot" /\ pc'[w] = "journal"
          /\ old'[w] = [s \in DOMAIN plan[w].new |-> disk[s]]
          /\ UNCHANGED <<disk, journal, life, plan>>
      BY <1>2 DEF Snapshot, Serial, TypeOK, Goto
    <2>2. Rest(w)
      BY DEF Serial
    <2> QED
      BY <2>1, <2>2 DEF Done
  <1>3. ASSUME NEW w \in Writers, JournalWrite(w)
        PROVE  ReplayInv' /\ Rest(w)'
    <2>1. /\ pc[w] = "journal"
          /\ UNCHANGED <<disk, life, plan, old>>
          /\ \/ journal' = plan[w].new /\ pc'[w] = FirstFile(plan[w].new)
             \/ journal' = journal /\ pc'[w] = FirstUndo(plan[w].new)
      BY <1>3 DEF JournalWrite, Serial, TypeOK, Goto
    <2>2. Rest(w)
      BY DEF Serial
    <2>3. DOMAIN plan[w].new \subseteq Sides /\ DOMAIN plan[w].new # {}
      BY <2>1, <2>2, ImageFacts DEF Serial, TypeOK, Plans
    <2> QED
      BY <2>1, <2>2, <2>3 DEF Done, FirstFile, FirstUndo, Sides
  <1>4. ASSUME NEW w \in Writers, NEW s \in Sides, AtomicInstall(w, s)
        PROVE  ReplayInv' /\ Rest(w)'
    <2>1. /\ pc[w] = s /\ s \in DOMAIN plan[w].new
          /\ UNCHANGED <<journal, life, plan, old>>
          /\ \/ /\ disk' = [disk EXCEPT ![s] = plan[w].new[s]]
                /\ pc'[w] = AfterFile(s, plan[w].new)
             \/ disk' = disk /\ pc'[w] = FirstUndo(plan[w].new)
      BY <1>4 DEF AtomicInstall, Serial, TypeOK, Goto
    <2>2. Rest(w)
      BY DEF Serial
    <2>3. DOMAIN plan[w].new \subseteq Sides /\ disk \in [Sides -> Files]
      BY ImageFacts DEF Serial, TypeOK, Plans
    <2>4. CASE s = "mp"
      BY <2>1, <2>2, <2>3, <2>4 DEF Done, AfterFile, FirstUndo, Sides
    <2>5. CASE s = "sp"
      BY <2>1, <2>2, <2>3, <2>5 DEF Done, AfterFile, FirstUndo, Sides
    <2> QED
      BY <2>4, <2>5 DEF Sides
  <1>5. ASSUME NEW w \in Writers, NEW a \in Accounts, SetErase(w, a)
        PROVE  ReplayInv' /\ Rest(w)'
    <2>1. /\ pc[w] = "sets"
          /\ UNCHANGED <<disk, journal, life, old>>
          /\ \/ /\ plan'[w] = [plan[w] EXCEPT !.putting = a]
                /\ pc'[w] = "put"
             \/ plan' = plan /\ pc'[w] = FirstUndo(plan[w].new)
      BY <1>5 DEF SetErase, Serial, TypeOK, Goto
    <2>2. plan'[w].new = plan[w].new
      <3>1. plan[w] \in Plans
        BY DEF Serial, TypeOK
      <3>2. [plan[w] EXCEPT !.putting = a].new = plan[w].new
        BY <3>1 DEF Plans
      <3> QED
        BY <2>1, <3>2
    <2>3. Rest(w)
      BY DEF Serial
    <2>4. DOMAIN plan[w].new \subseteq Sides /\ DOMAIN plan[w].new # {}
      BY <2>1, <2>3, ImageFacts DEF Serial, TypeOK, Plans
    <2> QED
      BY <2>1, <2>2, <2>3, <2>4 DEF Done, FirstUndo, Sides
  <1>6. ASSUME NEW w \in Writers, SetAdd(w)
        PROVE  ReplayInv' /\ Rest(w)'
    <2>1. /\ pc[w] = "put"
          /\ UNCHANGED <<disk, journal, life, old>>
          /\ \/ /\ plan'[w] = [plan[w] EXCEPT !.sets = @ \ {plan[w].putting},
                                              !.putting = NoAccount]
                /\ pc'[w] = "sets"
             \/ plan' = plan /\ pc'[w] = FirstUndo(plan[w].new)
      BY <1>6 DEF SetAdd, Serial, TypeOK, Goto
    <2>2. plan'[w].new = plan[w].new
      <3>1. plan[w] \in Plans
        BY DEF Serial, TypeOK
      <3>2. [plan[w] EXCEPT !.sets = @ \ {plan[w].putting},
                             !.putting = NoAccount].new
               = plan[w].new
        BY <3>1 DEF Plans
      <3> QED
        BY <2>1, <3>2
    <2>3. Rest(w)
      BY DEF Serial
    <2>4. DOMAIN plan[w].new \subseteq Sides /\ DOMAIN plan[w].new # {}
      BY <2>1, <2>3, ImageFacts DEF Serial, TypeOK, Plans
    <2> QED
      BY <2>1, <2>2, <2>3, <2>4 DEF Done, FirstUndo, Sides
  <1>7. ASSUME NEW w \in Writers, SetsDone(w)
        PROVE  ReplayInv' /\ Rest(w)'
    <2>1. /\ pc[w] = "sets" /\ pc'[w] = "dels"
          /\ UNCHANGED <<disk, journal, life, plan, old>>
      BY <1>7 DEF SetsDone, Serial, TypeOK, Goto
    <2>2. Rest(w)
      BY DEF Serial
    <2> QED
      BY <2>1, <2>2 DEF Done
  <1>8. ASSUME NEW w \in Writers, NEW a \in Accounts, Del(w, a)
        PROVE  ReplayInv' /\ Rest(w)'
    <2>1. /\ pc[w] = "dels"
          /\ UNCHANGED <<disk, journal, life, old, pc>>
          /\ \/ plan'[w] = [plan[w] EXCEPT !.dels = @ \ {a}]
             \/ plan'[w] = [plan[w] EXCEPT !.dels = @ \ {a}, !.err = TRUE]
      BY <1>8 DEF Del, Serial, TypeOK
    <2>2. plan'[w].new = plan[w].new
      <3>1. plan[w] \in Plans
        BY DEF Serial, TypeOK
      <3>2. /\ [plan[w] EXCEPT !.dels = @ \ {a}].new = plan[w].new
            /\ [plan[w] EXCEPT !.dels = @ \ {a}, !.err = TRUE].new = plan[w].new
        BY <3>1 DEF Plans
      <3> QED
        BY <2>1, <3>2
    <2>3. Rest(w)
      BY DEF Serial
    <2> QED
      BY <2>1, <2>2, <2>3 DEF Done
  <1>9. ASSUME NEW w \in Writers, DelsDone(w)
        PROVE  ReplayInv' /\ Rest(w)'
    <2>1. /\ pc[w] = "dels"
          /\ pc'[w] = "clear" \/ pc'[w] = FirstUndo(plan[w].new)
          /\ UNCHANGED <<disk, journal, life, plan, old>>
      BY <1>9 DEF DelsDone, Serial, TypeOK, Goto
    <2>2. Rest(w)
      BY DEF Serial
    <2>3. DOMAIN plan[w].new \subseteq Sides /\ DOMAIN plan[w].new # {}
      BY <2>1, <2>2, ImageFacts DEF Serial, TypeOK, Plans
    <2> QED
      BY <2>1, <2>2, <2>3 DEF Done, FirstUndo, Sides
  <1>10. ASSUME NEW w \in Writers, Clear(w)
         PROVE  ReplayInv' /\ Rest(w)'
    <2>1. /\ pc[w] = "clear" /\ pc'[w] = "idle"
          /\ plan'[w].new = Nothing /\ old'[w] = Nothing
          /\ journal' = Nothing \/ journal' = journal
          /\ UNCHANGED <<disk, life>>
      BY <1>10 DEF Clear, Return, Goto, NoPlan, Serial, TypeOK
    <2>2. Rest(w)
      BY DEF Serial
    <2>3. DOMAIN Nothing = {}
      BY DEF Nothing
    <2> QED
      BY <2>1, <2>2, <2>3 DEF Done
  <1>11. ASSUME NEW w \in Writers, NEW s \in Sides, Undo(w, s)
         PROVE  ReplayInv' /\ Rest(w)'
    <2>0. /\ pc[w] = UndoStage(s) /\ s \in DOMAIN old[w]
          /\ \/ /\ disk' = [disk EXCEPT ![s] = old[w][s]]
                /\ Goto(w, AfterUndo(s, plan[w].new))
                /\ UNCHANGED <<plan, old>>
             \/ Return(w, "failed")
          /\ UNCHANGED <<journal, life>>
      BY <1>11 DEF Undo
    <2>2. Rest(w)
      BY DEF Serial
    <2>6. CASE Return(w, "failed")
      <3>1. /\ pc'[w] = "idle" /\ plan'[w].new = Nothing /\ old'[w] = Nothing
        BY <2>6 DEF Return, Goto, NoPlan, TypeOK
      <3> QED
        BY <2>0, <2>2, <3>1 DEF UndoStage
    <2> SUFFICES ASSUME disk' = [disk EXCEPT ![s] = old[w][s]],
                        Goto(w, AfterUndo(s, plan[w].new)),
                        UNCHANGED <<plan, old>>
                 PROVE  ReplayInv' /\ Rest(w)'
      BY <2>0, <2>6
    <2>1. /\ pc[w] = UndoStage(s) /\ s \in DOMAIN old[w]
          /\ disk' = [disk EXCEPT ![s] = old[w][s]]
          /\ pc'[w] = AfterUndo(s, plan[w].new)
          /\ UNCHANGED <<journal, life, plan, old>>
      BY <2>0 DEF TypeOK, Goto
    <2>3. /\ DOMAIN old[w] \subseteq Sides /\ DOMAIN plan[w].new \subseteq Sides
          /\ disk \in [Sides -> Files]
      BY ImageFacts DEF Serial, TypeOK, Plans
    <2>4. CASE s = "mp"
      BY <2>1, <2>2, <2>3, <2>4 DEF Done, AfterUndo, UndoStage, Sides
    <2>5. CASE s = "sp"
      BY <2>1, <2>2, <2>3, <2>5 DEF Done, AfterUndo, UndoStage, Sides
    <2> QED
      BY <2>4, <2>5 DEF Sides
  <1>12. ASSUME NEW w \in Writers, UndoLog(w)
         PROVE  ReplayInv' /\ Rest(w)'
    <2>1. /\ pc[w] = "undo_log" /\ pc'[w] = "idle"
          /\ plan'[w].new = Nothing /\ old'[w] = Nothing
          /\ UNCHANGED <<disk, life>>
      BY <1>12 DEF UndoLog, Return, Goto, NoPlan, Serial, TypeOK
    <2>2. Rest(w)
      BY DEF Serial
    <2>3. DOMAIN Nothing = {}
      BY DEF Nothing
    <2> QED
      BY <2>1, <2>2, <2>3 DEF Done
  <1>13. ASSUME Crash PROVE ReplayInv' /\ \A w \in Writers : Rest(w)'
    BY <1>13 DEF Crash, NoPlan
  <1>14. ASSUME Start PROVE ReplayInv' /\ \A w \in Writers : Rest(w)'
    <2>1. DOMAIN Nothing = {}
      BY DEF Nothing
    <2> QED
      BY <1>14, <2>1 DEF Start, Serial, Done
  <1>15. ASSUME NEW s \in Sides, Replay(s)
         PROVE  ReplayInv' /\ \A w \in Writers : Rest(w)'
    <2>1. /\ life = IF s = "mp" THEN "replay_mp" ELSE "replay_sp"
          /\ \/ /\ disk' = IF s \in DOMAIN journal
                           THEN [disk EXCEPT ![s] = journal[s]] ELSE disk
                /\ life' = IF s = "mp" THEN "replay_sp" ELSE "replay_log"
             \/ life' = "up"
          /\ UNCHANGED <<journal, pc, plan, old>>
      BY <1>15 DEF Replay
    <2>2. DOMAIN journal \subseteq Sides /\ disk \in [Sides -> Files]
      BY ImageFacts DEF Serial, TypeOK
    <2>3. \A w \in Writers : pc[w] = "idle" /\ Rest(w)
      BY <2>1 DEF Serial
    <2> QED
      BY <2>1, <2>2, <2>3 DEF Serial, Done, Sides
  <1>16. ASSUME ReplayLog PROVE ReplayInv' /\ \A w \in Writers : Rest(w)'
    <2>1. DOMAIN Nothing = {}
      BY DEF Nothing
    <2>2. \A w \in Writers : pc[w] = "idle" /\ Rest(w)
      BY <1>16 DEF ReplayLog, Serial
    <2> QED
      BY <1>16, <2>1, <2>2 DEF ReplayLog, Serial, Done
  <1>17. ASSUME UNCHANGED vars PROVE ReplayInv' /\ \A w \in Writers : Rest(w)'
    <2>1. UNCHANGED <<disk, journal, life, pc, plan, old>>
      BY <1>17 DEF vars
    <2>2. ReplayInv /\ \A w \in Writers : Rest(w)
      BY DEF Serial
    <2>3. ReplayInv'
      BY <2>1, <2>2 DEF Done
    <2>4. ASSUME NEW w \in Writers PROVE Rest(w)'
      BY <2>1, <2>2 DEF Done
    <2> QED
      BY <2>3, <2>4
  <1>18. ASSUME NEW w \in Writers, Step(w)
         PROVE  ReplayInv' /\ Rest(w)'
    BY <1>18, <1>1, <1>2, <1>3, <1>4, <1>5, <1>6, <1>7, <1>8, <1>9, <1>10,
       <1>11, <1>12 DEF Step
  <1> HIDE DEF PayloadInv, ProgressInv, JournalInv, Busy, Forward, Backward,
               ReplayInv
  <1>19. ASSUME NEW w \in Writers, Step(w)
         PROVE  /\ \A v \in Writers : Rest(v)' /\ IdInv(v)'
                /\ Alone' /\ done' < nextTxn'
    <2>1. \A v \in Writers \ {w} : pc'[v] = "idle" /\ plan'[v].new = Nothing
                                    /\ old'[v] = Nothing
      BY <1>19, Others DEF Still
    <2>2. Rest(w)' /\ IdInv(w)' /\ done' < nextTxn'
      BY <1>18, <1>19, IdStep
    <2>3. \A v \in Writers \ {w} : Rest(v)' /\ IdInv(v)'
      BY <2>1 DEF IdInv, PayloadInv, ProgressInv, JournalInv, Busy, Forward,
                  Backward
    <2>4. Alone'
      BY <2>1 DEF Alone, Busy
    <2> QED
      BY <2>2, <2>3, <2>4
  <1>20. ASSUME Crash \/ Recover \/ UNCHANGED vars
         PROVE  Alone' /\ done' < nextTxn' /\ \A v \in Writers : IdInv(v)'
    <2>1. done < nextTxn /\ Alone /\ \A v \in Writers : IdInv(v)
      BY DEF Serial
    <2>2. UNCHANGED <<done, nextTxn>>
      BY <1>20 DEF Crash, Recover, Start, Replay, ReplayLog, history, vars
    <2>3. CASE Crash
      BY <2>1, <2>2, <2>3 DEF Crash, Alone, IdInv, Busy
    <2>4. CASE Recover \/ UNCHANGED vars
      <3>1. UNCHANGED <<pc, plan>>
        BY <2>4 DEF Recover, Start, Replay, ReplayLog, vars
      <3> QED
        BY <2>1, <2>2, <3>1 DEF Alone, IdInv, Busy
    <2> QED
      BY <1>20, <2>3, <2>4
  <1>21. NewerOrDone'
    BY StaleStep
  <1>22. ASSUME NEW w \in Writers, Step(w) PROVE Serial'
    BY <1>18, <1>19, <1>21, <1>22 DEF Serial
  <1>23. ASSUME Crash \/ Recover \/ UNCHANGED vars
         PROVE  ReplayInv' /\ \A w \in Writers : Rest(w)'
    BY <1>23, <1>13, <1>14, <1>15, <1>16, <1>17 DEF Recover
  <1>24. ASSUME Crash \/ Recover \/ UNCHANGED vars PROVE Serial'
    BY <1>20, <1>21, <1>23, <1>24 DEF Serial
  <1> QED
    BY <1>22, <1>24 DEF Next

\* Laying an image over a disk that already holds it changes nothing.
LEMMA OverlayDone ==
  ASSUME TypeOK, NEW j, Done(j)
  PROVE  Overlay(disk, j) = disk
  <1>1. disk = [s \in Sides |-> disk[s]]
    BY DEF TypeOK
  <1> QED
    BY <1>1 DEF Overlay, Done

\* The invariant holds in every reachable state: until two saves overlap, and
\* whatever fails.
LEMMA Invariance == Spec => []IInv
  <1>1. Init /\ TypeOK => IInv
    <2> SUFFICES ASSUME Init, TypeOK PROVE Serial
      BY DEF IInv
    <2>1. \A w \in Writers : /\ pc[w] = "idle" /\ plan[w].new = Nothing
                             /\ old[w] = Nothing
      BY DEF Init, NoPlan
    <2>2. \A w \in Writers :
             PayloadInv(w) /\ ProgressInv(w) /\ JournalInv(w) /\ IdInv(w)
      BY <2>1 DEF PayloadInv, ProgressInv, JournalInv, IdInv, Busy, Forward,
                  Backward
    <2>3. ReplayInv /\ NewerOrDone
      BY DEF Init, ReplayInv, NewerOrDone, Done, Nothing
    <2>4. Alone /\ done < nextTxn
      BY <2>1 DEF Init, Alone, Busy
    <2> QED
      BY <2>2, <2>3, <2>4 DEF Serial
  <1>2. IInv /\ [Next]_vars /\ TypeOK' => IInv'
    <2> SUFFICES ASSUME TypeOK, overlap \/ Serial, [Next]_vars, TypeOK'
                 PROVE  overlap' \/ Serial'
      BY DEF IInv
    <2>1. overlap => overlap'
      BY DEF Next, Step, Recover, Prepare, Snapshot, JournalWrite,
             AtomicInstall, Undo, SetErase, Del, SetAdd, SetsDone, DelsDone,
             Clear, UndoLog, Crash, Start, Replay, ReplayLog, history, vars
    <2>2. CASE overlap
      BY <2>1, <2>2
    <2>3. CASE Serial
      BY <2>3, InvStep
    <2> QED
      BY <2>2, <2>3
  <1> QED
    BY <1>1, <1>2, TypeCorrect, PTL DEF Spec

\* A journal left behind never takes back a save that was told ok, through
\* every failure, until two saves overlap.
THEOREM LeftoverJournalHarmless == Spec => []NoStaleReplay
  <1>1. IInv => NoStaleReplay
    <2> SUFFICES ASSUME TypeOK, Serial
                 PROVE  \/ Overlay(disk, journal) = disk
                        \/ \A s \in DOMAIN journal : \E t \in journal[s] : t > done
      BY DEF IInv, NoStaleReplay
    <2>1. CASE Done(journal)
      BY <2>1, OverlayDone
    <2> QED
      BY <2>1 DEF Serial, NewerOrDone
  <1> QED
    BY <1>1, Invariance, PTL

-----------------------------------------------------------------------------
(* Saves are atomic                                                         *)

Boot  == Overlay(disk, journal)
Up    == life = "up"
Asked == [w \in Writers |-> plan[w].new]
Told  == [w \in Writers |-> IF pc[w] = "idle" THEN result[w] ELSE "pending"]

\* While the process is up and only w saves, the configuration is the disk
\* with the old contents of w's files.
LEMMA EffectiveOf ==
  ASSUME TypeOK, life = "up", NEW w \in Writers,
         \A v \in Writers \ {w} : old[v] = Nothing
  PROVE  Effective = Overlay(disk, old[w])
  <1>1. DOMAIN old[w] \subseteq Sides /\ DOMAIN Nothing = {}
    BY ImageFacts DEF TypeOK, Nothing
  <1>2. \A s \in Sides, v \in Writers : s \in DOMAIN old[v] => v = w
    BY <1>1
  <1>3. Before = [s \in DOMAIN old[w] |-> old[w][s]]
    BY <1>1, <1>2 DEF Before
  <1> QED
    BY <1>3 DEF Effective, Overlay

\* The same of the next state.
LEMMA EffectiveOfNext ==
  ASSUME TypeOK', life' = "up", NEW w \in Writers,
         \A v \in Writers \ {w} : old'[v] = Nothing
  PROVE  Effective' = Overlay(disk', old'[w])
  <1>1. DOMAIN old'[w] \subseteq Sides /\ DOMAIN Nothing = {}
    BY ImageFacts DEF TypeOK, Nothing
  <1>2. \A s \in Sides, v \in Writers : s \in DOMAIN old'[v] => v = w
    BY <1>1
  <1>3. Before' = [s \in DOMAIN old'[w] |-> old'[w][s]]
    BY <1>1, <1>2 DEF Before
  <1> QED
    BY <1>3 DEF Effective, Overlay

\* With no save under way it is the disk itself, up or not.
LEMMA EffectiveQuiet ==
  ASSUME TypeOK, \A w \in Writers : old[w] = Nothing
  PROVE  Effective = disk
  <1>1. DOMAIN Nothing = {}
    BY DEF Nothing
  <1>2. Before = [s \in {} |-> Before[s]]
    BY <1>1 DEF Before
  <1>3. DOMAIN Before = {}
    BY <1>2
  <1>4. disk = [s \in Sides |-> disk[s]]
    BY DEF TypeOK
  <1> QED
    BY <1>3, <1>4 DEF Effective, Overlay

\* The same of the next state.
LEMMA EffectiveQuietNext ==
  ASSUME TypeOK', \A w \in Writers : old'[w] = Nothing
  PROVE  Effective' = disk'
  <1>1. DOMAIN Nothing = {}
    BY DEF Nothing
  <1>2. DOMAIN Before' = {}
    BY <1>1 DEF Before
  <1>3. disk' = [s \in Sides |-> disk'[s]]
    BY DEF TypeOK
  <1> QED
    BY <1>2, <1>3 DEF Effective, Overlay

\* Between the first and the last step of a save the caller sees nothing, and
\* the configuration stays, as long as its files change only where the save's
\* old contents cover them.
LEMMA Hidden ==
  ASSUME TypeOK, TypeOK', NEW w \in Writers, Still(w), life = "up", life' = "up",
         pc[w] # "idle", pc'[w] # "idle",
         Overlay(disk', old'[w]) = Overlay(disk, old[w])
  PROVE  UNCHANGED <<Effective, Up, Told>>
  <1>1. Effective' = Effective
    BY EffectiveOf, EffectiveOfNext DEF Still
  <1>2. Told' = Told
    BY DEF Still, Told
  <1>3. Up' = Up
    BY DEF Up
  <1> QED
    BY <1>1, <1>2, <1>3

\* What is asked for stays while a save is under way.
LEMMA AskedStays ==
  ASSUME TypeOK, NEW w \in Writers, Still(w), Step(w), ~Prepare(w), pc'[w] # "idle"
  PROVE  Asked' = Asked
  <1>1. plan'[w].new = plan[w].new
    BY PlanStays
  <1>2. \A v \in Writers : plan'[v].new = plan[v].new
    BY <1>1 DEF Still
  <1> QED
    BY <1>2 DEF Asked

\* The end of a save, as its caller and the configuration see it.
LEMMA Returned ==
  ASSUME TypeOK, TypeOK', NEW w \in Writers, Still(w), NEW r, Return(w, r),
         pc[w] # "idle", life = "up", life' = "up"
  PROVE  /\ Effective = Overlay(disk, old[w]) /\ Effective' = disk'
         /\ Up' = Up
         /\ Told[w] = "pending"
         /\ Asked' = [Asked EXCEPT ![w] = Nothing]
         /\ Told' = [Told EXCEPT ![w] = r]
  <1>1. /\ pc'[w] = "idle" /\ plan'[w].new = Nothing /\ old'[w] = Nothing
        /\ result'[w] = r
    BY DEF Return, Goto, NoPlan, TypeOK
  <1>2. Effective = Overlay(disk, old[w])
    BY EffectiveOf DEF Still
  <1>3. Effective' = disk'
    BY <1>1, EffectiveQuietNext DEF Still
  <1>4. Up' = Up
    BY DEF Up
  <1>5. Asked' = [Asked EXCEPT ![w] = Nothing]
    BY <1>1 DEF Asked, Still
  <1>6. Told' = [Told EXCEPT ![w] = r] /\ Told[w] = "pending"
    BY <1>1 DEF Told, Still
  <1> QED
    BY <1>2, <1>3, <1>4, <1>5, <1>6

\* Every step of one save is a step of AtomicConfig, or a stutter.
LEMMA AtomicSave ==
  ASSUME TypeOK, TypeOK', Serial, NEW w \in Writers, Step(w), ~overlap'
  PROVE  \/ UNCHANGED <<Effective, Boot, Up, torn, Asked, Told>>
         \/ Atomic!Ask(w) \/ Atomic!Promise(w) \/ Atomic!Commit(w)
         \/ Atomic!Abort(w) \/ Atomic!Tear(w)
  <1> DEFINE Quietly == UNCHANGED <<Effective, Boot, Up, torn, Asked, Told>>
  <1>0. /\ Still(w) /\ PayloadInv(w) /\ ProgressInv(w) /\ JournalInv(w)
        /\ disk = [s \in Sides |-> disk[s]] /\ disk \in [Sides -> Files]
        /\ DOMAIN old[w] \subseteq Sides /\ DOMAIN plan[w].new \subseteq Sides
    BY Others, ImageFacts DEF Serial, TypeOK, Plans
  <1>1. ASSUME Prepare(w) PROVE Atomic!Ask(w)
    <2>1. PICK kind \in Kinds : plan'[w].new = Candidate(kind, nextTxn)
      BY <1>1 DEF Prepare, TypeOK, Plans
    <2>2. plan'[w].new \in Images(Content) \ {Nothing}
      BY <1>1, <2>1, CandidateType DEF Prepare
    <2>3. /\ pc[w] = "idle" /\ pc'[w] = "snapshot" /\ life = "up"
          /\ UNCHANGED <<disk, journal, life, old, result, torn>>
      BY <1>1 DEF Prepare, TypeOK, Goto
    <2>4. Effective' = Effective /\ Boot' = Boot
      BY <2>3, <1>0, EffectiveOf, EffectiveOfNext DEF Still, Boot
    <2>5. Asked' = [Asked EXCEPT ![w] = plan'[w].new]
      BY <1>0 DEF Asked, Still
    <2>6. Told[w] # "pending" /\ Told' = [Told EXCEPT ![w] = "pending"]
      BY <2>3, <1>0 DEF Told, TypeOK, Still
    <2>7. Up /\ Up' = Up
      BY <2>3 DEF Up
    <2> QED
      BY <2>2, <2>3, <2>4, <2>5, <2>6, <2>7
      DEF Atomic!Ask, Atomic!Images, Atomic!Nothing, Images, Nothing, Asked, Told,
          Boot, Up
  <1>2. ASSUME Snapshot(w) PROVE Quietly
    <2>1. /\ pc[w] = "snapshot" /\ pc'[w] = "journal"
          /\ old'[w] = [s \in DOMAIN plan[w].new |-> disk[s]]
          /\ UNCHANGED <<disk, journal, life, plan, torn>>
      BY <1>2 DEF Snapshot, TypeOK, Goto, history
    <2>2. Overlay(disk', old'[w]) = Overlay(disk, old[w])
      BY <2>1, <1>0 DEF Overlay, PayloadInv, Nothing
    <2>3. life = "up" /\ life' = "up"
      BY <2>1, <1>0 DEF PayloadInv, Busy
    <2>4. UNCHANGED <<Boot, Asked>>
      BY <2>1 DEF Boot, Asked
    <2> QED
      BY <2>1, <2>2, <2>3, <2>4, <1>0, Hidden
  <1>3. ASSUME JournalWrite(w) PROVE Quietly \/ Atomic!Promise(w)
    <2>1. /\ pc[w] = "journal" /\ pc'[w] # "idle"
          /\ UNCHANGED <<disk, life, plan, old, torn>>
          /\ journal' = journal \/ journal' = plan[w].new
      BY <1>3 DEF JournalWrite, TypeOK, Goto, FirstFile, FirstUndo, history
    <2>2. life = "up" /\ life' = "up"
      BY <2>1, <1>0 DEF PayloadInv, Busy
    <2>3. UNCHANGED <<Effective, Up, Told>> /\ Asked' = Asked
      BY <2>1, <2>2, <1>0, Hidden DEF Asked
    <2>4. CASE journal' = journal
      BY <2>1, <2>3, <2>4 DEF Boot
    <2>5. CASE journal' = plan[w].new
      <3>1. Effective = disk
        <4>1. Done(old[w])
          BY <2>1, <1>0 DEF ProgressInv
        <4> QED
          BY <4>1, <2>2, <1>0, EffectiveOf, OverlayDone DEF Still
      <3>2. Boot' = Overlay(Effective, Asked[w])
        BY <2>1, <2>5, <3>1 DEF Boot, Asked
      <3>3. Told[w] = "pending"
        BY <2>1 DEF Told
      <3> QED
        BY <2>1, <2>3, <3>2, <3>3
        DEF Atomic!Promise, Atomic!Overlay, Overlay, Asked, Told, Boot, Up
    <2> QED
      BY <2>1, <2>4, <2>5
  <1>4. ASSUME NEW s \in Sides, AtomicInstall(w, s) PROVE Quietly
    <2>1. /\ pc[w] = s /\ s \in DOMAIN plan[w].new /\ pc'[w] # "idle"
          /\ disk' = disk \/ disk' = [disk EXCEPT ![s] = plan[w].new[s]]
          /\ UNCHANGED <<journal, life, plan, old, torn>>
      BY <1>4 DEF AtomicInstall, TypeOK, Goto, AfterFile, FirstUndo, history
    <2>2. life = "up" /\ life' = "up" /\ pc[w] # "idle"
      BY <2>1, <1>0 DEF PayloadInv, Busy, Sides
    <2>3. s \in DOMAIN old[w] /\ s \in DOMAIN journal
      BY <2>1, <1>0 DEF PayloadInv, JournalInv, Forward, Sides
    <2>4. Overlay(disk', old'[w]) = Overlay(disk, old[w]) /\ Boot' = Boot
      BY <2>1, <2>3, <1>0 DEF Overlay, Boot
    <2>5. Asked' = Asked
      BY <2>1 DEF Asked
    <2> QED
      BY <2>1, <2>2, <2>4, <2>5, <1>0, Hidden
  <1>5. ASSUME \/ \E a \in Accounts : SetErase(w, a) \/ Del(w, a)
               \/ SetAdd(w) \/ SetsDone(w) \/ DelsDone(w)
        PROVE  Quietly
    <2>1. /\ pc[w] # "idle" /\ pc'[w] # "idle"
          /\ UNCHANGED <<disk, journal, life, old, torn>>
      BY <1>5 DEF SetErase, Del, SetAdd, SetsDone, DelsDone, Goto, FirstUndo,
                  history, TypeOK
    <2>2. life = "up" /\ life' = "up"
      BY <2>1, <1>0 DEF PayloadInv, Busy
    <2>3. Asked' = Asked
      <3>1. ~Prepare(w)
        BY <2>1 DEF Prepare
      <3> QED
        BY <2>1, <3>1, <1>0, AskedStays
    <2>4. Boot' = Boot
      BY <2>1 DEF Boot
    <2> QED
      BY <2>1, <2>2, <2>3, <2>4, <1>0, Hidden
  <1>6. ASSUME Clear(w) PROVE Atomic!Commit(w)
    <2>1. /\ pc[w] = "clear" /\ Return(w, "ok")
          /\ journal' = Nothing \/ journal' = journal
          /\ UNCHANGED <<disk, life, torn>>
      BY <1>6 DEF Clear
    <2>2. /\ life = "up" /\ life' = "up"
          /\ DOMAIN old[w] = DOMAIN plan[w].new /\ Done(plan[w].new)
          /\ journal = plan[w].new
      BY <2>1, <1>0 DEF PayloadInv, ProgressInv, JournalInv, Busy, Forward
    <2>3. /\ Effective = Overlay(disk, old[w]) /\ Effective' = disk'
          /\ Up' = Up
          /\ Told[w] = "pending"
          /\ Asked' = [Asked EXCEPT ![w] = Nothing]
          /\ Told' = [Told EXCEPT ![w] = "ok"]
      BY <2>1, <2>2, <1>0, Returned
    <2>4. Overlay(Effective, Asked[w]) = disk
      BY <2>2, <2>3, <1>0 DEF Overlay, Done, Asked
    <2>5. Boot' = disk
      <3>1. CASE journal' = Nothing
        BY <2>1, <3>1, <1>0 DEF Boot, Overlay, Nothing
      <3>2. CASE journal' = journal
        BY <2>1, <2>2, <3>2, OverlayDone DEF Boot
      <3> QED
        BY <2>1, <3>1, <3>2
    <2> QED
      BY <2>1, <2>3, <2>4, <2>5
      DEF Atomic!Commit, Atomic!Finish, Atomic!Overlay, Overlay,
          Atomic!Nothing, Nothing, Asked, Told, Boot, Up
  <1>7. ASSUME NEW s \in Sides, Undo(w, s) PROVE Quietly \/ Atomic!Tear(w)
    <2>1. /\ pc[w] = UndoStage(s) /\ s \in DOMAIN old[w]
          /\ UNCHANGED <<journal, life>>
      BY <1>7 DEF Undo
    <2>2. /\ life = "up" /\ life' = "up" /\ pc[w] \in Backward /\ pc[w] # "idle"
          /\ DOMAIN old[w] = DOMAIN plan[w].new
      BY <2>1, <1>0 DEF PayloadInv, Busy, UndoStage, Backward
    <2>3. ASSUME disk' = [disk EXCEPT ![s] = old[w][s]],
                 Goto(w, AfterUndo(s, plan[w].new)),
                 UNCHANGED <<plan, old, torn>>
          PROVE  Quietly
      <3>1. pc'[w] # "idle"
        BY <2>3 DEF Goto, AfterUndo, TypeOK
      <3>2. Overlay(disk', old'[w]) = Overlay(disk, old[w])
        BY <2>1, <2>3, <1>0 DEF Overlay
      <3>3. Boot' = Boot
        <4>1. CASE journal = plan[w].new
          BY <2>1, <2>2, <2>3, <4>1, <1>0 DEF Boot, Overlay
        <4>2. CASE Done(old[w])
          <5>1. disk' = disk
            BY <2>1, <2>3, <4>2, <1>0 DEF Done
          <5> QED
            BY <2>1, <5>1 DEF Boot
        <4> QED
          BY <2>2, <4>1, <4>2, <1>0 DEF JournalInv
      <3>4. Asked' = Asked
        BY <2>3 DEF Asked
      <3> QED
        BY <2>2, <2>3, <3>1, <3>2, <3>3, <3>4, <1>0, Hidden
    <2>4. ASSUME Return(w, "failed"), torn' = TRUE, disk' = disk
          PROVE  Atomic!Tear(w)
      <3>1. /\ Effective = Overlay(disk, old[w]) /\ Effective' = disk'
            /\ Up' = Up
            /\ Told[w] = "pending"
            /\ Asked' = [Asked EXCEPT ![w] = Nothing]
            /\ Told' = [Told EXCEPT ![w] = "failed"]
        BY <2>2, <2>4, <1>0, Returned
      <3>2. \A r \in Sides : disk[r] \in {Effective[r], Boot[r]}
        <4>1. CASE journal = plan[w].new
          <5>1. \A r \in DOMAIN old[w] : disk[r] \in {old[w][r], plan[w].new[r]}
            BY <2>2, <1>0 DEF ProgressInv
          <5> QED
            BY <2>2, <3>1, <4>1, <5>1, <1>0 DEF Overlay, Boot
        <4>2. CASE Done(old[w])
          <5>1. Effective = disk
            BY <3>1, <4>2, OverlayDone
          <5> QED
            BY <5>1
        <4> QED
          BY <2>2, <4>1, <4>2, <1>0 DEF JournalInv
      <3>3. Boot' = Boot
        BY <2>1, <2>4 DEF Boot
      <3> QED
        BY <2>4, <3>1, <3>2, <3>3
        DEF Atomic!Tear, Atomic!Finish, Atomic!Mixed, Atomic!Nothing, Nothing,
            Asked, Told, Boot, Up
    <2> QED
      BY <1>7, <2>3, <2>4 DEF Undo
  <1>8. ASSUME UndoLog(w) PROVE Atomic!Abort(w)
    <2>1. /\ pc[w] = "undo_log" /\ Return(w, "failed")
          /\ journal' = Nothing \/ journal' = journal
          /\ UNCHANGED <<disk, life, torn>>
      BY <1>8 DEF UndoLog, history
    <2>2. life = "up" /\ life' = "up" /\ Done(old[w])
      BY <2>1, <1>0 DEF PayloadInv, ProgressInv, Busy
    <2>3. /\ Effective = Overlay(disk, old[w]) /\ Effective' = disk'
          /\ Up' = Up
          /\ Told[w] = "pending"
          /\ Asked' = [Asked EXCEPT ![w] = Nothing]
          /\ Told' = [Told EXCEPT ![w] = "failed"]
      BY <2>1, <2>2, <1>0, Returned
    <2>4. Effective = disk /\ Effective' = disk
      BY <2>1, <2>2, <2>3, OverlayDone
    <2>5. Boot' = Effective \/ Boot' = Boot
      <3>1. CASE journal' = Nothing
        BY <2>1, <2>4, <3>1, <1>0 DEF Boot, Overlay, Nothing
      <3>2. CASE journal' = journal
        BY <2>1, <3>2 DEF Boot
      <3> QED
        BY <2>1, <3>1, <3>2
    <2> QED
      BY <2>1, <2>3, <2>4, <2>5
      DEF Atomic!Abort, Atomic!Finish, Atomic!Nothing, Nothing, Asked, Told,
          Boot, Up
  <1> QED
    BY <1>1, <1>2, <1>3, <1>4, <1>5, <1>6, <1>7, <1>8 DEF Step

\* A death leaves each file as it was in force or as the next start makes it.
LEMMA AtomicCrash ==
  ASSUME TypeOK, TypeOK', Serial, Crash
  PROVE  Atomic!Crash
  <1>1. /\ \A w \in Writers : /\ plan'[w].new = Nothing /\ result'[w] = "none"
                              /\ pc'[w] = "idle" /\ old'[w] = Nothing
        /\ UNCHANGED <<disk, journal>> /\ life' = "down" /\ torn' = FALSE
    BY DEF Crash, NoPlan
  <1>2. /\ Asked' = [w \in Writers |-> Nothing]
        /\ Told' = [w \in Writers |-> "none"]
        /\ Boot' = Boot
        /\ Up' = FALSE
    BY <1>1 DEF Asked, Told, Boot, Up
  <1>3. Effective' = disk
    BY <1>1, EffectiveQuietNext
  <1>4. ASSUME \A w \in Writers : old[w] = Nothing
        PROVE  \A r \in Sides : disk[r] \in {Effective[r], Boot[r]}
    BY <1>4, EffectiveQuiet
  <1>5. ASSUME NEW w \in Writers, old[w] # Nothing
        PROVE  \A r \in Sides : disk[r] \in {Effective[r], Boot[r]}
    <2>1. PayloadInv(w) /\ ProgressInv(w) /\ JournalInv(w)
      BY DEF Serial
    <2>2. /\ pc[w] \notin {"idle", "snapshot"} /\ life = "up"
          /\ DOMAIN old[w] = DOMAIN plan[w].new
      BY <1>5, <2>1 DEF PayloadInv, Busy
    <2>3. \A v \in Writers \ {w} : old[v] = Nothing
      BY <2>2 DEF Serial, Alone, Busy, PayloadInv
    <2>4. Effective = Overlay(disk, old[w])
      BY <2>2, <2>3, EffectiveOf
    <2>5. CASE Done(old[w])
      BY <2>4, <2>5, OverlayDone
    <2>6. CASE /\ journal = plan[w].new
               /\ \A s \in DOMAIN old[w] : disk[s] \in {old[w][s], plan[w].new[s]}
      BY <2>2, <2>4, <2>6 DEF Boot, Overlay
    <2>7. CASE pc[w] \in Backward
      BY <2>1, <2>5, <2>6, <2>7 DEF JournalInv, ProgressInv
    <2>8. CASE pc[w] \in {"sets", "put", "dels", "clear"}
      <3>1. journal = plan[w].new /\ Done(plan[w].new)
        BY <2>1, <2>8 DEF JournalInv, ProgressInv, Forward
      <3> QED
        BY <2>2, <2>6, <3>1 DEF Done
    <2>9. CASE pc[w] = "sp"
      <3>1. journal = plan[w].new
        BY <2>1, <2>9 DEF JournalInv, Forward
      <3>2. \A s \in DOMAIN old[w] : disk[s] \in {old[w][s], plan[w].new[s]}
        <4>1. DOMAIN old[w] \subseteq Sides
          BY ImageFacts DEF TypeOK
        <4> QED
          BY <2>1, <2>2, <2>9, <4>1 DEF ProgressInv, Sides
      <3> QED
        BY <2>6, <3>1, <3>2
    <2>10. CASE pc[w] \in {"journal", "mp"}
      BY <2>1, <2>5, <2>10 DEF ProgressInv
    <2>11. pc[w] \in Stages
      BY DEF TypeOK
    <2>12. \/ pc[w] \in Backward \/ pc[w] \in {"sets", "put", "dels", "clear"}
           \/ pc[w] = "sp" \/ pc[w] \in {"journal", "mp"}
      BY <2>2, <2>11 DEF Stages, Backward
    <2> QED
      BY <2>7, <2>8, <2>9, <2>10, <2>12
  <1>6. \A r \in Sides : disk[r] \in {Effective[r], Boot[r]}
    BY <1>4, <1>5
  <1> QED
    BY <1>1, <1>2, <1>3, <1>6
    DEF Atomic!Crash, Atomic!Mixed, Atomic!Nothing, Nothing, Asked, Told, Boot, Up

\* The recovery takes each file to the contents the journal promised.
LEMMA AtomicRecover ==
  ASSUME TypeOK, TypeOK', Serial, Recover
  PROVE  \/ UNCHANGED <<Effective, Boot, Up, torn, Asked, Told>>
         \/ Atomic!Recover \/ Atomic!Start
  <1>1. /\ life # "up" /\ UNCHANGED <<pc, plan, old, result>>
        /\ \A w \in Writers : old[w] = Nothing
    BY DEF Recover, Start, Replay, ReplayLog, Serial, PayloadInv, Busy
  <1>2. UNCHANGED <<Asked, Told>> /\ Effective = disk /\ Effective' = disk' /\ ~Up
    BY <1>1, EffectiveQuiet, EffectiveQuietNext DEF Asked, Told, Up
  <1>3. ASSUME life' = "up", UNCHANGED <<disk, journal>>, torn => torn',
               Done(journal) \/ torn'
        PROVE  Atomic!Start
    <2>1. Up' = TRUE /\ Boot' = Boot
      BY <1>3 DEF Up, Boot
    <2>2. Effective = Boot \/ torn'
      BY <1>2, <1>3, OverlayDone DEF Boot
    <2> QED
      BY <1>2, <1>3, <2>1, <2>2 DEF Atomic!Start, Asked, Told, Boot, Up
  <1>4. CASE Start
    <2>1. UNCHANGED <<disk, journal, torn>>
      BY <1>4 DEF Start, history
    <2>2. CASE journal = Nothing
      BY <1>3, <1>4, <2>1, <2>2 DEF Start, Done, Nothing
    <2>3. CASE journal # Nothing
      <3>1. Up' = Up
        BY <1>1, <1>4, <2>3 DEF Start, Up
      <3> QED
        BY <1>2, <2>1, <3>1 DEF Boot
    <2> QED
      BY <2>2, <2>3
  <1>5. ASSUME NEW s \in Sides, Replay(s)
        PROVE  Atomic!Recover \/ Atomic!Start
    <2>1. CASE life' = "up" /\ torn' = TRUE /\ disk' = disk /\ journal' = journal
      BY <1>3, <2>1
    <2>2. ASSUME life' # "up", torn' = torn, journal' = journal,
                 disk' = IF s \in DOMAIN journal
                         THEN [disk EXCEPT ![s] = journal[s]] ELSE disk
          PROVE  Atomic!Recover
      <3>1. Boot' = Boot
        BY <2>2 DEF Boot, Overlay, TypeOK
      <3>2. \A r \in Sides : disk'[r] \in {disk[r], Boot[r]}
        BY <2>2 DEF Boot, Overlay, TypeOK
      <3>3. Up' = Up
        BY <1>1, <2>2 DEF Up
      <3> QED
        BY <1>2, <2>2, <3>1, <3>2, <3>3
        DEF Atomic!Recover, Atomic!Mixed, Asked, Told, Boot, Up
    <2> QED
      BY <1>5, <2>1, <2>2 DEF Replay
  <1>6. CASE ReplayLog
    <2>1. /\ Done(journal) /\ disk' = disk /\ life' = "up" /\ torn' = torn
          /\ journal' = Nothing \/ journal' = journal
      BY <1>6 DEF ReplayLog, Serial, ReplayInv, history
    <2>2. Boot = disk
      BY <2>1, OverlayDone DEF Boot
    <2>3. Boot' = disk
      <3>1. CASE journal' = Nothing
        BY <2>1, <3>1 DEF Boot, Overlay, Nothing, TypeOK
      <3>2. CASE journal' = journal
        BY <2>1, <2>2, <3>2 DEF Boot
      <3> QED
        BY <2>1, <3>1, <3>2
    <2>4. Up' = TRUE
      BY <2>1 DEF Up
    <2> QED
      BY <1>2, <2>1, <2>2, <2>3, <2>4 DEF Atomic!Start, Asked, Told, Boot, Up
  <1> QED
    BY <1>4, <1>5, <1>6 DEF Recover

\* Saves are atomic over the two files, for any number of writers, saves,
\* server rows, failures and deaths, until two saves overlap.
THEOREM AtomicSavesHold == Spec => AtomicSaves
  <1>1. ASSUME Init PROVE Atomic!Init
    <2>1. /\ disk \in [Sides -> {Missing, {}}] /\ disk = [s \in Sides |-> disk[s]]
          /\ life = "down" /\ journal = Nothing
      BY <1>1 DEF Init
    <2>2. Effective = disk /\ Overlay(disk, journal) = disk
      BY <2>1 DEF Effective, Overlay, Nothing
    <2>3. (life = "up") = FALSE
      BY <2>1
    <2> QED
      BY <1>1, <2>1, <2>2, <2>3 DEF Init, Atomic!Init, Atomic!Nothing, Nothing, NoPlan
  <1>2. IInv /\ IInv' /\ [Next]_vars => [overlap' \/ Atomic!Next]_(Atomic!vars)
    <2> SUFFICES ASSUME IInv, IInv', [Next]_vars, ~overlap'
                 PROVE  \/ Atomic!Next
                        \/ UNCHANGED <<Effective, Boot, Up, torn, Asked, Told>>
      BY DEF Atomic!vars, Boot, Up, Asked, Told
    <2>1. TypeOK /\ TypeOK' /\ (overlap \/ Serial)
      BY DEF IInv
    <2>2. ~overlap
      BY DEF Next, Step, Recover, Prepare, Snapshot, JournalWrite,
             AtomicInstall, Undo, SetErase, Del, SetAdd, SetsDone, DelsDone,
             Clear, UndoLog, Crash, Start, Replay, ReplayLog, history, vars
    <2>3. Serial
      BY <2>1, <2>2
    <2>4. CASE \E w \in Writers : Step(w)
      BY <2>1, <2>3, <2>4, AtomicSave DEF Atomic!Next
    <2>5. CASE Crash
      BY <2>1, <2>3, <2>5, AtomicCrash DEF Atomic!Next
    <2>6. CASE Recover
      BY <2>1, <2>3, <2>6, AtomicRecover DEF Atomic!Next
    <2>7. CASE UNCHANGED vars
      BY <2>7 DEF vars, Effective, Before, Overlay, Boot, Up, Asked, Told
    <2> QED
      BY <2>4, <2>5, <2>6, <2>7 DEF Next
  <1> QED
    BY <1>1, <1>2, Invariance, PTL DEF Spec, AtomicSaves

-----------------------------------------------------------------------------
(* Passwords go after the files                                             *)

\* Only the two Keychain loops of commit touch a stored password.
LEMMA KeychainChanges ==
  ASSUME [Next]_vars, keychain' # keychain
  PROVE  \E w \in Writers : pc[w] \in {"sets", "put", "dels"}
  <1>1. PICK w \in Writers : Step(w)
    BY DEF Next, vars, Crash, Recover, Start, Replay, ReplayLog
  <1>2. ~(Prepare(w) \/ Snapshot(w) \/ JournalWrite(w))
    BY DEF Prepare, Snapshot, JournalWrite
  <1>3. ~(\E s \in Sides : AtomicInstall(w, s) \/ Undo(w, s))
    BY DEF AtomicInstall, Undo
  <1>4. ~(SetsDone(w) \/ DelsDone(w) \/ Clear(w) \/ UndoLog(w))
    BY DEF SetsDone, DelsDone, Clear, UndoLog
  <1>5. SetAdd(w) \/ \E a \in Accounts : SetErase(w, a) \/ Del(w, a)
    BY <1>1, <1>2, <1>3, <1>4 DEF Step
  <1> QED
    BY <1>5 DEF SetAdd, SetErase, Del

\* No stored password disappears before both files of its save are installed,
\* under a journal that can replay them: commit's order of files and Keychain,
\* until two saves overlap.
THEOREM PasswordsGoLast == Spec => PasswordsGoAfterFiles
  <1>1. ASSUME IInv, [Next]_vars, NEW a \in Accounts, ~overlap,
               keychain[a] # 0, keychain'[a] = 0
        PROVE  \E w \in Writers : /\ plan[w].new # Nothing
                                  /\ Overlay(disk, plan[w].new) = disk
                                  /\ journal = plan[w].new
    <2>1. PICK w \in Writers : pc[w] \in {"sets", "put", "dels"}
      BY <1>1, KeychainChanges
    <2>2. PayloadInv(w) /\ ProgressInv(w) /\ JournalInv(w) /\ TypeOK
      BY <1>1 DEF IInv, Serial
    <2>3. plan[w].new # Nothing /\ Done(plan[w].new) /\ journal = plan[w].new
      BY <2>1, <2>2 DEF PayloadInv, ProgressInv, JournalInv, Busy, Forward
    <2> QED
      BY <2>2, <2>3, OverlayDone
  <1>2. IInv /\ [Next]_vars =>
          [\A a \in Accounts :
             ~overlap /\ keychain[a] # 0 /\ keychain'[a] = 0 =>
               \E w \in Writers : /\ plan[w].new # Nothing
                                  /\ Overlay(disk, plan[w].new) = disk
                                  /\ journal = plan[w].new]_vars
    BY <1>1
  <1> QED
    BY <1>2, Invariance, PTL DEF Spec, PasswordsGoAfterFiles

=============================================================================

-------------------------- MODULE SystemProxyProofs --------------------------
(***************************************************************************)
(* Machine-checked facts about SystemProxy, for any services, settings,    *)
(* values, endpoints and hazards, and any number of faults and starts.     *)
(***************************************************************************)
EXTENDS SystemProxy, TLAPS

\* A transaction is the work of a process that lives, and what it has still to
\* write is in the image it writes from.
TodoInv ==
    /\ pc # "idle" => life # "down"
    /\ pc = "apply" => todo \subseteq DOMAIN journal.desired
    /\ pc \in {"undo", "release"} => todo \subseteq DOMAIN snapshot
    /\ pc = "recover" => todo \subseteq DOMAIN journal.original

\* Whatever we write, or are about to compare with, is an endpoint of ours.
OursInv ==
    /\ \A x \in DOMAIN journal.desired : journal.desired[x] \in Targets
    /\ \A x \in DOMAIN desired : desired[x] \in Targets
    /\ pc \in {"release", "recover"} => \A x \in todo : net[x] \in Targets

\* Nothing has happened that the code is known not to cope with.
Sound == met \cap Losing = {}

Held == DOMAIN journal.original

\* The settings a transaction does not hold are as the user chose them, and of
\* those it holds the journal says what the user chose.
JournalInv ==
    /\ \A x \in Slots \ Held : net[x] = user[x]
    /\ \A x \in Held : journal.original[x] = user[x]
    /\ DOMAIN journal.desired = Held
    /\ journal.original = Nothing => journal = NoJournal

\* How far the settings have got at each step of a transaction.
ProgressInv ==
    /\ ~failed
    /\ pc = "idle" => \A x \in Held : net[x] = journal.desired[x]
    /\ pc = "apply" => \A x \in Held \ todo : net[x] = journal.desired[x]
    /\ pc \in {"undo", "release", "recover"} =>
          \A x \in Held \ todo : net[x] = user[x]

\* What the process has in memory is what the journal has on disk.
MemoryInv ==
    /\ pc \in {"apply", "undo", "release"} =>
          snapshot = journal.original /\ snapshot # Nothing
    /\ pc = "recover" => ~applied /\ snapshot = Nothing
    /\ pc = "idle" /\ life # "down" =>
          IF applied THEN /\ snapshot = journal.original /\ snapshot # Nothing
                          /\ desired = journal.desired
                     ELSE journal = NoJournal /\ snapshot = Nothing

SafeInv == Sound => JournalInv /\ ProgressInv /\ MemoryInv

IInv == TypeOK /\ TodoInv /\ OursInv /\ SafeInv

-----------------------------------------------------------------------------
(* Images                                                                  *)

\* The empty image, and what networksetup says of some services, are images.
LEMMA ImageIntro ==
  /\ Nothing \in Images /\ DOMAIN Nothing = {}
  /\ NoJournal \in [original : Images, desired : Images]
  /\ \A R \in SUBSET Services : \A f \in [R \X Kinds -> Values] : f \in Images
  <1>1. \A R \in SUBSET Services : \A f \in [R \X Kinds -> Values] : f \in Images
    BY DEF Images
  <1>2. Nothing \in [{} \X Kinds -> Values]
    BY DEF Nothing
  <1>3. Nothing \in Images
    BY <1>1, <1>2
  <1> QED
    BY <1>1, <1>3 DEF Nothing, NoJournal

\* An image gives values to slots, and so does one of the same slots that sends
\* them all to one endpoint.
LEMMA ImageFacts ==
  ASSUME NEW f \in Images, NEW t \in Targets
  PROVE  /\ DOMAIN f \subseteq Slots
         /\ f = [x \in DOMAIN f |-> f[x]]
         /\ \A x \in DOMAIN f : f[x] \in Values
         /\ [x \in DOMAIN f |-> t] \in Images
  <1>1. PICK R \in SUBSET Services : f \in [R \X Kinds -> Values]
    BY DEF Images
  <1>2. [x \in R \X Kinds |-> t] \in [R \X Kinds -> Values]
    BY DEF Values
  <1>3. DOMAIN f = R \X Kinds
    BY <1>1
  <1> QED
    BY <1>1, <1>2, <1>3, ImageIntro DEF Slots

\* A reading is an image of what it reads.
LEMMA ReadFacts ==
  ASSUME net \in [Slots -> Values], NEW R \in Readable
  PROVE  /\ Read(R) \in Images
         /\ R \subseteq Services
         /\ DOMAIN Read(R) = R \X Kinds
         /\ \A x \in R \X Kinds : x \in Slots /\ Read(R)[x] = net[x]
  <1>1. R \in SUBSET Services
    BY DEF Readable, Sight
  <1>2. Read(R) = [x \in R \X Kinds |-> net[x]]
    BY DEF Read, Restrict
  <1>3. Read(R) \in [R \X Kinds -> Values]
    BY <1>1, <1>2 DEF Slots
  <1> QED
    BY <1>1, <1>2, <1>3, ImageIntro DEF Slots

-----------------------------------------------------------------------------
(* Types                                                                   *)

\* A fault is counted within its bound.
LEMMA FaultType ==
  ASSUME TypeOK, NEW h, Fault(h)
  PROVE  /\ met' = met \cup {h} /\ met' \subseteq Hazards
         /\ faults' \in 0 .. MaxFaults /\ starts' \in 0 .. MaxStarts
  BY ProxyAssumption DEF Fault, May, TypeOK, ProxyAssumption

\* A start that cannot read a service of its journal is counted, once, and any
\* other start counts no fault.
LEMMA BlindFacts ==
  ASSUME TypeOK, Start
  PROVE  \E R \in SUBSET Services :
            /\ \/ Recoverable(R) /\ pc' = "recover" /\ todo' = DOMAIN journal.original
               \/ ~Recoverable(R) /\ UNCHANGED <<pc, todo>>
            /\ \/ DOMAIN journal.original \subseteq R \X Kinds
                  /\ UNCHANGED <<met, faults>>
               \/ /\ met' = met \cup {"blind"} /\ met' \subseteq Hazards
                  /\ faults' \in 0 .. MaxFaults
  <1>1. PICK R \in Sight("blind") :
           /\ IF Recoverable(R)
              THEN pc' = "recover" /\ todo' = DOMAIN journal.original
              ELSE UNCHANGED <<pc, todo>>
           /\ BlindFault(R)
    BY DEF Start
  <1>2. R \in SUBSET Services
    BY <1>1 DEF Sight
  <1>3. CASE DOMAIN journal.original \subseteq R \X Kinds
    BY <1>1, <1>2, <1>3 DEF BlindFault
  <1>4. CASE ~(DOMAIN journal.original \subseteq R \X Kinds)
    <2>1. R # Services
      BY <1>4, ImageFacts, ProxyAssumption DEF TypeOK, Slots
    <2>2. May("blind")
      BY <1>1, <2>1 DEF Sight
    <2>3. faults' = faults + 1 /\ met' = met \cup {"blind"}
      BY <1>1, <1>4 DEF BlindFault
    <2>4. met' \subseteq Hazards /\ faults' \in 0 .. MaxFaults
      BY <2>2, <2>3, ProxyAssumption DEF May, TypeOK, ProxyAssumption
    <2> QED
      BY <1>1, <1>2, <2>3, <2>4
  <1> QED
    BY <1>3, <1>4

\* A restore writes a value of its image, and only to a slot it still has to do.
LEMMA RestoreType ==
  ASSUME TypeOK, NEW x \in Slots, NEW image \in Images,
         todo \subseteq DOMAIN image, Restore(x, image)
  PROVE  TypeOK' /\ todo' \subseteq todo
  <1>1. image[x] \in Values
    BY ImageFacts, ProxyAssumption DEF Restore, TypeOK, ProxyAssumption
  <1> QED
    BY <1>1, FaultType DEF Restore, TypeOK, inputs, controller, counters

\* The three outcomes of the first half of sync: a transaction is opened, or
\* opened again for another endpoint; there is nothing to hold; no journal.
Opens(R) ==
    /\ Original(R) # Nothing
    /\ applied => R = Services
    /\ snapshot' = Original(R)
    /\ journal' = [original |-> Original(R),
                   desired |-> [x \in DOMAIN Original(R) |-> target]]
    /\ pc' = "apply" /\ todo' = DOMAIN Original(R)
    /\ ReadFault(R)
    /\ UNCHANGED <<applied, appliedTarget, desired>>
FindsNothing(R) ==
    /\ Original(R) = Nothing /\ snapshot' = Nothing
    /\ ReadFault(R)
    /\ UNCHANGED <<journal, pc, todo, applied, appliedTarget, desired>>
JournalFails ==
    /\ Fault(IF applied THEN "journal_held" ELSE "journal")
    /\ Forget
    /\ applied' = FALSE /\ appliedTarget' = NoTarget
    /\ UNCHANGED <<journal, pc, todo>>

\* sync has no other outcome when the proxy is wanted and not there yet.
LEMMA BeginCases ==
  ASSUME BeginApply
  PROVE  \E R \in Readable : Opens(R) \/ FindsNothing(R) \/ JournalFails
  BY DEF BeginApply, Opens, FindsNothing, JournalFails

\* Every step of a sync, of the program's life and of the world around it keeps
\* the variables in their types, and writes only what its image says.
LEMMA TypeStep == TypeOK /\ TodoInv /\ [Next]_vars => TypeOK' /\ TodoInv'
  <1> SUFFICES ASSUME TypeOK, TodoInv, [Next]_vars
               PROVE  TypeOK' /\ TodoInv'
    OBVIOUS
  <1> USE ProxyAssumption DEF ProxyAssumption
  <1>1. Nothing \in Images /\ NoJournal \in [original : Images, desired : Images]
    BY ImageIntro
  <1>2. /\ journal.original \in Images /\ journal.desired \in Images
        /\ snapshot \in Images /\ desired \in Images
    BY DEF TypeOK
  <1>3. /\ DOMAIN snapshot \subseteq Slots
        /\ DOMAIN journal.original \subseteq Slots
    BY <1>2, ImageFacts DEF TypeOK
  <1>4. ASSUME NEW R \in Readable, ReadFault(R)
        PROVE  /\ met' \subseteq Hazards /\ faults' \in 0 .. MaxFaults
               /\ starts' \in 0 .. MaxStarts
    BY <1>4, FaultType DEF ReadFault, counters, TypeOK
  <1>5. CASE Idle /\ BeginApply /\ UNCHANGED life
    <2>1. /\ pc = "idle" /\ life = "up"
          /\ UNCHANGED <<net, user, life, inputs, failed>>
      BY <1>5 DEF BeginApply, Idle
    <2>2. PICK R \in Readable : Opens(R) \/ FindsNothing(R) \/ JournalFails
      BY <1>5, BeginCases
    <2>3. CASE Opens(R)
      <3>1. Original(R) \in Images
        BY <1>2, ReadFacts DEF Original, TypeOK
      <3>2. DOMAIN Original(R) \subseteq Slots
            /\ [x \in DOMAIN Original(R) |-> target] \in Images
        BY <3>1, ImageFacts DEF TypeOK
      <3> QED
        BY <1>4, <2>1, <2>3, <3>1, <3>2 DEF Opens, TypeOK, TodoInv, inputs
    <2>4. CASE FindsNothing(R)
      BY <1>1, <1>4, <2>1, <2>4 DEF FindsNothing, TypeOK, TodoInv, inputs
    <2>5. CASE JournalFails
      BY <1>1, <2>1, <2>5, FaultType
         DEF JournalFails, Forget, TypeOK, TodoInv, inputs
    <2> QED
      BY <2>2, <2>3, <2>4, <2>5
  <1>6. CASE Release /\ pc = "idle" /\ life # "down"
    <2>1. /\ UNCHANGED <<durable, inputs, appliedTarget, snapshot, desired, failed>>
          /\ \E R \in Readable : ReadFault(R)
      BY <1>6 DEF Release
    <2>2. \/ /\ pc' = "release" /\ todo' = DOMAIN snapshot
             /\ UNCHANGED <<applied, life>>
          \/ Refused
      BY <1>6 DEF Release
    <2>3. /\ pc' \in {pc, "release"} /\ todo' \subseteq Slots
          /\ applied' \in BOOLEAN /\ life' \in {"down", "up", "quitting"}
      BY <1>3, <2>2 DEF Refused, TypeOK
    <2>4. TypeOK'
      BY <1>4, <2>1, <2>3 DEF TypeOK, durable, inputs
    <2> QED
      BY <1>6, <2>1, <2>2, <2>4 DEF Refused, TodoInv
  <1>7. ASSUME NEW x \in Slots, Apply(x)
        PROVE  TypeOK' /\ TodoInv'
    <2>1. CASE /\ net' = [net EXCEPT ![x] = journal.desired[x]]
               /\ todo' = todo \ {x}
               /\ UNCHANGED <<pc, counters, journal, failed>>
      <3>1. journal.desired[x] \in Values
        BY <1>2, <1>7, ImageFacts DEF Apply, TodoInv, TypeOK
      <3>2. net' \in [Slots -> Values]
        BY <2>1, <3>1 DEF TypeOK
      <3> QED
        BY <1>7, <2>1, <3>2 DEF Apply, TypeOK, TodoInv, inputs, controller,
                                counters
    <2>2. CASE /\ Fault("command") /\ pc' = "undo" /\ todo' = DOMAIN snapshot
               /\ UNCHANGED <<net, journal, failed>>
      BY <1>3, <1>7, <2>2, FaultType
         DEF Apply, TypeOK, TodoInv, inputs, controller
    <2> QED
      BY <1>7, <2>1, <2>2 DEF Apply
  <1>8. ASSUME NEW x \in Slots, Undo(x) \/ ReleaseSlot(x) \/ Recover(x)
        PROVE  TypeOK' /\ TodoInv'
    BY <1>2, <1>8, RestoreType
       DEF Undo, ReleaseSlot, Recover, TodoInv, Restore, controller
  <1>9. CASE ApplyDone \/ UndoDone \/ ReleaseDone \/ RecoverDone
    BY <1>1, <1>2, <1>9
       DEF ApplyDone, UndoDone, ReleaseDone, RecoverDone, Finish, Forget, TypeOK,
           TodoInv, durable, inputs, controller, counters
  <1>10. CASE Toggle \/ Connection \/ Retarget
    BY <1>10 DEF Toggle, Connection, Retarget, TypeOK, TodoInv, durable,
                 controller, counters
  <1>11. CASE Quit
    BY <1>1, <1>11 DEF Quit, Vanish, Forget, Finish, TypeOK, TodoInv, durable,
                       controller, counters, Idle
  <1>12. CASE Start
    <2>1. /\ starts' \in 0 .. MaxStarts
          /\ UNCHANGED <<net, user, journal, target, failed>>
      BY <1>12 DEF Start, TypeOK, durable
    <2>6. met' \subseteq Hazards /\ faults' \in 0 .. MaxFaults
      BY <1>12, BlindFacts DEF TypeOK
    <2>2. \/ pc' = "recover" /\ todo' = DOMAIN journal.original
          \/ UNCHANGED <<pc, todo>>
      BY <1>12 DEF Start
    <2>3. /\ life' = "up" /\ on' \in BOOLEAN /\ conn' = FALSE
          /\ applied' = FALSE /\ appliedTarget' = NoTarget
          /\ snapshot' = Nothing /\ desired' = Nothing
      BY <1>12 DEF Start, Forget
    <2>4. TypeOK'
      <3>1. pc' \in {"idle", "apply", "undo", "release", "recover"}
            /\ todo' \subseteq Slots
        BY <1>3, <2>2 DEF TypeOK
      <3> QED
        BY <1>1, <2>1, <2>3, <2>6, <3>1 DEF TypeOK
    <2>5. pc = "idle"
      BY <1>12 DEF Start, TodoInv
    <2> QED
      BY <2>1, <2>2, <2>3, <2>4, <2>5 DEF TodoInv
  <1>13. CASE Die
    BY <1>1, <1>13, FaultType
       DEF Die, Vanish, Forget, Finish, TypeOK, TodoInv, durable
  <1>14. CASE SecondLaunch
    <2>1. \A x \in DOMAIN journal.original : journal.original[x] \in Values
      BY <1>2, ImageFacts DEF TypeOK
    <2>2. net' \in [Slots -> Values]
      BY <1>14, <2>1 DEF SecondLaunch, TypeOK
    <2> QED
      BY <1>1, <1>14, <2>2, FaultType
         DEF SecondLaunch, TypeOK, TodoInv, inputs, controller, Idle
  <1>15. ASSUME NEW x \in Slots, Edit(x)
         PROVE  TypeOK' /\ TodoInv'
    <2>1. met' \subseteq Hazards /\ faults' \in 0 .. MaxFaults
          /\ starts' \in 0 .. MaxStarts
      BY <1>15, FaultType DEF Edit
    <2> QED
      BY <1>15, <2>1 DEF Edit, TypeOK, TodoInv, inputs, controller, Values
  <1>16. CASE UNCHANGED vars
    BY <1>16 DEF vars, durable, inputs, controller, counters, TypeOK, TodoInv
  <1> QED
    BY <1>5, <1>6, <1>7, <1>8, <1>9, <1>10, <1>11, <1>12, <1>13, <1>14, <1>15,
       <1>16 DEF Next, Sync, Idle, Transaction, QuitRelease

-----------------------------------------------------------------------------
(* What is restored is ours                                                *)

\* Settings that match an image are the image's, slot by slot.
LEMMA OursFacts ==
  ASSUME NEW R, NEW image, NEW want, Ours(R, image, want)
  PROVE  /\ DOMAIN want = DOMAIN image
         /\ \A x \in DOMAIN image : net[x] = want[x]
  BY DEF Ours, Restrict

\* ... and conversely, when every service can be read.
LEMMA OursIntro ==
  ASSUME NEW image, NEW want \in Images, DOMAIN want = DOMAIN image,
         DOMAIN image \subseteq Slots, \A x \in DOMAIN image : net[x] = want[x],
         target \in Targets
  PROVE  Ours(Services, image, want)
  <1>1. want = [x \in DOMAIN want |-> want[x]]
    BY ImageFacts
  <1> QED
    BY <1>1 DEF Ours, Restrict, Slots

\* Every step of the controller leaves what it is about to restore holding what
\* we wrote.
LEMMA OursStep == IInv /\ [Next]_vars => OursInv'
  <1> SUFFICES ASSUME TypeOK, TodoInv, OursInv, [Next]_vars
               PROVE  OursInv'
    BY DEF IInv
  <1>1. DOMAIN Nothing = {}
    BY DEF Nothing
  <1>2. CASE Idle /\ BeginApply /\ UNCHANGED life
    <2>1. UNCHANGED net /\ target \in Targets /\ pc = "idle"
      BY <1>2 DEF BeginApply, TypeOK, Idle
    <2>2. PICK R \in Readable : Opens(R) \/ FindsNothing(R) \/ JournalFails
      BY <1>2, BeginCases
    <2> QED
      BY <1>1, <2>1, <2>2
         DEF Opens, FindsNothing, JournalFails, Forget, OursInv
  <1>3. CASE Release
    <2>1. UNCHANGED <<net, user, journal, desired>>
      BY <1>3 DEF Release, durable
    <2>2. CASE UNCHANGED <<pc, todo>>
      BY <2>1, <2>2 DEF OursInv
    <2>3. CASE /\ pc' = "release" /\ todo' = DOMAIN snapshot
               /\ \E R \in Readable : Ours(R, snapshot, desired)
      BY <2>1, <2>3, OursFacts DEF OursInv
    <2> QED
      BY <1>3, <2>2, <2>3 DEF Release, Refused
  <1>4. ASSUME NEW x \in Slots, Apply(x)
        PROVE  OursInv'
    BY <1>4 DEF Apply, OursInv, controller
  <1>5. ASSUME NEW x \in Slots, NEW image, Restore(x, image)
        PROVE  OursInv'
    <2>1. /\ todo' = todo \ {x} /\ UNCHANGED <<journal, desired, pc>>
          /\ \A y \in todo' : net'[y] = net[y]
      BY <1>5 DEF Restore, TypeOK, controller
    <2> QED
      BY <2>1 DEF OursInv
  <1>6. CASE ApplyDone \/ UndoDone \/ ReleaseDone \/ RecoverDone
    <2>1. pc' = "idle" /\ UNCHANGED net
      BY <1>6 DEF ApplyDone, UndoDone, ReleaseDone, RecoverDone, Finish, durable
    <2>2. journal' = journal \/ journal' = NoJournal
      BY <1>6 DEF ApplyDone, UndoDone, ReleaseDone, RecoverDone, durable
    <2>3. desired' \in {desired, journal.desired, Nothing}
      BY <1>6 DEF ApplyDone, UndoDone, ReleaseDone, RecoverDone, Forget,
                  controller
    <2> QED
      BY <1>1, <2>1, <2>2, <2>3 DEF OursInv, NoJournal
  <1>7. CASE Toggle \/ Connection \/ Retarget \/ UNCHANGED vars
    BY <1>7 DEF Toggle, Connection, Retarget, OursInv, durable, controller, vars
  <1>8. CASE Quit \/ Die
    <2>1. UNCHANGED <<net, journal>>
      BY <1>8 DEF Quit, Die, durable
    <2>2. \/ pc' = "idle" /\ desired' = Nothing
          \/ UNCHANGED <<pc, todo, desired>>
      BY <1>8 DEF Quit, Die, Vanish, Finish, Forget, controller
    <2> QED
      BY <1>1, <2>1, <2>2 DEF OursInv
  <1>9. CASE Start
    <2>1. UNCHANGED <<net, journal>> /\ desired' = Nothing
      BY <1>9 DEF Start, Forget, durable
    <2>2. CASE UNCHANGED <<pc, todo>>
      BY <1>1, <2>1, <2>2 DEF OursInv
    <2>3. CASE /\ pc' = "recover" /\ todo' = DOMAIN journal.original
               /\ \E R \in SUBSET Services : Recoverable(R)
      BY <1>1, <2>1, <2>3, OursFacts DEF OursInv, Recoverable
    <2> QED
      BY <1>9, <2>2, <2>3, BlindFacts
  <1>10. CASE SecondLaunch
    <2>1. pc' = "idle" /\ desired' = desired
      BY <1>10 DEF SecondLaunch, Idle, controller
    <2>2. journal' = journal \/ journal' = NoJournal
      BY <1>10 DEF SecondLaunch
    <2> QED
      BY <1>1, <2>1, <2>2 DEF OursInv, NoJournal
  <1>11. ASSUME NEW x \in Slots, Edit(x)
         PROVE  OursInv'
    BY <1>11 DEF Edit, OursInv, controller
  <1> QED
    BY <1>2, <1>3, <1>4, <1>5, <1>6, <1>7, <1>8, <1>9, <1>10, <1>11
       DEF Next, Sync, Transaction, QuitRelease, Undo, ReleaseSlot, Recover

-----------------------------------------------------------------------------
(* The journal knows the user's settings                                   *)

\* Hazards are only ever added to those met.
LEMMA MetGrows == TypeOK /\ [Next]_vars => met \subseteq met'
  <1>7. CASE Start
    BY <1>7 DEF Start, BlindFault
  <1> SUFFICES ASSUME [Next]_vars, met' # met, ~Start
               PROVE  \E h : Fault(h)
    BY <1>7 DEF Fault
  <1>1. \A R : ReadFault(R) => UNCHANGED met \/ Fault("unreadable")
    BY DEF ReadFault, counters
  <1>2. Sync \/ QuitRelease => \E h : Fault(h)
    BY <1>1 DEF Sync, QuitRelease, BeginApply, Release
  <1>3. ASSUME NEW x \in Slots,
               Apply(x) \/ Undo(x) \/ ReleaseSlot(x) \/ Recover(x) \/ Edit(x)
        PROVE  \E h : Fault(h)
    BY <1>3 DEF Apply, Undo, ReleaseSlot, Recover, Restore, Edit, counters
  <1>4. ~(ApplyDone \/ UndoDone \/ ReleaseDone \/ RecoverDone)
    BY DEF ApplyDone, UndoDone, ReleaseDone, RecoverDone, counters
  <1>5. ~(Toggle \/ Connection \/ Retarget \/ Quit \/ UNCHANGED vars)
    BY DEF Toggle, Connection, Retarget, Quit, counters, vars
  <1>6. Die \/ SecondLaunch => \E h : Fault(h)
    BY DEF Die, SecondLaunch
  <1> QED
    BY <1>2, <1>3, <1>4, <1>5, <1>6 DEF Next, Transaction

\* The first half of a sync writes a journal of the user's own settings: read
\* afresh when no transaction is open, and else as the open one read them.
LEMMA BeginSafe ==
  ASSUME IInv, JournalInv, ProgressInv, MemoryInv, Sound',
         Idle, BeginApply, UNCHANGED life
  PROVE  JournalInv' /\ ProgressInv' /\ MemoryInv'
  <1>1. UNCHANGED <<net, user, failed, life>> /\ pc = "idle" /\ life = "up"
    BY DEF BeginApply, Idle
  <1>2. \/ applied /\ snapshot = journal.original /\ snapshot # Nothing
                   /\ desired = journal.desired
        \/ ~applied /\ journal = NoJournal /\ snapshot = Nothing
    BY <1>1 DEF MemoryInv
  <1>3. PICK R \in Readable : Opens(R) \/ FindsNothing(R) \/ JournalFails
    BY BeginCases
  <1>4. DOMAIN Nothing = {} /\ NoJournal.original = Nothing
    BY DEF Nothing, NoJournal
  <1>5. CASE Opens(R)
    <2>1. /\ journal'.original = Original(R) /\ Original(R) # Nothing
          /\ journal'.desired = [x \in DOMAIN Original(R) |-> target]
          /\ snapshot' = Original(R) /\ pc' = "apply"
          /\ todo' = DOMAIN Original(R)
      BY <1>5 DEF Opens
    <2>2. CASE applied
      BY <1>1, <1>2, <2>1, <2>2
         DEF Original, JournalInv, ProgressInv, MemoryInv, Held
    <2>3. CASE ~applied
      <3>1. \A x \in Slots : net[x] = user[x]
        BY <1>2, <1>4, <2>3 DEF JournalInv, Held
      <3>2. \A x \in DOMAIN Original(R) : Original(R)[x] = user[x]
        BY <2>3, <3>1, ReadFacts DEF Original, IInv, TypeOK
      <3> QED
        BY <1>1, <2>1, <3>1, <3>2 DEF JournalInv, ProgressInv, MemoryInv, Held
    <2> QED
      BY <2>2, <2>3
  <1>6. CASE FindsNothing(R)
    <2>1. ~applied
      BY <1>2, <1>6 DEF FindsNothing, Original
    <2> QED
      BY <1>1, <1>2, <1>6, <2>1
         DEF FindsNothing, JournalInv, ProgressInv, MemoryInv, Held
  <1>7. CASE JournalFails
    <2>1. ~applied
      BY <1>7 DEF JournalFails, Fault, Sound, Losing
    <2> QED
      BY <1>1, <1>2, <1>7, <2>1
         DEF JournalFails, Forget, JournalInv, ProgressInv, MemoryInv, Held
  <1> QED
    BY <1>3, <1>5, <1>6, <1>7

\* A restore that does not fail gives one more slot back to the user.
LEMMA RestoreSafe ==
  ASSUME IInv, JournalInv, ProgressInv, MemoryInv, Sound', NEW x \in Slots,
         Undo(x) \/ ReleaseSlot(x) \/ Recover(x)
  PROVE  JournalInv' /\ ProgressInv' /\ MemoryInv'
  <1>1. /\ Restore(x, journal.original)
        /\ pc \in {"undo", "release", "recover"} /\ todo \subseteq Held
    BY DEF Undo, ReleaseSlot, Recover, MemoryInv, IInv, TodoInv, Held
  <1>2. /\ UNCHANGED <<user, journal, life, applied, snapshot, desired, pc>>
        /\ x \in todo /\ todo' = todo \ {x}
    BY <1>1 DEF Restore, controller
  <1>3. net' = [net EXCEPT ![x] = journal.original[x]] /\ failed' = failed
    BY <1>1 DEF Restore, Fault, Sound, Losing
  <1>4. net'[x] = user[x] /\ \A y \in Slots \ {x} : net'[y] = net[y]
    BY <1>1, <1>2, <1>3 DEF JournalInv, IInv, TypeOK
  <1>5. Held \subseteq Slots
    BY ImageFacts DEF IInv, TypeOK, Held
  <1>6. JournalInv'
    BY <1>1, <1>2, <1>4 DEF JournalInv, Held
  <1>7. ProgressInv'
    BY <1>1, <1>2, <1>3, <1>4, <1>5 DEF ProgressInv, Held
  <1> QED
    BY <1>1, <1>2, <1>6, <1>7 DEF MemoryInv

\* A transaction that has written all its slots leaves everything as we want it
\* or everything as the user does.
LEMMA DoneSafe ==
  ASSUME IInv, JournalInv, ProgressInv, MemoryInv,
         ApplyDone \/ UndoDone \/ ReleaseDone \/ RecoverDone
  PROVE  JournalInv' /\ ProgressInv' /\ MemoryInv'
  <1>1. ~failed /\ todo = {}
    BY DEF ProgressInv, ApplyDone, UndoDone, ReleaseDone, RecoverDone
  <1>2. UNCHANGED <<net, user>> /\ pc' = "idle" /\ ~failed'
    BY DEF ApplyDone, UndoDone, ReleaseDone, RecoverDone, Finish, durable
  <1>3. CASE ApplyDone
    BY <1>1, <1>2, <1>3 DEF ApplyDone, durable, JournalInv, ProgressInv,
                            MemoryInv, Held
  <1>4. CASE UndoDone \/ ReleaseDone \/ RecoverDone
    <2>1. \A x \in Slots : net[x] = user[x]
      BY <1>1, <1>4 DEF UndoDone, ReleaseDone, RecoverDone, ProgressInv,
                        JournalInv
    <2>2. journal' = NoJournal /\ ~applied' /\ snapshot' = Nothing
      BY <1>1, <1>4 DEF UndoDone, ReleaseDone, RecoverDone, MemoryInv, Forget,
                        controller
    <2>3. DOMAIN NoJournal.original = {} /\ DOMAIN NoJournal.desired = {}
      BY DEF NoJournal, Nothing
    <2> QED
      BY <1>2, <2>1, <2>2, <2>3 DEF JournalInv, ProgressInv, MemoryInv, Held
  <1> QED
    BY <1>3, <1>4

\* However the process goes away between two transactions, the next one to start
\* finds on disk a journal that matches what it finds in the settings, and if it
\* can read them it recovers.
LEMMA StartSafe ==
  ASSUME IInv, JournalInv, ProgressInv, MemoryInv, Sound', Start
  PROVE  JournalInv' /\ ProgressInv' /\ MemoryInv'
  <1>1. /\ UNCHANGED <<net, user, journal, failed>> /\ pc = "idle"
        /\ ~applied' /\ snapshot' = Nothing /\ life' = "up"
    BY DEF Start, Forget, IInv, TodoInv, durable
  <1>2. Ours(Services, journal.original, journal.desired)
    <2>1. /\ journal.desired \in Images /\ Held \subseteq Slots
          /\ target \in Targets
      BY ImageFacts DEF IInv, TypeOK, Held
    <2> QED
      BY <1>1, <2>1, OursIntro DEF JournalInv, ProgressInv, Held
  <1>5. PICK R \in SUBSET Services :
           /\ \/ Recoverable(R) /\ pc' = "recover" /\ todo' = Held
              \/ ~Recoverable(R) /\ UNCHANGED <<pc, todo>>
           /\ Held \subseteq R \X Kinds
    BY BlindFacts DEF IInv, Sound, Losing, Held
  <1>3. CASE journal = NoJournal
    BY <1>1, <1>3, <1>5 DEF Recoverable, JournalInv, ProgressInv, MemoryInv, Held
  <1>4. CASE journal # NoJournal
    <2>1. Recoverable(R)
      BY <1>2, <1>4, <1>5 DEF Recoverable, Ours, Held
    <2> QED
      BY <1>1, <1>4, <1>5, <2>1 DEF JournalInv, ProgressInv, MemoryInv, Held
  <1> QED
    BY <1>3, <1>4

\* Every step keeps the journal, the settings and the memory in agreement, as
\* long as nothing has happened that loses them.
LEMMA SafeStep == IInv /\ [Next]_vars => SafeInv'
  <1> SUFFICES ASSUME IInv, [Next]_vars, Sound'
               PROVE  JournalInv' /\ ProgressInv' /\ MemoryInv'
    BY DEF SafeInv
  <1>1. JournalInv /\ ProgressInv /\ MemoryInv
    BY MetGrows DEF IInv, SafeInv, Sound
  <1>2. \A h \in Losing : ~Fault(h)
    BY DEF Fault, Sound
  <1>3. CASE Idle /\ BeginApply /\ UNCHANGED life
    BY <1>1, <1>3, BeginSafe
  <1>4. CASE Release /\ pc = "idle" /\ life # "down"
    <2>1. /\ snapshot = journal.original /\ snapshot # Nothing /\ applied
          /\ desired = journal.desired
      BY <1>1, <1>4 DEF Release, MemoryInv
    <2>2. UNCHANGED <<net, user, journal, snapshot, desired, failed>>
      BY <1>4 DEF Release, durable
    <2>3. \/ /\ pc' = "release" /\ todo' = DOMAIN snapshot
             /\ UNCHANGED <<applied, life>>
          \/ pc' = "idle" /\ applied'
      BY <1>4 DEF Release, Refused
    <2> QED
      BY <1>1, <1>4, <2>1, <2>2, <2>3
         DEF JournalInv, ProgressInv, MemoryInv, Held
  <1>5. ASSUME NEW x \in Slots, Apply(x)
        PROVE  JournalInv' /\ ProgressInv' /\ MemoryInv'
    <2>1. /\ UNCHANGED <<user, journal, snapshot, life, failed>>
          /\ x \in todo /\ pc = "apply"
      BY <1>5 DEF Apply, controller
    <2>2. x \in Held /\ snapshot = journal.original /\ snapshot # Nothing
      BY <1>1, <2>1 DEF IInv, TodoInv, JournalInv, MemoryInv
    <2>3. CASE /\ net' = [net EXCEPT ![x] = journal.desired[x]]
               /\ todo' = todo \ {x} /\ pc' = pc
      <3>1. /\ net'[x] = journal.desired[x]
            /\ \A y \in Slots \ {x} : net'[y] = net[y]
        BY <2>3 DEF IInv, TypeOK
      <3>2. Held \subseteq Slots
        BY ImageFacts DEF IInv, TypeOK, Held
      <3> QED
        BY <1>1, <2>1, <2>2, <2>3, <3>1, <3>2
           DEF JournalInv, ProgressInv, MemoryInv, Held
    <2>4. CASE net' = net /\ todo' = DOMAIN snapshot /\ pc' = "undo"
      BY <1>1, <2>1, <2>2, <2>4 DEF JournalInv, ProgressInv, MemoryInv, Held
    <2> QED
      BY <1>5, <2>3, <2>4 DEF Apply
  <1>6. ASSUME NEW x \in Slots, Undo(x) \/ ReleaseSlot(x) \/ Recover(x)
        PROVE  JournalInv' /\ ProgressInv' /\ MemoryInv'
    BY <1>1, <1>6, RestoreSafe
  <1>7. CASE ApplyDone \/ UndoDone \/ ReleaseDone \/ RecoverDone
    BY <1>1, <1>7, DoneSafe
  <1>8. CASE Toggle \/ Connection \/ Retarget \/ UNCHANGED vars
    BY <1>1, <1>8 DEF Toggle, Connection, Retarget, vars, durable, controller,
                      JournalInv, ProgressInv, MemoryInv, Held
  <1>9. CASE Quit \/ Die
    <2>1. UNCHANGED <<net, user, journal>> /\ pc = "idle" /\ life = "up"
      BY <1>2, <1>9 DEF Quit, Die, Idle, durable, Losing
    <2>2. \/ life' = "down" /\ pc' = "idle" /\ ~failed'
          \/ /\ life' = "quitting"
             /\ UNCHANGED <<applied, snapshot, desired, pc, failed>>
      BY <1>9 DEF Quit, Die, Vanish, Finish, controller
    <2> QED
      BY <1>1, <2>1, <2>2 DEF JournalInv, ProgressInv, MemoryInv, Held
  <1>10. CASE Start
    BY <1>1, <1>10, StartSafe
  <1>11. CASE SecondLaunch
    BY <1>2, <1>11 DEF SecondLaunch, Losing
  <1>12. ASSUME NEW x \in Slots, Edit(x)
         PROVE  JournalInv' /\ ProgressInv' /\ MemoryInv'
    <2>1. /\ journal = NoJournal /\ pc = "idle"
          /\ UNCHANGED <<journal, life, applied, snapshot, desired, pc, failed>>
      BY <1>2, <1>12 DEF Edit, Losing, controller
    <2>2. PICK v : /\ net' = [net EXCEPT ![x] = v]
                   /\ user' = [user EXCEPT ![x] = v]
      BY <1>12 DEF Edit
    <2>3. Held = {} /\ Held' = {}
      BY <2>1 DEF Held, NoJournal, Nothing
    <2>4. \A y \in Slots : net'[y] = user'[y]
      BY <1>1, <2>2, <2>3 DEF JournalInv, IInv, TypeOK
    <2> QED
      BY <1>1, <2>1, <2>3, <2>4 DEF JournalInv, ProgressInv, MemoryInv
  <1> QED
    BY <1>3, <1>4, <1>5, <1>6, <1>7, <1>8, <1>9, <1>10, <1>11, <1>12
       DEF Next, Sync, Idle, Transaction, QuitRelease

-----------------------------------------------------------------------------
(* Theorems                                                                *)

\* The first start finds the user's settings and no journal.
LEMMA InitInv == Init => IInv
  <1> SUFFICES ASSUME Init
               PROVE  IInv
    OBVIOUS
  <1>1. TypeOK
    <2>1. 0 \in 0 .. MaxFaults /\ 0 \in 0 .. MaxStarts
      BY ProxyAssumption DEF ProxyAssumption
    <2>2. net \in [Slots -> Values] /\ user \in [Slots -> UserValues]
      BY DEF Init, Values
    <2> QED
      BY <2>1, <2>2, ImageIntro DEF Init, TypeOK
  <1>2. TodoInv /\ OursInv
    BY DEF Init, TodoInv, OursInv, NoJournal, Nothing
  <1>3. JournalInv /\ ProgressInv /\ MemoryInv
    BY DEF Init, JournalInv, ProgressInv, MemoryInv, Held, NoJournal, Nothing
  <1> QED
    BY <1>1, <1>2, <1>3 DEF IInv, SafeInv

\* IInv holds from the first start of the program on.
LEMMA Invariance == Spec => []IInv
  <1>1. IInv /\ [Next]_vars => IInv'
    BY TypeStep, OursStep, SafeStep DEF IInv
  <1> QED
    BY <1>1, InitInv, PTL DEF Spec

\* Through failing commands, services a sync cannot read, unwritten journals,
\* deaths between two syncs and edits of settings we do not hold, the journal says
\* of every setting that is not the user's what the user had there; not after a
\* hazard of Losing, a recovery that could not read a service among them.
THEOREM OriginalIsSafe == Spec => []OriginalSafe
  <1>1. IInv => OriginalSafe
    BY DEF IInv, SafeInv, Sound, JournalInv, Held, OriginalSafe
  <1> QED
    BY <1>1, Invariance, PTL

\* Whatever has happened, a release and the recovery at a start overwrite a
\* setting only while it holds an endpoint of ours.
THEOREM UserIsSpared == Spec => RestoreSparesUser
  <1> DEFINE Spares == \A x \in Slots :
                          pc \in {"release", "recover"} /\ net'[x] # net[x]
                             => net[x] \in Targets
  <1>1. IInv /\ [Next]_vars => Spares
    <2> SUFFICES ASSUME IInv, [Next]_vars, pc \in {"release", "recover"},
                        NEW x \in Slots, net'[x] # net[x]
                 PROVE  x \in todo
      BY DEF IInv, OursInv
    <2>1. ASSUME NEW y \in Slots, NEW image, Restore(y, image)
          PROVE  x \in todo
      BY <2>1 DEF Restore, IInv, TypeOK
    <2>2. ~Idle /\ ~QuitRelease /\ ~\E y \in Slots : Apply(y) \/ Edit(y)
      BY DEF Idle, QuitRelease, Apply, Edit
    <2>3. ~(ApplyDone \/ UndoDone \/ ReleaseDone \/ RecoverDone)
      BY DEF ApplyDone, UndoDone, ReleaseDone, RecoverDone, durable
    <2>4. ~(Start \/ Die \/ UNCHANGED vars)
      BY DEF Start, Die, vars, durable
    <2> QED
      BY <2>1, <2>2, <2>3, <2>4
         DEF Next, Sync, Transaction, Undo, ReleaseSlot, Recover, Toggle,
             Connection, Retarget, Quit, SecondLaunch
  <1>2. [][IInv /\ [Next]_vars]_vars => [][Spares]_vars
    BY <1>1, PTL
  <1> QED
    BY <1>1, Invariance, PTL DEF Spec, RestoreSparesUser

=============================================================================

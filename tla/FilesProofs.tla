----------------------------- MODULE FilesProofs -----------------------------
(***************************************************************************)
(* Machine-checked facts about what the program keeps in files it shares:  *)
(* the agents' settings (AgentSetup), for any models, addresses, tables of *)
(* rules and of roles and any number of edits, and the store of captured   *)
(* records (Capture), for any flows, answers and limits.                   *)
(***************************************************************************)
EXTENDS AgentSetup, Capture, FiniteSetTheorems, WellFoundedInduction, SequenceTheorems, TLAPS

-----------------------------------------------------------------------------
(* AgentSetup.                                                             *)

Rule     == [prefix: Tiers \cup {"any"}, to: Models]
Table    == [Roles -> Models \cup {None}]
Settings == [rules: Seq(Rule), default: Models \cup {None}, port: Ports]
Steps    == {"rules", "backup", "replace", "answer"}
Writing  == {"rules", "backup", "replace"}
Jobs     == [at: Steps, roles: Table, add: BOOLEAN, sp: Settings, new: Docs,
             first: BOOLEAN, already: BOOLEAN, ruled: BOOLEAN, touched: BOOLEAN]

\* The types of what TypeOK leaves out.
ShapeInv ==
    /\ sp \in Settings /\ served \in Seq(Rule)
    /\ job \in {NoJob} \cup Jobs
    /\ result \in {NoClaim} \cup [ok: {TRUE}, roles: Table, add: BOOLEAN]

\* Claude Code's file no longer tells whose it is.
Blurred == agent = "claude" /\ moved

\* A file that is not the user's points at the gateway where it is.
Ours(f) == agent = "claude" => f.points = sp.port

\* What a set-up writes is not the user's, and what it first writes over is.
JobKeeps ==
    /\ ~moved => job.sp.port = sp.port
    /\ job.at \in Writing =>
          /\ file.kind # "broken"
          /\ ~IsOwn(job.new) /\ Ours(job.new)
          /\ job.first <=> FirstWrite(Content(file))
    /\ job.at = "replace" /\ IsOwn(file) /\ file.kind # "absent" => bak = file

\* The user's last content is the file, as long as the file is the user's, and the
\* backup from then on.
KeptInv ==
    ~Blurred =>
        /\ IsOwn(own)
        /\ IsOwn(file) => own = file
        /\ ~IsOwn(file) => own = bak \/ own.kind = "absent"
        /\ ~IsOwn(file) => Ours(file)
        /\ IsOwn(bak)
        /\ ~Idle => JobKeeps

\* A tier's rule has the model that the table asks for.
Agrees(rules, t, model, add) ==
    LET i == Exact(rules, t)
    IN  IF i = 0 THEN ~add ELSE rules[i].to = model

\* What a set-up of Claude Code is about to claim: its rules agree with its table,
\* and are the saved ones until somebody else saves.
JobAgrees ==
    /\ \A t \in Tiers :
          job.roles[t] # None => Agrees(job.sp.rules, t, job.roles[t], job.add)
    /\ job.new.points = job.sp.port /\ job.new.slot = job.roles
    /\ job.at \in {"backup", "replace"} /\ ~job.touched => sp = job.sp

\* Nothing is claimed while a set-up writes, and a set-up that has written rules
\* has yet to have them loaded.
FaceInv ==
    /\ OkMeansBothFaces
    /\ ~Idle /\ agent = "claude" => JobAgrees
    /\ job.at \in Writing => ~result.ok
    /\ job.at = "rules" => ~job.ruled
    /\ served = sp.rules \/ (~Idle /\ job.ruled)

IInv == TypeOK /\ ShapeInv /\ KeptInv /\ FaceInv

-----------------------------------------------------------------------------
(* Rules                                                                   *)

\* A set of natural numbers has a least one: what Min chooses is among them.
LEMMA LeastOf ==
  ASSUME NEW T, T \subseteq Nat, T # {}
  PROVE  Min(T) \in T /\ \A n \in T : Min(T) <= n
  <1> DEFINE less == {p \in Nat \X Nat : p[1] < p[2]}
  <1>1. IsWellFoundedOn(less, Nat)
    BY NatLessThanWellFounded DEF OpToRel
  <1>2. PICK m \in T : \A n \in T : <<n, m>> \notin less
    BY <1>1, WFMin
  <1>3. ASSUME NEW n \in T
        PROVE  m <= n
    <2>1. <<n, m>> \notin less
      BY <1>2
    <2> QED
      BY <2>1
  <1> QED
    BY <1>2, <1>3 DEF Min

\* The rule of exactly a tier is the first with that prefix (_find_exact).
LEMMA ExactFacts ==
  ASSUME NEW rules \in Seq(Rule), NEW t
  PROVE  /\ Exact(rules, t) \in 0 .. Len(rules)
         /\ Exact(rules, t) = 0 => \A j \in 1 .. Len(rules) : rules[j].prefix # t
         /\ Exact(rules, t) # 0 =>
              /\ rules[Exact(rules, t)].prefix = t
              /\ \A j \in 1 .. Len(rules) :
                    rules[j].prefix = t => Exact(rules, t) <= j
  <1> DEFINE I == {i \in 1 .. Len(rules) : rules[i].prefix = t}
  <1>1. Exact(rules, t) = IF I # {} THEN Min(I) ELSE 0
    BY DEF Exact, SelectInSeq
  <1>2. I \subseteq Nat
    OBVIOUS
  <1>3. I # {} => Min(I) \in I /\ \A j \in I : Min(I) <= j
    BY <1>2, LeastOf
  <1> QED
    BY <1>1, <1>3

\* So is that of a tier alone or of any (first_tier_route).
LEMMA TierRouteType ==
  ASSUME NEW rules \in Seq(Rule), NEW t
  PROVE  TierRoute(rules, t) \in Models \cup {None}
  <1> DEFINE I == {i \in 1 .. Len(rules) : rules[i].prefix \in {t, "any"}}
             k == IF I # {} THEN Min(I) ELSE 0
  <1>1. TierRoute(rules, t) = IF k = 0 THEN None ELSE rules[k].to
    BY DEF TierRoute, SelectInSeq
  <1>2. I # {} => Min(I) \in I
    <2>1. I \subseteq Nat
      OBVIOUS
    <2> QED
      BY <2>1, LeastOf
  <1>3. k # 0 => k \in 1 .. Len(rules)
    BY <1>2
  <1>4. k # 0 => rules[k] \in Rule
    BY <1>3, ElementOfSeq
  <1> QED
    BY <1>1, <1>4 DEF Rule

\* An upsert makes its tier agree and leaves the others as they are
\* (_plan_rule_changes).
LEMMA UpsertFacts ==
  ASSUME NEW rules \in Seq(Rule), NEW t \in Tiers, NEW model \in Models \cup {None},
         NEW add \in BOOLEAN, None \notin Models
  PROVE  /\ Upsert(rules, t, model, add) \in Seq(Rule)
         /\ model # None => Agrees(Upsert(rules, t, model, add), t, model, add)
         /\ \A u \in Tiers \ {t}, m \in Models :
               Agrees(rules, u, m, add) => Agrees(Upsert(rules, t, model, add), u, m, add)
  <1> DEFINE i == Exact(rules, t)
             s == Upsert(rules, t, model, add)
  <1>1. CASE model = None
    BY <1>1 DEF Upsert
  <1>2. CASE model # None /\ i # 0
    <2>1. i \in 1 .. Len(rules) /\ rules[i].prefix = t
      BY <1>2, ExactFacts
    <2>2. s = [rules EXCEPT ![i].to = model]
      BY <1>2 DEF Upsert
    <2>3. rules[i] \in Rule /\ DOMAIN rules = 1 .. Len(rules)
      BY <2>1, ElementOfSeq
    <2>4. [rules[i] EXCEPT !.to = model] \in Rule
      BY <1>2, <2>3 DEF Rule
    <2>5. s = [rules EXCEPT ![i] = [rules[i] EXCEPT !.to = model]]
      BY <2>1, <2>2, <2>3
    <2>6. s \in Seq(Rule) /\ Len(s) = Len(rules)
      BY <2>1, <2>4, <2>5, ExceptSeq
    <2>7. \A j \in 1 .. Len(s) : s[j].prefix = rules[j].prefix
                                 /\ (j # i => s[j] = rules[j])
      BY <2>1, <2>3, <2>5, <2>6 DEF Rule
    <2>8. s[i].to = model
      BY <1>2, <2>1, <2>3, <2>5 DEF Rule
    <2> HIDE DEF s, i
    <2>9. ASSUME NEW u
          PROVE  Exact(s, u) = Exact(rules, u)
      BY <2>6, <2>7, ExactFacts
    <2>10. Agrees(s, t, model, add)
      BY <2>1, <2>8, <2>9 DEF Agrees, i
    <2>11. ASSUME NEW u \in Tiers \ {t}, NEW m \in Models, Agrees(rules, u, m, add)
           PROVE  Agrees(s, u, m, add)
      <3>1. CASE Exact(rules, u) = 0
        BY <2>9, <2>11, <3>1 DEF Agrees
      <3>2. CASE Exact(rules, u) # 0
        <4>1. Exact(rules, u) \in 1 .. Len(rules) /\ Exact(rules, u) # i
          BY <2>1, <3>2, ExactFacts
        <4> QED
          BY <2>6, <2>7, <2>9, <2>11, <3>2, <4>1 DEF Agrees
      <3> QED
        BY <3>1, <3>2
    <2> QED
      BY <2>6, <2>10, <2>11 DEF s
  <1>3. CASE model # None /\ i = 0 /\ ~add
    <2>1. s = rules
      BY <1>3 DEF Upsert
    <2> QED
      BY <1>3, <2>1 DEF Agrees
  <1>4. CASE model # None /\ i = 0 /\ add
    <2> DEFINE r == [prefix |-> t, to |-> model]
    <2>1. s = Append(rules, r)
      BY <1>4 DEF Upsert
    <2>2. r \in Rule
      BY <1>4 DEF Rule
    <2>0. r.prefix = t /\ r.to = model
      OBVIOUS
    <2> HIDE DEF r
    <2>3. /\ s \in Seq(Rule) /\ Len(s) = Len(rules) + 1
          /\ \A j \in 1 .. Len(rules) : s[j] = rules[j]
          /\ s[Len(rules) + 1] = r
      BY <2>1, <2>2, AppendProperties
    <2> HIDE DEF s
    <2>4. Exact(s, t) = Len(s)
      <3>1. \A j \in 1 .. Len(rules) : s[j].prefix # t
        BY <1>4, <2>3, ExactFacts
      <3> QED
        BY <2>0, <2>3, <3>1, ExactFacts
    <2>5. Agrees(s, t, model, add)
      BY <2>0, <2>3, <2>4 DEF Agrees
    <2>6. ASSUME NEW u \in Tiers \ {t}, NEW m \in Models, Agrees(rules, u, m, add)
          PROVE  Agrees(s, u, m, add)
      <3>1. Exact(rules, u) # 0 /\ rules[Exact(rules, u)].to = m
        BY <1>4, <2>6 DEF Agrees
      <3>2. Exact(rules, u) \in 1 .. Len(rules)
        BY <3>1, ExactFacts
      <3>3. Exact(s, u) = Exact(rules, u)
        <4>1. s[Exact(rules, u)].prefix = u
          BY <2>3, <3>1, <3>2, ExactFacts
        <4>2. \A j \in 1 .. Len(rules) : s[j].prefix = u => Exact(rules, u) <= j
          BY <2>3, <3>1, ExactFacts
        <4>3. Exact(s, u) # 0 /\ Exact(s, u) <= Exact(rules, u)
              /\ Exact(s, u) \in 1 .. Len(s) /\ s[Exact(s, u)].prefix = u
          BY <2>3, <3>2, <4>1, ExactFacts
        <4>4. Exact(s, u) \in 1 .. Len(rules)
          BY <2>3, <3>2, <4>3
        <4> QED
          BY <3>2, <4>2, <4>3, <4>4
      <3> QED
        BY <2>3, <3>1, <3>2, <3>3 DEF Agrees
    <2> QED
      BY <2>3, <2>5, <2>6 DEF s
  <1> QED
    BY <1>1, <1>2, <1>3, <1>4

\* The planned rules agree with the table.
LEMMA RulesAgree ==
  ASSUME sp \in Settings, NEW roles \in Table, NEW add \in BOOLEAN, None \notin Models
  PROVE  /\ NewRules(roles, add) \in Seq(Rule)
         /\ \A t \in Tiers :
               roles[t] # None => Agrees(NewRules(roles, add), t, roles[t], add)
  <1> DEFINE s == Upsert(sp.rules, "opus", roles["opus"], add)
  <1>1. sp.rules \in Seq(Rule)
    BY DEF Settings
  <1>2. /\ roles["opus"] \in Models \cup {None}
        /\ roles["haiku"] \in Models \cup {None}
    BY DEF Table, Roles, Tiers
  <1>3. s \in Seq(Rule) /\ (roles["opus"] # None => Agrees(s, "opus", roles["opus"], add))
    BY <1>1, <1>2, UpsertFacts DEF Tiers
  <1>4. NewRules(roles, add) = Upsert(s, "haiku", roles["haiku"], add)
    BY DEF NewRules
  <1> HIDE DEF s
  <1>5. "haiku" \in Tiers /\ "opus" \in Tiers \ {"haiku"}
    BY DEF Tiers
  <1>6. /\ NewRules(roles, add) \in Seq(Rule)
        /\ roles["haiku"] # None => Agrees(NewRules(roles, add), "haiku", roles["haiku"], add)
        /\ \A m \in Models : Agrees(s, "opus", m, add)
                                => Agrees(NewRules(roles, add), "opus", m, add)
    <2> DEFINE h == roles["haiku"]
               u == Upsert(s, "haiku", h, add)
    <2>1. h \in Models \cup {None}
      BY <1>2
    <2>2. NewRules(roles, add) = u
      BY <1>4
    <2> HIDE DEF h
    <2>3. /\ u \in Seq(Rule)
          /\ h # None => Agrees(u, "haiku", h, add)
      BY <1>3, <1>5, <2>1, UpsertFacts
    <2>4. \A m \in Models : Agrees(s, "opus", m, add) => Agrees(u, "opus", m, add)
      BY <1>3, <1>5, <2>1, UpsertFacts
    <2> HIDE DEF u
    <2> QED
      BY <2>2, <2>3, <2>4 DEF h
  <1> QED
    BY <1>2, <1>3, <1>6 DEF Tiers

-----------------------------------------------------------------------------
(* Files and plans                                                         *)

LEMMA BlankType == Blank \in Slots
  <1>1. NoEnv \in [Roles -> Models \cup {None}]
    BY DEF NoEnv
  <1>2. NoSlot \in [port: Ports \cup {None}, model: Models \cup {None}]
    BY DEF NoSlot
  <1> QED
    BY <1>1, <1>2 DEF Blank, Slots

\* What a file is taken for is a document; a document without ours is the user's.
LEMMA ContentFacts ==
  ASSUME NEW f \in Docs, agent \in Agents
  PROVE  /\ Content(f) \in Docs /\ Content(f).kind = "doc"
         /\ f.kind = "doc" => Content(f) = f
         /\ f.kind # "doc" => IsOwn(Content(f))
         /\ Absent \in Docs /\ IsOwn(Absent) /\ IsOwn(Content(Absent))
  <1>1. Blank \in Slots /\ 0 \in 0 .. MaxEdits
    BY BlankType, AgentAssumption DEF AgentAssumption
  <1>2. Doc("doc", Own, Blank, 0) \in Docs /\ Absent \in Docs
    BY <1>1 DEF Doc, Docs, Absent
  <1>3. Own \notin Ports /\ Own # OursID
    BY AgentAssumption DEF AgentAssumption, Own, OursID
  <1>4. agent = "opencode" => Blank = NoSlot
    BY DEF Blank
  <1>5. IsOwn(Doc("doc", Own, Blank, 0)) /\ IsOwn(Absent)
    BY <1>3, <1>4 DEF IsOwn, Doc, Absent, Agents
  <1>6. Content(f) = IF f.kind = "doc" THEN f ELSE Doc("doc", Own, Blank, 0)
    BY DEF Content
  <1>7. Doc("doc", Own, Blank, 0).kind = "doc" /\ Absent.kind = "absent"
    BY DEF Doc, Absent
  <1>8. Content(Absent) = Doc("doc", Own, Blank, 0)
    BY <1>7 DEF Content
  <1> QED
    BY <1>2, <1>5, <1>6, <1>7, <1>8

\* What a plan would write points at the gateway; a first write is one over the
\* user's content, as long as Claude Code's file tells whose it is.
LEMMA PlanFacts ==
  ASSUME TypeOK, ShapeInv, NEW roles \in Table, NEW add \in BOOLEAN
  PROVE  LET plan == Plan(roles, add)
         IN  /\ plan \in Jobs /\ plan.at \in {"rules", "backup"}
             /\ plan.roles = roles /\ plan.add = add
             /\ plan.sp = [sp EXCEPT !.rules = NewRules(roles, add)]
             /\ plan.at = "backup" => (agent = "claude" => plan.sp = sp)
             /\ ~IsOwn(plan.new) /\ plan.new.kind = "doc"
             /\ agent = "claude" => plan.new.points = sp.port /\ plan.new.slot = roles
             /\ plan.first = FirstWrite(Content(file))
             /\ ~plan.ruled /\ ~plan.touched
             /\ agent = "claude" => plan.already = Already(Content(file), roles, add)
  <1> DEFINE old == Content(file)
             new == CASE agent = "claude"   -> ClaudeDoc(old, roles)
                      [] agent = "codex"    -> CodexDoc(old)
                      [] agent = "opencode" -> ProviderDoc(old)
             rules == NewRules(roles, add)
  <1>0. agent \in Agents /\ file \in Docs /\ sp \in Settings
    BY DEF TypeOK, ShapeInv
  <1>1. old \in Docs /\ old.kind = "doc"
    BY <1>0, ContentFacts
  <1>2. None \notin Models /\ None \notin Ports /\ OursID \notin Ports
    BY AgentAssumption DEF AgentAssumption
  <1>3. rules \in Seq(Rule)
    BY <1>0, <1>2, RulesAgree
  <1>4. sp.port \in Ports /\ sp.default \in Models \cup {None} /\ sp.rules \in Seq(Rule)
    BY <1>0 DEF Settings
  <1>10. /\ agent = "claude" => roles \in Slots
         /\ agent # "claude" => Slot \in Slots
    BY <1>4 DEF Slots, Slot, Table
  <1>5. [sp EXCEPT !.rules = rules] \in Settings
        /\ (rules = sp.rules => [sp EXCEPT !.rules = rules] = sp)
    BY <1>0, <1>3 DEF Settings
  <1>6. /\ new \in Docs /\ ~IsOwn(new) /\ new.kind = "doc"
        /\ agent = "claude" => new.points = sp.port /\ new.slot = roles
    <2> HIDE DEF old
    <2>1. CASE agent = "claude"
      <3>1. new = [old EXCEPT !.points = sp.port, !.slot = roles]
        BY <2>1 DEF ClaudeDoc
      <3>2. new \in Docs /\ new.points = sp.port /\ new.kind = "doc" /\ new.slot = roles
        BY <1>1, <1>4, <1>10, <2>1, <3>1 DEF Docs
      <3> QED
        BY <1>4, <2>1, <3>2 DEF IsOwn
    <2>2. CASE agent = "codex"
      <3>1. new = [old EXCEPT !.points = OursID, !.slot = Slot]
        BY <2>2 DEF CodexDoc
      <3>2. new \in Docs /\ new.points = OursID /\ new.kind = "doc"
        BY <1>1, <1>10, <2>2, <3>1 DEF Docs
      <3> QED
        BY <2>2, <3>2 DEF IsOwn
    <2>3. CASE agent = "opencode"
      <3>1. new = [old EXCEPT !.slot = Slot]
        BY <2>3 DEF ProviderDoc
      <3>2. new \in Docs /\ new.slot = Slot /\ new.kind = "doc"
        BY <1>1, <1>10, <2>3, <3>1 DEF Docs
      <3>3. Slot # NoSlot
        BY <1>2, <1>4 DEF Slot, NoSlot
      <3> QED
        BY <2>3, <3>2, <3>3 DEF IsOwn
    <2> QED
      BY <1>0, <2>1, <2>2, <2>3 DEF Agents
  <1>7. FirstWrite(old) \in BOOLEAN /\ Already(old, roles, add) \in BOOLEAN
    BY <1>0 DEF FirstWrite, Already, Agents
  <1>8. Plan(roles, add) =
          [at      |-> IF agent = "claude" /\ rules # sp.rules THEN "rules" ELSE "backup",
           roles   |-> roles, add |-> add,
           sp      |-> [sp EXCEPT !.rules = rules],
           new     |-> new,
           first   |-> FirstWrite(old),
           already |-> IF agent = "claude" THEN Already(old, roles, add) ELSE new = old,
           ruled   |-> FALSE, touched |-> FALSE]
    BY DEF Plan
  <1> HIDE DEF old, new, rules
  <1>9. Plan(roles, add) \in Jobs
    <2> DEFINE at == IF agent = "claude" /\ rules # sp.rules THEN "rules" ELSE "backup"
               already == IF agent = "claude" THEN Already(old, roles, add) ELSE new = old
               settings == [sp EXCEPT !.rules = rules]
    <2>1. at \in Steps /\ already \in BOOLEAN /\ settings \in Settings
      BY <1>5, <1>7 DEF Steps
    <2> HIDE DEF at, already, settings
    <2>2. [at |-> at, roles |-> roles, add |-> add, sp |-> settings, new |-> new,
           first |-> FirstWrite(old), already |-> already, ruled |-> FALSE,
           touched |-> FALSE] \in Jobs
      BY <1>6, <1>7, <2>1 DEF Jobs
    <2> QED
      BY <1>8, <2>2 DEF at, already, settings
  <1> QED
    BY <1>5, <1>6, <1>7, <1>8, <1>9 DEF old, rules

\* Without a table the roles follow the rules.
LEMMA DerivedType == ASSUME sp \in Settings PROVE Derived \in Table
  <1>1. sp.rules \in Seq(Rule) /\ sp.default \in Models \cup {None}
    BY DEF Settings
  <1>2. \A t \in Tiers : TierRoute(sp.rules, t) \in Models \cup {None}
    BY <1>1, TierRouteType
  <1> QED
    BY <1>1, <1>2 DEF Derived, Table

\* What the user may make of the file (UserEdits).
LEMMA EditTypes ==
  ASSUME TypeOK, UserEdits
  PROVE  \E f \in Docs : Edit(f) /\ (IsOwn(f) \/ f = bak \/
             (f.kind = "doc" /\ file.kind = "doc" /\ f.points = file.points
              /\ ~IsOwn(file)))
  <1>0. agent \in Agents /\ file \in Docs /\ bak \in Docs /\ edits \in 0 .. MaxEdits
    BY DEF TypeOK
  <1>1. Content(file) \in Docs /\ Content(file).kind = "doc"
    BY <1>0, ContentFacts
  <1>2. Own \notin Ports /\ Own # OursID
    BY AgentAssumption DEF AgentAssumption, Own, OursID
  <1>3. edits + 1 \in 0 .. MaxEdits
    <2>1. edits < MaxEdits
      BY DEF UserEdits, Edit, Happens
    <2> QED
      BY <1>0, <2>1, AgentAssumption DEF AgentAssumption
  <1>4. Blank \in Slots /\ (agent = "opencode" => Blank = NoSlot)
    BY BlankType DEF Blank
  <1>5. ASSUME NEW f, Edit(f),
               f = [Content(file) EXCEPT
                      !.points = Own, !.user = edits + 1,
                      !.slot = IF agent = "codex" THEN @ ELSE Blank]
        PROVE  f \in Docs /\ IsOwn(f)
    <2>1. f \in Docs /\ f.points = Own /\ (agent = "opencode" => f.slot = Blank)
      BY <1>0, <1>1, <1>3, <1>4, <1>5 DEF Docs, Agents
    <2> QED
      BY <1>0, <1>2, <1>4, <2>1 DEF IsOwn, Agents
  <1>6. ASSUME NEW f, Edit(f), f = [Content(file) EXCEPT !.user = edits + 1]
        PROVE  /\ f \in Docs
               /\ IsOwn(f) \/ (/\ f.kind = "doc" /\ file.kind = "doc"
                               /\ f.points = file.points /\ ~IsOwn(file))
    <2>1. /\ f \in Docs /\ f.kind = "doc"
          /\ f.points = Content(file).points /\ f.slot = Content(file).slot
      BY <1>1, <1>3, <1>6 DEF Docs
    <2>2. IsOwn(f) <=> IsOwn(Content(file))
      BY <1>0, <1>1, <2>1 DEF IsOwn, Agents
    <2>3. ~IsOwn(Content(file)) => file.kind = "doc" /\ Content(file) = file
      BY <1>0, ContentFacts
    <2> QED
      BY <2>1, <2>2, <2>3
  <1>7. ASSUME NEW kind \in {"broken", "odd"}
        PROVE  /\ Doc(kind, Own, Blank, edits + 1) \in Docs
               /\ IsOwn(Doc(kind, Own, Blank, edits + 1))
    BY <1>3, <1>4 DEF Doc, Docs, IsOwn
  <1>8. Absent \in Docs /\ IsOwn(Absent)
    BY <1>0, ContentFacts
  <1> QED
    BY <1>0, <1>5, <1>6, <1>7, <1>8 DEF UserEdits

-----------------------------------------------------------------------------
(* Types                                                                   *)

\* A set-up that goes on is still one.
LEMMA JobFacts ==
  ASSUME ShapeInv
  PROVE  /\ ~Idle <=> job \in Jobs
         /\ Idle <=> job = NoJob
  BY DEF ShapeInv, Idle, NoJob, Jobs, Steps

LEMMA RequestTypes ==
  ASSUME TypeOK, ShapeInv, NEW roles \in Table, NEW add \in BOOLEAN,
         Request(roles, add)
  PROVE  ShapeInv'
  <1>1. Plan(roles, add) \in Jobs
    BY PlanFacts
  <1>2. Jobs' = Jobs
    BY DEF Request, Jobs, Docs, Slots, agentFiles
  <1>3. Claim(roles, add) \in [ok: {TRUE}, roles: Table, add: BOOLEAN]
    BY DEF Claim
  <1> HIDE DEF Plan, Claim
  <1>4. job' \in {NoJob} \cup Jobs
    BY <1>1 DEF Request
  <1> QED
    BY <1>2, <1>3, <1>4 DEF Request, ShapeInv

\* Every step keeps the variables in their types.
LEMMA TypeStep == TypeOK /\ ShapeInv /\ [Next]_vars => TypeOK' /\ ShapeInv'
  <1> SUFFICES ASSUME TypeOK, ShapeInv, [Next]_vars
               PROVE  TypeOK' /\ ShapeInv'
    OBVIOUS
  <1>1. agent' = agent
    BY DEF Next, vars, Setup, Request, PlanFails, Preview, WriteRules, RulesRefused,
           BackUp, BackUpFails, Replace, ReplaceFails, AnswerSetup, PutState, Crash,
           UserEdits, Edit
  <1>2. Docs' = Docs /\ Jobs' = Jobs
    BY <1>1 DEF Docs, Slots, Jobs
  <1>3. ShapeInv'
    <2>1. CASE \E roles \in RoleTables : Request(roles, TRUE)
      BY <2>1, RequestTypes, AgentAssumption DEF AgentAssumption, Table
    <2>2. CASE Request(Derived, FALSE)
      <3>1. Derived \in Table
        BY DerivedType DEF ShapeInv
      <3> QED
        BY <2>2, <3>1, RequestTypes
    <2>3. CASE PlanFails \/ Preview \/ UserEdits \/ RulesRefused
      BY <1>2, <2>3 DEF PlanFails, Preview, UserEdits, Edit, RulesRefused, ShapeInv
    <2>4. CASE WriteRules
      <3>1. job \in Jobs
        BY <2>4, JobFacts DEF WriteRules, Idle
      <3>2. job' \in Jobs /\ job.sp \in Settings
        BY <2>4, <3>1 DEF WriteRules, Jobs, Steps
      <3> QED
        BY <1>2, <2>4, <3>2 DEF WriteRules, ShapeInv
    <2>5. CASE BackUp \/ BackUpFails \/ ReplaceFails
      <3>1. job \in Jobs
        BY <2>5, JobFacts DEF BackUp, BackUpFails, ReplaceFails, Idle
      <3>2. job' \in Jobs
        BY <2>5, <3>1 DEF BackUp, BackUpFails, ReplaceFails, Jobs, Steps
      <3> QED
        BY <1>2, <2>5, <3>2 DEF BackUp, BackUpFails, ReplaceFails, ShapeInv
    <2>6. CASE Replace
      <3>1. job \in Jobs
        BY <2>6, JobFacts DEF Replace, Idle
      <3>2. job' \in Jobs /\ job.roles \in Table /\ job.add \in BOOLEAN
        BY <2>6, <3>1 DEF Replace, Jobs, Steps
      <3>3. Claim(job.roles, job.add) \in [ok: {TRUE}, roles: Table, add: BOOLEAN]
        BY <3>2 DEF Claim
      <3> QED
        BY <1>2, <2>6, <3>2, <3>3 DEF Replace, ShapeInv
    <2>7. CASE AnswerSetup \/ Crash
      <3>1. sp.rules \in Seq(Rule)
        BY DEF ShapeInv, Settings
      <3> QED
        BY <1>2, <2>7, <3>1 DEF AnswerSetup, Reloaded, Crash, ShapeInv
    <2>8. CASE PutState
      <3>1. PICK rules \in RuleTables, port \in Ports :
               /\ sp' = [sp EXCEPT !.rules = rules, !.port = port]
               /\ served' = rules
        BY <2>8 DEF PutState
      <3>2. rules \in Seq(Rule)
        BY AgentAssumption DEF AgentAssumption, Rule
      <3>3. sp' \in Settings
        BY <3>1, <3>2 DEF ShapeInv, Settings
      <3>4. job' \in {NoJob} \cup Jobs
        BY <2>8, JobFacts DEF PutState, ShapeInv, Jobs
      <3> QED
        BY <1>2, <2>8, <3>1, <3>2, <3>3, <3>4 DEF PutState, ShapeInv
    <2>9. CASE UNCHANGED vars
      BY <1>2, <2>9 DEF vars, ShapeInv
    <2> QED
      BY <2>1, <2>2, <2>3, <2>4, <2>5, <2>6, <2>7, <2>8, <2>9 DEF Next, Setup
  <1>4. /\ sp'.default \in Models \cup {None} /\ sp'.port \in Ports
        /\ job'.at \in {"idle", "rules", "backup", "replace", "answer"}
        /\ (~Idle => job.new \in Docs)'
        /\ result'.ok \in BOOLEAN
    <2>1. sp'.default \in Models \cup {None} /\ sp'.port \in Ports
      BY <1>3 DEF ShapeInv, Settings
    <2>2. ASSUME job' = NoJob
          PROVE  job'.at = "idle"
      BY <2>2 DEF NoJob
    <2>3. ASSUME job' \in Jobs
          PROVE  job'.at \in Steps /\ job'.new \in Docs
      BY <1>2, <2>3 DEF Jobs
    <2>4. result'.ok \in BOOLEAN
      <3>1. ASSUME result' = NoClaim
            PROVE  result'.ok \in BOOLEAN
        BY <3>1 DEF NoClaim
      <3>2. ASSUME result' \in [ok: {TRUE}, roles: Table, add: BOOLEAN]
            PROVE  result'.ok \in {TRUE}
        BY <3>2
      <3> QED
        BY <1>3, <3>1, <3>2 DEF ShapeInv
    <2> QED
      BY <1>2, <1>3, <2>1, <2>2, <2>3, <2>4 DEF ShapeInv, Idle, Steps
  <1>5. mp' \in {"plain", "token", "broken", "bare"}
    BY DEF TypeOK, LocalToken, Next, vars, Setup, Request, PlanFails, Preview,
           WriteRules, RulesRefused, BackUp, BackUpFails, Replace, ReplaceFails,
           AnswerSetup, PutState, Crash, UserEdits, Edit
  <1>6. edits' \in 0 .. MaxEdits
    <2>1. edits' = edits \/ Happens
      BY DEF Next, vars, Setup, Request, PlanFails, Preview,
             WriteRules, RulesRefused, BackUp, BackUpFails, Replace, ReplaceFails,
             AnswerSetup, PutState, Crash, UserEdits, Edit
    <2> QED
      BY <2>1, AgentAssumption DEF AgentAssumption, TypeOK, Happens
  <1>7. moved' \in BOOLEAN
    BY DEF TypeOK, Next, vars, Setup, Request, PlanFails, Preview,
           WriteRules, RulesRefused, BackUp, BackUpFails, Replace, ReplaceFails,
           AnswerSetup, PutState, Crash, UserEdits, Edit
  <1>8. {file', bak', own'} \subseteq Docs
    <2>1. CASE UserEdits
      <3>1. PICK f \in Docs : Edit(f)
        BY <2>1, EditTypes
      <3> QED
        BY <3>1 DEF Edit, TypeOK
    <2>2. CASE BackUp \/ BackUpFails
      BY <2>2 DEF BackUp, BackUpFails, TypeOK, Docs
    <2>3. CASE Replace
      BY <2>3 DEF Replace, TypeOK, Idle
    <2> QED
      BY <2>1, <2>2, <2>3
         DEF TypeOK, Next, vars, agentFiles, Setup, Request, PlanFails, Preview,
             WriteRules, RulesRefused, ReplaceFails, AnswerSetup, PutState, Crash
  <1>9. agent' \in Agents
    BY <1>1 DEF TypeOK
  <1> HIDE DEF Docs
  <1> QED
    BY <1>2, <1>3, <1>4, <1>5, <1>6, <1>7, <1>8, <1>9, Zenon DEF TypeOK

-----------------------------------------------------------------------------
(* The user's content                                                      *)

\* A first write is one over the user's content, and only that.
LEMMA FirstIsOwn ==
  ASSUME TypeOK, IsOwn(file) \/ Ours(file)
  PROVE  FirstWrite(Content(file)) <=> IsOwn(file)
  <1>1. agent \in Agents /\ file \in Docs /\ sp.port \in Ports
    BY DEF TypeOK
  <1>2. sp.port # Own /\ Own # OursID
    BY <1>1, AgentAssumption DEF AgentAssumption, Own, OursID
  <1>3. CASE file.kind = "doc"
    <2>1. Content(file) = file
      BY <1>3 DEF Content
    <2> QED
      BY <1>1, <1>3, <2>1 DEF FirstWrite, IsOwn, Ours, Agents
  <1>4. CASE file.kind # "doc"
    <2>1. Content(file) = Doc("doc", Own, Blank, 0)
      BY <1>4 DEF Content
    <2>2. /\ Content(file).points = Own /\ Content(file).slot = Blank
          /\ agent = "opencode" => Blank = NoSlot
      BY <2>1 DEF Doc, Blank
    <2> QED
      BY <1>1, <1>2, <1>4, <2>2 DEF FirstWrite, IsOwn, Agents
  <1> QED
    BY <1>3, <1>4

\* While the files and the address stay, only a job that begins has to be looked at.
LEMMA FilesStay ==
  ASSUME KeptInv, UNCHANGED <<agent, sp, file, bak, own, moved>>,
         ~Blurred /\ ~Idle' => JobKeeps'
  PROVE  KeptInv'
  BY DEF KeptInv, Blurred, IsOwn, Ours

LEMMA RequestKeeps ==
  ASSUME IInv, NEW roles \in Table, NEW add \in BOOLEAN, Request(roles, add)
  PROVE  KeptInv'
  <1> DEFINE plan == Plan(roles, add)
  <1>1. TypeOK /\ ShapeInv /\ KeptInv
    BY DEF IInv
  <1>2. /\ plan.at \in {"rules", "backup"}
        /\ plan.sp = [sp EXCEPT !.rules = NewRules(roles, add)]
        /\ ~IsOwn(plan.new) /\ (agent = "claude" => plan.new.points = sp.port)
        /\ plan.first = FirstWrite(Content(file))
    BY <1>1, PlanFacts
  <1>3. sp \in Settings
    BY <1>1 DEF ShapeInv
  <1>4. plan.sp.port = sp.port
    BY <1>2, <1>3 DEF Settings
  <1> HIDE DEF plan
  <1>5. ASSUME ~Idle'
        PROVE  JobKeeps'
    <2>1. job' = plan
      BY <1>5 DEF Request, Idle, NoJob, plan
    <2>2. UNCHANGED <<agent, sp, file, bak, own, moved>> /\ file.kind # "broken"
      BY DEF Request, agentFiles, Unplanned
    <2>3. FirstWrite(Content(file))' <=> FirstWrite(Content(file))
      BY <2>2 DEF FirstWrite, Content, Doc, Blank
    <2>4. ~IsOwn(job.new)'
      BY <1>2, <2>1, <2>2 DEF IsOwn
    <2> QED
      BY <1>2, <1>4, <2>1, <2>2, <2>3, <2>4 DEF JobKeeps, Ours, Writing
  <1> QED
    BY <1>1, <1>5, FilesStay DEF Request, agentFiles

\* The rules go to the address they were read with.
LEMMA WriteRulesKeeps == ASSUME IInv, WriteRules PROVE KeptInv'
  <1>1. TypeOK /\ ShapeInv /\ KeptInv
    BY DEF IInv
  <1>2. job \in Jobs /\ ~Idle
    BY <1>1, JobFacts DEF WriteRules, Idle
  <1>3. /\ UNCHANGED <<agent, file, bak, own, moved>> /\ sp' = job.sp
        /\ job'.at = "backup" /\ job'.sp = job.sp /\ job'.new = job.new
        /\ job'.first = job.first /\ job.at = "rules"
    BY <1>2 DEF WriteRules, agentFiles, Jobs
  <1>4. CASE ~Blurred
    <2>1. JobKeeps
      BY <1>1, <1>2, <1>4 DEF KeptInv
    <2>2. agent = "claude" => sp'.port = sp.port
      BY <1>3, <1>4, <2>1 DEF JobKeeps, Blurred
    <2>3. FirstWrite(Content(file))' <=> FirstWrite(Content(file))
      BY <1>1, <1>3, <2>2 DEF FirstWrite, Content, Doc, Blank, TypeOK, Agents
    <2>4. /\ file'.kind # "broken" /\ ~IsOwn(job.new)' /\ Ours(job.new)'
          /\ (job.first <=> FirstWrite(Content(file)))'
      BY <1>3, <2>1, <2>2, <2>3 DEF JobKeeps, Writing, IsOwn, Ours
    <2>5. JobKeeps'
      BY <1>3, <2>4 DEF JobKeeps
    <2> QED
      BY <1>1, <1>3, <1>4, <2>2, <2>5 DEF KeptInv, IsOwn, Ours
  <1>5. CASE Blurred
    BY <1>3, <1>5 DEF KeptInv, Blurred
  <1> QED
    BY <1>4, <1>5

\* A backup is of the user's content, and a set-up's answer is past all of it.
LEMMA BackUpKeeps == ASSUME IInv, BackUp \/ BackUpFails PROVE KeptInv'
  <1>1. TypeOK /\ ShapeInv /\ KeptInv
    BY DEF IInv
  <1>2. job \in Jobs /\ ~Idle
    BY <1>1, JobFacts DEF BackUp, BackUpFails, Idle
  <1>3. /\ UNCHANGED <<agent, file, sp, own, moved>>
        /\ job'.sp = job.sp /\ job'.new = job.new /\ job'.first = job.first
        /\ job.at = "backup"
    BY <1>2 DEF BackUp, BackUpFails, agentFiles, Jobs
  <1>4. CASE Blurred
    BY <1>3, <1>4 DEF KeptInv, Blurred
  <1>5. CASE ~Blurred
    <2>1. /\ IsOwn(own) /\ (IsOwn(file) => own = file) /\ IsOwn(bak)
          /\ ~IsOwn(file) => own = bak \/ own.kind = "absent"
          /\ ~IsOwn(file) => Ours(file)
          /\ JobKeeps
      BY <1>1, <1>2, <1>5 DEF KeptInv
    <2>2. job.first <=> IsOwn(file)
      BY <1>1, <1>3, <2>1, FirstIsOwn DEF JobKeeps, Writing
    <2>3. /\ IsOwn(file)' <=> IsOwn(file)
          /\ IsOwn(own)' <=> IsOwn(own)
          /\ FirstWrite(Content(file))' <=> FirstWrite(Content(file))
      BY <1>3 DEF IsOwn, FirstWrite, Content, Doc, Blank
    <2>4. IsOwn(bak)' /\ (~IsOwn(file) => bak' = bak)
      <3>1. CASE BackUp
        BY <1>3, <2>1, <2>2, <3>1 DEF BackUp, IsOwn
      <3>2. CASE BackUpFails
        <4>1. [bak EXCEPT !.kind = "broken"].kind = "broken"
          BY <1>1 DEF TypeOK, Docs
        <4> QED
          BY <1>3, <2>1, <2>2, <3>2, <4>1 DEF BackUpFails, IsOwn
      <3> QED
        BY <3>1, <3>2
    <2>5. JobKeeps'
      <3>1. CASE BackUp
        <4>1. job'.at = "replace" /\ (IsOwn(file) /\ file.kind # "absent" => bak' = file)
          BY <1>2, <2>2, <3>1 DEF BackUp, Jobs
        <4>2. /\ file'.kind # "broken" /\ ~IsOwn(job.new)' /\ Ours(job.new)'
              /\ (job.first <=> FirstWrite(Content(file)))'
          BY <1>3, <2>1, <2>3 DEF JobKeeps, Writing, IsOwn, Ours
        <4> QED
          BY <1>3, <2>1, <2>3, <4>1, <4>2 DEF JobKeeps
      <3>2. CASE BackUpFails
        <4>1. job'.at = "answer"
          BY <1>2, <3>2 DEF BackUpFails, Jobs
        <4> QED
          BY <1>3, <2>1, <4>1 DEF JobKeeps, Writing
      <3> QED
        BY <3>1, <3>2
    <2> QED
      BY <1>3, <2>1, <2>3, <2>4, <2>5 DEF KeptInv, Ours
  <1> QED
    BY <1>4, <1>5

\* What is written over was the user's only if it has been backed up.
LEMMA ReplaceKeeps == ASSUME IInv, Replace \/ ReplaceFails PROVE KeptInv'
  <1>1. TypeOK /\ ShapeInv /\ KeptInv
    BY DEF IInv
  <1>2. job \in Jobs /\ ~Idle
    BY <1>1, JobFacts DEF Replace, ReplaceFails, Idle
  <1>3. /\ UNCHANGED <<agent, bak, sp, own, moved>> /\ job.at = "replace"
        /\ job'.sp = job.sp /\ job'.at = "answer"
        /\ file' = file \/ file' = job.new
    BY <1>2 DEF Replace, ReplaceFails, agentFiles, Jobs
  <1>4. CASE Blurred
    BY <1>3, <1>4 DEF KeptInv, Blurred
  <1>5. CASE ~Blurred
    <2>1. /\ IsOwn(own) /\ (IsOwn(file) => own = file) /\ IsOwn(bak)
          /\ ~IsOwn(file) => own = bak \/ own.kind = "absent"
          /\ ~IsOwn(file) => Ours(file)
          /\ JobKeeps
      BY <1>1, <1>2, <1>5 DEF KeptInv
    <2>2. JobKeeps'
      BY <1>3, <2>1 DEF JobKeeps, Writing
    <2>3. CASE file' = file
      BY <1>3, <2>1, <2>2, <2>3 DEF KeptInv, IsOwn, Ours
    <2>4. CASE file' = job.new
      <3>1. ~IsOwn(file)' /\ Ours(file)'
        BY <1>3, <2>1, <2>4 DEF JobKeeps, Writing, IsOwn, Ours
      <3>2. own = bak \/ own.kind = "absent"
        BY <1>3, <2>1 DEF JobKeeps
      <3> QED
        BY <1>3, <2>1, <2>2, <3>1, <3>2 DEF KeptInv, IsOwn
    <2> QED
      BY <1>3, <2>3, <2>4
  <1> QED
    BY <1>4, <1>5

\* Another address only blurs Claude Code's file.
LEMMA PutStateKeeps == ASSUME IInv, PutState PROVE KeptInv'
  <1>1. TypeOK /\ ShapeInv /\ KeptInv
    BY DEF IInv
  <1>2. /\ UNCHANGED <<agent, file, bak, own>>
        /\ moved => moved'
        /\ ~moved' => sp'.port = sp.port
    <2>1. PICK rules \in RuleTables, port \in Ports :
             /\ sp' = [sp EXCEPT !.rules = rules, !.port = port]
             /\ moved' = (moved \/ port # sp.port)
      BY DEF PutState
    <2> QED
      BY <1>1, <2>1 DEF PutState, agentFiles, ShapeInv, Settings
  <1>3. Idle' <=> Idle
    BY <1>1, JobFacts DEF PutState, Idle, Jobs, NoJob, Steps
  <1>4. ~Idle => /\ job'.at = job.at /\ job'.sp = job.sp /\ job'.new = job.new
                 /\ job'.first = job.first
    BY <1>1, JobFacts DEF PutState, Jobs
  <1>5. CASE Blurred'
    BY <1>5 DEF KeptInv
  <1>6. CASE ~Blurred'
    <2>1. ~Blurred /\ (agent = "claude" => sp'.port = sp.port)
      BY <1>2, <1>6 DEF Blurred
    <2>2. FirstWrite(Content(file))' <=> FirstWrite(Content(file))
      BY <1>1, <1>2, <2>1 DEF FirstWrite, Content, Doc, Blank, TypeOK, Agents
    <2>3. ASSUME ~Idle
          PROVE  JobKeeps'
      <3>1. JobKeeps
        BY <1>1, <2>1, <2>3 DEF KeptInv
      <3>2. job.at \in Writing =>
              /\ file'.kind # "broken" /\ ~IsOwn(job.new)' /\ Ours(job.new)'
              /\ (job.first <=> FirstWrite(Content(file)))'
        BY <1>2, <1>4, <2>1, <2>2, <2>3, <3>1 DEF JobKeeps, IsOwn, Ours
      <3>3. (IsOwn(file) <=> IsOwn(file))' /\ (IsOwn(file)' <=> IsOwn(file))
        BY <1>2 DEF IsOwn
      <3> QED
        BY <1>2, <1>4, <2>3, <3>1, <3>2, <3>3 DEF JobKeeps
    <2> QED
      BY <1>1, <1>2, <1>3, <2>1, <2>3 DEF KeptInv, IsOwn, Ours
  <1> QED
    BY <1>5, <1>6

\* Whatever the user writes is the user's, but for another setting in a file of ours.
LEMMA EditKeeps == ASSUME IInv, UserEdits PROVE KeptInv'
  <1>1. TypeOK /\ ShapeInv /\ KeptInv
    BY DEF IInv
  <1>2. PICK f \in Docs :
          /\ Edit(f)
          /\ \/ IsOwn(f) \/ f = bak
             \/ /\ f.kind = "doc" /\ file.kind = "doc" /\ f.points = file.points
                /\ ~IsOwn(file)
    BY <1>1, EditTypes
  <1>3. /\ UNCHANGED <<agent, bak, sp, moved, job>> /\ file' = f
        /\ own' = IF IsOwn(f) THEN f ELSE own
        /\ ~Idle => job.at = "answer"
    BY <1>2 DEF Edit
  <1>4. CASE Blurred
    BY <1>3, <1>4 DEF KeptInv, Blurred
  <1>5. CASE ~Blurred
    <2>1. /\ IsOwn(own) /\ (IsOwn(file) => own = file) /\ IsOwn(bak)
          /\ ~IsOwn(file) => own = bak \/ own.kind = "absent"
          /\ ~IsOwn(file) => Ours(file)
          /\ ~Idle => JobKeeps
      BY <1>1, <1>5 DEF KeptInv
    <2>2. ~Idle' => JobKeeps'
      BY <1>3, <2>1 DEF JobKeeps, Idle, Writing
    <2>3. IsOwn(f) <=> IsOwn(file)'
      BY <1>3 DEF IsOwn
    <2>4. IsOwn(own)' /\ IsOwn(bak)'
      BY <1>3, <2>1 DEF IsOwn
    <2>5. CASE IsOwn(f)
      BY <1>3, <2>2, <2>3, <2>4, <2>5 DEF KeptInv
    <2>6. CASE ~IsOwn(f)
      <3>1. f.points = file.points /\ ~IsOwn(file)
        BY <1>2, <2>1, <2>6
      <3>2. Ours(file)'
        BY <1>3, <2>1, <3>1 DEF Ours
      <3> QED
        BY <1>3, <2>1, <2>2, <2>3, <2>4, <2>6, <3>1, <3>2 DEF KeptInv
    <2> QED
      BY <2>5, <2>6
  <1> QED
    BY <1>4, <1>5

LEMMA KeptStep == ASSUME IInv, [Next]_vars PROVE KeptInv'
  <1>1. TypeOK /\ ShapeInv /\ KeptInv
    BY DEF IInv
  <1>2. CASE Setup
    <2>1. CASE PlanFails
      BY <1>1, <2>1, FilesStay DEF PlanFails, agentFiles, Idle
    <2>2. ASSUME NEW roles \in RoleTables, Request(roles, TRUE)
          PROVE  KeptInv'
      BY <2>2, RequestKeeps, AgentAssumption DEF AgentAssumption, Table
    <2>3. CASE Request(Derived, FALSE)
      BY <1>1, <2>3, DerivedType, RequestKeeps DEF ShapeInv
    <2> QED
      BY <1>2, <2>1, <2>2, <2>3 DEF Setup
  <1>3. CASE Preview
    BY <1>1, <1>3, FilesStay DEF Preview, agentFiles, Idle
  <1>4. CASE RulesRefused \/ AnswerSetup \/ Crash
    <2>1. job' = NoJob
      BY <1>4 DEF RulesRefused, AnswerSetup, Crash
    <2>2. Idle'
      BY <2>1 DEF Idle, NoJob
    <2> QED
      BY <1>1, <1>4, <2>2, FilesStay DEF RulesRefused, AnswerSetup, Crash, agentFiles
  <1>5. CASE UNCHANGED vars
    BY <1>1, <1>5 DEF vars, agentFiles, KeptInv, Blurred, IsOwn, Ours, JobKeeps, Idle,
                      FirstWrite, Content, Doc, Blank
  <1> QED
    BY <1>2, <1>3, <1>4, <1>5, WriteRulesKeeps, BackUpKeeps, ReplaceKeeps,
       PutStateKeeps, EditKeeps DEF Next

-----------------------------------------------------------------------------
(* What a set-up claims                                                    *)

\* A claim is judged by Claude Code's file and the saved rules alone.
LEMMA ClaimStays ==
  ASSUME OkMeansBothFaces, UNCHANGED <<agent, result, file, sp>>
  PROVE  OkMeansBothFaces'
  BY DEF OkMeansBothFaces

LEMMA NoClaimHolds == ASSUME ~result'.ok PROVE OkMeansBothFaces'
  BY DEF OkMeansBothFaces

\* Where a table and rules agree, and the file has the table, the claim is true.
LEMMA ClaimHolds ==
  ASSUME NEW roles \in Table, NEW add \in BOOLEAN, result' = Claim(roles, add),
         agent' = "claude" => /\ file'.points = sp'.port
                              /\ \A r \in Roles : roles[r] # None => file'.slot[r] = roles[r]
                              /\ \A t \in Tiers : roles[t] # None
                                    => Agrees(sp'.rules, t, roles[t], add)
  PROVE  OkMeansBothFaces'
  <1>1. result'.roles = roles /\ result'.add = add
    BY DEF Claim
  <1>2. ASSUME NEW r \in Tiers, agent' = "claude", roles[r] # None
        PROVE  LET i == Exact(sp'.rules, r)
               IN  IF i = 0 THEN ~add ELSE sp'.rules[i].to = roles[r]
    BY <1>2 DEF Agrees
  <1> QED
    BY <1>1, <1>2 DEF OkMeansBothFaces

LEMMA RequestAgrees ==
  ASSUME IInv, NEW roles \in Table, NEW add \in BOOLEAN, Request(roles, add)
  PROVE  FaceInv'
  <1> DEFINE plan == Plan(roles, add)
             old  == Content(file)
  <1>1. TypeOK /\ ShapeInv /\ FaceInv
    BY DEF IInv
  <1>2. /\ plan \in Jobs /\ plan.at \in {"rules", "backup"}
        /\ plan.roles = roles /\ plan.add = add
        /\ plan.sp = [sp EXCEPT !.rules = NewRules(roles, add)]
        /\ plan.at = "backup" => (agent = "claude" => plan.sp = sp)
        /\ agent = "claude" => plan.new.points = sp.port /\ plan.new.slot = roles
        /\ ~plan.ruled
        /\ agent = "claude" => plan.already = Already(old, roles, add)
    BY <1>1, PlanFacts
  <1>3. sp \in Settings /\ None \notin Models /\ sp.port # Own
    BY <1>1, AgentAssumption DEF ShapeInv, Settings, AgentAssumption
  <1>4. plan.sp.port = sp.port /\ plan.sp.rules = NewRules(roles, add)
    BY <1>2, <1>3 DEF Settings
  <1>5. \A t \in Tiers : roles[t] # None => Agrees(NewRules(roles, add), t, roles[t], add)
    BY <1>3, RulesAgree
  <1> HIDE DEF plan
  <1>6. /\ UNCHANGED <<agent, sp, served, file>> /\ job.at = "idle"
        /\ job' = IF plan.already THEN NoJob ELSE plan
        /\ result' = IF plan.already THEN Claim(roles, add) ELSE NoClaim
    BY DEF Request, agentFiles, Idle, plan
  <1>7. served = sp.rules
    BY <1>1, <1>6 DEF FaceInv, Idle
  <1>8. CASE plan.already
    <2>1. job'.at = "idle"
      BY <1>6, <1>8 DEF NoJob
    <2>2. ASSUME agent = "claude"
          PROVE  /\ file.points = sp.port
                 /\ \A r \in Roles : roles[r] # None => file.slot[r] = roles[r]
                 /\ \A t \in Tiers : roles[t] # None => Agrees(sp.rules, t, roles[t], add)
      <3>1. /\ old.points = sp.port
            /\ \A r \in Roles : roles[r] # None => old.slot[r] = roles[r]
            /\ NewRules(roles, add) = sp.rules
        BY <1>2, <1>8, <2>2 DEF Already
      <3>2. old = file
        BY <1>3, <3>1 DEF Content, Doc
      <3> QED
        BY <1>5, <3>1, <3>2
    <2>3. OkMeansBothFaces'
      BY <1>6, <1>8, <2>2, ClaimHolds
    <2> QED
      BY <1>6, <1>7, <2>1, <2>3 DEF FaceInv, Idle, Writing
  <1>9. CASE ~plan.already
    <2>1. job' = plan /\ ~result'.ok
      BY <1>6, <1>9 DEF NoClaim
    <2>2. agent' = "claude" => JobAgrees'
      <3> SUFFICES ASSUME agent = "claude"
                   PROVE  JobAgrees'
        BY <1>6
      <3>1. \A t \in Tiers : job'.roles[t] # None
               => Agrees(job'.sp.rules, t, job'.roles[t], job'.add)
        BY <1>2, <1>4, <1>5, <2>1
      <3>2. \A t \in Tiers : job'.roles[t] # None
               => Agrees(job.sp.rules, t, job.roles[t], job.add)'
        BY <3>1
      <3> QED
        BY <1>2, <1>4, <1>6, <2>1, <3>2 DEF JobAgrees
    <2> QED
      BY <1>2, <1>6, <1>7, <2>1, <2>2, NoClaimHolds DEF FaceInv
  <1> QED
    BY <1>8, <1>9

\* Steps that leave the files and the rules that are saved alone.
LEMMA WritingAgrees ==
  ASSUME IInv, WriteRules \/ BackUp \/ BackUpFails \/ ReplaceFails
  PROVE  FaceInv'
  <1>1. TypeOK /\ ShapeInv /\ FaceInv
    BY DEF IInv
  <1>2. job \in Jobs /\ ~Idle
    BY <1>1, JobFacts DEF WriteRules, BackUp, BackUpFails, ReplaceFails, Idle
  <1>3. /\ UNCHANGED <<agent, file, served, result>> /\ job.at \in Writing
        /\ job'.sp = job.sp /\ job'.new = job.new /\ job'.roles = job.roles
        /\ job'.add = job.add /\ job'.touched = job.touched
        /\ job'.at \in {"backup", "replace", "answer"}
        /\ \/ job.at = "rules" /\ job'.ruled /\ sp' = job.sp /\ job'.at = "backup"
           \/ job.at # "rules" /\ job'.ruled = job.ruled /\ sp' = sp
    BY <1>2 DEF WriteRules, BackUp, BackUpFails, ReplaceFails, agentFiles, Jobs, Writing
  <1>4. ~result'.ok
    BY <1>1, <1>3 DEF FaceInv
  <1>5. agent' = "claude" => JobAgrees'
    <2> SUFFICES ASSUME agent = "claude"
                 PROVE  JobAgrees'
      BY <1>3
    <2>1. JobAgrees
      BY <1>1, <1>2 DEF FaceInv
    <2>2. \A t \in Tiers : job'.roles[t] # None
             => Agrees(job.sp.rules, t, job.roles[t], job.add)'
      BY <1>3, <2>1 DEF JobAgrees
    <2>3. job'.at \in {"backup", "replace"} /\ ~job'.touched => sp' = job'.sp
      BY <1>3, <2>1 DEF JobAgrees, Writing
    <2> QED
      BY <1>3, <2>1, <2>2, <2>3 DEF JobAgrees
  <1>6. ~Idle' /\ (served' = sp'.rules \/ job'.ruled)
    BY <1>1, <1>3 DEF FaceInv, Idle
  <1> QED
    BY <1>3, <1>4, <1>5, <1>6, NoClaimHolds DEF FaceInv

\* A set-up claims what it has planned, if nobody has saved since.
LEMMA ReplaceAgrees == ASSUME IInv, Replace PROVE FaceInv'
  <1>1. TypeOK /\ ShapeInv /\ FaceInv
    BY DEF IInv
  <1>2. job \in Jobs /\ ~Idle
    BY <1>1, JobFacts DEF Replace, Idle
  <1>3. /\ UNCHANGED <<agent, sp, served>> /\ job.at = "replace" /\ file' = job.new
        /\ job'.sp = job.sp /\ job'.new = job.new /\ job'.roles = job.roles
        /\ job'.add = job.add /\ job'.at = "answer" /\ job'.ruled = job.ruled
        /\ result' = IF job.touched THEN NoClaim ELSE Claim(job.roles, job.add)
    BY <1>2 DEF Replace, agentFiles, Jobs
  <1>4. job.roles \in Table /\ job.add \in BOOLEAN
    BY <1>2 DEF Jobs
  <1>5. agent = "claude" => JobAgrees
    BY <1>1, <1>2 DEF FaceInv
  <1>6. OkMeansBothFaces'
    <2>1. CASE job.touched
      BY <1>3, <2>1, NoClaimHolds DEF NoClaim
    <2>2. CASE ~job.touched
      <3>1. ASSUME agent = "claude"
            PROVE  /\ file'.points = sp'.port
                   /\ \A r \in Roles : job.roles[r] # None => file'.slot[r] = job.roles[r]
                   /\ \A t \in Tiers : job.roles[t] # None
                         => Agrees(sp'.rules, t, job.roles[t], job.add)
        BY <1>3, <1>5, <2>2, <3>1 DEF JobAgrees
      <3> QED
        BY <1>3, <1>4, <2>2, <3>1, ClaimHolds
    <2> QED
      BY <2>1, <2>2
  <1>7. agent' = "claude" => JobAgrees'
    <2> SUFFICES ASSUME agent = "claude"
                 PROVE  JobAgrees'
      BY <1>3
    <2>1. \A t \in Tiers : job'.roles[t] # None
             => Agrees(job.sp.rules, t, job.roles[t], job.add)'
      BY <1>3, <1>5 DEF JobAgrees
    <2> QED
      BY <1>3, <1>5, <2>1 DEF JobAgrees
  <1>8. ~Idle' /\ (served' = sp'.rules \/ job'.ruled)
    BY <1>1, <1>3 DEF FaceInv, Idle
  <1> QED
    BY <1>3, <1>6, <1>7, <1>8 DEF FaceInv, Writing

\* A save withdraws what was claimed, and so does an edit.
LEMMA OthersAgree ==
  ASSUME IInv, PutState \/ UserEdits
  PROVE  FaceInv'
  <1>1. TypeOK /\ ShapeInv /\ FaceInv
    BY DEF IInv
  <1>2. agent' = agent /\ ~result'.ok
    <2>1. ~NoClaim.ok
      BY DEF NoClaim
    <2>2. agent' = agent /\ result' = NoClaim
      BY DEF PutState, UserEdits, Edit
    <2> QED
      BY <2>1, <2>2
  <1>3. Idle' <=> Idle
    BY <1>1, JobFacts DEF PutState, UserEdits, Edit, Idle, Jobs, NoJob, Steps
  <1>4. ~Idle => /\ job'.at = job.at /\ job'.sp = job.sp /\ job'.new = job.new
                 /\ job'.roles = job.roles /\ job'.add = job.add
                 /\ job'.ruled = job.ruled
                 /\ job'.touched \/ (job'.touched = job.touched /\ sp' = sp)
    BY <1>1, JobFacts DEF PutState, UserEdits, Edit, Jobs
  <1>5. \/ UNCHANGED <<sp, served>>
        \/ served' = sp'.rules
    <2>1. CASE PutState
      <3>1. PICK rules \in RuleTables, port \in Ports :
               sp' = [sp EXCEPT !.rules = rules, !.port = port] /\ served' = rules
        BY <2>1 DEF PutState
      <3> QED
        BY <1>1, <3>1 DEF ShapeInv, Settings
    <2> QED
      BY <2>1 DEF UserEdits, Edit
  <1>6. ~Idle' /\ agent' = "claude" => JobAgrees'
    <2> SUFFICES ASSUME ~Idle, agent = "claude"
                 PROVE  JobAgrees'
      BY <1>2, <1>3
    <2>1. JobAgrees
      BY <1>1 DEF FaceInv
    <2>2. \A t \in Tiers : job'.roles[t] # None
             => Agrees(job.sp.rules, t, job.roles[t], job.add)'
      BY <1>4, <2>1 DEF JobAgrees
    <2> QED
      BY <1>4, <2>1, <2>2 DEF JobAgrees
  <1>7. job'.at = "rules" => ~job'.ruled
    BY <1>1, <1>3, <1>4 DEF FaceInv, Idle
  <1>8. served' = sp'.rules \/ (~Idle' /\ job'.ruled)
    BY <1>1, <1>3, <1>4, <1>5 DEF FaceInv
  <1> QED
    BY <1>2, <1>6, <1>7, <1>8, NoClaimHolds DEF FaceInv

LEMMA FaceStep == ASSUME IInv, [Next]_vars PROVE FaceInv'
  <1>1. TypeOK /\ ShapeInv /\ FaceInv
    BY DEF IInv
  <1>2. ASSUME NEW roles \in RoleTables, Request(roles, TRUE)
        PROVE  FaceInv'
    BY <1>2, RequestAgrees, AgentAssumption DEF AgentAssumption, Table
  <1>3. CASE Request(Derived, FALSE)
    BY <1>1, <1>3, DerivedType, RequestAgrees DEF ShapeInv
  <1>4. CASE PlanFails
    BY <1>1, <1>4, NoClaimHolds DEF PlanFails, agentFiles, FaceInv, Idle, NoClaim, Writing
  <1>5. CASE Preview \/ UNCHANGED vars
    <2>1. UNCHANGED <<agent, result, file, sp, served, job>>
      BY <1>5 DEF Preview, vars, agentFiles
    <2>2. JobAgrees' <=> JobAgrees
      BY <2>1 DEF JobAgrees
    <2>3. OkMeansBothFaces'
      BY <1>1, <2>1, ClaimStays DEF FaceInv
    <2> QED
      BY <1>1, <2>1, <2>2, <2>3 DEF FaceInv, Idle
  <1>6. CASE RulesRefused \/ AnswerSetup \/ Crash
    <2>1. job'.at = "idle" /\ UNCHANGED <<agent, sp, file>>
      BY <1>6 DEF RulesRefused, AnswerSetup, Crash, NoJob, agentFiles
    <2>2. served' = sp'.rules
      BY <1>1, <1>6 DEF RulesRefused, AnswerSetup, Reloaded, Crash, FaceInv
    <2>3. OkMeansBothFaces'
      BY <1>1, <1>6, <2>1, NoClaimHolds, ClaimStays
         DEF RulesRefused, AnswerSetup, Crash, FaceInv, NoClaim
    <2> QED
      BY <2>1, <2>2, <2>3 DEF FaceInv, Idle, Writing
  <1> QED
    BY <1>2, <1>3, <1>4, <1>5, <1>6, WritingAgrees, ReplaceAgrees, OthersAgree
       DEF Next, Setup

-----------------------------------------------------------------------------
(* The invariant and what it says                                          *)

LEMMA InitInv == Init => IInv
  <1> SUFFICES ASSUME Init
               PROVE  IInv
    OBVIOUS
  <1>1. PICK rules \in RuleTables, m \in Models \cup {None}, p \in Ports :
           sp = [rules |-> rules, default |-> m, port |-> p]
    BY DEF Init
  <1>2. sp \in Settings /\ served \in Seq(Rule)
    BY <1>1, AgentAssumption DEF Init, Settings, Rule, AgentAssumption
  <1>3. job.at = "idle" /\ job = NoJob /\ result = NoClaim
    BY DEF Init, NoJob
  <1>4. ~result.ok /\ result.ok \in BOOLEAN
    BY <1>3 DEF NoClaim
  <1>5. agent \in Agents
    BY DEF Init
  <1>6. Blank \in Slots /\ 0 \in 0 .. MaxEdits
    BY BlankType, AgentAssumption DEF AgentAssumption
  <1>7. Absent \in Docs
    BY <1>6 DEF Absent, Doc, Docs
  <1>8. /\ Content(Absent) \in Docs /\ IsOwn(Absent) /\ IsOwn(Content(Absent))
    BY <1>5, <1>7, ContentFacts
  <1>9. TypeOK
    BY <1>2, <1>3, <1>4, <1>5, <1>6, <1>7, <1>8 DEF TypeOK, Init, Settings, Idle
  <1>10. ShapeInv
    BY <1>2, <1>3 DEF ShapeInv
  <1>11. KeptInv
    BY <1>3, <1>8 DEF KeptInv, Init, Idle
  <1>12. FaceInv
    BY <1>3, <1>4 DEF FaceInv, Init, Idle, Writing, OkMeansBothFaces
  <1> QED
    BY <1>9, <1>10, <1>11, <1>12 DEF IInv

LEMMA Invariance == Spec => []IInv
  <1>1. IInv /\ [Next]_vars => IInv'
    BY TypeStep, KeptStep, FaceStep DEF IInv
  <1> QED
    BY <1>1, InitInv, PTL DEF Spec

\* Whatever fails and however often the user goes back and forth, the user's last
\* content of the agent's file is in the file or in the backup.
THEOREM UserContentSurvives == Spec => []UserStateKept
  <1>1. IInv => UserStateKept
    BY DEF IInv, KeptInv, Blurred, UserStateKept
  <1> QED
    BY <1>1, Invariance, PTL

\* A set-up that says it succeeded leaves the agent's file and the gateway's rules
\* in agreement, and the gateway serves the rules that are saved.
THEOREM BothFacesAgree == Spec => []FacesAgree
  <1>1. IInv => FacesAgree
    BY DEF IInv, FaceInv, FacesAgree, GatewayHasRules
  <1> QED
    BY <1>1, Invariance, PTL

-----------------------------------------------------------------------------
(* Capture: sums over the files of a store.                                *)

\* Among subsets of a finite set, one that loses its place among them with any
\* of its elements.
LEMMA SmallestSet ==
  ASSUME NEW D, IsFiniteSet(D), NEW B, B \subseteq SUBSET D, B # {}
  PROVE  \E s \in B : \A x \in s : s \ {x} \notin B
  <1>1. IsWellFoundedOn(StrictSubsetOrdering(D), SUBSET D)
    BY FS_StrictSubsetOrderingWellFounded, FS_FiniteSubsetsOfFinite
  <1>2. PICK s \in B : \A t \in B : <<t, s>> \notin StrictSubsetOrdering(D)
    BY <1>1, WFMin, Zenon
  <1>3. ASSUME NEW x \in s, s \ {x} \in B
        PROVE  FALSE
    <2>1. <<s \ {x}, s>> \in StrictSubsetOrdering(D)
      BY <1>3 DEF StrictSubsetOrdering
    <2> QED
      BY <1>2, <1>3, <2>1
  <1> QED
    BY <1>3

\* The sum's recursive function, over some of the sets of names.
Chosen(s) == CHOOSE x \in s : TRUE
Sums(it, fs, L) ==
    it = [s \in L |-> IF s = {} THEN 0
                      ELSE fs[Chosen(s)].size + it[s \ {Chosen(s)}]]

SumsFor(it, fs, D) == Sums(it, fs, SUBSET D)

LEMMA TotalIs ==
  ASSUME NEW fs
  PROVE  Total(fs) = (CHOOSE it : SumsFor(it, fs, DOMAIN fs))[DOMAIN fs]
  BY DEF Total, MapThenSumSet, MapThenFoldSet, SumsFor, Sums, Chosen

Summand(it, fs, s) ==
    IF s = {} THEN 0 ELSE fs[Chosen(s)].size + it[s \ {Chosen(s)}]

LEMMA SumsOf ==
  ASSUME NEW it, NEW fs, NEW L
  PROVE  Sums(it, fs, L) <=> it = [s \in L |-> Summand(it, fs, s)]
  BY DEF Sums, Summand

\* One over smaller sets makes one over those that are larger by an element.
LEMMA SumsGrow ==
  ASSUME NEW fs, NEW it, NEW L, NEW U, L \subseteq U, Sums(it, fs, L),
         \A s \in U : s # {} => s \ {Chosen(s)} \in L
  PROVE  \E jt : Sums(jt, fs, U)
  <1> DEFINE jt == [s \in U |-> Summand(it, fs, s)]
  <1>1. it = [s \in L |-> Summand(it, fs, s)]
    BY SumsOf
  <1>2. ASSUME NEW s \in U
        PROVE  Summand(it, fs, s) = Summand(jt, fs, s)
    <2>1. \A t \in L : jt[t] = it[t]
      BY <1>1
    <2> HIDE DEF jt
    <2> QED
      BY <2>1 DEF Summand
  <1>3. jt = [s \in U |-> Summand(jt, fs, s)]
    <2>1. jt = [s \in U |-> Summand(it, fs, s)]
      OBVIOUS
    <2> HIDE DEF jt
    <2> QED
      BY <1>2, <2>1
  <1> HIDE DEF jt
  <1> QED
    BY <1>3, SumsOf

\* There is one over all of them.
LEMMA SumsExist ==
  ASSUME NEW fs, NEW D, IsFiniteSet(D)
  PROVE  \E it : Sums(it, fs, SUBSET D)
  <1> DEFINE Upto(k) == {s \in SUBSET D : Cardinality(s) <= k}
             Bad == {k \in Nat : ~\E it : Sums(it, fs, Upto(k))}
  <1>0. \A s \in SUBSET D : IsFiniteSet(s) /\ Cardinality(s) \in Nat
    BY FS_Subset, FS_CardinalityType
  <1>1. 0 \notin Bad
    <2> DEFINE it == [s \in Upto(0) |-> 0]
    <2>1. \A s \in Upto(0) : s = {}
      BY <1>0, FS_EmptySet
    <2>2. Sums(it, fs, Upto(0))
      BY <2>1 DEF Sums
    <2> QED
      BY <2>2
  <1>2. ASSUME NEW k \in Nat, k \notin Bad
        PROVE  k + 1 \notin Bad
    <2>1. PICK it : Sums(it, fs, Upto(k))
      BY <1>2
    <2>2. ASSUME NEW s \in Upto(k + 1), s # {}
          PROVE  s \ {Chosen(s)} \in Upto(k)
      <3>1. Chosen(s) \in s
        BY <2>2 DEF Chosen
      <3>2. Cardinality(s \ {Chosen(s)}) = Cardinality(s) - 1
        BY <1>0, <3>1, FS_RemoveElement
      <3> QED
        BY <1>0, <3>2
    <2>3. Upto(k) \subseteq Upto(k + 1)
      BY <1>0
    <2> HIDE DEF Upto
    <2>4. \E jt : Sums(jt, fs, Upto(k + 1))
      BY <2>1, <2>2, <2>3, SumsGrow
    <2> QED
      BY <2>4
  <1>3. Bad = {}
    <2> SUFFICES ASSUME Bad # {}
                 PROVE  FALSE
      OBVIOUS
    <2>0. Bad \subseteq Nat
      OBVIOUS
    <2> HIDE DEF Bad
    <2>1. PICK m \in Bad : \A n \in Bad : m <= n
      BY <2>0, LeastOf
    <2>2. m # 0 /\ m \in Nat
      BY <1>1, <2>0, <2>1
    <2>3. m - 1 \in Nat /\ m - 1 \notin Bad
      BY <2>1, <2>2
    <2>4. (m - 1) + 1 \notin Bad
      BY <1>2, <2>3
    <2> QED
      BY <2>1, <2>2, <2>4
  <1>4. Upto(Cardinality(D)) = SUBSET D
    BY FS_Subset
  <1>5. Cardinality(D) \in Nat
    BY FS_CardinalityType
  <1> QED
    BY <1>3, <1>4, <1>5

\* What the recursive function has for the sum of a set.
Entries(fs, D) == \A n \in D : fs[n].size \in Nat

LEMMA SumsFacts ==
  ASSUME NEW fs, NEW D, IsFiniteSet(D), Entries(fs, D),
         NEW it, SumsFor(it, fs, D)
  PROVE  /\ \A s \in SUBSET D : it[s] \in Nat
         /\ \A s \in SUBSET D : \A x \in s : it[s] = fs[x].size + it[s \ {x}]
  <1>1. /\ it[{}] = 0
        /\ \A s \in SUBSET D : s # {} => /\ Chosen(s) \in s
                                         /\ it[s] = fs[Chosen(s)].size + it[s \ {Chosen(s)}]
    BY DEF SumsFor, Sums, Chosen
  <1>2. ASSUME NEW s \in SUBSET D
        PROVE  it[s] \in Nat
    <2> DEFINE B == {t \in SUBSET D : it[t] \notin Nat}
    <2> SUFFICES ASSUME B # {}
                 PROVE  FALSE
      OBVIOUS
    <2>1. PICK t \in B : \A x \in t : t \ {x} \notin B
      <3> HIDE DEF B
      <3>1. B \subseteq SUBSET D
        BY DEF B
      <3> QED
        BY <3>1, SmallestSet
    <2>2. t # {}
      <3>1. it[t] \notin Nat
        BY <2>1
      <3>2. it[{}] = 0
        BY <1>1
      <3>3. it[{}] \in Nat
        BY <3>2
      <3> HIDE DEF B
      <3> QED
        BY <3>1, <3>3, Zenon
    <2>3. Chosen(t) \in t /\ Chosen(t) \in D
      BY <1>1, <2>2
    <2>4. it[t \ {Chosen(t)}] \in Nat
      BY <2>1, <2>3
    <2>5. it[t] = fs[Chosen(t)].size + it[t \ {Chosen(t)}]
      BY <1>1, <2>2
    <2> QED
      BY <2>3, <2>4, <2>5 DEF Entries
  <1>3. ASSUME NEW s \in SUBSET D, NEW x \in s
        PROVE  it[s] = fs[x].size + it[s \ {x}]
    <2> DEFINE B == {t \in SUBSET D : \E y \in t : it[t] # fs[y].size + it[t \ {y}]}
    <2> SUFFICES ASSUME B # {}
                 PROVE  FALSE
      OBVIOUS
    <2>1. PICK t \in B : \A y \in t : t \ {y} \notin B
      <3> HIDE DEF B
      <3>1. B \subseteq SUBSET D
        BY DEF B
      <3> QED
        BY <3>1, SmallestSet
    <2>2. PICK y \in t : it[t] # fs[y].size + it[t \ {y}]
      OBVIOUS
    <2> DEFINE c == Chosen(t)
    <2>3. c \in t /\ it[t] = fs[c].size + it[t \ {c}]
      BY <1>1, <2>2
    <2>4. c # y
      BY <2>2, <2>3
    <2>5. \A z \in t : t \ {z} \in SUBSET D
      OBVIOUS
    <2>6. it[t \ {c}] = fs[y].size + it[(t \ {c}) \ {y}]
      BY <2>1, <2>3, <2>4, <2>5
    <2>7. it[t \ {y}] = fs[c].size + it[(t \ {y}) \ {c}]
      BY <2>1, <2>3, <2>4, <2>5
    <2>8. (t \ {c}) \ {y} = (t \ {y}) \ {c}
      OBVIOUS
    <2>9. fs[c].size \in Nat /\ fs[y].size \in Nat /\ it[(t \ {y}) \ {c}] \in Nat
      BY <1>2, <2>3 DEF Entries
    <2> DEFINE rest == it[(t \ {y}) \ {c}]
    <2>10. /\ it[t] = fs[c].size + (fs[y].size + rest)
           /\ it[t \ {y}] = fs[c].size + rest
           /\ rest \in Nat
      BY <2>3, <2>6, <2>7, <2>8, <2>9
    <2> HIDE DEF c, rest, B
    <2> QED
      BY <2>2, <2>9, <2>10
  <1> QED
    BY <1>2, <1>3

\* Two of them agree where they sum the same.
LEMMA SumsAgree ==
  ASSUME NEW fs, NEW D, IsFiniteSet(D), NEW it, SumsFor(it, fs, D),
         NEW gs, NEW E, D \subseteq E, NEW jt, SumsFor(jt, gs, E),
         \A n \in D : gs[n] = fs[n]
  PROVE  it[D] = jt[D]
  <1> DEFINE B == {t \in SUBSET D : it[t] # jt[t]}
  <1> SUFFICES ASSUME B # {}
               PROVE  FALSE
    OBVIOUS
  <1>1. PICK t \in B : \A y \in t : t \ {y} \notin B
    <2> HIDE DEF B
    <2>1. B \subseteq SUBSET D
      BY DEF B
    <2> QED
      BY <2>1, SmallestSet
  <1>2. t \in SUBSET D /\ t \in SUBSET E
    OBVIOUS
  <1>3. t # {}
    BY <1>2 DEF SumsFor, Sums
  <1>4. Chosen(t) \in t
    BY <1>3 DEF Chosen
  <1>5. it[t] = fs[Chosen(t)].size + it[t \ {Chosen(t)}]
    BY <1>2, <1>3 DEF SumsFor, Sums
  <1>6. jt[t] = gs[Chosen(t)].size + jt[t \ {Chosen(t)}]
    BY <1>2, <1>3 DEF SumsFor, Sums
  <1>7. it[t \ {Chosen(t)}] = jt[t \ {Chosen(t)}]
    BY <1>1, <1>2, <1>4
  <1> QED
    BY <1>1, <1>2, <1>4, <1>5, <1>6, <1>7

LEMMA TotalBy ==
  ASSUME NEW fs, IsFiniteSet(DOMAIN fs)
  PROVE  \E it : SumsFor(it, fs, DOMAIN fs) /\ Total(fs) = it[DOMAIN fs]
  <1> DEFINE it == CHOOSE i : SumsFor(i, fs, DOMAIN fs)
  <1>0. \E i : SumsFor(i, fs, DOMAIN fs)
    BY SumsExist DEF SumsFor
  <1>1. SumsFor(it, fs, DOMAIN fs)
    BY <1>0
  <1>2. Total(fs) = it[DOMAIN fs]
    BY TotalIs
  <1> HIDE DEF it
  <1> QED
    BY <1>1, <1>2

\* The total of the files of a store: it goes with their names, and loses what
\* a file that goes weighs.
LEMMA TotalFacts ==
  ASSUME NEW fs, NEW D, D = DOMAIN fs, IsFiniteSet(D), Entries(fs, D)
  PROVE  /\ Total(fs) \in Nat
         /\ D = {} => Total(fs) = 0
         /\ \A gs : /\ DOMAIN gs \subseteq D
                    /\ \A n \in DOMAIN gs : gs[n] = fs[n]
                    => Total(gs) <= Total(fs)
         /\ \A gs : \A n \in D :
                    /\ DOMAIN gs = D \ {n}
                    /\ \A m \in DOMAIN gs : gs[m] = fs[m]
                    => Total(fs) = fs[n].size + Total(gs)
  <1>1. PICK it : SumsFor(it, fs, D) /\ Total(fs) = it[D]
    BY TotalBy
  <1>2. Total(fs) = it[D]
    BY <1>1
  <1>3. /\ \A s \in SUBSET D : it[s] \in Nat
        /\ \A s \in SUBSET D : \A x \in s : it[s] = fs[x].size + it[s \ {x}]
    BY <1>1, SumsFacts
  <1>4. D = {} => it[D] = 0
    BY <1>1 DEF SumsFor, Sums
  <1>5. ASSUME NEW gs, DOMAIN gs \subseteq D, \A n \in DOMAIN gs : gs[n] = fs[n]
        PROVE  Total(gs) = it[DOMAIN gs]
    <2>1. IsFiniteSet(DOMAIN gs)
      BY <1>5, FS_Subset
    <2>2. PICK jt : SumsFor(jt, gs, DOMAIN gs) /\ Total(gs) = jt[DOMAIN gs]
      BY <2>1, TotalBy
    <2>3. \A n \in DOMAIN gs : fs[n] = gs[n]
      BY <1>5
    <2>4. jt[DOMAIN gs] = it[DOMAIN gs]
      BY <1>1, <1>5, <2>1, <2>2, <2>3, SumsAgree
    <2> QED
      BY <2>2, <2>4
  <1>6. ASSUME NEW s \in SUBSET D
        PROVE  it[s] <= it[D]
    <2> DEFINE B == {t \in SUBSET D : s \subseteq t /\ ~(it[s] <= it[t])}
    <2> SUFFICES ASSUME B # {}
                 PROVE  FALSE
      <3>1. CASE D \in B
        <4>1. B # {}
          BY <3>1
        <4> QED
          BY <4>1
      <3>2. CASE D \notin B
        BY <3>2
      <3> QED
        BY <3>1, <3>2
    <2>1. PICK t \in B : \A x \in t : t \ {x} \notin B
      <3>1. B \subseteq SUBSET D
        OBVIOUS
      <3> HIDE DEF B
      <3> QED
        BY <3>1, SmallestSet
    <2>2. t \in SUBSET D /\ s \subseteq t /\ ~(it[s] <= it[t])
      BY <2>1
    <2>3. it[s] \in Nat /\ it[t] \in Nat
      BY <1>3, <2>2
    <2>4. PICK x \in t : x \notin s
      <3>1. ~(t \subseteq s)
        <4>1. it[s] <= it[s]
          BY <2>3
        <4> HIDE DEF B
        <4>2. t \subseteq s => t = s
          BY <2>2
        <4> QED
          BY <2>2, <4>1, <4>2
      <3> QED
        BY <3>1
    <2>5. t \ {x} \in SUBSET D /\ s \subseteq t \ {x}
      BY <2>2, <2>4
    <2>6. it[s] <= it[t \ {x}]
      BY <2>1, <2>5
    <2>7. it[t] = fs[x].size + it[t \ {x}] /\ fs[x].size \in Nat /\ it[t \ {x}] \in Nat
      BY <1>3, <2>2, <2>5 DEF Entries
    <2> HIDE DEF B
    <2> QED
      BY <2>2, <2>3, <2>6, <2>7
  <1>7. ASSUME NEW gs, DOMAIN gs \subseteq D, \A n \in DOMAIN gs : gs[n] = fs[n]
        PROVE  Total(gs) <= Total(fs)
    BY <1>2, <1>5, <1>6, <1>7
  <1>8. ASSUME NEW gs, NEW n \in D, DOMAIN gs = D \ {n},
               \A m \in DOMAIN gs : gs[m] = fs[m]
        PROVE  Total(fs) = fs[n].size + Total(gs)
    <2>1. Total(gs) = it[D \ {n}]
      BY <1>5, <1>8
    <2> QED
      BY <1>2, <1>3, <2>1
  <1> QED
    BY <1>2, <1>3, <1>4, <1>7, <1>8

-----------------------------------------------------------------------------
(* The types of the state, and what an accumulator holds.                  *)

\* An accumulator never holds more than the budget leaves or than was sent, one
\* that was not cut holds all of it, and a new one has been sent nothing.
Sound(x) ==
    /\ x.buf <= Budget - Smaller(x.req, Budget)
    /\ x.buf <= x.seen /\ x.seen <= Len(x.body)
    /\ ~x.cut => x.buf = x.seen
    /\ x.phase = "new" => x.seen = 0

FlowInv == \A f \in Flows : Sound(flow[f])

LEMMA GreatestOf ==
  ASSUME NEW k \in Nat, NEW S, S \subseteq 0 .. k, S # {}
  PROVE  Max(S) \in S
  <1> DEFINE T == {n \in 0 .. k : k - n \in S}
  <1>1. PICK i \in S : TRUE
    OBVIOUS
  <1>2. k - i \in T
    BY <1>1
  <1>3. T \subseteq Nat /\ T # {}
    <2>1. \A n \in T : n \in Nat
      OBVIOUS
    <2> HIDE DEF T
    <2> QED
      BY <1>2, <2>1
  <1>4. PICK n \in T : \A m \in T : n <= m
    <2> HIDE DEF T
    <2> QED
      BY <1>3, LeastOf
  <1>5. ASSUME NEW j \in S
        PROVE  k - n >= j
    <2>1. k - j \in T
      OBVIOUS
    <2>2. n <= k - j
      BY <1>4, <2>1
    <2> QED
      BY <1>4, <2>2
  <1>6. k - n \in S
    BY <1>4
  <1> QED
    BY <1>5, <1>6 DEF Max

LEMMA BodyType ==
  ASSUME StoreTypeOK, NEW f \in Flows
  PROVE  /\ flow[f] \in FlowState
         /\ flow[f].body \in Seq(0 .. 4) /\ Len(flow[f].body) \in Nat
         /\ flow[f].req \in Nat
         /\ Budget \in Nat
  <1>1. flow[f] \in FlowState
    BY DEF StoreTypeOK
  <1>2. flow[f].req \in {0} \cup Requests /\ flow[f].body \in {<<>>} \cup Bodies
    BY <1>1 DEF FlowState
  <1>3. Requests \subseteq Nat /\ Bodies \subseteq Seq(0 .. 4) /\ Budget \in Nat
    BY LimitsAssumption DEF LimitsAssumption
  <1> DEFINE b == flow[f].body
  <1>4. b \in Seq(0 .. 4)
    <2>1. b \in {<<>>} \cup Bodies
      BY <1>2
    <2> HIDE DEF b
    <2>2. CASE b = <<>>
      BY <2>2
    <2>3. CASE b \in Bodies
      BY <1>3, <2>3
    <2> QED
      BY <2>1, <2>2, <2>3
  <1>5. Len(b) \in Nat
    <2> HIDE DEF b
    <2> QED
      BY <1>4
  <1> DEFINE r == flow[f].req
  <1>6. r \in Nat
    <2>1. r \in {0} \cup Requests
      BY <1>2
    <2> HIDE DEF r
    <2> QED
      BY <1>3, <2>1
  <1> QED
    BY <1>1, <1>3, <1>4, <1>5, <1>6

LEMMA CapturedFacts ==
  ASSUME StoreTypeOK, FlowInv, NEW f \in Flows
  PROVE  /\ Captured(f) \in Seq(0 .. 4)
         /\ flow[f].buf = Len(flow[f].body) /\ ~flow[f].cut
            => Captured(f) = flow[f].body
  <1> DEFINE k    == flow[f].buf
             buf  == SubSeq(flow[f].body, 1, k)
             S    == {0} \cup {i \in DOMAIN buf : Lead(buf[i])}
             last == Max(S)
  <1>1. k \in Nat /\ k <= Len(flow[f].body)
    BY BodyType DEF StoreTypeOK, FlowInv, Sound, FlowState
  <1>2. \A i \in 1 .. k : flow[f].body[i] \in 0 .. 4
    <2> DEFINE b == flow[f].body
    <2>1. b \in Seq(0 .. 4) /\ Len(b) \in Nat
      BY BodyType
    <2> HIDE DEF b, k
    <2>2. \A i \in 1 .. k : b[i] \in 0 .. 4
      BY <1>1, <2>1 DEF b
    <2> QED
      BY <2>2 DEF b
  <1>3. buf \in Seq(0 .. 4) /\ Len(buf) = k
    BY <1>1, <1>2, SubSeqProperties
  <1>4. last \in 0 .. k
    <2>1. S \subseteq 0 .. k
      BY <1>1, <1>3
    <2>2. S # {}
      OBVIOUS
    <2> HIDE DEF S
    <2> QED
      BY <1>1, <2>1, <2>2, GreatestOf
  <1>5. \A n \in 0 .. k : SubSeq(buf, 1, n) \in Seq(0 .. 4)
    <2> SUFFICES ASSUME NEW n \in 0 .. k
                 PROVE  SubSeq(buf, 1, n) \in Seq(0 .. 4)
      OBVIOUS
    <2>1. \A i \in 1 .. n : buf[i] \in 0 .. 4
      BY <1>3
    <2> HIDE DEF buf
    <2> QED
      BY <2>1, SubSeqProperties
  <1>6. Captured(f) = IF ~flow[f].cut THEN buf
                      ELSE IF last > 0 /\ buf[last] > 1 /\ last - 1 + buf[last] > Len(buf)
                      THEN SubSeq(buf, 1, last - 1)
                      ELSE SubSeq(buf, 1, last)
    BY DEF Captured
  <1>7. flow[f].buf = Len(flow[f].body) => buf = flow[f].body
    BY BodyType, SubSeqFull
  <1> HIDE DEF buf, last, k
  <1> QED
    BY <1>3, <1>4, <1>5, <1>6, <1>7 DEF k

LEMMA DropFacts ==
  ASSUME NEW fs, NEW n
  PROVE  /\ DOMAIN Drop(fs, n) = DOMAIN fs \ {n}
         /\ \A m \in DOMAIN fs \ {n} : Drop(fs, n)[m] = fs[m]
         /\ IsStore(fs) => IsStore(Drop(fs, n))
  <1>1. /\ DOMAIN Drop(fs, n) = DOMAIN fs \ {n}
        /\ \A m \in DOMAIN fs \ {n} : Drop(fs, n)[m] = fs[m]
        /\ Drop(fs, n) = [m \in DOMAIN fs \ {n} |-> fs[m]]
    BY DEF Drop, Restrict
  <1>2. ASSUME IsStore(fs)
        PROVE  IsStore(Drop(fs, n))
    <2>1. \A m \in DOMAIN fs : fs[m] \in File
      BY <1>2 DEF IsStore
    <2> HIDE DEF IsStore
    <2>2. DOMAIN fs \ {n} \subseteq Names
      BY <1>2 DEF IsStore
    <2> QED
      BY <1>1, <2>1, <2>2 DEF IsStore
  <1> QED
    BY <1>1, <1>2

\* A step that makes one sound flow of another.
LEMMA FlowStep ==
  ASSUME StoreTypeOK, FlowInv, NEW f \in Flows, NEW new \in FlowState, Sound(new),
         flow' = [flow EXCEPT ![f] = new]
  PROVE  flow' \in [Flows -> FlowState] /\ FlowInv'
  <1>1. flow' \in [Flows -> FlowState]
    BY DEF StoreTypeOK
  <1>2. \A g \in Flows : flow'[g] = IF g = f THEN new ELSE flow[g]
    BY DEF StoreTypeOK
  <1>3. ASSUME NEW g \in Flows
        PROVE  Sound(flow'[g])
    BY <1>2 DEF FlowInv
  <1> QED
    BY <1>1, <1>3 DEF FlowInv, Sound

\* What a hook makes of its flow has the type of one.
LEMMA RecordTypes ==
  ASSUME StoreTypeOK, FlowInv, NEW f \in Flows, NEW text \in Seq(0 .. 4),
         NEW told \in BOOLEAN, Record(f, text, told),
         UNCHANGED <<files, cleaner, world, clock, written, met>>
  PROVE  StoreTypeOK' /\ FlowInv'
  <1> DEFINE new == Over(f, text, told)
  <1>1. /\ new \in FlowState
        /\ new.phase = "over" /\ new.req = flow[f].req /\ new.body = flow[f].body
        /\ new.seen = 0 /\ new.buf = 0 /\ ~new.cut
    <2> DEFINE r == flow[f].req
               b == flow[f].body
               x == [NewFlow EXCEPT !.phase = "over", !.req = r, !.body = b,
                                    !.text = text, !.told = told]
    <2>1. r \in {0} \cup Requests /\ b \in {<<>>} \cup Bodies /\ 0 \in 0 .. Budget
      BY BodyType DEF FlowState
    <2> HIDE DEF r, b
    <2>2. /\ x.phase = "over" /\ x.req = r /\ x.body = b
          /\ x.seen = 0 /\ x.buf = 0 /\ ~x.cut
      BY DEF NewFlow
    <2>3. x \in FlowState
      BY <2>1 DEF NewFlow, FlowState
    <2>4. new = x
      BY DEF Over, r, b
    <2> HIDE DEF x, new
    <2> QED
      BY <2>2, <2>3, <2>4 DEF r, b
  <1> HIDE DEF new
  <1>2. flow' = [flow EXCEPT ![f] = new]
    BY DEF Record, new
  <1>3. Sound(new)
    <2>1. Smaller(flow[f].req, Budget) <= Budget /\ Smaller(flow[f].req, Budget) \in Nat
      BY BodyType DEF Smaller
    <2>2. Len(flow[f].body) \in Nat /\ Budget \in Nat
      BY BodyType
    <2> QED
      BY <1>1, <2>1, <2>2 DEF Sound
  <1>4. IsStore(app'.left) /\ app' \in [pc : {"idle", "trim", "rotate", "write", "converge"},
              flow : {0} \cup Flows, size : Nat, left : {app'.left}, name : Names]
    <2>1. CASE UNCHANGED app
      BY <2>1 DEF StoreTypeOK
    <2>2. CASE app' = [pc |-> "trim", flow |-> f, size |-> 1 + flow[f].req + Len(text),
                       left |-> files, name |-> Today]
      <3>1. 1 + flow[f].req + Len(text) \in Nat
        BY BodyType
      <3>2. Today \in Names
        BY DEF Today, Names, StoreTypeOK
      <3> QED
        BY <2>2, <3>1, <3>2 DEF StoreTypeOK
    <2> QED
      BY <2>1, <2>2 DEF Record
  <1>5. flow' \in [Flows -> FlowState] /\ FlowInv'
    BY <1>1, <1>2, <1>3, FlowStep
  <1> QED
    BY <1>4, <1>5 DEF StoreTypeOK, world

LEMMA TeeFits ==
  ASSUME NEW budget \in Nat, NEW reserved \in Nat, NEW buf \in Nat, NEW seen \in Nat,
         NEW n \in Nat, NEW take \in Nat, NEW len \in Nat,
         buf + take <= budget - reserved, buf <= seen, take <= n, n <= len - seen
  PROVE  /\ buf + take \in 0 .. budget /\ seen + n \in Nat
         /\ buf + take <= seen + n /\ seen + n <= len
  OBVIOUS

\* A request opens its flow, a chunk goes into its accumulator.
LEMMA HookTypes ==
  ASSUME StoreTypeOK, FlowInv, NEW f \in Flows, RequestSeen(f) \/ Chunk(f)
  PROVE  StoreTypeOK' /\ FlowInv'
  <1>1. Budget \in Nat /\ Requests \subseteq Nat
    BY LimitsAssumption DEF LimitsAssumption
  <1>2. /\ flow[f] \in FlowState /\ Sound(flow[f])
        /\ flow[f].req \in Nat /\ Len(flow[f].body) \in Nat
    BY BodyType DEF FlowInv
  <1>3. UNCHANGED <<files, app, cleaner, world, clock, written, met>>
    BY DEF RequestSeen, Chunk
  <1> SUFFICES \E new \in FlowState : Sound(new) /\ flow' = [flow EXCEPT ![f] = new]
    BY <1>3, FlowStep DEF StoreTypeOK, world
  <1>4. CASE Chunk(f)
    <2>1. PICK n \in 1 .. Len(flow[f].body) - flow[f].seen : flow' = [flow EXCEPT ![f] = Tee(f, n)]
      BY <1>4 DEF Chunk
    <2> DEFINE take == Smaller(n, Room(f))
               bb   == flow[f].buf + take
               ss   == flow[f].seen + n
               cc   == flow[f].cut \/ take < n
               new  == [flow[f] EXCEPT !.seen = ss, !.buf = bb, !.cut = cc]
    <2>2. /\ flow[f].buf \in Nat /\ flow[f].seen \in Nat
          /\ flow[f].buf <= Budget - Reserved(f) /\ Reserved(f) \in Nat
          /\ flow[f].buf <= flow[f].seen /\ flow[f].seen <= Len(flow[f].body)
          /\ ~flow[f].cut => flow[f].buf = flow[f].seen
      BY <1>1, <1>2 DEF Sound, FlowState, Reserved, Smaller
    <2>3. /\ n \in Nat /\ 0 < n /\ n <= Len(flow[f].body) - flow[f].seen
          /\ take \in Nat /\ take <= n /\ bb <= Budget - Reserved(f)
      BY <1>1, <1>2, <2>2 DEF Smaller, Room
    <2>4. flow' = [flow EXCEPT ![f] = new]
      BY <2>1 DEF Tee
    <2> HIDE DEF take
    <2>5. /\ bb \in 0 .. Budget /\ ss \in Nat /\ cc \in BOOLEAN
          /\ bb <= ss /\ ss <= Len(flow[f].body) /\ (~cc => bb = ss)
      <3>1. bb \in 0 .. Budget /\ ss \in Nat /\ bb <= ss /\ ss <= Len(flow[f].body)
        <4> DEFINE len == Len(flow[f].body)
                   b0  == flow[f].buf
                   s0  == flow[f].seen
                   res == Reserved(f)
        <4>1. /\ len \in Nat /\ b0 \in Nat /\ s0 \in Nat /\ res \in Nat /\ Budget \in Nat
              /\ n \in Nat /\ take \in Nat /\ take <= n /\ n <= len - s0
              /\ b0 + take <= Budget - res /\ b0 <= s0
          BY <1>1, <1>2, <2>2, <2>3
        <4>2. bb = b0 + take /\ ss = s0 + n
          OBVIOUS
        <4> HIDE DEF len, b0, s0, res, bb, ss
        <4>3. b0 + take \in 0 .. Budget /\ s0 + n \in Nat /\ b0 + take <= s0 + n /\ s0 + n <= len
          BY <4>1, TeeFits
        <4> QED
          BY <4>2, <4>3 DEF len
      <3>2. cc \in BOOLEAN
        OBVIOUS
      <3>3. ~cc => ~flow[f].cut /\ ~(take < n)
        OBVIOUS
      <3> HIDE DEF cc
      <3>4. ~(take < n) => take = n
        BY <2>3
      <3>5. flow[f].buf = flow[f].seen /\ take = n => bb = ss
        OBVIOUS
      <3> HIDE DEF bb, ss
      <3> QED
        BY <2>2, <3>1, <3>2, <3>3, <3>4, <3>5
    <2> HIDE DEF bb, ss, cc
    <2>6. /\ new \in FlowState /\ new.buf = bb /\ new.seen = ss /\ new.cut = cc
          /\ new.req = flow[f].req /\ new.body = flow[f].body
          /\ new.phase = flow[f].phase
      BY <1>2, <2>5 DEF FlowState
    <2>7. flow[f].phase = "open"
      BY <1>4 DEF Chunk
    <2> HIDE DEF new
    <2>8. Sound(new)
      BY <2>3, <2>5, <2>6, <2>7 DEF Sound, Reserved
    <2> QED
      BY <2>4, <2>6, <2>8
  <1>5. CASE RequestSeen(f) /\ flow' = [flow EXCEPT ![f].phase = "gone"]
    <2> DEFINE new == [flow[f] EXCEPT !.phase = "gone"]
    <2>1. /\ new \in FlowState /\ new.buf = flow[f].buf /\ new.seen = flow[f].seen
          /\ new.req = flow[f].req /\ new.body = flow[f].body /\ new.cut = flow[f].cut
          /\ new.phase = "gone"
      BY <1>2 DEF FlowState
    <2>2. flow' = [flow EXCEPT ![f] = new]
      BY <1>5
    <2> HIDE DEF new
    <2>3. Sound(new)
      BY <1>2, <2>1 DEF Sound
    <2> QED
      BY <2>1, <2>2, <2>3
  <1>6. ASSUME NEW r \in Requests, NEW teed \in BOOLEAN, NEW body \in Bodies,
               RequestSeen(f),
               flow' = [flow EXCEPT ![f] = [@ EXCEPT !.phase = "open", !.teed = teed,
                          !.req = r, !.body = body, !.cut = r > Budget]]
        PROVE  \E new \in FlowState : Sound(new) /\ flow' = [flow EXCEPT ![f] = new]
    <2> DEFINE cc  == r > Budget
               new == [flow[f] EXCEPT !.phase = "open", !.teed = teed, !.req = r,
                                      !.body = body, !.cut = cc]
    <2>1. cc \in BOOLEAN /\ r \in Nat
      BY <1>1
    <2>2. flow' = [flow EXCEPT ![f] = new]
      BY <1>6
    <2> HIDE DEF cc
    <2>3. /\ new \in FlowState /\ new.buf = flow[f].buf /\ new.seen = flow[f].seen
          /\ new.req = r /\ new.body = body /\ new.phase = "open"
      BY <1>2, <2>1 DEF FlowState
    <2>4. flow[f].seen = 0 /\ flow[f].buf = 0
      <3>1. flow[f].phase = "new"
        BY <1>6 DEF RequestSeen
      <3>2. flow[f].buf \in Nat
        BY <1>2 DEF FlowState
      <3> QED
        BY <1>2, <3>1, <3>2 DEF Sound
    <2>5. Smaller(r, Budget) <= Budget /\ Smaller(r, Budget) \in Nat
      BY <1>1, <2>1 DEF Smaller
    <2>6. Len(body) \in Nat
      <3>1. body \in Seq(0 .. 4)
        BY LimitsAssumption DEF LimitsAssumption
      <3> QED
        BY <3>1
    <2> HIDE DEF new
    <2>7. Sound(new)
      BY <1>1, <2>3, <2>4, <2>5, <2>6 DEF Sound
    <2> QED
      BY <2>2, <2>3, <2>7
  <1> QED
    BY <1>4, <1>5, <1>6 DEF RequestSeen

-----------------------------------------------------------------------------
(* Capture: the steps of an append, as they change the store.              *)

\* One store is part of another.
Part(gs, fs) == DOMAIN gs \subseteq DOMAIN fs /\ \A n \in DOMAIN gs : gs[n] = fs[n]

LEMMA NamesFinite == IsFiniteSet(Names)
  <1>1. MaxDay \in Nat
    BY LimitsAssumption DEF LimitsAssumption
  <1>2. IsFiniteSet(1 .. MaxDay)
    BY <1>1, FS_Interval
  <1>3. IsFiniteSet({0, 1})
    <2>1. IsFiniteSet({} \cup {0})
      BY FS_EmptySet, FS_AddElement
    <2>2. IsFiniteSet(({} \cup {0}) \cup {1})
      BY <2>1, FS_AddElement
    <2>3. {0, 1} = ({} \cup {0}) \cup {1}
      OBVIOUS
    <2> QED
      BY <2>2, <2>3
  <1> QED
    BY <1>2, <1>3, FS_Product DEF Names

LEMMA StoreFacts ==
  ASSUME NEW fs, IsStore(fs)
  PROVE  /\ IsFiniteSet(DOMAIN fs) /\ Entries(fs, DOMAIN fs)
         /\ \A n \in DOMAIN fs : /\ n \in Names /\ fs[n] \in File
                                 /\ fs[n].size \in Nat /\ fs[n].mtime \in Nat
                                 /\ fs[n].recs \subseteq Flows
  <1>1. \A n \in DOMAIN fs : n \in Names /\ fs[n] \in File
    BY DEF IsStore
  <1>2. IsFiniteSet(DOMAIN fs)
    BY NamesFinite, FS_Subset DEF IsStore
  <1> QED
    BY <1>1, <1>2 DEF File, Entries

\* A part of a store is a store, and weighs no more.
LEMMA PartFacts ==
  ASSUME NEW fs, IsStore(fs), NEW gs, gs = [n \in DOMAIN gs |-> gs[n]], Part(gs, fs)
  PROVE  IsStore(gs) /\ Total(fs) \in Nat /\ Total(gs) \in Nat /\ Total(gs) <= Total(fs)
  <1>1. IsStore(gs)
    <2>1. \A n \in DOMAIN gs : n \in Names /\ gs[n] \in File
      BY StoreFacts DEF Part
    <2> QED
      BY <2>1 DEF IsStore
  <1>2. Total(gs) <= Total(fs) /\ Total(fs) \in Nat
    <2>1. IsFiniteSet(DOMAIN fs) /\ Entries(fs, DOMAIN fs)
      BY StoreFacts
    <2>2. /\ Total(fs) \in Nat
          /\ \A hs : /\ DOMAIN hs \subseteq DOMAIN fs
                     /\ \A n \in DOMAIN hs : hs[n] = fs[n]
                     => Total(hs) <= Total(fs)
      BY <2>1, TotalFacts
    <2>3. DOMAIN gs \subseteq DOMAIN fs /\ \A n \in DOMAIN gs : gs[n] = fs[n]
      BY DEF Part
    <2> QED
      BY <2>2, <2>3
  <1>3. Total(gs) \in Nat
    BY <1>1, StoreFacts, TotalFacts
  <1> QED
    BY <1>1, <1>2, <1>3

\* What a file weighs comes on top of the rest.
LEMMA WithoutFacts ==
  ASSUME NEW fs, IsStore(fs), NEW n \in DOMAIN fs
  PROVE  /\ Total(fs) = fs[n].size + Total(Drop(fs, n))
         /\ fs[n].size \in Nat /\ Total(Drop(fs, n)) \in Nat
         /\ IsStore(Drop(fs, n)) /\ Part(Drop(fs, n), fs)
  <1>1. /\ DOMAIN Drop(fs, n) = DOMAIN fs \ {n}
        /\ \A m \in DOMAIN Drop(fs, n) : Drop(fs, n)[m] = fs[m]
        /\ IsStore(Drop(fs, n))
    BY DropFacts
  <1>2. Total(fs) = fs[n].size + Total(Drop(fs, n))
    <2>1. IsFiniteSet(DOMAIN fs) /\ Entries(fs, DOMAIN fs)
      BY StoreFacts
    <2>2. \A gs : \A m \in DOMAIN fs :
             /\ DOMAIN gs = DOMAIN fs \ {m}
             /\ \A k \in DOMAIN gs : gs[k] = fs[k]
             => Total(fs) = fs[m].size + Total(gs)
      BY <2>1, TotalFacts
    <2> QED
      BY <1>1, <2>2
  <1>3. Total(Drop(fs, n)) \in Nat
    BY <1>1, StoreFacts, TotalFacts
  <1> QED
    BY <1>1, <1>2, <1>3, StoreFacts DEF Part

\* The store without a file that another store has is the same in both.
LEMMA SameRest ==
  ASSUME NEW fs, IsStore(fs), NEW gs, IsStore(gs), NEW n, NEW m,
         DOMAIN fs \ {n} \subseteq DOMAIN gs \ {m},
         \A k \in DOMAIN fs \ {n} : fs[k] = gs[k]
  PROVE  Total(Drop(fs, n)) <= Total(Drop(gs, m))
  <1>1. /\ DOMAIN Drop(fs, n) = DOMAIN fs \ {n}
        /\ \A k \in DOMAIN fs \ {n} : Drop(fs, n)[k] = fs[k]
    BY DropFacts
  <1>2. /\ DOMAIN Drop(gs, m) = DOMAIN gs \ {m}
        /\ \A k \in DOMAIN gs \ {m} : Drop(gs, m)[k] = gs[k]
        /\ IsStore(Drop(gs, m))
    BY DropFacts
  <1>3. Part(Drop(fs, n), Drop(gs, m))
    BY <1>1, <1>2 DEF Part
  <1>4. Drop(fs, n) = [k \in DOMAIN Drop(fs, n) |-> Drop(fs, n)[k]]
    BY DEF Drop, Restrict
  <1> QED
    BY <1>2, <1>3, <1>4, PartFacts

LEMMA RotatedFacts ==
  ASSUME NEW fs, IsStore(fs), NEW n \in Names, n[2] = 0
  PROVE  /\ IsStore(Rotated(fs, n))
         /\ \/ Rotated(fs, n) = fs
            \/ /\ n \in DOMAIN fs
               /\ DOMAIN Rotated(fs, n) = (DOMAIN fs \ {n}) \cup {<<n[1], 1>>}
               /\ Rotated(fs, n)[<<n[1], 1>>] = fs[n]
               /\ \A m \in DOMAIN fs \ {n, <<n[1], 1>>} : Rotated(fs, n)[m] = fs[m]
  <1> DEFINE q  == <<n[1], 1>>
             gs == [m \in DOMAIN fs \cup {q} |-> IF m = q THEN fs[n] ELSE fs[m]]
  <1>1. CASE ~(n \in DOMAIN fs /\ fs[n].size >= MaxFile)
    BY <1>1 DEF Rotated
  <1>2. CASE n \in DOMAIN fs /\ fs[n].size >= MaxFile
    <2>1. Rotated(fs, n) = Drop(gs, n)
      BY <1>2 DEF Rotated
    <2>2. q \in Names /\ q # n
      BY DEF Names
    <2> HIDE DEF q
    <2>3. /\ DOMAIN gs = DOMAIN fs \cup {q} /\ gs[q] = fs[n]
          /\ \A m \in DOMAIN fs \ {q} : gs[m] = fs[m]
      OBVIOUS
    <2>4. IsStore(gs)
      <3>1. \A m \in DOMAIN gs : m \in Names /\ gs[m] \in File
        BY <1>2, <2>2, StoreFacts
      <3>2. gs \in [DOMAIN gs -> File]
        BY <3>1
      <3> HIDE DEF gs
      <3> QED
        BY <3>1, <3>2 DEF IsStore
    <2>5. /\ DOMAIN Drop(gs, n) = DOMAIN gs \ {n}
          /\ \A m \in DOMAIN gs \ {n} : Drop(gs, n)[m] = gs[m]
          /\ IsStore(Drop(gs, n))
      BY <2>4, DropFacts
    <2> HIDE DEF gs
    <2>6. /\ DOMAIN Rotated(fs, n) = (DOMAIN fs \ {n}) \cup {q}
          /\ Rotated(fs, n)[q] = fs[n]
          /\ \A m \in DOMAIN fs \ {n, q} : Rotated(fs, n)[m] = fs[m]
      BY <2>1, <2>2, <2>3, <2>5
    <2> QED
      BY <1>2, <2>1, <2>5, <2>6 DEF q
  <1> QED
    BY <1>1, <1>2

\* A rotation makes the store no heavier.
LEMMA RotatedWeighs ==
  ASSUME NEW fs, IsStore(fs), NEW n \in Names, n[2] = 0
  PROVE  Total(Rotated(fs, n)) <= Total(fs)
  <1> DEFINE gs == Rotated(fs, n)
             q  == <<n[1], 1>>
  <1>1. IsStore(gs)
    BY RotatedFacts
  <1>2. CASE gs = fs
    BY <1>2, StoreFacts, TotalFacts
  <1>3. CASE gs # fs
    <2>1. /\ n \in DOMAIN fs
          /\ DOMAIN gs = (DOMAIN fs \ {n}) \cup {q}
          /\ gs[q] = fs[n]
          /\ \A m \in DOMAIN fs \ {n, q} : gs[m] = fs[m]
      BY <1>3, RotatedFacts
    <2> HIDE DEF gs, q
    <2>2. Total(Drop(gs, q)) <= Total(Drop(fs, n))
      <3>1. DOMAIN gs \ {q} \subseteq DOMAIN fs \ {n}
        BY <2>1
      <3>2. \A k \in DOMAIN gs \ {q} : gs[k] = fs[k]
        BY <2>1
      <3> QED
        BY <1>1, <3>1, <3>2, SameRest
    <2>3. /\ Total(gs) = gs[q].size + Total(Drop(gs, q))
          /\ gs[q].size \in Nat /\ Total(Drop(gs, q)) \in Nat
      BY <1>1, <2>1, WithoutFacts
    <2>4. /\ Total(fs) = fs[n].size + Total(Drop(fs, n))
          /\ Total(Drop(fs, n)) \in Nat
      BY <2>1, WithoutFacts
    <2> QED
      BY <2>1, <2>2, <2>3, <2>4 DEF gs
  <1> QED
    BY <1>2, <1>3

\* gs is the store fs with the record of the append under way in the file n.
IsWritten(gs, fs, n) ==
    /\ IsStore(gs)
    /\ DOMAIN gs = DOMAIN fs \cup {n}
    /\ \A m \in DOMAIN fs \ {n} : gs[m] = fs[m]
    /\ gs[n].mtime = clock
    /\ n \in DOMAIN fs => /\ gs[n].size = fs[n].size + app.size
                          /\ gs[n].recs = fs[n].recs \cup {app.flow}
    /\ n \notin DOMAIN fs => gs[n].size = app.size /\ gs[n].recs = {app.flow}

\* A write does that.
LEMMA WrittenFacts ==
  ASSUME StoreTypeOK, NEW fs, IsStore(fs), NEW n \in Names, app.flow \in Flows
  PROVE  IsWritten(Written(fs, n), fs, n)
  <1> DEFINE old == IF n \in DOMAIN fs THEN fs[n] ELSE [size |-> 0, mtime |-> 0, recs |-> {}]
             new == [size |-> old.size + app.size, mtime |-> clock, recs |-> old.recs \cup {app.flow}]
             gs  == [m \in DOMAIN fs \cup {n} |-> IF m = n THEN new ELSE fs[m]]
  <1>1. Written(fs, n) = gs
    BY DEF Written
  <1>2. app.size \in Nat /\ clock \in Nat
    BY DEF StoreTypeOK
  <1>3. old.size \in Nat /\ old.recs \subseteq Flows
    BY StoreFacts
  <1>4. /\ n \in DOMAIN fs => old = fs[n]
        /\ n \notin DOMAIN fs => old.size = 0 /\ old.recs = {}
    OBVIOUS
  <1> HIDE DEF old
  <1>5. /\ new \in File /\ new.mtime = clock
        /\ new.size = old.size + app.size /\ new.recs = old.recs \cup {app.flow}
    BY <1>2, <1>3 DEF File
  <1> HIDE DEF new
  <1>6. /\ DOMAIN gs = DOMAIN fs \cup {n} /\ gs[n] = new
        /\ \A m \in DOMAIN fs \ {n} : gs[m] = fs[m]
    OBVIOUS
  <1>7. IsStore(gs)
    <2>1. \A m \in DOMAIN gs : m \in Names /\ gs[m] \in File
      BY <1>5, StoreFacts
    <2>2. gs \in [DOMAIN gs -> File]
      BY <2>1
    <2> HIDE DEF gs
    <2> QED
      BY <2>1, <2>2 DEF IsStore
  <1> HIDE DEF gs
  <1>8. /\ n \in DOMAIN fs => gs[n].size = fs[n].size + app.size
                             /\ gs[n].recs = fs[n].recs \cup {app.flow}
        /\ n \notin DOMAIN fs => gs[n].size = app.size /\ gs[n].recs = {app.flow}
    BY <1>2, <1>4, <1>5, <1>6
  <1> QED
    BY <1>1, <1>5, <1>6, <1>7, <1>8 DEF IsWritten

\* A record adds what it weighs.
LEMMA WrittenWeighs ==
  ASSUME StoreTypeOK, NEW fs, IsStore(fs), NEW n \in Names, app.flow \in Flows
  PROVE  Total(Written(fs, n)) <= Total(fs) + app.size
  <1> DEFINE gs == Written(fs, n)
  <1>1. /\ IsStore(gs) /\ DOMAIN gs = DOMAIN fs \cup {n}
        /\ \A m \in DOMAIN fs \ {n} : gs[m] = fs[m]
        /\ n \in DOMAIN fs => gs[n].size = fs[n].size + app.size
        /\ n \notin DOMAIN fs => gs[n].size = app.size
    <2>1. IsWritten(gs, fs, n)
      BY WrittenFacts
    <2> HIDE DEF gs
    <2> QED
      BY <2>1 DEF IsWritten
  <1>2. app.size \in Nat
    BY DEF StoreTypeOK
  <1> HIDE DEF gs
  <1>3. /\ Total(gs) = gs[n].size + Total(Drop(gs, n))
        /\ Total(Drop(gs, n)) \in Nat
    BY <1>1, WithoutFacts
  <1>4. Total(Drop(gs, n)) <= Total(Drop(fs, n))
    BY <1>1, SameRest
  <1>5. CASE n \in DOMAIN fs
    <2>1. /\ Total(fs) = fs[n].size + Total(Drop(fs, n))
          /\ fs[n].size \in Nat /\ Total(Drop(fs, n)) \in Nat
      BY <1>5, WithoutFacts
    <2> QED
      BY <1>1, <1>2, <1>3, <1>4, <1>5, <2>1 DEF gs
  <1>6. CASE n \notin DOMAIN fs
    <2>1. Drop(fs, n) = [k \in DOMAIN Drop(fs, n) |-> Drop(fs, n)[k]]
      BY DEF Drop, Restrict
    <2>2. Part(Drop(fs, n), fs)
      BY DropFacts DEF Part
    <2>3. Total(Drop(fs, n)) <= Total(fs) /\ Total(Drop(fs, n)) \in Nat /\ Total(fs) \in Nat
      BY <2>1, <2>2, PartFacts
    <2> QED
      BY <1>1, <1>2, <1>3, <1>4, <1>6, <2>3 DEF gs
  <1> QED
    BY <1>5, <1>6


\* What an answered or a failed request records is the whole answer, or it says
\* that it is not.
LEMMA AnswerCases ==
  ASSUME StoreTypeOK, FlowInv, NEW f \in Flows, Response(f) \/ Error(f)
  PROVE  /\ \E text \in Seq(0 .. 4), told \in BOOLEAN :
               Record(f, text, told) /\ (text = flow[f].body \/ told)
         /\ UNCHANGED <<files, cleaner, world, clock, written, met>>
  <1>1. UNCHANGED <<files, cleaner, world, clock, written, met>>
    BY DEF Response, Error
  <1>2. Captured(f) \in Seq(0 .. 4)
    BY CapturedFacts
  <1>3. CASE Error(f)
    BY <1>1, <1>2, <1>3 DEF Error
  <1>4. CASE Response(f) /\ flow[f].teed
    <2>1. flow[f].seen = Len(flow[f].body) /\ Record(f, Captured(f), flow[f].cut)
      BY <1>4 DEF Response
    <2>2. flow[f].cut \in BOOLEAN
      BY BodyType DEF FlowState
    <2>3. ~flow[f].cut => flow[f].buf = Len(flow[f].body)
      BY <2>1 DEF FlowInv, Sound
    <2>4. ~flow[f].cut => Captured(f) = flow[f].body
      BY <2>3, CapturedFacts
    <2> QED
      BY <1>1, <1>2, <2>1, <2>2, <2>4
  <1>5. CASE Response(f) /\ ~flow[f].teed
    <2> DEFINE body == flow[f].body
               n    == Len(body)
               k    == Smaller(n, Budget)
               text == SubSeq(body, 1, k)
               told == n > Budget
    <2>1. Record(f, text, told)
      BY <1>5 DEF Response
    <2>2. body \in Seq(0 .. 4) /\ n \in Nat /\ Budget \in Nat
      BY BodyType
    <2>3. told \in BOOLEAN
      OBVIOUS
    <2> HIDE DEF body
    <2>4. k \in 0 .. n /\ (~told => k = n)
      BY <2>2 DEF Smaller
    <2>5. text \in Seq(0 .. 4)
      <3>1. \A i \in 1 .. k : body[i] \in 0 .. 4
        BY <2>2, <2>4
      <3> HIDE DEF k
      <3> QED
        BY <2>2, <2>4, <3>1, SubSeqProperties
    <2>6. ~told => text = body
      BY <2>2, <2>4, SubSeqFull
    <2> HIDE DEF text, told
    <2> QED
      BY <1>1, <2>1, <2>3, <2>5, <2>6 DEF body
  <1> QED
    BY <1>3, <1>4, <1>5

\* The types of an append and of a clean, in one piece each.
AppendType(a) ==
    /\ IsStore(a.left)
    /\ a \in [pc: {"idle", "trim", "rotate", "write", "converge"}, flow: {0} \cup Flows,
              size: Nat, left: {a.left}, name: Names]
CleanerType == cleaner \in [todo: SUBSET Names, before: SUBSET Flows,
                            answer: {"none", "ok", "error"}, moved: BOOLEAN]

LEMMA EmptyStore == IsStore(<<>>)
  <1> DEFINE e == <<>>
  <1>1. DOMAIN e = {} /\ e \in [{} -> File]
    BY SMT
  <1> HIDE DEF e
  <1>2. IsStore(e)
    BY <1>1 DEF IsStore
  <1> QED
    BY <1>2 DEF e

LEMMA RestingType ==
  /\ AppendType(Resting)
  /\ Resting.pc = "idle" /\ Resting.left = <<>> /\ Resting.name[2] = 0
  <1>1. /\ Resting.pc = "idle" /\ Resting.left = <<>> /\ Resting.name = <<1, 0>>
        /\ Resting.name[2] = 0
    BY DEF Resting
  <1>2. <<1, 0>> \in Names
    BY LimitsAssumption DEF LimitsAssumption, Names
  <1>3. IsStore(Resting.left)
    BY <1>1, EmptyStore
  <1> QED
    BY <1>1, <1>2, <1>3 DEF Resting, AppendType

\* The store and the append in it that a step leaves.
LEMMA AppendTypes ==
  ASSUME StoreTypeOK, app.pc \in {"trim", "rotate", "write"} => app.flow \in Flows,
         app.name[2] = 0,
         TrimUnlinks \/ TrimMisses \/ TrimEnds \/ Refuse \/ Rotate \/ Write
  PROVE  StoreTypeOK' /\ flow' = flow
  <1>0. /\ AppendType(app) /\ CleanerType /\ IsStore(files) /\ Today \in Names
        /\ clock \in Nat /\ app.name \in Names
    BY DEF StoreTypeOK, AppendType, CleanerType, Today, Names
  <1>u. flow' = flow /\ UNCHANGED world /\ UNCHANGED met
    BY DEF TrimUnlinks, TrimMisses, TrimEnds, Refuse, Rotate, Write
  <1>w. /\ flow \in [Flows -> FlowState] /\ day \in 1 .. MaxDay /\ up \in BOOLEAN
        /\ {stops, cleans} \subseteq Nat /\ met \subseteq {"clean", "stop"}
        /\ written \in Seq([flow : Flows, day : 1 .. MaxDay])
    BY DEF StoreTypeOK
  <1> SUFFICES /\ AppendType(app') /\ CleanerType' /\ IsStore(files') /\ clock' \in Nat
               /\ written' \in Seq([flow : Flows, day : 1 .. MaxDay])
    BY <1>u, <1>w DEF StoreTypeOK, AppendType, CleanerType, world
  <1>1. CASE TrimUnlinks
    <2>1. files' = Drop(files, Oldest(app.left)) /\ UNCHANGED <<cleaner, clock, written>>
          /\ app' = [app EXCEPT !.left = Drop(@, Oldest(app.left))]
      BY <1>1 DEF TrimUnlinks
    <2>2. IsStore(files') /\ IsStore(Drop(app.left, Oldest(app.left)))
      BY <1>0, <2>1, DropFacts DEF AppendType
    <2> DEFINE l == Drop(app.left, Oldest(app.left))
    <2>3. app' = [app EXCEPT !.left = l]
      BY <2>1
    <2> HIDE DEF l
    <2>4. AppendType(app')
      BY <1>0, <2>2, <2>3 DEF AppendType, l
    <2> QED
      BY <1>0, <1>w, <2>1, <2>2, <2>4 DEF CleanerType
  <1>2. CASE TrimMisses \/ Refuse
    <2>1. app' = Resting /\ UNCHANGED <<files, cleaner, clock, written>>
      BY <1>2 DEF TrimMisses, Refuse
    <2> QED
      BY <1>0, <1>w, <2>1, RestingType DEF CleanerType
  <1>3. CASE TrimEnds
    <2>1. /\ app' = IF app.pc = "trim" THEN [app EXCEPT !.pc = "rotate", !.name = Today] ELSE Resting
          /\ UNCHANGED <<files, cleaner, clock, written>>
      BY <1>3 DEF TrimEnds
    <2>2. AppendType([app EXCEPT !.pc = "rotate", !.name = Today])
      BY <1>0 DEF AppendType
    <2> QED
      BY <1>0, <1>w, <2>1, <2>2, RestingType DEF CleanerType
  <1>4. CASE Rotate
    <2>1. /\ files' = Rotated(files, app.name) /\ app' = [app EXCEPT !.pc = "write"]
          /\ \E b \in BOOLEAN : cleaner' = [cleaner EXCEPT !.moved = b]
          /\ UNCHANGED <<clock, written>>
      BY <1>4, <1>0 DEF Rotate, CleanerType
    <2>2. AppendType(app')
      BY <1>0, <2>1 DEF AppendType
    <2>3. IsStore(files')
      BY <1>0, <2>1, RotatedFacts
    <2>4. CleanerType'
      BY <1>0, <2>1 DEF CleanerType
    <2> QED
      BY <1>0, <1>w, <2>1, <2>2, <2>3, <2>4
  <1>5. CASE Write
    <2>0. app.flow \in Flows
      BY <1>5 DEF Write
    <2>1. /\ files' = Written(files, app.name) /\ clock' = clock + 1
          /\ written' = Append(written, [flow |-> app.flow, day |-> app.name[1]])
          /\ UNCHANGED cleaner
          /\ app' = [app EXCEPT !.pc = "converge", !.left = files'] \/ app' = Resting
      BY <1>5 DEF Write
    <2>2. IsStore(files')
      BY <1>0, <2>0, <2>1, WrittenFacts DEF IsWritten
    <2>3. AppendType([app EXCEPT !.pc = "converge", !.left = files'])
      BY <1>0, <2>2 DEF AppendType
    <2>4. written' \in Seq([flow : Flows, day : 1 .. MaxDay])
      <3> DEFINE r == [flow |-> app.flow, day |-> app.name[1]]
      <3>1. app.name[1] \in 1 .. MaxDay
        BY <1>0 DEF Names
      <3>2. r \in [flow : Flows, day : 1 .. MaxDay]
        BY <2>0, <3>1
      <3>3. written' = Append(written, r)
        BY <2>1
      <3> HIDE DEF r
      <3> QED
        BY <1>w, <3>2, <3>3
    <2> QED
      BY <1>0, <2>1, <2>2, <2>3, <2>4, RestingType DEF CleanerType
  <1> QED
    BY <1>1, <1>2, <1>3, <1>4, <1>5


-----------------------------------------------------------------------------
(* Capture: the invariant.                                                 *)

\* A record under way is that of one answered flow, which nobody has written yet;
\* only answered flows have records; a stopped mitmdump has none under way.
Appending == app.pc \in {"trim", "rotate", "write"}
AppendInv ==
    /\ Recorded \subseteq {f \in Flows : flow[f].phase = "over"}
    /\ ~up => app.pc = "idle"
    /\ app.name[2] = 0
    /\ Appending => /\ app.flow \in Flows \ Recorded
                  /\ flow[app.flow].phase = "over"
                  /\ app.size = 1 + flow[app.flow].req + Len(flow[app.flow].text)
    /\ app.pc = "write" => app.size <= MaxRecord

\* No flow is written twice.
OnceInv == \A i, j \in DOMAIN written : written[i].flow = written[j].flow => i = j

\* A file has records of its day that were written.
DayInv ==
    \A n \in DOMAIN files : \A g \in files[n].recs :
        \E i \in DOMAIN written : written[i].flow = g /\ written[i].day = n[1]

\* The file that was rotated is older than the day's, and so are its records.
OrderInv ==
    /\ \A n \in DOMAIN files : files[n].mtime < clock
    /\ \A n, m \in DOMAIN files : n[1] = m[1] /\ n[2] = 1 /\ m[2] = 0 =>
          /\ files[n].mtime < files[m].mtime
          /\ \A i, j \in DOMAIN written :
                written[i].flow \in files[n].recs /\ written[j].flow \in files[m].recs => i < j

\* Of the records a clean found, those are left whose file it has yet to remove.
CleanInv ==
    /\ cleaner.before \subseteq Recorded
    /\ cleaner.answer = "ok" => cleaner.todo = {}
    /\ ~cleaner.moved =>
          \A n \in DOMAIN files : files[n].recs \cap cleaner.before # {} => n \in cleaner.todo

\* As long as nobody cleans, a trim sees the store as it is.
CalmInv ==
    "clean" \notin met =>
        /\ cleaner.todo = {}
        /\ app.pc \in {"trim", "converge"} => app.left = files
        /\ NewestKept

\* An answered flow has its record, or its record is under way.
AnswerInv ==
    /\ AsTold
    /\ met = {} => \A f \in Answered : f \in Recorded \/ (Appending /\ app.flow = f)

\* What a trim has seen covers what there is; behind it there is room.
RoomInv ==
    /\ app.pc \in {"trim", "converge"} => Part(files, app.left)
    /\ app.pc \in {"rotate", "write"} => Total(files) <= MaxStore
    /\ Total(files) <= MaxStore + MaxRecord
    /\ (app.pc = "idle" /\ met = {}) => Total(files) <= MaxStore

StoreInv ==
    /\ StoreTypeOK /\ FlowInv /\ AppendInv /\ OnceInv /\ DayInv /\ OrderInv
    /\ CleanInv /\ CalmInv /\ AnswerInv /\ RoomInv

\* The application's steps, and mitmdump's end and start.
LEMMA OtherTypes ==
  ASSUME StoreTypeOK, FlowInv,
         CleanBegins \/ (\E n \in cleaner.todo : CleanRemoves(n) \/ CleanTrips(n))
         \/ Stop \/ Start \/ Midnight
  PROVE  StoreTypeOK' /\ FlowInv'
  <1>0. /\ AppendType(app) /\ CleanerType /\ IsStore(files)
        /\ clock \in Nat /\ {stops, cleans} \subseteq Nat
        /\ flow \in [Flows -> FlowState] /\ day \in 1 .. MaxDay /\ up \in BOOLEAN
        /\ met \subseteq {"clean", "stop"}
        /\ written \in Seq([flow : Flows, day : 1 .. MaxDay])
    BY DEF StoreTypeOK, AppendType, CleanerType
  <1>u. UNCHANGED <<clock, written>>
    BY DEF CleanBegins, CleanRemoves, CleanTrips, Stop, Start, Midnight, world
  <1> SUFFICES /\ AppendType(app') /\ CleanerType' /\ IsStore(files')
               /\ {stops', cleans'} \subseteq Nat
               /\ flow' \in [Flows -> FlowState] /\ day' \in 1 .. MaxDay /\ up' \in BOOLEAN
               /\ met' \subseteq {"clean", "stop"} /\ FlowInv'
    BY <1>0, <1>u DEF StoreTypeOK, AppendType, CleanerType
  <1>1. CASE CleanBegins
    <2>1. /\ cleaner' = [todo |-> DOMAIN files, before |-> Stored, answer |-> "none", moved |-> FALSE]
          /\ met' = met \cup {"clean"} /\ cleans' = cleans + 1
          /\ UNCHANGED <<flow, files, app, day, up, stops>>
      BY <1>1 DEF CleanBegins
    <2>2. DOMAIN files \subseteq Names /\ Stored \subseteq Flows
      BY <1>0, StoreFacts DEF Stored
    <2>3. CleanerType'
      BY <2>1, <2>2 DEF CleanerType
    <2> QED
      BY <1>0, <2>1, <2>3 DEF FlowInv
  <1>2. CASE \E n \in cleaner.todo : CleanRemoves(n) \/ CleanTrips(n)
    <2>1. PICK n \in cleaner.todo : CleanRemoves(n) \/ CleanTrips(n)
      BY <1>2
    <2>2. UNCHANGED <<flow, app, day, up, stops, cleans, met>>
      BY <2>1 DEF CleanRemoves, CleanTrips, world
    <2>3. IsStore(files')
      <3>1. files' = Drop(files, n) \/ files' = files
        BY <2>1 DEF CleanRemoves, CleanTrips
      <3>2. IsStore(Drop(files, n))
        BY <1>0, DropFacts
      <3> QED
        BY <1>0, <3>1, <3>2
    <2>4. CleanerType'
      <3>1. CASE CleanRemoves(n)
        BY <1>0, <3>1 DEF CleanRemoves, CleanerType
      <3>2. CASE CleanTrips(n)
        BY <1>0, <3>2 DEF CleanTrips, CleanerType
      <3> QED
        BY <2>1, <3>1, <3>2
    <2> QED
      BY <1>0, <2>2, <2>3, <2>4 DEF FlowInv
  <1>3. CASE Stop
    <2>1. /\ app' = Resting /\ up' = FALSE /\ stops' = stops + 1 /\ UNCHANGED <<files, cleaner, day, cleans>>
          /\ flow' = [f \in Flows |-> IF flow[f].phase = "open" THEN [NewFlow EXCEPT !.phase = "gone"]
                                      ELSE flow[f]]
          /\ met' \subseteq met \cup {"stop"}
      BY <1>3 DEF Stop
    <2> DEFINE gone == [NewFlow EXCEPT !.phase = "gone"]
    <2>2. /\ gone \in FlowState /\ gone.buf = 0 /\ gone.seen = 0 /\ gone.req = 0
          /\ gone.phase = "gone" /\ gone.body = <<>>
      <3>1. 0 \in 0 .. Budget /\ <<>> \in Seq(0 .. 4)
        BY LimitsAssumption DEF LimitsAssumption
      <3> QED
        BY <3>1 DEF NewFlow, FlowState
    <2>3. Sound(gone)
      <3>1. Smaller(0, Budget) = 0 /\ Budget \in Nat /\ Budget >= 0
        BY LimitsAssumption DEF LimitsAssumption, Smaller
      <3> HIDE DEF gone
      <3> QED
        BY <2>2, <3>1 DEF Sound
    <2> HIDE DEF gone
    <2>4. \A f \in Flows : flow'[f] = gone \/ flow'[f] = flow[f]
      BY <2>1 DEF gone
    <2>5. \A f \in Flows : flow'[f] \in FlowState /\ Sound(flow'[f])
      BY <1>0, <2>2, <2>3, <2>4 DEF FlowInv
    <2>6. flow' \in [Flows -> FlowState]
      BY <2>1, <2>5
    <2>7. FlowInv'
      BY <2>5 DEF FlowInv, Sound
    <2>8. AppendType(app') /\ CleanerType'
      BY <1>0, <2>1, RestingType DEF CleanerType
    <2>9. stops' \in Nat /\ cleans' \in Nat /\ up' \in BOOLEAN
      <3>1. stops' = stops + 1 /\ cleans' = cleans
        BY <2>1
      <3>2. stops' \in Nat /\ cleans' \in Nat
        BY <1>0, <3>1
      <3>3. up' = FALSE
        BY <2>1
      <3>4. up' \in BOOLEAN
        BY <3>3, Zenon
      <3> QED
        BY <3>2, <3>4
    <2>10. IsStore(files') /\ day' \in 1 .. MaxDay
      BY <1>0, <2>1
    <2>11. met' \subseteq {"clean", "stop"}
      BY <1>0, <2>1
    <2> QED
      BY <2>6, <2>7, <2>8, <2>9, <2>10, <2>11
  <1>4. CASE Start
    <2> DEFINE S == {n \in DOMAIN files : ~Expired(n)}
    <2>1. files' = Restrict(files, S) /\ up' = TRUE
          /\ UNCHANGED <<flow, app, cleaner, day, stops, cleans, met>>
      BY <1>4 DEF Start
    <2>2. S \subseteq DOMAIN files
      OBVIOUS
    <2> HIDE DEF S
    <2>3. files' = [n \in S |-> files[n]]
      BY <2>1 DEF Restrict
    <2>4. Part(files', files) /\ files' = [n \in DOMAIN files' |-> files'[n]]
      BY <2>2, <2>3 DEF Part
    <2>5. IsStore(files')
      BY <1>0, <2>4, PartFacts
    <2> QED
      BY <1>0, <2>1, <2>5 DEF FlowInv, CleanerType
  <1>5. CASE Midnight
    <2>1. day < MaxDay /\ day' = day + 1 /\ UNCHANGED <<flow, files, app, cleaner, up, stops, cleans, met>>
      BY <1>5 DEF Midnight
    <2>2. MaxDay \in Nat
      BY LimitsAssumption DEF LimitsAssumption
    <2> QED
      BY <1>0, <2>1, <2>2 DEF FlowInv, CleanerType
  <1> QED
    BY <1>1, <1>2, <1>3, <1>4, <1>5

LEMMA StoreTypeStep ==
  ASSUME StoreTypeOK, FlowInv, AppendInv, [StoreNext]_storeVars
  PROVE  StoreTypeOK' /\ FlowInv'
  <1>1. ASSUME NEW f \in Flows, RequestSeen(f) \/ Chunk(f) \/ Response(f) \/ Error(f)
        PROVE  StoreTypeOK' /\ FlowInv'
    <2>1. CASE RequestSeen(f) \/ Chunk(f)
      BY <2>1, HookTypes
    <2>2. CASE Response(f) \/ Error(f)
      BY <2>2, AnswerCases, RecordTypes
    <2> QED
      BY <1>1, <2>1, <2>2
  <1>2. CASE TrimUnlinks \/ TrimMisses \/ TrimEnds \/ Refuse \/ Rotate \/ Write
    <2>1. StoreTypeOK' /\ flow' = flow
      BY <1>2, AppendTypes DEF AppendInv, Appending
    <2> QED
      BY <2>1 DEF FlowInv
  <1>3. CASE CleanBegins \/ (\E n \in cleaner.todo : CleanRemoves(n) \/ CleanTrips(n))
             \/ Stop \/ Start \/ Midnight
    BY <1>3, OtherTypes
  <1>4. CASE UNCHANGED storeVars
    BY <1>4 DEF storeVars, world, StoreTypeOK, FlowInv
  <1> QED
    BY <1>1, <1>2, <1>3, <1>4 DEF StoreNext


Hook(f) == RequestSeen(f) \/ Chunk(f) \/ Response(f) \/ Error(f)

\* A hook changes its own flow, and may begin the append of its record.
LEMMA HookFacts ==
  ASSUME StoreTypeOK, FlowInv, NEW f \in Flows, Hook(f)
  PROVE  /\ UNCHANGED <<files, cleaner, world, clock, written, met>>
         /\ up /\ app.pc = "idle" /\ flow[f].phase \in {"new", "open"}
         /\ \A g \in Flows \ {f} : flow'[g] = flow[g]
         /\ flow'[f].phase = "over" => flow'[f].text = flow'[f].body \/ flow'[f].told
         /\ \/ app' = app /\ (flow'[f].phase = "over" => ScanFails)
            \/ /\ flow'[f].phase = "over" /\ app'.pc = "trim" /\ app'.flow = f
               /\ app'.size = 1 + flow'[f].req + Len(flow'[f].text)
               /\ app'.left = files /\ app'.name = Today
  <1>0. flow \in [Flows -> FlowState]
    BY DEF StoreTypeOK
  <1>1. up /\ app.pc = "idle" /\ flow[f].phase \in {"new", "open"}
    BY DEF Hook, RequestSeen, Chunk, Response, Error, Loop
  <1>2. CASE Chunk(f)
    <2>1. PICK n \in 1 .. Len(flow[f].body) - flow[f].seen : flow' = [flow EXCEPT ![f] = Tee(f, n)]
      BY <1>2 DEF Chunk
    <2>2. Tee(f, n).phase = "open"
      <3>1. flow[f] \in FlowState /\ flow[f].phase = "open"
        BY <1>0, <1>2 DEF Chunk
      <3> QED
        BY <3>1 DEF Tee, FlowState
    <2>3. flow'[f].phase = "open" /\ \A g \in Flows \ {f} : flow'[g] = flow[g]
      BY <1>0, <2>1, <2>2
    <2> QED
      BY <1>1, <1>2, <2>3 DEF Chunk
  <1>3. CASE RequestSeen(f)
    <2>1. \/ flow' = [flow EXCEPT ![f].phase = "gone"]
          \/ \E r \in Requests, teed \in BOOLEAN, body \in Bodies :
                flow' = [flow EXCEPT ![f] = [@ EXCEPT !.phase = "open", !.teed = teed, !.req = r,
                                                      !.body = body, !.cut = r > Budget]]
      BY <1>3 DEF RequestSeen
    <2>2. flow[f] \in FlowState
      BY <1>0
    <2>3. flow'[f].phase # "over" /\ \A g \in Flows \ {f} : flow'[g] = flow[g]
      <3>1. CASE flow' = [flow EXCEPT ![f].phase = "gone"]
        BY <1>0, <2>2, <3>1 DEF FlowState
      <3>2. ASSUME NEW r \in Requests, NEW teed \in BOOLEAN, NEW body \in Bodies,
                   flow' = [flow EXCEPT ![f] = [@ EXCEPT !.phase = "open", !.teed = teed, !.req = r,
                                                         !.body = body, !.cut = r > Budget]]
            PROVE  flow'[f].phase # "over" /\ \A g \in Flows \ {f} : flow'[g] = flow[g]
        BY <1>0, <2>2, <3>2 DEF FlowState
      <3> QED
        BY <2>1, <3>1, <3>2
    <2> QED
      BY <1>1, <1>3, <2>3 DEF RequestSeen
  <1>4. CASE Response(f) \/ Error(f)
    <2>1. UNCHANGED <<files, cleaner, world, clock, written, met>>
      BY <1>4, AnswerCases
    <2>2. PICK text \in Seq(0 .. 4), told \in BOOLEAN :
             Record(f, text, told) /\ (text = flow[f].body \/ told)
      BY <1>4, AnswerCases
    <2> DEFINE new == Over(f, text, told)
    <2>3. /\ new.phase = "over" /\ new.req = flow[f].req /\ new.body = flow[f].body
          /\ new.text = text /\ new.told = told
      BY DEF Over, NewFlow
    <2>4. flow' = [flow EXCEPT ![f] = new]
      BY <2>2 DEF Record
    <2>5. \/ app' = [pc |-> "trim", flow |-> f, size |-> 1 + flow[f].req + Len(text),
                     left |-> files, name |-> Today]
          \/ ScanFails /\ UNCHANGED app
      BY <2>2 DEF Record
    <2> HIDE DEF new
    <2>6. flow'[f] = new /\ \A g \in Flows \ {f} : flow'[g] = flow[g]
      BY <1>0, <2>4
    <2> QED
      BY <1>1, <2>1, <2>2, <2>3, <2>5, <2>6
  <1> QED
    BY <1>2, <1>3, <1>4 DEF Hook

\* What the sets of stored and of recorded flows are.
LEMMA StoredIs ==
  /\ \A g : g \in Stored <=> \E n \in DOMAIN files : g \in files[n].recs
  /\ \A g : g \in Stored' <=> \E n \in DOMAIN files' : g \in files'[n].recs
  BY DEF Stored

LEMMA RecordedIs ==
  /\ \A g : g \in Recorded <=> \E i \in DOMAIN written : written[i].flow = g
  /\ \A g : g \in Recorded' <=> \E i \in DOMAIN written' : written'[i].flow = g
  BY DEF Recorded

\* Only what has been written is stored, and only in the file of its day.
LEMMA StoredDays ==
  ASSUME OnceInv, DayInv
  PROVE  /\ Stored \subseteq Recorded
         /\ \A n \in DOMAIN files : \A i \in DOMAIN written :
               written[i].flow \in files[n].recs => written[i].day = n[1]
  BY StoredIs, RecordedIs DEF OnceInv, DayInv

\* The step of a write, as the invariants see it.
LEMMA WriteFacts ==
  ASSUME StoreTypeOK, AppendInv, Write
  PROVE  /\ app.pc = "write" /\ app.flow \in Flows /\ app.flow \notin Recorded
         /\ app.name \in Names /\ app.name[2] = 0
         /\ files' = Written(files, app.name) /\ clock' = clock + 1
         /\ DOMAIN files' = DOMAIN files \cup {app.name}
         /\ \A m \in DOMAIN files \ {app.name} : files'[m] = files[m]
         /\ app.name \in DOMAIN files => files'[app.name].recs = files[app.name].recs \cup {app.flow}
         /\ app.name \notin DOMAIN files => files'[app.name].recs = {app.flow}
         /\ files'[app.name].mtime = clock
         /\ UNCHANGED <<flow, cleaner, world, met>>
         /\ Len(written) \in Nat /\ DOMAIN written = 1 .. Len(written)
         /\ DOMAIN written' = 1 .. Len(written) + 1
         /\ \A i \in DOMAIN written : written'[i] = written[i]
         /\ written'[Len(written) + 1].flow = app.flow
         /\ written'[Len(written) + 1].day = app.name[1]
         /\ Recorded' = Recorded \cup {app.flow}
         /\ \/ app'.pc = "converge" /\ app'.left = files'
            \/ ScanFails /\ app' = Resting
         /\ app'.name[2] = 0
  <1>1. app.pc = "write" /\ app.flow \in Flows /\ app.flow \notin Recorded
    BY DEF Write, AppendInv, Appending
  <1>2. AppendType(app) /\ app.name \in Names /\ app.name[2] = 0
    BY DEF StoreTypeOK, AppendType, AppendInv
  <1>3. written \in Seq([flow : Flows, day : 1 .. MaxDay])
    BY DEF StoreTypeOK
  <1> DEFINE r == [flow |-> app.flow, day |-> app.name[1]]
             k == Len(written)
  <1>4. written' = Append(written, r) /\ r.flow = app.flow /\ r.day = app.name[1]
    BY DEF Write
  <1> HIDE DEF r
  <1>5. /\ k \in Nat /\ DOMAIN written = 1 .. k /\ DOMAIN written' = 1 .. k + 1
        /\ \A i \in DOMAIN written : written'[i] = written[i]
        /\ written'[k + 1] = r
    BY <1>3, <1>4
  <1>6. Recorded' = Recorded \cup {app.flow}
    <2>1. \A i \in DOMAIN written' : i \in DOMAIN written \/ i = k + 1
      BY <1>5
    <2>2. k + 1 \in DOMAIN written' /\ DOMAIN written \subseteq DOMAIN written'
      BY <1>5
    <2> HIDE DEF k
    <2>3. \A g : g \in Recorded' <=> g \in Recorded \/ g = app.flow
      BY <1>4, <1>5, <2>1, <2>2, RecordedIs
    <2> QED
      BY <2>3
  <1>7. \/ app'.pc = "converge" /\ app'.left = files' /\ app'.name = app.name
        \/ ScanFails /\ app' = Resting
    BY <1>2 DEF Write, AppendType
  <1>8. app'.name[2] = 0
    BY <1>2, <1>7, RestingType
  <1>9. /\ files' = Written(files, app.name) /\ clock' = clock + 1
        /\ UNCHANGED <<flow, cleaner, world, met>>
    BY DEF Write
  <1>10. /\ DOMAIN files' = DOMAIN files \cup {app.name}
         /\ \A m \in DOMAIN files \ {app.name} : files'[m] = files[m]
         /\ app.name \in DOMAIN files => files'[app.name].recs = files[app.name].recs \cup {app.flow}
         /\ app.name \notin DOMAIN files => files'[app.name].recs = {app.flow}
         /\ files'[app.name].mtime = clock
    <2> DEFINE gs == Written(files, app.name)
    <2>0. IsStore(files)
      BY DEF StoreTypeOK
    <2>1. /\ DOMAIN gs = DOMAIN files \cup {app.name}
          /\ \A m \in DOMAIN files \ {app.name} : gs[m] = files[m]
          /\ app.name \in DOMAIN files => gs[app.name].recs = files[app.name].recs \cup {app.flow}
          /\ app.name \notin DOMAIN files => gs[app.name].recs = {app.flow}
          /\ gs[app.name].mtime = clock
      BY <1>1, <1>2, <2>0, WrittenFacts DEF IsWritten
    <2>2. files' = gs
      BY <1>9
    <2> HIDE DEF gs
    <2> QED
      BY <2>1, <2>2
  <1> HIDE DEF k
  <1> QED
    BY <1>1, <1>2, <1>4, <1>5, <1>6, <1>7, <1>8, <1>9, <1>10 DEF k

LEMMA AppendStep ==
  ASSUME StoreTypeOK, FlowInv, AppendInv, [StoreNext]_storeVars
  PROVE  AppendInv'
  <1>1. ASSUME NEW f \in Flows, Hook(f)
        PROVE  AppendInv'
    <2>1. /\ UNCHANGED written /\ UNCHANGED up
          /\ up /\ app.pc = "idle" /\ flow[f].phase \in {"new", "open"}
          /\ \A g \in Flows \ {f} : flow'[g] = flow[g]
          /\ \/ app' = app
             \/ /\ flow'[f].phase = "over" /\ app'.pc = "trim" /\ app'.flow = f
                /\ app'.size = 1 + flow'[f].req + Len(flow'[f].text)
                /\ app'.name = Today
      BY <1>1, HookFacts DEF world
    <2>2. Recorded' = Recorded /\ f \notin Recorded
      BY <2>1 DEF Recorded, AppendInv
    <2>3. Recorded' \subseteq {g \in Flows : flow'[g].phase = "over"}
      BY <2>1, <2>2 DEF AppendInv
    <2>4. CASE app' = app
      BY <2>1, <2>3, <2>4 DEF AppendInv, Appending
    <2>5. CASE app'.pc = "trim"
      <3>1. app'.name[2] = 0
        BY <2>1, <2>5 DEF Today
      <3> QED
        BY <2>1, <2>2, <2>3, <2>5, <3>1 DEF AppendInv, Appending
    <2> QED
      BY <2>1, <2>4, <2>5
  <1>2. CASE TrimUnlinks \/ TrimMisses \/ TrimEnds \/ Refuse \/ Rotate
    <2>0. AppendType(app)
      BY DEF StoreTypeOK, AppendType
    <2>1. UNCHANGED <<flow, written, up>>
      BY <1>2 DEF TrimUnlinks, TrimMisses, TrimEnds, Refuse, Rotate, world
    <2>2. Recorded' = Recorded
      BY <2>1 DEF Recorded
    <2>3. app'.name[2] = 0
      <3>1. \/ app' = Resting \/ app'.name = app.name
            \/ app' = [app EXCEPT !.pc = "rotate", !.name = Today]
        BY <1>2, <2>0 DEF TrimUnlinks, TrimMisses, TrimEnds, Refuse, Rotate, AppendType
      <3>2. Today[2] = 0
        BY DEF Today
      <3>3. app' = [app EXCEPT !.pc = "rotate", !.name = Today] => app'.name = Today
        BY <2>0 DEF AppendType
      <3> QED
        BY <3>1, <3>2, <3>3, RestingType DEF AppendInv
    <2>4. \/ app'.pc = "idle"
          \/ app.pc = "converge" /\ app'.pc = "converge"
          \/ /\ app.pc \in {"trim", "rotate"} /\ app'.pc \in {"trim", "rotate", "write"}
             /\ app'.flow = app.flow /\ app'.size = app.size
             /\ app'.pc = "write" => app.size <= MaxRecord
      <3>1. CASE TrimUnlinks
        BY <2>0, <3>1 DEF TrimUnlinks, AppendType
      <3>2. CASE TrimMisses \/ Refuse
        BY <3>2, RestingType DEF TrimMisses, Refuse
      <3>3. CASE TrimEnds
        BY <2>0, <3>3, RestingType DEF TrimEnds, AppendType
      <3>4. CASE Rotate
        <4>1. app.pc = "rotate" /\ app' = [app EXCEPT !.pc = "write"] /\ ~(app.size > MaxRecord)
          BY <3>4 DEF Rotate, TooLarge
        <4>2. app.size <= MaxRecord
          <5>1. app.size \in Nat /\ MaxRecord \in Nat
            BY <2>0, LimitsAssumption DEF AppendType, LimitsAssumption
          <5> QED
            BY <4>1, <5>1
        <4> QED
          BY <2>0, <4>1, <4>2 DEF AppendType
      <3> QED
        BY <1>2, <3>1, <3>2, <3>3, <3>4
    <2> QED
      BY <2>1, <2>2, <2>3, <2>4 DEF AppendInv, Appending
  <1>3. CASE Write
    <2>1. /\ UNCHANGED <<flow, up>> /\ Recorded' = Recorded \cup {app.flow}
          /\ app'.pc \in {"converge", "idle"} /\ app'.name[2] = 0
          /\ app.pc = "write"
      BY <1>3, WriteFacts, RestingType DEF world
    <2> QED
      BY <2>1 DEF AppendInv, Appending
  <1>4. CASE Stop
    <2>1. app' = Resting /\ UNCHANGED written
          /\ flow' = [f \in Flows |-> IF flow[f].phase = "open" THEN [NewFlow EXCEPT !.phase = "gone"]
                                      ELSE flow[f]]
      BY <1>4 DEF Stop
    <2>2. Recorded' = Recorded
      BY <2>1 DEF Recorded
    <2>3. \A f \in Flows : flow[f].phase = "over" => flow'[f].phase = "over"
      BY <2>1
    <2> QED
      BY <2>1, <2>2, <2>3, RestingType DEF AppendInv, Appending
  <1>5. CASE Start \/ Midnight \/ CleanBegins \/ UNCHANGED storeVars
             \/ (\E n \in cleaner.todo : CleanRemoves(n) \/ CleanTrips(n))
    <2>1. UNCHANGED <<flow, app, written>> /\ (up' = up \/ up' = TRUE)
      BY <1>5 DEF Start, Midnight, CleanBegins, CleanRemoves, CleanTrips, storeVars, world
    <2>2. Recorded' = Recorded
      BY <2>1 DEF Recorded
    <2> QED
      BY <2>1, <2>2 DEF AppendInv, Appending
  <1> QED
    BY <1>1, <1>2, <1>3, <1>4, <1>5 DEF StoreNext, Hook


\* What a step does to the store: it removes files, or is a rotation or a write.
LEMMA FilesStep ==
  ASSUME StoreTypeOK, FlowInv, [StoreNext]_storeVars
  PROVE  \/ UNCHANGED <<written, clock>> /\ Part(files', files)
         \/ Rotate \/ Write
  <1>1. \A n : Part(Drop(files, n), files)
    BY DropFacts DEF Part
  <1>2. Part(files, files)
    BY DEF Part
  <1>3. ASSUME NEW f \in Flows, Hook(f)
        PROVE  UNCHANGED <<written, clock>> /\ files' = files
    BY <1>3, HookFacts
  <1>4. CASE TrimUnlinks
    BY <1>1, <1>4 DEF TrimUnlinks
  <1>5. CASE TrimMisses \/ TrimEnds \/ Refuse \/ Stop \/ Midnight \/ CleanBegins \/ UNCHANGED storeVars
    BY <1>2, <1>5 DEF TrimMisses, TrimEnds, Refuse, Stop, Midnight, CleanBegins, storeVars
  <1>6. CASE \E n \in cleaner.todo : CleanRemoves(n) \/ CleanTrips(n)
    BY <1>1, <1>2, <1>6 DEF CleanRemoves, CleanTrips
  <1>7. CASE Start
    <2> DEFINE S == {n \in DOMAIN files : ~Expired(n)}
    <2>1. files' = Restrict(files, S) /\ UNCHANGED <<written, clock>>
      BY <1>7 DEF Start
    <2>2. S \subseteq DOMAIN files
      OBVIOUS
    <2> HIDE DEF S
    <2>3. files' = [n \in S |-> files[n]]
      BY <2>1 DEF Restrict
    <2>4. Part(files', files)
      BY <2>2, <2>3 DEF Part
    <2> QED
      BY <2>1, <2>4
  <1> QED
    BY <1>2, <1>3, <1>4, <1>5, <1>6, <1>7 DEF StoreNext, Hook

\* After a rotation a file is what it was, or what the day's file was.
LEMMA RotateFacts ==
  ASSUME StoreTypeOK, AppendInv, Rotate
  PROVE  /\ UNCHANGED <<flow, world, clock, written, met>>
         /\ app.pc = "rotate" /\ app.name \in Names /\ app.name[2] = 0
         /\ app'.pc = "write" /\ app'.flow = app.flow /\ app'.size = app.size
         /\ cleaner'.todo = cleaner.todo /\ cleaner'.before = cleaner.before
         /\ cleaner'.answer = cleaner.answer
         /\ cleaner'.moved <=> cleaner.moved \/ (cleaner.todo # {} /\ files' # files)
         /\ \/ files' = files
            \/ /\ app.name \in DOMAIN files
               /\ DOMAIN files' = (DOMAIN files \ {app.name}) \cup {<<app.name[1], 1>>}
               /\ files'[<<app.name[1], 1>>] = files[app.name]
               /\ \A m \in DOMAIN files \ {app.name, <<app.name[1], 1>>} : files'[m] = files[m]
  <1>1. AppendType(app) /\ CleanerType /\ IsStore(files) /\ app.name \in Names /\ app.name[2] = 0
    BY DEF StoreTypeOK, AppendType, CleanerType, AppendInv
  <1>2. files' = Rotated(files, app.name)
    BY DEF Rotate
  <1>3. /\ app.pc = "rotate" /\ app'.pc = "write" /\ app'.flow = app.flow /\ app'.size = app.size
    BY <1>1 DEF Rotate, AppendType
  <1>4. /\ cleaner'.todo = cleaner.todo /\ cleaner'.before = cleaner.before
        /\ cleaner'.answer = cleaner.answer
        /\ cleaner'.moved <=> cleaner.moved \/ (cleaner.todo # {} /\ files' # files)
    <2> DEFINE b == cleaner.moved \/ (ScanFails /\ files' # files)
    <2>1. cleaner' = [cleaner EXCEPT !.moved = b]
      BY DEF Rotate
    <2>2. b <=> cleaner.moved \/ (cleaner.todo # {} /\ files' # files)
      BY DEF ScanFails
    <2> HIDE DEF b
    <2>3. /\ cleaner'.todo = cleaner.todo /\ cleaner'.before = cleaner.before
          /\ cleaner'.answer = cleaner.answer /\ cleaner'.moved = b
      BY <1>1, <2>1 DEF CleanerType
    <2> QED
      BY <2>2, <2>3
  <1>5. UNCHANGED <<flow, world, clock, written, met>>
    BY DEF Rotate
  <1> QED
    BY <1>1, <1>2, <1>3, <1>4, <1>5, RotatedFacts

LEMMA OnceStep ==
  ASSUME StoreTypeOK, FlowInv, AppendInv, OnceInv, [StoreNext]_storeVars
  PROVE  OnceInv'
  <1>1. CASE UNCHANGED written
    BY <1>1 DEF OnceInv
  <1>2. CASE Write
    <2> DEFINE k == Len(written)
    <2>1. /\ k \in Nat /\ DOMAIN written = 1 .. k /\ DOMAIN written' = 1 .. k + 1
          /\ \A i \in DOMAIN written : written'[i] = written[i]
          /\ written'[k + 1].flow = app.flow /\ app.flow \notin Recorded
      BY <1>2, WriteFacts
    <2>2. \A i \in DOMAIN written' : i \in DOMAIN written \/ i = k + 1
      BY <2>1
    <2>3. \A i \in DOMAIN written : written[i].flow # app.flow
      BY <2>1, RecordedIs
    <2> HIDE DEF k
    <2>4. ASSUME NEW i \in DOMAIN written', NEW j \in DOMAIN written',
                 written'[i].flow = written'[j].flow
          PROVE  i = j
      BY <2>1, <2>2, <2>3, <2>4 DEF OnceInv
    <2> QED
      BY <2>4 DEF OnceInv
  <1> QED
    BY <1>1, <1>2, FilesStep DEF Rotate

LEMMA DayStep ==
  ASSUME StoreTypeOK, FlowInv, AppendInv, DayInv, [StoreNext]_storeVars
  PROVE  DayInv'
  <1>1. CASE UNCHANGED written /\ Part(files', files)
    BY <1>1 DEF DayInv, Part
  <1>2. CASE Rotate
    <2> DEFINE q == <<app.name[1], 1>>
    <2>1. UNCHANGED written
      BY <1>2, RotateFacts
    <2>2. CASE files' = files
      BY <2>1, <2>2 DEF DayInv
    <2>3. CASE files' # files
      <3>1. /\ app.name \in DOMAIN files
            /\ DOMAIN files' = (DOMAIN files \ {app.name}) \cup {q}
            /\ files'[q] = files[app.name] /\ q[1] = app.name[1]
            /\ \A m \in DOMAIN files \ {app.name, q} : files'[m] = files[m]
        BY <1>2, <2>3, RotateFacts
      <3> HIDE DEF q
      <3>2. ASSUME NEW n \in DOMAIN files', NEW g \in files'[n].recs
            PROVE  \E i \in DOMAIN written : written[i].flow = g /\ written[i].day = n[1]
        <4>1. PICK m \in DOMAIN files : files[m] = files'[n] /\ m[1] = n[1]
          BY <3>1
        <4>2. g \in files[m].recs
          BY <3>2, <4>1
        <4> QED
          BY <4>1, <4>2 DEF DayInv
      <3> QED
        BY <2>1, <3>2 DEF DayInv
    <2> QED
      BY <2>2, <2>3
  <1>3. CASE Write
    <2> DEFINE k == Len(written)
    <2>1. /\ k \in Nat /\ DOMAIN written = 1 .. k /\ DOMAIN written' = 1 .. k + 1
          /\ \A i \in DOMAIN written : written'[i] = written[i]
          /\ written'[k + 1].flow = app.flow /\ written'[k + 1].day = app.name[1]
          /\ files' = Written(files, app.name) /\ app.name \in Names /\ app.flow \in Flows
      BY <1>3, WriteFacts
    <2>2. k + 1 \in DOMAIN written' /\ DOMAIN written \subseteq DOMAIN written'
      BY <2>1
    <2>3. IsStore(files)
      BY DEF StoreTypeOK
    <2>4. /\ DOMAIN files' = DOMAIN files \cup {app.name}
          /\ \A m \in DOMAIN files \ {app.name} : files'[m] = files[m]
          /\ app.name \in DOMAIN files => files'[app.name].recs = files[app.name].recs \cup {app.flow}
          /\ app.name \notin DOMAIN files => files'[app.name].recs = {app.flow}
      BY <1>3, WriteFacts
    <2> HIDE DEF k
    <2>5. ASSUME NEW n \in DOMAIN files', NEW g \in files'[n].recs
          PROVE  \E i \in DOMAIN written' : written'[i].flow = g /\ written'[i].day = n[1]
      <3>1. CASE n = app.name /\ g = app.flow
        BY <2>1, <2>2, <3>1
      <3>2. CASE ~(n = app.name /\ g = app.flow)
        <4>1. n \in DOMAIN files /\ g \in files[n].recs
          BY <2>4, <2>5, <3>2
        <4>2. PICK i \in DOMAIN written : written[i].flow = g /\ written[i].day = n[1]
          BY <4>1 DEF DayInv
        <4> QED
          BY <2>1, <2>2, <4>2
      <3> QED
        BY <3>1, <3>2
    <2> QED
      BY <2>5 DEF DayInv
  <1> QED
    BY <1>1, <1>2, <1>3, FilesStep

LEMMA OrderStep ==
  ASSUME StoreTypeOK, FlowInv, AppendInv, OnceInv, DayInv, OrderInv, [StoreNext]_storeVars
  PROVE  OrderInv'
  <1>0. IsStore(files) /\ clock \in Nat
    BY DEF StoreTypeOK
  <1>1. CASE UNCHANGED <<written, clock>> /\ Part(files', files)
    BY <1>1 DEF OrderInv, Part
  <1>2. CASE Rotate
    <2> DEFINE q == <<app.name[1], 1>>
    <2>1. UNCHANGED <<written, clock>>
      BY <1>2, RotateFacts
    <2>2. CASE files' = files
      BY <2>1, <2>2 DEF OrderInv
    <2>3. CASE files' # files
      <3>1. /\ app.name \in DOMAIN files /\ app.name \in Names
            /\ DOMAIN files' = (DOMAIN files \ {app.name}) \cup {q}
            /\ files'[q] = files[app.name] /\ q[1] = app.name[1] /\ q[2] = 1 /\ app.name[2] = 0
            /\ \A m \in DOMAIN files \ {app.name, q} : files'[m] = files[m]
        BY <1>2, <2>3, RotateFacts
      <3>2. \A n \in DOMAIN files : n \in Names
        BY <1>0, StoreFacts
      <3>3. \A n \in Names : n[1] = app.name[1] /\ n[2] = 1 => n = q
        BY DEF Names
      <3>4. \A n \in Names : n[1] = app.name[1] /\ n[2] = 0 => n = app.name
        BY <3>1 DEF Names
      <3> HIDE DEF q
      <3>5. \A n \in DOMAIN files' : files'[n].mtime < clock
        BY <3>1 DEF OrderInv
      <3>6. ASSUME NEW n \in DOMAIN files', NEW m \in DOMAIN files',
                   n[1] = m[1], n[2] = 1, m[2] = 0
            PROVE  /\ n \in DOMAIN files /\ m \in DOMAIN files
                   /\ files'[n] = files[n] /\ files'[m] = files[m]
        <4>1. m # q /\ m # app.name
          <5>1. app.name \notin DOMAIN files'
            BY <3>1
          <5>2. m # q
            BY <3>1, <3>6
          <5> QED
            BY <5>1, <5>2
        <4>2. m \in DOMAIN files /\ files'[m] = files[m]
          BY <3>1, <4>1
        <4>3. n # q
          BY <3>1, <3>2, <3>4, <3>6, <4>1, <4>2
        <4>4. n # app.name
          BY <3>1, <3>6
        <4> QED
          BY <3>1, <4>2, <4>3, <4>4
      <3> QED
        BY <2>1, <3>5, <3>6 DEF OrderInv
    <2> QED
      BY <2>2, <2>3
  <1>3. CASE Write
    <2> DEFINE k == Len(written)
    <2>1. /\ k \in Nat /\ DOMAIN written = 1 .. k /\ DOMAIN written' = 1 .. k + 1
          /\ \A i \in DOMAIN written : written'[i] = written[i]
          /\ written'[k + 1].flow = app.flow /\ app.flow \notin Recorded
          /\ files' = Written(files, app.name) /\ app.name \in Names /\ app.flow \in Flows
          /\ app.name[2] = 0 /\ clock' = clock + 1
      BY <1>3, WriteFacts
    <2>2. /\ DOMAIN files' = DOMAIN files \cup {app.name}
          /\ \A m \in DOMAIN files \ {app.name} : files'[m] = files[m]
          /\ app.name \in DOMAIN files => files'[app.name].recs = files[app.name].recs \cup {app.flow}
          /\ app.name \notin DOMAIN files => files'[app.name].recs = {app.flow}
          /\ files'[app.name].mtime = clock
      BY <1>3, WriteFacts
    <2>3. \A n \in DOMAIN files : files[n].mtime \in Nat /\ files[n].mtime < clock
      BY <1>0, StoreFacts DEF OrderInv
    <2>4. \A n \in DOMAIN files' : files'[n].mtime < clock + 1
      BY <1>0, <2>2, <2>3
    <2>5. \A i \in DOMAIN written' : i \in DOMAIN written \/ (i = k + 1 /\ \A j \in DOMAIN written : j < i)
      BY <2>1
    <2>6. \A n \in DOMAIN files : app.flow \notin files[n].recs
      BY <2>1, StoredDays, StoredIs
    <2> HIDE DEF k
    <2>7. ASSUME NEW n \in DOMAIN files', NEW m \in DOMAIN files',
                 n[1] = m[1], n[2] = 1, m[2] = 0
          PROVE  /\ files'[n].mtime < files'[m].mtime
                 /\ \A i, j \in DOMAIN written' :
                       written'[i].flow \in files'[n].recs /\ written'[j].flow \in files'[m].recs => i < j
      <3>1. n # app.name /\ n \in DOMAIN files /\ files'[n] = files[n]
        BY <2>1, <2>2, <2>7
      <3>2. ASSUME NEW i \in DOMAIN written', written'[i].flow \in files'[n].recs
            PROVE  i \in DOMAIN written /\ written'[i] = written[i]
        BY <2>1, <2>5, <2>6, <3>1, <3>2
      <3>3. CASE m # app.name
        <4>1. m \in DOMAIN files /\ files'[m] = files[m]
          BY <2>2, <3>3
        <4>2. ASSUME NEW j \in DOMAIN written', written'[j].flow \in files'[m].recs
              PROVE  j \in DOMAIN written /\ written'[j] = written[j]
          BY <2>1, <2>5, <2>6, <4>1, <4>2
        <4>3. files[n].mtime < files[m].mtime
          BY <2>7, <3>1, <4>1 DEF OrderInv
        <4>4. \A i, j \in DOMAIN written :
                 written[i].flow \in files[n].recs /\ written[j].flow \in files[m].recs => i < j
          BY <2>7, <3>1, <4>1 DEF OrderInv
        <4> QED
          BY <3>1, <3>2, <4>1, <4>2, <4>3, <4>4
      <3>4. CASE m = app.name
        <4>1. files'[n].mtime < files'[m].mtime
          BY <2>2, <2>3, <3>1, <3>4
        <4>2. ASSUME NEW i \in DOMAIN written', NEW j \in DOMAIN written',
                     written'[i].flow \in files'[n].recs, written'[j].flow \in files'[m].recs
              PROVE  i < j
          <5>1. i \in DOMAIN written /\ written'[i] = written[i]
            BY <3>2, <4>2
          <5>2. CASE j \notin DOMAIN written
            BY <2>5, <5>1, <5>2
          <5>3. CASE j \in DOMAIN written
            <6>1. written'[j] = written[j] /\ written[j].flow \in Recorded
              BY <2>1, <5>3, RecordedIs
            <6>2. written[j].flow # app.flow
              BY <2>1, <6>1
            <6>3. m \in DOMAIN files /\ written[j].flow \in files[m].recs
              BY <2>2, <3>4, <4>2, <6>1, <6>2
            <6> QED
              BY <2>7, <3>1, <4>2, <5>1, <5>3, <6>3 DEF OrderInv
          <5> QED
            BY <5>2, <5>3
        <4> QED
          BY <4>1, <4>2
      <3> QED
        BY <3>3, <3>4
    <2> QED
      BY <2>1, <2>4, <2>7 DEF OrderInv
  <1> QED
    BY <1>1, <1>2, <1>3, FilesStep


LEMMA CleanStep ==
  ASSUME StoreTypeOK, FlowInv, AppendInv, OnceInv, DayInv, CleanInv, [StoreNext]_storeVars
  PROVE  CleanInv'
  <1>0. CleanerType
    BY DEF StoreTypeOK, CleanerType
  <1>1. CASE UNCHANGED <<cleaner, written>> /\ Part(files', files)
    <2>1. Recorded' = Recorded
      BY <1>1 DEF Recorded
    <2> QED
      BY <1>1, <2>1 DEF CleanInv, Part
  <1>2. CASE Rotate
    <2>1. /\ UNCHANGED written
          /\ cleaner'.todo = cleaner.todo /\ cleaner'.before = cleaner.before
          /\ cleaner'.answer = cleaner.answer
          /\ cleaner'.moved <=> cleaner.moved \/ (cleaner.todo # {} /\ files' # files)
      BY <1>2, RotateFacts
    <2>2. Recorded' = Recorded
      BY <2>1 DEF Recorded
    <2>3. \A n \in DOMAIN files' : \E m \in DOMAIN files : files'[n] = files[m]
      BY <1>2, RotateFacts
    <2>4. ASSUME ~cleaner'.moved, NEW n \in DOMAIN files', files'[n].recs \cap cleaner'.before # {}
          PROVE  n \in cleaner'.todo
      <3>1. CASE files' = files
        BY <2>1, <2>4, <3>1 DEF CleanInv
      <3>2. CASE files' # files
        <4>1. cleaner.todo = {} /\ ~cleaner.moved
          BY <2>1, <2>4, <3>2
        <4>2. PICK m \in DOMAIN files : files'[n] = files[m]
          BY <2>3, <2>4
        <4>3. files[m].recs \cap cleaner.before # {}
          BY <2>1, <2>4, <4>2
        <4>4. m \in cleaner.todo
          BY <4>1, <4>3 DEF CleanInv
        <4> QED
          BY <4>1, <4>4
      <3> QED
        BY <3>1, <3>2
    <2> QED
      BY <2>1, <2>2, <2>4 DEF CleanInv
  <1>3. CASE Write
    <2>1. /\ Recorded' = Recorded \cup {app.flow} /\ app.flow \notin Recorded /\ UNCHANGED cleaner
          /\ DOMAIN files' = DOMAIN files \cup {app.name}
          /\ \A m \in DOMAIN files \ {app.name} : files'[m] = files[m]
          /\ app.name \in DOMAIN files => files'[app.name].recs = files[app.name].recs \cup {app.flow}
          /\ app.name \notin DOMAIN files => files'[app.name].recs = {app.flow}
      BY <1>3, WriteFacts
    <2>2. app.flow \notin cleaner.before
      BY <2>1 DEF CleanInv
    <2>3. ASSUME NEW n \in DOMAIN files', files'[n].recs \cap cleaner.before # {}
          PROVE  n \in DOMAIN files /\ files[n].recs \cap cleaner.before # {}
      BY <2>1, <2>2, <2>3
    <2> QED
      BY <2>1, <2>3 DEF CleanInv
  <1>4. CASE CleanBegins
    <2>1. /\ cleaner'.todo = DOMAIN files /\ cleaner'.before = Stored /\ cleaner'.answer = "none"
          /\ UNCHANGED <<files, written>>
      BY <1>4 DEF CleanBegins
    <2>2. Recorded' = Recorded
      BY <2>1 DEF Recorded
    <2>3. Stored \subseteq Recorded
      BY StoredDays
    <2> QED
      BY <2>1, <2>2, <2>3 DEF CleanInv
  <1>5. ASSUME NEW n \in cleaner.todo, CleanRemoves(n)
        PROVE  CleanInv'
    <2>1. files' = Drop(files, n) /\ UNCHANGED written
      BY <1>5 DEF CleanRemoves
    <2>2. /\ cleaner'.todo = cleaner.todo \ {n} /\ cleaner'.before = cleaner.before
          /\ cleaner'.moved = cleaner.moved
          /\ cleaner'.answer = IF cleaner.todo = {n} THEN "ok" ELSE cleaner.answer
      BY <1>0, <1>5 DEF CleanRemoves, CleanerType
    <2>3. Recorded' = Recorded
      BY <2>1 DEF Recorded
    <2>4. /\ DOMAIN files' = DOMAIN files \ {n}
          /\ \A m \in DOMAIN files' : files'[m] = files[m]
      BY <2>1, DropFacts
    <2>5. cleaner'.answer = "ok" => cleaner'.todo = {}
      BY <1>5, <2>2 DEF CleanInv
    <2> QED
      BY <2>2, <2>3, <2>4, <2>5 DEF CleanInv
  <1>6. ASSUME NEW n \in cleaner.todo, CleanTrips(n)
        PROVE  CleanInv'
    <2>1. UNCHANGED <<files, written>>
      BY <1>6 DEF CleanTrips
    <2>2. cleaner'.todo = {} /\ cleaner'.before = {}
      BY <1>0, <1>6 DEF CleanTrips, CleanerType
    <2> QED
      BY <2>1, <2>2 DEF CleanInv
  <1>7. ASSUME NEW f \in Flows, Hook(f)
        PROVE  UNCHANGED cleaner /\ UNCHANGED written /\ ~Rotate /\ ~Write
    BY <1>7, HookFacts DEF Rotate, Write
  <1>8. CASE Rotate \/ Write
    BY <1>2, <1>3, <1>8
  <1>9. CASE TrimUnlinks \/ TrimMisses \/ TrimEnds \/ Refuse \/ Stop \/ Start \/ Midnight
             \/ UNCHANGED storeVars \/ (\E f \in Flows : Hook(f))
    <2>1. UNCHANGED cleaner
      BY <1>7, <1>9 DEF TrimUnlinks, TrimMisses, TrimEnds, Refuse, Stop, Start, Midnight, storeVars
    <2> QED
      BY <1>1, <1>8, <2>1, FilesStep
  <1> QED
    BY <1>4, <1>5, <1>6, <1>8, <1>9 DEF StoreNext, Hook

LEMMA OldestFacts ==
  ASSUME NEW fs, IsStore(fs), Total(fs) > MaxStore
  PROVE  Oldest(fs) \in DOMAIN fs /\ \A m \in DOMAIN fs : fs[Oldest(fs)].mtime <= fs[m].mtime
  <1>1. DOMAIN fs # {}
    <2>1. DOMAIN fs = {} => Total(fs) = 0
      BY StoreFacts, TotalFacts
    <2>2. MaxStore \in Nat
      BY LimitsAssumption DEF LimitsAssumption
    <2> DEFINE t == Total(fs)
    <2>3. t > MaxStore /\ (DOMAIN fs = {} => t = 0)
      BY <2>1
    <2> HIDE DEF t
    <2>4. t # 0
      BY <2>2, <2>3
    <2> QED
      BY <2>3, <2>4
  <1> DEFINE T == {fs[n].mtime : n \in DOMAIN fs}
  <1>2. T \subseteq Nat /\ T # {}
    BY <1>1, StoreFacts
  <1>3. Min(T) \in T /\ \A t \in T : Min(T) <= t
    <2> HIDE DEF T
    <2> QED
      BY <1>2, LeastOf
  <1>4. PICK n \in DOMAIN fs : fs[n].mtime = Min(T)
    BY <1>3
  <1>5. \A m \in DOMAIN fs : fs[n].mtime <= fs[m].mtime
    BY <1>3, <1>4
  <1> QED
    BY <1>4, <1>5 DEF Oldest

\* Two files of a day are the day's and the rotated one.
LEMMA TwoOfADay ==
  ASSUME IsStore(files), NEW n \in DOMAIN files, NEW m \in DOMAIN files, n # m, n[1] = m[1]
  PROVE  (n[2] = 0 /\ m[2] = 1) \/ (n[2] = 1 /\ m[2] = 0)
  <1>1. n \in Names /\ m \in Names
    BY StoreFacts
  <1> QED
    BY <1>1 DEF Names

\* The newest records of a day outlive the removal of the oldest file, a rotation,
\* a write and an expiry.
LEMMA NewestStep ==
  ASSUME StoreTypeOK, FlowInv, AppendInv, OnceInv, DayInv, OrderInv, CalmInv,
         [StoreNext]_storeVars, "clean" \notin met'
  PROVE  NewestKept'
  <1>0. IsStore(files) /\ IsStore(app.left)
    BY DEF StoreTypeOK
  <1>1. "clean" \notin met
    BY HookFacts DEF StoreNext, storeVars, TrimUnlinks, TrimMisses, TrimEnds, Refuse, Rotate, Write,
        CleanBegins, CleanRemoves, CleanTrips, Stop, Start, Midnight, Hook
  <1>2. NewestKept /\ cleaner.todo = {} /\ (app.pc \in {"trim", "converge"} => app.left = files)
    BY <1>1 DEF CalmInv
  <1>3. CASE UNCHANGED <<written, files>>
    BY <1>2, <1>3 DEF NewestKept, Stored
  <1>4. CASE TrimUnlinks
    <2> DEFINE n == Oldest(files)
    <2>1. app.left = files /\ Total(files) > MaxStore /\ files' = Drop(files, n) /\ UNCHANGED written
      BY <1>2, <1>4 DEF TrimUnlinks
    <2>2. n \in DOMAIN files /\ \A m \in DOMAIN files : files[n].mtime <= files[m].mtime
      BY <1>0, <2>1, OldestFacts
    <2>3. /\ DOMAIN files' = DOMAIN files \ {n}
          /\ \A m \in DOMAIN files \ {n} : files'[m] = files[m]
      <3> DEFINE gs == Drop(files, n)
      <3>1. DOMAIN gs = DOMAIN files \ {n} /\ \A m \in DOMAIN files \ {n} : gs[m] = files[m]
        BY DropFacts
      <3>2. files' = gs
        BY <2>1
      <3> HIDE DEF gs
      <3> QED
        BY <3>1, <3>2
    <2> HIDE DEF n
    <2>4. ASSUME NEW i \in DOMAIN written, NEW j \in DOMAIN written, i < j,
                 written[i].day = written[j].day, written[i].flow \in Stored'
          PROVE  written[j].flow \in Stored'
      <3>1. PICK k \in DOMAIN files' : written[i].flow \in files'[k].recs
        BY <2>4, StoredIs
      <3>2. k \in DOMAIN files /\ k # n /\ written[i].flow \in files[k].recs
        BY <2>3, <3>1
      <3>3. written[j].flow \in Stored
        BY <1>2, <2>4, <3>2, StoredIs DEF NewestKept
      <3>4. PICK m \in DOMAIN files : written[j].flow \in files[m].recs
        BY <3>3, StoredIs
      <3>5. m # n
        <4> SUFFICES ASSUME m = n
                     PROVE  FALSE
          OBVIOUS
        <4>1. k[1] = m[1]
          BY <2>4, <3>2, <3>4, StoredDays
        <4>2. (k[2] = 0 /\ m[2] = 1) \/ (k[2] = 1 /\ m[2] = 0)
          BY <1>0, <3>2, <4>1, TwoOfADay
        <4>3. CASE k[2] = 0 /\ m[2] = 1
          <5>1. j < i
            BY <2>4, <3>2, <3>4, <4>1, <4>3 DEF OrderInv
          <5>2. i \in Nat /\ j \in Nat
            BY DEF StoreTypeOK
          <5> QED
            BY <2>4, <5>1, <5>2
        <4>4. CASE k[2] = 1 /\ m[2] = 0
          <5>1. files[k].mtime < files[m].mtime
            BY <3>2, <4>1, <4>4 DEF OrderInv
          <5>2. files[m].mtime <= files[k].mtime
            BY <2>2, <3>2
          <5>3. files[k].mtime \in Nat /\ files[m].mtime \in Nat
            BY <1>0, <3>2, StoreFacts
          <5> QED
            BY <5>1, <5>2, <5>3
        <4> QED
          BY <4>2, <4>3, <4>4
      <3>6. m \in DOMAIN files' /\ files'[m] = files[m]
        BY <2>3, <3>5
      <3> QED
        BY <3>4, <3>6, StoredIs
    <2> QED
      BY <2>1, <2>4 DEF NewestKept
  <1>5. CASE Rotate
    <2> DEFINE q == <<app.name[1], 1>>
    <2>1. UNCHANGED written
      BY <1>5, RotateFacts
    <2>2. CASE files' = files
      BY <1>3, <2>1, <2>2
    <2>3. CASE files' # files
      <3>1. /\ app.name \in DOMAIN files
            /\ DOMAIN files' = (DOMAIN files \ {app.name}) \cup {q}
            /\ files'[q] = files[app.name] /\ q[1] = app.name[1] /\ q[2] = 1 /\ app.name[2] = 0
            /\ \A m \in DOMAIN files \ {app.name, q} : files'[m] = files[m]
        BY <1>5, <2>3, RotateFacts
      <3> HIDE DEF q
      <3>2. ASSUME NEW i \in DOMAIN written, NEW j \in DOMAIN written, i < j,
                   written[i].day = written[j].day, written[i].flow \in Stored'
            PROVE  written[j].flow \in Stored'
        <4>1. PICK k0 \in DOMAIN files' : written[i].flow \in files'[k0].recs
          BY <3>2, StoredIs
        <4>2. PICK k \in DOMAIN files : k # q /\ files[k] = files'[k0]
          BY <3>1
        <4>3. written[i].flow \in files[k].recs
          BY <4>1, <4>2
        <4>4. written[j].flow \in Stored
          BY <1>2, <3>2, <4>3, StoredIs DEF NewestKept
        <4>5. PICK m \in DOMAIN files : written[j].flow \in files[m].recs
          BY <4>4, StoredIs
        <4>6. m # q
          <5> SUFFICES ASSUME m = q
                       PROVE  FALSE
            OBVIOUS
          <5>1. k[1] = m[1]
            BY <3>2, <4>3, <4>5, StoredDays
          <5>2. k[2] = 0 /\ m[2] = 1
            BY <1>0, <3>1, <4>2, <5>1, TwoOfADay
          <5>3. j < i
            BY <3>2, <4>3, <4>5, <5>1, <5>2 DEF OrderInv
          <5>4. i \in Nat /\ j \in Nat
            BY DEF StoreTypeOK
          <5> QED
            BY <3>2, <5>3, <5>4
        <4>7. \E n \in DOMAIN files' : files'[n] = files[m]
          BY <3>1, <4>6
        <4> QED
          BY <4>5, <4>7, StoredIs
      <3> QED
        BY <2>1, <3>2 DEF NewestKept
    <2> QED
      BY <2>2, <2>3
  <1>6. CASE Write
    <2> DEFINE c == Len(written) + 1
    <2>1. /\ DOMAIN written = 1 .. Len(written) /\ Len(written) \in Nat /\ DOMAIN written' = 1 .. c
          /\ \A i \in DOMAIN written : written'[i] = written[i]
          /\ written'[c].flow = app.flow
          /\ app.flow \notin Recorded
          /\ DOMAIN files' = DOMAIN files \cup {app.name}
          /\ \A m \in DOMAIN files \ {app.name} : files'[m] = files[m]
          /\ app.name \in DOMAIN files => files'[app.name].recs = files[app.name].recs \cup {app.flow}
          /\ app.name \notin DOMAIN files => files'[app.name].recs = {app.flow}
      BY <1>6, WriteFacts
    <2>2. \A i, j \in DOMAIN written' : i < j => i \in DOMAIN written /\ (j \in DOMAIN written \/ j = c)
      BY <2>1
    <2> HIDE DEF c
    <2>3. \A g : g \in Stored' <=> g \in Stored \/ g = app.flow
      <3>1. ASSUME NEW g, g \in Stored
            PROVE  g \in Stored'
        <4>1. PICK n \in DOMAIN files : g \in files[n].recs
          BY <3>1, StoredIs
        <4>2. n \in DOMAIN files' /\ g \in files'[n].recs
          BY <2>1, <4>1
        <4> QED
          BY <4>2, StoredIs
      <3>2. app.flow \in Stored'
        <4>1. app.name \in DOMAIN files' /\ app.flow \in files'[app.name].recs
          BY <2>1
        <4> QED
          BY <4>1, StoredIs
      <3>3. ASSUME NEW g, g \in Stored', g # app.flow
            PROVE  g \in Stored
        <4>1. PICK n \in DOMAIN files' : g \in files'[n].recs
          BY <3>3, StoredIs
        <4>2. n \in DOMAIN files /\ g \in files[n].recs
          BY <2>1, <3>3, <4>1
        <4> QED
          BY <4>2, StoredIs
      <3> QED
        BY <3>1, <3>2, <3>3
    <2>4. \A i \in DOMAIN written : written[i].flow # app.flow
      BY <2>1, RecordedIs
    <2>5. ASSUME NEW i \in DOMAIN written', NEW j \in DOMAIN written', i < j,
                 written'[i].day = written'[j].day, written'[i].flow \in Stored'
          PROVE  written'[j].flow \in Stored'
      <3>1. i \in DOMAIN written /\ written'[i] = written[i] /\ written[i].flow \in Stored
        BY <2>1, <2>2, <2>3, <2>4, <2>5
      <3>2. CASE j = c
        BY <2>1, <2>3, <3>2
      <3>3. CASE j \in DOMAIN written
        <4>1. written'[j] = written[j]
          BY <2>1, <3>3
        <4>2. written[j].flow \in Stored
          BY <1>2, <2>5, <3>1, <3>3, <4>1 DEF NewestKept
        <4> QED
          BY <2>3, <4>1, <4>2
      <3> QED
        BY <2>2, <2>5, <3>2, <3>3
    <2> QED
      BY <2>5 DEF NewestKept
  <1>7. CASE Start
    <2> DEFINE S == {n \in DOMAIN files : ~Expired(n)}
    <2>1. files' = Restrict(files, S) /\ UNCHANGED <<written, day>>
      BY <1>7 DEF Start
    <2>2. files' = [n \in S |-> files[n]]
      BY <2>1 DEF Restrict
    <2>3. \A n, m \in DOMAIN files : n[1] = m[1] /\ n \in S => m \in S
      BY DEF Expired
    <2>4. S \subseteq DOMAIN files
      OBVIOUS
    <2> HIDE DEF S
    <2>5. ASSUME NEW i \in DOMAIN written, NEW j \in DOMAIN written, i < j,
                 written[i].day = written[j].day, written[i].flow \in Stored'
          PROVE  written[j].flow \in Stored'
      <3>1. PICK k \in S : written[i].flow \in files[k].recs
        BY <2>2, <2>5, StoredIs
      <3>2. written[j].flow \in Stored
        BY <1>2, <2>4, <2>5, <3>1, StoredIs DEF NewestKept
      <3>3. PICK m \in DOMAIN files : written[j].flow \in files[m].recs
        BY <3>2, StoredIs
      <3>4. k[1] = m[1]
        BY <2>4, <2>5, <3>1, <3>3, StoredDays
      <3>5. m \in DOMAIN files' /\ files'[m] = files[m]
        BY <2>2, <2>3, <2>4, <3>1, <3>3, <3>4
      <3> QED
        BY <3>3, <3>5, StoredIs
    <2> QED
      BY <2>1, <2>5 DEF NewestKept
  <1>8. CASE \E n \in cleaner.todo : CleanRemoves(n) \/ CleanTrips(n)
    BY <1>2, <1>8
  <1>9. CASE \E f \in Flows : Hook(f)
    BY <1>3, <1>9, HookFacts
  <1>10. CASE TrimMisses \/ TrimEnds \/ Refuse \/ CleanBegins \/ Stop \/ Midnight \/ UNCHANGED storeVars
    BY <1>3, <1>10 DEF TrimMisses, TrimEnds, Refuse, CleanBegins, Stop, Midnight, storeVars
  <1> QED
    BY <1>4, <1>5, <1>6, <1>7, <1>8, <1>9, <1>10 DEF StoreNext, Hook


LEMMA NoCleanYet ==
  ASSUME StoreTypeOK, FlowInv, [StoreNext]_storeVars, "clean" \notin met'
  PROVE  "clean" \notin met
  BY HookFacts DEF StoreNext, storeVars, TrimUnlinks, TrimMisses, TrimEnds, Refuse, Rotate, Write,
      CleanBegins, CleanRemoves, CleanTrips, Stop, Start, Midnight, Hook

\* A trim finds the file it has seen, as long as nobody cleans.
LEMMA CalmTrim ==
  ASSUME StoreTypeOK, CalmInv, "clean" \notin met
  PROVE  ~TrimMisses
  <1> SUFFICES ASSUME TrimMisses
               PROVE  FALSE
    OBVIOUS
  <1>1. /\ app.left = files /\ Total(files) > MaxStore /\ Oldest(files) \notin DOMAIN files
    BY DEF CalmInv, TrimMisses
  <1>2. IsStore(files)
    BY DEF StoreTypeOK
  <1> QED
    BY <1>1, <1>2, OldestFacts

\* What the steps of a trim leave of the append.
LEMMA TrimFacts ==
  ASSUME StoreTypeOK
  PROVE  /\ TrimUnlinks => /\ app'.pc = app.pc /\ app'.flow = app.flow
                           /\ app.pc \in {"trim", "converge"}
                           /\ app'.left = Drop(app.left, Oldest(app.left))
                           /\ files' = Drop(files, Oldest(app.left))
         /\ TrimEnds => /\ app.pc = "trim" => app'.pc = "rotate" /\ app'.flow = app.flow
                        /\ app.pc # "trim" => app'.pc = "idle"
                        /\ app.pc \in {"trim", "converge"} /\ Total(app.left) <= MaxStore
                        /\ files' = files
         /\ TrimMisses \/ Refuse => app'.pc = "idle" /\ files' = files
  <1>1. AppendType(app)
    BY DEF StoreTypeOK, AppendType
  <1>2. CASE TrimUnlinks
    <2> DEFINE l == Drop(app.left, Oldest(app.left))
    <2>1. app' = [app EXCEPT !.left = l]
      BY <1>2 DEF TrimUnlinks
    <2> HIDE DEF l
    <2>2. app'.pc = app.pc /\ app'.flow = app.flow /\ app'.left = l
      BY <1>1, <2>1 DEF AppendType
    <2>3. app.pc \in {"trim", "converge"} /\ files' = Drop(files, Oldest(app.left))
      BY <1>2 DEF TrimUnlinks
    <2>4. ~TrimEnds /\ ~TrimMisses /\ ~Refuse
      <3>1. Total(app.left) > MaxStore /\ Oldest(app.left) \in DOMAIN files
        BY <1>2 DEF TrimUnlinks
      <3>2. Total(app.left) \in Nat /\ MaxStore \in Nat
        BY <1>1, StoreFacts, TotalFacts, LimitsAssumption DEF AppendType, LimitsAssumption
      <3>3. ~(Total(app.left) <= MaxStore)
        <4> DEFINE t == Total(app.left)
        <4>1. t \in Nat /\ t > MaxStore
          BY <3>1, <3>2
        <4> HIDE DEF t
        <4>2. ~(t <= MaxStore)
          BY <3>2, <4>1
        <4> QED
          BY <4>2 DEF t
      <3> QED
        BY <2>3, <3>1, <3>3 DEF TrimEnds, TrimMisses, Refuse
    <2> QED
      BY <2>2, <2>3, <2>4 DEF l
  <1>3. CASE ~TrimUnlinks
    <2>1. TrimEnds => /\ app.pc = "trim" => app'.pc = "rotate" /\ app'.flow = app.flow
                      /\ app.pc # "trim" => app'.pc = "idle"
                      /\ app.pc \in {"trim", "converge"} /\ Total(app.left) <= MaxStore
                      /\ files' = files
      BY <1>1, RestingType DEF TrimEnds, AppendType
    <2>2. TrimMisses \/ Refuse => app'.pc = "idle" /\ files' = files
      BY RestingType DEF TrimMisses, Refuse
    <2> QED
      BY <1>3, <2>1, <2>2
  <1> QED
    BY <1>2, <1>3

LEMMA CalmStep ==
  ASSUME StoreTypeOK, FlowInv, AppendInv, OnceInv, DayInv, OrderInv, CalmInv,
         [StoreNext]_storeVars
  PROVE  CalmInv'
  <1> SUFFICES ASSUME "clean" \notin met'
               PROVE  /\ cleaner'.todo = {}
                      /\ app'.pc \in {"trim", "converge"} => app'.left = files'
                      /\ NewestKept'
    BY DEF CalmInv
  <1>1. "clean" \notin met
    BY NoCleanYet
  <1>2. cleaner.todo = {} /\ (app.pc \in {"trim", "converge"} => app.left = files)
    BY <1>1 DEF CalmInv
  <1>3. NewestKept'
    BY NewestStep
  <1>4. ~ScanFails /\ ~CleanBegins /\ ~(\E n \in cleaner.todo : CleanRemoves(n) \/ CleanTrips(n))
    BY <1>2 DEF ScanFails, CleanBegins
  <1> SUFFICES /\ cleaner'.todo = {}
               /\ app'.pc \in {"trim", "converge"} => app'.left = files'
    BY <1>3
  <1>5. CASE \E f \in Flows : Hook(f)
    BY <1>2, <1>5, HookFacts
  <1>6. CASE TrimUnlinks \/ TrimMisses \/ TrimEnds \/ Refuse
    <2>1. UNCHANGED cleaner
      BY <1>6 DEF TrimUnlinks, TrimMisses, TrimEnds, Refuse
    <2> QED
      BY <1>2, <1>6, <2>1, TrimFacts
  <1>7. CASE Rotate
    BY <1>2, <1>7, RotateFacts
  <1>8. CASE Write
    BY <1>2, <1>4, <1>8, WriteFacts
  <1>9. CASE Stop \/ Start \/ Midnight \/ UNCHANGED storeVars
    <2>1. UNCHANGED cleaner
      BY <1>9 DEF Stop, Start, Midnight, storeVars
    <2>2. CASE Stop
      BY <1>2, <2>1, <2>2, RestingType DEF Stop
    <2>3. CASE Start
      BY <1>2, <2>1, <2>3 DEF Start, AppendInv
    <2>4. CASE Midnight \/ UNCHANGED storeVars
      BY <1>2, <2>1, <2>4 DEF Midnight, storeVars
    <2> QED
      BY <1>9, <2>2, <2>3, <2>4
  <1> QED
    BY <1>4, <1>5, <1>6, <1>7, <1>8, <1>9 DEF StoreNext, Hook

LEMMA ToldStep ==
  ASSUME StoreTypeOK, FlowInv, AsTold, [StoreNext]_storeVars
  PROVE  AsTold'
  <1>1. ASSUME NEW f \in Flows, Hook(f)
        PROVE  AsTold'
    <2>1. /\ \A g \in Flows \ {f} : flow'[g] = flow[g]
          /\ flow'[f].phase = "over" => flow'[f].text = flow'[f].body \/ flow'[f].told
      BY <1>1, HookFacts
    <2> QED
      BY <2>1 DEF AsTold, Whole
  <1>2. CASE Stop
    <2>1. flow' = [f \in Flows |-> IF flow[f].phase = "open" THEN [NewFlow EXCEPT !.phase = "gone"]
                                   ELSE flow[f]]
      BY <1>2 DEF Stop
    <2>2. \A f \in Flows : flow'[f].phase = "over" => flow'[f] = flow[f]
      BY <2>1 DEF NewFlow
    <2> QED
      BY <2>2 DEF AsTold, Whole
  <1>3. CASE UNCHANGED flow
    BY <1>3 DEF AsTold, Whole
  <1> QED
    BY <1>1, <1>2, <1>3 DEF StoreNext, storeVars, TrimUnlinks, TrimMisses, TrimEnds, Refuse, Rotate,
       Write, CleanBegins, CleanRemoves, CleanTrips, Start, Midnight, Hook

\* An answered flow whose record has yet to be written.
Awaited(f) ==
    f \in Flows /\ flow[f].phase = "over" /\ 1 + flow[f].req + Len(flow[f].text) <= MaxRecord

LEMMA AnswerStep ==
  ASSUME StoreTypeOK, FlowInv, AppendInv, CalmInv, AnswerInv, [StoreNext]_storeVars
  PROVE  AnswerInv'
  <1>0. AsTold'
    BY ToldStep DEF AnswerInv
  <1> SUFFICES ASSUME met' = {}, NEW g, Awaited(g)'
               PROVE  g \in Recorded' \/ (Appending' /\ app'.flow = g)
    BY <1>0 DEF AnswerInv, Answered, Awaited
  <1>1. met = {} /\ "clean" \notin met
    BY HookFacts DEF StoreNext, storeVars, TrimUnlinks, TrimMisses, TrimEnds, Refuse, Rotate, Write,
        CleanBegins, CleanRemoves, CleanTrips, Stop, Start, Midnight, Hook
  <1>2. \A h : Awaited(h) => h \in Recorded \/ (Appending /\ app.flow = h)
    BY <1>1 DEF AnswerInv, Answered, Awaited
  <1>3. ~ScanFails /\ ~CleanBegins /\ ~(\E n \in cleaner.todo : CleanRemoves(n) \/ CleanTrips(n))
    BY <1>1 DEF ScanFails, CalmInv, CleanBegins
  <1>4. ASSUME NEW f \in Flows, Hook(f)
        PROVE  g \in Recorded' \/ (Appending' /\ app'.flow = g)
    <2>1. UNCHANGED written /\ app.pc = "idle" /\ (\A h \in Flows \ {f} : flow'[h] = flow[h])
      BY <1>4, HookFacts
    <2>2. Recorded' = Recorded
      BY <2>1 DEF Recorded
    <2>3. CASE g = f
      <3>1. app'.pc = "trim" /\ app'.flow = f
        BY <1>3, <1>4, <2>3, HookFacts DEF Awaited
      <3> QED
        BY <2>3, <3>1 DEF Appending
    <2>4. CASE g # f
      BY <1>2, <2>1, <2>2, <2>4 DEF Awaited, Appending
    <2> QED
      BY <2>3, <2>4
  <1>5. ASSUME UNCHANGED <<flow, written>>, Appending => Appending' /\ app'.flow = app.flow
        PROVE  g \in Recorded' \/ (Appending' /\ app'.flow = g)
    BY <1>2, <1>5 DEF Awaited, Recorded
  <1>6. CASE TrimUnlinks \/ TrimEnds
    BY <1>5, <1>6, TrimFacts DEF TrimUnlinks, TrimEnds, Appending
  <1>7. CASE TrimMisses
    BY <1>1, <1>7, CalmTrim
  <1>8. CASE Refuse
    <2>1. /\ UNCHANGED <<flow, written>> /\ app.pc = "rotate" /\ app.size > MaxRecord
      BY <1>8 DEF Refuse, TooLarge
    <2>2. app.size = 1 + flow[app.flow].req + Len(flow[app.flow].text)
      BY <2>1 DEF AppendInv, Appending
    <2>3. Awaited(g) /\ Recorded' = Recorded
      BY <2>1 DEF Awaited, Recorded
    <2>4. g # app.flow
      <3>1. app.size \in Nat /\ MaxRecord \in Nat
        BY LimitsAssumption DEF LimitsAssumption, StoreTypeOK
      <3>2. ~(app.size <= MaxRecord)
        BY <2>1, <3>1
      <3> QED
        BY <2>2, <2>3, <3>2 DEF Awaited
    <2> QED
      BY <1>2, <2>3, <2>4
  <1>9. CASE Rotate
    <2>1. UNCHANGED <<flow, written>> /\ app'.pc = "write" /\ app'.flow = app.flow
      BY <1>9, RotateFacts
    <2> QED
      BY <1>5, <2>1 DEF Appending
  <1>10. CASE Write
    <2>1. UNCHANGED flow /\ Recorded' = Recorded \cup {app.flow}
      BY <1>10, WriteFacts
    <2>2. Awaited(g)
      BY <2>1 DEF Awaited
    <2> QED
      BY <1>2, <2>1, <2>2
  <1>11. CASE Stop
    <2>1. /\ UNCHANGED written /\ app.pc = "idle"
          /\ flow' = [f \in Flows |-> IF flow[f].phase = "open" THEN [NewFlow EXCEPT !.phase = "gone"]
                                      ELSE flow[f]]
      BY <1>11 DEF Stop
    <2>2. g \in Flows /\ flow'[g] = flow[g]
      BY <2>1 DEF NewFlow, Awaited
    <2>3. Awaited(g) /\ Recorded' = Recorded
      BY <2>1, <2>2 DEF Awaited, Recorded
    <2> QED
      BY <1>2, <2>1, <2>3 DEF Appending
  <1>12. CASE Start \/ Midnight \/ UNCHANGED storeVars
    BY <1>5, <1>12 DEF Start, Midnight, storeVars, Appending
  <1> QED
    BY <1>3, <1>4, <1>6, <1>7, <1>8, <1>9, <1>10, <1>11, <1>12 DEF StoreNext, Hook

\* Files that went weigh no more than those that were.
LEMMA PartWeighs ==
  ASSUME StoreTypeOK, StoreTypeOK'
  PROVE  /\ Total(files) \in Nat /\ Total(files') \in Nat
         /\ Part(files', files) => Total(files') <= Total(files)
         /\ Part(files, app.left) => Total(files) <= Total(app.left)
         /\ {MaxStore, MaxRecord} \subseteq Nat
  <1>1. IsStore(files) /\ IsStore(files') /\ IsStore(app.left)
    BY DEF StoreTypeOK
  <1>2. /\ files = [n \in DOMAIN files |-> files[n]]
        /\ files' = [n \in DOMAIN files' |-> files'[n]]
    BY <1>1 DEF IsStore
  <1>3. Total(files) \in Nat /\ Total(files') \in Nat
    BY <1>1, StoreFacts, TotalFacts
  <1> QED
    BY <1>1, <1>2, <1>3, PartFacts, LimitsAssumption DEF LimitsAssumption

LEMMA RoomStep ==
  ASSUME StoreTypeOK, StoreTypeOK', FlowInv, AppendInv, CalmInv, RoomInv, [StoreNext]_storeVars
  PROVE  RoomInv'
  <1> DEFINE t == Total(files)
             u == Total(files')
  <1>0. /\ t \in Nat /\ u \in Nat /\ MaxStore \in Nat /\ MaxRecord \in Nat
        /\ Part(files', files) => u <= t
        /\ Part(files, app.left) => t <= Total(app.left)
    BY PartWeighs
  <1>1. /\ app.pc \in {"trim", "converge"} => Part(files, app.left)
        /\ app.pc \in {"rotate", "write"} => t <= MaxStore
        /\ t <= MaxStore + MaxRecord
        /\ (app.pc = "idle" /\ met = {}) => t <= MaxStore
    BY DEF RoomInv
  <1>2. Part(files, files)
    BY DEF Part
  <1>3. (\E n \in cleaner.todo : CleanRemoves(n) \/ CleanTrips(n)) \/ ScanFails => met # {}
    BY DEF CalmInv, ScanFails
  <1> SUFFICES /\ app'.pc \in {"trim", "converge"} => Part(files', app'.left)
               /\ app'.pc \in {"rotate", "write"} => u <= MaxStore
               /\ u <= MaxStore + MaxRecord
               /\ (app'.pc = "idle" /\ met' = {}) => u <= MaxStore
    BY DEF RoomInv, Part
  <1>4. CASE \E f \in Flows : Hook(f)
    <2>1. files' = files /\ met' = met /\ app.pc = "idle"
      BY <1>4, HookFacts
    <2>2. app' = app \/ (app'.pc = "trim" /\ app'.left = files)
      BY <1>4, HookFacts
    <2> HIDE DEF t, u
    <2>3. u = t
      BY <2>1 DEF t, u
    <2> QED
      BY <1>1, <1>2, <2>1, <2>2, <2>3
  <1>5. CASE TrimUnlinks
    <2> DEFINE n == Oldest(app.left)
               l == Drop(app.left, n)
               d == Drop(files, n)
    <2>1. /\ app'.pc = app.pc /\ app.pc \in {"trim", "converge"}
          /\ app'.left = l /\ files' = d
      BY <1>5, TrimFacts
    <2>2. Part(d, files) /\ Part(d, l)
      <3>1. Part(files, app.left)
        BY <1>1, <2>1
      <3> HIDE DEF n
      <3>2. DOMAIN d = DOMAIN files \ {n} /\ \A m \in DOMAIN files \ {n} : d[m] = files[m]
        BY DropFacts
      <3>3. DOMAIN l = DOMAIN app.left \ {n} /\ \A m \in DOMAIN app.left \ {n} : l[m] = app.left[m]
        BY DropFacts
      <3> HIDE DEF d, l
      <3> QED
        BY <3>1, <3>2, <3>3 DEF Part
    <2> HIDE DEF t, u, n, l, d
    <2>3. Part(files', files) /\ Part(files', app'.left)
      BY <2>1, <2>2
    <2>4. u <= t
      BY <1>0, <2>3
    <2> QED
      BY <1>0, <1>1, <2>1, <2>3, <2>4
  <1>6. CASE TrimEnds
    <2>1. /\ app.pc \in {"trim", "converge"} /\ Total(app.left) <= MaxStore /\ files' = files
          /\ app'.pc \in {"rotate", "idle"}
      BY <1>6, TrimFacts
    <2>2. Total(app.left) \in Nat
      <3>1. IsStore(app.left)
        BY DEF StoreTypeOK
      <3> QED
        BY <3>1, StoreFacts, TotalFacts
    <2> DEFINE w == Total(app.left)
    <2>3. w \in Nat /\ w <= MaxStore /\ t <= w
      BY <1>0, <1>1, <2>1, <2>2
    <2>4. u = t
      BY <2>1
    <2> HIDE DEF t, u, w
    <2> QED
      BY <1>0, <2>1, <2>3, <2>4
  <1>7. CASE TrimMisses
    <2>1. met # {} /\ met' = met
      BY <1>7, CalmTrim DEF TrimMisses
    <2>2. app'.pc = "idle" /\ files' = files
      BY <1>7, TrimFacts
    <2>3. u = t
      BY <2>2
    <2> HIDE DEF t, u
    <2> QED
      BY <1>1, <2>1, <2>2, <2>3
  <1>8. CASE Refuse
    <2>1. app'.pc = "idle" /\ files' = files /\ app.pc = "rotate"
      BY <1>8, TrimFacts DEF Refuse
    <2>2. u = t
      BY <2>1
    <2> HIDE DEF t, u
    <2> QED
      BY <1>1, <2>1, <2>2
  <1>9. CASE Rotate
    <2>1. app.pc = "rotate" /\ app'.pc = "write" /\ app.name \in Names /\ app.name[2] = 0
      BY <1>9, RotateFacts
    <2>2. u <= t
      <3>1. files' = Rotated(files, app.name) /\ IsStore(files)
        BY <1>9 DEF Rotate, StoreTypeOK
      <3> QED
        BY <2>1, <3>1, RotatedWeighs
    <2> HIDE DEF t, u
    <2> QED
      BY <1>0, <1>1, <2>1, <2>2
  <1>10. CASE Write
    <2>1. /\ app.pc = "write" /\ app.flow \in Flows /\ app.name \in Names
          /\ files' = Written(files, app.name) /\ UNCHANGED met
      BY <1>10, WriteFacts
    <2>2. \/ app'.pc = "converge" /\ app'.left = files'
          \/ ScanFails /\ app'.pc = "idle"
      BY <1>10, WriteFacts, RestingType
    <2>3. u <= t + app.size
      <3>1. IsStore(files)
        BY DEF StoreTypeOK
      <3> QED
        BY <2>1, <3>1, WrittenWeighs
    <2>4. app.size \in Nat /\ app.size <= MaxRecord
      BY <2>1 DEF AppendInv, StoreTypeOK
    <2>5. Part(files', files')
      BY DEF Part
    <2> HIDE DEF t, u
    <2>6. u <= MaxStore + MaxRecord
      BY <1>0, <1>1, <2>1, <2>3, <2>4
    <2> QED
      BY <1>3, <2>1, <2>2, <2>5, <2>6
  <1>11. CASE Stop
    <2>1. /\ app'.pc = "idle" /\ files' = files
          /\ met' = IF app.pc = "idle" THEN met ELSE met \cup {"stop"}
      BY <1>11, RestingType DEF Stop
    <2>2. u = t
      BY <2>1
    <2> HIDE DEF t, u
    <2> QED
      BY <1>1, <2>1, <2>2
  <1>12. CASE Start \/ (\E n \in cleaner.todo : CleanRemoves(n) \/ CleanTrips(n))
    <2>1. UNCHANGED <<app, met>> /\ Part(files', files)
      <3>1. UNCHANGED <<app, met>> /\ ~(Rotate \/ Write)
        <4>1. CASE Start
          BY <4>1 DEF Start, AppendInv, Rotate, Write
        <4>2. ASSUME NEW n \in cleaner.todo, CleanRemoves(n) \/ CleanTrips(n)
              PROVE  UNCHANGED <<app, met>> /\ ~(Rotate \/ Write)
          <5>1. CASE CleanRemoves(n)
            <6>1. UNCHANGED <<app, met>>
              BY <5>1 DEF CleanRemoves
            <6>2. ~(Rotate \/ Write)
              <7>1. Rotate => app'.pc = "write" /\ app.pc = "rotate"
                BY RotateFacts
              <7>2. Write => app.pc = "write" /\ app'.pc # "write"
                BY WriteFacts, RestingType
              <7> QED
                BY <6>1, <7>1, <7>2
            <6> QED
              BY <6>1, <6>2
          <5>2. CASE CleanTrips(n)
            <6>1. UNCHANGED <<app, met>>
              BY <5>2 DEF CleanTrips
            <6>2. ~(Rotate \/ Write)
              <7>1. Rotate => app'.pc = "write" /\ app.pc = "rotate"
                BY RotateFacts
              <7>2. Write => app.pc = "write" /\ app'.pc # "write"
                BY WriteFacts, RestingType
              <7> QED
                BY <6>1, <7>1, <7>2
            <6> QED
              BY <6>1, <6>2
          <5> QED
            BY <4>2, <5>1, <5>2
        <4> QED
          BY <1>12, <4>1, <4>2
      <3> QED
        BY <3>1, FilesStep
    <2>2. u <= t
      BY <1>0, <2>1
    <2>3. app.pc \in {"trim", "converge"} => Part(files', app.left)
      BY <1>1, <2>1 DEF Part
    <2> HIDE DEF t, u
    <2> QED
      BY <1>0, <1>1, <2>1, <2>2, <2>3
  <1>13. CASE CleanBegins
    <2>1. UNCHANGED <<app, files>> /\ met' # {}
      BY <1>13 DEF CleanBegins
    <2>2. u = t
      BY <2>1
    <2> HIDE DEF t, u
    <2> QED
      BY <1>1, <2>1, <2>2
  <1>14. CASE Midnight \/ UNCHANGED storeVars
    <2>1. UNCHANGED <<app, files, met>>
      BY <1>14 DEF Midnight, storeVars
    <2>2. u = t
      BY <2>1
    <2> HIDE DEF t, u
    <2> QED
      BY <1>1, <2>1, <2>2
  <1> HIDE DEF t, u
  <1> QED
    BY <1>4, <1>5, <1>6, <1>7, <1>8, <1>9, <1>10, <1>11, <1>12, <1>13, <1>14
       DEF StoreNext, Hook


LEMMA StoreInitInv == StoreInit => StoreInv
  <1> SUFFICES ASSUME StoreInit
               PROVE  StoreInv
    OBVIOUS
  <1>1. /\ files = <<>> /\ app = Resting /\ written = <<>> /\ met = {}
        /\ cleaner.todo = {} /\ cleaner.before = {} /\ cleaner.answer = "none"
        /\ flow = [f \in Flows |-> NewFlow]
    BY DEF StoreInit
  <1>2. DOMAIN files = {} /\ DOMAIN written = {}
    BY <1>1
  <1>3. 0 \in 0 .. Budget /\ <<>> \in Seq(0 .. 4) /\ Budget \in Nat /\ MaxStore \in Nat /\ MaxRecord \in Nat
        /\ 1 \in 1 .. MaxDay
    BY LimitsAssumption DEF LimitsAssumption
  <1>4. /\ NewFlow \in FlowState /\ NewFlow.phase = "new" /\ NewFlow.buf = 0 /\ NewFlow.seen = 0
        /\ NewFlow.req = 0 /\ NewFlow.body = <<>>
    BY <1>3 DEF NewFlow, FlowState
  <1>5. Sound(NewFlow)
    <2>1. Smaller(0, Budget) = 0 /\ Budget >= 0
      BY <1>3 DEF Smaller
    <2> QED
      BY <1>3, <1>4, <2>1 DEF Sound
  <1>6. \A f \in Flows : flow[f] = NewFlow
    BY <1>1
  <1>7. StoreTypeOK
    <2>1. AppendType(app) /\ IsStore(files)
      BY <1>1, RestingType, EmptyStore
    <2>2. CleanerType
      BY DEF StoreInit, CleanerType
    <2>3. flow \in [Flows -> FlowState]
      BY <1>1, <1>4
    <2>4. day \in 1 .. MaxDay /\ {clock, stops, cleans} \subseteq Nat /\ met \subseteq {"clean", "stop"}
      BY <1>3 DEF StoreInit
    <2>5. up \in BOOLEAN
      BY DEF StoreInit
    <2>6. written \in Seq([flow : Flows, day : 1 .. MaxDay])
      BY <1>1
    <2> QED
      BY <2>1, <2>2, <2>3, <2>4, <2>5, <2>6 DEF StoreTypeOK, AppendType, CleanerType
  <1>8. FlowInv
    BY <1>5, <1>6 DEF FlowInv
  <1>9. Recorded = {} /\ Stored = {}
    BY <1>2, RecordedIs, StoredIs
  <1>10. app.pc = "idle" /\ app.name[2] = 0
    BY <1>1, RestingType
  <1>11. AppendInv
    BY <1>9, <1>10 DEF AppendInv, Appending
  <1>12. OnceInv /\ DayInv /\ OrderInv /\ CleanInv
    BY <1>1, <1>2 DEF OnceInv, DayInv, OrderInv, CleanInv
  <1>13. CalmInv
    BY <1>1, <1>2, <1>10 DEF CalmInv, NewestKept
  <1>14. AnswerInv
    BY <1>4, <1>6 DEF AnswerInv, AsTold, Answered
  <1>15. RoomInv
    <2>1. Total(files) = 0
      <3>1. IsStore(files)
        BY <1>7 DEF StoreTypeOK
      <3> QED
        BY <1>2, <3>1, StoreFacts, TotalFacts
    <2> DEFINE t == Total(files)
    <2>2. t = 0
      BY <2>1
    <2> HIDE DEF t
    <2>3. t <= MaxStore /\ t <= MaxStore + MaxRecord
      BY <1>3, <2>2
    <2> QED
      BY <1>10, <2>3 DEF RoomInv, t
  <1> QED
    BY <1>7, <1>8, <1>11, <1>12, <1>13, <1>14, <1>15 DEF StoreInv

LEMMA StoreStep == StoreInv /\ [StoreNext]_storeVars => StoreInv'
  <1> SUFFICES ASSUME StoreInv, [StoreNext]_storeVars
               PROVE  StoreInv'
    OBVIOUS
  <1>0. /\ StoreTypeOK /\ FlowInv /\ AppendInv /\ OnceInv /\ DayInv /\ OrderInv
        /\ CleanInv /\ CalmInv /\ AnswerInv /\ RoomInv
    BY DEF StoreInv
  <1>1. StoreTypeOK' /\ FlowInv'
    BY <1>0, StoreTypeStep
  <1>2. AppendInv' /\ OnceInv' /\ DayInv' /\ OrderInv'
    BY <1>0, AppendStep, OnceStep, DayStep, OrderStep
  <1>3. CleanInv' /\ CalmInv' /\ AnswerInv'
    BY <1>0, CleanStep, CalmStep, AnswerStep
  <1>4. RoomInv'
    BY <1>0, <1>1, RoomStep
  <1> QED
    BY <1>1, <1>2, <1>3, <1>4 DEF StoreInv

LEMMA StoreInvHolds == StoreSpec => []StoreInv
  BY StoreInitInv, StoreStep, PTL DEF StoreSpec

\* The store never holds more than its limit and one record, whatever deletes in
\* between and wherever mitmdump dies; at rest, no more than its limit unless
\* somebody cleaned or mitmdump died in an append (_trim_store,
\* _converge_after_append).
THEOREM StoreStaysBounded == StoreSpec => []StoreBounded
  <1>1. StoreInv => StoreBounded
    BY DEF StoreInv, RoomInv, StoreBounded
  <1> QED
    BY <1>1, StoreInvHolds, PTL

\* An answered request has its record, whole or marked as cut, once, and the
\* newest records of a day outlive every trim, rotation and expiry
\* (AICaptureAddon.response, append_json).
THEOREM RecordsAreKept == StoreSpec => []RecordsStand
  <1>1. StoreInv => RecordsStand
    <2> SUFFICES ASSUME StoreInv
                 PROVE  RecordsStand
      OBVIOUS
    <2>1. met = {} /\ app.pc = "idle" => Answered \subseteq Recorded
      BY DEF StoreInv, AnswerInv, Appending
    <2>2. AsTold
      BY DEF StoreInv, AnswerInv
    <2>3. "clean" \notin met => NewestKept
      BY DEF StoreInv, CalmInv
    <2>4. \A i, j \in DOMAIN written : written[i].flow = written[j].flow => i = j
      BY DEF StoreInv, OnceInv
    <2> QED
      BY <2>1, <2>2, <2>3, <2>4 DEF RecordsStand
  <1> QED
    BY <1>1, StoreInvHolds, PTL

\* A clean that says it succeeded has left none of the records it found, but for a
\* file that was rotated away under it (clean, called by _api_capture_clean).
THEOREM CleanTellsTheTruth == StoreSpec => []CleanMeansClean
  <1>1. StoreInv => CleanMeansClean
    <2> SUFFICES ASSUME StoreInv, cleaner.answer = "ok", ~cleaner.moved
                 PROVE  cleaner.before \cap Stored = {}
      BY DEF CleanMeansClean
    <2>1. \A n \in DOMAIN files : files[n].recs \cap cleaner.before = {}
      BY DEF StoreInv, CleanInv
    <2> QED
      BY <2>1, StoredIs
  <1> QED
    BY <1>1, StoreInvHolds, PTL

=============================================================================

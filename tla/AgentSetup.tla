----------------------------- MODULE AgentSetup -----------------------------
(***************************************************************************)
(* services/claude_code_setup.py: the settings page points a coding agent  *)
(* at the gateway.                                                         *)
(*                                                                         *)
(* Three shapes of target file are written.  Claude Code's settings.json   *)
(* holds the gateway's address and one model per role; the same save sets  *)
(* the gateway's tier rules, so that the two faces agree.  Codex's         *)
(* config.toml names a provider and defines it; OpenCode and ZCode (one    *)
(* shape) only define it.  Each set-up is a plan and then up to two writes *)
(* with a backup, any of which may fail, the process may die in between,   *)
(* the user edits the same files, and another request saves the gateway's  *)
(* configuration.                                                          *)
(*                                                                         *)
(* One set-up is in flight at a time, and nobody edits its target between  *)
(* the plan and the write, which are milliseconds apart.  The agents share *)
(* nothing but the configuration: a behaviour is about one of them.        *)
(***************************************************************************)
EXTENDS Naturals, SequencesExt

CONSTANTS
    Models,      \* targets of a rule or a role: provider/model
    Ports,       \* addresses the gateway may be configured to listen at
    RuleTables,  \* rules that a save of the settings page may hold
    RoleTables,  \* role tables the page may send
    MaxEdits,    \* BOUND: edits, saves, failures and crashes
    None

Agents == {"claude", "codex", "opencode"}
Tiers  == {"opus", "haiku"}                  \* roles that have a rule
Roles  == Tiers \cup {"default"}
OursID == "magic-router"
Own    == "own"
NoSlot == [port |-> None, model |-> None]
NoEnv  == [r \in Roles |-> None]

ASSUME AgentAssumption ==
    /\ {None, Own, OursID} \cap (Models \cup Ports) = {}
    /\ RuleTables \subseteq Seq([prefix: Tiers \cup {"any"}, to: Models])
    /\ RoleTables \subseteq [Roles -> Models \cup {None}]
    /\ MaxEdits \in Nat

VARIABLES
    sp,          \* ~/.suanpan.yaml: rules, default target, listen address
    served,      \* the rules the gateway has loaded
    mp,          \* ~/.magic-proxy.json as the token finds it
    agent,       \* the agent this behaviour is about
    file, bak,   \* its file and the backup
    own,         \* the user's last content of the file
    job,         \* the set-up in flight
    result,      \* the last answer: what it claims, until something changes it
    moved,       \* the gateway's address was changed
    edits

agentFiles == <<file, bak, own>>
vars  == <<sp, served, mp, agent, agentFiles, job, result, moved, edits>>

-----------------------------------------------------------------------------
(* Files.  points is ANTHROPIC_BASE_URL of Claude Code and model_provider  *)
(* of Codex; slot is what the set-up owns.  An odd file is JSON of another *)
(* shape, read as empty; a broken one cannot be parsed.                    *)
Blank == IF agent = "claude" THEN NoEnv ELSE NoSlot
Doc(kind, points, slot, user) ==
    [kind |-> kind, points |-> points, slot |-> slot, user |-> user]
Absent     == Doc("absent", Own, Blank, 0)
Content(f) == IF f.kind = "doc" THEN f ELSE Doc("doc", Own, Blank, 0)

\* The file says what the user wrote: it does not use the gateway.
IsOwn(f) ==
    f.kind = "doc" =>
        CASE agent = "claude"   -> f.points \notin Ports
          [] agent = "codex"    -> f.points # OursID
          [] agent = "opencode" -> f.slot = NoSlot

\* first_write, as each plan decides it.
\* Mutant: what the plan of the agent is does not count, its address does.
MutantByAddress(f) ==
    IF agent = "claude" THEN f.points # sp.port ELSE f.slot.port # sp.port

FirstWrite(f) ==
    CASE agent = "claude"   -> f.points # sp.port
      [] agent = "codex"    -> f.points # OursID
      [] agent = "opencode" -> f.slot = NoSlot

-----------------------------------------------------------------------------
(* Plans.                                                                  *)

\* first_tier_route: the first rule whose prefix covers the tier.
TierRoute(rules, t) ==
    LET i == SelectInSeq(rules, LAMBDA r : r.prefix \in {t, "any"})
    IN  IF i = 0 THEN None ELSE rules[i].to

\* _default_roles_from_sp, for a request without a table.
Derived ==
    [r \in Roles |->
        IF r \in Tiers /\ TierRoute(sp.rules, r) # None
        THEN TierRoute(sp.rules, r) ELSE sp.default]

Exact(rules, t) == SelectInSeq(rules, LAMBDA r : r.prefix = t)

\* _plan_rule_changes, one tier after the other.
Upsert(rules, t, model, add) ==
    LET i == Exact(rules, t)
    IN  CASE model = None    -> rules
          [] model # None /\ i # 0 -> [rules EXCEPT ![i].to = model]
          [] OTHER -> IF add THEN Append(rules, [prefix |-> t, to |-> model]) ELSE rules
NewRules(roles, add) ==
    Upsert(Upsert(sp.rules, "opus", roles["opus"], add), "haiku", roles["haiku"], add)

\* Mutant: rules that drifted do not stop the answer "already".
MutantEnvOnly(f, roles, add) ==
    /\ f.points = sp.port
    /\ \A r \in Roles : roles[r] # None => f.slot[r] = roles[r]

Already(f, roles, add) ==
    /\ f.points = sp.port
    /\ \A r \in Roles : roles[r] # None => f.slot[r] = roles[r]
    /\ NewRules(roles, add) = sp.rules

\* get_local_token: reads the file, or writes it: a file that cannot be read
\* is replaced by one that holds the token and nothing else.
LocalToken == CASE mp = "plain"  -> "token"
                [] mp = "broken" -> "bare"
                [] OTHER         -> mp

\* What the set-up would write into the file: Claude Code's env, Codex's
\* provider and its table, the table of OpenCode and ZCode.
Slot == [port |-> sp.port, model |-> sp.default]
ClaudeDoc(old, roles) == [old EXCEPT !.points = sp.port, !.slot = roles]
CodexDoc(old)         == [old EXCEPT !.points = OursID, !.slot = Slot]
ProviderDoc(old)      == [old EXCEPT !.slot = Slot]

Plan(roles, add) ==
    LET old   == Content(file)
        rules == NewRules(roles, add)
        new   == CASE agent = "claude"   -> ClaudeDoc(old, roles)
                   [] agent = "codex"    -> CodexDoc(old)
                   [] agent = "opencode" -> ProviderDoc(old)
    IN  [at      |-> IF agent = "claude" /\ rules # sp.rules THEN "rules" ELSE "backup",
         roles   |-> roles, add |-> add,
         sp      |-> [sp EXCEPT !.rules = rules],
         new     |-> new,
         first   |-> FirstWrite(old),
         already |-> IF agent = "claude" THEN Already(old, roles, add) ELSE new = old,
         ruled   |-> FALSE, touched |-> FALSE]

NoJob == [at |-> "idle"]
Idle  == job.at = "idle"
NoClaim == [ok |-> FALSE]
Claim(roles, add) == [ok |-> TRUE, roles |-> roles, add |-> add]
Happens == edits < MaxEdits /\ edits' = edits + 1

-----------------------------------------------------------------------------
(* The requests of the page.                                               *)

\* The plan raises on a file it cannot parse, or without a default model;
\* only Codex's asks for the model before it asks for the token.
NoModel   == agent # "claude" /\ sp.default = None
Unplanned == file.kind = "broken" \/ NoModel
PlanFails ==
    /\ Idle /\ Unplanned
    /\ mp' = IF agent = "opencode" /\ file.kind # "broken" THEN LocalToken ELSE mp
    /\ result' = NoClaim
    /\ UNCHANGED <<sp, served, agent, agentFiles, job, moved, edits>>

\* A table of roles, or none: then the rules say it and no rule is added.
Request(roles, add) ==
    LET plan == Plan(roles, add)
    IN  /\ Idle /\ ~Unplanned
        /\ mp' = LocalToken
        /\ job' = IF plan.already THEN NoJob ELSE plan
        /\ result' = IF plan.already THEN Claim(roles, add) ELSE NoClaim
        /\ UNCHANGED <<sp, served, agent, agentFiles, moved, edits>>

Setup ==
    \/ agent = "claude" /\ \E roles \in RoleTables : Request(roles, TRUE)
    \/ Request(Derived, FALSE)
    \/ PlanFails

\* A preview makes the same plan, token included.
Preview ==
    /\ Idle
    /\ mp' = LocalToken
    /\ UNCHANGED <<sp, served, agent, agentFiles, job, result, moved, edits>>

\* _write_sp_rules commits the configuration the plan has read, with its rules.
WriteRules ==
    /\ job.at = "rules"
    /\ sp' = job.sp
    /\ job' = [job EXCEPT !.at = "backup", !.ruled = TRUE]
    /\ UNCHANGED <<served, mp, agent, agentFiles, result, moved, edits>>

RulesRefused ==
    /\ job.at = "rules" /\ Happens
    /\ job' = NoJob
    /\ UNCHANGED <<sp, served, mp, agent, agentFiles, result, moved>>

\* atomic_write: the backup, then the file.
BackUp ==
    /\ job.at = "backup"
    /\ bak' = IF job.first /\ file.kind # "absent"
              THEN file ELSE bak
    /\ job' = [job EXCEPT !.at = "replace"]
    /\ UNCHANGED <<sp, served, mp, agent, file, own, result, moved, edits>>

\* A copy that fails leaves a part of the file as the backup.
BackUpFails ==
    /\ job.at = "backup" /\ Happens
    /\ bak' = IF job.first /\ file.kind # "absent"
              THEN [bak EXCEPT !.kind = "broken"] ELSE bak
    /\ job' = [job EXCEPT !.at = "answer"]
    /\ UNCHANGED <<sp, served, mp, agent, file, own, result, moved>>

Replace ==
    /\ job.at = "replace"
    /\ file' = job.new
    /\ job' = [job EXCEPT !.at = "answer"]
    /\ result' = IF job.touched THEN NoClaim ELSE Claim(job.roles, job.add)
    /\ UNCHANGED <<sp, served, mp, agent, bak, own, moved, edits>>

ReplaceFails ==
    /\ job.at = "replace" /\ Happens
    /\ job' = [job EXCEPT !.at = "answer"]
    /\ UNCHANGED <<sp, served, mp, agent, agentFiles, result, moved>>

\* on_sp_saved: rules that were written are reloaded, whatever came after.
Reloaded == IF job.ruled THEN sp.rules ELSE served

AnswerSetup ==
    /\ job.at = "answer"
    /\ served' = Reloaded
    /\ job' = NoJob
    /\ UNCHANGED <<sp, mp, agent, agentFiles, result, moved, edits>>

-----------------------------------------------------------------------------
(* The others.                                                             *)

\* PUT /api/state: saved and reloaded; a set-up in flight knows nothing of it.
PutState ==
    /\ Happens
    /\ \E rules \in RuleTables, port \in Ports :
         /\ sp' = [sp EXCEPT !.rules = rules, !.port = port]
         /\ served' = rules
         /\ moved' = (moved \/ port # sp.port)
    /\ result' = NoClaim
    /\ job' = IF Idle THEN job ELSE [job EXCEPT !.touched = TRUE]
    /\ UNCHANGED <<mp, agent, agentFiles>>

\* The process dies; the next one loads what is saved.
Crash ==
    /\ ~Idle /\ Happens
    /\ job' = NoJob
    /\ served' = sp.rules
    /\ result' = NoClaim
    /\ UNCHANGED <<sp, mp, agent, agentFiles, moved>>

Edit(f) ==
    /\ Happens
    /\ ~Idle => job.at = "answer"
    /\ file' = f
    /\ own' = IF IsOwn(f) THEN f ELSE own
    /\ result' = NoClaim
    /\ UNCHANGED <<sp, served, mp, agent, bak, job, moved>>

\* A new content of the user's; another setting beside ours; the file removed,
\* spoilt, or put back from the backup.
UserEdits ==
    \/ Edit([Content(file) EXCEPT
                !.points = Own, !.user = edits + 1,
                !.slot = IF agent = "codex" THEN @ ELSE Blank])
    \/ Edit([Content(file) EXCEPT !.user = edits + 1])
    \/ file.kind # "absent" /\ Edit(Absent)
    \/ \E kind \in IF agent = "codex" THEN {"broken"} ELSE {"broken", "odd"} :
          Edit(Doc(kind, Own, Blank, edits + 1))
    \/ bak.kind # "absent" /\ Edit(bak)

-----------------------------------------------------------------------------
Init ==
    /\ \E rules \in RuleTables, m \in Models \cup {None}, p \in Ports :
          sp = [rules |-> rules, default |-> m, port |-> p]
    /\ served = sp.rules
    /\ mp \in {"plain", "token", "broken"}
    /\ agent \in Agents
    /\ file \in {Absent, Content(Absent)}
    /\ bak = Absent
    /\ own = file
    /\ job = NoJob /\ result = NoClaim
    /\ moved = FALSE /\ edits = 0

Next ==
    \/ Setup \/ Preview \/ WriteRules \/ RulesRefused \/ BackUp \/ BackUpFails
    \/ Replace \/ ReplaceFails \/ AnswerSetup
    \/ PutState \/ Crash \/ UserEdits

Spec == Init /\ [][Next]_vars

-----------------------------------------------------------------------------
(* Properties.                                                             *)

(* A first write backs up what the user had, and a repeated one does not   *)
(* overwrite that backup (the module's docstring): whatever fails, and     *)
(* however often the user goes back and forth, the user's last content is  *)
(* in the file or in the backup.  Claude Code's file is told from the      *)
(* user's by the gateway's address, so its half ends when that address     *)
(* changes.                                                                *)
UserStateKept ==
    \/ agent = "claude" /\ moved
    \/ own.kind = "absent"
    \/ own \in {file, bak}

(* A set-up of Claude Code that says "added" or "already" leaves its two   *)
(* faces equal: the roles of the table are in settings.json, and the       *)
(* gateway's rule of a tier has the same target (setup, _plan).            *)
OkMeansBothFaces ==
    (agent = "claude" /\ result.ok) =>
           /\ file.points = sp.port
           /\ \A r \in Roles : result.roles[r] # None =>
                /\ file.slot[r] = result.roles[r]
                /\ r \in Tiers =>
                     LET i == Exact(sp.rules, r)
                     IN  IF i = 0 THEN ~result.add ELSE sp.rules[i].to = result.roles[r]

(* The gateway serves the rules that are saved once no set-up is in        *)
(* flight, also when the write after the rules failed                      *)
(* (_api_setup_claude_code).                                               *)
GatewayHasRules == Idle => served = sp.rules

(* Both, for the settings file, the saved rules and the served ones are    *)
(* what one set-up must leave in agreement (_api_setup_claude_code).       *)
FacesAgree == OkMeansBothFaces /\ GatewayHasRules

(* The types of the state.                                                 *)
Slots == IF agent = "claude" THEN [Roles -> Models \cup {None}]
         ELSE [port: Ports \cup {None}, model: Models \cup {None}]
Docs == [kind: {"absent", "broken", "odd", "doc"}, points: {Own, OursID} \cup Ports,
         slot: Slots, user: 0 .. MaxEdits]
TypeOK ==
    /\ sp.default \in Models \cup {None} /\ sp.port \in Ports
    /\ mp \in {"plain", "token", "broken", "bare"}
    /\ agent \in Agents /\ {file, bak, own} \subseteq Docs
    /\ job.at \in {"idle", "rules", "backup", "replace", "answer"}
    /\ ~Idle => job.new \in Docs
    /\ {result.ok, moved} \subseteq BOOLEAN /\ edits \in 0 .. MaxEdits
=============================================================================

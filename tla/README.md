# Magic Stack in TLA+

Magic Stack (repository Magic-AI-Router) is a macOS menu-bar program in Python. It keeps ssh
tunnels up, runs a local HTTP proxy over them, an AI gateway that routes model requests to
providers ("Suanpan"), a traffic capture for AI calls, and NFS mounts carried by ssh; it sets the
system proxy, and serves its settings window from a local configuration server. One process holds
all of it: a main thread (menu, a one-second tick, callbacks), asyncio servers in threads of their
own, short-lived worker threads, and child processes (ssh, mitmdump, mount).

This directory holds TLA+ modules translated from that code, TLC configurations that check them on
small instances, and TLAPS proofs. `PROJECT.json` lists components, runs, mutants, the map from
definitions to source lines, hazards, findings and theorems.

    tlc -workers 2 -config ConfigTxn_serial.cfg MCConfigTxn     # one run
    tlapm ConfigTxnProofs.tla                                    # the proofs

## 1. Inventory

What each part keeps, does, and must get right. "Hard" names the behaviour a unit test hardly
reaches. The modules in brackets model the part; `PROJECT.json` says what of it is left out.

| Part (under `src/`) | State | Operations | Talks to | Hard | Correct when |
|---|---|---|---|---|---|
| Configuration transaction, `mpconf/config_state.py`, `shared/config_store.py`, `shared/keychain.py` [ConfigTxn, AtomicConfig] | two JSON files, redo journal, Keychain | prepare, commit, rollback, recover, update_mp | configuration server, menu, rule writer | crash between two file installs, failure of a late step, overlapping saves | a save happens as a whole or not at all; passwords go last |
| Single-instance lock, `sysctl/instance_owner.py` [InstanceOwner] | lock file | acquire, takeover, release | application start, port check | racing starts, pid reuse, `ps` failing | one owner; a dead one blocks nobody |
| System proxy, `sysctl/system_proxy.py`, `sys_proxy_controller.py` [SystemProxy] | macOS settings, recovery journal, the controller's snapshot | sync, toggle, release, recover, quit | tick, capture, connection | death or failure inside a transaction, the user's own edits | the user's settings are never lost |
| Server runtime, `tunnel/async_runtime.py` [AsyncRuntime] | generation, thread, stop function, state | start, stop, worker | HTTP proxy, gateway, watchdog | stop against a start that is under way, joins that time out | one server, truthful answers |
| NFS mounts, `mount/coordinator.py`, `nfs_session.py` [MountCoordinator] | desired set, row states, session | start/stop, tick, mount and unmount jobs, quit | ssh session, mount commands | jobs racing intents, dead links under hard mounts, leftovers of a killed process | wanted mounts mount, hanging and stray ones go |
| SSH sessions, `tunnel/connection_coordinator.py`, `ssh_session.py`, `host_key_flow.py`, `retry_scheduler.py`, `shared/subprocess_monitor.py` [Connection] | process, status, retry timer, inspection and prompts | start, tick, restart, cancel, pause, wake, host-key prompts | menu, bridge, notification centre | the main thread and the restart thread in one monitor; stale prompts | no lost process; retries never give up |
| Gateway requests, `suanpan/proxy.py`, `router.py`, `main.py`, `middleware.py`, `usage_extractor.py`, `usage_log.py` [Gateway] | a request's lane, stream and usage | select, retry, fall back, stream, account | providers, usage log | failure after the upstream has worked, clients that leave, late counts | work is done once, and accounted once |
| Protocol translation, `suanpan/compat.py` [Translator, Gateway] | stream translator | translate conversations and events | gateway | interleaved tool calls, cut streams | the translated stream is well formed |
| HTTP proxy, `tunnel/proxy.py`, `http_framer.py` [HttpProxy] | connection, upstream, counters, slots | frame, relay, CONNECT | ssh session | ambiguous framing, half-closed peers, pipelining | bytes of one message never leak into the next |
| Gateway runtime and watchdog, `services/suanpan_runtime.py`, `gateway_watchdog.py`, `docker/entry.py` [GatewayRuntime, Shell] | server state, cached address, misses, back-off | start, stop, reload, audit, heal | server runtime | four threads and no lock | what is served is what was saved; dead gateways come back |
| Lifecycle and shell, `services/lifecycle_runtime.py`, `app.py`, `services/config_server.py` (its life), `shellui/webview_window.py`, `capture/capture_controller.py`, `sysctl/sleep_blocker.py` [Shell] | holders, server, window, capture switch, sleep latch | tick, menu, save callbacks, quit | everything | callbacks on three kinds of thread | what was wanted is up, what was set is unset |
| Agents set-up, `services/claude_code_setup.py`, `mpconf/local_token.py` [AgentSetup] | other programs' settings, backups, rules | preview, plan, write | configuration, gateway | backups of the right content, half-done set-ups | the user's own file survives; the answer is true |
| Capture, `capture/ai_capture_addon.py`, `capture_store.py`, `capture.py` [Capture] | flows' buffers, daily files | hooks, append, trim, rotate, clean, expire | mitmdump, settings window | a clean beside an append, mitmdump's end anywhere | a bounded store of true records |
| Pure and presentational parts (schema, validation, command lines, menus, i18n, provider queries, build tools) | none or caches | — | — | — | see section 7 |

The coordinators share the configuration dictionary, which a save replaces as a whole and each
reads again; everything else between them is calls on the main thread and flags read by the tick.

## 2. Plan

The order was by what would hurt a user most: lost configuration, lost system settings, a machine
with two owners, hanging mounts, a tunnel that does not come back; then the traffic (gateway,
translation, HTTP proxy), then the composition (shell over the gateway's runtime), then the
programs and files at the edge (agents, capture).

1. Written and checked: all modules of section 4.
2. Proved: what section 5 lists, in eight modules `...Proofs`. No module that a proof uses has a
   recursive operator. `ProcessProofs` extends two components (AsyncRuntime, InstanceOwner), and
   `FilesProofs` two more (AgentSetup, Capture), so InstanceOwner's and Capture's top-level names
   carry `Owner` and `Store` (`OwnerSpec`, `StoreNext`, ...).
3. Extensions that would add something: two forward sessions that share a port, the demotion of an
   old main server, and the readers of the configuration server.

Each module takes its bounds as constants, has one action per handler, keeps recursion out, and
states what happened on the way in a history variable, so that one configuration per component can
allow every hazard and each property can name the hazards it does not survive.

## 3. Conventions

*Hazards and history.* A constant (`Faults`, `Hazards`, `Families`) lists what a run allows; history
variables (`met`, `raced`, `crossed`, `apart`, `overtaken`, `moved`, `ending`) record what a behaviour met. A property
such as `OriginalSafe == met \cap Losing = {} => ...` says exactly under which circumstances the
code keeps its promise, and every set excluded in this way stands for a behaviour the code really
has, described in section 6.

*Bounds* are the constants marked `BOUND`. They appear as guards of the actions that start
something new; nothing inside an operation is cut short.

*Type invariants.* Each module of several variables has a `TypeOK`. It is listed in the run of
ConfigTxn; in InstanceOwner, AsyncRuntime, SystemProxy, Connection and Shell it is a part of the
inductive invariant, and so proved; in the others it was checked with the run's constants while the
module was written.

*Cases.* TLA+ leaves open which arm of a CASE counts when two guards hold. The arms here are disjoint;
where the code tests one condition after the other, the definition is a chain of IFs.

*Mutants.* Operators with a comment "Mutant of ..." are broken variants; each property of each
passing run is violated when one of them takes its original's place. Nothing else uses them.

## 4. Modules

### ConfigTxn: saving the configuration

`disk`, `journal`, `keychain` are what survives; `plan`, `old`, `result` are a thread's CommitPlan,
its copy of the old files and its answer; `pc` is the step of `commit`. A file's content is the set
of saves whose edits it carries: a form replaces a file by its own save, `update_mp` and the rule
writer add theirs to what they read. `Prepare` reads, `Snapshot` copies the old contents,
`JournalWrite`, `AtomicInstall` per file, `SetErase`/`SetAdd` and `Del` over the Keychain, `Clear`
removes the journal; `Undo`/`UndoLog` roll back; `Crash` may come between any two of them, and
`Start`/`Replay`/`ReplayLog` are `recover`. Validation of a form and masking of secrets are
abstracted: a save that does not validate never reaches `commit`.

AtomicConfig is what a caller relies on: the configuration in force (`cfg`) and the one the next
start comes up with (`boot`). A save is promised to the next start when its journal is written;
"ok" comes with all of the change, "failed" with the configuration as it was, and a death leaves the
promise to be kept. Two things are weaker than one would like, and stated as they are: a rollback
whose removal of the journal fails answers "failed" but leaves the promise (`Abort`), and a rollback
or a recovery that cannot write a file leaves the files half new (`Tear`, `Start` with `torn`).
`AtomicSaves` says ConfigTxn implements it, mapping `cfg` to the old contents while a save may still
roll back, and `boot` to the files with the journal replayed over them.

* `ConfigTxn_serial`: one thread, three saves, two accounts, every kind of save, every failure
  (journal, installs, Keychain, removals, rollback and replay writes) and crashes. Three saves are
  what it takes to leave a journal, make another save, and replay the first over it. Shows `TypeOK`,
  `NoStaleReplay`, `PasswordsGoAfterFiles`, `AtomicSaves`.

Saves of several threads are in the model (`Writers`), but nothing orders them in the code, and the
properties speak of the time before two saves first overlap (the history flag `overlap`; section 6).
As saves that do not overlap are saves one after the other, one thread is enough for the run.

### InstanceOwner: one running program

A process is a run of the program; its pid may be reused by a later one. `Create` and `Write` are
two steps, as in the code; `Load`, `Ps`, `Replace`, `Verify` are the takeover; `Release` compares
pids, then `Unlink`. `Exit` is the refused start of `app.py`.

* `InstanceOwner_launches`: four launches, one of which has an older one's pid, over no lock or a
  stale lock, with kills, overlaps and failing `ps`. `SomeoneWins` holds for racing starts too;
  `OneOwnerAlone` (one owner, and the lock names it) holds when starts do not overlap and `ps`
  works. Four launches give two racers, one that comes later and one with a reused pid.

### SystemProxy: the user's proxy settings

`net` is what networksetup reports, `user` what the user last chose, `journal` the recovery file;
`applied`, `appliedTarget`, `snapshot`, `desired` are the controller's memory. `BeginApply` reads
and journals, `Apply` writes one slot at a time (any order, a superset of the code's), failing
commands lead to `Undo`; `Release`/`Restore` and `Recover` compare before they write. A sync, a
start and a second launch each read only the services networksetup lets them read: a start that
cannot read a service of its journal (`blind`) recovers nothing and does not try again.

* `SystemProxy_cycles`: two services, one setting each, two endpoints, three starts, two faults of
  any kind. One setting per service suffices because no property relates settings of one service;
  two services are needed for partial transactions. Shows `OriginalSafe`, `RestoreSparesUser`,
  `Restored`.

Fairness: the tick calls sync again and again, a started transaction runs on.
Simplifications: sync's inputs change between syncs (it reads them once); the user does not edit
in the middle of a transaction (a window of a few commands); a second launch's recovery is one step.

### AsyncRuntime: server generations

Every critical section under `_lock` is one step, every test or signal between two of them is
another. A generation's thread goes through `begin, build, check, mark, serve, fail, end`; a caller
of `stop` reads, signals, joins (or times out) and settles the state.

* `AsyncRuntime_calls`: two threads that both start and stop, three generations, factory
  and serving failures. Three generations are a current, a previous and a next one. Shows
  `OneServer` (no two generations, and the reports of state and stop agree with the threads) and
  `StopsPrevail`.

A start reads the previous thread in one critical section and publishes its own in another. Where
the sections of two starts meet (`apart` is then false), two generations may come up, as section 6
says; nothing is claimed of what follows, and `MCAsyncRuntime` ends the behaviour there. A start
that meets a stop, and two stops, are all in the run.

Fairness: each thread takes its steps, except that a server serves until it is asked to stop.
`StopsPrevail` assumes a caller that keeps asking, as quit and the menu do.

### MountCoordinator: mounts over ssh

The menu's calls and the tick are single steps (they hold the lock); a `_mount_job` has the steps
of its waits and commands, likewise an `_unmount_job`. Every reading of the mount table may fail (hazard `table`), and then
looks like an empty one. `table` is what `/sbin/mount` would report;
`session` is the coordinator's view of its ssh session and `served` whether the port really is.

* `MountCoordinator_rows`: two auto-mounted rows, two ports, two workers, every hazard, one of them
  per behaviour, one user intent. Two rows are needed for a session that one still needs when the
  other goes. The first port is fixed (ports are interchangeable; liveness forbids declaring the
  symmetry). Shows `HangingEnds`, `StraysGo`, `WantedMounts`.

Fairness: the tick, the workers and the ssh client go on; a mount or umount command may fail only as
often as `MaxFaults` says. Simplifications: no ssh child or mount command survives the program.

### Connection: an ssh session

One session, in the role of the main one or of a forward one, chosen at the start. `main` is where
the main thread is inside `monitor.start` (waiting for the old process, about to set the status,
about to call Popen) or between the two halves of the tick; `bg` is the thread of `restart`,
`restart_forward` or `stop_forward`, which holds the lock while it waits. Calls on the main thread
that hold the lock are one step. `job` is the inspection of the current host-key generation and
`asks` the stack of open prompts: `rumps.alert` runs its own event loop, so callbacks come in while
a prompt is open and prompts nest, but ticks and the menu wait. A bumped generation drops the job
and marks the prompts stale.

The environment: ssh processes come up when the key is trusted, the server reachable and the port
free; they end when told to, when they cannot come up, or when the link dies. The server may be away
for a while and may change its key.

* `Connection_sessions`: both roles, two processes (the monitor's and the one it waits for, or one
  that was lost), three acts of the user or wakes, one fault. A restart may come at any step of a
  start and a start at any step of a restart. (Two faults with two acts, checked separately, find nothing
  more.) Shows `NoOrphan`, `KeepsTrying`, `ChangeIsAsked`.

Fairness: threads run, timers fire, ssh gets somewhere; callbacks queued for the main thread are
served although ticks keep coming (strong fairness of `Finish`: the run loop serves both sources).
Nobody has to answer a prompt.
Simplifications: an alert that only informs (a failed inspection) is dismissed at once (until then its
event loop holds up the tick, and with it the retries); a server is configured; a forward session that was dropped is created anew only
when its old process and prompts are gone (the code would make a second object; two of them would
share nothing but the port). Left out: the demotion of the old main server by `restart`, autostarts,
the stop at quit, the rate limit on wakes.

### Gateway and Translator: a model request

`Gateway` is one request, from the middleware to the last byte. `phase` is where the handler is:
`middleware` (key and size), `parse` (JSON, route), `lane` (what the lane sends, or its refusal),
`send` (`_send_with_retry`, with `attempt`), `read` (an answer in one piece), `stream`, `tail` (the
`finally` of the generator), `done`. `route` is RouteDecision, `upstream` the httpx response, `tr`
the stream translator, `usage` and `cut` the extractor, `records` and `failures` the usage log.
Requests share only the connection pool and the log, whose write is one locked step, so one request
at a time is enough; what interleaves is the upstream, which may fail, cut or stall anywhere, and the
client, who may leave at any byte, or stay and neither send the rest of its body nor take what it is
sent: `waits`. `worked` counts how often the upstream did the work, whatever the
handler learned of it.

`Translator` holds the two conversions of `compat.py` as operators: a conversation on its way out
(results first, one message each, documents dropped where the backend knows none) and the stream on
its way back, a record whose `out` collects Anthropic events while lines of a chunk are fed to it.

* `Gateway_requests`: three providers (one natively Anthropic, one OpenAI, one disabled), every path,
  every way to name a provider, conversations with interleaved calls, every kind of chunk and chunks
  of two lines, up to four pieces. Four pieces are what it takes to open a text block, two tool
  blocks, and end. Shows `NoDoubleWork`, `OneRecord`, `UsageIsReported`, `FallbackAnnounced`,
  `BlocksNest`, `AnswersFollowCalls`, `EveryRequestEnds`. Every conversation of the run is a
  `Conversation`: the property says nothing of a result that answers no call.

Fairness: the handler goes on, and its waits for the upstream have a timeout. Its waits for the client
have none, and nothing is assumed of the client: `EveryRequestEnds` says that a request ends, or from
some point on waits for a client that neither goes on nor leaves. Simplifications: texts are not looked into; httpx and Starlette are
external (a cancelled generator runs its `finally`, one that was never started runs nothing).

### HttpProxy: a client connection

A stream is a sequence of tokens (a head, pieces of a body, its last piece, bytes nobody can
delimit), so that a reader that stops early leaves the rest to the next one. Of the client's, `tokens`
is where the proxy stands: the request it is in and what is left of it; of the upstream's,
`remote.stream` is what is left to read. `step` is where the
handler waits: for a slot, a request line, a body, the origin, an answer; a peer may end its stream,
break it off or fall silent at any of them, and `waits` says whose full buffer a `drain()` waits
for. `flow` is the two directions of a CONNECT. A request's `hop` says that its Connection header
names its framing header: the head goes out without it and the body as it was framed (`Bare`).
`delivered` and `out` are what each side was sent, with the request it belongs to.

* `HttpProxy_relay`: clients that pipeline up to three requests to two origins, with every framing,
  and origins with every framing, interim answers, closes and cuts. Two origins make reuse of the
  wrong one possible, three requests a reuse after a reuse. Shows `Attributed`, `NothingAfterCut`,
  `RequestsIntact`, `ConnectionsEnd`.

Fairness: the loop runs its tasks, and every read has a timeout. A `drain()` has none, and no peer is
fair: `ConnectionsEnd` says that a connection ends, or waits for ever for a peer that neither reads
nor goes away. Simplification: other connections are only slots taken and given back.

### GatewayRuntime and Shell: the application around its servers

`GatewayRuntime` is the gateway's server as its callers see it: `gw` is state, configuration served
and port (a start claims the runtime and publishes its thread in two steps, and what a stop writes
behind its join is a step of its own), `cached` the address the watchdog compares, `call[t]` the step of thread t inside `start`,
`stop` or `reload_or_start` (there is no lock, so steps of several threads come between each other),
`dog` the watchdog. `Shell` extends it with `app.py` and the lifecycle runtime: `todo[t]` is what the
current callback of thread t has left to do, `holds`/`apiDisk`/`httpd` who wants the settings server
and what it is, `window` the settings window, `capture` (with `told`, a mitmdump that has its signal
and still runs), `guides`, `sleep`, and `life` (up, quitting,
left). Every menu entry, tick step, save callback and step of quit is an action.

Two history flags bound what is claimed. `crossed`: a claim fell into another thread's stop, or
between another's claim and its publication; two generations may then run, or one that is reported
stopped, and `MCShell` ends the behaviour there. `raced`: two decisions about the settings server
overlapped, and the older one may have had the last word; it holds until a save or a switch of the
API in the menu decides alone, from where on the server follows its holders again.

* `Shell_session`: a session from start to quit, with two saves at once, two configurations and one
  that does not load. `Families` bounds it: each behaviour mixes the events of one family (gateway,
  faults, saves of the gateway's file and quit; settings server, saves of the program's file and
  quit; capture, sleep and quit), since events of different families touch disjoint state but for the
  main thread and the quit, which are in all. Three events are a save, a fault and a menu entry (or
  two saves and one); five in the last family make two full cycles of capture or sleep. Shows
  `ServerFollowsHolders`, `ServedIsSaved`, `NoStrayCapture`, `QuitIsClean`, `ZombieIsRebuilt`,
  `SaveRevives`, `SleepIsHeld`.
* `Shell_window` (violation): see section 6.

Fairness: a thread with work goes on, the tick comes, a server thread that was told to stop ends,
back-off expires; no click, request or fault is owed. One assumption on time, `InTime`: binding a port takes
less than the five seconds between two audits, so at most one audit falls into a reload.

### AgentSetup: pointing a coding agent at the gateway

`sp` is the gateway's configuration, `served` what it has loaded, `file`, `bak` and `own` the
agent's file, its backup and the user's last own content, `job` the set-up in flight, `result` its
answer. `Setup` plans (`Plan`, with the first-write decision and the rules), `WriteRules`, `BackUp`
and `Replace` are its steps, each of which may fail or be the last before a crash; `Edit` and
`PutState` are the user and another save between set-ups.

* `AgentSetup_edits`: Claude Code, Codex and the JSON agents over every state of their files, four
  edits, saves, failures or crashes (an edit, a set-up, an edit, a set-up, with one failure). Shows
  `UserStateKept` and `FacesAgree` (an "ok" means the file and the rules agree, and the gateway serves
  the rules that are saved).

Simplifications: one set-up at a time, no edit of its target between plan and write.

### Capture: records of AI traffic

`flow` is each flow's metadata and accumulator, `files` the store (name to size, time, records),
`app` the append under way in mitmdump, `cleaner` the clean under way in the application. Hooks run
on mitmdump's one loop, and an append blocks it: `RequestSeen`, `Chunk`, `Response`, `Error` are one step
each, then `TrimUnlinks`*, `TrimEnds`, `Refuse` or `Rotate`, `Write`, and the second trim, with the
clean's steps, midnight and an end of mitmdump between any two. A trim goes by what its scan saw; a
file that is gone fails the first trim, and so the record, and is ignored by the second. An answer is
a sequence of bytes of which only the character boundaries are kept, so that `Captured` is the code's
own search for one.

* `Capture_store`: three flows, a budget of four bytes, files of three, a store of eight and records
  of at most five: one record can fill a file and three overfill the store; answers fit the budget or
  pass it inside a character. One flow is open at a time (accumulators are per flow, appends are
  not concurrent). Shows `StoreBounded`, `RecordsStand`, `CleanMeansClean`.

Simplifications: open and write are one step (a clean between them has the outcome of one behind
them), so no line is torn by a kill; the newline, which makes a record a byte larger than its budget
says, is not counted; what a record weighs is its request, its text and one; an unsafe directory, which refuses
every append, is left out.

## 5. What is proved

Each theorem holds for every value of its module's constants: any number of processes, threads,
files, origins or services, any set of hazards, any bound. The constants' named assumptions say only
that bounds are naturals, that sets named apart are apart, and that functions have their domains. The
theorems assume nothing else; what a property does not claim, after two saves have overlapped say, is
written in the property.

| Module | Theorem | States |
|---|---|---|
| ConfigTxnProofs | `TypeCorrect` | `[]TypeOK` |
| | `LeftoverJournalHarmless`, `PasswordsGoLast`, `AtomicSavesHold` | `[]NoStaleReplay`, `PasswordsGoAfterFiles`, and that ConfigTxn implements AtomicConfig: each until two saves overlap |
| ProcessProofs | `OneOwner`, `RacersNeverAllLose` | `[]OneOwnerAlone`, `[]SomeoneWins` |
| | `OneServerAtATime` | `[]OneServer` |
| SystemProxyProofs | `OriginalIsSafe`, `UserIsSpared` | `[]OriginalSafe`, `RestoreSparesUser` (an action property) |
| ConnectionProofs | `NoProcessIsLost` | `[]NoOrphan` |
| GatewayProofs | `WorkedOnOnce`, `AccountedOnce`, `FallbackIsTold`, `StreamsNest`, `StreamsAreAccounted`, `ResultsFollowCalls` | `[]NoDoubleWork`, `[]OneRecord`, `[]FallbackAnnounced`, `[]BlocksNest`, `[]UsageIsReported`, `[]AnswersFollowCalls` |
| HttpProxyProofs | `AnswersAreAttributed`, `NothingFollowsACut`, `RequestsStayIntact` | `[]Attributed`, `[]NothingAfterCut`, `[]RequestsIntact` |
| ShellProofs | `NoCaptureIsStray`, `QuitReachesAll`, `SavedIsServed`, `HoldersAreFollowed` (and `ShellTypesHold`) | `[]NoStrayCapture`, `[]QuitIsClean`, `[]ServedIsSaved`, `[]ServerFollowsHolders` (and `[]TypeOK`) |
| FilesProofs | `UserContentSurvives`, `BothFacesAgree` | `[]UserStateKept`, `[]FacesAgree` |
| | `StoreStaysBounded`, `RecordsAreKept`, `CleanTellsTheTruth` | `[]StoreBounded`, `[]RecordsStand`, `[]CleanMeansClean` |

None of these invariants is inductive by itself. What each module adds, and why:

**ConfigTxn.** Nothing is assumed of the failures or of the number of writers; `Serial` is what holds
while `overlap` is false, and begins with `Alone` (at most one save is under way). `PayloadInv`: which
of the new and old contents a save holds at each step. `ProgressInv`: how far the files have got
("both new" while the Keychain is touched, "MP new, SP old" between the installs, each one or the
other in a rollback). `JournalInv`: the journal is the save's own from its first install to its last,
or, in a rollback whose journal was never written, the files are as they were. `IdInv` and
`NewerOrDone`: the number of a save under way is above that of every save told ok, and a journal whose
replay would change a file carries such a number in each of its files; that is why a leftover one
can bring a failed save but never take back a finished one. `AtomicSave`, `AtomicCrash` and
`AtomicRecover` then show each action to be a step of AtomicConfig or invisible in it: the journal's
write is `Promise`, the install and Keychain steps are hidden because the configuration is the old
contents until the save returns, the return is `Commit`, `Abort` or `Tear`.

**InstanceOwner.** `LoneInv`: while no hazard but kills has been met, one launch at a time is inside
acquire, and `StageInv` says what it knows of the lock at its step (the lock it created is still its
own, a takeover that goes on has no living owner). `RaceInv`, for racing starts: until somebody
leaves, the last process to put its name in the lock is the owner or about to be, and while nobody
has, nobody can have been refused. `Authored` excludes a lock with a record and no author.

**SystemProxy.** `SafeInv` holds as long as nothing of `Losing` was met. `JournalInv`: settings that no
transaction holds are the user's, and of the others the journal has the user's. `ProgressInv`: which
settings have their new value at each step of a transaction. `MemoryInv`: the controller's snapshot
is the journal's, so that a release and a recovery restore the same. `OursInv`: whatever is compared
before a write is an endpoint of ours, which gives `RestoreSparesUser` with no condition on hazards.

**AsyncRuntime.** Starts and stops come from any thread. `SafeInv` is `TypeOK` and, until the sections
of two starts meet, `IInv`: with two that meet TLC finds two generations. `LiveInv`: the thread that lives is the current generation, known
to the object together with its stop event. `CallInv`: what the locals of a call say of the thread
that lives (its event after the read, that it was told after the signal, that none lives at the
claim), for a start, which has met no other start, and for any call that has met no other.
`Reported` and `AloneInv`: state and threads agree while calls do not overlap.

**Connection.** `ProcInv` holds until a start and a restart wait for the same process (`Uncrossed`),
however they overlap otherwise: the monitor's process is the only one that runs untold, a thread that waits does so for that one, which it has told
to end, and a start that has done waiting has none before its Popen. `Order`, which is `StartInv` and `DroppedInv`,
holds while besides no prompt has come too late and no forward session was stopped within its start
(`Followed`). `StartInv`: a start is of a session that is open, and the status says so unless a restart has changed it
meanwhile. `DroppedInv`: a session that is dropped or in a restart has no inspection and no fresh prompt that
would start it again, and a stopped one has no process.

**Gateway.** `WorkInv`: the work done upstream is at most one piece per attempt, and none without an
idempotency key before an attempt that is still to come. `LogInv`: nothing is accounted before the
end, one thing at the end. `AnswerInv`: from the route on, the route is what the request decides and
an answer announces what it fell back from; it needs that the rule found is one of the rules, by a
lemma on least elements (`LeastOf`). `UsageInv`: while the extractor looks, it has seen the largest
count there was. `StreamInv`: what the client has got is in order (`InOrder`) as the translator stands.
In order is more than `BlocksNest`: `Nests` relates the events to the translator's open block and
index, and says that every other block is closed by now; `Frozen` is a stream with an error, after
which nothing has a place. `ToldInv`: of a translated stream the extractor sees no count before the
end, and the one told there is what the translator kept, the last that was reported (`Accounts`).
Both go through three folds: over the lines of a piece, the tool calls of a line and the events of
a piece. A fold is a `CHOOSE` of a recursive function on sets of positions; `FoldingExists` shows there
is one and `StepByStep` carries a fact from each position to the next, both by a least
counterexample. Each part of the translation then has a lemma that it is `Quiet`: it keeps the
order, the usage and the end as they were; `LineInOrder`, `LineTells` and `FinishTells` add the lines
that are not. What is assumed of the upstream is that a piece is a sequence of lines (`Line`), any
number of them with any content, and a `[DONE]` line reports no usage.

`SentInv`: while a request is sent, and sent again, what goes out is the client's conversation as
`ToOpenAI` converts it. The conversion is two more folds, over the blocks of a message (`KeptOf`: the
blocks of the wanted kinds, and all of them) and over the messages, along which `GoneOut` is handed
on: each result stands in its place, what was called and answered so far is all there, and if the
last message was the assistant's, it is the last that went out and makes its calls, so that the
results that come next have what they must follow (`AssistantOn`, `UserOn`). The property, and so
`ResultsFollowCalls`, is about a `Conversation`: the messages are the Anthropic API's, calls are the
assistant's, results the user's, and a message answers only calls of the one before it. The gateway
does not check that; it forwards another conversation as it comes. Nothing is assumed of the order
or number of blocks, or of calls that are never answered.

**HttpProxy.** Streams have any length and interim answers any number, so the invariant says what a
stream looks like at each step. `StreamInv`: the client's stream stands before a head, or before the
end of the body under way; what has no framing ends the connection. `RemoteInv`: the upstream
connection is to the origin that is asked and has nothing left of an earlier answer; `keep` at the
end of an answer means there is nothing left of it. All three properties speak of a client none of
whose requests names its own framing header in Connection (`Plain`), which stays as it is in every
behaviour (`ScriptStays`): on other connections a body reaches the origin without a length. `AnswersInv`, `CutInv` and `SentInv` then relate
both to what either side has been sent.

**Shell.** `ShapeInv`: the lists of steps a thread may have left. `CaptureInv`: the monitor's handle tells
whether a mitmdump runs, and none runs while capture is off. `QuitInv`: what a quit has taken down
stays down, since it has the main thread for itself. `ServedInv`: a gateway whose configuration is
not the saved one has a thread that owes it the reload, which a claim's publication and a stop's last
write leave in place. `ServerInv`: from a decision about the
settings server that met no other until the next two that meet, there is at most one under way, it was
made for the holders as they are, and the server is as the last one wanted it. `QuitReachesAll` says
what `quit` has ended by the time the lock is released, and what has only had its signal.

**AgentSetup.** `ShapeInv`: the types of what is saved and of a set-up in flight. `KeptInv`, as long as
Claude Code's file can be told from the user's (`Blurred`: the gateway's address has moved): the
user's last content is the file while the file is the user's and the backup from then on, and what a
set-up is about to write is ours and its first-write decision that of the file it replaces
(`JobKeeps`). `FaceInv`: the rules a set-up of Claude Code carries agree with its table and are the
saved ones until somebody else saves (`JobAgrees`), nothing is claimed while it writes, and the
gateway serves the saved rules unless a set-up has yet to have them loaded. `UpsertFacts` and
`RulesAgree` say what the change of a tier's rule leaves of the others; they rest on least positions
(`LeastOf`), not on induction.

**Capture.** `FlowInv`: an accumulator holds what was sent as long as it was not cut, so a record is the
whole answer or marked. `AppendInv`: a record under way is that of one answered flow nobody has
written. `OnceInv`, `DayInv`, `OrderInv`: no flow is written twice, a file has records of its day only,
and the file that was rotated is older than the day's in time and in every record, so that whatever a
trim, a rotation or an expiry removes was not newer than what stays. `CalmInv`: while nobody cleans,
a trim's scan is the store. `CleanInv`: of what a clean found, what is left is in files it has yet to
remove. `RoomInv`: what the scan saw covers what there is, so a trim that is done has made room, a
rotation makes the store no heavier, and a write adds its record. The sum of the sizes is a fold over
a set; `SumsExist`, `SumsFacts` and `TotalFacts` derive what is needed of it by minimal
counterexamples (a smallest subset for which a claim fails), since the induction theorems are out of
reach.

*Only model-checked.* Liveness (`Restored`, `StopsPrevail`, `HangingEnds`, `StraysGo`, `WantedMounts`,
`KeepsTrying`, `ChangeIsAsked`, `EveryRequestEnds`, `ConnectionsEnd`, `ZombieIsRebuilt`,
`SaveRevives`, `SleepIsHeld`): fairness is out of the prover's reach. Everything else that a
passing run checks is a theorem of the table.

## 6. What the code does not do

A run fails on purpose, and its finding in `PROJECT.json` quotes the comment it contradicts: the
settings window, opened while an older one is in the Dock, closes the old one from inside the call,
whose callback stops the server that the new window needs (`Shell_window`).

Four more were found by runs made for the purpose, which are not kept, and two by reading; each
contradicts what the code says of itself:

* `update_mp` reads, another save lands, and the update erases it (`config_state.py:410-424`).
* The lock file exists before its record, and a racing start takes the empty file for stale: two
  owners (`instance_owner.py:75` against line 8).
* A kill inside apply leaves settings that match neither image, and recovery leaves them alone
  (`system_proxy.py:224` against 4-5).
* A stopped mount loses its tunnel before it is unmounted (`mount/coordinator.py:168` against 11).
* Retries and host-key callbacks run outside the lock that is said to cover them, and a restart can
  orphan the ssh process that the main thread has just started (`connection_coordinator.py:191`
  against 83-86).
* `captured()` promises no half character (`ai_capture_addon.py:699`). A buffer that was cut exactly
  behind a complete character of several bytes loses all of it but the first byte: the test
  `end - 1 + need > len(buf)` is for incomplete ones, and nothing restores the bytes that were
  skipped. The text then ends in a replacement character.

Met on the way, and the reason for a condition in some property:

* ConfigTxn. Two form saves that interleave can leave MP of one and SP of the other; all four
  properties but the types are about saves that do not. A rollback whose removal of the journal fails
  (`config_state.py:298-302`) answers as if it had succeeded, and the next start replays the journal:
  a save its caller was told has failed is then in force, both files of it. `commit` says it does not
  expose a failed save's state (307-311); it does so at the next start. A rollback or a recovery that
  cannot write a file leaves one file new and one old, with the journal in place for the next start,
  unless a save comes first and overwrites it. A save that fails at its second password has stored
  the first, and `set_password` deletes before it adds, so a failed add leaves no password.
* InstanceOwner. Two takeovers of one stale lock can both verify. A `ps` failure makes a living
  holder look dead.
* SystemProxy (the set `Losing`). A restore command that fails makes every later release refuse. A
  journal that cannot be written while the endpoint changes drops the snapshot. An edit made while
  we hold a setting is overwritten when the endpoint changes. The constructor tries the recovery
  once (sys_proxy_controller.py:41-44), and a service it cannot read makes it refuse
  (system_proxy.py:95-97, 215): after a death and one such read, the next sync takes our own
  endpoint for the user's and overwrites the only journal that has theirs. A second launch recovers the
  transaction of the running instance before it asks for the instance lock. After a failed rollback
  the next apply takes our own endpoint for the user's.
* AsyncRuntime (the flags `alone` and `apart`). Two starts from two threads, one between the other's
  reading of the previous thread and its publication, can publish two generations.
  A stop that ends late writes STOPPED over a newer generation. A stop that falls between the
  factory's return and the publication of the stop function reaches nobody. After a stop that timed
  out, the state is "stopped" and the watchdog heals nothing.
* MountCoordinator. A mount table that cannot be read counts as empty (`mount_control.py:56-60`): a row
  stopped at that moment has no unmount queued and keeps its mount until a tick finds it
  (`StraysGo` and `HangingEnds` hold with it). After an edit of the port the mount over the old port is reported as mounted
  (hazard `port`). A server removed between the dispatch of a job and its start leaves the row busy
  (hazard `server`). A row removed while mounted is never unmounted. At quit an unmount can run
  beside a mount job.
* Connection (the set `Notes`). A start and a restart's stop that wait for the same process both end in
  `process = None`: the later one drops what the other has started meanwhile, and that ssh runs on
  without an owner (`crossed`). A forward session that is stopped between its `wanted` and its Popen
  comes up all the same (`outrun`). Cancelling a prompt that opened after a retry had
  started ssh sets the status to "stopped" over a running process (`refused`); cancelling a stale one
  does no more than set the status (`stale`). A replacement prompt
  answered after its forward session was stopped connects the dropped session (`revived`). A failed
  scan of a changed key leaves `change_prompted` set, and nobody is asked again; a forward session's
  retry drops a scan that is slower than the retry. The main session's retry does not run the
  host-key check, so an unknown host whose first inspection failed is retried in vain and not asked
  about until a wake or a restart. A wake reconnects a session the user has cancelled (a test
  expects it).
* Gateway. A stream whose generator never started keeps its upstream response open and leaves no
  usage entry. So does, while it lasts, a stream whose client stays but takes nothing: no timeout
  bounds the send of a piece (`suanpan/proxy.py:121`, 127, 131), nor the read of a request's body
  (`main.py:110`). An error inside a chunk is said to end the translation (`compat.py:489`), but the loop
  goes on with the rest of the same piece. A chunked body that is too large is answered 400, where
  one with a length is answered 413. An unusable provider named inline beside a usable marker is not
  announced. A tool delta may come for a block that was closed meanwhile. A translated stream that is
  cut before its usage is accounted with none.
* HttpProxy. A timeout inside `handle_http` becomes a 400 of `handle_client`, behind a part of an
  answer if one was under way (`tunnel/proxy.py:449`). No `drain()` has a timeout (182, 185, 331, 370,
  413): a peer that stops reading while its connection stays up keeps the handler, its slot and its
  count. A request with `Connection: content-length` loses that header with the hop-by-hop ones
  (270-283) while its body is still relayed by it (286), so the origin may take the body for the next
  request; `Attributed` and `RequestsIntact` do not hold without `Plain`.
* GatewayRuntime and Shell (the flag `crossed`). A start that claims the runtime while another thread is
  inside its stop (`async_runtime.py:143-180`) has its STARTING overwritten with STOPPED: the server
  runs and is reported stopped, and the next start brings up a second. A claim that finds another's
  undone, between that one's claim and its publication (65-75, 138-140), has its thread overwritten.
  No property claims anything after either. A save whose start is refused, because another thread has
  claimed, is covered: `SaveRevives` and `ServedIsSaved`. A heal job that waited does not audit again before it rebuilds
  (`gateway_watchdog.py:67`). Quit stops a gateway only when it runs, so one that is starting, or
  that a save starts meanwhile, survives to the end of the process (`overtaken`). Quit signals mitmdump
  and does not wait for it (`lifecycle_runtime.py:253`, `subprocess_monitor.py:156-163`); the thread
  that would kill a stubborn one dies with the process, so the next instance may find it still running. Two decisions about
  the settings server that overlap may end in the older one's, until the next that is made alone (`raced`). An exception in
  `on_mp_saved` skips `on_sp_saved` (`config_server.py:622`). A killed caffeinate is not missed.
  `RelaunchWaiter.step` may return nothing where `app.py:347` unpacks two values
  (`capture/chromium_proxy.py:164`).
* AgentSetup. When the gateway's address changes, Claude Code's file looks like the user's, and the
  next set-up backs up our own (`moved`). A set-up commits the whole configuration its plan has read,
  and so loses a save in between (`claude_code_setup.py:295`). Codex and the JSON agents ignore a
  failed `atomic_write` and answer ok (643, 700), which is why `FacesAgree` speaks of Claude Code
  only. `get_local_token` overwrites a configuration it cannot read (`local_token.py:17`).
* Capture. A record whose append meets a clean may be lost, since the first trim does not tolerate a
  missing file (`capture_store.py:96`). A file that is rotated while a clean runs is found under
  neither of its names, and the clean may say ok all the same. A rotation drops the day's older file although older
  days are still in the store. The record of a failed flow has no `truncated` flag, and a buffered
  answer is not charged for its request.

## 7. Not modelled

* Pure functions over data, which have no state or order to check: schema, migration and validation
  of the configurations, the field-by-field conversion of request bodies, prompt extraction and
  reassembly of captured answers by provider, usage statistics, parsing of `networksetup` and
  `ssh-keyscan` output, command lines, menus, translations.
* Calls of external services without state of ours: provider queries, the server check, remote NFS
  scripts, the login item, the installation of a certificate, per-application launches.
* The configuration server's read-only requests and its token check; the prewarmer, which keeps
  nothing that a request reads; the port check's dialogue before a start.
* Of a session: the demotion of an old main server by `restart`, autostarts, the stop at quit, the
  rate limit on wakes.
* Build and maintenance tools.

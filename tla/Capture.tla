------------------------------ MODULE Capture ------------------------------
(***************************************************************************)
(* What mitmdump records of AI traffic, and the bounded store it records   *)
(* to: the addon's hooks over a few flows (capture/ai_capture_addon.py),   *)
(* the append of one record with its trim and its rotation, and the two    *)
(* that delete in the meantime, the settings window's clean and the expiry *)
(* at the start of capture mode (capture/capture_store.py).  Hooks run on  *)
(* mitmdump's one loop and an append blocks it, so hooks do not overlap;   *)
(* the clean runs in the application and goes on between an append's       *)
(* steps.                                                                  *)
(***************************************************************************)
EXTENDS Integers, Sequences, FiniteSets, FiniteSetsExt, Functions

CONSTANTS
    Flows,      \* 1 .. n: requests that go through the proxy, in this order
    Bodies,     \* answers, as sequences of bytes: see Lead
    Requests,   \* sizes of a request's snapshot
    Budget,     \* MAX_CAPTURE_FLOW_BYTES
    MaxRecord,  \* MAX_RECORD_BYTES
    MaxFile,    \* MAX_FILE_BYTES
    MaxStore,   \* MAX_STORE_BYTES
    Retention,  \* retention_days
    MaxOpen,    \* BOUND: flows open at a time
    MaxDay,     \* BOUND: days
    MaxStops,   \* BOUND: how often mitmdump ends
    MaxCleans   \* BOUND: how often the user cleans

ASSUME LimitsAssumption ==
    /\ {Budget, MaxRecord, MaxFile, MaxStore, MaxDay} \subseteq Nat \ {0}
    /\ Requests \subseteq Nat
    /\ Bodies \subseteq Seq(0 .. 4)
    /\ MaxFile + MaxRecord <= MaxStore
    /\ Retention \in Nat

VARIABLES
    flow,     \* each flow's metadata and accumulator
    files,    \* the store: name -> size, time of last write, flows recorded
    app,      \* append_json under way in mitmdump
    cleaner,  \* capture_store.clean under way, and its answer
    day, up, clock, stops, cleans,
    written,  \* history: the records written, in order, with their day
    met       \* history: what the behaviour met

world == <<day, up, stops, cleans>>
storeVars  == <<flow, files, app, cleaner, world, clock, written, met>>

-----------------------------------------------------------------------------
(* The accumulator.  A byte of an answer is 1 (a whole character), the     *)
(* length of the character it leads, or 0 (a continuation).                *)
Lead(b) == b # 0

NewFlow == [phase |-> "new", teed |-> FALSE, req |-> 0, body |-> <<>>,
            seen |-> 0, buf |-> 0, cut |-> FALSE, text |-> <<>>, told |-> FALSE]

Smaller(a, b) == IF a <= b THEN a ELSE b
Reserved(f)   == Smaller(flow[f].req, Budget)
Room(f)       == Budget - Reserved(f) - flow[f].buf

\* Mutant of Tee: a chunk that finds no room at all leaves no mark.
MutantTee(f, n) ==
    LET take == Smaller(n, Room(f))
    IN  [flow[f] EXCEPT !.seen = @ + n, !.buf = @ + take,
                        !.cut = @ \/ (0 < take /\ take < n)]

\* CaptureAccumulator.tee: collect what there is room for.
Tee(f, n) ==
    LET take == Smaller(n, Room(f))
    IN  [flow[f] EXCEPT !.seen = @ + n, !.buf = @ + take, !.cut = @ \/ take < n]

\* CaptureAccumulator.captured: a buffer that was cut goes back to the last
\* byte that is no continuation, and behind it if its character is not whole.
Captured(f) ==
    LET buf  == SubSeq(flow[f].body, 1, flow[f].buf)
        last == Max({0} \cup {i \in DOMAIN buf : Lead(buf[i])})
    IN  IF ~flow[f].cut THEN buf
        ELSE IF last > 0 /\ buf[last] > 1 /\ last - 1 + buf[last] > Len(buf)
        THEN SubSeq(buf, 1, last - 1)
        ELSE SubSeq(buf, 1, last)

-----------------------------------------------------------------------------
(* The store's files: <<day, 0>> is the day's file and <<day, 1>> the one  *)
(* it was rotated to.                                                      *)
Today      == <<day, 0>>
Total(fs)  == MapThenSumSet(LAMBDA n : fs[n].size, DOMAIN fs)
Drop(fs, n) == Restrict(fs, DOMAIN fs \ {n})
Oldest(fs) == CHOOSE n \in DOMAIN fs : \A m \in DOMAIN fs : fs[n].mtime <= fs[m].mtime
Stored     == UNION {files[n].recs : n \in DOMAIN files}
-----------------------------------------------------------------------------
(* The append of a record (append_json): trim, refuse or rotate, write,    *)
(* converge.  What follows the scan of a trim goes by what the scan saw.   *)
Resting == [pc |-> "idle", flow |-> 0, size |-> 0, left |-> <<>>, name |-> <<1, 0>>]
Loop    == up /\ app.pc = "idle"

\* A directory entry that a clean removes under the scan fails the scan.
ScanFails == cleaner.todo # {}

\* The record of a flow and what it is the record of; the accumulator goes.
Over(f, text, told) ==
    [NewFlow EXCEPT !.phase = "over", !.req = flow[f].req, !.body = flow[f].body,
                    !.text = text, !.told = told]

\* Mutant of Record: no trim before the write.
MutantRecord(f, text, told) ==
    /\ flow' = [flow EXCEPT ![f] = Over(f, text, told)]
    /\ app' = [pc |-> "rotate", flow |-> f, size |-> 1 + flow[f].req + Len(text),
               left |-> <<>>, name |-> Today]

\* The hook's record goes to write_jsonl; a failing scan is caught by the hook.
Record(f, text, told) ==
    LET size == 1 + flow[f].req + Len(text)
    IN  /\ flow' = [flow EXCEPT ![f] = Over(f, text, told)]
        /\ \/ app' = [pc |-> "trim", flow |-> f, size |-> size, left |-> files,
                      name |-> Today]
           \/ ScanFails /\ UNCHANGED app

TrimUnlinks ==
    /\ app.pc \in {"trim", "converge"} /\ Total(app.left) > MaxStore
    /\ LET n == Oldest(app.left)
       IN  /\ n \in DOMAIN files
           /\ files' = Drop(files, n)
           /\ app' = [app EXCEPT !.left = Drop(@, n)]
    /\ UNCHANGED <<flow, cleaner, world, clock, written, met>>

\* os.unlink raises: the first trim loses the record, the second is caught.
TrimMisses ==
    /\ app.pc \in {"trim", "converge"} /\ Total(app.left) > MaxStore
    /\ Oldest(app.left) \notin DOMAIN files
    /\ app' = Resting
    /\ UNCHANGED <<flow, files, cleaner, world, clock, written, met>>

TrimEnds ==
    /\ app.pc \in {"trim", "converge"} /\ Total(app.left) <= MaxStore
    /\ app' = IF app.pc = "trim" THEN [app EXCEPT !.pc = "rotate", !.name = Today] ELSE Resting
    /\ UNCHANGED <<flow, files, cleaner, world, clock, written, met>>

TooLarge == app.size > MaxRecord

Refuse ==
    /\ app.pc = "rotate" /\ TooLarge
    /\ app' = Resting
    /\ UNCHANGED <<flow, files, cleaner, world, clock, written, met>>

\* The day's file replaces the one rotated before it, if it is full.
Rotated(fs, n) ==
    IF n \in DOMAIN fs /\ fs[n].size >= MaxFile
    THEN Drop([m \in DOMAIN fs \cup {<<n[1], 1>>} |-> IF m = <<n[1], 1>> THEN fs[n] ELSE fs[m]], n)
    ELSE fs

Rotate ==
    /\ app.pc = "rotate" /\ ~TooLarge
    /\ files' = Rotated(files, app.name)
    /\ app' = [app EXCEPT !.pc = "write"]
    /\ cleaner' = [cleaner EXCEPT !.moved = @ \/ (ScanFails /\ files' # files)]
    /\ UNCHANGED <<flow, world, clock, written, met>>

Written(fs, n) ==
    LET old == IF n \in DOMAIN fs THEN fs[n] ELSE [size |-> 0, mtime |-> 0, recs |-> {}]
    IN  [m \in DOMAIN fs \cup {n} |->
            IF m = n THEN [size |-> old.size + app.size, mtime |-> clock,
                           recs |-> old.recs \cup {app.flow}]
            ELSE fs[m]]

\* Open, write, and scan again; a failing scan is caught.
Write ==
    /\ app.pc = "write"
    /\ files' = Written(files, app.name)
    /\ clock' = clock + 1
    /\ written' = Append(written, [flow |-> app.flow, day |-> app.name[1]])
    /\ \/ app' = [app EXCEPT !.pc = "converge", !.left = files']
       \/ ScanFails /\ app' = Resting
    /\ UNCHANGED <<flow, cleaner, world, met>>

-----------------------------------------------------------------------------
(* The hooks of AICaptureAddon.                                            *)

\* request: traffic that is not for an AI, or that the hook trips over, has no
\* metadata and passes unseen.
RequestSeen(f) ==
    /\ Loop /\ flow[f].phase = "new" /\ \A g \in Flows : g < f => flow[g].phase # "new"
    /\ Cardinality({g \in Flows : flow[g].phase = "open"}) < MaxOpen
    /\ \/ flow' = [flow EXCEPT ![f].phase = "gone"]
       \/ \E r \in Requests, teed \in BOOLEAN, body \in Bodies :
             flow' = [flow EXCEPT ![f] = [@ EXCEPT !.phase = "open", !.teed = teed, !.req = r,
                                                   !.body = body, !.cut = r > Budget]]
    /\ UNCHANGED <<files, app, cleaner, world, clock, written, met>>

\* responseheaders has installed tee for this flow; the server sends a chunk.
Chunk(f) ==
    /\ Loop /\ flow[f].phase = "open" /\ flow[f].teed
    /\ \E n \in 1 .. Len(flow[f].body) - flow[f].seen : flow' = [flow EXCEPT ![f] = Tee(f, n)]
    /\ UNCHANGED <<files, app, cleaner, world, clock, written, met>>

\* response: what tee has collected, or the whole content cut at the budget.
Response(f) ==
    /\ Loop /\ flow[f].phase = "open"
    /\ IF flow[f].teed
       THEN flow[f].seen = Len(flow[f].body) /\ Record(f, Captured(f), flow[f].cut)
       ELSE LET n == Len(flow[f].body)
            IN  Record(f, SubSeq(flow[f].body, 1, Smaller(n, Budget)), n > Budget)
    /\ UNCHANGED <<files, cleaner, world, clock, written, met>>

\* error: what has been collected, as the raw text of a failed record.
Error(f) ==
    /\ Loop /\ flow[f].phase = "open"
    /\ Record(f, Captured(f), TRUE)
    /\ UNCHANGED <<files, cleaner, world, clock, written, met>>

-----------------------------------------------------------------------------
(* The application: clean, expiry, and the days that pass.                 *)

\* clean scans the directory and removes one entry after another.
CleanBegins ==
    /\ cleaner.todo = {} /\ cleans < MaxCleans /\ DOMAIN files # {}
    /\ cleans' = cleans + 1
    /\ cleaner' = [todo |-> DOMAIN files, before |-> Stored, answer |-> "none", moved |-> FALSE]
    /\ met' = met \cup {"clean"}
    /\ UNCHANGED <<flow, files, app, day, up, stops, clock, written>>

\* Mutant of CleanRemoves: the file that was rotated away is not recognised.
MutantCleanRemoves(n) ==
    /\ n \in cleaner.todo
    /\ files' = IF n[2] = 1 THEN files ELSE Drop(files, n)
    /\ cleaner' = [cleaner EXCEPT !.todo = @ \ {n},
                                  !.answer = IF cleaner.todo = {n} THEN "ok" ELSE @]
    /\ UNCHANGED <<flow, app, world, clock, written, met>>

CleanRemoves(n) ==
    /\ n \in cleaner.todo
    /\ files' = Drop(files, n)
    /\ cleaner' = [cleaner EXCEPT !.todo = @ \ {n},
                                  !.answer = IF cleaner.todo = {n} THEN "ok" ELSE @]
    /\ UNCHANGED <<flow, app, world, clock, written, met>>

\* stat of an entry that is gone (unlink would have tolerated it).
CleanTrips(n) ==
    /\ n \in cleaner.todo \ DOMAIN files
    /\ cleaner' = [cleaner EXCEPT !.todo = {}, !.before = {}, !.answer = "error"]
    /\ UNCHANGED <<flow, files, app, world, clock, written, met>>

\* mitmdump is stopped or dies, with the flows it has open and its append.
Stop ==
    /\ up /\ stops < MaxStops
    /\ up' = FALSE /\ stops' = stops + 1
    /\ app' = Resting
    /\ flow' = [f \in Flows |-> IF flow[f].phase = "open" THEN [NewFlow EXCEPT !.phase = "gone"]
                                ELSE flow[f]]
    /\ met' = IF app.pc = "idle" THEN met ELSE met \cup {"stop"}
    /\ UNCHANGED <<files, cleaner, day, cleans, clock, written>>

\* CaptureMonitor.start: expired files go before mitmdump comes
\* (cleanup_expired_captures).
Expired(n) == Retention > 0 /\ day - n[1] >= Retention
Start ==
    /\ ~up /\ up' = TRUE
    /\ files' = Restrict(files, {n \in DOMAIN files : ~Expired(n)})
    /\ UNCHANGED <<flow, app, cleaner, day, stops, cleans, clock, written, met>>

Midnight ==
    /\ day < MaxDay /\ day' = day + 1
    /\ UNCHANGED <<flow, files, app, cleaner, up, stops, cleans, clock, written, met>>

-----------------------------------------------------------------------------
StoreInit ==
    /\ flow = [f \in Flows |-> NewFlow]
    /\ files = <<>> /\ app = Resting
    /\ cleaner = [todo |-> {}, before |-> {}, answer |-> "none", moved |-> FALSE]
    /\ day = 1 /\ up = FALSE /\ clock = 1 /\ stops = 0 /\ cleans = 0
    /\ written = <<>> /\ met = {}

StoreNext ==
    \/ \E f \in Flows : RequestSeen(f) \/ Chunk(f) \/ Response(f) \/ Error(f)
    \/ TrimUnlinks \/ TrimMisses \/ TrimEnds \/ Refuse \/ Rotate \/ Write
    \/ CleanBegins \/ \E n \in cleaner.todo : CleanRemoves(n) \/ CleanTrips(n)
    \/ Stop \/ Start \/ Midnight

StoreSpec == StoreInit /\ [][StoreNext]_storeVars

-----------------------------------------------------------------------------
(* Properties.                                                             *)

(* The store never holds more than its limit and one record, whatever      *)
(* deletes in between and wherever mitmdump dies, and no more than its     *)
(* limit at rest if nobody cleaned and mitmdump did not die in an append   *)
(* (_trim_store before the write, _converge_after_append behind it).       *)
StoreBounded ==
    /\ Total(files) <= MaxStore + MaxRecord
    /\ (app.pc = "idle" /\ met = {}) => Total(files) <= MaxStore

(* What an answered request has left: its record, complete or marked as    *)
(* cut, unless it was too large; and of the records of a day the newest,   *)
(* whatever a trim or a rotation removed (AICaptureAddon.response).        *)
Whole(f)   == flow[f].text = flow[f].body
AsTold     == \A f \in Flows : flow[f].phase = "over" => Whole(f) \/ flow[f].told
Recorded   == {written[i].flow : i \in DOMAIN written}
Answered   == {f \in Flows : flow[f].phase = "over"
                             /\ 1 + flow[f].req + Len(flow[f].text) <= MaxRecord}
NewestKept ==
    \A i, j \in DOMAIN written :
        (i < j /\ written[i].day = written[j].day /\ written[i].flow \in Stored)
            => written[j].flow \in Stored
RecordsStand ==
    /\ met = {} /\ app.pc = "idle" => Answered \subseteq Recorded
    /\ AsTold
    /\ "clean" \notin met => NewestKept
    /\ \A i, j \in DOMAIN written : written[i].flow = written[j].flow => i = j

(* A clean that says it succeeded has left none of the records that were   *)
(* there when it began.  Left out: a file rotated away under it, which it  *)
(* no longer finds under either name (clean, called by _api_capture_clean).*)
CleanMeansClean ==
    cleaner.answer = "ok" /\ ~cleaner.moved => cleaner.before \cap Stored = {}

(* The types of the state.                                                 *)
Names  == (1 .. MaxDay) \X {0, 1}
File   == [size: Nat, mtime: Nat, recs: SUBSET Flows]
IsStore(fs) == DOMAIN fs \subseteq Names /\ fs \in [DOMAIN fs -> File]

FlowState  == [phase: {"new", "open", "over", "gone"}, teed: BOOLEAN, req: {0} \cup Requests,
               body: {<<>>} \cup Bodies, seen: Nat, buf: 0 .. Budget, cut: BOOLEAN,
               text: Seq(0 .. 4), told: BOOLEAN]

StoreTypeOK ==
    /\ flow \in [Flows -> FlowState]
    /\ IsStore(files) /\ IsStore(app.left)
    /\ app \in [pc: {"idle", "trim", "rotate", "write", "converge"}, flow: {0} \cup Flows,
               size: Nat, left: {app.left}, name: Names]
    /\ cleaner \in [todo: SUBSET Names, before: SUBSET Flows, answer: {"none", "ok", "error"},
                   moved: BOOLEAN]
    /\ day \in 1 .. MaxDay /\ up \in BOOLEAN /\ {clock, stops, cleans} \subseteq Nat
    /\ written \in Seq([flow: Flows, day: 1 .. MaxDay])
    /\ met \subseteq {"clean", "stop"}
=============================================================================

-------------------------- MODULE ConnectionProofs ---------------------------
(***************************************************************************)
(* Machine-checked facts about Connection, for either role, any set of ssh *)
(* processes and hazards, and any number of faults and acts of the user.   *)
(***************************************************************************)
EXTENDS Connection, TLAPS

\* The session of the main connection is never dropped and alone is paused, and
\* the steps of the threads say what they are.
ShapeInv ==
    /\ role = "proxy" => open
    /\ paused => role = "proxy"
    /\ main.step \in {"idle", "check"} => main = [Idle EXCEPT !.step = main.step]
    /\ bg.step = "none" => bg = NoRestart

\* The monitor's process is the only one that runs untold, and whoever waits for a
\* process waits for that one; a start and the stop of a restart never both do.
ProcInv ==
    /\ \A p \in living : p \in told \/ p = proc
    /\ main.step \in {"launch", "popen"} => proc = NoProc
    /\ main.step = "stopping" => main.old = proc /\ proc \notin living \ told
    /\ bg.step = "stopping" => /\ ~Starting
                               /\ bg.old = proc /\ proc \notin living \ told

\* A start is of a session that is open, and says that it connects unless a restart
\* has meanwhile said otherwise; one of a forward session meets no restart.
StartInv ==
    /\ Starting => open /\ (role = "forward" => bg = NoRestart)
    /\ main.step = "popen" /\ bg = NoRestart => status = "connecting"

\* A session that is dropped, or in the middle of a restart, has nothing under way
\* that would start it again, and one that is stopped or dropped has no process;
\* a forward session has none either when its restart goes on to connect.
DroppedInv ==
    /\ ~open \/ bg # NoRestart => /\ job = NoJob
                                  /\ \A i \in DOMAIN asks : ~asks[i].fresh
    /\ (IF bg = NoRestart THEN ~open ELSE bg.step = "connect" /\ role = "forward")
          => status = "stopped" /\ proc = NoProc
    /\ ~Starting /\ bg = NoRestart /\ status = "stopped" => proc = NoProc

Order    == StartInv /\ DroppedInv
OrderInv == (Uncrossed => ProcInv) /\ (Followed => Order)

IInv == TypeOK /\ ShapeInv /\ OrderInv

-----------------------------------------------------------------------------
(* What the calls are made of                                              *)

\* A new generation leaves the prompts that are open stale.
LEMMA StaleFacts ==
  ASSUME TypeOK
  PROVE  /\ Stale \in Seq(Asks) /\ DOMAIN Stale = DOMAIN asks
         /\ \A i \in DOMAIN Stale : ~Stale[i].fresh
  <1>1. asks \in Seq(Asks) /\ \A i \in DOMAIN asks : asks[i] \in Asks
    BY DEF TypeOK
  <1>2. \A i \in DOMAIN asks :
           LET a == [asks[i] EXCEPT !.fresh = FALSE]
           IN  a \in Asks /\ ~a.fresh
    BY <1>1 DEF Asks
  <1>3. DOMAIN asks = 1 .. Len(asks) /\ Len(asks) \in Nat
    BY <1>1
  <1>4. Stale \in [1 .. Len(asks) -> Asks]
    BY <1>2, <1>3 DEF Stale
  <1>5. Stale \in Seq(Asks)
    BY <1>3, <1>4
  <1> QED
    BY <1>2, <1>5 DEF Stale

\* An answer closes the innermost prompt and no other.
LEMMA CloseFacts ==
  ASSUME TypeOK, Alerting
  PROVE  /\ Close \in Seq(Asks) /\ Top \in Asks
         /\ \E i \in DOMAIN asks : Top = asks[i]
         /\ DOMAIN Close \subseteq DOMAIN asks
         /\ \A i \in DOMAIN Close : Close[i] = asks[i]
         /\ [i \in DOMAIN Close |-> [Close[i] EXCEPT !.fresh = FALSE]] \in Seq(Asks)
  <1>1. asks \in Seq(Asks) /\ asks # <<>>
    BY DEF TypeOK, Alerting
  <1>2. Len(asks) \in Nat /\ Len(asks) >= 1 /\ DOMAIN asks = 1 .. Len(asks)
    BY <1>1
  <1>3. /\ Close = [i \in 1 .. Len(asks) - 1 |-> asks[i]]
        /\ \A i \in 1 .. Len(asks) : asks[i] \in Asks
    BY <1>1, <1>2 DEF Close
  <1>4. DOMAIN Close = 1 .. Len(asks) - 1
    BY <1>3
  <1>5. \A i \in DOMAIN Close : [Close[i] EXCEPT !.fresh = FALSE] \in Asks
    <2>1. \A a \in Asks : [a EXCEPT !.fresh = FALSE] \in Asks
      BY DEF Asks
    <2> QED
      BY <1>2, <1>3, <1>4, <2>1
  <1>6. /\ Close \in [1 .. Len(asks) - 1 -> Asks]
        /\ [i \in DOMAIN Close |-> [Close[i] EXCEPT !.fresh = FALSE]]
              \in [1 .. Len(asks) - 1 -> Asks]
    BY <1>2, <1>3, <1>4, <1>5
  <1>7. ASSUME NEW n \in Nat, NEW f \in [1 .. n -> Asks]
        PROVE  f \in Seq(Asks)
    BY <1>7
  <1>8. Len(asks) - 1 \in Nat
    BY <1>2
  <1>9. Top \in Asks /\ \E i \in DOMAIN asks : Top = asks[i]
    BY <1>2, <1>3 DEF Top
  <1>10. /\ DOMAIN Close \subseteq DOMAIN asks
         /\ \A i \in DOMAIN Close : Close[i] = asks[i]
    BY <1>2, <1>3, <1>4
  <1>11. Close \in Seq(Asks)
    BY <1>6, <1>7, <1>8
  <1>12. [i \in DOMAIN Close |-> [Close[i] EXCEPT !.fresh = FALSE]] \in Seq(Asks)
    BY <1>6, <1>7, <1>8
  <1> QED
    BY <1>9, <1>10, <1>11, <1>12

\* A hazard is met within the bound on hazards.
LEMMA FaultType ==
  ASSUME TypeOK, NEW h, Fault(h)
  PROVE  /\ met' = met \cup {h} /\ met' \subseteq Hazards \cup Notes
         /\ faults' \in 0 .. MaxFaults /\ acts' = acts /\ wanted' = wanted
  BY ConnectionAssumption DEF Fault, May, TypeOK, ConnectionAssumption

\* The user acts within the bound on acts.
LEMMA ActType ==
  ASSUME TypeOK, NEW want \in BOOLEAN, Act(want)
  PROVE  /\ wanted' \in BOOLEAN /\ met' = met /\ faults' = faults
         /\ acts' \in 0 .. MaxActs
  BY ConnectionAssumption DEF Act, TypeOK, ConnectionAssumption

\* monitor.start either goes straight on to the launch or tells the process it
\* finds to stop and waits for it; a restart that waits for it too is noted.
LEMMA StartFacts ==
  ASSUME TypeOK, NEW next \in {"idle", "check"}, BeginStart(next)
  PROVE  /\ main' \in Mains /\ main'.step \in {"launch", "stopping"}
         /\ told' \subseteq living /\ told \subseteq told'
         /\ status' \in {status, "stopped"}
         /\ met' \subseteq Hazards \cup Notes /\ met \subseteq met'
         /\ bg.step = "stopping" => "crossed" \in met'
         /\ UNCHANGED <<wanted, faults, acts>>
         /\ main'.step = "launch" => proc = NoProc /\ told' = told
         /\ main'.step = "stopping" => /\ main'.old = proc /\ status' = status
                                       /\ proc \notin living \ told'
  <1>1. /\ met' = IF bg.step = "stopping" THEN met \cup {"crossed"} ELSE met
        /\ UNCHANGED <<wanted, faults, acts>>
    BY DEF BeginStart, Note
  <1>2. CASE proc = NoProc
    <2>1. /\ main' = [step |-> "launch", old |-> NoProc, next |-> next]
          /\ status' = "stopped" /\ told' = told
      BY <1>2 DEF BeginStart
    <2> QED
      BY <1>1, <1>2, <2>1 DEF TypeOK, Mains, Notes
  <1>3. CASE proc # NoProc
    <2>1. /\ main' = [step |-> "stopping", old |-> proc, next |-> next]
          /\ told' = told \cup ({proc} \cap living) /\ status' = status
      BY <1>3 DEF BeginStart
    <2> QED
      BY <1>1, <2>1 DEF TypeOK, Mains, Notes
  <1> QED
    BY <1>2, <1>3

-----------------------------------------------------------------------------
(* Types                                                                   *)

\* The tick, the retry and check_and_recover keep the variables in their types.
LEMMA TickType ==
  ASSUME TypeOK, RetryProxy \/ RetryForward \/ Check \/ TimerFires
  PROVE  TypeOK'
  <1>1. Stale \in Seq(Asks)
    BY StaleFacts
  <1>2. [Idle EXCEPT !.step = "check"] \in Mains /\ Idle \in Mains
    BY DEF Idle, Mains
  <1>3. \A k \in {"check", "replace"} : [kind |-> k, result |-> "pending"] \in Jobs
    BY DEF Jobs
  <1>4. CASE RetryProxy
    <2>1. /\ UNCHANGED <<role, open, paused, reason, proc, timer, prompted, job,
                         asks, bg, living, up, fate, known, net>>
          /\ due' = FALSE
      BY <1>4 DEF RetryProxy
    <2>2. \/ BeginStart("check")
          \/ /\ main' = [Idle EXCEPT !.step = "check"]
             /\ UNCHANGED <<status, told, wanted, met, faults, acts>>
      BY <1>4 DEF RetryProxy, history
    <2>3. /\ main' \in Mains /\ told' \subseteq living
          /\ status' \in {status, "stopped"} /\ met' \subseteq Hazards \cup Notes
          /\ UNCHANGED <<wanted, faults, acts>>
      BY <1>2, <2>2, StartFacts DEF TypeOK
    <2> QED
      BY <2>1, <2>3 DEF TypeOK
  <1>5. CASE RetryForward
    <2>1. /\ UNCHANGED <<role, open, paused, reason, proc, bg, world, history>>
          /\ main' = [Idle EXCEPT !.step = "check"]
      BY <1>5 DEF RetryForward
    <2>2. \/ CancelRetry /\ StartCheck
          \/ due' = FALSE /\ UNCHANGED <<timer, job, asks, status, prompted>>
      BY <1>5 DEF RetryForward
    <2> QED
      BY <1>1, <1>2, <1>3, <2>1, <2>2
         DEF CancelRetry, StartCheck, TypeOK, world, history
  <1>6. CASE Check
    <2>1. /\ UNCHANGED <<role, open, paused, due, bg, world, history>>
          /\ main' = Idle
      BY <1>6 DEF Check
    <2>2. CASE UNCHANGED <<status, reason, proc, timer, prompted, job, asks>>
      BY <1>2, <2>1, <2>2 DEF TypeOK, world, history
    <2>3. CASE \E st \in {"error", "connected", status}, why \in Reasons :
                  /\ status' = st /\ reason' = why /\ proc' \in {proc, NoProc}
                  /\ Recover(st, why)
      <3>1. PICK st \in {"error", "connected", status}, why \in Reasons :
                  /\ status' = st /\ reason' = why /\ proc' \in {proc, NoProc}
                  /\ Recover(st, why)
        BY <2>3
      <3>2. /\ {timer', prompted'} \subseteq BOOLEAN /\ job' \in Jobs \cup {NoJob}
            /\ asks' \in Seq(Asks)
        BY <1>1, <1>3, <3>1 DEF Recover, TypeOK
      <3> QED
        BY <1>2, <2>1, <3>1, <3>2 DEF TypeOK, world, history
    <2>4. reason \in Reasons /\ (proc # NoProc => fate[proc] \in Reasons)
      BY DEF TypeOK
    <2> QED
      BY <1>6, <2>2, <2>3, <2>4 DEF Check
  <1>7. CASE TimerFires
    BY <1>7 DEF TimerFires, TypeOK, world, history
  <1> QED
    BY <1>4, <1>5, <1>6, <1>7

\* The host-key flow keeps the variables in their types.
LEMMA KeyType ==
  ASSUME TypeOK, Inspect \/ FinishKnown \/ FinishAsk \/ FinishFailed \/ Answer
  PROVE  TypeOK'
  <1>1. CASE Inspect
    <2>1. /\ UNCHANGED <<role, open, paused, status, reason, proc, timer, due,
                         prompted, asks, main, bg, world>>
          /\ job.result = "pending"
      BY <1>1 DEF Inspect
    <2>2. \/ /\ \E r \in {"known", "ask", "failed"} :
                  job' = [job EXCEPT !.result = r]
             /\ UNCHANGED history
          \/ Fault("inspect") /\ job' = [job EXCEPT !.result = "failed"]
      BY <1>1 DEF Inspect
    <2>3. job \in Jobs
      BY <2>1 DEF TypeOK, NoJob
    <2>4. job' \in Jobs
      BY <2>2, <2>3 DEF Jobs
    <2> QED
      BY <2>1, <2>2, <2>4, FaultType DEF TypeOK, world, history
  <1>2. CASE FinishKnown
    <2>1. /\ UNCHANGED <<role, open, paused, reason, proc, timer, due, asks, bg,
                         living, up, fate, known, net>>
          /\ job' = NoJob /\ prompted' = FALSE /\ BeginStart("idle")
      BY <1>2 DEF FinishKnown
    <2> QED
      BY <2>1, StartFacts DEF TypeOK
  <1>3. CASE FinishAsk
    <2>1. job \in Jobs
      BY <1>3 DEF FinishAsk, TypeOK, NoJob
    <2>2. asks' \in Seq(Asks)
      BY <1>3, <2>1 DEF FinishAsk, TypeOK, Jobs, Asks
    <2> QED
      BY <1>3, <2>2 DEF FinishAsk, TypeOK, world, history
  <1>4. CASE FinishFailed
    BY <1>4 DEF FinishFailed, TypeOK, Reasons, world, history
  <1>5. CASE AcceptCheck
    <2>1. /\ UNCHANGED <<role, open, paused, reason, proc, timer, due, job, bg,
                         living, up, fate, net>>
          /\ asks' = Close /\ Alerting
          /\ known' \in {"trusted", known}
      BY <1>5 DEF AcceptCheck
    <2>2. \/ prompted' = FALSE /\ BeginStart("idle")
          \/ UNCHANGED <<prompted, main, status, told, history>>
      BY <1>5 DEF AcceptCheck
    <2>3. Close \in Seq(Asks)
      BY <2>1, CloseFacts
    <2> QED
      BY <2>1, <2>2, <2>3, StartFacts DEF TypeOK, history
  <1>6. CASE AcceptReplace
    <2>1. asks' \in Seq(Asks)
      BY <1>6, CloseFacts DEF AcceptReplace
    <2>2. job' \in Jobs /\ met' \subseteq Hazards \cup Notes
      BY <1>6 DEF AcceptReplace, TypeOK, Jobs, Notes
    <2> QED
      BY <1>6, <2>1, <2>2 DEF AcceptReplace, CancelRetry, TypeOK
  <1>7. CASE Refuse
    <2>1. asks' \in Seq(Asks) /\ Top \in Asks
      BY <1>7, CloseFacts DEF Refuse
    <2>2. wanted' \in BOOLEAN
      BY <1>7, <2>1 DEF Refuse, TypeOK, Asks
    <2>3. met' \subseteq Hazards \cup Notes
      BY <1>7 DEF Refuse, TypeOK, Notes
    <2> QED
      BY <1>7, <2>1, <2>2, <2>3 DEF Refuse, TypeOK, world
  <1> QED
    BY <1>1, <1>2, <1>3, <1>4, <1>5, <1>6, <1>7 DEF Answer

\* The menu, the wake of the machine and the restart thread keep the variables
\* in their types.
LEMMA MenuType ==
  ASSUME TypeOK,
         \/ Connect \/ Disconnect \/ Pause \/ Resume \/ Wake
         \/ RestartBegin \/ RestartStopped \/ RestartConnect
  PROVE  TypeOK'
  <1>1. Stale \in Seq(Asks)
    BY StaleFacts
  <1>2. [kind |-> "check", result |-> "pending"] \in Jobs
    BY DEF Jobs
  <1>3. /\ \A p \in Procs \cup {NoProc} : [step |-> "stopping", old |-> p] \in Restarts
        /\ [step |-> "connect", old |-> NoProc] \in Restarts
        /\ NoRestart \in Restarts
    BY DEF Restarts, NoRestart
  <1>4. CASE Connect
    BY <1>1, <1>2, <1>4, ActType
       DEF Connect, CancelRetry, StartCheck, TypeOK, world
  <1>5. CASE Disconnect
    <2>1. Act(FALSE) /\ open' \in BOOLEAN
      BY <1>5 DEF Disconnect
    <2> QED
      BY <1>1, <1>5, <2>1, ActType
         DEF Disconnect, CancelRetry, CancelHostKey, StopProc, TypeOK
  <1>6. CASE Pause
    <2>1. Act(wanted) /\ wanted \in BOOLEAN
      BY <1>6 DEF Pause, TypeOK
    <2> QED
      BY <1>6, <2>1, ActType DEF Pause, TypeOK, world
  <1>7. CASE Resume
    BY <1>1, <1>2, <1>7 DEF Resume, CancelRetry, StartCheck, TypeOK, world
  <1>8. CASE Wake
    BY <1>1, <1>2, <1>8, ActType
       DEF Wake, CancelRetry, StartCheck, StopProc, TypeOK
  <1>9. CASE RestartBegin
    <2>1. acts' \in 0 .. MaxActs
      BY <1>9, ConnectionAssumption DEF RestartBegin, TypeOK, ConnectionAssumption
    <2>2. bg' \in Restarts /\ status' \in {status, "stopped"}
          /\ told' \subseteq living
      BY <1>3, <1>9 DEF RestartBegin, TypeOK
    <2>3. open' \in BOOLEAN /\ wanted' = open' /\ met' \subseteq Hazards \cup Notes
      BY <1>9 DEF RestartBegin, TypeOK, Notes
    <2> QED
      BY <1>1, <1>9, <2>1, <2>2, <2>3
         DEF RestartBegin, CancelRetry, CancelHostKey, TypeOK
  <1>10. CASE RestartStopped
    BY <1>3, <1>10 DEF RestartStopped, TypeOK, world, history
  <1>11. CASE RestartConnect
    BY <1>1, <1>2, <1>3, <1>11
       DEF RestartConnect, CancelRetry, StartCheck, TypeOK, world
  <1> QED
    BY <1>4, <1>5, <1>6, <1>7, <1>8, <1>9, <1>10, <1>11

\* The launch of ssh, its processes and the server keep the variables in their
\* types.
LEMMA WorldType ==
  ASSUME TypeOK,
         \/ Stopped \/ Launch \/ Popen
         \/ \E p \in Procs : ProcUp(p) \/ ProcEnds(p)
         \/ NetDown \/ NetUp \/ KeyChanges
  PROVE  TypeOK'
  <1>1. CASE Stopped \/ Launch
    <2>1. main' \in Mains
      BY <1>1 DEF Stopped, Launch, TypeOK, Mains
    <2> QED
      BY <1>1, <2>1 DEF Stopped, Launch, TypeOK, Reasons, world, history
  <1>2. CASE Popen
    <2>1. main' \in Mains
      BY <1>2 DEF Popen, TypeOK, Mains, Idle
    <2>2. UNCHANGED <<role, open, paused, timer, due, prompted, job, asks, bg,
                      told, up, known, net>>
      BY <1>2 DEF Popen
    <2>3. CASE \E p \in Procs \ (living \cup {proc, bg.old}) :
                 /\ proc' = p
                 /\ living' = living \cup {p}
                 /\ fate' = [fate EXCEPT ![p] = "none"]
                 /\ UNCHANGED <<status, reason, history>>
      BY <2>1, <2>2, <2>3 DEF TypeOK, Reasons, history
    <2>4. CASE /\ Fault("spawn")
               /\ proc' = NoProc
               /\ status' = "error" /\ reason' = "other"
               /\ UNCHANGED <<living, fate>>
      BY <2>1, <2>2, <2>4, FaultType DEF TypeOK, Reasons
    <2> QED
      BY <1>2, <2>3, <2>4 DEF Popen
  <1>3. ASSUME NEW p \in Procs, ProcUp(p)
        PROVE  TypeOK'
    BY <1>3 DEF ProcUp, TypeOK, session, history
  <1>4. ASSUME NEW p \in Procs, ProcEnds(p)
        PROVE  TypeOK'
    <2>1. fate' \in [Procs -> Reasons]
      BY <1>4 DEF ProcEnds, TypeOK, Reasons
    <2>2. UNCHANGED history \/ Fault("link")
      BY <1>4 DEF ProcEnds
    <2>3. /\ wanted' \in BOOLEAN /\ met' \subseteq Hazards \cup Notes
          /\ faults' \in 0 .. MaxFaults /\ acts' \in 0 .. MaxActs
      BY <2>2, FaultType DEF TypeOK, history
    <2> QED
      BY <1>4, <2>1, <2>3 DEF ProcEnds, TypeOK, session
  <1>5. CASE NetDown \/ NetUp \/ KeyChanges
    BY <1>5, FaultType DEF NetDown, NetUp, KeyChanges, TypeOK, session, history
  <1> QED
    BY <1>1, <1>2, <1>3, <1>4, <1>5

-----------------------------------------------------------------------------
(* The order of starts and stops                                           *)

\* What has been met is never forgotten.
LEMMA MetGrows == [Next]_vars => met \subseteq met'
  <1> SUFFICES ASSUME [Next]_vars
               PROVE  met \subseteq met'
    OBVIOUS
  <1>1. \A next : BeginStart(next) => met \subseteq met'
    BY DEF BeginStart, Note
  <1>2. \A h : Fault(h) => met \subseteq met'
    BY DEF Fault
  <1>3. \A want : Act(want) => met \subseteq met'
    BY DEF Act
  <1>4. CASE RetryProxy \/ RetryForward \/ Check \/ TimerFires
    BY <1>1, <1>4 DEF RetryProxy, RetryForward, Check, TimerFires, history
  <1>5. CASE Inspect \/ FinishKnown \/ FinishAsk \/ FinishFailed \/ Answer
    BY <1>1, <1>2, <1>5
       DEF Inspect, FinishKnown, FinishAsk, FinishFailed, Answer, AcceptCheck,
           AcceptReplace, Refuse, history
  <1>6. CASE \/ Connect \/ Disconnect \/ Pause \/ Resume \/ Wake
             \/ RestartBegin \/ RestartStopped \/ RestartConnect
    BY <1>3, <1>6
       DEF Connect, Disconnect, Pause, Resume, Wake, RestartBegin,
           RestartStopped, RestartConnect, history
  <1>7. CASE Stopped \/ Launch \/ Popen \/ NetDown \/ NetUp \/ KeyChanges
    BY <1>2, <1>7
       DEF Stopped, Launch, Popen, NetDown, NetUp, KeyChanges, history
  <1>8. ASSUME NEW p \in Procs, ProcUp(p) \/ ProcEnds(p)
        PROVE  met \subseteq met'
    BY <1>2, <1>8 DEF ProcUp, ProcEnds, history
  <1> QED
    BY <1>4, <1>5, <1>6, <1>7, <1>8 DEF Next, vars, history

\* A start first has the process there is stopped, unless a restart waits for it.
LEMMA BeginKeeps ==
  ASSUME TypeOK, ProcInv, Uncrossed', MainFree,
         NEW next \in {"idle", "check"}, BeginStart(next),
         UNCHANGED <<proc, bg, living>>
  PROVE  ProcInv'
  <1>1. bg.step # "stopping"
    BY StartFacts DEF Uncrossed
  <1> QED
    BY <1>1, StartFacts DEF ProcInv, Starting, MainFree, Idle

\* The main thread's ticks and callbacks keep the processes in sight: they start
\* through monitor.start, and let go only of a process that has ended.
LEMMA MainKeeps ==
  ASSUME TypeOK, ProcInv, Uncrossed',
         \/ RetryProxy \/ RetryForward \/ Check \/ TimerFires
         \/ Inspect \/ FinishKnown \/ FinishAsk \/ FinishFailed \/ Answer
  PROVE  ProcInv'
  <1>1. \A next \in {"idle", "check"} :
           /\ MainFree /\ BeginStart(next) /\ UNCHANGED <<proc, bg, living>>
           => ProcInv'
    BY BeginKeeps
  <1>2. CASE FinishKnown \/ AcceptCheck
    <2>1. CASE MainFree /\ BeginStart("idle") /\ UNCHANGED <<proc, bg, living>>
      BY <1>1, <2>1
    <2>2. CASE UNCHANGED <<proc, main, bg, living, told>>
      BY <2>2 DEF ProcInv, Starting
    <2> QED
      BY <1>2, <2>1, <2>2 DEF FinishKnown, AcceptCheck
  <1>3. CASE RetryProxy \/ RetryForward
    <2>1. /\ MainFree /\ UNCHANGED <<proc, bg, living>>
          /\ \/ BeginStart("check")
             \/ main' = [Idle EXCEPT !.step = "check"] /\ told' = told
      BY <1>3 DEF RetryProxy, RetryForward, world
    <2>2. CASE BeginStart("check")
      BY <1>1, <2>1, <2>2
    <2>3. CASE main' = [Idle EXCEPT !.step = "check"] /\ told' = told
      BY <2>1, <2>3 DEF ProcInv, Starting, MainFree, Idle
    <2> QED
      BY <2>1, <2>2, <2>3
  <1>4. CASE Check
    <2>1. main.step = "check" /\ main' = Idle /\ UNCHANGED <<bg, living, told>>
      BY <1>4 DEF Check, world
    <2>2. \/ proc' = proc
          \/ bg = NoRestart /\ proc \notin living /\ proc' = NoProc
      BY <1>4 DEF Check
    <2> QED
      BY <2>1, <2>2 DEF ProcInv, Starting, Idle, NoRestart
  <1>5. CASE UNCHANGED <<proc, main, bg, living, told>>
    BY <1>5 DEF ProcInv, Starting
  <1>6. TimerFires \/ Inspect \/ FinishAsk \/ FinishFailed \/ AcceptReplace \/ Refuse
        => UNCHANGED <<proc, main, bg, living, told>>
    BY DEF TimerFires, Inspect, FinishAsk, FinishFailed, AcceptReplace, Refuse, world
  <1> QED
    BY <1>2, <1>3, <1>4, <1>5, <1>6 DEF Answer

\* The menu stops a process to the end; a restart that has to wait for one meets no
\* start that waits for it too, and takes it off the monitor when it has ended.
LEMMA MenuKeeps ==
  ASSUME TypeOK, ProcInv, Uncrossed',
         \/ Connect \/ Disconnect \/ Pause \/ Resume \/ Wake
         \/ RestartBegin \/ RestartStopped \/ RestartConnect
  PROVE  ProcInv'
  <1>1. living \subseteq Procs /\ NoProc \notin Procs
    BY ConnectionAssumption DEF TypeOK, ConnectionAssumption
  <1>2. AtMenu => main = Idle /\ bg = NoRestart
    BY DEF AtMenu, MainFree, LockFree
  <1>3. CASE Connect \/ Pause \/ Resume
    <2>1. UNCHANGED <<proc, main, bg, living, told>>
      BY <1>3 DEF Connect, Pause, Resume, world
    <2> QED
      BY <2>1 DEF ProcInv, Starting
  <1>4. CASE Disconnect \/ Wake
    <2>1. /\ main = Idle /\ bg = NoRestart /\ UNCHANGED <<main, bg>>
          /\ \/ UNCHANGED <<proc, living, told>>
             \/ /\ proc' = NoProc
                /\ living' = living \ {proc} /\ told' = told \ {proc}
      BY <1>2, <1>4 DEF Disconnect, Wake, StopProc
    <2> QED
      BY <2>1 DEF ProcInv, Starting, Idle, NoRestart
  <1>5. CASE RestartBegin
    <2>1. main.step # "stopping" /\ UNCHANGED <<proc, main, living>>
      BY <1>5 DEF RestartBegin, Uncrossed
    <2>2. CASE /\ proc = NoProc /\ bg' = [step |-> "connect", old |-> NoProc]
               /\ told' = told
      BY <2>1, <2>2 DEF ProcInv, Starting
    <2>3. CASE /\ proc # NoProc /\ bg' = [step |-> "stopping", old |-> proc]
               /\ told' = told \cup ({proc} \cap living)
      BY <1>1, <2>1, <2>3 DEF ProcInv, Starting
    <2> QED
      BY <1>5, <2>2, <2>3 DEF RestartBegin
  <1>6. CASE RestartStopped
    <2>1. /\ bg.step = "stopping" /\ proc = bg.old /\ proc \notin living
          /\ proc' = NoProc /\ bg' = [step |-> "connect", old |-> NoProc]
          /\ UNCHANGED <<main, living, told>>
      BY <1>6 DEF RestartStopped, ProcInv, world
    <2> QED
      BY <1>1, <2>1 DEF ProcInv, Starting
  <1>7. CASE RestartConnect
    <2>1. bg' = NoRestart /\ UNCHANGED <<proc, main, living, told>>
      BY <1>7 DEF RestartConnect, world
    <2> QED
      BY <2>1 DEF ProcInv, Starting, NoRestart
  <1> QED
    BY <1>3, <1>4, <1>5, <1>6, <1>7

\* A process is launched only when the one before it has ended or was told to.
LEMMA WorldKeeps ==
  ASSUME TypeOK, ProcInv, Uncrossed',
         \/ Stopped \/ Launch \/ Popen
         \/ \E p \in Procs : ProcUp(p) \/ ProcEnds(p)
         \/ NetDown \/ NetUp \/ KeyChanges
  PROVE  ProcInv'
  <1>1. living \subseteq Procs /\ NoProc \notin Procs
    BY ConnectionAssumption DEF TypeOK, ConnectionAssumption
  <1>2. main.next \in {"idle", "check"}
    BY DEF TypeOK, Mains
  <1>3. CASE Stopped
    <2>1. /\ main.step = "stopping" /\ proc = main.old /\ proc \notin living
          /\ bg.step # "stopping"
      BY <1>3 DEF Stopped, ProcInv, Starting
    <2>2. /\ proc' = NoProc /\ main'.step = "launch"
          /\ UNCHANGED <<bg, living, told>>
      BY <1>3 DEF Stopped, TypeOK, Mains, world
    <2> QED
      BY <2>1, <2>2 DEF ProcInv, Starting
  <1>4. CASE Launch
    <2>1. /\ main.step = "launch" /\ main'.step = "popen"
          /\ UNCHANGED <<proc, bg, living, told>>
      BY <1>4 DEF Launch, TypeOK, Mains, world
    <2> QED
      BY <2>1 DEF ProcInv, Starting
  <1>5. CASE Popen
    <2>1. /\ living \subseteq told /\ bg.step # "stopping"
      BY <1>1, <1>5 DEF Popen, ProcInv, Starting
    <2>2. main'.step \in {"idle", "check"} /\ UNCHANGED <<bg, told>>
      BY <1>2, <1>5 DEF Popen, Idle
    <2>3. \/ living' = living \cup {proc'}
          \/ living' = living /\ proc' = NoProc
      BY <1>5 DEF Popen
    <2> QED
      BY <2>1, <2>2, <2>3 DEF ProcInv, Starting
  <1>6. ASSUME NEW p \in Procs, ProcUp(p) \/ ProcEnds(p)
        PROVE  ProcInv'
    <2>1. /\ UNCHANGED <<proc, main, bg>>
          /\ \/ UNCHANGED <<living, told>>
             \/ living' = living \ {p} /\ told' = told \ {p}
      BY <1>6 DEF ProcUp, ProcEnds, session
    <2> QED
      BY <2>1 DEF ProcInv, Starting
  <1>7. CASE NetDown \/ NetUp \/ KeyChanges
    <2>1. UNCHANGED <<proc, main, bg, living, told>>
      BY <1>7 DEF NetDown, NetUp, KeyChanges, session
    <2> QED
      BY <2>1 DEF ProcInv, Starting
  <1> QED
    BY <1>3, <1>4, <1>5, <1>6, <1>7

-----------------------------------------------------------------------------
(* What a session that has stopped, or is dropped, has left                *)

\* A start of a session that is open, outside the restart of a forward session,
\* leaves it open and connecting.
LEMMA BeginSafe ==
  ASSUME TypeOK, Order, MainFree, open, role = "forward" => bg = NoRestart,
         NEW next \in {"idle", "check"}, BeginStart(next),
         UNCHANGED <<role, open, proc, bg, job>>,
         \A i \in DOMAIN asks' : asks'[i].fresh =>
            \E j \in DOMAIN asks : asks[j].fresh
  PROVE  Order'
  <1>1. main'.step \in {"launch", "stopping"}
    BY StartFacts
  <1>2. StartInv'
    BY <1>1 DEF StartInv, Starting
  <1>3. Starting'
    BY <1>1 DEF Starting
  <1>4. bg # NoRestart => role # "forward"
    OBVIOUS
  <1>5. DroppedInv'
    BY <1>3, <1>4 DEF Order, DroppedInv
  <1> QED
    BY <1>2, <1>5 DEF Order

\* The tick: the retries start what is open, and the health check looks only at
\* what no restart has in hand.
LEMMA TickSafe ==
  ASSUME TypeOK, ShapeInv, Order,
         RetryProxy \/ RetryForward \/ Check \/ TimerFires
  PROVE  Order'
  <1>1. CASE RetryProxy
    <2>1. /\ role = "proxy" /\ open /\ MainFree
          /\ UNCHANGED <<role, open, proc, bg, job, asks>>
          /\ \/ BeginStart("check")
             \/ main' = [Idle EXCEPT !.step = "check"] /\ UNCHANGED status
      BY <1>1 DEF RetryProxy, ShapeInv
    <2>2. CASE BeginStart("check")
      BY <2>1, <2>2, BeginSafe
    <2>3. CASE main' = [Idle EXCEPT !.step = "check"] /\ UNCHANGED status
      BY <2>1, <2>3 DEF Order, StartInv, DroppedInv, Starting, MainFree, Idle
    <2> QED
      BY <2>1, <2>2, <2>3
  <1>2. CASE RetryForward
    <2>1. /\ open /\ bg = NoRestart /\ MainFree
          /\ UNCHANGED <<role, open, proc, bg>>
          /\ main' = [Idle EXCEPT !.step = "check"]
          /\ status' \in {status, "connecting"}
      BY <1>2 DEF RetryForward, LockFree, StartCheck, world
    <2> QED
      BY <2>1 DEF Order, StartInv, DroppedInv, Starting, MainFree, Idle
  <1>3. CASE Check
    <2>1. /\ main.step = "check" /\ main' = Idle /\ UNCHANGED <<role, open, bg>>
      BY <1>3 DEF Check
    <2>2. CASE UNCHANGED <<status, proc, job, asks>>
      BY <2>1, <2>2 DEF Order, StartInv, DroppedInv, Starting, Idle
    <2>3. CASE bg = NoRestart /\ ~UNCHANGED <<status, proc, job, asks>>
      <3> DEFINE died == proc # NoProc /\ proc \notin living
      <3>1. /\ proc' = IF died THEN NoProc ELSE proc
            /\ status' \in {"error", "connected", status}
            /\ died => status' = "error"
            /\ status' = "connected" /\ status # "connected" => proc # NoProc
            /\ status' = "stopped" => UNCHANGED <<job, asks>>
            /\ ~died /\ status = "stopped" => status' = "stopped"
        BY <1>3, <2>3 DEF Check, Recover
      <3>2. ~open => proc = NoProc /\ status = "stopped"
        BY <2>3 DEF Order, DroppedInv
      <3>3. open
        BY <2>3, <3>1, <3>2
      <3>4. status' = "stopped" => proc' = NoProc
        BY <2>1, <2>3, <3>1 DEF Order, DroppedInv, Starting
      <3> QED
        BY <2>1, <2>3, <3>3, <3>4 DEF Order, StartInv, DroppedInv, Starting, Idle
    <2> QED
      BY <1>3, <2>2, <2>3 DEF Check
  <1>4. CASE TimerFires
    BY <1>4 DEF TimerFires, Order, StartInv, DroppedInv, Starting
  <1> QED
    BY <1>1, <1>2, <1>3, <1>4

\* The host-key flow: what it goes on to start is open and in no restart, since
\* what is not has no inspection under way and no fresh prompt.
LEMMA KeySafe ==
  ASSUME TypeOK, Order, Followed',
         Inspect \/ FinishKnown \/ FinishAsk \/ FinishFailed \/ Answer
  PROVE  Order'
  <1>1. job # NoJob => open /\ bg = NoRestart
    BY DEF Order, DroppedInv
  <1>2. CASE Inspect
    <2>1. /\ job.result = "pending"
          /\ UNCHANGED <<role, open, status, proc, asks, main, bg>>
      BY <1>2 DEF Inspect
    <2>2. open /\ bg = NoRestart
      BY <1>1, <2>1 DEF NoJob
    <2> QED
      BY <2>1, <2>2 DEF Order, StartInv, DroppedInv, Starting
  <1>3. CASE FinishKnown
    <2>1. /\ job # NoJob /\ job' = NoJob /\ MainFree /\ BeginStart("idle")
          /\ UNCHANGED <<role, open, bg>>
      BY <1>3 DEF FinishKnown, NoJob
    <2>2. main'.step \in {"launch", "stopping"}
      BY <2>1, StartFacts
    <2> QED
      BY <1>1, <2>1, <2>2 DEF Order, StartInv, DroppedInv, Starting
  <1>4. CASE FinishAsk \/ FinishFailed
    <2>1. /\ job # NoJob /\ MainFree /\ status' \in {status, "error"}
          /\ UNCHANGED <<role, open, proc, main, bg>>
      BY <1>4 DEF FinishAsk, FinishFailed, NoJob
    <2> QED
      BY <1>1, <2>1 DEF Order, StartInv, DroppedInv, Starting, MainFree, Idle
  <1>5. CASE AcceptCheck
    <2>1. /\ Alerting /\ MainFree /\ asks' = Close
          /\ UNCHANGED <<role, open, proc, job, bg>>
      BY <1>5 DEF AcceptCheck
    <2>2. \A i \in DOMAIN asks' : asks'[i].fresh => \E j \in DOMAIN asks : asks[j].fresh
      BY <2>1, CloseFacts
    <2>3. CASE Top.fresh /\ BeginStart("idle")
      <3>1. open /\ bg = NoRestart
        BY <2>1, <2>3, CloseFacts DEF Order, DroppedInv
      <3> QED
        BY <2>1, <2>2, <2>3, <3>1, BeginSafe
    <2>4. CASE UNCHANGED <<main, status>>
      BY <2>1, <2>2, <2>4 DEF Order, StartInv, DroppedInv, Starting
    <2> QED
      BY <1>5, <2>3, <2>4 DEF AcceptCheck
  <1>6. CASE AcceptReplace
    <2>1. open /\ LockFree
      BY <1>6 DEF AcceptReplace, Followed
    <2>2. MainFree /\ status' = "connecting" /\ UNCHANGED <<role, open, proc, main, bg>>
      BY <1>6 DEF AcceptReplace
    <2> QED
      BY <2>1, <2>2 DEF Order, StartInv, DroppedInv, Starting, LockFree, MainFree, Idle
  <1>7. CASE Refuse
    <2>1. proc = NoProc
      BY <1>7 DEF Refuse, Followed
    <2>2. /\ Alerting /\ MainFree /\ asks' = Close /\ status' = "stopped"
          /\ UNCHANGED <<role, open, proc, job, main, bg>>
      BY <1>7 DEF Refuse
    <2>3. \A i \in DOMAIN asks' : asks'[i].fresh => \E j \in DOMAIN asks : asks[j].fresh
      BY <2>2, CloseFacts
    <2> QED
      BY <2>1, <2>2, <2>3 DEF Order, StartInv, DroppedInv, Starting, MainFree, Idle
  <1> QED
    BY <1>2, <1>3, <1>4, <1>5, <1>6, <1>7 DEF Answer

\* The menu and the machine that wakes find no start and no restart under way;
\* the restart thread takes away the job and the prompts before it stops ssh.
LEMMA MenuSafe ==
  ASSUME TypeOK, ShapeInv, ProcInv, Order, Followed',
         \/ Connect \/ Disconnect \/ Pause \/ Resume \/ Wake
         \/ RestartBegin \/ RestartStopped \/ RestartConnect
  PROVE  Order'
  <1>1. AtMenu => main = Idle /\ bg = NoRestart
    BY DEF AtMenu, MainFree, LockFree
  <1>2. \A i \in DOMAIN Stale : ~Stale[i].fresh
    BY StaleFacts
  <1>3. CASE Connect
    <2>1. /\ bg = NoRestart /\ open' /\ status' = "connecting"
          /\ UNCHANGED <<role, proc, main, bg>>
      BY <1>3 DEF Connect, LockFree, StartCheck
    <2> QED
      BY <2>1 DEF Order, StartInv, DroppedInv, Starting
  <1>4. CASE Disconnect
    <2>1. /\ main = Idle /\ bg = NoRestart /\ UNCHANGED <<main, bg>>
          /\ job' = NoJob /\ asks' = Stale /\ status' = "stopped"
          /\ proc' = NoProc
      BY <1>1, <1>4 DEF Disconnect, CancelHostKey, StopProc
    <2> QED
      BY <1>2, <2>1 DEF Order, StartInv, DroppedInv, Starting, Idle
  <1>5. CASE Pause
    BY <1>5 DEF Pause, Order, StartInv, DroppedInv, Starting
  <1>6. CASE Resume \/ Wake
    <2>1. /\ open /\ main = Idle /\ bg = NoRestart
          /\ UNCHANGED <<role, open, main, bg>>
          /\ \/ status' = "connecting"
             \/ UNCHANGED <<status, proc>>
      BY <1>1, <1>6 DEF Resume, Wake, StartCheck, ShapeInv
    <2> QED
      BY <2>1 DEF Order, StartInv, DroppedInv, Starting, Idle
  <1>7. CASE RestartBegin
    <2>1. role = "forward" => ~Starting
      BY <1>7 DEF RestartBegin, Followed
    <2>2. /\ UNCHANGED <<role, proc, main>> /\ job' = NoJob /\ asks' = Stale
          /\ bg' # NoRestart
          /\ bg'.step = "connect" => status' = "stopped" /\ proc = NoProc
      <3>1. UNCHANGED <<role, proc, main>> /\ job' = NoJob /\ asks' = Stale
        BY <1>7 DEF RestartBegin, CancelHostKey
      <3>2. \/ /\ proc = NoProc /\ status' = "stopped"
               /\ bg' = [step |-> "connect", old |-> NoProc]
            \/ bg' = [step |-> "stopping", old |-> proc]
        BY <1>7 DEF RestartBegin
      <3> QED
        BY <3>1, <3>2 DEF NoRestart
    <2>3. role \in {"proxy", "forward"}
      BY DEF TypeOK, RoleNames
    <2>4. role = "proxy" => open'
      BY <1>7 DEF RestartBegin
    <2>5. StartInv'
      BY <2>1, <2>2, <2>3, <2>4 DEF StartInv, Starting
    <2>6. DroppedInv'
      BY <1>2, <2>2 DEF DroppedInv
    <2> QED
      BY <2>5, <2>6 DEF Order
  <1>8. CASE RestartStopped
    <2>1. /\ bg.step = "stopping" /\ bg # NoRestart /\ bg' # NoRestart
          /\ proc' = NoProc /\ status' = "stopped"
          /\ UNCHANGED <<role, open, job, asks, main>>
      BY <1>8 DEF RestartStopped, NoRestart
    <2> QED
      BY <2>1 DEF Order, StartInv, DroppedInv, Starting
  <1>9. CASE RestartConnect
    <2>1. /\ bg.step = "connect" /\ bg # NoRestart /\ bg' = NoRestart
          /\ UNCHANGED <<role, proc, main>>
      BY <1>9 DEF RestartConnect, NoRestart
    <2>2. CASE open /\ open' /\ status' = "connecting"
      BY <2>1, <2>2 DEF Order, StartInv, DroppedInv, Starting
    <2>3. CASE role = "forward" /\ UNCHANGED <<job, asks, status>>
      BY <2>1, <2>3 DEF Order, StartInv, DroppedInv, Starting
    <2> QED
      BY <1>9, <2>2, <2>3 DEF RestartConnect, StartCheck
  <1> QED
    BY <1>3, <1>4, <1>5, <1>6, <1>7, <1>8, <1>9

\* The rest of a start is of a session that is open and that says it connects by
\* the time its process runs.
LEMMA WorldSafe ==
  ASSUME TypeOK, Order,
         \/ Stopped \/ Launch \/ Popen
         \/ \E p \in Procs : ProcUp(p) \/ ProcEnds(p)
         \/ NetDown \/ NetUp \/ KeyChanges
  PROVE  Order'
  <1>1. CASE Stopped \/ Launch
    <2>1. Starting /\ main'.step \in {"launch", "popen"}
      BY <1>1 DEF Stopped, Launch, Starting, TypeOK, Mains
    <2>2. /\ UNCHANGED <<role, open, job, asks, bg>>
          /\ main'.step = "popen" => status' = "connecting"
      BY <1>1 DEF Stopped, Launch, TypeOK, Mains
    <2>3. open /\ (role = "forward" => bg = NoRestart)
      BY <2>1 DEF Order, StartInv
    <2>4. Starting'
      BY <2>1 DEF Starting
    <2>5. StartInv'
      BY <2>2, <2>3 DEF StartInv
    <2>6. DroppedInv'
      BY <2>2, <2>3, <2>4 DEF Order, DroppedInv
    <2> QED
      BY <2>5, <2>6 DEF Order
  <1>2. CASE Popen
    <2>1. /\ open /\ (role = "forward" => bg = NoRestart)
          /\ bg = NoRestart => status = "connecting"
      BY <1>2 DEF Popen, Order, StartInv, Starting
    <2>2. main'.step \in {"idle", "check"} /\ UNCHANGED <<role, open, job, asks, bg>>
      BY <1>2 DEF Popen, Idle, TypeOK, Mains
    <2>3. \/ status' = status
          \/ proc' = NoProc /\ status' = "error"
      BY <1>2 DEF Popen
    <2> QED
      BY <2>1, <2>2, <2>3 DEF Order, StartInv, DroppedInv, Starting
  <1>3. CASE UNCHANGED <<role, session, main, bg>>
    BY <1>3 DEF session, Order, StartInv, DroppedInv, Starting
  <1>4. \A p \in Procs : ProcUp(p) \/ ProcEnds(p) => UNCHANGED <<role, session, main, bg>>
    BY DEF ProcUp, ProcEnds
  <1>5. NetDown \/ NetUp \/ KeyChanges => UNCHANGED <<role, session, main, bg>>
    BY DEF NetDown, NetUp, KeyChanges
  <1> QED
    BY <1>1, <1>2, <1>3, <1>4, <1>5

-----------------------------------------------------------------------------
(* Theorems                                                                *)

\* A session that is not there yet, or that the launch has still to connect, has
\* no process.
LEMMA InitInv == Init => IInv
  <1> SUFFICES ASSUME Init
               PROVE  IInv
    OBVIOUS
  <1>1. TypeOK
    <2>1. 0 \in 0 .. MaxFaults /\ 0 \in 0 .. MaxActs /\ role \in RoleNames
      BY ConnectionAssumption DEF Init, ConnectionAssumption
    <2>2. Idle \in Mains /\ NoRestart \in Restarts
      BY DEF Idle, Mains, NoRestart, Restarts
    <2>3. asks \in Seq(Asks) /\ fate \in [Procs -> Reasons]
      BY DEF Init, Reasons
    <2> QED
      BY <2>1, <2>2, <2>3 DEF Init, TypeOK, Reasons
  <1>2. ShapeInv
    BY DEF Init, ShapeInv, Idle, NoRestart
  <1>3. ProcInv /\ StartInv /\ DroppedInv
    BY DEF Init, ProcInv, StartInv, DroppedInv, Starting, Idle, NoRestart
  <1> QED
    BY <1>1, <1>2, <1>3 DEF IInv, OrderInv, Order

\* Every step of either thread, of the user, of ssh and of the server keeps the
\* shape of the state.
LEMMA ShapeStep == TypeOK /\ ShapeInv /\ [Next]_vars => ShapeInv'
  <1> SUFFICES ASSUME TypeOK, ShapeInv, [Next]_vars
               PROVE  ShapeInv'
    OBVIOUS
  <1>1. role' = role
    BY DEF Next, vars, Stopped, Launch, Popen, RetryProxy, RetryForward, Check,
           TimerFires, Inspect, FinishKnown, FinishAsk, FinishFailed, Answer,
           AcceptCheck, AcceptReplace, Refuse, Connect, Disconnect, Pause,
           Resume, Wake, RestartBegin, RestartStopped, RestartConnect, ProcUp,
           ProcEnds, NetDown, NetUp, KeyChanges
  <1>2. role = "proxy" => open'
    BY DEF ShapeInv, Next, vars, session, Stopped, Launch, Popen, RetryProxy,
           RetryForward, Check, TimerFires, Inspect, FinishKnown, FinishAsk,
           FinishFailed, Answer, AcceptCheck, AcceptReplace, Refuse, Connect,
           Disconnect, Pause, Resume, Wake, RestartBegin, RestartStopped,
           RestartConnect, ProcUp, ProcEnds, NetDown, NetUp, KeyChanges
  <1>3. paused' => paused \/ role = "proxy"
    BY DEF Next, vars, session, Stopped, Launch, Popen, RetryProxy, RetryForward,
           Check, TimerFires, Inspect, FinishKnown, FinishAsk, FinishFailed,
           Answer, AcceptCheck, AcceptReplace, Refuse, Connect, Disconnect,
           Pause, Resume, Wake, RestartBegin, RestartStopped, RestartConnect,
           ProcUp, ProcEnds, NetDown, NetUp, KeyChanges
  <1>4. main'.step \in {"idle", "check"} =>
           main' = [Idle EXCEPT !.step = main'.step]
    <2>1. CASE UNCHANGED main
      BY <2>1 DEF ShapeInv
    <2>2. CASE main' = Idle \/ main' = [Idle EXCEPT !.step = "check"]
      BY <2>2 DEF Idle
    <2>3. ASSUME NEW next, BeginStart(next)
          PROVE  main'.step \notin {"idle", "check"}
      BY <2>3 DEF BeginStart
    <2>4. CASE Stopped \/ Launch
      BY <2>4 DEF Stopped, Launch, TypeOK, Mains
    <2>5. CASE Popen
      BY <2>5 DEF Popen, TypeOK, Mains, Idle
    <2> QED
      BY <2>1, <2>2, <2>3, <2>4, <2>5
         DEF Next, vars, RetryProxy, RetryForward, Check, TimerFires, Inspect,
             FinishKnown, FinishAsk, FinishFailed, Answer, AcceptCheck,
             AcceptReplace, Refuse, Connect, Disconnect, Pause, Resume, Wake,
             RestartBegin, RestartStopped, RestartConnect, ProcUp, ProcEnds,
             NetDown, NetUp, KeyChanges
  <1>5. bg'.step = "none" => bg' = NoRestart
    <2>1. CASE RestartBegin \/ RestartStopped \/ RestartConnect
      <3>1. \/ bg' = [step |-> "stopping", old |-> proc]
            \/ bg' = [step |-> "connect", old |-> NoProc]
            \/ bg' = NoRestart
        BY <2>1 DEF RestartBegin, RestartStopped, RestartConnect
      <3> QED
        BY <3>1
    <2>2. CASE UNCHANGED bg
      BY <2>2 DEF ShapeInv
    <2> QED
      BY <2>1, <2>2
         DEF Next, vars, Stopped, Launch, Popen, RetryProxy, RetryForward, Check,
             TimerFires, Inspect, FinishKnown, FinishAsk, FinishFailed, Answer,
             AcceptCheck, AcceptReplace, Refuse, Connect, Disconnect, Pause,
             Resume, Wake, ProcUp, ProcEnds, NetDown, NetUp, KeyChanges
  <1> QED
    BY <1>1, <1>2, <1>3, <1>4, <1>5 DEF ShapeInv

\* IInv holds from the launch of the program, or the first forward, on.
LEMMA Invariance == Spec => []IInv
  <1>1. IInv /\ [Next]_vars => TypeOK'
    <2>1. TypeOK /\ UNCHANGED vars => TypeOK'
      BY DEF vars, session, world, history, TypeOK
    <2> QED
      BY <2>1, TickType, KeyType, MenuType, WorldType DEF IInv, Next
  <1>2. IInv /\ [Next]_vars => ShapeInv'
    BY ShapeStep DEF IInv
  <1>3. IInv /\ [Next]_vars => (Uncrossed => ProcInv)'
    <2> SUFFICES ASSUME IInv, [Next]_vars, Uncrossed'
                 PROVE  ProcInv'
      OBVIOUS
    <2>1. ProcInv
      BY MetGrows DEF IInv, OrderInv, Uncrossed
    <2>2. UNCHANGED vars => ProcInv'
      BY <2>1 DEF vars, session, world, ProcInv, Starting
    <2> QED
      BY <2>1, <2>2, MainKeeps, MenuKeeps, WorldKeeps DEF IInv, Next
  <1>4. IInv /\ [Next]_vars => (Followed => Order)'
    <2> SUFFICES ASSUME IInv, [Next]_vars, Followed'
                 PROVE  Order'
      OBVIOUS
    <2>1. Order /\ ProcInv
      BY MetGrows DEF IInv, OrderInv, Followed, Uncrossed
    <2>2. UNCHANGED vars => Order'
      BY <2>1 DEF vars, session, world, Order, StartInv, DroppedInv, Starting
    <2> QED
      BY <2>1, <2>2, TickSafe, KeySafe, MenuSafe, WorldSafe DEF IInv, Next
  <1> QED
    BY <1>1, <1>2, <1>3, <1>4, InitInv, PTL DEF Spec, IInv, OrderInv

\* Whoever starts and stops the session (a retry, a prompt's answer, a wake, the
\* menu, a restart), and whenever ssh dies, no ssh process is lost sight of until a
\* start and the stop of a restart wait for the same one; and a session that has
\* stopped or is dropped has none until, besides, a forward session is stopped while
\* it starts, a prompt is refused over a process, or a key is replaced for a session
\* that is dropped or restarting.
THEOREM NoProcessIsLost == Spec => []NoOrphan
  <1>1. IInv => NoOrphan
    <2>1. IInv /\ Uncrossed => \A p \in living : p \in told \/ p = proc
      BY DEF IInv, OrderInv, ProcInv
    <2>2. ASSUME IInv, Followed, AtRest, status = "stopped" \/ ~open
          PROVE  living \subseteq told
      <3>1. bg = NoRestart /\ ~Starting
        BY <2>2 DEF AtRest, MainFree, LockFree, Starting, Idle
      <3>2. proc = NoProc
        BY <2>2, <3>1 DEF IInv, OrderInv, Order, DroppedInv
      <3>3. living \subseteq Procs /\ NoProc \notin Procs
        BY <2>2, ConnectionAssumption DEF IInv, TypeOK, ConnectionAssumption
      <3> QED
        BY <2>1, <2>2, <3>2, <3>3 DEF Followed
    <2> QED
      BY <2>1, <2>2 DEF NoOrphan
  <1> QED
    BY <1>1, Invariance, PTL

=============================================================================

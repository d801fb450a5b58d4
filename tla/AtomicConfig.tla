---------------------------- MODULE AtomicConfig ----------------------------
(***************************************************************************)
(* What mpconf/config_state.py promises of a save, without journal or      *)
(* Keychain: cfg is the configuration in force (two files), boot the one   *)
(* the next start would come up with.  A save asks for new contents of one *)
(* or both files.  From the moment it is promised, a death makes it happen *)
(* as a whole at the next start.  It is told "ok" at the step that makes   *)
(* all of it the configuration, and "failed" with the configuration as it  *)
(* was before; only when a write of the rollback fails (torn) are its      *)
(* files left half new.  A save told "failed" may still be the promise the *)
(* next start keeps: the removal of a journal is never checked.            *)
(***************************************************************************)
CONSTANTS Writers, Sides, Content, Missing

VARIABLES
    cfg,    \* the configuration in force
    boot,   \* what a start would make of the files
    up,     \* the process runs, and has recovered
    torn,   \* a repair (a rollback, a recovery) failed half-way
    asked,  \* [Writers -> contents asked for]
    told    \* [Writers -> the answer to the last save]

vars == <<cfg, boot, up, torn, asked, told>>

Images(C) == UNION {[S -> C] : S \in SUBSET Sides}
Nothing   == [s \in {} |-> {}]
Overlay(f, g) == [s \in Sides |-> IF s \in DOMAIN g THEN g[s] ELSE f[s]]

\* Each file of f is as in cfg or as in boot.
Mixed(f) == \A s \in Sides : f[s] \in {cfg[s], boot[s]}

Init ==
    /\ cfg \in [Sides -> {Missing, {}}]
    /\ boot = cfg
    /\ up = FALSE
    /\ torn = FALSE
    /\ asked = [w \in Writers |-> Nothing]
    /\ told = [w \in Writers |-> "none"]

Ask(w) ==
    /\ up
    /\ told[w] # "pending"
    /\ \E new \in Images(Content) \ {Nothing} :
          asked' = [asked EXCEPT ![w] = new]
    /\ told' = [told EXCEPT ![w] = "pending"]
    /\ UNCHANGED <<cfg, boot, up, torn>>

Promise(w) ==
    /\ told[w] = "pending"
    /\ boot' = Overlay(cfg, asked[w])
    /\ UNCHANGED <<cfg, up, torn, asked, told>>

Finish(w, verdict) ==
    /\ told[w] = "pending"
    /\ asked' = [asked EXCEPT ![w] = Nothing]
    /\ told' = [told EXCEPT ![w] = verdict]
    /\ UNCHANGED up

Commit(w) ==
    /\ Finish(w, "ok")
    /\ cfg' = Overlay(cfg, asked[w])
    /\ boot' = cfg'
    /\ UNCHANGED torn

Abort(w) ==
    /\ Finish(w, "failed")
    /\ boot' \in {cfg, boot}
    /\ UNCHANGED <<cfg, torn>>

\* A write of the rollback failed.
Tear(w) ==
    /\ Finish(w, "failed")
    /\ Mixed(cfg')
    /\ torn' = TRUE
    /\ UNCHANGED boot

Crash ==
    /\ Mixed(cfg')
    /\ up' = FALSE
    /\ torn' = FALSE
    /\ asked' = [w \in Writers |-> Nothing]
    /\ told' = [w \in Writers |-> "none"]
    /\ UNCHANGED boot

\* The recovery moves the files towards boot ...
Recover ==
    /\ ~up
    /\ Mixed(cfg')
    /\ UNCHANGED <<boot, up, torn, asked, told>>

\* ... and the process comes up with it, or a write of the recovery failed.
Start ==
    /\ ~up
    /\ up' = TRUE
    /\ cfg = boot \/ torn'
    /\ torn => torn'
    /\ UNCHANGED <<cfg, boot, asked, told>>

Next ==
    \/ \E w \in Writers : Ask(w) \/ Promise(w) \/ Commit(w) \/ Abort(w) \/ Tear(w)
    \/ Crash \/ Recover \/ Start

Spec == Init /\ [][Next]_vars

=============================================================================

------------------------------ MODULE MCShell ------------------------------
(* Shell with two configurations and the request threads of two saves. *)
EXTENDS Shell

Family(k, n) == [kinds |-> k, most |-> n]
MCFamilies == {Family({"gateway", "fault", "sp", "quit"}, 3),
               Family({"server", "mp", "quit"}, 3),
               Family({"capture", "sleep", "quit"}, 5)}
MCServer == {Family({"server"}, 3)}

\* The configurations are interchangeable.
MCInit == Init /\ disk # "c2"
\* What follows a crossed claim is nothing the model stands for: a behaviour ends there.
MCNext == ~crossed /\ Next
MCSpec == MCInit /\ [][MCNext]_vars /\ Fairness
=============================================================================

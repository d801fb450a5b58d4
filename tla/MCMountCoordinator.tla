------------------------- MODULE MCMountCoordinator -------------------------
(***************************************************************************)
(* Ports are interchangeable, so the first one may as well be FirstPort:   *)
(* the liveness properties rule out declaring the symmetry to TLC.         *)
(***************************************************************************)
EXTENDS MountCoordinator

CONSTANT FirstPort
ASSUME FirstPortAssumption == FirstPort \in Ports

MCInit == Init /\ cfg.port = FirstPort
MCSpec == MCInit /\ [][Next]_vars /\ Fairness

=============================================================================

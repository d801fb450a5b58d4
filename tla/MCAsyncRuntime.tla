--------------------------- MODULE MCAsyncRuntime ---------------------------
(***************************************************************************)
(* A behaviour ends where the sections of two starts meet: nothing is said *)
(* of what comes after it.                                                 *)
(***************************************************************************)
EXTENDS AsyncRuntime

MCNext == apart /\ Next
MCSpec == Init /\ [][MCNext]_vars /\ Fairness

=============================================================================

----------------------------- MODULE MCConfigTxn -----------------------------
(* Small instances of ConfigTxn for TLC.                                     *)
EXTENDS ConfigTxn

AllFaults == FaultKinds

AllKinds == SaveKinds

=============================================================================

---------------------------- MODULE MCSystemProxy ----------------------------
(* Small instances of SystemProxy for TLC.                                    *)
EXTENDS SystemProxy

CONSTANTS wifi, lan, direct, corporate, http, capture

=============================================================================

--------------------------- MODULE MCUserDirectory ---------------------------
(* UserDirectory for TLC.                                                   *)
EXTENDS UserDirectory
=============================================================================

------------------------------ MODULE MCOrderPath ------------------------------
(* OrderPath for TLC.                                                        *)
EXTENDS OrderPath
=============================================================================

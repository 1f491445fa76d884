-------------------------- MODULE MCConsumerSession --------------------------
(* ConsumerSession for TLC.                                                 *)
EXTENDS ConsumerSession
=============================================================================

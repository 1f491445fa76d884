---------------------------- MODULE MCTokenVerifier ----------------------------
(* TokenVerifier for TLC.                                                    *)
EXTENDS TokenVerifier, TLC

\* Connections are alike.
Symmetry == Permutations(Requests)
=============================================================================

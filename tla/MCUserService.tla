--------------------------- MODULE MCUserService ---------------------------
(* A small instance of UserService. *)
EXTENDS UserService
=============================================================================

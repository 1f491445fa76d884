------------------------ MODULE MCNotificationWorker ------------------------
(* NotificationWorker for TLC, with the invariant its proofs rest on.       *)
EXTENDS NotificationWorkerProofs, TLC

\* Replicas are alike.
Symmetry == Permutations(Workers)
=============================================================================

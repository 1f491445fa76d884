---------------------------- MODULE Notifications ----------------------------
(***************************************************************************)
(* What the notification-worker and its queues promise (FR-6, FR-7, FR-8),  *)
(* without sessions, handlers, acks, retries or copies of messages: an      *)
(* event is waiting, parked in the dead-letter queue, noted in the          *)
(* notifications table, or several of these, and never none of them.        *)
(***************************************************************************)
CONSTANTS Events, Malformed

VARIABLES
  published,  \* events that have reached the main queue
  waiting,    \* events that are still to be processed
  parked,     \* events in the dead-letter queue
  noted       \* events with a row in the notifications table

vars == <<published, waiting, parked, noted>>

Init == published = {} /\ waiting = {} /\ parked = {} /\ noted = {}

(* An event arrives, once.                                                  *)
Publish(e) ==
  /\ e \notin published
  /\ published' = published \cup {e}
  /\ waiting' = waiting \cup {e}
  /\ UNCHANGED <<parked, noted>>

(* It is noted; a handler that was given up on may do so late.              *)
Note(e) ==
  /\ e \in published \ Malformed
  /\ noted' = noted \cup {e}
  /\ UNCHANGED <<published, waiting, parked>>

(* It is parked, and goes on waiting until the original is acknowledged.    *)
Park(e) ==
  /\ e \in waiting
  /\ parked' = parked \cup {e}
  /\ UNCHANGED <<published, waiting, noted>>

(* It is done with: noted, or parked.                                       *)
Settle(e) ==
  /\ e \in waiting /\ e \in noted \cup parked
  /\ waiting' = waiting \ {e}
  /\ UNCHANGED <<published, parked, noted>>

(* A replay puts a parked event back in the main queue ...                  *)
Replay(e) ==
  /\ e \in parked
  /\ waiting' = waiting \cup {e}
  /\ UNCHANGED <<published, parked, noted>>

(* ... and then removes it from the dead-letter queue.                      *)
Unpark(e) ==
  /\ e \in parked /\ e \in waiting \cup noted
  /\ parked' = parked \ {e}
  /\ UNCHANGED <<published, waiting, noted>>

Process(e) == Note(e) \/ Park(e) \/ Settle(e) \/ Replay(e) \/ Unpark(e)

Next == \E e \in Events : Publish(e) \/ Process(e)

Spec == Init /\ [][Next]_vars
=============================================================================

------------------------- MODULE NotificationWorker -------------------------
(***************************************************************************)
(* The asynchronous half of the platform: the notification-worker's        *)
(* ConsumerService (services/notification-worker/src/messaging), the        *)
(* notifications table it writes and the RabbitMQ topology it consumes      *)
(* from: main queue -> retry queue (TTL) -> main queue, and the DLQ.        *)
(*                                                                         *)
(* A message in the broker is a "copy".  The same event can exist in        *)
(* several copies: the DLQ publish of a message is a new copy, and so is    *)
(* what a DLQ replay puts back in the main queue.  Every delivery starts    *)
(* one handler, an asynchronous call of handleMessage that keeps running    *)
(* after the session that delivered it is gone.                            *)
(***************************************************************************)
EXTENDS Naturals, FiniteSets

CONSTANTS
  Events,        \* events the order-service may publish (one eventId each)
  Malformed,     \* those whose body parseOrderCreated rejects
  Workers,       \* worker processes (replicas)
  Copies,        \* pool of broker messages
  MaxAttempts,   \* MAX_ATTEMPTS of the worker's environment
  Prefetch,      \* WORKER_PREFETCH
  MaxSessions,   \* bound: sessions a worker opens
  MaxDlqFaults,  \* bound: dead-letter publishes that fail
  MaxReplays     \* bound: runs of scripts/replay-dlq.sh

ASSUME ConstantsAssumption ==
  /\ Events # {} /\ Malformed \subseteq Events
  /\ MaxAttempts \in 1..100
  /\ Prefetch \in Nat \ {0}
  /\ MaxSessions \in Nat /\ MaxDlqFaults \in Nat /\ MaxReplays \in Nat

VARIABLES
  msg,       \* msg[c]: the broker message in slot c
  published, \* history: events that reached the main queue
  epoch, up, \* the number of a worker's session, and whether it is open
  handlers,  \* handleMessage calls that have not finished
  rows,      \* rows[e]: rows of the notifications table with event_id e
  toMove,    \* what the running DLQ replay has still to move
  replays    \* DLQ replays started

vars == <<msg, published, epoch, up, handlers, rows, toMove, replays>>

\* "moving": published to the main queue by the shovel, not yet removed from the DLQ.
Queues == {"main", "unacked", "retry", "dlq", "moving"}

\* rejected and expired are the counts of the x-death header for (main queue,
\* rejected) and (retry queue, expired); handed is history: how often
\* dead-lettering this message failed.
Message == [loc : Queues \cup {"free"}, ev : Events,
            rejected : Nat, expired : Nat, handed : Nat]

Fresh(q, e) == [loc |-> q, ev |-> e, rejected |-> 0, expired |-> 0, handed |-> 0]
NoMessage   == Fresh("free", CHOOSE e \in Events : TRUE)

\* The await a handler is suspended at, or the frame it ended with.
Steps == {"recording", "recorded", "failed", "deadlettering", "ack_sent", "nack_sent"}
\* The handler's DLQ publish.
Pubs  == {"none", "sent", "landed", "refused"}
Handler == [copy : Copies, ev : Events, worker : Workers, sess : Nat,
            step : Steps, pub : Pubs]

Init ==
  /\ msg = [c \in Copies |-> NoMessage]
  /\ published = {}
  /\ epoch = [w \in Workers |-> 0]
  /\ up = [w \in Workers |-> FALSE]
  /\ handlers = {}
  /\ rows = [e \in Events |-> 0]
  /\ toMove = {}
  /\ replays = 0

-----------------------------------------------------------------------------
Held(c) == msg[c].loc # "free"

(* The channel of a handler is open: the broker will process its frames.    *)
Live(h) == up[h.worker] /\ epoch[h.worker] = h.sess

LiveOf(w) == {h \in handlers : h.worker = w /\ Live(h)}

\* Slots carry no meaning: a new message takes any free one.
HasFree == \E c \in Copies : ~Held(c)
NewSlot == CHOOSE c \in Copies : ~Held(c)

Become(h, step, pub) ==
  handlers' = (handlers \ {h}) \cup {[h EXCEPT !.step = step, !.pub = pub]}

Finish(h) == handlers' = handlers \ {h}

\* Mutant: every x-death entry counts, the retry queue's expirations too.
failedAttemptsAll(m) == m.rejected + m.expired

(* failedAttempts: only rejections from the main queue count.               *)
failedAttempts(m) == m.rejected

-----------------------------------------------------------------------------
(* The order-service's publish reaches the main queue.  An eventId is       *)
(* minted per publish, so an event is published once.                       *)
Publish(e) ==
  /\ e \notin published
  /\ HasFree
  /\ msg' = [msg EXCEPT ![NewSlot] = Fresh("main", e)]
  /\ published' = published \cup {e}
  /\ UNCHANGED <<epoch, up, handlers, rows, toMove, replays>>

\* parseOrderCreated returns an event and does not throw PermanentError.
parseOrderCreated(e) == e \notin Malformed

(* The consume callback: handleMessage runs up to its first await.  A       *)
(* malformed body raises PermanentError, and deadLetter publishes at once.  *)
Deliver(w, c) ==
  /\ up[w]
  /\ msg[c].loc = "main"
  /\ Cardinality(LiveOf(w)) < Prefetch
  /\ msg' = [msg EXCEPT ![c].loc = "unacked"]
  /\ LET bad == ~parseOrderCreated(msg[c].ev) IN
       handlers' = handlers \cup
         {[copy |-> c, ev |-> msg[c].ev, worker |-> w, sess |-> epoch[w],
           step |-> IF bad THEN "deadlettering" ELSE "recording",
           pub  |-> IF bad THEN "sent" ELSE "none"]}
  /\ UNCHANGED <<published, epoch, up, rows, toMove, replays>>

(* PostgreSQL executes INSERT ... ON CONFLICT (event_id) DO NOTHING.        *)
Record(h) ==
  /\ h.step = "recording"
  /\ rows' = [rows EXCEPT ![h.ev] = IF @ = 0 THEN 1 ELSE @]
  /\ Become(h, "recorded", h.pub)
  /\ UNCHANGED <<msg, published, epoch, up, toMove, replays>>

(* record() rejects: the statement was not executed, or it was and its      *)
(* answer was lost.                                                         *)
RecordFails(h) ==
  /\ h.step \in {"recording", "recorded"}
  /\ Become(h, "failed", h.pub)
  /\ UNCHANGED <<msg, published, epoch, up, rows, toMove, replays>>

\* Mutant: record() is not awaited.
AcknowledgeUnawaited(h) ==
  /\ h.step \in {"recording", "recorded"}
  /\ IF Live(h) THEN Become(h, "ack_sent", h.pub) ELSE Finish(h)
  /\ UNCHANGED <<msg, published, epoch, up, rows, toMove, replays>>

(* record() resolved: ack on the channel of the delivery.  On a closed      *)
(* channel ack throws, so do the nacks of handleFailure, and track logs it. *)
Acknowledge(h) ==
  /\ h.step = "recorded"
  /\ IF Live(h) THEN Become(h, "ack_sent", h.pub) ELSE Finish(h)
  /\ UNCHANGED <<msg, published, epoch, up, rows, toMove, replays>>

\* Mutant: the attempt that just failed is not counted.
HandleFailureOffByOne(h) ==
  /\ h.step = "failed"
  /\ LET attempts == failedAttempts(msg[h.copy]) IN
       \/ ~Live(h) /\ Finish(h)
       \/ Live(h) /\ attempts >= MaxAttempts /\ Become(h, "deadlettering", "sent")
       \/ Live(h) /\ attempts < MaxAttempts /\ Become(h, "nack_sent", h.pub)
  /\ UNCHANGED <<msg, published, epoch, up, rows, toMove, replays>>

(* handleFailure after a transient error: dead-letter or reject.  The       *)
(* headers of a delivery do not change while it is unacked.                 *)
HandleFailure(h) ==
  /\ h.step = "failed"
  /\ LET attempts == failedAttempts(msg[h.copy]) + 1 IN
       \/ ~Live(h) /\ Finish(h)
       \/ Live(h) /\ attempts >= MaxAttempts /\ Become(h, "deadlettering", "sent")
       \/ Live(h) /\ attempts < MaxAttempts /\ Become(h, "nack_sent", h.pub)
  /\ UNCHANGED <<msg, published, epoch, up, rows, toMove, replays>>

(* The broker stores the DLQ copy, published without x-death, and confirms  *)
(* it.  This may happen after the handler's timer has fired.                *)
DlqAccepts(h) ==
  /\ Live(h)
  /\ h.pub = "sent"
  /\ HasFree
  /\ msg' = [msg EXCEPT ![NewSlot] = Fresh("dlq", h.ev)]
  /\ Become(h, h.step, "landed")
  /\ UNCHANGED <<published, epoch, up, rows, toMove, replays>>

(* The broker answers the publish with a nack.                              *)
DlqRefuses(h) ==
  /\ Live(h)
  /\ h.pub = "sent" /\ h.step = "deadlettering"
  /\ msg[h.copy].handed < MaxDlqFaults
  /\ Become(h, h.step, "refused")
  /\ UNCHANGED <<msg, published, epoch, up, rows, toMove, replays>>

\* Mutant: the error argument of the confirm callback is ignored.
DeadLetteredAnyway(h) ==
  /\ Live(h)
  /\ h.step = "deadlettering" /\ h.pub \in {"landed", "refused"}
  /\ Become(h, "ack_sent", h.pub)
  /\ UNCHANGED <<msg, published, epoch, up, rows, toMove, replays>>

(* The confirm arrives in time: deadLetter acks the original.               *)
DeadLettered(h) ==
  /\ Live(h)
  /\ h.step = "deadlettering" /\ h.pub = "landed"
  /\ Become(h, "ack_sent", h.pub)
  /\ UNCHANGED <<msg, published, epoch, up, rows, toMove, replays>>

\* Mutant: a failed dead-lettering is only logged.
DeadLetterFailsSilently(h) ==
  /\ h.step = "deadlettering"
  /\ ~Live(h) \/ msg[h.copy].handed < MaxDlqFaults
  /\ Finish(h)
  /\ UNCHANGED <<msg, published, epoch, up, rows, toMove, replays>>

(* The confirm is an error, or CONFIRM_TIMEOUT_MS pass without one (the     *)
(* publish may have landed or may land later): the catch of handleFailure   *)
(* rejects the message to the retry queue.  On a closed channel that nack   *)
(* throws and the handler ends.                                             *)
DeadLetterFails(h) ==
  /\ h.step = "deadlettering"
  /\ \/ /\ ~Live(h)
        /\ Finish(h)
        /\ UNCHANGED msg
     \/ /\ Live(h)
        /\ msg[h.copy].handed < MaxDlqFaults
        /\ Become(h, "nack_sent", h.pub)
        /\ msg' = [msg EXCEPT ![h.copy].handed = @ + 1]
  /\ UNCHANGED <<published, epoch, up, rows, toMove, replays>>

-----------------------------------------------------------------------------
(* The broker.  Frames of a channel are processed in order: the DLQ publish *)
(* of a handler before its ack or nack.                                     *)
BrokerAck(h) ==
  /\ Live(h)
  /\ h.step = "ack_sent" /\ h.pub # "sent"
  /\ msg' = [msg EXCEPT ![h.copy] = NoMessage]
  /\ Finish(h)
  /\ UNCHANGED <<published, epoch, up, rows, toMove, replays>>

BrokerNack(h) ==
  /\ Live(h)
  /\ h.step = "nack_sent" /\ h.pub # "sent"
  /\ msg' = [msg EXCEPT ![h.copy].loc = "retry", ![h.copy].rejected = @ + 1]
  /\ Finish(h)
  /\ UNCHANGED <<published, epoch, up, rows, toMove, replays>>

(* x-message-ttl of the retry queue: dead-lettered back to the main queue.  *)
RetryExpires(c) ==
  /\ msg[c].loc = "retry"
  /\ msg' = [msg EXCEPT ![c].loc = "main", ![c].expired = @ + 1]
  /\ UNCHANGED <<published, epoch, up, handlers, rows, toMove, replays>>

-----------------------------------------------------------------------------
(* run / consumeUntilClosed: one session after the other.                   *)
OpenSession(w) ==
  /\ ~up[w] /\ epoch[w] < MaxSessions
  /\ up' = [up EXCEPT ![w] = TRUE]
  /\ epoch' = [epoch EXCEPT ![w] = @ + 1]
  /\ UNCHANGED <<msg, published, handlers, rows, toMove, replays>>

\* The broker returns the unacked deliveries of w's session to the main queue.
Requeue(w) ==
  msg' = [c \in Copies |-> IF \E h \in LiveOf(w) : h.copy = c
                           THEN [msg[c] EXCEPT !.loc = "main"] ELSE msg[c]]

(* The connection or the channel closes.  Frames in flight are lost;        *)
(* handlers suspended at an await keep running without a channel.           *)
CloseSession(w) ==
  /\ up[w] /\ epoch[w] < MaxSessions
  /\ Requeue(w)
  /\ up' = [up EXCEPT ![w] = FALSE]
  /\ handlers' = handlers \ {h \in LiveOf(w) : h.step \in {"ack_sent", "nack_sent"}}
  /\ UNCHANGED <<published, epoch, rows, toMove, replays>>

(* The worker process dies, and every handler with it.                      *)
Crash(w) ==
  /\ epoch[w] < MaxSessions
  /\ Requeue(w)
  /\ up' = [up EXCEPT ![w] = FALSE]
  /\ handlers' = {h \in handlers : h.worker # w}
  /\ UNCHANGED <<published, epoch, rows, toMove, replays>>

-----------------------------------------------------------------------------
(* scripts/replay-dlq.sh: a one-off shovel moves what the DLQ held at start *)
(* (queues are FIFO: src-delete-after queue-length).                        *)
StartReplay ==
  /\ toMove = {} /\ replays < MaxReplays
  /\ \E c \in Copies : msg[c].loc = "dlq"
  /\ toMove' = {c \in Copies : msg[c].loc = "dlq"}
  /\ replays' = replays + 1
  /\ UNCHANGED <<msg, published, epoch, up, handlers, rows>>

ShovelPublish(c) ==
  /\ c \in toMove /\ msg[c].loc = "dlq"
  /\ HasFree
  /\ msg' = [msg EXCEPT ![NewSlot] = [msg[c] EXCEPT !.loc = "main"], ![c].loc = "moving"]
  /\ UNCHANGED <<published, epoch, up, handlers, rows, toMove, replays>>

\* ack-mode on-confirm: removed from the DLQ once the main queue has it.
ShovelAck(c) ==
  /\ c \in toMove /\ msg[c].loc = "moving"
  /\ msg' = [msg EXCEPT ![c] = NoMessage]
  /\ toMove' = toMove \ {c}
  /\ UNCHANGED <<published, epoch, up, handlers, rows, replays>>

\* The shovel dies: what it had not acknowledged is in the DLQ again.
ShovelFails ==
  /\ toMove # {}
  /\ msg' = [c \in Copies |-> IF msg[c].loc = "moving"
                              THEN [msg[c] EXCEPT !.loc = "dlq"] ELSE msg[c]]
  /\ toMove' = {}
  /\ UNCHANGED <<published, epoch, up, handlers, rows, replays>>

-----------------------------------------------------------------------------
HandlerStep(h) ==
  \/ Record(h) \/ RecordFails(h) \/ Acknowledge(h) \/ HandleFailure(h)
  \/ DlqAccepts(h) \/ DlqRefuses(h) \/ DeadLettered(h) \/ DeadLetterFails(h)
  \/ BrokerAck(h) \/ BrokerNack(h)

(* What happens by itself: handlers, broker, reconnection, a running shovel. *)
Progress ==
  \/ \E h \in handlers : HandlerStep(h)
  \/ \E w \in Workers, c \in Copies : Deliver(w, c)
  \/ \E w \in Workers : OpenSession(w)
  \/ \E c \in Copies : RetryExpires(c) \/ ShovelPublish(c) \/ ShovelAck(c)

Next ==
  \/ Progress
  \/ \E e \in Events : Publish(e)
  \/ \E w \in Workers : CloseSession(w) \/ Crash(w)
  \/ StartReplay
  \/ ShovelFails

Spec == Init /\ [][Next]_vars

(* The event loop runs every ready continuation, timers fire, the broker    *)
(* delivers and expires, the run loop reconnects.  Faults are not fair.     *)
FairSpec == Spec /\ WF_vars(Progress)

-----------------------------------------------------------------------------
(* Properties.                                                              *)

(* Type invariant.                                                          *)
TypeOK ==
  /\ msg \in [Copies -> Message]
  /\ published \subseteq Events
  /\ epoch \in [Workers -> Nat]
  /\ up \in [Workers -> BOOLEAN]
  /\ handlers \subseteq Handler
  /\ rows \in [Events -> 0..1]
  /\ toMove \subseteq Copies
  /\ replays \in Nat

(* At-least-once: whatever crashes, closes or times out between two steps   *)
(* of handleMessage, deadLetter or a DLQ replay, a published event is in    *)
(* the notifications table or still in some queue.                          *)
NoEventLost ==
  \A e \in published : rows[e] > 0 \/ \E c \in Copies : Held(c) /\ msg[c].ev = e

\* How often a message may be rejected while dead-lettering works.
Budget(e) == IF e \in Malformed THEN 0 ELSE MaxAttempts - 1

(* FR-8: a message is rejected at most MaxAttempts - 1 times (a malformed   *)
(* one never), plus once for every time it could not be dead-lettered.      *)
BoundedRetries ==
  \A c \in Copies : msg[c].rejected <= msg[c].handed + Budget(msg[c].ev)

(* No prefetch slot leaks and no delivery is settled twice: an unacked      *)
(* message has exactly one handler with an open channel, no other has one.  *)
UnackedHasOneHandler ==
  \A c \in Copies :
    Cardinality({h \in handlers : h.copy = c /\ Live(h)})
      = (IF msg[c].loc = "unacked" THEN 1 ELSE 0)

(* A dead-lettered message has its full retry budget when it is replayed.   *)
ReplayStartsFresh ==
  \A c \in Copies : msg[c].loc \in {"dlq", "moving"} => failedAttempts(msg[c]) = 0

(* "up to MAX_ATTEMPTS, then DLQ": a well-formed message is dead-lettered in *)
(* its last attempt, not earlier, however it came back to the main queue,   *)
(* and begins to count anew when it is replayed.                            *)
NoEarlyGiveUp ==
  /\ \A h \in handlers :
       Live(h) /\ h.pub # "none" /\ h.ev \notin Malformed => msg[h.copy].rejected >= MaxAttempts - 1
  /\ ReplayStartsFresh

\* Where an event is: with the worker or on its way to it, in the DLQ, in the table.
InDlq == {"dlq", "moving"}
Waiting == {e \in Events : \E c \in Copies : msg[c].ev = e /\ msg[c].loc \notin InDlq \cup {"free"}}
Parked  == {e \in Events : \E c \in Copies : msg[c].ev = e /\ msg[c].loc \in InDlq}
Noted   == {e \in Events : rows[e] > 0}

Delivery == INSTANCE Notifications WITH waiting <- Waiting, parked <- Parked, noted <- Noted

(* The worker, its retries, its dead-letter queue and the replay tool,      *)
(* whatever fails between two of their steps, do no more than note, park or *)
(* put back events one at a time, and let go of none that is not noted or   *)
(* held elsewhere (FR-6, FR-7, FR-8).                                       *)
KeepsDelivery == Delivery!Spec

(* Every published event ends up recorded or dead-lettered and stays so,    *)
(* also behind messages that fail again and again (FR-8).                   *)
EventuallySettled ==
  \A e \in Events :
    e \in published ~> [](rows[e] > 0 \/ \E c \in Copies : msg[c].ev = e /\ msg[c].loc = "dlq")

=============================================================================

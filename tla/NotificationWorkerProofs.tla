----------------------- MODULE NotificationWorkerProofs -----------------------
(***************************************************************************)
(* Safety of NotificationWorker for any number of events, workers, broker   *)
(* messages, sessions, failed dead-letterings and DLQ replays: its           *)
(* invariant; the steps of a delivery's handler (record, acknowledge,        *)
(* handleFailure and deadLetter of consumer.service.ts) keep it, and so do   *)
(* those of the broker, the sessions and the shovel. With it,                *)
(* NotificationWorker implements Notifications and parks no event before its *)
(* last attempt.                                                             *)
(***************************************************************************)
EXTENDS NotificationWorker, FiniteSetTheorems, TLAPS

\* Another copy of the message of slot c is already in the broker: the DLQ
\* publish of its handler landed, or the shovel has put it in the main queue.
Replaced(c) ==
  \/ msg[c].loc = "moving"
  \/ \E h \in handlers : Live(h) /\ h.copy = c /\ h.pub = "landed"

\* No event is lost, even when every message that already has a replacement
\* is removed.
Preserved ==
  \A e \in published :
    rows[e] > 0 \/ \E c \in Copies : Held(c) /\ msg[c].ev = e /\ ~Replaced(c)

\* A handler with an open channel owns an unacked message of its event.
Owns ==
  \A h \in handlers :
    /\ h.sess <= epoch[h.worker]
    /\ Live(h) => msg[h.copy].loc = "unacked" /\ msg[h.copy].ev = h.ev

\* Two handlers with an open channel own different messages.
OwnsAlone ==
  \A g, h \in handlers : Live(g) /\ Live(h) /\ g.copy = h.copy => g = h

\* An unacked message is owned.
Owned ==
  \A c \in Copies : msg[c].loc = "unacked" => \E h \in handlers : Live(h) /\ h.copy = c

\* What a handler has achieved when it is about to ack or has acked.
AckSafe ==
  \A h \in handlers :
    /\ h.step = "recorded" => rows[h.ev] > 0
    /\ h.step = "ack_sent" => h.pub = "landed" \/ rows[h.ev] > 0

\* The rejection a nack in flight will cause is within the budget.
NackSafe ==
  \A h \in handlers :
    /\ h.step \in {"recording", "recorded", "failed"} => h.ev \notin Malformed
    /\ h.step = "nack_sent" /\ Live(h) =>
         msg[h.copy].rejected + 1 <= msg[h.copy].handed + Budget(h.ev)

IndInv ==
  /\ TypeOK
  /\ Preserved
  /\ Owns
  /\ OwnsAlone
  /\ Owned
  /\ AckSafe
  /\ NackSafe
  /\ BoundedRetries
  /\ ReplayStartsFresh
-----------------------------------------------------------------------------
(* The slot a new message takes is a free one.                              *)
LEMMA NewSlotFree == HasFree => NewSlot \in Copies /\ msg[NewSlot].loc = "free"
BY DEF HasFree, NewSlot, Held

(* A message put in a queue, and the empty slot, are messages.              *)
LEMMA FreshMessage ==
  /\ NoMessage \in Message
  /\ NoMessage.loc = "free" /\ NoMessage.ev \in Events
  /\ NoMessage.rejected = 0 /\ NoMessage.handed = 0
  /\ \A q \in Queues, e \in Events : Fresh(q, e) \in Message
BY ConstantsAssumption DEF NoMessage, Fresh, Message

(* Every action keeps the variables in their types.                         *)
LEMMA TypeStep == TypeOK /\ [Next]_vars => TypeOK'
<1> SUFFICES ASSUME TypeOK, [Next]_vars PROVE TypeOK'
  OBVIOUS
<1> USE DEF TypeOK
<1>a. \A h \in handlers, s \in Steps, p \in Pubs :
        Become(h, s, p) => handlers' \subseteq Handler
  BY ZenonT(60) DEF Become, Handler
<1>b. \A h \in handlers : h \in Handler
  OBVIOUS
<1>1. ASSUME NEW h \in handlers, HandlerStep(h) PROVE TypeOK'
  <2> h \in Handler BY <1>b
  <2>1. CASE Record(h)
    BY <2>1, <1>a DEF Record, Steps, Handler
  <2>2. CASE RecordFails(h)
    BY <2>2, <1>a DEF RecordFails, Steps, Handler
  <2>3. CASE Acknowledge(h)
    BY <2>3, <1>a DEF Acknowledge, Finish, Steps, Handler
  <2>4. CASE HandleFailure(h)
    BY <2>4, <1>a DEF HandleFailure, Finish, Steps, Pubs, Handler
  <2>5. CASE DlqAccepts(h)
    <3>1. msg' \in [Copies -> Message]
      BY <2>5, NewSlotFree, FreshMessage DEF DlqAccepts, Queues, Handler
    <3> QED BY <2>5, <3>1, <1>a DEF DlqAccepts, Steps, Pubs, Handler
  <2>6. CASE DlqRefuses(h)
    BY <2>6, <1>a DEF DlqRefuses, Steps, Pubs, Handler
  <2>7. CASE DeadLettered(h)
    BY <2>7, <1>a DEF DeadLettered, Steps, Pubs, Handler
  <2>8. CASE DeadLetterFails(h)
    <3>1. msg' \in [Copies -> Message]
      <4>1. h.copy \in Copies /\ msg[h.copy] \in Message
        BY DEF Handler
      <4>2. [msg[h.copy] EXCEPT !.handed = @ + 1] \in Message
        BY <4>1 DEF Message
      <4> QED BY <2>8, <4>1, <4>2 DEF DeadLetterFails
    <3> QED BY <2>8, <3>1, <1>a DEF DeadLetterFails, Finish, Steps, Pubs, Handler
  <2>9. CASE BrokerAck(h)
    BY <2>9, FreshMessage DEF BrokerAck, Finish, Handler
  <2>10. CASE BrokerNack(h)
    <3>1. msg' \in [Copies -> Message]
      BY <2>10 DEF BrokerNack, Message, Queues, Handler
    <3> QED BY <2>10, <3>1 DEF BrokerNack, Finish, Handler
  <2> QED
    BY <1>1, <2>1, <2>2, <2>3, <2>4, <2>5, <2>6, <2>7, <2>8, <2>9, <2>10 DEF HandlerStep
<1>2. ASSUME NEW w \in Workers, NEW c \in Copies, Deliver(w, c) PROVE TypeOK'
  <2>1. msg' \in [Copies -> Message] /\ msg[c].ev \in Events
    BY <1>2 DEF Deliver, Message, Queues
  <2> QED BY <1>2, <2>1 DEF Deliver, Handler, Steps, Pubs
<1>3. ASSUME NEW w \in Workers, OpenSession(w) PROVE TypeOK'
  BY <1>3 DEF OpenSession
<1>4. ASSUME NEW c \in Copies, RetryExpires(c) PROVE TypeOK'
  <2>1. msg' \in [Copies -> Message]
    BY <1>4 DEF RetryExpires, Message, Queues
  <2> QED BY <1>4, <2>1 DEF RetryExpires
<1>5. ASSUME NEW c \in Copies, ShovelPublish(c) PROVE TypeOK'
  <2>1. msg' \in [Copies -> Message]
    <3>1. [msg[c] EXCEPT !.loc = "main"] \in Message /\ [msg[c] EXCEPT !.loc = "moving"] \in Message
      BY DEF Message, Queues
    <3>2. NewSlot \in Copies /\ NewSlot # c
      BY <1>5, NewSlotFree DEF ShovelPublish
    <3> QED BY <1>5, <3>1, <3>2 DEF ShovelPublish
  <2> QED BY <1>5, <2>1 DEF ShovelPublish
<1>6. ASSUME NEW c \in Copies, ShovelAck(c) PROVE TypeOK'
  BY <1>6, FreshMessage DEF ShovelAck
<1>7. ASSUME NEW e \in Events, Publish(e) PROVE TypeOK'
  BY <1>7, NewSlotFree, FreshMessage DEF Publish, Queues
<1>8. ASSUME NEW w \in Workers, Requeue(w) PROVE msg' \in [Copies -> Message]
  BY <1>8 DEF Requeue, Message, Queues
<1>9. ASSUME NEW w \in Workers, CloseSession(w) \/ Crash(w) PROVE TypeOK'
  BY <1>8, <1>9, ZenonT(60) DEF CloseSession, Crash
<1>10. CASE StartReplay
  BY <1>10 DEF StartReplay
<1>11. CASE ShovelFails
  <2>1. msg' \in [Copies -> Message]
    BY <1>11 DEF ShovelFails, Message, Queues
  <2> QED BY <1>11, <2>1 DEF ShovelFails
<1>12. CASE UNCHANGED vars
  BY <1>12 DEF vars
<1> QED
  BY <1>1, <1>2, <1>3, <1>4, <1>5, <1>6, <1>7, <1>9, <1>10, <1>11, <1>12 DEF Next, Progress

-----------------------------------------------------------------------------
(* What the steps of a handler do to the set of handlers.                   *)
LEMMA BecomeFacts ==
  ASSUME TypeOK, NEW h \in handlers, NEW s \in Steps, NEW p \in Pubs, Become(h, s, p)
  PROVE  \E k \in Handler :
           /\ k.copy = h.copy /\ k.ev = h.ev /\ k.worker = h.worker /\ k.sess = h.sess
           /\ k.step = s /\ k.pub = p
           /\ handlers' = (handlers \ {h}) \cup {k}
<1>1. h \in Handler
  BY DEF TypeOK
<1> [h EXCEPT !.step = s, !.pub = p] \in Handler
  BY <1>1, ZenonT(60) DEF Handler
<1> WITNESS [h EXCEPT !.step = s, !.pub = p] \in Handler
<1> QED BY <1>1 DEF Become, Handler

(* The fields of a handler have their types.                                *)
LEMMA HandlerFields ==
  ASSUME TypeOK, NEW h \in handlers
  PROVE  /\ h.copy \in Copies /\ h.ev \in Events /\ h.worker \in Workers /\ h.sess \in Nat
         /\ h.step \in Steps /\ h.pub \in Pubs
BY DEF TypeOK, Handler

(* The fields of a broker message have their types.                         *)
LEMMA MessageFields ==
  ASSUME TypeOK, NEW c \in Copies
  PROVE  /\ msg[c].ev \in Events /\ msg[c].rejected \in Nat /\ msg[c].handed \in Nat
         /\ msg[c].loc \in Queues \cup {"free"}
BY DEF TypeOK, Message

(* A budget is a number.                                                    *)
LEMMA BudgetNat == \A e \in Events : Budget(e) \in Nat
BY ConstantsAssumption DEF Budget

\* Unacked messages stay what they are, except the ones in S, which are settled.
UnackedFrame(S) ==
  \A c \in Copies :
    /\ msg'[c].loc = "unacked" <=> msg[c].loc = "unacked" /\ c \notin S
    /\ msg'[c].loc = "unacked" => msg'[c].ev = msg[c].ev

(* Ownership of unacked messages is kept when a handler goes on ...         *)
LEMMA OwnershipBecome ==
  ASSUME IndInv, NEW h \in handlers, NEW s \in Steps, NEW p \in Pubs, Become(h, s, p),
         UNCHANGED <<epoch, up>>, UnackedFrame({})
  PROVE  Owns' /\ OwnsAlone' /\ Owned'
<1> USE DEF IndInv, Owns, OwnsAlone, Owned, Live, UnackedFrame
<1>1. PICK k \in Handler :
           /\ k.copy = h.copy /\ k.ev = h.ev /\ k.worker = h.worker /\ k.sess = h.sess
           /\ handlers' = (handlers \ {h}) \cup {k}
  BY BecomeFacts
<1>2. \A g \in handlers : g.copy \in Copies
  BY HandlerFields
<1>3. Owns'
  BY <1>1, <1>2
<1>4. OwnsAlone'
  BY <1>1
<1>5. Owned'
  BY <1>1
<1> QED BY <1>3, <1>4, <1>5

(* ... and when it ends: without a channel, or because its message is settled. *)
LEMMA OwnershipFinish ==
  ASSUME IndInv, NEW h \in handlers, Finish(h), UNCHANGED <<epoch, up>>,
         UnackedFrame({c \in Copies : Live(h) /\ c = h.copy})
  PROVE  Owns' /\ OwnsAlone' /\ Owned'
<1> USE DEF IndInv, Owns, OwnsAlone, Owned, Live, UnackedFrame, Finish
<1>1. \A g \in handlers : g.copy \in Copies
  BY HandlerFields
<1>2. Owns'
  BY <1>1
<1>3. OwnsAlone'
  OBVIOUS
<1>4. Owned'
  BY <1>1
<1> QED BY <1>2, <1>3, <1>4

(* A handler's own step, broker and sessions left alone, keeps its promises  *)
(* about acks and nacks when the new step fulfils them.                      *)
LEMMA PromisesBecome ==
  ASSUME IndInv, NEW h \in handlers, NEW s \in Steps, NEW p \in Pubs, Become(h, s, p),
         UNCHANGED <<epoch, up, msg>>,
         \A e \in Events : rows[e] > 0 => rows'[e] > 0,
         s = "recorded" => rows'[h.ev] > 0,
         s = "ack_sent" => p = "landed" \/ rows'[h.ev] > 0,
         s \in {"recording", "recorded", "failed"} => h.ev \notin Malformed,
         s = "nack_sent" => msg[h.copy].rejected + 1 <= msg[h.copy].handed + Budget(h.ev)
  PROVE  AckSafe' /\ NackSafe'
<1> USE DEF IndInv, AckSafe, NackSafe, Live
<1>1. PICK k \in Handler :
           /\ k.copy = h.copy /\ k.ev = h.ev /\ k.worker = h.worker /\ k.sess = h.sess
           /\ k.step = s /\ k.pub = p
           /\ handlers' = (handlers \ {h}) \cup {k}
  BY BecomeFacts
<1>2. \A g \in handlers : g.ev \in Events
  BY HandlerFields
<1> HIDE DEF Budget
<1>3. AckSafe'
  BY <1>1, <1>2
<1>4. NackSafe'
  BY <1>1 DEF Budget
<1> QED BY <1>3, <1>4

(* No event is lost by a step that leaves the broker alone and gives no      *)
(* message a replacement.                                                    *)
LEMMA PreservedBecome ==
  ASSUME IndInv, NEW h \in handlers, NEW s \in Steps, NEW p \in Pubs, Become(h, s, p),
         UNCHANGED <<epoch, up, published>>,
         \A c \in Copies : msg'[c].loc = msg[c].loc /\ msg'[c].ev = msg[c].ev,
         \A e \in Events : rows[e] > 0 => rows'[e] > 0,
         p = "landed" => h.pub = "landed"
  PROVE  Preserved'
<1> USE DEF IndInv, Preserved, Live
<1>1. PICK k \in Handler :
           /\ k.copy = h.copy /\ k.ev = h.ev /\ k.worker = h.worker /\ k.sess = h.sess
           /\ k.step = s /\ k.pub = p
           /\ handlers' = (handlers \ {h}) \cup {k}
  BY BecomeFacts
<1>2. \A c \in Copies : Replaced(c)' => Replaced(c)
  BY <1>1 DEF Replaced
<1>3. published \subseteq Events
  BY DEF TypeOK
<1> QED BY <1>2, <1>3 DEF Held

(* No event is lost when a handler merely ends.                             *)
LEMMA PreservedFinish ==
  ASSUME IndInv, NEW h \in handlers, Finish(h), UNCHANGED <<epoch, up, published, msg, rows>>
  PROVE  Preserved'
<1>1. \A c \in Copies : Replaced(c)' => Replaced(c)
  BY DEF Replaced, Finish, Live
<1> QED BY <1>1 DEF IndInv, Preserved, Held

-----------------------------------------------------------------------------
(* One lemma per action: it keeps the inductive invariant.                   *)

(* Steps that leave msg and rows alone cannot disturb what is about them only.*)
LEMMA BrokerUntouched ==
  ASSUME IndInv, UNCHANGED <<msg, rows>>
  PROVE  BoundedRetries' /\ ReplayStartsFresh'
BY DEF IndInv, BoundedRetries, ReplayStartsFresh, failedAttempts

(* Record: the insert adds the first row of an event or none.               *)
LEMMA RecordStep ==
  ASSUME IndInv, TypeOK', NEW h \in handlers, Record(h) PROVE IndInv'
<1> TypeOK
  BY DEF IndInv
<1>1. /\ Become(h, "recorded", h.pub) /\ h.step = "recording"
      /\ UNCHANGED <<msg, published, epoch, up>>
      /\ rows' = [rows EXCEPT ![h.ev] = IF @ = 0 THEN 1 ELSE @]
  BY DEF Record
<1>2. "recorded" \in Steps /\ h.pub \in Pubs /\ h.ev \in Events
  BY HandlerFields DEF Steps
<1>3. (\A e \in Events : rows[e] > 0 => rows'[e] > 0) /\ rows'[h.ev] > 0
  BY <1>1, <1>2 DEF TypeOK, IndInv
<1>4. h.ev \notin Malformed
  BY <1>1 DEF IndInv, NackSafe
<1>5. UnackedFrame({})
  BY <1>1 DEF UnackedFrame
<1>6. Owns' /\ OwnsAlone' /\ Owned'
  BY <1>1, <1>2, <1>5, OwnershipBecome
<1>7. AckSafe' /\ NackSafe'
  BY <1>1, <1>2, <1>3, <1>4, PromisesBecome
<1>8. Preserved'
  BY <1>1, <1>2, <1>3, PreservedBecome
<1>9. BoundedRetries' /\ ReplayStartsFresh'
  BY <1>1 DEF IndInv, BoundedRetries, ReplayStartsFresh, failedAttempts
<1> QED BY <1>3, <1>6, <1>7, <1>8, <1>9 DEF IndInv

(* A handler goes on without touching the broker, and keeps these promises. *)
LEMMA QuietStep ==
  ASSUME IndInv, TypeOK', NEW h \in handlers, NEW s \in Steps, NEW p \in Pubs, Become(h, s, p),
         UNCHANGED <<msg, published, epoch, up, rows>>,
         p = "landed" => h.pub = "landed",
         s = "recorded" => rows[h.ev] > 0,
         s = "ack_sent" => p = "landed" \/ rows[h.ev] > 0,
         s \in {"recording", "recorded", "failed"} => h.ev \notin Malformed,
         s = "nack_sent" => msg[h.copy].rejected + 1 <= msg[h.copy].handed + Budget(h.ev)
  PROVE  IndInv'
<1>1. UnackedFrame({})
  BY DEF UnackedFrame
<1>2. Owns' /\ OwnsAlone' /\ Owned'
  BY <1>1, OwnershipBecome
<1>3. AckSafe' /\ NackSafe'
  BY PromisesBecome
<1>4. Preserved'
  BY PreservedBecome
<1> QED BY <1>2, <1>3, <1>4, BrokerUntouched DEF IndInv

(* A handler whose channel is closed ends: ack and nack throw.              *)
LEMMA StaleEnds ==
  ASSUME IndInv, TypeOK', NEW h \in handlers, Finish(h), ~Live(h),
         UNCHANGED <<msg, published, epoch, up, rows>>
  PROVE  IndInv'
<1>1. UnackedFrame({c \in Copies : Live(h) /\ c = h.copy})
  BY DEF UnackedFrame
<1>2. Owns' /\ OwnsAlone' /\ Owned'
  BY <1>1, OwnershipFinish
<1>3. AckSafe' /\ NackSafe'
  BY DEF IndInv, AckSafe, NackSafe, Finish, Live
<1>4. Preserved'
  BY PreservedFinish
<1> QED BY <1>2, <1>3, <1>4, BrokerUntouched DEF IndInv

(* RecordFails: record() rejected, nothing was acknowledged.                *)
LEMMA RecordFailsStep ==
  ASSUME IndInv, TypeOK', NEW h \in handlers, RecordFails(h) PROVE IndInv'
<1>1. "failed" \in Steps /\ h.pub \in Pubs
  BY HandlerFields DEF IndInv, Steps
<1>2. h.ev \notin Malformed
  BY DEF RecordFails, IndInv, NackSafe
<1> QED BY <1>1, <1>2, QuietStep DEF RecordFails

(* Acknowledge: the ack follows the insert.                                 *)
LEMMA AcknowledgeStep ==
  ASSUME IndInv, TypeOK', NEW h \in handlers, Acknowledge(h) PROVE IndInv'
<1>1. "ack_sent" \in Steps /\ h.pub \in Pubs
  BY HandlerFields DEF IndInv, Steps
<1>2. rows[h.ev] > 0
  BY ZenonT(60) DEF Acknowledge, IndInv, AckSafe
<1>3. CASE Live(h)
  BY <1>1, <1>2, <1>3, QuietStep DEF Acknowledge
<1>4. CASE ~Live(h)
  BY <1>4, StaleEnds DEF Acknowledge
<1> QED BY <1>3, <1>4

(* HandleFailure: it rejects only below MAX_ATTEMPTS.                       *)
LEMMA HandleFailureStep ==
  ASSUME IndInv, TypeOK', NEW h \in handlers, HandleFailure(h) PROVE IndInv'
<1>1. "deadlettering" \in Steps /\ "nack_sent" \in Steps /\ "sent" \in Pubs /\ h.pub \in Pubs
  BY HandlerFields DEF IndInv, Steps, Pubs
<1>2. h.ev \notin Malformed /\ h.copy \in Copies
  BY HandlerFields DEF HandleFailure, IndInv, NackSafe
<1>3. CASE ~Live(h) /\ Finish(h)
  BY <1>3, StaleEnds DEF HandleFailure
<1>4. CASE Live(h) /\ Become(h, "deadlettering", "sent")
  BY <1>1, <1>4, QuietStep DEF HandleFailure
<1>5. CASE Live(h) /\ failedAttempts(msg[h.copy]) + 1 < MaxAttempts /\ Become(h, "nack_sent", h.pub)
  <2>1. msg[h.copy].rejected + 1 <= msg[h.copy].handed + Budget(h.ev)
    BY <1>2, <1>5, MessageFields, ConstantsAssumption DEF IndInv, failedAttempts, Budget
  <2> QED BY <1>1, <1>5, <2>1, QuietStep, ZenonT(60) DEF HandleFailure
<1> QED BY <1>3, <1>4, <1>5 DEF HandleFailure

(* DlqRefuses: the original is still unacked.                               *)
LEMMA DlqRefusesStep ==
  ASSUME IndInv, TypeOK', NEW h \in handlers, DlqRefuses(h) PROVE IndInv'
<1>1. h.step \in Steps /\ "refused" \in Pubs
  BY HandlerFields DEF IndInv, Pubs
<1> QED BY <1>1, QuietStep DEF DlqRefuses

(* DeadLettered: the ack follows the confirmed DLQ copy.                    *)
LEMMA DeadLetteredStep ==
  ASSUME IndInv, TypeOK', NEW h \in handlers, DeadLettered(h) PROVE IndInv'
<1>1. "ack_sent" \in Steps /\ h.pub \in Pubs
  BY HandlerFields DEF IndInv, Steps
<1> QED BY <1>1, QuietStep DEF DeadLettered

(* DlqAccepts: the DLQ copy replaces the original before it is acked.       *)
LEMMA DlqAcceptsStep ==
  ASSUME IndInv, TypeOK', NEW h \in handlers, DlqAccepts(h) PROVE IndInv'
<1> TypeOK
  BY DEF IndInv
<1>1. /\ h.step \in Steps /\ "landed" \in Pubs /\ h.ev \in Events /\ h.copy \in Copies
  BY HandlerFields DEF Pubs
<1>2. PICK n \in Copies : n = NewSlot /\ msg[n].loc = "free"
  BY NewSlotFree DEF DlqAccepts
<1>3. /\ \A c \in Copies \ {n} : msg'[c] = msg[c]
      /\ msg'[n].loc = "dlq" /\ msg'[n].ev = h.ev
      /\ msg'[n].rejected = 0 /\ msg'[n].handed = 0
  BY <1>2 DEF DlqAccepts, TypeOK, Fresh
<1>4. PICK k \in Handler :
           /\ k.copy = h.copy /\ k.ev = h.ev /\ k.worker = h.worker /\ k.sess = h.sess
           /\ k.step = h.step /\ k.pub = "landed"
           /\ handlers' = (handlers \ {h}) \cup {k}
  BY <1>1, BecomeFacts DEF DlqAccepts
<1>5. UnackedFrame({})
  BY <1>2, <1>3 DEF UnackedFrame
<1>6. Owns' /\ OwnsAlone' /\ Owned'
  BY <1>1, <1>5, OwnershipBecome DEF DlqAccepts
<1>7. \A g \in handlers : Live(g) => g.copy # n
  BY <1>2 DEF IndInv, Owns
<1>8. Preserved'
  <2>1. ~Replaced(n)'
    BY <1>3, <1>4, <1>7 DEF Replaced, Live, DlqAccepts
  <2>2. \A c \in Copies \ {n, h.copy} : Replaced(c)' => Replaced(c)
    BY <1>3, <1>4, ZenonT(60) DEF Replaced, Live, DlqAccepts
  <2>3. msg[h.copy].ev = h.ev
    BY DEF DlqAccepts, IndInv, Owns
  <2>4. ASSUME NEW e \in published PROVE rows[e] > 0 \/ \E c \in Copies : (Held(c) /\ msg[c].ev = e /\ ~Replaced(c))'
    <3>1. CASE e = h.ev
      BY <1>2, <1>3, <2>1, <3>1, ZenonT(60) DEF Held
    <3>2. CASE e # h.ev
      BY <1>2, <1>3, <2>2, <2>3, <3>2, ZenonT(60) DEF Held, IndInv, Preserved
    <3> QED BY <3>1, <3>2
  <2> QED BY <2>4, ZenonT(60) DEF Preserved, DlqAccepts
<1>9. AckSafe'
  BY <1>4, ZenonT(60) DEF IndInv, AckSafe, DlqAccepts
<1>10. NackSafe'
  <2>1. \A g \in handlers : Live(g) => msg'[g.copy] = msg[g.copy]
    BY <1>3, <1>7, HandlerFields, ZenonT(60)
  <2>2. UNCHANGED <<epoch, up>> /\ Live(h)
    BY ZenonT(60) DEF DlqAccepts
  <2>3. \A g \in handlers : Live(g)' <=> Live(g)
    BY <2>2, ZenonT(60) DEF Live
  <2>4. Live(k)' <=> Live(h)
    BY <1>4, <2>2, ZenonT(60) DEF Live
  <2> QED BY <1>4, <2>1, <2>3, <2>4, ZenonT(60) DEF IndInv, NackSafe
<1>11. BoundedRetries' /\ ReplayStartsFresh'
  BY <1>1, <1>2, <1>3, BudgetNat
     DEF IndInv, BoundedRetries, ReplayStartsFresh, failedAttempts, DlqAccepts
<1> QED BY <1>6, <1>8, <1>9, <1>10, <1>11 DEF IndInv

(* DeadLetterFails: the reject is accounted to the failed dead-lettering.   *)
LEMMA DeadLetterFailsStep ==
  ASSUME IndInv, TypeOK', NEW h \in handlers, DeadLetterFails(h) PROVE IndInv'
<1> TypeOK
  BY DEF IndInv
<1>1. CASE ~Live(h)
  BY <1>1, StaleEnds DEF DeadLetterFails
<1>2. CASE Live(h)
  <2>1. /\ "nack_sent" \in Steps /\ h.pub \in Pubs /\ h.copy \in Copies
    BY HandlerFields DEF Steps
  <2>2. /\ Become(h, "nack_sent", h.pub) /\ UNCHANGED <<published, epoch, up, rows>>
        /\ msg' = [msg EXCEPT ![h.copy].handed = @ + 1]
    BY <1>2 DEF DeadLetterFails
  <2>3. /\ \A c \in Copies \ {h.copy} : msg'[c] = msg[c]
        /\ msg'[h.copy] = [msg[h.copy] EXCEPT !.handed = @ + 1]
    BY <2>1, <2>2 DEF TypeOK
  <2>4. /\ msg'[h.copy].loc = msg[h.copy].loc /\ msg'[h.copy].ev = msg[h.copy].ev
        /\ msg'[h.copy].rejected = msg[h.copy].rejected
        /\ msg'[h.copy].handed = msg[h.copy].handed + 1
    BY <2>1, <2>3 DEF TypeOK, Message
  <2>5. PICK k \in Handler :
           /\ k.copy = h.copy /\ k.ev = h.ev /\ k.worker = h.worker /\ k.sess = h.sess
           /\ k.step = "nack_sent" /\ k.pub = h.pub
           /\ handlers' = (handlers \ {h}) \cup {k}
    BY <2>1, <2>2, BecomeFacts
  <2>6. UnackedFrame({})
    BY <2>3, <2>4, ZenonT(60) DEF UnackedFrame
  <2>7. Owns' /\ OwnsAlone' /\ Owned'
    BY <2>1, <2>2, <2>6, OwnershipBecome
  <2>8. Preserved'
    BY <2>1, <2>2, <2>3, <2>4, PreservedBecome
  <2>9. AckSafe'
    BY <2>2, <2>5 DEF IndInv, AckSafe
  <2>10. BoundedRetries'
    <3>1. ASSUME NEW c \in Copies PROVE msg'[c].rejected <= msg'[c].handed + Budget(msg'[c].ev)
      <4>1. msg[c].rejected <= msg[c].handed + Budget(msg[c].ev)
        BY DEF IndInv, BoundedRetries
      <4>2. msg[c].rejected \in Nat /\ msg[c].handed \in Nat /\ Budget(msg[c].ev) \in Nat
        BY MessageFields, BudgetNat
      <4>3. msg[c].rejected <= msg[c].handed + 1 + Budget(msg[c].ev)
        BY <4>1, <4>2
      <4> QED BY <2>3, <2>4, <4>1, <4>3, ZenonT(60)
    <3> QED BY <3>1 DEF BoundedRetries
  <2>11. NackSafe'
    <3>1. msg[h.copy].ev = h.ev
      BY <1>2 DEF IndInv, Owns
    <3>2. msg'[h.copy].rejected + 1 <= msg'[h.copy].handed + Budget(h.ev)
      BY <2>1, <2>4, <3>1, MessageFields, BudgetNat DEF IndInv, BoundedRetries
    <3>3. \A g \in handlers \ {h} : Live(g) => g.copy # h.copy
      BY <1>2 DEF IndInv, OwnsAlone
    <3>4. \A g \in handlers : g.copy \in Copies
      BY HandlerFields
    <3> QED BY <2>2, <2>3, <2>5, <3>2, <3>3, <3>4, ZenonT(60) DEF IndInv, NackSafe, Live
  <2>12. ReplayStartsFresh'
    BY <2>2, <2>3, <2>4 DEF IndInv, ReplayStartsFresh, failedAttempts
  <2> QED BY <2>7, <2>8, <2>9, <2>10, <2>11, <2>12 DEF IndInv
<1> QED BY <1>1, <1>2

-----------------------------------------------------------------------------
(* BrokerAck: an acked message is recorded or has its DLQ copy.             *)
LEMMA BrokerAckStep ==
  ASSUME IndInv, TypeOK', NEW h \in handlers, BrokerAck(h) PROVE IndInv'
<1> TypeOK
  BY DEF IndInv
<1>1. h.copy \in Copies /\ msg[h.copy].loc = "unacked" /\ msg[h.copy].ev = h.ev
  BY HandlerFields DEF BrokerAck, IndInv, Owns
<1>2. /\ \A c \in Copies \ {h.copy} : msg'[c] = msg[c]
      /\ msg'[h.copy].loc = "free" /\ msg'[h.copy].ev \in Events
      /\ msg'[h.copy].rejected = 0 /\ msg'[h.copy].handed = 0
  BY <1>1, FreshMessage, ZenonT(60) DEF BrokerAck, TypeOK
<1>3. UnackedFrame({c \in Copies : Live(h) /\ c = h.copy})
  BY <1>1, <1>2 DEF UnackedFrame, BrokerAck
<1>4. Owns' /\ OwnsAlone' /\ Owned'
  BY <1>3, OwnershipFinish DEF BrokerAck
<1>5. \A g \in handlers' : Live(g) => g.copy # h.copy
  BY DEF BrokerAck, Finish, IndInv, OwnsAlone
<1>6. Preserved'
  <2>1. \A c \in Copies \ {h.copy} : Replaced(c)' => Replaced(c)
    BY <1>2 DEF Replaced, Live, BrokerAck, Finish
  <2>2. rows[h.ev] > 0 \/ Replaced(h.copy)
    BY DEF BrokerAck, IndInv, AckSafe, Replaced
  <2>3. \A e \in published : rows[e] > 0 \/ \E c \in Copies \ {h.copy} : Held(c) /\ msg[c].ev = e /\ ~Replaced(c)
    BY <1>1, <2>2 DEF IndInv, Preserved
  <2> QED BY <1>2, <2>1, <2>3 DEF Preserved, Held, BrokerAck
<1>7. AckSafe'
  BY ZenonT(60) DEF IndInv, AckSafe, BrokerAck, Finish
<1>8. NackSafe'
  <2>1. \A g \in handlers : g.copy \in Copies
    BY HandlerFields, ZenonT(60)
  <2> QED BY <1>2, <1>5, <2>1 DEF IndInv, NackSafe, BrokerAck, Finish, Live
<1>9. BoundedRetries' /\ ReplayStartsFresh'
  BY <1>1, <1>2, MessageFields, BudgetNat
     DEF IndInv, BoundedRetries, ReplayStartsFresh, failedAttempts, BrokerAck
<1> QED BY <1>4, <1>6, <1>7, <1>8, <1>9, ZenonT(60) DEF IndInv

(* BrokerNack: the rejected message keeps its event and its count.          *)
LEMMA BrokerNackStep ==
  ASSUME IndInv, TypeOK', NEW h \in handlers, BrokerNack(h) PROVE IndInv'
<1> TypeOK
  BY DEF IndInv
<1>1. h.copy \in Copies /\ msg[h.copy].loc = "unacked" /\ msg[h.copy].ev = h.ev
  BY HandlerFields DEF BrokerNack, IndInv, Owns
<1>2. /\ \A c \in Copies \ {h.copy} : msg'[c] = msg[c]
      /\ msg'[h.copy].loc = "retry" /\ msg'[h.copy].ev = msg[h.copy].ev
      /\ msg'[h.copy].rejected = msg[h.copy].rejected + 1
      /\ msg'[h.copy].handed = msg[h.copy].handed
  BY <1>1 DEF BrokerNack, TypeOK, Message
<1>3. UnackedFrame({c \in Copies : Live(h) /\ c = h.copy})
  BY <1>1, <1>2, ZenonT(60) DEF UnackedFrame, BrokerNack
<1>4. Owns' /\ OwnsAlone' /\ Owned'
  BY <1>3, OwnershipFinish DEF BrokerNack
<1>5. \A g \in handlers' : Live(g) => g.copy # h.copy
  BY DEF BrokerNack, Finish, IndInv, OwnsAlone
<1>6. Preserved'
  <2>1. \A c \in Copies : Replaced(c)' => Replaced(c)
    BY <1>2, ZenonT(60) DEF Replaced, Live, BrokerNack, Finish
  <2>2. \A c \in Copies : Held(c) => Held(c)' /\ msg'[c].ev = msg[c].ev
    BY <1>2 DEF Held
  <2> QED BY <2>1, <2>2, ZenonT(60) DEF IndInv, Preserved, BrokerNack
<1>7. AckSafe'
  BY DEF IndInv, AckSafe, BrokerNack, Finish
<1>8. NackSafe'
  <2>1. \A g \in handlers : g.copy \in Copies
    BY HandlerFields
  <2> QED BY <1>2, <1>5, <2>1, ZenonT(60) DEF IndInv, NackSafe, BrokerNack, Finish, Live
<1>9. BoundedRetries'
  BY <1>1, <1>2, ZenonT(60) DEF IndInv, BoundedRetries, NackSafe, BrokerNack
<1>10. ReplayStartsFresh'
  BY <1>2, ZenonT(60) DEF IndInv, ReplayStartsFresh, failedAttempts, BrokerNack
<1> QED BY <1>4, <1>6, <1>7, <1>8, <1>9, <1>10 DEF IndInv

(* A step of the broker that leaves handlers and unacked messages alone.     *)
LEMMA BrokerMove ==
  ASSUME IndInv, TypeOK', UNCHANGED <<handlers, epoch, up, rows>>,
         \A c \in Copies : msg[c].loc = "unacked" => msg'[c] = msg[c],
         \A c \in Copies : msg'[c].loc = "unacked" => msg[c].loc = "unacked",
         Preserved', BoundedRetries', ReplayStartsFresh'
  PROVE  IndInv'
<1>1. \A h \in handlers : h.copy \in Copies
  BY HandlerFields DEF IndInv
<1>2. Owns' /\ OwnsAlone' /\ Owned'
  BY <1>1 DEF IndInv, Owns, OwnsAlone, Owned, Live
<1>3. AckSafe'
  BY DEF IndInv, AckSafe
<1>4. NackSafe'
  BY <1>1 DEF IndInv, NackSafe, Owns, Live
<1> QED BY <1>2, <1>3, <1>4 DEF IndInv

(* Publish: the new message is unreplaced and has its whole budget.          *)
LEMMA PublishStep ==
  ASSUME IndInv, TypeOK', NEW e \in Events, Publish(e) PROVE IndInv'
<1> TypeOK
  BY DEF IndInv
<1>1. PICK n \in Copies : n = NewSlot /\ msg[n].loc = "free"
  BY NewSlotFree DEF Publish
<1>2. /\ \A c \in Copies \ {n} : msg'[c] = msg[c]
      /\ msg'[n].loc = "main" /\ msg'[n].ev = e /\ msg'[n].rejected = 0 /\ msg'[n].handed = 0
  BY <1>1 DEF Publish, TypeOK, Fresh
<1>3. \A h \in handlers : Live(h) => h.copy # n
  BY <1>1 DEF IndInv, Owns
<1>4. ~Replaced(n)'
  BY <1>2, <1>3 DEF Replaced, Live, Publish
<1>5. \A c \in Copies \ {n} : Replaced(c)' => Replaced(c)
  BY <1>2 DEF Replaced, Live, Publish
<1>6. Preserved'
  BY <1>1, <1>2, <1>4, <1>5 DEF IndInv, Preserved, Held, Publish
<1>7. BoundedRetries' /\ ReplayStartsFresh'
  BY <1>2, BudgetNat DEF IndInv, BoundedRetries, ReplayStartsFresh, failedAttempts
<1> QED BY <1>1, <1>2, <1>6, <1>7, BrokerMove DEF Publish

(* RetryExpires: the message moves, its rejections stay counted.             *)
LEMMA RetryExpiresStep ==
  ASSUME IndInv, TypeOK', NEW c \in Copies, RetryExpires(c) PROVE IndInv'
<1> TypeOK
  BY DEF IndInv
<1>1. /\ \A d \in Copies \ {c} : msg'[d] = msg[d]
      /\ msg[c].loc = "retry" /\ msg'[c].loc = "main" /\ msg'[c].ev = msg[c].ev
      /\ msg'[c].rejected = msg[c].rejected /\ msg'[c].handed = msg[c].handed
  BY DEF RetryExpires, TypeOK, Message
<1>2. \A d \in Copies : Replaced(d)' => Replaced(d)
  BY <1>1, ZenonT(60) DEF Replaced, Live, RetryExpires
<1>3. \A d \in Copies : Held(d) => Held(d)' /\ msg'[d].ev = msg[d].ev
  BY <1>1 DEF Held
<1>4. Preserved'
  BY <1>2, <1>3, ZenonT(60) DEF IndInv, Preserved, RetryExpires
<1>5. BoundedRetries' /\ ReplayStartsFresh'
  BY <1>1 DEF IndInv, BoundedRetries, ReplayStartsFresh, failedAttempts
<1> QED BY <1>1, <1>4, <1>5, BrokerMove, ZenonT(60) DEF RetryExpires

(* ShovelPublish: what leaves the DLQ is in the main queue first.            *)
LEMMA ShovelPublishStep ==
  ASSUME IndInv, TypeOK', NEW c \in Copies, ShovelPublish(c) PROVE IndInv'
<1> TypeOK
  BY DEF IndInv
<1>1. PICK n \in Copies : n = NewSlot /\ msg[n].loc = "free"
  BY NewSlotFree DEF ShovelPublish
<1>2. n # c /\ msg[c].loc = "dlq"
  BY <1>1 DEF ShovelPublish
<1>3. /\ \A d \in Copies \ {n, c} : msg'[d] = msg[d]
      /\ msg'[n] = [msg[c] EXCEPT !.loc = "main"]
      /\ msg'[c] = [msg[c] EXCEPT !.loc = "moving"]
  BY <1>1, <1>2 DEF ShovelPublish, TypeOK
<1>4. /\ msg'[n].loc = "main" /\ msg'[n].ev = msg[c].ev
      /\ msg'[n].rejected = msg[c].rejected /\ msg'[n].handed = msg[c].handed
      /\ msg'[c].loc = "moving" /\ msg'[c].ev = msg[c].ev
      /\ msg'[c].rejected = msg[c].rejected /\ msg'[c].handed = msg[c].handed
  BY <1>3 DEF TypeOK, Message
<1>5. \A h \in handlers : Live(h) => h.copy # n
  BY <1>1 DEF IndInv, Owns
<1>6. ~Replaced(n)'
  BY <1>4, <1>5 DEF Replaced, Live, ShovelPublish
<1>7. \A d \in Copies \ {n, c} : Replaced(d)' => Replaced(d)
  BY <1>3 DEF Replaced, Live, ShovelPublish
<1>8. Preserved'
  <2>1. ASSUME NEW e \in published, ~(rows[e] > 0)
        PROVE  \E d \in Copies : (Held(d) /\ msg[d].ev = e /\ ~Replaced(d))'
    <3>1. PICK d \in Copies : Held(d) /\ msg[d].ev = e /\ ~Replaced(d)
      BY <2>1 DEF IndInv, Preserved
    <3>2. CASE d = c
      BY <3>1, <3>2, <1>4, <1>6 DEF Held
    <3>3. CASE d # c
      BY <3>1, <3>3, <1>1, <1>3, <1>7 DEF Held
    <3> QED BY <3>2, <3>3
  <2> QED BY <2>1, ZenonT(60) DEF Preserved, ShovelPublish
<1>9. BoundedRetries' /\ ReplayStartsFresh'
  BY <1>2, <1>3, <1>4, ZenonT(60) DEF IndInv, BoundedRetries, ReplayStartsFresh, failedAttempts
<1> QED BY <1>1, <1>2, <1>3, <1>4, <1>8, <1>9, BrokerMove, ZenonT(60) DEF ShovelPublish

(* ShovelAck: what is removed from the DLQ has a replacement.                *)
LEMMA ShovelAckStep ==
  ASSUME IndInv, TypeOK', NEW c \in Copies, ShovelAck(c) PROVE IndInv'
<1> TypeOK
  BY DEF IndInv
<1>1. /\ \A d \in Copies \ {c} : msg'[d] = msg[d]
      /\ msg[c].loc = "moving" /\ msg'[c].loc = "free" /\ msg'[c].ev \in Events
      /\ msg'[c].rejected = 0 /\ msg'[c].handed = 0
  BY FreshMessage DEF ShovelAck, TypeOK
<1>2. \A d \in Copies \ {c} : Replaced(d)' => Replaced(d)
  BY <1>1 DEF Replaced, Live, ShovelAck
<1>3. Replaced(c)
  BY <1>1 DEF Replaced
<1>4. Preserved'
  BY <1>1, <1>2, <1>3 DEF IndInv, Preserved, Held, ShovelAck
<1>5. BoundedRetries' /\ ReplayStartsFresh'
  BY <1>1, BudgetNat DEF IndInv, BoundedRetries, ReplayStartsFresh, failedAttempts
<1> QED BY <1>1, <1>4, <1>5, BrokerMove DEF ShovelAck

(* ShovelFails: what the shovel held is in the DLQ again.                    *)
LEMMA ShovelFailsStep ==
  ASSUME IndInv, TypeOK', ShovelFails PROVE IndInv'
<1> TypeOK
  BY DEF IndInv
<1>1. \A c \in Copies :
        /\ msg[c].loc # "moving" => msg'[c] = msg[c]
        /\ msg[c].loc = "moving" => msg'[c].loc = "dlq"
        /\ msg'[c].ev = msg[c].ev /\ msg'[c].rejected = msg[c].rejected
        /\ msg'[c].handed = msg[c].handed
  BY DEF ShovelFails, TypeOK, Message
<1>2. \A c \in Copies : Replaced(c)' => Replaced(c)
  BY <1>1 DEF Replaced, Live, ShovelFails
<1>3. \A c \in Copies : Held(c) => Held(c)'
  BY <1>1 DEF Held
<1>4. Preserved'
  BY <1>1, <1>2, <1>3 DEF IndInv, Preserved, ShovelFails
<1>5. BoundedRetries' /\ ReplayStartsFresh'
  BY <1>1 DEF IndInv, BoundedRetries, ReplayStartsFresh, failedAttempts
<1> QED BY <1>1, <1>4, <1>5, BrokerMove DEF ShovelFails

(* Starting a replay, and stuttering, move nothing.                          *)
LEMMA NothingMoves ==
  ASSUME IndInv, TypeOK', UNCHANGED <<msg, published, epoch, up, handlers, rows>> PROVE IndInv'
<1>1. Preserved'
  BY DEF IndInv, Preserved, Held, Replaced, Live
<1> QED BY <1>1, BrokerUntouched, BrokerMove

(* Deliver: the new handler is the only one to own the message.              *)
LEMMA DeliverStep ==
  ASSUME IndInv, TypeOK', NEW w \in Workers, NEW c \in Copies, Deliver(w, c) PROVE IndInv'
<1> TypeOK
  BY DEF IndInv
<1>1. /\ \A d \in Copies \ {c} : msg'[d] = msg[d]
      /\ msg[c].loc = "main" /\ msg'[c].loc = "unacked" /\ msg'[c].ev = msg[c].ev
      /\ msg'[c].rejected = msg[c].rejected /\ msg'[c].handed = msg[c].handed
  BY ZenonT(60) DEF Deliver, TypeOK, Message
<1>2. PICK k \in Handler :
        /\ k.copy = c /\ k.ev = msg[c].ev /\ k.worker = w /\ k.sess = epoch[w]
        /\ k.step = (IF k.ev \in Malformed THEN "deadlettering" ELSE "recording")
        /\ k.pub \in {"sent", "none"}
        /\ handlers' = handlers \cup {k}
  <2> DEFINE bad == msg[c].ev \in Malformed
             k == [copy |-> c, ev |-> msg[c].ev, worker |-> w, sess |-> epoch[w],
                   step |-> IF bad THEN "deadlettering" ELSE "recording",
                   pub  |-> IF bad THEN "sent" ELSE "none"]
  <2>1. k \in Handler
    BY MessageFields DEF Handler, Steps, Pubs, TypeOK
  <2>2. handlers' = handlers \cup {k}
    BY ZenonT(60) DEF Deliver, parseOrderCreated
  <2> WITNESS k \in Handler
  <2> QED BY <2>2
<1>3. \A g \in handlers : g.copy \in Copies /\ (Live(g) => g.copy # c)
  BY <1>1, HandlerFields DEF IndInv, Owns
<1>4. up[w] /\ UNCHANGED <<published, epoch, up, rows>> /\ epoch[w] \in Nat
  BY ZenonT(60) DEF Deliver, TypeOK
<1>5. Owns'
  BY <1>1, <1>2, <1>3, <1>4 DEF IndInv, Owns, Live
<1>6. OwnsAlone'
  <2>1. \A g \in handlers : Live(g)' <=> Live(g)
    BY <1>4 DEF Live
  <2>2. \A g, h \in handlers : Live(g) /\ Live(h) /\ g.copy = h.copy => g = h
    BY ZenonT(60) DEF IndInv, OwnsAlone
  <2> QED BY <1>2, <1>3, <2>1, <2>2, ZenonT(60) DEF OwnsAlone
<1>7. Owned'
  BY <1>1, <1>2, <1>4 DEF IndInv, Owned, Live
<1>8. Preserved'
  <2>1. \A d \in Copies : Replaced(d)' => Replaced(d)
    BY <1>1, <1>2, <1>4, ZenonT(60) DEF Replaced, Live
  <2>2. \A d \in Copies : Held(d) => Held(d)' /\ msg'[d].ev = msg[d].ev
    BY <1>1, ZenonT(60) DEF Held
  <2> SUFFICES ASSUME NEW e \in published, ~(rows[e] > 0)
               PROVE  \E d \in Copies : Held(d)' /\ msg'[d].ev = e /\ ~Replaced(d)'
    BY <1>4, ZenonT(60) DEF Preserved
  <2>3. PICK d \in Copies : Held(d) /\ msg[d].ev = e /\ ~Replaced(d)
    BY DEF IndInv, Preserved
  <2> QED BY <2>1, <2>2, <2>3, ZenonT(60)
<1>9. AckSafe'
  BY <1>2, <1>4, ZenonT(60) DEF IndInv, AckSafe
<1>10. NackSafe'
  BY <1>1, <1>2, <1>3, <1>4, ZenonT(60) DEF IndInv, NackSafe, Live
<1>11. BoundedRetries' /\ ReplayStartsFresh'
  BY <1>1, <1>4 DEF IndInv, BoundedRetries, ReplayStartsFresh, failedAttempts
<1> QED BY <1>5, <1>6, <1>7, <1>8, <1>9, <1>10, <1>11 DEF IndInv

(* OpenSession: a new session has a new number, so no old handler of the     *)
(* worker gets its channel back.                                             *)
LEMMA OpenSessionStep ==
  ASSUME IndInv, TypeOK', NEW w \in Workers, OpenSession(w) PROVE IndInv'
<1> TypeOK
  BY DEF IndInv
<1>1. \A h \in handlers : Live(h)' <=> Live(h)
  <2> SUFFICES ASSUME NEW h \in handlers PROVE Live(h)' <=> Live(h)
    OBVIOUS
  <2>1. h.worker \in Workers /\ h.sess \in Nat /\ h.sess <= epoch[h.worker]
    BY HandlerFields DEF IndInv, Owns
  <2>2. CASE h.worker = w
    BY <2>1, <2>2 DEF OpenSession, Live, TypeOK
  <2>3. CASE h.worker # w
    BY <2>1, <2>3, ZenonT(60) DEF OpenSession, Live, TypeOK
  <2> QED BY <2>2, <2>3
<1>2. \A h \in handlers : h.sess <= epoch'[h.worker]
  BY HandlerFields DEF OpenSession, TypeOK, IndInv, Owns
<1>3. UNCHANGED <<msg, published, handlers, rows>>
  BY ZenonT(60) DEF OpenSession
<1>4. Owns' /\ OwnsAlone' /\ Owned'
  BY <1>1, <1>2, <1>3, ZenonT(60) DEF IndInv, Owns, OwnsAlone, Owned
<1>5. AckSafe' /\ NackSafe'
  BY <1>1, <1>3 DEF IndInv, AckSafe, NackSafe
<1>6. Preserved'
  BY <1>1, <1>3 DEF IndInv, Preserved, Replaced, Held
<1> QED BY <1>3, <1>4, <1>5, <1>6, BrokerUntouched DEF IndInv

(* CloseSession and Crash: the messages of the session go back to the main   *)
(* queue with the channels of their handlers.                                *)
LEMMA SessionEnds ==
  ASSUME IndInv, TypeOK', NEW w \in Workers, CloseSession(w) \/ Crash(w) PROVE IndInv'
<1> TypeOK
  BY DEF IndInv
<1>1. /\ Requeue(w) /\ up' = [up EXCEPT ![w] = FALSE]
      /\ UNCHANGED <<published, epoch, rows>>
      /\ handlers' \subseteq handlers
      /\ \A h \in handlers : h.worker # w => h \in handlers'
  BY DEF CloseSession, Crash, LiveOf
<1>2. \A h \in handlers : Live(h)' <=> Live(h) /\ h.worker # w
  BY <1>1, HandlerFields, ZenonT(60) DEF Live, TypeOK
<1>3. \A c \in Copies :
        /\ (\E h \in handlers : h.worker = w /\ Live(h) /\ h.copy = c) =>
             msg[c].loc = "unacked" /\ msg'[c].loc = "main"
        /\ ~(\E h \in handlers : h.worker = w /\ Live(h) /\ h.copy = c) => msg'[c] = msg[c]
        /\ msg'[c].ev = msg[c].ev /\ msg'[c].rejected = msg[c].rejected
        /\ msg'[c].handed = msg[c].handed
  <2>1. \A c \in Copies : msg'[c] = IF \E h \in LiveOf(w) : h.copy = c
                                    THEN [msg[c] EXCEPT !.loc = "main"] ELSE msg[c]
    BY <1>1 DEF Requeue
  <2>2. \A c \in Copies : msg[c] \in Message
    BY DEF TypeOK
  <2>3. \A h \in handlers : Live(h) => msg[h.copy].loc = "unacked"
    BY DEF IndInv, Owns
  <2>4. ASSUME NEW c \in Copies, NEW h \in handlers, h.worker = w, Live(h), h.copy = c
        PROVE  /\ msg[c].loc = "unacked" /\ msg'[c].loc = "main" /\ msg'[c].ev = msg[c].ev
               /\ msg'[c].rejected = msg[c].rejected /\ msg'[c].handed = msg[c].handed
    <3>1. msg'[c] = [msg[c] EXCEPT !.loc = "main"]
      BY <2>1, <2>4 DEF LiveOf
    <3> QED BY <2>2, <2>3, <2>4, <3>1 DEF Message
  <2>5. ASSUME NEW c \in Copies, ~(\E h \in handlers : h.worker = w /\ Live(h) /\ h.copy = c)
        PROVE  msg'[c] = msg[c]
    BY <2>1, <2>5, ZenonT(60) DEF LiveOf
  <2> QED BY <2>4, <2>5
<1>4. \A h \in handlers : h.copy \in Copies
  BY HandlerFields
<1>5. \A h \in handlers : Live(h) /\ h.worker # w => msg'[h.copy] = msg[h.copy]
  BY <1>3, <1>4 DEF IndInv, OwnsAlone
<1>6. Owns'
  BY <1>1, <1>2, <1>5 DEF IndInv, Owns
<1>7. OwnsAlone'
  BY <1>1, <1>2, ZenonT(60) DEF IndInv, OwnsAlone
<1>8. Owned'
  <2>1. ASSUME NEW c \in Copies, msg'[c].loc = "unacked"
        PROVE  \E h \in handlers' : Live(h)' /\ h.copy = c
    <3>1. msg[c].loc = "unacked" /\ ~(\E h \in handlers : h.worker = w /\ Live(h) /\ h.copy = c)
      BY <1>3, <2>1, ZenonT(60)
    <3>2. PICK h \in handlers : Live(h) /\ h.copy = c
      BY <3>1, ZenonT(60) DEF IndInv, Owned
    <3> QED BY <1>1, <1>2, <3>1, <3>2, ZenonT(60)
  <2> QED BY <2>1 DEF Owned
<1>9. Preserved'
  <2>1. \A c \in Copies : Replaced(c)' => Replaced(c)
    BY <1>1, <1>2, <1>3, ZenonT(60) DEF Replaced
  <2>2. \A c \in Copies : Held(c) => Held(c)' /\ msg'[c].ev = msg[c].ev
    BY <1>3 DEF Held
  <2> QED BY <1>1, <2>1, <2>2, ZenonT(60) DEF IndInv, Preserved
<1>10. AckSafe'
  BY <1>1, ZenonT(60) DEF IndInv, AckSafe
<1>11. NackSafe'
  BY <1>1, <1>2, <1>5, ZenonT(60) DEF IndInv, NackSafe
<1>12. BoundedRetries'
  BY <1>1, <1>3, ZenonT(60) DEF IndInv, BoundedRetries
<1>13. ReplayStartsFresh'
  BY <1>3 DEF IndInv, ReplayStartsFresh, failedAttempts
<1> QED BY <1>6, <1>7, <1>8, <1>9, <1>10, <1>11, <1>12, <1>13 DEF IndInv

-----------------------------------------------------------------------------
(* The variables keep their types.                                          *)
THEOREM TypeCorrect == Spec => []TypeOK
<1>1. Init => TypeOK
  BY FreshMessage, ConstantsAssumption DEF Init, TypeOK
<1> QED BY <1>1, TypeStep, PTL DEF Spec

(* The invariant holds initially: nothing is published, nobody is running.   *)
LEMMA InitInv == Init => IndInv
<1> SUFFICES ASSUME Init PROVE IndInv
  OBVIOUS
<1>1. TypeOK
  BY FreshMessage, ConstantsAssumption DEF Init, TypeOK
<1>2. \A c \in Copies : /\ msg[c].loc = "free" /\ msg[c].rejected = 0 /\ msg[c].handed = 0
                        /\ msg[c].ev \in Events
  BY FreshMessage, ZenonT(60) DEF Init
<1>3. Preserved /\ Owns /\ OwnsAlone /\ AckSafe /\ NackSafe
  BY DEF Init, Preserved, Owns, OwnsAlone, AckSafe, NackSafe
<1>4. Owned /\ ReplayStartsFresh
  BY <1>2 DEF Owned, ReplayStartsFresh
<1>5. BoundedRetries
  BY <1>2, BudgetNat DEF BoundedRetries
<1> QED BY <1>1, <1>3, <1>4, <1>5 DEF IndInv

(* Every step keeps the invariant.                                           *)
LEMMA NextInv == IndInv /\ [Next]_vars => IndInv'
<1> SUFFICES ASSUME IndInv, [Next]_vars PROVE IndInv'
  OBVIOUS
<1>0. TypeOK'
  BY TypeStep DEF IndInv
<1>1. ASSUME NEW h \in handlers, HandlerStep(h) PROVE IndInv'
  BY <1>0, <1>1, RecordStep, RecordFailsStep, AcknowledgeStep, HandleFailureStep, DlqAcceptsStep,
     DlqRefusesStep, DeadLetteredStep, DeadLetterFailsStep, BrokerAckStep, BrokerNackStep, ZenonT(60)
     DEF HandlerStep
<1>2. ASSUME NEW w \in Workers, NEW c \in Copies, Deliver(w, c) PROVE IndInv'
  BY <1>0, <1>2, DeliverStep
<1>3. ASSUME NEW w \in Workers, OpenSession(w) \/ CloseSession(w) \/ Crash(w) PROVE IndInv'
  BY <1>0, <1>3, OpenSessionStep, SessionEnds
<1>4. ASSUME NEW c \in Copies, RetryExpires(c) \/ ShovelPublish(c) \/ ShovelAck(c) PROVE IndInv'
  BY <1>0, <1>4, RetryExpiresStep, ShovelPublishStep, ShovelAckStep
<1>5. ASSUME NEW e \in Events, Publish(e) PROVE IndInv'
  BY <1>0, <1>5, PublishStep
<1>6. CASE ShovelFails
  BY <1>0, <1>6, ShovelFailsStep, ZenonT(60)
<1>7. CASE StartReplay \/ UNCHANGED vars
  BY <1>0, <1>7, NothingMoves DEF StartReplay, vars
<1> QED BY <1>1, <1>2, <1>3, <1>4, <1>5, <1>6, <1>7 DEF Next, Progress

(* The inductive invariant holds in every reachable state.                   *)
THEOREM Inductive == Spec => []IndInv
BY InitInv, NextInv, PTL DEF Spec

(* An acknowledged, dead-lettered or replayed event is never lost: neither a *)
(* crash, a closed channel nor a late DLQ confirm of deadLetter drops it.    *)
THEOREM NoLoss == Spec => []NoEventLost
<1>1. IndInv => NoEventLost
  BY DEF IndInv, Preserved, NoEventLost
<1> QED BY <1>1, Inductive, PTL

(* handleFailure rejects a message at most MAX_ATTEMPTS - 1 times, plus once *)
(* per failed dead-lettering.                                                *)
THEOREM RetriesBounded == Spec => []BoundedRetries
<1>1. IndInv => BoundedRetries
  BY DEF IndInv
<1> QED BY <1>1, Inductive, PTL

(* deadLetter publishes without the x-death header, so a replayed message    *)
(* has its full retry budget.                                                *)
THEOREM ReplaysFresh == Spec => []ReplayStartsFresh
<1>1. IndInv => ReplayStartsFresh
  BY DEF IndInv
<1> QED BY <1>1, Inductive, PTL

(* Every unacked message has exactly one handler that can settle it.         *)
THEOREM OneHandler == Spec => []UnackedHasOneHandler
<1>1. ASSUME IndInv, NEW c \in Copies
      PROVE  Cardinality({h \in handlers : h.copy = c /\ Live(h)})
               = (IF msg[c].loc = "unacked" THEN 1 ELSE 0)
  <2> DEFINE S == {h \in handlers : h.copy = c /\ Live(h)}
  <2>1. CASE msg[c].loc = "unacked"
    <3>1. PICK h \in handlers : Live(h) /\ h.copy = c
      BY <1>1, <2>1 DEF IndInv, Owned
    <3>2. S = {h}
      BY <1>1, <3>1 DEF IndInv, OwnsAlone
    <3>3. Cardinality(S) = 1
      BY <3>2, FS_Singleton, ZenonT(60)
    <3> QED BY <2>1, <3>3
  <2>2. CASE msg[c].loc # "unacked"
    <3>1. S = {}
      BY <1>1, <2>2 DEF IndInv, Owns
    <3>2. Cardinality(S) = 0
      BY <3>1, FS_EmptySet
    <3> QED BY <2>2, <3>2
  <2> QED BY <2>1, <2>2
<1>2. IndInv => UnackedHasOneHandler
  BY <1>1, ZenonT(60) DEF UnackedHasOneHandler
<1> QED BY <1>2, Inductive, PTL

-----------------------------------------------------------------------------
\* What is in a queue or being handled has been published.
Genuine ==
  /\ \A c \in Copies : Held(c) => msg[c].ev \in published
  /\ \A h \in handlers : h.ev \in published

(* No step invents an event.                                                 *)
LEMMA GenuineStep == IndInv /\ Genuine /\ [Next]_vars => Genuine'
<1> SUFFICES ASSUME IndInv, Genuine, [Next]_vars PROVE Genuine'
  OBVIOUS
<1> TypeOK
  BY DEF IndInv
<1>a. \A h \in handlers : h \in Handler /\ h.copy \in Copies
  BY DEF TypeOK, Handler
<1>b. ASSUME NEW h \in handlers, NEW s, NEW p, Become(h, s, p), UNCHANGED published
      PROVE  \A g \in handlers' : g.ev \in published'
  BY <1>b, <1>a, ZenonT(60) DEF Become, Genuine, Handler
<1>c. \A h \in handlers : Finish(h) /\ UNCHANGED published => \A g \in handlers' : g.ev \in published'
  BY DEF Finish, Genuine
<1>1. ASSUME NEW h \in handlers, HandlerStep(h) PROVE Genuine'
  <2> UNCHANGED published
    BY <1>1 DEF HandlerStep, Record, RecordFails, Acknowledge, HandleFailure, DlqAccepts,
       DlqRefuses, DeadLettered, DeadLetterFails, BrokerAck, BrokerNack
  <2>1. \A g \in handlers' : g.ev \in published'
    BY <1>1, <1>b, <1>c, ZenonT(60) DEF HandlerStep, Record, RecordFails, Acknowledge, HandleFailure,
       DlqAccepts, DlqRefuses, DeadLettered, DeadLetterFails, BrokerAck, BrokerNack
  <2>2. \A c \in Copies : Held(c)' => msg'[c].ev \in published
    <3>1. CASE UNCHANGED msg
      BY <3>1, ZenonT(60) DEF Genuine, Held
    <3>2. CASE DlqAccepts(h)
      BY <3>2, <1>a, NewSlotFree DEF DlqAccepts, Genuine, Held, Fresh, TypeOK
    <3>3. CASE DeadLetterFails(h) /\ msg' = [msg EXCEPT ![h.copy].handed = @ + 1]
      BY <3>3, <1>a, ZenonT(60) DEF Genuine, Held, TypeOK, Message
    <3>4. CASE BrokerAck(h)
      BY <3>4, <1>a, FreshMessage, ZenonT(60) DEF BrokerAck, Genuine, Held, TypeOK
    <3>5. CASE BrokerNack(h)
      <4>1. Held(h.copy) /\ msg[h.copy] \in Message
        BY <3>5, <1>a DEF BrokerNack, IndInv, Owns, Held, TypeOK
      <4> QED BY <3>5, <4>1, <1>a, ZenonT(60) DEF BrokerNack, Genuine, Held, TypeOK, Message
    <3> QED
      BY <1>1, <3>1, <3>2, <3>3, <3>4, <3>5, ZenonT(60) DEF HandlerStep, Record, RecordFails, Acknowledge,
         HandleFailure, DlqRefuses, DeadLettered, DeadLetterFails
  <2> QED BY <2>1, <2>2 DEF Genuine, Held
<1>2. ASSUME NEW w \in Workers, NEW c \in Copies, Deliver(w, c) PROVE Genuine'
  BY <1>2 DEF Deliver, Genuine, Held, TypeOK, Message
<1>3. ASSUME NEW e \in Events, Publish(e) PROVE Genuine'
  BY <1>3, NewSlotFree DEF Publish, Genuine, Held, Fresh, TypeOK
<1>4. ASSUME NEW c \in Copies, RetryExpires(c) \/ ShovelPublish(c) \/ ShovelAck(c) PROVE Genuine'
  <2>1. CASE RetryExpires(c)
    BY <2>1 DEF RetryExpires, Genuine, Held, TypeOK, Message
  <2>2. CASE ShovelPublish(c)
    BY <2>2, NewSlotFree, ZenonT(60) DEF ShovelPublish, Genuine, Held, TypeOK, Message
  <2>3. CASE ShovelAck(c)
    BY <2>3, FreshMessage DEF ShovelAck, Genuine, Held, TypeOK
  <2> QED BY <1>4, <2>1, <2>2, <2>3
<1>5. ASSUME NEW w \in Workers, CloseSession(w) \/ Crash(w) PROVE Genuine'
  <2>1. handlers' \subseteq handlers /\ UNCHANGED published /\ Requeue(w)
    BY <1>5 DEF CloseSession, Crash
  <2>2. \A c \in Copies : Held(c)' => msg'[c].ev = msg[c].ev /\ Held(c)
    BY <2>1 DEF Requeue, Held, TypeOK, Message, LiveOf, IndInv, Owns
  <2> QED BY <2>1, <2>2, ZenonT(60) DEF Genuine
<1>6. CASE ShovelFails
  BY <1>6 DEF ShovelFails, Genuine, Held, TypeOK, Message
<1>7. CASE UNCHANGED <<msg, published, handlers>>
  BY <1>7 DEF Genuine, Held
<1> QED
  BY <1>1, <1>2, <1>3, <1>4, <1>5, <1>6, <1>7, ZenonT(60) DEF Next, Progress, OpenSession, StartReplay, vars
-----------------------------------------------------------------------------
(* A message that moves between queues of the same side stays waiting or     *)
(* parked.                                                                   *)
LEMMA SameSide ==
  ASSUME \A c \in Copies : /\ msg'[c].ev = msg[c].ev
                           /\ msg'[c].loc \in InDlq <=> msg[c].loc \in InDlq
                           /\ msg'[c].loc = "free" <=> msg[c].loc = "free"
  PROVE  Waiting' = Waiting /\ Parked' = Parked
BY DEF Waiting, Parked

(* One message changes: only its event can change side.                      *)
LEMMA OneChanges ==
  ASSUME NEW c \in Copies, NEW e, msg[c].loc = "free" \/ msg[c].ev = e,
         msg'[c].loc = "free" \/ msg'[c].ev = e,
         \A d \in Copies \ {c} : msg'[d] = msg[d]
  PROVE  Waiting' \ {e} = Waiting \ {e} /\ Parked' \ {e} = Parked \ {e}
BY DEF Waiting, Parked, InDlq

(* Every step is a step of Notifications or changes nothing there.           *)
LEMMA DeliveryStep ==
  IndInv /\ IndInv' /\ Genuine /\ [Next]_vars => [Delivery!Next]_(Delivery!vars)
<1> SUFFICES ASSUME IndInv, IndInv', Genuine, [Next]_vars
             PROVE  Delivery!Next \/ UNCHANGED <<published, Waiting, Parked, Noted>>
  BY DEF Delivery!vars
<1> TypeOK
  BY DEF IndInv
<1>a. \A h \in handlers : h \in Handler /\ h.copy \in Copies /\ h.ev \in Events
  BY DEF TypeOK, Handler
<1>b. rows' = rows => Noted' = Noted
  BY ZenonT(60) DEF Noted
<1>c. \A e \in published' : e \in Waiting' \cup Parked' \cup Noted'
  <2>1. published' \subseteq Events
    BY DEF IndInv, TypeOK
  <2> QED BY <2>1 DEF IndInv, Preserved, Held, Waiting, Parked, Noted
<1>1. ASSUME NEW h \in handlers, Record(h) PROVE Delivery!Note(h.ev)
  <2>1. h.ev \in published \ Malformed /\ UNCHANGED <<published, Waiting, Parked>>
    BY <1>1 DEF Record, Genuine, IndInv, NackSafe, Waiting, Parked
  <2>2. Noted' = Noted \cup {h.ev}
    BY <1>1, <1>a DEF Record, Noted, TypeOK
  <2> QED BY <2>1, <2>2, ZenonT(60) DEF Delivery!Note
<1>2. ASSUME NEW h \in handlers, DlqAccepts(h) PROVE Delivery!Park(h.ev)
  <2>1. h.ev \in Waiting
    BY <1>2, <1>a, ZenonT(60) DEF DlqAccepts, IndInv, Owns, Waiting, InDlq
  <2>2. /\ NewSlot \in Copies /\ msg[NewSlot].loc = "free"
        /\ msg'[NewSlot].loc = "dlq" /\ msg'[NewSlot].ev = h.ev
        /\ \A d \in Copies \ {NewSlot} : msg'[d] = msg[d]
    BY <1>2, NewSlotFree, ZenonT(60) DEF DlqAccepts, Fresh, TypeOK
  <2>3. h.ev \in Parked' /\ Parked' \ {h.ev} = Parked \ {h.ev} /\ Waiting' \ {h.ev} = Waiting \ {h.ev}
    BY <2>2, <1>a, OneChanges, ZenonT(60) DEF Parked, InDlq
  <2>4. h.ev \in Waiting'
    <3>1. h.copy \in Copies /\ msg[h.copy].loc = "unacked" /\ msg[h.copy].ev = h.ev
      BY <1>2, <1>a, ZenonT(60) DEF DlqAccepts, IndInv, Owns
    <3>2. msg'[h.copy] = msg[h.copy]
      BY <2>2, <3>1, ZenonT(60)
    <3> QED BY <1>a, <3>1, <3>2, ZenonT(60) DEF Waiting, InDlq
  <2> QED BY <1>2, <1>b, <2>1, <2>3, <2>4 DEF DlqAccepts, Delivery!Park
<1>3. ASSUME NEW h \in handlers, BrokerAck(h)
      PROVE  Delivery!Settle(h.ev) \/ UNCHANGED <<published, Waiting, Parked, Noted>>
  <2>1. /\ h.copy \in Copies /\ msg[h.copy].ev = h.ev /\ msg[h.copy].loc = "unacked"
        /\ msg'[h.copy].loc = "free" /\ \A d \in Copies \ {h.copy} : msg'[d] = msg[d]
    BY <1>3, <1>a, FreshMessage DEF BrokerAck, IndInv, Owns, TypeOK
  <2>2. Parked' = Parked /\ Waiting' \ {h.ev} = Waiting \ {h.ev} /\ h.ev \in Waiting
    <3>1. Waiting' \ {h.ev} = Waiting \ {h.ev} /\ Parked' \ {h.ev} = Parked \ {h.ev}
      BY <2>1, OneChanges, ZenonT(60)
    <3>2. h.ev \in Waiting /\ (h.ev \in Parked' <=> h.ev \in Parked)
      BY <2>1, <1>a, ZenonT(60) DEF Waiting, Parked, InDlq
    <3> QED BY <3>1, <3>2
  <2>3. Noted' = Noted /\ published' = published /\ h.ev \in published
    BY <1>3, <1>b, ZenonT(60) DEF BrokerAck, Genuine
  <2>4. CASE h.ev \in Waiting'
    <3>1. Waiting' = Waiting
      BY <2>2, <2>4
    <3> QED BY <2>2, <2>3, <3>1, ZenonT(60)
  <2>5. CASE h.ev \notin Waiting'
    BY <1>c, <2>2, <2>3, <2>5 DEF Delivery!Settle
  <2> QED BY <2>4, <2>5, ZenonT(60)
<1>4. ASSUME NEW c \in Copies, ShovelPublish(c) PROVE Delivery!Replay(msg[c].ev)
  <2> DEFINE e == msg[c].ev
  <2>1. /\ NewSlot \in Copies /\ msg[NewSlot].loc = "free" /\ NewSlot # c
        /\ msg'[NewSlot].loc = "main" /\ msg'[NewSlot].ev = e
        /\ msg[c].loc = "dlq" /\ msg'[c].loc = "moving" /\ msg'[c].ev = e
        /\ \A d \in Copies \ {NewSlot, c} : msg'[d] = msg[d]
    <3>1. msg[c] \in Message /\ msg[c].loc = "dlq" /\ NewSlot \in Copies /\ msg[NewSlot].loc = "free"
      BY <1>4, NewSlotFree DEF ShovelPublish, TypeOK
    <3> QED BY <1>4, <3>1 DEF ShovelPublish, TypeOK, Message
  <2>2. e \in Events
    BY ZenonT(60) DEF TypeOK, Message
  <2>3. e \in Parked /\ Parked' = Parked
    BY <2>1, <2>2, ZenonT(60) DEF Parked, InDlq
  <2>4. Waiting' = Waiting \cup {e}
    BY <2>1, <2>2 DEF Waiting, InDlq
  <2> QED BY <1>4, <1>b, <2>3, <2>4 DEF ShovelPublish, Delivery!Replay
<1>5. ASSUME NEW c \in Copies, ShovelAck(c)
      PROVE  Delivery!Unpark(msg[c].ev) \/ UNCHANGED <<published, Waiting, Parked, Noted>>
  <2> DEFINE e == msg[c].ev
  <2>1. msg[c].loc = "moving" /\ msg'[c].loc = "free" /\ \A d \in Copies \ {c} : msg'[d] = msg[d]
    BY <1>5, FreshMessage DEF ShovelAck, TypeOK
  <2>2. e \in Events /\ e \in published
    BY <2>1, ZenonT(60) DEF TypeOK, Message, Genuine, Held
  <2>3. Waiting' = Waiting /\ Parked' \ {e} = Parked \ {e} /\ e \in Parked
    BY <2>1, <2>2, OneChanges DEF Parked, Waiting, InDlq
  <2>4. Noted' = Noted /\ published' = published
    BY <1>5, <1>b DEF ShovelAck
  <2>5. CASE e \in Parked'
    <3>1. Parked' = Parked
      BY <2>3, <2>5
    <3> QED BY <2>3, <2>4, <3>1, ZenonT(60)
  <2>6. CASE e \notin Parked'
    BY <1>c, <2>2, <2>3, <2>4, <2>6, ZenonT(60) DEF Delivery!Unpark
  <2> QED BY <2>5, <2>6, ZenonT(60)
<1>6. ASSUME NEW e \in Events, Publish(e) PROVE Delivery!Publish(e)
  <2>1. /\ NewSlot \in Copies /\ msg[NewSlot].loc = "free"
        /\ msg'[NewSlot].loc = "main" /\ msg'[NewSlot].ev = e
        /\ \A d \in Copies \ {NewSlot} : msg'[d] = msg[d]
    BY <1>6, NewSlotFree, ZenonT(60) DEF Publish, Fresh, TypeOK
  <2>2. Waiting' = Waiting \cup {e} /\ Parked' = Parked
    BY <2>1 DEF Waiting, Parked, InDlq
  <2> QED BY <1>6, <1>b, <2>2, ZenonT(60) DEF Publish, Delivery!Publish
<1>7. ASSUME NEW h \in handlers, BrokerNack(h) \/ DeadLetterFails(h)
      PROVE  UNCHANGED <<published, Waiting, Parked, Noted>>
  <2>1. Live(h) => msg[h.copy].loc = "unacked" /\ msg[h.copy] \in Message /\ h.copy \in Copies
    BY <1>a, ZenonT(60) DEF IndInv, Owns, TypeOK
  <2>2. Waiting' = Waiting /\ Parked' = Parked
    <3>1. CASE BrokerNack(h)
      BY <3>1, <2>1, SameSide, ZenonT(60) DEF BrokerNack, InDlq, TypeOK, Message
    <3>2. CASE DeadLetterFails(h)
      <4>1. CASE UNCHANGED msg
        BY <4>1 DEF Waiting, Parked
      <4>2. CASE Live(h) /\ msg' = [msg EXCEPT ![h.copy].handed = @ + 1]
        BY <4>2, <2>1, SameSide DEF InDlq, TypeOK, Message
      <4> QED BY <3>2, <4>1, <4>2, ZenonT(60) DEF DeadLetterFails
    <3> QED BY <1>7, <3>1, <3>2, ZenonT(60)
  <2> QED BY <1>7, <1>b, <2>2, ZenonT(60) DEF BrokerNack, DeadLetterFails
<1>8. ASSUME NEW w \in Workers, NEW c \in Copies, Deliver(w, c)
      PROVE  UNCHANGED <<published, Waiting, Parked, Noted>>
  <2>1. Waiting' = Waiting /\ Parked' = Parked
    BY <1>8, SameSide DEF Deliver, InDlq, TypeOK, Message
  <2> QED BY <1>8, <1>b, <2>1 DEF Deliver
<1>9. ASSUME NEW c \in Copies, RetryExpires(c)
      PROVE  UNCHANGED <<published, Waiting, Parked, Noted>>
  <2>1. Waiting' = Waiting /\ Parked' = Parked
    BY <1>9, SameSide DEF RetryExpires, InDlq, TypeOK, Message
  <2> QED BY <1>9, <1>b, <2>1 DEF RetryExpires
<1>10. ASSUME NEW w \in Workers, CloseSession(w) \/ Crash(w)
       PROVE  UNCHANGED <<published, Waiting, Parked, Noted>>
  <2>1. Requeue(w) /\ \A h \in LiveOf(w) : msg[h.copy].loc = "unacked"
    BY <1>10 DEF CloseSession, Crash, IndInv, Owns, LiveOf
  <2>2. Waiting' = Waiting /\ Parked' = Parked
    BY <2>1, SameSide DEF Requeue, InDlq, TypeOK, Message
  <2> QED BY <1>10, <1>b, <2>2, ZenonT(60) DEF CloseSession, Crash
<1>11. CASE ShovelFails
  <2>1. Waiting' = Waiting /\ Parked' = Parked
    BY <1>11, SameSide DEF ShovelFails, InDlq, TypeOK, Message
  <2> QED BY <1>11, <1>b, <2>1 DEF ShovelFails
<1>12. CASE UNCHANGED <<msg, published, rows>>
  BY <1>12, ZenonT(60) DEF Waiting, Parked, Noted
<1>13. \A h \in handlers : RecordFails(h) \/ Acknowledge(h) \/ HandleFailure(h) \/ DlqRefuses(h) \/ DeadLettered(h)
         => UNCHANGED <<msg, published, rows>>
  BY DEF RecordFails, Acknowledge, HandleFailure, DlqRefuses, DeadLettered
<1>14. \A c \in Copies : msg[c].ev \in Events
  BY DEF TypeOK, Message
<1> QED
  BY <1>1, <1>2, <1>3, <1>4, <1>5, <1>6, <1>7, <1>8, <1>9, <1>10, <1>11, <1>12, <1>13, <1>14, <1>a, ZenonT(60)
  DEF Next, Progress, HandlerStep, OpenSession, StartReplay, vars, Delivery!Next, Delivery!Process

(* The worker, its queues and the replay tool implement the specification of *)
(* their promise.                                                            *)
THEOREM DeliveryRefined == Spec => KeepsDelivery
<1>1. Init => Genuine /\ Delivery!Init
  BY FreshMessage DEF Init, Genuine, Held, Delivery!Init, Waiting, Parked, Noted, InDlq
<1>2. Spec => []Genuine
  BY <1>1, GenuineStep, Inductive, PTL DEF Spec
<1> QED BY <1>1, <1>2, DeliveryStep, Inductive, PTL DEF Spec, KeepsDelivery, Delivery!Spec
-----------------------------------------------------------------------------
\* A handler that has given up on a well-formed message is in its last attempt.
LastAttempt ==
  \A h \in handlers :
    Live(h) /\ h.pub # "none" /\ h.ev \notin Malformed => msg[h.copy].rejected >= MaxAttempts - 1

\* The handlers with an open channel still have it, and the counts of their messages.
CountsKept(S) ==
  \A h \in S : Live(h)' => Live(h) /\ msg'[h.copy].rejected = msg[h.copy].rejected

(* The attempt count of handleFailure: one more than a reaches b.            *)
LEMMA LastOne ==
  ASSUME NEW a \in Nat, NEW b \in Nat, a + 1 >= b PROVE a >= b - 1
OBVIOUS

(* A handler gives up in handleFailure only, when the attempts are used up;  *)
(* until its message is settled, no step changes the count of that.          *)
LEMMA LastAttemptStep == IndInv /\ LastAttempt /\ [Next]_vars => LastAttempt'
<1> SUFFICES ASSUME IndInv, LastAttempt, [Next]_vars PROVE LastAttempt'
  OBVIOUS
<1> TypeOK
  BY DEF IndInv
<1>a. \A h \in handlers : h.copy \in Copies /\ (Live(h) => msg[h.copy].loc = "unacked")
  BY HandlerFields DEF IndInv, Owns
<1>b. \A g, h \in handlers : Live(g) /\ Live(h) /\ g.copy = h.copy => g = h
  BY DEF IndInv, OwnsAlone
<1>c. \A c \in Copies : msg[c] \in Message
  BY DEF TypeOK
<1>d. ASSUME handlers' \subseteq handlers, CountsKept(handlers) PROVE LastAttempt'
  BY <1>d, ZenonT(60) DEF LastAttempt, CountsKept
<1>e. ASSUME NEW h \in handlers, NEW s \in Steps, NEW p \in Pubs, Become(h, s, p),
             CountsKept(handlers), UNCHANGED <<epoch, up>>,
             Live(h) /\ p # "none" /\ h.ev \notin Malformed =>
               h.pub # "none" \/ msg[h.copy].rejected >= MaxAttempts - 1
      PROVE  LastAttempt'
  <2>1. PICK k \in Handler :
           /\ k.copy = h.copy /\ k.ev = h.ev /\ k.worker = h.worker /\ k.sess = h.sess
           /\ k.pub = p /\ handlers' = (handlers \ {h}) \cup {k}
    BY <1>e, BecomeFacts
  <2> QED BY <2>1, <1>e, ZenonT(60) DEF LastAttempt, CountsKept, Live
<1>1. ASSUME NEW h \in handlers, HandlerStep(h) PROVE LastAttempt'
  <2> h.step \in Steps /\ h.pub \in Pubs /\ h.copy \in Copies
    BY HandlerFields
  <2>1. CASE \/ Record(h) \/ RecordFails(h) \/ Acknowledge(h) \/ HandleFailure(h)
             \/ DlqRefuses(h) \/ DeadLettered(h)
    <3>0. UNCHANGED <<msg, epoch, up>>
      BY <2>1 DEF Record, RecordFails, Acknowledge, HandleFailure, DlqRefuses, DeadLettered
    <3>1. CountsKept(handlers)
      BY <3>0 DEF CountsKept, Live
    <3>2. CASE Finish(h)
      BY <3>1, <3>2, <1>d, ZenonT(60) DEF Finish
    <3>3. CASE Record(h)
      BY <3>1, <3>3, <3>0, <1>e, ZenonT(60) DEF Record, Steps
    <3>4. CASE RecordFails(h)
      BY <3>1, <3>4, <3>0, <1>e, ZenonT(60) DEF RecordFails, Steps
    <3>5. CASE Acknowledge(h)
      BY <3>1, <3>2, <3>5, <3>0, <1>e, ZenonT(60) DEF Acknowledge, Steps
    <3>6. CASE HandleFailure(h)
      <4>1. CASE Become(h, "nack_sent", h.pub)
        BY <4>1, <3>1, <3>0, <1>e, ZenonT(60) DEF Steps
      <4>2. CASE Become(h, "deadlettering", "sent") /\ failedAttempts(msg[h.copy]) + 1 >= MaxAttempts
        <5>1. msg[h.copy].rejected >= MaxAttempts - 1
          <6>1. msg[h.copy].rejected \in Nat /\ MaxAttempts \in Nat
            BY <1>c, ConstantsAssumption, MessageFields
          <6>2. msg[h.copy].rejected + 1 >= MaxAttempts
            BY <4>2, ZenonT(60) DEF failedAttempts
          <6> QED BY <6>1, <6>2, LastOne, ZenonT(60)
        <5> QED BY <4>2, <5>1, <3>1, <3>0, <1>e, ZenonT(60) DEF Steps, Pubs
      <4>3. Finish(h) \/ Become(h, "nack_sent", h.pub)
            \/ (Become(h, "deadlettering", "sent") /\ failedAttempts(msg[h.copy]) + 1 >= MaxAttempts)
        BY <3>6, ZenonT(60) DEF HandleFailure
      <4> QED BY <3>2, <4>1, <4>2, <4>3, ZenonT(60)
    <3>7. CASE DlqRefuses(h)
      BY <3>1, <3>7, <3>0, <1>e, ZenonT(60) DEF DlqRefuses, Pubs
    <3>8. CASE DeadLettered(h)
      BY <3>1, <3>8, <3>0, <1>e, ZenonT(60) DEF DeadLettered, Steps
    <3> QED BY <2>1, <3>3, <3>4, <3>5, <3>6, <3>7, <3>8, ZenonT(60)
  <2>2. CASE DlqAccepts(h)
    <3>1. CountsKept(handlers)
      BY <2>2, <1>a, NewSlotFree, ZenonT(60) DEF DlqAccepts, CountsKept, Live, TypeOK
    <3> QED BY <2>2, <3>1, <1>e, ZenonT(60) DEF DlqAccepts, Pubs
  <2>3. CASE DeadLetterFails(h)
    <3>1. CountsKept(handlers)
      <4>1. UNCHANGED <<epoch, up>> /\ \A c \in Copies : msg'[c].rejected = msg[c].rejected
        <5>1. UNCHANGED <<epoch, up>>
              /\ (UNCHANGED msg \/ msg' = [msg EXCEPT ![h.copy].handed = @ + 1])
          BY <2>3, ZenonT(60) DEF DeadLetterFails
        <5> QED BY <5>1, <1>c DEF TypeOK, Message
      <4> QED BY <4>1, <1>a, ZenonT(60) DEF CountsKept, Live
    <3>2. CASE Finish(h)
      BY <3>1, <3>2, <1>d, ZenonT(60) DEF Finish
    <3> QED BY <2>3, <3>1, <3>2, <1>e, ZenonT(60) DEF DeadLetterFails, Steps
  <2>4. CASE BrokerAck(h) \/ BrokerNack(h)
    <3>1. handlers' = handlers \ {h} /\ Live(h) /\ UNCHANGED <<epoch, up>>
      BY <2>4 DEF BrokerAck, BrokerNack, Finish
    <3>2. \A c \in Copies : c # h.copy => msg'[c] = msg[c]
      BY <2>4, ZenonT(60) DEF BrokerAck, BrokerNack, TypeOK
    <3>3. CountsKept(handlers')
      BY <3>1, <3>2, <1>a, <1>b, ZenonT(60) DEF CountsKept, Live
    <3> QED BY <3>1, <3>3 DEF LastAttempt, CountsKept
  <2> QED BY <1>1, <2>1, <2>2, <2>3, <2>4 DEF HandlerStep
<1>2. ASSUME NEW w \in Workers, NEW c \in Copies, Deliver(w, c) PROVE LastAttempt'
  <2>1. CountsKept(handlers)
    BY <1>2, <1>a, <1>c, ZenonT(60) DEF Deliver, CountsKept, Live, TypeOK, Message
  <2>2. \A h \in handlers' : h \in handlers \/ h.pub = "none" \/ h.ev \in Malformed
    BY <1>2 DEF Deliver, parseOrderCreated
  <2> QED BY <2>1, <2>2 DEF LastAttempt, CountsKept
<1>3. ASSUME NEW w \in Workers, OpenSession(w) PROVE LastAttempt'
  <2>1. \A h \in handlers : h.worker \in Workers /\ h.sess \in Nat /\ h.sess <= epoch[h.worker]
    BY HandlerFields, ZenonT(60) DEF IndInv, Owns
  <2>2. CountsKept(handlers)
    BY <1>3, <2>1 DEF OpenSession, CountsKept, Live, TypeOK
  <2> QED BY <1>3, <2>2, <1>d, ZenonT(60) DEF OpenSession
<1>4. ASSUME NEW w \in Workers, CloseSession(w) \/ Crash(w) PROVE LastAttempt'
  <2>1. \A c \in Copies : msg'[c].rejected = msg[c].rejected
    <3>1. \A c \in Copies : msg'[c] = [msg[c] EXCEPT !.loc = "main"] \/ msg'[c] = msg[c]
      BY <1>4, ZenonT(60) DEF CloseSession, Crash, Requeue
    <3> QED BY <3>1, <1>c, ZenonT(60) DEF Message
  <2>2. CountsKept(handlers)
    BY <1>4, <2>1, <1>a, HandlerFields, ZenonT(60) DEF CloseSession, Crash, CountsKept, Live, TypeOK
  <2> QED BY <1>4, <2>2, <1>d DEF CloseSession, Crash
<1>5. ASSUME NEW c \in Copies, RetryExpires(c) \/ ShovelPublish(c) \/ ShovelAck(c) PROVE LastAttempt'
  <2>1. \A d \in Copies : msg[d].loc = "unacked" => msg'[d].rejected = msg[d].rejected
    BY <1>5, <1>c, NewSlotFree, ZenonT(60) DEF RetryExpires, ShovelPublish, ShovelAck, TypeOK, Message
  <2>2. UNCHANGED <<handlers, epoch, up>>
    BY <1>5 DEF RetryExpires, ShovelPublish, ShovelAck
  <2> QED BY <2>1, <2>2, <1>a, <1>d, ZenonT(60) DEF CountsKept, Live
<1>6. ASSUME NEW e \in Events, Publish(e) PROVE LastAttempt'
  <2>1. CountsKept(handlers)
    BY <1>6, <1>a, NewSlotFree, ZenonT(60) DEF Publish, CountsKept, Live, TypeOK
  <2> QED BY <1>6, <2>1, <1>d, ZenonT(60) DEF Publish
<1>7. CASE StartReplay \/ ShovelFails \/ UNCHANGED vars
  <2>1. \A c \in Copies : msg'[c].rejected = msg[c].rejected
    BY <1>7, <1>c DEF StartReplay, ShovelFails, vars, Message
  <2>2. UNCHANGED <<handlers, epoch, up>>
    BY <1>7 DEF StartReplay, ShovelFails, vars
  <2> QED BY <2>1, <2>2, <1>a, <1>d, ZenonT(60) DEF CountsKept, Live
<1> QED BY <1>1, <1>2, <1>3, <1>4, <1>5, <1>6, <1>7, ZenonT(60) DEF Next, Progress

(* handleFailure dead-letters a well-formed message in its last attempt and  *)
(* not earlier, across crashes, redeliveries and replays.                    *)
THEOREM GivesUpLast == Spec => []NoEarlyGiveUp
<1>1. Init => LastAttempt
  BY DEF Init, LastAttempt
<1>2. IndInv /\ LastAttempt => NoEarlyGiveUp
  BY ZenonT(60) DEF IndInv, LastAttempt, NoEarlyGiveUp
<1> QED BY <1>1, <1>2, LastAttemptStep, Inductive, PTL DEF Spec
=============================================================================

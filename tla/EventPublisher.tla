--------------------------- MODULE EventPublisher ---------------------------
(***************************************************************************)
(* EventPublisher of the order-service: a RabbitMQ connection that is opened *)
(* by the first publish that needs it, shared by the publishes, dropped by   *)
(* 'close' events and opened again by a later publish.                       *)
(*                                                                         *)
(* A call of open() is an attempt, numbered from 1; a connection and its     *)
(* channel carry the number of their attempt.  That a promise settles and    *)
(* that the code awaiting it continues are two steps where an event of the   *)
(* connection can come between them.                                         *)
(***************************************************************************)
EXTENDS Naturals, FiniteSets

CONSTANTS
  Publishes,   \* calls of publish()
  MaxAttempts, \* bound: calls of open()
  MaxFaults,   \* bound: failing connects and setups, lost connections
  MaxKills     \* bound: channels the broker closes alone

ASSUME ConstantsAssumption ==
  MaxAttempts \in Nat \ {0} /\ MaxFaults \in Nat /\ MaxKills \in Nat

VARIABLES
  open,      \* open[a]: the await attempt a is suspended at
  conn,      \* conn[a]: its connection
  chan,      \* chan[a]: its channel
  asked,     \* attempts on whose connection close() was called
  opening,   \* this.opening: an attempt, or 0
  fconn,     \* this.conn, by attempt, or 0
  fchan,     \* this.channel, by attempt, or 0
  step,      \* step[p]: the await publish p is suspended at, or its outcome:
             \* ok, failed, timedout, or abandoned (rejected by our own close())
  via,       \* via[p]: the attempt it waits for or whose channel it uses
  destroyed, \* onModuleDestroy was called
  deaf,      \* history: attempts whose channel closed before it had listeners
  faults, kills

fields  == <<opening, fconn, fchan>>
calls   == <<step, via>>
links   == <<conn, chan, asked>>
budget  == <<faults, kills>>
vars    == <<open, links, fields, calls, destroyed, deaf, budget>>

Attempts == 1..MaxAttempts

Closed(a) == conn[a] = "closed" \/ chan[a] = "closed"
Fault == faults < MaxFaults /\ faults' = faults + 1 /\ UNCHANGED kills

Init ==
  /\ open = [a \in Attempts |-> "none"]
  /\ conn = [a \in Attempts |-> "none"]
  /\ chan = [a \in Attempts |-> "none"]
  /\ asked = {} /\ opening = 0 /\ fconn = 0 /\ fchan = 0
  /\ step = [p \in Publishes |-> "idle"]
  /\ via = [p \in Publishes |-> 0]
  /\ destroyed = FALSE /\ deaf = {} /\ faults = 0 /\ kills = 0

-----------------------------------------------------------------------------
\* What becomes of a publish on the channel of attempt a: channel.publish
\* throws if the channel is closed or its connection closing.
Send(a) == IF Closed(a) THEN "failed" ELSE IF a \in asked THEN "abandoned" ELSE "sent"

\* this.opening ??= this.open(): the running attempt a, or a new one.
startOpening(a) ==
  IF opening # 0
  THEN a = opening /\ UNCHANGED <<open, opening>>
  ELSE /\ open[a] = "none" /\ \A b \in Attempts : b < a => open[b] # "none"
       /\ open' = [open EXCEPT ![a] = "connect"]
       /\ opening' = a

(* publish() up to its first await on the broker.                            *)
Publish(p) ==
  /\ step[p] = "idle"
  /\ \/ /\ fchan # 0
        /\ step' = [step EXCEPT ![p] = Send(fchan)]
        /\ via' = [via EXCEPT ![p] = fchan]
        /\ UNCHANGED <<open, opening>>
     \/ /\ fchan = 0
        /\ \E a \in Attempts : startOpening(a) /\ via' = [via EXCEPT ![p] = a]
        /\ step' = [step EXCEPT ![p] = "opening"]
  /\ UNCHANGED <<links, fconn, fchan, destroyed, deaf, budget>>

\* Attempt a is over: this.opening is cleared, its publishes go on with s.
Settle(a, s) ==
  /\ open' = [open EXCEPT ![a] = "over"]
  /\ opening' = IF opening = a THEN 0 ELSE opening
  /\ step' = [p \in Publishes |-> IF step[p] = "opening" /\ via[p] = a THEN s ELSE step[p]]

(* connectWithTimeout resolves; the listeners are set.                       *)
Connected(a) ==
  /\ open[a] = "connect"
  /\ open' = [open EXCEPT ![a] = "channel"]
  /\ conn' = [conn EXCEPT ![a] = "open"]
  /\ UNCHANGED <<chan, asked, fields, calls, destroyed, deaf, budget>>

(* It rejects: refused, or the outer timer won against connect().            *)
ConnectFails(a) ==
  /\ open[a] = "connect"
  /\ Fault
  /\ \E c \in {"closed", "late"} : conn' = [conn EXCEPT ![a] = c]
  /\ Settle(a, "failed")
  /\ UNCHANGED <<chan, asked, fconn, fchan, via, destroyed, deaf>>

\* Mutant: the orphan's handler closes the connection in use.
LateConnectClosesCurrent(a) ==
  /\ conn[a] = "late"
  /\ conn' = [conn EXCEPT ![a] = "open"]
  /\ asked' = asked \cup {a} \cup ({fconn} \ {0})
  /\ UNCHANGED <<open, chan, fields, calls, destroyed, deaf, budget>>

(* The orphaned connect() settles: its connection is closed.                 *)
LateConnect(a) ==
  /\ conn[a] = "late"
  /\ conn' = [conn EXCEPT ![a] = "open"]
  /\ asked' = asked \cup {a}
  /\ UNCHANGED <<open, chan, fields, calls, destroyed, deaf, budget>>

(* The broker answers createConfirmChannel.                                  *)
ChannelReplied(a) ==
  /\ open[a] = "channel" /\ conn[a] = "open"
  /\ open' = [open EXCEPT ![a] = "replied"]
  /\ chan' = [chan EXCEPT ![a] = "open"]
  /\ UNCHANGED <<conn, asked, fields, calls, destroyed, deaf, budget>>

(* open() continues: the channel's listeners and the fields are set, and the *)
(* waiting publishes are sent.                                               *)
OpenReturns(a) ==
  /\ open[a] = "replied"
  /\ fconn' = a /\ fchan' = a
  /\ deaf' = IF Closed(a) THEN deaf \cup {a} ELSE deaf
  /\ Settle(a, Send(a))
  /\ UNCHANGED <<links, via, destroyed, budget>>

\* Mutant: the catch block does not close the connection.
ChannelFailsKept(a) ==
  /\ open[a] = "channel"
  /\ \/ conn[a] = "closed" /\ UNCHANGED budget
     \/ conn[a] = "open" /\ Fault
  /\ Settle(a, "failed")
  /\ UNCHANGED <<links, fconn, fchan, via, destroyed, deaf>>

(* createConfirmChannel rejects: refused, or the connection closed under it. *)
(* The connection is closed.                                                 *)
ChannelFails(a) ==
  /\ open[a] = "channel"
  /\ \/ conn[a] = "closed" /\ UNCHANGED budget
     \/ conn[a] = "open" /\ Fault
  /\ open' = [open EXCEPT ![a] = "closing"]
  /\ asked' = asked \cup {a}
  /\ UNCHANGED <<conn, chan, fields, calls, destroyed, deaf>>

(* The close() of the catch block returns; open() rejects.                   *)
CloseReturns(a) ==
  /\ open[a] = "closing" /\ conn[a] = "closed"
  /\ Settle(a, "failed")
  /\ UNCHANGED <<links, fconn, fchan, via, destroyed, deaf, budget>>

(* The broker confirms.  A connection that is closing ignores it.             *)
Confirm(p) ==
  /\ step[p] = "sent" /\ conn[via[p]] = "open" /\ via[p] \notin asked
  /\ step' = [step EXCEPT ![p] = "ok"]
  /\ UNCHANGED <<open, links, fields, via, destroyed, deaf, budget>>

\* Mutant: the publish waits for the confirm alone.
ConfirmTimerMissing(p) ==
  /\ step[p] = "sent" /\ Closed(via[p])
  /\ step' = [step EXCEPT ![p] = "failed"]
  /\ UNCHANGED <<open, links, fields, via, destroyed, deaf, budget>>

(* The confirm timer fires.                                                  *)
ConfirmTimer(p) ==
  /\ step[p] = "sent"
  /\ step' = [step EXCEPT ![p] = "timedout"]
  /\ UNCHANGED <<open, links, fields, via, destroyed, deaf, budget>>

-----------------------------------------------------------------------------
\* Unconfirmed publishes of a channel that closes are rejected.
Reject(a, why) ==
  step' = [p \in Publishes |-> IF step[p] = "sent" /\ via[p] = a THEN why ELSE step[p]]

\* The process learns that connection a is gone: the channel emits 'close',
\* then the connection, whose listener clears both fields whatever they hold.
\* An orphan has no listeners.
Gone(a, why) ==
  /\ conn' = [conn EXCEPT ![a] = "closed"]
  /\ chan' = [chan EXCEPT ![a] = IF @ = "open" THEN "closed" ELSE @]
  /\ IF open[a] = "over" /\ chan[a] = "none" THEN UNCHANGED <<fconn, fchan>>
                                             ELSE fconn' = 0 /\ fchan' = 0
  /\ Reject(a, why)

(* close() is answered.                                                      *)
CloseAnswered(a) ==
  /\ a \in asked /\ conn[a] = "open"
  /\ Gone(a, "abandoned")
  /\ UNCHANGED <<open, asked, opening, via, destroyed, deaf, budget>>

(* The broker disappears, unnoticed.                                         *)
LoseConnection(a) ==
  /\ conn[a] = "open"
  /\ Fault
  /\ conn' = [conn EXCEPT ![a] = "lost"]
  /\ UNCHANGED <<open, chan, asked, fields, calls, destroyed, deaf>>

(* The socket error, the missed heartbeat or the broker's connection.close.  *)
NoticeLoss(a) ==
  /\ conn[a] = "lost"
  /\ Gone(a, "failed")
  /\ UNCHANGED <<open, asked, opening, via, destroyed, deaf, budget>>

\* Mutant: the channel has no 'close' listener.
KillChannelUnheard(a) ==
  /\ conn[a] = "open" /\ chan[a] = "open"
  /\ kills < MaxKills /\ kills' = kills + 1
  /\ chan' = [chan EXCEPT ![a] = "closed"]
  /\ Reject(a, "failed")
  /\ UNCHANGED <<open, conn, asked, fields, via, destroyed, deaf, faults>>

(* The broker closes the channel alone: its listener clears this.channel if  *)
(* it is this one.  Before open() has continued there is no listener yet.    *)
KillChannel(a) ==
  /\ conn[a] = "open" /\ chan[a] = "open"
  /\ kills < MaxKills /\ kills' = kills + 1
  /\ chan' = [chan EXCEPT ![a] = "closed"]
  /\ fchan' = IF fchan = a THEN 0 ELSE fchan
  /\ Reject(a, "failed")
  /\ UNCHANGED <<open, conn, asked, opening, fconn, via, destroyed, deaf, faults>>

(* onModuleDestroy closes this.conn; requests in flight go on.               *)
Destroy ==
  /\ ~destroyed
  /\ destroyed' = TRUE
  /\ asked' = IF fconn = 0 THEN asked ELSE asked \cup {fconn}
  /\ UNCHANGED <<open, conn, chan, fields, calls, deaf, budget>>

-----------------------------------------------------------------------------
OpenStep(a) ==
  \/ Connected(a) \/ ConnectFails(a) \/ ChannelReplied(a) \/ OpenReturns(a)
  \/ ChannelFails(a) \/ CloseReturns(a)

LinkStep(a) == LateConnect(a) \/ CloseAnswered(a) \/ NoticeLoss(a)

Next ==
  \/ \E p \in Publishes : Publish(p) \/ Confirm(p) \/ ConfirmTimer(p)
  \/ \E a \in Attempts : OpenStep(a) \/ LinkStep(a) \/ LoseConnection(a) \/ KillChannel(a)
  \/ Destroy

(* The connect and confirm timers fire.  createConfirmChannel and close()    *)
(* have no timer: a reachable broker answers them, and the heartbeat notices *)
(* one that is not.  A confirm is owed by nobody.                            *)
Spec ==
  /\ Init /\ [][Next]_vars
  /\ \A a \in Attempts : WF_vars(OpenStep(a)) /\ WF_vars(LinkStep(a))
  /\ \A p \in Publishes : WF_vars(ConfirmTimer(p))

-----------------------------------------------------------------------------
(* Every variable has its type.                                              *)
TypeOK ==
  /\ open \in [Attempts -> {"none", "connect", "channel", "replied", "closing", "over"}]
  /\ conn \in [Attempts -> {"none", "late", "open", "lost", "closed"}]
  /\ chan \in [Attempts -> {"none", "open", "closed"}]
  /\ asked \subseteq Attempts
  /\ opening \in Attempts \cup {0} /\ fconn \in Attempts \cup {0} /\ fchan \in Attempts \cup {0}
  /\ step \in [Publishes -> {"idle", "opening", "sent", "ok", "failed", "timedout", "abandoned"}]
  /\ via \in [Publishes -> Attempts \cup {0}]
  /\ destroyed \in BOOLEAN /\ deaf \subseteq Attempts
  /\ faults \in 0..MaxFaults /\ kills \in 0..MaxKills

\* Connections nobody refers to any more and nobody will close.
Forgotten ==
  {a \in Attempts : conn[a] \in {"open", "lost"} /\ open[a] = "over" /\ a # fconn /\ a \notin asked}

(* Lost connections, failed setups, orphaned connects and concurrent         *)
(* publishes leave no connection behind: only a channel that the broker      *)
(* closes alone can cost one, and the 'close' event of such a connection,    *)
(* which clears the fields of its successor, costs no further one.           *)
LeakBounded == Cardinality(Forgotten) <= kills

(* A stored channel that is closed, which getChannel() would hand out for    *)
(* good, comes about in one way only: it closed between the broker's answer   *)
(* to createConfirmChannel and the continuation of open() that listens to it. *)
StaleOnlyByRace == fchan # 0 /\ Closed(fchan) => fchan \in deaf

(* No close() of the publisher's own, of an orphan or after a failed open(),  *)
(* ends a publish in flight: onModuleDestroy alone does.                      *)
OnlyShutdownAbandons == (\E p \in Publishes : step[p] = "abandoned") => destroyed

(* Every publish() settles, whatever the broker does.                        *)
PublishSettles ==
  \A p \in Publishes : step[p] \in {"opening", "sent"} ~> step[p] \notin {"opening", "sent"}

(* "reconnects on the next publish after a drop": a stored channel whose     *)
(* 'close' event is past would never be replaced.                            *)
ReconnectsAfterDrop == fchan # 0 => ~Closed(fchan)

(* NFR-6: the shutdown lets publishes in flight finish.                      *)
ShutdownFinishesPublishes == \A p \in Publishes : step[p] # "abandoned"
=============================================================================

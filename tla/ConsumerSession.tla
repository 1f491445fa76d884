--------------------------- MODULE ConsumerSession ---------------------------
(***************************************************************************)
(* The life of a notification-worker process: the run loop that keeps one    *)
(* consuming session with RabbitMQ (ConsumerService.run and                  *)
(* consumeUntilClosed), the readiness it reports, and the shutdown after     *)
(* SIGTERM: onModuleDestroy, then the HTTP server, the telemetry flush and    *)
(* the database pool.                                                        *)
(*                                                                         *)
(* A session is one turn of the run loop, numbered from 1.  What a handler   *)
(* does with its delivery is NotificationWorker; here a delivery is only     *)
(* running or finished.  An await with a time limit may end at any moment;    *)
(* the history says whether a limit cut off what it waited for.              *)
(***************************************************************************)
EXTENDS Naturals, FiniteSets

CONSTANTS
  Deliveries,  \* messages the broker may deliver
  MaxFaults,   \* bound: connection and broker faults
  MaxDeletes,  \* bound: deletions of the main queue
  MAX_BACKOFF

ASSUME ConstantsAssumption ==
  /\ MaxFaults \in Nat /\ MaxDeletes \in Nat
  /\ MAX_BACKOFF \in Nat \ {0}

VARIABLES
  loop,      \* the await the run loop is suspended at
  cur,       \* the number of its session
  delay,     \* its back-off
  held,      \* the session in this.conn, this.channel and this.consumerTag, or 0
  conn,      \* conn[s]: the connection of session s
  chan,      \* chan[s]: its channel
  consumer,  \* consumer[s]: its consumer, at the broker
  asked,     \* sessions on whose connection close() was called
  work,      \* work[d]: the handler of delivery d
  down,      \* the await the shutdown is suspended at
  stopping,  \* this.stopping
  waitFor,   \* the in-flight handlers the drain waits for
  overrun,   \* history: the cancel or the drain timer fired
  calm,      \* history: no session was being set up at SIGTERM
  faults, deletes

session  == <<loop, cur, delay, held>>
broker   == <<conn, chan, consumer, asked>>
shutdown == <<down, stopping, waitFor, overrun, calm>>
budget   == <<faults, deletes>>
vars     == <<session, broker, work, shutdown, budget>>

\* Every turn but the last ends with a fault.
Sessions == 1..(MaxFaults + 1)

Setup == {"channel", "prefetch", "consume"}
Running == {d \in Deliveries : work[d] = "running"}
Alive == down # "exited"

\* One of the two 'close' events that settle `closed` has been emitted.
Closed(s) == conn[s] = "closed" \/ chan[s] = "closed"
\* The broker can reach the process over this session.
Online(s) == conn[s] = "open" /\ chan[s] = "open"
Delivering(s) == Online(s) /\ consumer[s] \in {"registered", "cancelling"}

Init ==
  /\ loop = "connect" /\ cur = 1 /\ delay = 1 /\ held = 0
  /\ conn = [s \in Sessions |-> "none"]
  /\ chan = [s \in Sessions |-> "none"]
  /\ consumer = [s \in Sessions |-> "none"]
  /\ asked = {}
  /\ work = [d \in Deliveries |-> "none"]
  /\ down = "no" /\ stopping = FALSE /\ waitFor = {} /\ overrun = FALSE /\ calm = FALSE
  /\ faults = 0 /\ deletes = 0

-----------------------------------------------------------------------------
Fault == faults < MaxFaults /\ faults' = faults + 1 /\ UNCHANGED deletes

\* The back-off grows up to its cap, and is reset by a turn of over 30 seconds.
nextDelay(long) == IF long THEN 1 ELSE IF 2 * delay < MAX_BACKOFF THEN 2 * delay ELSE MAX_BACKOFF

\* What follows consumeUntilClosed in run(): stop, or sleep.
AfterSession ==
  /\ loop' = IF stopping THEN "ended" ELSE "sleep"
  /\ IF stopping THEN UNCHANGED delay
     ELSE \E long \in BOOLEAN : delay' = nextDelay(long)
  /\ UNCHANGED <<cur, held>>

(* connectWithTimeout resolves.                                              *)
Connected ==
  /\ Alive /\ loop = "connect"
  /\ loop' = "channel"
  /\ conn' = [conn EXCEPT ![cur] = "open"]
  /\ UNCHANGED <<cur, delay, held, chan, consumer, asked, work, shutdown, budget>>

(* connectWithTimeout rejects: refused, or the outer timer fired while       *)
(* connect() is still unsettled.                                             *)
ConnectFails ==
  /\ Alive /\ loop = "connect"
  /\ Fault
  /\ \E c \in {"closed", "late"} : conn' = [conn EXCEPT ![cur] = c]
  /\ AfterSession
  /\ UNCHANGED <<chan, consumer, asked, work, shutdown>>

\* Mutant: the orphaned attempt is left to itself.
LateConnectKept(s) ==
  /\ Alive /\ conn[s] = "late"
  /\ conn' = [conn EXCEPT ![s] = "open"]
  /\ UNCHANGED <<session, chan, consumer, asked, work, shutdown, budget>>

(* The orphaned attempt settles after all; its connection is closed.         *)
LateConnect(s) ==
  /\ Alive /\ conn[s] = "late"
  /\ conn' = [conn EXCEPT ![s] = "open"]
  /\ asked' = asked \cup {s}
  /\ UNCHANGED <<session, chan, consumer, work, shutdown, budget>>

(* createConfirmChannel resolves, and the listeners of `closed` are set.     *)
ChannelOpened ==
  /\ Alive /\ loop = "channel" /\ conn[cur] = "open"
  /\ loop' = "prefetch"
  /\ chan' = [chan EXCEPT ![cur] = "open"]
  /\ UNCHANGED <<cur, delay, held, conn, consumer, asked, work, shutdown, budget>>

\* Mutant: the fields are set before consume() has returned.
PrefetchedReady ==
  /\ Alive /\ loop = "prefetch" /\ Online(cur)
  /\ loop' = "consume"
  /\ held' = cur
  /\ UNCHANGED <<cur, delay, broker, work, shutdown, budget>>

(* prefetch() is answered, and consume() is sent.                            *)
Prefetched ==
  /\ Alive /\ loop = "prefetch" /\ Online(cur)
  /\ loop' = "consume"
  /\ UNCHANGED <<cur, delay, held, broker, work, shutdown, budget>>

(* The broker starts the consumer; deliveries may arrive before consume()    *)
(* has returned.                                                             *)
BrokerRegisters ==
  /\ loop = "consume" /\ Online(cur) /\ consumer[cur] = "none"
  /\ consumer' = [consumer EXCEPT ![cur] = "registered"]
  /\ UNCHANGED <<session, conn, chan, asked, work, shutdown, budget>>

(* consume() returns: the fields are set, also while stopping.               *)
Consuming ==
  /\ Alive /\ loop = "consume" /\ consumer[cur] # "none"
  /\ loop' = "consuming"
  /\ held' = cur
  /\ UNCHANGED <<cur, delay, broker, work, shutdown, budget>>

\* The finally block up to its await.
Finally ==
  /\ loop' = "closing"
  /\ held' = 0
  /\ asked' = asked \cup {cur}
  /\ UNCHANGED <<cur, delay, conn, work, shutdown>>

\* Mutant: a timer around the setup gives up on a consumer that is running.
SetupFailsOnTimer ==
  /\ Alive /\ loop \in Setup
  /\ Fault
  /\ Finally
  /\ UNCHANGED <<chan, consumer>>

(* A step of the setup fails: the connection or channel closed under it, or  *)
(* the broker refused it and closed the channel.                             *)
SetupFails ==
  /\ Alive /\ loop \in Setup
  /\ \/ Closed(cur) /\ UNCHANGED <<chan, budget>>
     \/ /\ conn[cur] = "open" /\ ~Closed(cur) /\ consumer[cur] = "none"
        /\ Fault
        /\ chan' = [chan EXCEPT ![cur] = "closed"]
  /\ Finally
  /\ UNCHANGED consumer

\* Mutant: only the connection's 'close' event settles `closed`.
SessionEndsByConnection ==
  /\ Alive /\ loop = "consuming" /\ conn[cur] = "closed"
  /\ Finally
  /\ UNCHANGED <<chan, consumer, budget>>

(* `closed` is settled: the session is over.                                 *)
SessionEnds ==
  /\ Alive /\ loop = "consuming" /\ Closed(cur)
  /\ Finally
  /\ UNCHANGED <<chan, consumer, budget>>

(* The close() of the finally block is answered, fails or times out.         *)
CloseReturns ==
  /\ Alive /\ loop = "closing"
  /\ AfterSession
  /\ UNCHANGED <<broker, work, shutdown, budget>>

(* The back-off is over, or wake() was called: while (!this.stopping).       *)
Wakes ==
  /\ Alive /\ loop = "sleep"
  /\ IF stopping THEN loop' = "ended" /\ UNCHANGED cur
     ELSE cur + 1 \in Sessions /\ loop' = "connect" /\ cur' = cur + 1
  /\ UNCHANGED <<delay, held, broker, work, shutdown, budget>>

-----------------------------------------------------------------------------
(* The broker and the network.                                               *)

\* The process learns that connection s is gone: its channel closes too.
Gone(s) ==
  /\ conn' = [conn EXCEPT ![s] = "closed"]
  /\ chan' = [chan EXCEPT ![s] = IF @ = "open" THEN "closed" ELSE @]
  /\ consumer' = [consumer EXCEPT ![s] = IF @ = "none" THEN @ ELSE "gone"]

(* close() is answered.                                                      *)
CloseAnswered(s) ==
  /\ Alive /\ s \in asked /\ conn[s] = "open"
  /\ Gone(s)
  /\ UNCHANGED <<session, asked, work, shutdown, budget>>

(* The broker disappears; the process does not know yet.                     *)
LoseConnection(s) ==
  /\ Alive /\ conn[s] = "open"
  /\ Fault
  /\ conn' = [conn EXCEPT ![s] = "lost"]
  /\ UNCHANGED <<session, chan, consumer, asked, work, shutdown>>

(* The socket error or the missed heartbeat.                                 *)
NoticeLoss(s) ==
  /\ Alive /\ conn[s] = "lost"
  /\ Gone(s)
  /\ UNCHANGED <<session, asked, work, shutdown, budget>>

(* The broker closes the channel only.                                       *)
BrokerClosesChannel(s) ==
  /\ Alive /\ Online(s)
  /\ Fault
  /\ chan' = [chan EXCEPT ![s] = "closed"]
  /\ consumer' = [consumer EXCEPT ![s] = IF @ = "none" THEN @ ELSE "gone"]
  /\ UNCHANGED <<session, conn, asked, work, shutdown>>

(* The queue is deleted: the broker cancels the consumer and leaves the      *)
(* channel open.  The consume callback gets null and ignores it.             *)
DeleteQueue(s) ==
  /\ Alive /\ Delivering(s)
  /\ deletes < MaxDeletes /\ deletes' = deletes + 1
  /\ consumer' = [consumer EXCEPT ![s] = "deleted"]
  /\ UNCHANGED <<session, conn, chan, asked, work, shutdown, faults>>

(* A delivery: the callback starts a handler and tracks it.                  *)
Deliver(s, d) ==
  /\ Alive /\ Delivering(s) /\ work[d] = "none"
  /\ work' = [work EXCEPT ![d] = "running"]
  /\ UNCHANGED <<session, broker, shutdown, budget>>

(* handleMessage returns; track() forgets it.                                *)
Finish(d) ==
  /\ Alive /\ work[d] = "running"
  /\ work' = [work EXCEPT ![d] = "finished"]
  /\ UNCHANGED <<session, broker, shutdown, budget>>

-----------------------------------------------------------------------------
(* onModuleDestroy.                                                          *)

(* SIGTERM: stopping is set, the sleeping loop woken, and the consumer of    *)
(* the established session cancelled.  Without one the drain begins at once. *)
Sigterm ==
  /\ down = "no"
  /\ stopping' = TRUE
  /\ calm' = (loop \notin Setup \cup {"connect"})
  /\ IF held # 0
     THEN /\ down' = "cancel"
          /\ consumer' = [consumer EXCEPT ![held] = IF @ = "registered" THEN "cancelling" ELSE @]
          /\ UNCHANGED waitFor
     ELSE /\ down' = "drain"
          /\ waitFor' = Running
          /\ UNCHANGED consumer
  /\ UNCHANGED <<session, conn, chan, asked, work, overrun, budget>>

(* The broker processes the cancel.                                          *)
CancelAnswered(s) ==
  /\ Alive /\ Online(s) /\ consumer[s] = "cancelling"
  /\ consumer' = [consumer EXCEPT ![s] = "gone"]
  /\ UNCHANGED <<session, conn, chan, asked, work, shutdown, budget>>

\* Mutant: cancel() is sent and not awaited.
CancelReturnsUnawaited ==
  /\ down = "cancel"
  /\ down' = "drain"
  /\ waitFor' = Running
  /\ UNCHANGED <<session, broker, work, stopping, overrun, calm, budget>>

(* cancel() is answered, fails or times out; the drain takes its snapshot.   *)
CancelReturns ==
  /\ down = "cancel"
  /\ down' = "drain"
  /\ waitFor' = Running
  /\ overrun' = (overrun \/ consumer[cur] = "cancelling")
  /\ UNCHANGED <<session, broker, work, stopping, calm, budget>>

(* Every handler of the snapshot has returned, or the drain timer fired; the *)
(* connection of an established session is asked to close.                   *)
DrainReturns ==
  /\ down = "drain"
  /\ overrun' = (overrun \/ waitFor \cap Running # {})
  /\ IF held # 0 THEN down' = "close" /\ asked' = asked \cup {held}
                 ELSE down' = "loop" /\ UNCHANGED asked
  /\ UNCHANGED <<session, conn, chan, consumer, work, stopping, waitFor, calm, budget>>

(* close() is answered, fails or times out.                                  *)
ShutdownCloseReturns ==
  /\ down = "close"
  /\ down' = "loop"
  /\ UNCHANGED <<session, broker, work, stopping, waitFor, overrun, calm, budget>>

\* Mutant: the run loop is awaited without a limit.
LoopReturnsUnbounded ==
  /\ down = "loop" /\ loop = "ended"
  /\ down' = "server"
  /\ UNCHANGED <<session, broker, work, stopping, waitFor, overrun, calm, budget>>

(* The run loop has ended, or the last timer fired.                          *)
LoopReturns ==
  /\ down = "loop"
  /\ down' = "server"
  /\ UNCHANGED <<session, broker, work, stopping, waitFor, overrun, calm, budget>>

(* Nest closes the HTTP server once onModuleDestroy has returned; it waits   *)
(* for the requests that are being answered and has no limit.                *)
ServerCloses ==
  /\ down = "server"
  /\ down' = "flush"
  /\ UNCHANGED <<session, broker, work, stopping, waitFor, overrun, calm, budget>>

(* onApplicationShutdown: the telemetry flush.                               *)
FlushReturns ==
  /\ down = "flush"
  /\ down' = "pool"
  /\ UNCHANGED <<session, broker, work, stopping, waitFor, overrun, calm, budget>>

(* The pool closes when no handler holds one of its clients (it has no limit *)
(* either; a handler that runs may hold none), and process.exit follows:     *)
(* what still runs is cut off.                                               *)
Exit ==
  /\ down = "pool"
  /\ down' = "exited"
  /\ work' = [d \in Deliveries |-> IF work[d] = "running" THEN "cut" ELSE work[d]]
  /\ UNCHANGED <<session, broker, stopping, waitFor, overrun, calm, budget>>

-----------------------------------------------------------------------------
LoopStep ==
  \/ Connected \/ ConnectFails \/ ChannelOpened \/ Prefetched \/ Consuming
  \/ SetupFails \/ SessionEnds \/ CloseReturns \/ Wakes

BrokerStep(s) == LateConnect(s) \/ CloseAnswered(s) \/ NoticeLoss(s)

ShutdownStep ==
  \/ CancelReturns \/ DrainReturns \/ ShutdownCloseReturns \/ LoopReturns
  \/ ServerCloses \/ FlushReturns

Next ==
  \/ LoopStep \/ BrokerRegisters \/ ShutdownStep \/ Exit \/ Sigterm
  \/ \E s \in Sessions : \/ BrokerStep(s) \/ LoseConnection(s) \/ BrokerClosesChannel(s)
                         \/ DeleteQueue(s) \/ CancelAnswered(s)
                         \/ \E d \in Deliveries : Deliver(s, d)
  \/ \E d \in Deliveries : Finish(d)

(* The event loop runs every continuation and timer, a missed heartbeat is   *)
(* noticed, a broker that is reachable answers the setup, the HTTP requests  *)
(* are answered, and a pool none of whose clients is out closes.  SIGTERM,   *)
(* deliveries, handlers and faults owe nothing, nor do the answers to        *)
(* cancel() and close().                                                     *)
Spec ==
  /\ Init /\ [][Next]_vars
  /\ WF_vars(LoopStep) /\ WF_vars(BrokerRegisters) /\ WF_vars(ShutdownStep)
  /\ \A s \in Sessions : WF_vars(NoticeLoss(s))
  /\ WF_vars(Exit /\ Running = {})

-----------------------------------------------------------------------------
(* Every variable has its type, and the back-off is between one second and   *)
(* its cap.                                                                  *)
TypeOK ==
  /\ loop \in {"connect", "consuming", "closing", "sleep", "ended"} \cup Setup
  /\ cur \in Sessions /\ delay \in 1..MAX_BACKOFF /\ held \in Sessions \cup {0}
  /\ conn \in [Sessions -> {"none", "late", "open", "lost", "closed"}]
  /\ chan \in [Sessions -> {"none", "open", "closed"}]
  /\ consumer \in [Sessions -> {"none", "registered", "cancelling", "deleted", "gone"}]
  /\ asked \subseteq Sessions
  /\ work \in [Deliveries -> {"none", "running", "finished", "cut"}]
  /\ down \in {"no", "cancel", "drain", "close", "loop", "server", "flush", "pool", "exited"}
  /\ stopping \in BOOLEAN /\ overrun \in BOOLEAN /\ calm \in BOOLEAN
  /\ waitFor \subseteq Deliveries
  /\ faults \in 0..MaxFaults /\ deletes \in 0..MaxDeletes

isConnected == held # 0 /\ ~stopping

(* Readiness (isConnected) is reported only by a process that consumes, or   *)
(* whose session was lost without notice or lost its queue.                  *)
ReadyMeansConsuming ==
  isConnected =>
    Delivering(held) \/ Closed(held) \/ conn[held] = "lost" \/ consumer[held] = "deleted"

(* At most one session delivers, however often the loop reconnects and       *)
(* however late the old connections close: WORKER_PREFETCH bounds what one   *)
(* process has in flight.                                                    *)
OneConsumer ==
  \A s, t \in Sessions : Delivering(s) /\ Delivering(t) => s = t

(* A shutdown that met no session being set up, and none of whose cancel and *)
(* drain timers fired, has let every handler finish.                         *)
CalmExitDrained ==
  down = "exited" /\ calm /\ ~overrun => \A d \in Deliveries : work[d] # "cut"

(* NFR-6 and the comment of onModuleDestroy: the handlers in flight finish   *)
(* unless a timer fires.                                                     *)
ExitDrained ==
  down = "exited" /\ ~overrun => \A d \in Deliveries : work[d] # "cut"

(* A connection that is open is the one of the session in progress, or       *)
(* close() was called on it: however a connect timer, a failed setup, a lost *)
(* channel and SIGTERM meet, no connection is forgotten to hold its consumer *)
(* and its deliveries.                                                       *)
NoConnectionForgotten ==
  \A s \in Sessions :
    conn[s] = "open" => s \in asked \/ (s = cur /\ loop \in Setup \cup {"consuming"})

(* SIGTERM ends the process, whatever the broker does and wherever it meets  *)
(* the run loop.  The one thing it may wait for without end is the pool, for *)
(* a handler whose statement the database never answers.                     *)
SigtermExits == stopping ~> (down = "exited" \/ [](down = "pool" /\ Running # {}))

(* Once the faults are over, the process consumes for good, is stopped, or   *)
(* sits in a session whose queue was deleted under it.                       *)
EventuallyConsuming ==
  <>[](stopping \/ (held # 0 /\ (Delivering(held) \/ consumer[held] = "deleted")))

(* What consumer.service.ts:171 says, that a deleted queue ends the session   *)
(* and leads to a reconnect; the README tells of it.                          *)
ReconnectsAfterDelete == <>[](stopping \/ (held # 0 /\ Delivering(held)))
=============================================================================

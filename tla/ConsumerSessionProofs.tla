------------------------ MODULE ConsumerSessionProofs ------------------------
(***************************************************************************)
(* What ConsumerSession promises for any number of faults, deliveries and    *)
(* wherever its time limits cut in.  Each clause of the inductive invariant  *)
(* is about one pair of the actors: the run loop and the broker, the run     *)
(* loop and the shutdown, the shutdown and the handlers.                     *)
(***************************************************************************)
EXTENDS ConsumerSession, TLAPS

\* How far the session of the run loop is known to the broker.
CurrentSession ==
  /\ loop = "connect" => conn[cur] = "none"
  /\ loop \in {"connect", "channel"} => chan[cur] = "none"
  /\ loop \in {"prefetch", "consume", "consuming"} => chan[cur] # "none"
  /\ loop \in {"connect", "channel", "prefetch"} => consumer[cur] = "none"
  /\ loop = "consuming" => consumer[cur] # "none"
  /\ loop \in {"closing", "sleep", "ended"} => chan[cur] # "open"
  /\ held = IF loop = "consuming" THEN cur ELSE 0

\* Sessions to come are untouched, and those of the past have no channel.
OtherSessions ==
  \A s \in Sessions :
    /\ s > cur => conn[s] = "none" /\ chan[s] = "none"
    /\ s < cur => chan[s] # "open"

\* A consumer lives on a channel, and a channel on a connection.
Layers ==
  \A s \in Sessions :
    /\ chan[s] = "none" => consumer[s] = "none"
    /\ conn[s] \in {"none", "late"} => chan[s] = "none"
    /\ conn[s] = "closed" => chan[s] # "open"
    /\ consumer[s] = "gone" => chan[s] = "closed" \/ stopping
    /\ consumer[s] = "cancelling" => stopping

\* From SIGTERM on; a calm shutdown leaves the loop no session to set up.
Stopping ==
  /\ stopping <=> down # "no"
  /\ down = "no" => ~calm /\ ~overrun
  /\ calm => loop \in {"consuming", "closing", "sleep", "ended"}
  /\ calm => consumer[cur] # "registered" \/ chan[cur] # "open"

Silent == \A s \in Sessions : ~Delivering(s)

\* What the drain waits for is all there is, and nothing is added to it.
Draining ==
  /\ \A d \in Deliveries : work[d] = "cut" => down = "exited"
  /\ calm /\ ~overrun =>
       /\ down \notin {"no", "cancel"} => Silent
       /\ down = "drain" => Running \subseteq waitFor
       /\ down \in {"close", "loop", "server", "flush", "pool", "exited"} => Running = {}
       /\ \A d \in Deliveries : work[d] # "cut"

Inv == TypeOK /\ CurrentSession /\ OtherSessions /\ Layers /\ Stopping /\ Draining

-----------------------------------------------------------------------------
BrokerMoves ==
  BrokerRegisters \/ \E s \in Sessions :
    \/ BrokerStep(s) \/ LoseConnection(s) \/ BrokerClosesChannel(s)
    \/ DeleteQueue(s) \/ CancelAnswered(s)
WorkMoves ==
  \/ \E s \in Sessions, d \in Deliveries : Deliver(s, d)
  \/ \E d \in Deliveries : Finish(d)
Ending == ShutdownStep \/ Exit

(* The five kinds of step, and what each of them leaves alone.               *)
LEMMA Kinds ==
  ASSUME [Next]_vars
  PROVE  LoopStep \/ BrokerMoves \/ WorkMoves \/ Ending \/ Sigterm \/ UNCHANGED vars
BY DEF Next, BrokerMoves, WorkMoves, Ending

(* The run loop does not touch the handlers or the shutdown.                 *)
LEMMA LoopFrame == LoopStep => UNCHANGED <<work, shutdown>>
BY DEF LoopStep, Connected, ConnectFails, ChannelOpened, Prefetched, Consuming, SetupFails,
   SessionEnds, CloseReturns, Wakes, Finally, shutdown

(* The broker does not touch the run loop, the handlers or the shutdown.     *)
LEMMA BrokerFrame == BrokerMoves => UNCHANGED <<session, work, shutdown>>
BY DEF BrokerMoves, BrokerRegisters, BrokerStep, LateConnect, CloseAnswered, NoticeLoss,
   LoseConnection, BrokerClosesChannel, DeleteQueue, CancelAnswered

(* A handler that begins or ends changes nothing but itself.                 *)
LEMMA WorkFrame == WorkMoves => UNCHANGED <<session, broker, shutdown, budget>>
BY DEF WorkMoves, Deliver, Finish

(* The shutdown leaves the run loop alone, and the connection but for close. *)
LEMMA ShutdownFrame ==
  Ending => UNCHANGED <<session, conn, chan, consumer, budget, stopping, calm>>
BY ZenonT(60)
DEF Ending, ShutdownStep, CancelReturns, DrainReturns, ShutdownCloseReturns, LoopReturns,
    ServerCloses, FlushReturns, Exit, broker

-----------------------------------------------------------------------------
(* Every step keeps the types.                                               *)
LEMMA TypeStep == Inv /\ [Next]_vars => TypeOK'
<1> SUFFICES ASSUME Inv, [Next]_vars PROVE TypeOK'
  OBVIOUS
<1> USE ConstantsAssumption DEF TypeOK
<1> TypeOK
  BY DEF Inv
<1>0. LoopStep \/ BrokerMoves \/ WorkMoves \/ Ending \/ Sigterm \/ UNCHANGED vars
  BY Kinds
<1>a. nextDelay(TRUE) \in 1..MAX_BACKOFF /\ nextDelay(FALSE) \in 1..MAX_BACKOFF
  BY DEF nextDelay
<1>b. AfterSession => /\ loop' \in {"ended", "sleep"} /\ delay' \in 1..MAX_BACKOFF
                      /\ UNCHANGED <<cur, held>>
  BY <1>a, ZenonT(60) DEF AfterSession
<1>1. CASE LoopStep
  <2>1. CASE Connected
    BY <2>1 DEF Connected, Setup, shutdown, budget
  <2>2. CASE ConnectFails
    BY <2>2, <1>b DEF ConnectFails, Fault, shutdown
  <2>3. CASE ChannelOpened
    BY <2>3 DEF ChannelOpened, Setup, shutdown, budget
  <2>4. CASE Prefetched
    BY <2>4 DEF Prefetched, Setup, broker, shutdown, budget
  <2>5. CASE Consuming
    BY <2>5 DEF Consuming, broker, shutdown, budget
  <2>6. CASE SetupFails
    BY <2>6 DEF SetupFails, Finally, Fault, shutdown, budget
  <2>7. CASE SessionEnds
    BY <2>7 DEF SessionEnds, Finally, shutdown, budget
  <2>8. CASE CloseReturns
    BY <2>8, <1>b DEF CloseReturns, broker, shutdown, budget
  <2>9. CASE Wakes
    BY <2>9 DEF Wakes, broker, shutdown, budget
  <2> QED
    BY <1>1, <2>1, <2>2, <2>3, <2>4, <2>5, <2>6, <2>7, <2>8, <2>9 DEF LoopStep
<1>2. CASE BrokerMoves
  <2>1. CASE BrokerRegisters
    BY <2>1 DEF BrokerRegisters, session, shutdown, budget
  <2>2. ASSUME NEW s \in Sessions, BrokerStep(s) PROVE TypeOK'
    BY <2>2 DEF BrokerStep, LateConnect, CloseAnswered, NoticeLoss, Gone, session, shutdown, budget
  <2>3. ASSUME NEW s \in Sessions, LoseConnection(s) PROVE TypeOK'
    BY <2>3 DEF LoseConnection, Fault, session, shutdown
  <2>4. ASSUME NEW s \in Sessions, BrokerClosesChannel(s) PROVE TypeOK'
    BY <2>4 DEF BrokerClosesChannel, Fault, session, shutdown
  <2>5. ASSUME NEW s \in Sessions, DeleteQueue(s) PROVE TypeOK'
    BY <2>5 DEF DeleteQueue, session, shutdown
  <2>6. ASSUME NEW s \in Sessions, CancelAnswered(s) PROVE TypeOK'
    BY <2>6 DEF CancelAnswered, session, shutdown, budget
  <2> QED
    BY <1>2, <2>1, <2>2, <2>3, <2>4, <2>5, <2>6 DEF BrokerMoves
<1>3. CASE WorkMoves
  BY <1>3 DEF WorkMoves, Deliver, Finish, session, broker, shutdown, budget
<1>4. CASE Sigterm
  BY <1>4 DEF Sigterm, Running, session, budget
<1>5. CASE Ending
  <2> Running \subseteq Deliveries
    BY DEF Running
  <2>1. CASE CancelReturns
    BY <2>1 DEF CancelReturns, session, broker, budget
  <2>2. CASE DrainReturns
    BY <2>2 DEF DrainReturns, session, budget
  <2>3. CASE ShutdownCloseReturns
    BY <2>3 DEF ShutdownCloseReturns, session, broker, budget
  <2>4. CASE LoopReturns
    BY <2>4 DEF LoopReturns, session, broker, budget
  <2>6. CASE ServerCloses \/ FlushReturns
    BY <2>6 DEF ServerCloses, FlushReturns, session, broker, budget
  <2>5. CASE Exit
    BY <2>5 DEF Exit, session, broker, budget
  <2> QED
    BY <1>5, <2>1, <2>2, <2>3, <2>4, <2>5, <2>6 DEF Ending, ShutdownStep
<1>6. CASE UNCHANGED vars
  BY <1>6, ZenonT(60) DEF vars, session, broker, shutdown, budget
<1> QED
  BY <1>0, <1>1, <1>2, <1>3, <1>4, <1>5, <1>6

-----------------------------------------------------------------------------
Books == CurrentSession /\ OtherSessions /\ Layers

(* A turn of the run loop opens and leaves its own session only.             *)
LEMMA LoopBooks == Inv /\ LoopStep => Books'
<1> SUFFICES ASSUME Inv, LoopStep PROVE Books'
  OBVIOUS
<1> USE ConstantsAssumption DEF Books, CurrentSession, OtherSessions, Layers
<1> TypeOK /\ Books
  BY DEF Inv
<1> UNCHANGED stopping
  BY LoopFrame DEF shutdown
<1> USE DEF TypeOK, Sessions
<1>1. CASE Connected
  BY <1>1 DEF Connected
<1>2. CASE ConnectFails
  BY <1>2 DEF ConnectFails, AfterSession
<1>3. CASE ChannelOpened
  BY <1>3 DEF ChannelOpened
<1>4. CASE Prefetched
  BY <1>4 DEF Prefetched, broker
<1>5. CASE Consuming
  BY <1>5 DEF Consuming, broker
<1>6. CASE SetupFails
  BY <1>6 DEF SetupFails, Finally, Closed, Setup
<1>7. CASE SessionEnds
  BY <1>7 DEF SessionEnds, Finally, Closed
<1>8. CASE CloseReturns
  BY <1>8 DEF CloseReturns, AfterSession, broker
<1>9. CASE Wakes
  <2>1. UNCHANGED <<held, broker, work, shutdown>> /\ loop = "sleep"
    BY <1>9, ZenonT(60) DEF Wakes
  <2>2. CASE stopping
    BY <1>9, <2>1, <2>2 DEF Wakes, broker
  <2>3. CASE ~stopping
    <3>1. loop' = "connect" /\ cur' = cur + 1 /\ cur + 1 \in Sessions
      BY <1>9, <2>3, ZenonT(60) DEF Wakes
    <3>2. UNCHANGED <<held, conn, chan, consumer>> /\ held = 0 /\ chan[cur] # "open"
      BY <2>1, ZenonT(60) DEF broker
    <3>3. conn[cur + 1] = "none" /\ chan[cur + 1] = "none" /\ consumer[cur + 1] = "none"
      BY <3>1
    <3>4. CurrentSession'
      BY <3>1, <3>2, <3>3, ZenonT(60)
    <3>5. \A s \in Sessions : (s > cur + 1 => s > cur) /\ (s < cur + 1 => s < cur \/ s = cur)
      OBVIOUS
    <3>6. OtherSessions'
      BY <3>1, <3>2, <3>5, ZenonT(60)
    <3>7. Layers'
      BY <3>2, ZenonT(60)
    <3> QED BY <3>4, <3>6, <3>7, ZenonT(60)
  <2> QED BY <2>2, <2>3
<1> QED
  BY <1>1, <1>2, <1>3, <1>4, <1>5, <1>6, <1>7, <1>8, <1>9 DEF LoopStep

(* The broker and the network open no channel.                               *)
LEMMA BrokerBooks == Inv /\ BrokerMoves => Books'
<1> SUFFICES ASSUME Inv, BrokerMoves PROVE Books'
  OBVIOUS
<1> USE ConstantsAssumption DEF Books, CurrentSession, OtherSessions, Layers
<1> TypeOK /\ Books /\ Stopping
  BY DEF Inv
<1> UNCHANGED <<loop, cur, held, stopping>>
  BY BrokerFrame DEF session, shutdown
<1> USE DEF TypeOK, Sessions
<1>1. CASE BrokerRegisters
  BY <1>1 DEF BrokerRegisters, Online
<1>2. ASSUME NEW s \in Sessions, LateConnect(s) PROVE Books'
  BY <1>2 DEF LateConnect
<1>3. ASSUME NEW s \in Sessions, CloseAnswered(s) \/ NoticeLoss(s) PROVE Books'
  BY <1>3 DEF CloseAnswered, NoticeLoss, Gone
<1>4. ASSUME NEW s \in Sessions, LoseConnection(s) PROVE Books'
  BY <1>4 DEF LoseConnection
<1>5. ASSUME NEW s \in Sessions, BrokerClosesChannel(s) PROVE Books'
  BY <1>5 DEF BrokerClosesChannel, Online
<1>6. ASSUME NEW s \in Sessions, DeleteQueue(s) PROVE Books'
  BY <1>6 DEF DeleteQueue, Delivering, Online
<1>7. ASSUME NEW s \in Sessions, CancelAnswered(s) PROVE Books'
  BY <1>7 DEF CancelAnswered, Online
<1> QED
  BY <1>1, <1>2, <1>3, <1>4, <1>5, <1>6, <1>7 DEF BrokerMoves, BrokerStep

(* SIGTERM, the shutdown and the handlers leave the sessions to the loop.    *)
LEMMA BooksStep == Inv /\ [Next]_vars => Books'
<1> SUFFICES ASSUME Inv, [Next]_vars PROVE Books'
  OBVIOUS
<1> TypeOK /\ Books
  BY DEF Inv, Books
<1>0. LoopStep \/ BrokerMoves \/ WorkMoves \/ Ending \/ Sigterm \/ UNCHANGED vars
  BY Kinds
<1>1. CASE UNCHANGED <<loop, cur, held, conn, chan, consumer, stopping>>
  BY <1>1 DEF Books, CurrentSession, OtherSessions, Layers
<1>2. CASE Sigterm
  BY <1>2, ZenonT(60) DEF Sigterm, Books, CurrentSession, OtherSessions, Layers, TypeOK, session
<1> QED
  BY <1>0, <1>1, <1>2, LoopBooks, BrokerBooks, WorkFrame, ShutdownFrame
     DEF session, broker, shutdown, vars

-----------------------------------------------------------------------------
(* Once SIGTERM has met no setup, no step begins one.                        *)
LEMMA StoppingStep == Inv /\ [Next]_vars => Stopping'
<1> SUFFICES ASSUME Inv, [Next]_vars PROVE Stopping'
  OBVIOUS
<1> TypeOK /\ CurrentSession /\ OtherSessions /\ Layers /\ Stopping
  BY DEF Inv
<1> USE DEF Stopping
<1>0. LoopStep \/ BrokerMoves \/ WorkMoves \/ Ending \/ Sigterm \/ UNCHANGED vars
  BY Kinds
<1>1. CASE LoopStep
  <2> UNCHANGED <<down, stopping, overrun, calm>>
    BY <1>1, LoopFrame, ZenonT(60) DEF shutdown
  <2>1. ASSUME calm
        PROVE  /\ loop' \in {"consuming", "closing", "sleep", "ended"}
               /\ UNCHANGED <<cur, chan, consumer>>
    BY <1>1, <2>1 DEF LoopStep, Connected, ConnectFails, ChannelOpened, Prefetched, Consuming,
       SetupFails, SessionEnds, CloseReturns, Wakes, AfterSession, Finally, Setup, broker, TypeOK
  <2> QED
    BY <2>1
<1>2. CASE BrokerMoves
  <2> UNCHANGED <<loop, cur, down, stopping, overrun, calm>>
    BY <1>2, BrokerFrame DEF session, shutdown
  <2>1. ASSUME calm PROVE consumer'[cur] # "registered" \/ chan'[cur] # "open"
    BY <1>2, <2>1 DEF BrokerMoves, BrokerRegisters, BrokerStep, LateConnect, CloseAnswered,
       NoticeLoss, LoseConnection, BrokerClosesChannel, DeleteQueue, CancelAnswered, Gone, TypeOK
  <2> QED
    BY <2>1
<1>3. CASE WorkMoves
  BY <1>3, WorkFrame DEF session, broker, shutdown
<1>4. CASE Ending
  <2>1. down # "no" /\ down' # "no"
    BY <1>4, ZenonT(60)
    DEF Ending, ShutdownStep, CancelReturns, DrainReturns, ShutdownCloseReturns, LoopReturns,
    ServerCloses, FlushReturns, Exit
  <2> QED
    BY <2>1, <1>4, ShutdownFrame DEF session
<1>5. CASE Sigterm
  <2>1. stopping' /\ down' # "no" /\ UNCHANGED <<loop, cur, chan>>
    BY <1>5 DEF Sigterm, session
  <2>2. calm' => loop \in {"consuming", "closing", "sleep", "ended"}
    BY <1>5 DEF Sigterm, Setup, TypeOK
  <2>3. loop = "consuming" => consumer'[cur] # "registered"
    BY <1>5, ConstantsAssumption DEF Sigterm, CurrentSession, TypeOK, Sessions
  <2>4. loop \in {"closing", "sleep", "ended"} => chan[cur] # "open"
    BY DEF CurrentSession
  <2> QED
    BY <2>1, <2>2, <2>3, <2>4
<1>6. CASE UNCHANGED vars
  BY <1>6 DEF vars, session, broker, shutdown
<1> QED
  BY <1>0, <1>1, <1>2, <1>3, <1>4, <1>5, <1>6

(* Only the session of a loop that consumes, or is about to, delivers.       *)
LEMMA DeliversHere ==
  ASSUME Inv, NEW s \in Sessions, Delivering(s)
  PROVE  s = cur /\ loop \in {"consume", "consuming"} /\ chan[cur] = "open"
BY ConstantsAssumption DEF Inv, TypeOK, CurrentSession, OtherSessions, Layers, Delivering,
   Online, Sessions, Setup

(* After a calm SIGTERM no session starts to deliver.                        *)
LEMMA SilenceKept ==
  ASSUME Inv, [Next]_vars, calm, Silent
  PROVE  Silent'
<1> TypeOK /\ CurrentSession /\ OtherSessions /\ Layers /\ Stopping
  BY DEF Inv
<1> USE DEF Silent, Delivering, Online
<1>0. LoopStep \/ BrokerMoves \/ WorkMoves \/ Ending \/ Sigterm \/ UNCHANGED vars
  BY Kinds, ZenonT(60)
<1>1. CASE LoopStep
  BY <1>1 DEF LoopStep, Connected, ConnectFails, ChannelOpened, Prefetched, Consuming,
     SetupFails, SessionEnds, CloseReturns, Wakes, AfterSession, Finally, Setup, broker, TypeOK,
     Stopping
<1>2. CASE BrokerMoves
  BY <1>2 DEF BrokerMoves, BrokerRegisters, BrokerStep, LateConnect, CloseAnswered, NoticeLoss,
     LoseConnection, BrokerClosesChannel, DeleteQueue, CancelAnswered, Gone, TypeOK, Stopping,
     Layers
<1>3. CASE UNCHANGED <<conn, chan, consumer>>
  BY <1>3
<1> QED
  BY <1>0, <1>1, <1>2, <1>3, WorkFrame, ShutdownFrame, ZenonT(60)
  DEF broker, vars, Sigterm, Stopping

(* The drain of a calm shutdown sees every handler there will be.            *)
LEMMA DrainingStep == Inv /\ [Next]_vars => Draining'
<1> SUFFICES ASSUME Inv, [Next]_vars PROVE Draining'
  OBVIOUS
<1> TypeOK /\ CurrentSession /\ Stopping /\ Draining
  BY DEF Inv
<1> calm => (Silent => Silent')
  BY SilenceKept
<1> USE DEF Draining
<1>0. LoopStep \/ BrokerMoves \/ WorkMoves \/ Ending \/ Sigterm \/ UNCHANGED vars
  BY Kinds
<1>1. CASE UNCHANGED <<work, shutdown>>
  BY <1>1 DEF shutdown, Running
<1>2. CASE WorkMoves
  <2> UNCHANGED <<down, waitFor, overrun, calm>>
    BY <1>2, WorkFrame DEF shutdown
  <2>1. ASSUME NEW d \in Deliveries, work'[d] # work[d]
        PROVE  \/ work'[d] = "finished"
               \/ work'[d] = "running" /\ ~Silent /\ down # "exited"
    BY <1>2, <2>1 DEF WorkMoves, Deliver, Finish, Silent, Alive, TypeOK
  <2> QED
    BY <2>1 DEF Running
<1>3. CASE Sigterm
  <2>1. UNCHANGED <<work, overrun>> /\ down = "no" /\ down' \in {"cancel", "drain"}
    BY <1>3 DEF Sigterm
  <2>2. ASSUME calm', down' = "drain" PROVE Silent' /\ Running' \subseteq waitFor'
    <3>1. held = 0 /\ waitFor' = Running /\ UNCHANGED <<consumer, conn, chan>>
      BY <1>3, <2>2 DEF Sigterm
    <3>2. loop \notin Setup \cup {"connect"}
      BY <1>3, <2>2, ZenonT(60) DEF Sigterm
    <3>3. loop \in {"closing", "sleep", "ended"}
      BY <3>1, <3>2, ConstantsAssumption DEF CurrentSession, TypeOK, Sessions
    <3> QED
      BY <3>1, <3>3, <2>1, DeliversHere DEF Silent, Delivering, Online, Running
  <2> QED
    BY <2>1, <2>2
<1>4. CASE CancelReturns
  <2>1. UNCHANGED <<work, calm>> /\ down = "cancel" /\ down' = "drain" /\ waitFor' = Running
    BY <1>4 DEF CancelReturns
  <2>2. ASSUME calm, ~overrun' PROVE Silent'
    <3>1. consumer[cur] # "cancelling" /\ ~overrun /\ UNCHANGED <<conn, chan, consumer>>
      BY <1>4, <2>2, ZenonT(60) DEF CancelReturns, broker
    <3> QED
      BY <2>2, <3>1, DeliversHere DEF Silent, Delivering, Online, Stopping
  <2> QED
    BY <2>1, <2>2 DEF Running
<1>5. CASE DrainReturns
  <2>1. UNCHANGED <<work, calm>> /\ down = "drain" /\ down' \in {"close", "loop"}
    BY <1>5 DEF DrainReturns
  <2>2. ASSUME calm, ~overrun' PROVE ~overrun /\ Running = {}
    BY <1>5, <2>2, ZenonT(60) DEF DrainReturns
  <2> QED
    BY <2>1, <2>2 DEF Running
<1>6. CASE ShutdownCloseReturns \/ LoopReturns \/ ServerCloses \/ FlushReturns
  BY <1>6 DEF ShutdownCloseReturns, LoopReturns, ServerCloses, FlushReturns, Running
<1>7. CASE Exit
  BY <1>7 DEF Exit, Running, TypeOK
<1> QED
  BY <1>0, <1>1, <1>2, <1>3, <1>4, <1>5, <1>6, <1>7, LoopFrame, BrokerFrame
     DEF Ending, ShutdownStep, vars

-----------------------------------------------------------------------------
(* The invariant holds when the process starts.                              *)
LEMMA InitInv == Init => Inv
<1> SUFFICES ASSUME Init PROVE Inv
  OBVIOUS
<1> USE ConstantsAssumption DEF Init
<1>1. TypeOK
  <2>1. 1 \in Sessions /\ 1 \in 1..MAX_BACKOFF /\ 0 \in 0..MaxFaults /\ 0 \in 0..MaxDeletes
    BY DEF Sessions
  <2> QED
    BY <2>1, ZenonT(60) DEF TypeOK
<1>2. CurrentSession /\ OtherSessions /\ Layers
  BY DEF CurrentSession, OtherSessions, Layers, Sessions
<1>3. Stopping /\ Draining
  BY DEF Stopping, Draining
<1> QED
  BY <1>1, <1>2, <1>3 DEF Inv

(* Every step of the loop, the broker, the handlers, the shutdown keeps it.  *)
LEMMA NextInv == Inv /\ [Next]_vars => Inv'
BY TypeStep, BooksStep, StoppingStep, DrainingStep DEF Inv, Books

(* The clauses hold in every state of the process.                           *)
THEOREM Inductive == Spec => []Inv
BY InitInv, NextInv, PTL DEF Spec

(* Whatever the faults, the process answers ready only while it consumes, or *)
(* while the broker has not told it otherwise (isConnected).                 *)
THEOREM ReadyIsTrue == Spec => []ReadyMeansConsuming
<1>1. Inv => ReadyMeansConsuming
  BY DEF Inv, TypeOK, CurrentSession, Layers, ReadyMeansConsuming, isConnected, Delivering,
     Online, Closed
<1> QED
  BY Inductive, <1>1, PTL

(* However often the loop reconnects, the sessions it left behind deliver    *)
(* nothing: the prefetch bounds what one process has in flight.              *)
THEOREM SingleConsumer == Spec => []OneConsumer
<1>1. Inv => OneConsumer
  BY DeliversHere DEF OneConsumer
<1> QED
  BY Inductive, <1>1, PTL

(* No handler is cut off by a shutdown that met no setup and whose timers    *)
(* did not fire, for any number of deliveries in flight.                     *)
THEOREM DrainedExit == Spec => []CalmExitDrained
<1>1. Inv => CalmExitDrained
  BY DEF Inv, Draining, CalmExitDrained
<1> QED
  BY Inductive, <1>1, PTL

(* A connection the run loop is done with has been asked to close, and so    *)
(* has one that only came up after its timer had fired.                      *)
LEMMA ForgottenStep ==
  Inv /\ NoConnectionForgotten /\ [Next]_vars => NoConnectionForgotten'
<1> SUFFICES ASSUME Inv, NoConnectionForgotten, [Next]_vars PROVE NoConnectionForgotten'
  OBVIOUS
<1> TypeOK /\ CurrentSession /\ OtherSessions
  BY DEF Inv
<1>0. LoopStep \/ BrokerMoves \/ WorkMoves \/ Ending \/ Sigterm \/ UNCHANGED vars
  BY Kinds
<1>a. ASSUME UNCHANGED <<loop, cur>>, asked \subseteq asked',
             \A s \in Sessions : conn'[s] = "open" => conn[s] = "open" \/ s \in asked'
      PROVE  NoConnectionForgotten'
  BY <1>a DEF NoConnectionForgotten
<1>b. ASSUME UNCHANGED <<cur, conn>>, asked' = asked \cup {cur} PROVE NoConnectionForgotten'
  BY <1>b DEF NoConnectionForgotten
<1>c. ASSUME UNCHANGED <<cur, conn, asked>>,
             loop \in Setup \cup {"consuming"} => loop' \in Setup \cup {"consuming"}
      PROVE  NoConnectionForgotten'
  BY <1>c DEF NoConnectionForgotten
<1>1. CASE LoopStep
  <2>1. CASE Connected
    <3>1. \A s \in Sessions \ {cur} : conn'[s] = conn[s]
      BY <2>1 DEF Connected, TypeOK
    <3>2. UNCHANGED <<cur, asked>> /\ loop' \in Setup /\ loop \notin Setup \cup {"consuming"}
      BY <2>1 DEF Connected, Setup
    <3> QED BY <3>1, <3>2 DEF NoConnectionForgotten
  <2>2. CASE ConnectFails
    <3>1. /\ conn'[cur] # "open" /\ \A s \in Sessions \ {cur} : conn'[s] = conn[s]
          /\ UNCHANGED <<cur, asked>>
      BY <2>2 DEF ConnectFails, AfterSession, TypeOK
    <3> QED BY <3>1 DEF NoConnectionForgotten
  <2>3. CASE SetupFails \/ SessionEnds
    BY <1>b, <2>3 DEF SetupFails, SessionEnds, Finally
  <2>4. CASE ChannelOpened \/ Prefetched \/ Consuming
    BY <1>c, <2>4 DEF ChannelOpened, Prefetched, Consuming, Setup, broker
  <2>5. CASE CloseReturns
    BY <1>c, <2>5 DEF CloseReturns, AfterSession, Setup, broker
  <2>6. CASE Wakes
    <3>1. /\ UNCHANGED <<conn, asked>> /\ loop \notin Setup \cup {"consuming"}
      BY <2>6 DEF Wakes, Setup, broker
    <3> QED BY <3>1 DEF NoConnectionForgotten
  <2> QED BY <1>1, <2>1, <2>2, <2>3, <2>4, <2>5, <2>6, ZenonT(60) DEF LoopStep
<1>2. CASE BrokerMoves
  <2>1. UNCHANGED <<loop, cur>>
    BY <1>2, BrokerFrame DEF session
  <2>2. /\ asked \subseteq asked'
        /\ \A s \in Sessions : conn'[s] = "open" => conn[s] = "open" \/ s \in asked'
    BY <1>2 DEF BrokerMoves, BrokerRegisters, BrokerStep, LateConnect, CloseAnswered, NoticeLoss,
       LoseConnection, BrokerClosesChannel, DeleteQueue, CancelAnswered, Gone, TypeOK
  <2> QED BY <1>a, <2>1, <2>2
<1>3. CASE WorkMoves \/ Sigterm \/ UNCHANGED vars
  <2>1. UNCHANGED <<loop, cur, conn, asked>>
    BY <1>3, WorkFrame DEF Sigterm, session, broker, vars
  <2> QED BY <1>a, <2>1
<1>4. CASE Ending
  <2>1. UNCHANGED <<loop, cur, conn>>
    BY <1>4, ShutdownFrame DEF session
  <2>2. asked \subseteq asked'
    BY <1>4 DEF Ending, ShutdownStep, CancelReturns, DrainReturns, ShutdownCloseReturns, LoopReturns,
       ServerCloses, FlushReturns, Exit, broker
  <2> QED BY <1>a, <2>1, <2>2
<1> QED BY <1>0, <1>1, <1>2, <1>3, <1>4

(* However connect timers, failed setups, lost channels and SIGTERM meet, no *)
(* open connection is left without an owner or a close().                    *)
THEOREM EveryConnectionClosed == Spec => []NoConnectionForgotten
<1>1. Init => NoConnectionForgotten
  BY DEF Init, NoConnectionForgotten
<1> QED
  BY <1>1, Inductive, ForgottenStep, PTL DEF Spec
=============================================================================

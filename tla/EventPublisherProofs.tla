------------------------ MODULE EventPublisherProofs ------------------------
(***************************************************************************)
(* EventPublisher, for any number of publishes, attempts and faults: a       *)
(* closed channel is kept in one race only, no close() of the publisher's    *)
(* own but the shutdown's ends a publish in flight, and a connection is left *)
(* behind only where the broker closes a channel alone. All rest on where an *)
(* attempt is in open() and on whether it has a channel: what is stored or   *)
(* used for publishing has one and belongs to an open() that is over, what   *)
(* is closed as an orphan or after a failed open() has none.  Publishes that *)
(* wait for a connection share the one open() that runs.                     *)
(***************************************************************************)
EXTENDS EventPublisher, FiniteSetTheorems, TLAPS

\* An attempt has a channel exactly if its open() got that far.
Stages ==
  \A a \in Attempts :
    /\ open[a] \in {"none", "connect", "channel", "closing"} => chan[a] = "none"
    /\ open[a] = "replied" => chan[a] # "none"
    /\ conn[a] = "late" => open[a] = "over" /\ chan[a] = "none"

\* The stored channel.
Stored == fchan # 0 => open[fchan] = "over" /\ chan[fchan] # "none"

\* The stored connection is that of an attempt with a channel.
Kept == fconn # 0 => open[fconn] = "over" /\ chan[fconn] # "none"

\* Publishes in flight have the channel of an attempt, and wait for no stored one.
Using ==
  \A p \in Publishes :
    /\ step[p] \in {"opening", "sent"} => via[p] \in Attempts
    /\ step[p] = "sent" => chan[via[p]] # "none"

\* Before the shutdown, only connections without a channel are being closed.
Housekeeping ==
  ~destroyed => \A a \in asked : chan[a] = "none" /\ open[a] \in {"closing", "over"}

Inv == TypeOK /\ Stages /\ Stored /\ Kept /\ Using /\ Housekeeping
         /\ StaleOnlyByRace /\ OnlyShutdownAbandons

USE ConstantsAssumption

\* The initial states: nothing is open.
LEMMA InitInv == Init => Inv
<1> SUFFICES ASSUME Init PROVE Inv OBVIOUS
<1> USE DEF Init
<1>1. TypeOK
  <2>1. faults \in 0..MaxFaults /\ kills \in 0..MaxKills
    OBVIOUS
  <2> QED BY <2>1, ZenonT(60) DEF TypeOK, Attempts
<1>2. Stages /\ Stored /\ Kept /\ Using
  BY DEF Stages, Stored, Kept, Using
<1>3. Housekeeping /\ StaleOnlyByRace /\ OnlyShutdownAbandons
  BY ZenonT(60) DEF Housekeeping, StaleOnlyByRace, OnlyShutdownAbandons
<1> QED BY <1>1, <1>2, <1>3 DEF Inv

\* Every step of publish(), of open(), of the connections and of the shutdown
\* keeps the type invariant.
LEMMA TypeStep == TypeOK /\ [Next]_vars => TypeOK'
<1> SUFFICES ASSUME TypeOK, [Next]_vars PROVE TypeOK' OBVIOUS
<1> USE DEF TypeOK, Attempts
<1>1. ASSUME NEW p \in Publishes, Publish(p) PROVE TypeOK'
  <2>1. CASE fchan # 0
    <3>1. Send(fchan) \in {"failed", "abandoned", "sent"}
      BY DEF Send
    <3> QED BY <1>1, <2>1, <3>1 DEF Publish, links, budget
  <2>2. CASE fchan = 0
    <3>1. PICK a \in Attempts : startOpening(a) /\ via' = [via EXCEPT ![p] = a]
      BY <1>1, <2>2 DEF Publish
    <3>2. open' \in [Attempts -> {"none", "connect", "channel", "replied", "closing", "over"}]
          /\ opening' \in Attempts \cup {0}
      BY <3>1 DEF startOpening
    <3> QED BY <1>1, <2>2, <3>1, <3>2, ZenonT(60) DEF Publish, links, budget
  <2> QED BY <2>1, <2>2
<1>2. ASSUME NEW p \in Publishes, Confirm(p) \/ ConfirmTimer(p) PROVE TypeOK'
  BY <1>2, ZenonT(60) DEF Confirm, ConfirmTimer, links, fields, budget
<1>3. ASSUME NEW a \in Attempts, Connected(a) PROVE TypeOK'
  BY <1>3 DEF Connected, links, fields, calls, budget
<1>4. ASSUME NEW a \in Attempts, ConnectFails(a) PROVE TypeOK'
  BY <1>4 DEF ConnectFails, Settle, Fault, links
<1>5. ASSUME NEW a \in Attempts, ChannelReplied(a) PROVE TypeOK'
  BY <1>5 DEF ChannelReplied, fields, calls, budget
<1>6. ASSUME NEW a \in Attempts, OpenReturns(a) PROVE TypeOK'
  BY <1>6 DEF OpenReturns, Settle, Send, links, budget
<1>7. ASSUME NEW a \in Attempts, ChannelFails(a) PROVE TypeOK'
  BY <1>7 DEF ChannelFails, Fault, fields, calls, budget
<1>8. ASSUME NEW a \in Attempts, CloseReturns(a) PROVE TypeOK'
  BY <1>8 DEF CloseReturns, Settle, links, budget
<1>9. ASSUME NEW a \in Attempts, LateConnect(a) PROVE TypeOK'
  BY <1>9 DEF LateConnect, fields, calls, budget
<1>10. ASSUME NEW a \in Attempts, CloseAnswered(a) PROVE TypeOK'
  BY <1>10 DEF CloseAnswered, Gone, Reject, budget
<1>11. ASSUME NEW a \in Attempts, NoticeLoss(a) PROVE TypeOK'
  BY <1>11 DEF NoticeLoss, Gone, Reject, budget
<1>12. ASSUME NEW a \in Attempts, LoseConnection(a) PROVE TypeOK'
  BY <1>12 DEF LoseConnection, Fault, fields, calls
<1>13. ASSUME NEW a \in Attempts, KillChannel(a) PROVE TypeOK'
  BY <1>13 DEF KillChannel, Reject
<1>14. CASE Destroy
  BY <1>14 DEF Destroy, fields, calls, budget
<1>15. CASE UNCHANGED vars
  BY <1>15 DEF vars, links, fields, calls, budget
<1> QED
  BY <1>1, <1>2, <1>3, <1>4, <1>5, <1>6, <1>7, <1>8, <1>9, <1>10, <1>11, <1>12, <1>13, <1>14, <1>15, ZenonT(60)
  DEF Next, OpenStep, LinkStep

\* getChannel() starts an attempt that was not running, or joins one.
LEMMA StartOpeningStep ==
  ASSUME TypeOK, NEW a \in Attempts, startOpening(a)
  PROVE  \A b \in Attempts : open'[b] = open[b] \/ (open[b] = "none" /\ open'[b] = "connect")
<1>1. CASE opening # 0
  BY <1>1 DEF startOpening
<1>2. CASE opening = 0
  <2>1. open[a] = "none" /\ open' = [open EXCEPT ![a] = "connect"]
    BY <1>2 DEF startOpening
  <2> QED BY <2>1 DEF TypeOK
<1> QED BY <1>1, <1>2

\* Every step keeps the invariant.
LEMMA StepInv == Inv /\ [Next]_vars => Inv'
<1> SUFFICES ASSUME Inv, [Next]_vars PROVE Inv' OBVIOUS
<1>0. TypeOK'
  BY TypeStep DEF Inv
<1> USE DEF Inv, TypeOK, Attempts, Stages, Stored, Kept, Using, Housekeeping,
            StaleOnlyByRace, OnlyShutdownAbandons, Closed
<1>1. ASSUME NEW p \in Publishes, Publish(p) PROVE Inv'
  <2>1. CASE fchan # 0
    <3>1. Send(fchan) # "abandoned" \/ destroyed
      BY <2>1 DEF Send
    <3>2. Send(fchan) \in {"failed", "abandoned", "sent"}
      BY DEF Send
    <3> QED BY <1>0, <1>1, <2>1, <3>1, <3>2 DEF Publish, links, budget
  <2>2. CASE fchan = 0
    <3>1. PICK a \in Attempts : startOpening(a) /\ via' = [via EXCEPT ![p] = a]
      BY <1>1, <2>2 DEF Publish
    <3>2. \A b \in Attempts : open'[b] = open[b] \/ (open[b] = "none" /\ open'[b] = "connect")
      BY <3>1, StartOpeningStep
    <3>3. Stages' /\ Stored' /\ Kept' /\ Housekeeping' /\ StaleOnlyByRace'
      BY <1>1, <2>2, <3>2, ZenonT(60) DEF Publish, links, budget
    <3>4. Using' /\ OnlyShutdownAbandons'
      BY <1>1, <2>2, <3>1 DEF Publish, links
    <3> QED BY <1>0, <3>3, <3>4
  <2> QED BY <2>1, <2>2, ZenonT(60)
<1>2. ASSUME NEW p \in Publishes, Confirm(p) PROVE Inv'
  BY <1>0, <1>2 DEF Confirm, links, fields, budget
<1>3. ASSUME NEW p \in Publishes, ConfirmTimer(p) PROVE Inv'
  BY <1>0, <1>3 DEF ConfirmTimer, links, fields, budget
<1>4. ASSUME NEW a \in Attempts, Connected(a) PROVE Inv'
  BY <1>0, <1>4 DEF Connected, links, fields, calls, budget
<1>5. ASSUME NEW a \in Attempts, ConnectFails(a) PROVE Inv'
  BY <1>0, <1>5 DEF ConnectFails, Settle, Fault, links
<1>6. ASSUME NEW a \in Attempts, ChannelReplied(a) PROVE Inv'
  BY <1>0, <1>6 DEF ChannelReplied, fields, calls, budget
<1>7. ASSUME NEW a \in Attempts, OpenReturns(a) PROVE Inv'
  BY <1>0, <1>7 DEF OpenReturns, Settle, Send, links, budget
<1>8. ASSUME NEW a \in Attempts, ChannelFails(a) PROVE Inv'
  BY <1>0, <1>8 DEF ChannelFails, Fault, fields, calls, budget
<1>9. ASSUME NEW a \in Attempts, CloseReturns(a) PROVE Inv'
  BY <1>0, <1>9 DEF CloseReturns, Settle, links, budget
<1>10. ASSUME NEW a \in Attempts, LateConnect(a) PROVE Inv'
  BY <1>0, <1>10, ZenonT(60) DEF LateConnect, fields, calls, budget
<1>11. ASSUME NEW a \in Attempts, CloseAnswered(a) PROVE Inv'
  BY <1>0, <1>11 DEF CloseAnswered, Gone, Reject, budget
<1>12. ASSUME NEW a \in Attempts, NoticeLoss(a) PROVE Inv'
  BY <1>0, <1>12 DEF NoticeLoss, Gone, Reject, budget
<1>13. ASSUME NEW a \in Attempts, LoseConnection(a) PROVE Inv'
  BY <1>0, <1>13 DEF LoseConnection, Fault, fields, calls
<1>14. ASSUME NEW a \in Attempts, KillChannel(a) PROVE Inv'
  BY <1>0, <1>14 DEF KillChannel, Reject
<1>15. CASE Destroy
  BY <1>0, <1>15 DEF Destroy, fields, calls, budget
<1>16. CASE UNCHANGED vars
  BY <1>0, <1>16 DEF vars, links, fields, calls, budget
<1> QED
  BY <1>1, <1>2, <1>3, <1>4, <1>5, <1>6, <1>7, <1>8, <1>9, <1>10, <1>11, <1>12, <1>13, <1>14,
     <1>15, <1>16, ZenonT(60)
  DEF Next, OpenStep, LinkStep

\* The inductive invariant: what open() has reached, what is stored and used
\* belongs together at every await of publish(), open() and onModuleDestroy.
THEOREM Inductive == Spec => []Inv
<1>1. Init /\ [][Next]_vars => []Inv
  BY InitInv, StepInv, PTL
<1> QED BY <1>1, PTL DEF Spec

\* For any number of publishes, reconnects and faults, getChannel() hands out a
\* closed channel only if that closed before open() listened to it.
THEOREM OneRaceOnly == Spec => []StaleOnlyByRace
<1>1. Inv => StaleOnlyByRace
  BY DEF Inv
<1> QED BY <1>1, Inductive, PTL

\* No connection that the publisher closes before onModuleDestroy has a publish
\* in flight.
THEOREM HousekeepingIsSafe == Spec => []OnlyShutdownAbandons
<1>1. Inv => OnlyShutdownAbandons
  BY ZenonT(60) DEF Inv
<1> QED BY <1>1, Inductive, PTL

-----------------------------------------------------------------------------
\* At most one open() runs, and nothing is stored meanwhile.
OneOpen ==
  /\ \A a \in Attempts : open[a] \in {"connect", "channel", "replied", "closing"} => opening = a
  /\ opening # 0 => fchan = 0
  /\ fchan \in {0, fconn}

\* A connection has an open(), and is being closed if that failed.
FailedClosed ==
  \A a \in Attempts :
    /\ open[a] \in {"none", "connect"} => conn[a] = "none"
    /\ open[a] = "closing" => a \in asked
    /\ open[a] = "over" /\ chan[a] = "none" /\ conn[a] \in {"open", "lost"} => a \in asked

\* Connections that were stored once, still stand, and whose channel is not the
\* stored one.
Detached ==
  {a \in Attempts : conn[a] \in {"open", "lost"} /\ open[a] = "over" /\ chan[a] # "none" /\ a # fchan}

LeakInv == OneOpen /\ FailedClosed /\ Cardinality(Detached) <= kills

\* A step detaches nothing, or one connection whose channel the broker has
\* closed, or one in place of a detached one that closes.
DetachedStep ==
  \/ Detached' \subseteq Detached /\ kills' = kills
  \/ \E a \in Attempts : Detached' \subseteq Detached \cup {a} /\ kills' = kills + 1
  \/ \E x \in Detached, a \in Attempts :
       Detached' \subseteq (Detached \ {x}) \cup {a} /\ kills' = kills

\* The bookkeeping of open() and of the fields is kept.
LEMMA OneOpenStep == Inv /\ OneOpen /\ FailedClosed /\ [Next]_vars => OneOpen' /\ FailedClosed'
<1> SUFFICES ASSUME Inv, OneOpen, FailedClosed, [Next]_vars PROVE OneOpen' /\ FailedClosed' OBVIOUS
<1>0. TypeOK /\ Stages /\ Stored
  BY DEF Inv
<1> USE DEF TypeOK, Attempts, Stages, Stored, OneOpen, FailedClosed
<1>1. ASSUME NEW p \in Publishes, Publish(p) PROVE OneOpen' /\ FailedClosed'
  <2>1. CASE fchan # 0
    BY <1>0, <1>1, <2>1 DEF Publish, links
  <2>2. CASE fchan = 0
    <3>1. PICK a \in Attempts : startOpening(a)
      BY <1>1, <2>2 DEF Publish
    <3> QED BY <1>0, <1>1, <2>2, <3>1 DEF Publish, startOpening, links
  <2> QED BY <2>1, <2>2
<1>2. ASSUME NEW p \in Publishes, Confirm(p) \/ ConfirmTimer(p) PROVE OneOpen' /\ FailedClosed'
  BY <1>2 DEF Confirm, ConfirmTimer, links, fields
<1>4. ASSUME NEW a \in Attempts, Connected(a) PROVE OneOpen' /\ FailedClosed'
  BY <1>0, <1>4 DEF Connected, fields
<1>5. ASSUME NEW a \in Attempts, ConnectFails(a) PROVE OneOpen' /\ FailedClosed'
  BY <1>0, <1>5 DEF ConnectFails, Settle
<1>6. ASSUME NEW a \in Attempts, ChannelReplied(a) PROVE OneOpen' /\ FailedClosed'
  BY <1>0, <1>6 DEF ChannelReplied, fields
<1>7. ASSUME NEW a \in Attempts, OpenReturns(a) PROVE OneOpen' /\ FailedClosed'
  BY <1>0, <1>7 DEF OpenReturns, Settle, links
<1>8. ASSUME NEW a \in Attempts, ChannelFails(a) PROVE OneOpen' /\ FailedClosed'
  BY <1>0, <1>8 DEF ChannelFails, fields
<1>9. ASSUME NEW a \in Attempts, CloseReturns(a) PROVE OneOpen' /\ FailedClosed'
  BY <1>0, <1>9 DEF CloseReturns, Settle, links
<1>10. ASSUME NEW a \in Attempts, LateConnect(a) PROVE OneOpen' /\ FailedClosed'
  BY <1>0, <1>10 DEF LateConnect, fields
<1>11. ASSUME NEW a \in Attempts, CloseAnswered(a) \/ NoticeLoss(a) PROVE OneOpen' /\ FailedClosed'
  BY <1>0, <1>11 DEF CloseAnswered, NoticeLoss, Gone
<1>13. ASSUME NEW a \in Attempts, LoseConnection(a) PROVE OneOpen' /\ FailedClosed'
  BY <1>0, <1>13 DEF LoseConnection, fields
<1>14. ASSUME NEW a \in Attempts, KillChannel(a) PROVE OneOpen' /\ FailedClosed'
  BY <1>0, <1>14 DEF KillChannel
<1>15. CASE Destroy
  BY <1>0, <1>15 DEF Destroy, fields
<1>16. CASE UNCHANGED vars
  BY <1>16, ZenonT(60) DEF vars, links, fields
<1> QED
  BY <1>1, <1>2, <1>4, <1>5, <1>6, <1>7, <1>8, <1>9, <1>10, <1>11, <1>13, <1>14, <1>15, <1>16
  DEF Next, OpenStep, LinkStep

\* Only a channel that the broker closes alone detaches one more connection.
LEMMA DetachedByKill == Inv /\ OneOpen /\ FailedClosed /\ [Next]_vars => DetachedStep
<1> SUFFICES ASSUME Inv, OneOpen, FailedClosed, [Next]_vars PROVE DetachedStep OBVIOUS
<1>0. TypeOK /\ Stages /\ Stored
  BY DEF Inv
<1> USE DEF TypeOK, Attempts, Stages, Stored, OneOpen, Detached
<1>1. ASSUME NEW p \in Publishes, Publish(p) PROVE Detached' \subseteq Detached /\ kills' = kills
  <2>1. CASE fchan # 0
    BY <1>0, <1>1, <2>1 DEF Publish, links, budget
  <2>2. CASE fchan = 0
    <3>1. PICK a \in Attempts : startOpening(a)
      BY <1>1, <2>2 DEF Publish
    <3>2. \A b \in Attempts : open'[b] = open[b] \/ (open[b] = "none" /\ open'[b] = "connect")
      BY <1>0, <3>1, StartOpeningStep
    <3> QED BY <1>0, <1>1, <2>2, <3>2 DEF Publish, links, budget
  <2> QED BY <2>1, <2>2
<1>2. ASSUME NEW p \in Publishes, Confirm(p) \/ ConfirmTimer(p)
      PROVE  Detached' \subseteq Detached /\ kills' = kills
  BY <1>2 DEF Confirm, ConfirmTimer, links, fields, budget
<1>4. ASSUME NEW a \in Attempts, Connected(a) \/ ConnectFails(a) \/ ChannelReplied(a)
      PROVE  Detached' \subseteq Detached /\ kills' = kills
  BY <1>0, <1>4 DEF Connected, ConnectFails, ChannelReplied, Settle, Fault, fields, budget
<1>7. ASSUME NEW a \in Attempts, OpenReturns(a) PROVE Detached' \subseteq Detached /\ kills' = kills
  BY <1>0, <1>7 DEF OpenReturns, Settle, links, budget
<1>8. ASSUME NEW a \in Attempts, ChannelFails(a) \/ CloseReturns(a) \/ LateConnect(a)
      PROVE  Detached' \subseteq Detached /\ kills' = kills
  BY <1>0, <1>8 DEF ChannelFails, CloseReturns, LateConnect, Settle, Fault, links, fields, budget
<1>11. ASSUME NEW a \in Attempts, CloseAnswered(a) \/ NoticeLoss(a) PROVE DetachedStep
  <2>1. /\ conn[a] \in {"open", "lost"} /\ kills' = kills /\ UNCHANGED open
        /\ conn' = [conn EXCEPT ![a] = "closed"]
        /\ \A b \in Attempts \ {a} : chan'[b] = chan[b]
        /\ IF open[a] = "over" /\ chan[a] = "none" THEN fchan' = fchan ELSE fchan' = 0
    BY <1>0, <1>11 DEF CloseAnswered, NoticeLoss, Gone, budget
  <2>2. CASE fchan' = fchan \/ fchan = a
    <3>1. Detached' \subseteq Detached
      BY <1>0, <2>1, <2>2
    <3> QED BY <2>1, <3>1 DEF DetachedStep
  <2>3. CASE fchan' # fchan /\ fchan # a
    <3>1. fchan \in Attempts /\ fchan' = 0 /\ open[a] = "over" /\ chan[a] # "none"
      BY <1>0, <2>1, <2>3 DEF FailedClosed
    <3>2. a \in Detached
      BY <2>1, <2>3, <3>1
    <3>3. Detached' \subseteq (Detached \ {a}) \cup {fchan}
      BY <1>0, <2>1, <2>3, <3>1
    <3> QED BY <2>1, <3>1, <3>2, <3>3 DEF DetachedStep
  <2> QED BY <2>2, <2>3
<1>13. ASSUME NEW a \in Attempts, LoseConnection(a) PROVE Detached' \subseteq Detached /\ kills' = kills
  BY <1>0, <1>13 DEF LoseConnection, Fault, fields
<1>14. ASSUME NEW a \in Attempts, KillChannel(a)
       PROVE  Detached' \subseteq Detached \cup {a} /\ kills' = kills + 1
  BY <1>0, <1>14 DEF KillChannel
<1>15. CASE Destroy
  BY <1>0, <1>15 DEF Destroy, fields, budget, DetachedStep
<1>16. CASE UNCHANGED vars
  BY <1>16 DEF vars, links, fields, budget, DetachedStep
<1> QED
  BY <1>1, <1>2, <1>4, <1>7, <1>8, <1>11, <1>13, <1>14, <1>15, <1>16
  DEF Next, OpenStep, LinkStep, DetachedStep

\* So there are never more detached connections than channels so closed.
LEMMA LeakStep == Inv /\ Inv' /\ LeakInv /\ [Next]_vars => LeakInv'
<1> SUFFICES ASSUME Inv, Inv', LeakInv, [Next]_vars PROVE LeakInv' OBVIOUS
<1>1. OneOpen' /\ FailedClosed'
  BY OneOpenStep DEF LeakInv
<1>2. IsFiniteSet(Attempts)
  BY FS_Interval DEF Attempts
<1>3. Detached \subseteq Attempts /\ kills \in Nat /\ kills' \in Nat
  BY DEF Inv, TypeOK, Detached
<1>4. IsFiniteSet(Detached) /\ Cardinality(Detached) \in Nat /\ Cardinality(Detached) <= kills
  BY <1>2, <1>3, FS_Subset, FS_CardinalityType DEF LeakInv
<1>5. DetachedStep
  BY DetachedByKill DEF LeakInv
<1>a. ASSUME NEW S, IsFiniteSet(S), Cardinality(S) <= kills', Detached' \subseteq S
      PROVE  Cardinality(Detached') <= kills'
  <2>1. IsFiniteSet(Detached') /\ Cardinality(Detached') <= Cardinality(S)
    BY <1>a, FS_Subset
  <2>2. Cardinality(Detached') \in Nat /\ Cardinality(S) \in Nat
    BY <1>a, <2>1, FS_CardinalityType
  <2> QED BY <1>3, <1>a, <2>1, <2>2
<1>6. CASE Detached' \subseteq Detached /\ kills' = kills
  BY <1>1, <1>4, <1>6, <1>a DEF LeakInv
<1>7. ASSUME NEW a \in Attempts, Detached' \subseteq Detached \cup {a}, kills' = kills + 1
      PROVE  LeakInv'
  <2>1. /\ IsFiniteSet(Detached \cup {a})
        /\ Cardinality(Detached \cup {a}) \in {Cardinality(Detached), Cardinality(Detached) + 1}
    BY <1>4, FS_AddElement
  <2>2. Cardinality(Detached \cup {a}) <= kills'
    BY <1>3, <1>4, <1>7, <2>1
  <2> QED BY <1>1, <1>7, <1>a, <2>1, <2>2 DEF LeakInv
<1>8. ASSUME NEW x \in Detached, NEW a \in Attempts,
             Detached' \subseteq (Detached \ {x}) \cup {a}, kills' = kills
      PROVE  LeakInv'
  <2>1. IsFiniteSet(Detached \ {x}) /\ Cardinality(Detached \ {x}) = Cardinality(Detached) - 1
    BY <1>4, FS_RemoveElement
  <2> DEFINE S == Detached \ {x}
  <2> HIDE DEF S
  <2>2. /\ IsFiniteSet(S \cup {a})
        /\ Cardinality(S \cup {a}) \in {Cardinality(S), Cardinality(S) + 1}
    BY <2>1, FS_AddElement DEF S
  <2>3. Cardinality(S) = Cardinality(Detached) - 1
    BY <2>1 DEF S
  <2>4. Cardinality(S \cup {a}) <= kills'
    BY <1>3, <1>4, <1>8, <2>2, <2>3
  <2>5. Detached' \subseteq S \cup {a}
    BY <1>8 DEF S
  <2> QED BY <1>1, <1>a, <2>2, <2>4, <2>5 DEF LeakInv
<1> QED BY <1>5, <1>6, <1>7, <1>8 DEF DetachedStep

\* For any number of publishes, reconnects and faults, EventPublisher leaves
\* behind at most one connection for each channel the broker closes alone.
THEOREM LeaksAreBounded == Spec => []LeakBounded
<1>1. Init => LeakInv
  <2> SUFFICES ASSUME Init PROVE LeakInv OBVIOUS
  <2>1. Detached = {} /\ kills = 0 /\ OneOpen /\ FailedClosed
    BY DEF Init, Detached, OneOpen, FailedClosed
  <2> QED BY <2>1, FS_EmptySet DEF LeakInv
<1>2. Inv /\ LeakInv => LeakBounded
  <2> SUFFICES ASSUME Inv, LeakInv PROVE LeakBounded OBVIOUS
  <2>1. Forgotten \subseteq Detached
    BY DEF LeakInv, OneOpen, FailedClosed, Forgotten, Detached, Attempts
  <2>2. IsFiniteSet(Attempts) /\ Detached \subseteq Attempts
    BY FS_Interval DEF Attempts, Detached
  <2>3. IsFiniteSet(Detached)
    BY <2>2, FS_Subset
  <2>4. IsFiniteSet(Forgotten) /\ Cardinality(Forgotten) <= Cardinality(Detached)
    BY <2>1, <2>3, FS_Subset
  <2>5. Cardinality(Forgotten) \in Nat /\ Cardinality(Detached) \in Nat /\ kills \in Nat
    BY <2>3, <2>4, FS_CardinalityType DEF Inv, TypeOK
  <2> QED BY <2>4, <2>5 DEF LeakInv, LeakBounded
<1>3. Init /\ [][Next]_vars => []LeakInv
  <2>1. Init /\ [][Next]_vars => []Inv
    BY InitInv, StepInv, PTL
  <2> QED BY <2>1, <1>1, LeakStep, PTL
<1> QED BY <1>2, <1>3, Inductive, PTL DEF Spec

-----------------------------------------------------------------------------
\* this.opening holds the one open() that runs, and every publish that waits
\* for a connection waits for that one.
SingleFlight ==
  /\ opening # 0 => open[opening] \in {"connect", "channel", "replied", "closing"}
  /\ \A a \in Attempts : open[a] \in {"connect", "channel", "replied", "closing"} => a = opening
  /\ \A p \in Publishes : step[p] = "opening" => opening # 0 /\ via[p] = opening

\* Starting, sharing and settling an open() keep it.
LEMMA SingleFlightStep ==
  Inv /\ OneOpen /\ FailedClosed /\ SingleFlight /\ [Next]_vars => SingleFlight'
<1> SUFFICES ASSUME Inv, OneOpen, FailedClosed, SingleFlight, [Next]_vars PROVE SingleFlight' OBVIOUS
<1>0. TypeOK
  BY DEF Inv
<1> USE DEF TypeOK, Attempts, SingleFlight
<1>1. ASSUME NEW p \in Publishes, Publish(p) PROVE SingleFlight'
  <2>1. CASE fchan # 0
    BY <1>0, <1>1, <2>1 DEF Publish, Send
  <2>2. CASE fchan = 0
    <3>1. PICK a \in Attempts : startOpening(a) /\ via' = [via EXCEPT ![p] = a]
      BY <1>1, <2>2 DEF Publish
    <3>2. step' = [step EXCEPT ![p] = "opening"]
      BY <1>1, <2>2 DEF Publish
    <3> QED BY <1>0, <3>1, <3>2 DEF startOpening
  <2> QED BY <2>1, <2>2
<1>2. ASSUME NEW p \in Publishes, Confirm(p) \/ ConfirmTimer(p) PROVE SingleFlight'
  BY <1>0, <1>2, ZenonT(60) DEF Confirm, ConfirmTimer, fields
<1>3. ASSUME NEW a \in Attempts, Connected(a) \/ ChannelReplied(a) \/ ChannelFails(a)
      PROVE  SingleFlight'
  BY <1>0, <1>3 DEF Connected, ChannelReplied, ChannelFails, fields, calls
<1>4. ASSUME NEW a \in Attempts, NEW s \in {"failed", "abandoned", "sent"}, Settle(a, s),
             open[a] \in {"connect", "channel", "replied", "closing"}, UNCHANGED via
      PROVE  SingleFlight'
  BY <1>0, <1>4, ZenonT(60) DEF Settle
<1>5. ASSUME NEW a \in Attempts, ConnectFails(a) \/ OpenReturns(a) \/ CloseReturns(a)
      PROVE  SingleFlight'
  BY <1>4, <1>5, ZenonT(60) DEF ConnectFails, OpenReturns, CloseReturns, Send
<1>6. ASSUME NEW a \in Attempts, CloseAnswered(a) \/ NoticeLoss(a) \/ KillChannel(a)
      PROVE  SingleFlight'
  BY <1>0, <1>6 DEF CloseAnswered, NoticeLoss, KillChannel, Gone, Reject
<1>7. ASSUME NEW a \in Attempts, LateConnect(a) \/ LoseConnection(a) PROVE SingleFlight'
  BY <1>0, <1>7 DEF LateConnect, LoseConnection, fields, calls
<1>8. CASE Destroy \/ UNCHANGED vars
  BY <1>0, <1>8 DEF Destroy, vars, fields, calls
<1> QED
  BY <1>1, <1>2, <1>3, <1>5, <1>6, <1>7, <1>8 DEF Next, OpenStep, LinkStep

\* Concurrent publishes share one open(): none is left waiting for an attempt
\* that is over, and no second connection is opened beside the first.  This is
\* the safety half of PublishSettles.
THEOREM OpeningIsShared == Spec => []SingleFlight
<1>1. Init => OneOpen /\ FailedClosed /\ SingleFlight
  BY DEF Init, OneOpen, FailedClosed, SingleFlight
<1>2. Init /\ [][Next]_vars => [](Inv /\ OneOpen /\ FailedClosed /\ SingleFlight)
  BY <1>1, InitInv, StepInv, OneOpenStep, SingleFlightStep, PTL
<1> QED BY <1>2, PTL DEF Spec
=============================================================================

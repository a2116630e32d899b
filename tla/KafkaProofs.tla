---------------------------- MODULE KafkaProofs ----------------------------
(***************************************************************************)
(* What KafkaConsumer keeps for every topic, and any number of crashes,    *)
(* rebalances, shutdowns and alerts that could not be written.             *)
(*                                                                         *)
(* One inductive invariant per theorem, each on top of the shape of the    *)
(* state.  The state of a process matters only through a few facts: what   *)
(* is in hand while it publishes has been scored, a process that is down   *)
(* has forgotten its seen set, and every offset that the broker, the queue *)
(* or the reader has passed belongs to a message that was handled, is in   *)
(* hand, or is a casualty.                                                 *)
(***************************************************************************)
EXTENDS KafkaConsumer, FiniteSetTheorems, TLAPS

\* A place of the log holds a message, and the message has an id when handled.
LEMMA PlaceIsMessage ==
    ASSUME NEW place \in Places
    PROVE  /\ place[1] \in Partitions /\ place[2] \in 1..Len(Log[place[1]])
           /\ place = <<place[1], place[2]>>
           /\ At(place) \in Message /\ IDOf(place) \in IDs
           /\ place # Nowhere
<1>1. /\ place \in Partitions \X UNION {Offsets(p) : p \in Partitions}
      /\ place[2] \in Offsets(place[1])
  BY DEF Places
<1>2. /\ place[1] \in Partitions /\ place[2] \in 1..Len(Log[place[1]])
      /\ place = <<place[1], place[2]>>
  BY <1>1 DEF Offsets
<1>3. Log[place[1]] \in Seq(Message)
  BY <1>2, KafkaAssumption
<1>4. At(place) \in Message
  BY <1>2, <1>3 DEF At
<1>5. At(place).id \in IDs \cup {NoID}
  BY <1>4 DEF Message
<1>6. IDOf(place) \in IDs
  BY <1>5, KafkaAssumption DEF IDOf
<1>7. place # Nowhere
  <2>1. Len(place) = 2
    BY <1>2
  <2>2. Len(Nowhere) = 0
    BY DEF Nowhere
  <2> QED
    BY <2>1, <2>2
<1> QED
  BY <1>2, <1>4, <1>6, <1>7

\* The next message of a partition is a place of the log.
LEMMA NextIsPlace ==
    ASSUME NEW p \in Partitions, NEW n \in Nat, n < Len(Log[p])
    PROVE  <<p, n + 1>> \in Places
<1>1. Log[p] \in Seq(Message)
  BY KafkaAssumption
<1>2. n + 1 \in Offsets(p)
  BY <1>1 DEF Offsets
<1> QED
  BY <1>2 DEF Places

-----------------------------------------------------------------------------
(* The shape of the state. *)

\* The initial state has its types.
LEMMA TypeInit == Init => TypeOK
<1> SUFFICES ASSUME Init PROVE TypeOK
  OBVIOUS
<1>1. 0 \in 0..MaxStops /\ 0 \in 0..MaxRebalances
  BY KafkaAssumption
<1> QED
  BY <1>1 DEF Init, TypeOK

\* The reader hands out the next message of a partition, which is a place of the log.
LEMMA TypeReadMessage ==
    ASSUME TypeOK, NEW p \in Partitions, ReadMessage(p)
    PROVE  TypeOK'
<1> USE DEF TypeOK
<1>1. position[p] \in Nat
  OBVIOUS
<1>2. <<p, position[p] + 1>> \in Places
  BY <1>1, NextIsPlace DEF ReadMessage
<1>3. <<p, position[p] + 1>> # Nowhere
  BY <1>2, PlaceIsMessage
<1>4. position' \in [Partitions -> Nat]
  BY <1>1 DEF ReadMessage
<1>5. queued' \in [Partitions -> Nat]
  BY <1>1 DEF ReadMessage
<1> QED
  BY <1>2, <1>3, <1>4, <1>5 DEF ReadMessage, brokerVars, mainVars, auxVars

\* Every way to handle the message in hand keeps the types.
LEMMA TypeHandle ==
    ASSUME TypeOK, Handle
    PROVE  TypeOK'
<1> USE DEF TypeOK
<1>1. CASE DropMalformed
  BY <1>1 DEF DropMalformed, BackToLoop, brokerVars, readerVars, mainVars
<1>2. CASE SkipDuplicate
  BY <1>2 DEF SkipDuplicate, BackToLoop, brokerVars, readerVars, mainVars
<1>3. CASE ProcessFails
  BY <1>3 DEF ProcessFails, BackToLoop, brokerVars, readerVars, mainVars
<1>4. CASE ProcessScores
  <2>1. hand \in Places /\ hand # Nowhere
    BY <1>4 DEF ProcessScores
  <2>2. IDOf(hand) \in IDs
    BY <2>1, PlaceIsMessage
  <2>3. seen' \subseteq IDs
    BY <1>4, <2>2 DEF ProcessScores
  <2>4. handled' \subseteq Places /\ scored' \subseteq handled' \X (0..MaxStops)
    BY <1>4, <2>1 DEF ProcessScores
  <2>5. unpublished' \subseteq handled'
    BY <1>4 DEF ProcessScores
  <2>6. /\ pc' \in {"read", "publish"} /\ hand' \in {hand, Nowhere}
        /\ (hand' = Nowhere) <=> pc' = "read"
        /\ flaggedNow' = (pc' = "publish")
    BY <1>4, <2>1 DEF ProcessScores, BackToLoop
  <2> QED
    BY <1>4, <2>1, <2>3, <2>4, <2>5, <2>6
    DEF ProcessScores, brokerVars, readerVars, mainVars
<1>5. CASE PublishAlert
  <2>1. hand \in Places
    BY <1>5 DEF PublishAlert
  <2>2. <<IDOf(hand), stops>> \in IDs \X (0..MaxStops)
    BY <2>1, PlaceIsMessage
  <2>3. alerts' = [alerts EXCEPT ![<<IDOf(hand), stops>>] = alerts[<<IDOf(hand), stops>>] + 1]
    BY <1>5 DEF PublishAlert
  <2>4. alerts' \in [IDs \X (0..MaxStops) -> Nat]
    BY <2>2, <2>3
  <2> QED
    BY <1>5, <2>4 DEF PublishAlert, BackToLoop, readerVars, mainVars, auxVars
<1>6. CASE PublishFails
  <2>1. hand \in Places
    BY <1>6 DEF PublishFails
  <2>2. hand \in handled
    BY <1>6 DEF PublishFails
  <2> QED
    BY <1>6, <2>2 DEF PublishFails, BackToLoop, brokerVars, readerVars, mainVars
<1> QED
  BY <1>1, <1>2, <1>3, <1>4, <1>5, <1>6 DEF Handle

\* So do the end of the loop, commits, a rebalance and the steps of a shutdown.
LEMMA TypeOthers ==
    ASSUME TypeOK, StopReading \/ CommitLoop \/ Rebalance \/ Signal \/ Shutdown
    PROVE  TypeOK'
<1> USE DEF TypeOK
<1>1. CASE StopReading
  BY <1>1 DEF StopReading, brokerVars, readerVars, mainVars, auxVars
<1>2. CASE CommitLoop
  BY <1>2 DEF CommitLoop, FlushCommits, readerVars, loopVars, mainVars, auxVars
<1>3. CASE Rebalance
  <2>1. rebalances + 1 \in 0..MaxRebalances
    BY <1>3, KafkaAssumption DEF Rebalance
  <2> QED
    BY <1>3, <2>1 DEF Rebalance, brokerVars, loopVars, mainVars, auxVars
<1>4. CASE Signal
  BY <1>4 DEF Signal, brokerVars, readerVars, loopVars, auxVars
<1>5. CASE CloseReader
  BY <1>5 DEF CloseReader, FlushCommits, loopVars, auxVars
<1>6. CASE CloseWriter
  BY <1>6 DEF CloseWriter, brokerVars, loopVars, auxVars
<1>7. CASE CancelContext
  BY <1>7 DEF CancelContext, brokerVars, readerVars, loopVars, auxVars
<1> QED
  BY <1>1, <1>2, <1>3, <1>4, <1>5, <1>6, <1>7 DEF Shutdown

\* So do the end of a process and the start of the next one.
LEMMA TypeLives ==
    ASSUME TypeOK, ProcessEnds \/ Restart
    PROVE  TypeOK'
<1> USE DEF TypeOK
<1>1. CASE ProcessEnds
  <2>1. stops + 1 \in 0..MaxStops
    BY <1>1, KafkaAssumption DEF ProcessEnds
  <2>2. casualties' \subseteq Places /\ casualties \subseteq casualties'
    BY <1>1, PlaceIsMessage DEF ProcessEnds
  <2> QED
    BY <1>1, <2>1, <2>2 DEF ProcessEnds, brokerVars
<1>2. CASE Restart
  BY <1>2 DEF Restart, NewConsumer, brokerVars, auxVars
<1> QED
  BY <1>1, <1>2

\* Type correctness is inductive.
LEMMA TypeNext == ASSUME TypeOK, [Next]_vars PROVE TypeOK'
<1>1. CASE UNCHANGED vars
  BY <1>1 DEF TypeOK, vars, brokerVars, readerVars, loopVars, mainVars, auxVars
<1>2. CASE Next
  BY <1>2, TypeReadMessage, TypeHandle, TypeOthers, TypeLives DEF Next, Loop
<1> QED
  BY <1>1, <1>2

\* The state keeps its shape; a message being published has been handled.
THEOREM KafkaTypeTheorem == Spec => []TypeOK
<1> QED
  BY TypeInit, TypeNext, PTL DEF Spec

-----------------------------------------------------------------------------
(* One alert for a transaction and process. *)

\* An id alerted on by the current process is in its seen set and not being
\* published again; no process has alerted on anything before it started.
AlertInv ==
    /\ OneAlertPerProcess
    /\ \A id \in IDs, n \in 0..MaxStops : n > stops => alerts[<<id, n>>] = 0
    /\ \A id \in IDs : alerts[<<id, stops>>] > 0 =>
          id \in seen /\ ~(pc = "publish" /\ IDOf(hand) = id)
    /\ pc = "publish" => IDOf(hand) \in seen /\ <<hand, stops>> \in scored
    /\ stage = "down" => seen = {} /\ pc = "stopped"

\* At first nothing has been alerted on.
LEMMA AlertInit == Init => AlertInv
  BY KafkaAssumption DEF Init, AlertInv, OneAlertPerProcess

\* A step that neither alerts nor ends the process, nor forgets: the seen set and
\* the record of scorings grow, and what comes to be published was just scored.
Quietly ==
    /\ UNCHANGED <<alerts, stops>>
    /\ seen \subseteq seen' /\ scored \subseteq scored'
    /\ stage' = "down" => stage = "down" /\ seen' = seen /\ pc' = pc
    /\ pc' = "publish" => \/ pc = "publish" /\ hand' = hand
                          \/ /\ hand' = hand /\ IDOf(hand) \notin seen
                             /\ IDOf(hand) \in seen' /\ <<hand, stops>> \in scored'

\* Quiet steps keep what is known of alerts.
LEMMA AlertQuiet ==
    ASSUME TypeOK, AlertInv, Quietly
    PROVE  AlertInv'
<1> USE DEF Quietly
<1>1. OneAlertPerProcess'
  BY DEF AlertInv, OneAlertPerProcess
<1>2. (\A id \in IDs, n \in 0..MaxStops : n > stops => alerts[<<id, n>>] = 0)'
  BY DEF AlertInv
<1>3. (\A id \in IDs : alerts[<<id, stops>>] > 0 =>
          id \in seen /\ ~(pc = "publish" /\ IDOf(hand) = id))'
  <2> SUFFICES ASSUME NEW id \in IDs, alerts[<<id, stops>>] > 0
               PROVE  id \in seen' /\ ~(pc' = "publish" /\ IDOf(hand)' = id)
    OBVIOUS
  <2>1. id \in seen /\ ~(pc = "publish" /\ IDOf(hand) = id)
    BY DEF AlertInv
  <2> QED
    BY <2>1
<1>4. (pc = "publish" => IDOf(hand) \in seen /\ <<hand, stops>> \in scored)'
  BY DEF AlertInv
<1>5. (stage = "down" => seen = {} /\ pc = "stopped")'
  BY DEF AlertInv
<1> QED
  BY <1>1, <1>2, <1>3, <1>4, <1>5 DEF AlertInv

\* An alert is of an id that was just scored and not alerted on before.
LEMMA AlertPublished ==
    ASSUME TypeOK, AlertInv, PublishAlert
    PROVE  AlertInv'
<1> DEFINE now == <<IDOf(hand), stops>>
<1>1. hand \in Places /\ IDOf(hand) \in IDs /\ stops \in 0..MaxStops
  BY PlaceIsMessage DEF TypeOK, PublishAlert
<1>2. now \in IDs \X (0..MaxStops) /\ alerts \in [IDs \X (0..MaxStops) -> Nat]
  BY <1>1 DEF TypeOK
<1>3. alerts' = [alerts EXCEPT ![now] = alerts[now] + 1]
  BY DEF PublishAlert
<1>4. alerts[now] = 0
  BY <1>1, <1>2 DEF AlertInv, PublishAlert
<1>5. UNCHANGED <<stops, seen, scored, stage>> /\ pc' = "read" /\ Up
  BY DEF PublishAlert, BackToLoop, mainVars, auxVars
<1>6. IDOf(hand) \in seen /\ <<hand, stops>> \in scored
  BY DEF AlertInv, PublishAlert
<1>7. OneAlertPerProcess'
  <2> SUFFICES ASSUME NEW id \in IDs, NEW n \in 0..MaxStops
               PROVE  /\ alerts'[<<id, n>>] <= 1
                      /\ alerts'[<<id, n>>] > 0 =>
                            \E place \in Places : IDOf(place) = id /\ <<place, n>> \in scored
    BY <1>5 DEF OneAlertPerProcess
  <2>1. CASE <<id, n>> = now
    BY <2>1, <1>1, <1>2, <1>3, <1>4, <1>6
  <2>2. CASE <<id, n>> # now
    BY <2>2, <1>2, <1>3 DEF AlertInv, OneAlertPerProcess
  <2> QED
    BY <2>1, <2>2
<1>8. (\A id \in IDs, n \in 0..MaxStops : n > stops => alerts[<<id, n>>] = 0)'
  BY <1>1, <1>2, <1>3, <1>5 DEF AlertInv
<1>9. (\A id \in IDs : alerts[<<id, stops>>] > 0 =>
          id \in seen /\ ~(pc = "publish" /\ IDOf(hand) = id))'
  <2> SUFFICES ASSUME NEW id \in IDs, alerts'[<<id, stops>>] > 0
               PROVE  id \in seen
    BY <1>5
  <2>1. CASE id = IDOf(hand)
    BY <2>1, <1>6
  <2>2. CASE id # IDOf(hand)
    BY <2>2, <1>1, <1>2, <1>3 DEF AlertInv
  <2> QED
    BY <2>1, <2>2
<1> QED
  BY <1>5, <1>7, <1>8, <1>9 DEF AlertInv, Up

\* What is known of alerts is inductive, given the types.
LEMMA AlertNext == ASSUME TypeOK, AlertInv, [Next]_vars PROVE AlertInv'
<1> USE DEF brokerVars, readerVars, loopVars, mainVars, auxVars, BackToLoop
<1>1. UNCHANGED vars => Quietly
  BY DEF vars, Quietly
<1>2. ASSUME NEW p \in Partitions, ReadMessage(p) PROVE Quietly
  BY <1>2 DEF ReadMessage, Up, Quietly
<1>3. StopReading => Quietly
  BY DEF StopReading, Up, Quietly
<1>4. DropMalformed => Quietly
  BY DEF DropMalformed, Up, Quietly
<1>5. SkipDuplicate => Quietly
  BY DEF SkipDuplicate, Up, Quietly
<1>6. ProcessFails => Quietly
  BY DEF ProcessFails, Up, Quietly
<1>7. ProcessScores => Quietly
  BY DEF ProcessScores, Up, Quietly
<1>8. CASE PublishAlert
  BY <1>8, AlertPublished
<1>9. PublishFails => Quietly
  BY DEF PublishFails, Up, Quietly
<1>10. CommitLoop => Quietly
  BY DEF CommitLoop, Up, Quietly
<1>11. Rebalance => Quietly
  BY DEF Rebalance, Up, Quietly
<1>12. Signal => Quietly
  BY DEF Signal, Quietly
<1>13. Shutdown => Quietly
  BY DEF Shutdown, CloseReader, CloseWriter, CancelContext, Quietly
<1>14. CASE ProcessEnds
  <2>1. stops \in Nat /\ stops' = stops + 1 /\ stops' \in 0..MaxStops
    BY <1>14, KafkaAssumption DEF ProcessEnds, TypeOK
  <2>2. \A id \in IDs : alerts[<<id, stops'>>] = 0
    BY <2>1 DEF AlertInv
  <2> QED
    BY <1>14, <2>1, <2>2 DEF ProcessEnds, AlertInv, OneAlertPerProcess
<1>15. CASE Restart
  <2>1. \A id \in IDs : ~(alerts[<<id, stops>>] > 0)
    BY <1>15 DEF Restart, AlertInv
  <2> QED
    BY <1>15, <2>1 DEF Restart, NewConsumer, AlertInv, OneAlertPerProcess
<1> QED
  BY <1>1, <1>2, <1>3, <1>4, <1>5, <1>6, <1>7, <1>8, <1>9, <1>10, <1>11, <1>12, <1>13, <1>14,
     <1>15, AlertQuiet DEF Next, Loop, Handle

\* One process alerts at most once for a transaction id, and only on what it has
\* scored, although a rebalance hands it messages again.
THEOREM OneAlertPerProcessTheorem == Spec => []OneAlertPerProcess
<1>1. AlertInv => OneAlertPerProcess
  BY DEF AlertInv
<1> QED
  BY <1>1, AlertInit, AlertNext, KafkaTypeTheorem, PTL DEF Spec

-----------------------------------------------------------------------------
(* What automatic commits lose. *)

\* A message behind an offset was handled, is in hand, or is a casualty.
Covered(place) == place \in handled \cup casualties \cup {hand}
Behind(offsets) == \A place \in Places : place[2] <= offsets[place[1]] => Covered(place)

\* There is a casualty for each process that has ended, and one more when the
\* current one dropped its message because it was told to stop.
LossInv ==
    /\ Behind(committed) /\ Behind(queued) /\ Behind(position)
    /\ IsFiniteSet(casualties)
    /\ Cardinality(casualties) <=
          stops + (IF cancelled /\ Up /\ pc \in {"read", "stopped"} THEN 1 ELSE 0)
    /\ pc = "handle" => Cardinality(casualties) <= stops
    /\ stage = "down" => pc = "stopped"

\* At first no offset has moved, and there is nothing to cover.
LEMMA LossInit == Init => LossInv
<1> SUFFICES ASSUME Init PROVE LossInv
  OBVIOUS
<1>1. ASSUME NEW offsets, \A p \in Partitions : offsets[p] = 0 PROVE Behind(offsets)
  BY <1>1, PlaceIsMessage DEF Behind
<1>2. Behind(committed) /\ Behind(queued) /\ Behind(position)
  BY <1>1 DEF Init
<1>3. IsFiniteSet(casualties) /\ Cardinality(casualties) = 0
  BY FS_EmptySet DEF Init
<1> QED
  BY <1>2, <1>3 DEF Init, LossInv

\* A step after which everything covered is still covered, whose offsets are old
\* ones, and that makes no casualty.
Losslessly ==
    /\ handled \subseteq handled' /\ casualties' = casualties
    /\ hand' = hand \/ hand \in handled' \/ hand = Nowhere
    /\ \A f \in {committed', queued', position'} : f \in {committed, queued, position}

\* A step that loses nothing leaves every offset covered.
LEMMA CoveredStays ==
    ASSUME TypeOK, LossInv, Losslessly
    PROVE  /\ Behind(committed)' /\ Behind(queued)' /\ Behind(position)'
           /\ IsFiniteSet(casualties)'
<1>1. ASSUME NEW place \in Places, Covered(place) PROVE Covered(place)'
  BY <1>1, PlaceIsMessage DEF Covered, Losslessly
<1>2. ASSUME NEW f \in {committed', queued', position'}, NEW place \in Places,
             place[2] <= f[place[1]]
      PROVE  Covered(place)'
  BY <1>1, <1>2 DEF Losslessly, LossInv, Behind
<1>3. Behind(committed)' /\ Behind(queued)' /\ Behind(position)'
  BY <1>2 DEF Behind
<1> QED
  BY <1>3 DEF Losslessly, LossInv

\* Reading on covers the message that is passed by having it in hand.
LEMMA LossRead ==
    ASSUME TypeOK, LossInv, NEW p \in Partitions, ReadMessage(p)
    PROVE  LossInv'
<1>1. hand = Nowhere /\ position[p] \in Nat /\ ~cancelled /\ Up
  BY DEF TypeOK, ReadMessage
<1>2. /\ position' = [position EXCEPT ![p] = position[p] + 1]
      /\ queued' = [queued EXCEPT ![p] = position[p] + 1]
      /\ hand' = <<p, position[p] + 1>> /\ pc' = "handle"
      /\ UNCHANGED <<committed, handled, casualties, stops, cancelled, stage>>
  BY DEF ReadMessage, brokerVars, mainVars, auxVars
<1>3. position \in [Partitions -> Nat] /\ queued \in [Partitions -> Nat]
  BY DEF TypeOK
<1>4. ASSUME NEW place \in Places, Covered(place) PROVE Covered(place)'
  BY <1>1, <1>2, <1>4, PlaceIsMessage DEF Covered
<1>5. ASSUME NEW place \in Places, place[1] = p, place[2] <= position[p] + 1
      PROVE  Covered(place)'
  <2>1. place[2] \in Nat /\ place = <<place[1], place[2]>>
    BY PlaceIsMessage
  <2>2. CASE place[2] <= position[p]
    BY <2>2, <1>4, <1>5 DEF LossInv, Behind
  <2>3. CASE place[2] = position[p] + 1
    BY <2>1, <2>3, <1>2, <1>5 DEF Covered
  <2> QED
    BY <2>1, <2>2, <2>3, <1>1, <1>5
<1>6. Behind(committed)'
  BY <1>2, <1>4 DEF LossInv, Behind
<1>7. Behind(queued)'
  <2> SUFFICES ASSUME NEW place \in Places, place[2] <= queued'[place[1]]
               PROVE  Covered(place)'
    BY DEF Behind
  <2>1. place[1] \in Partitions
    BY PlaceIsMessage
  <2>2. CASE place[1] = p
    BY <2>2, <1>2, <1>3, <1>5
  <2>3. CASE place[1] # p
    BY <2>1, <2>3, <1>2, <1>3, <1>4 DEF LossInv, Behind
  <2> QED
    BY <2>2, <2>3
<1>8. Behind(position)'
  <2> SUFFICES ASSUME NEW place \in Places, place[2] <= position'[place[1]]
               PROVE  Covered(place)'
    BY DEF Behind
  <2>1. place[1] \in Partitions
    BY PlaceIsMessage
  <2>2. CASE place[1] = p
    BY <2>2, <1>2, <1>3, <1>5
  <2>3. CASE place[1] # p
    BY <2>1, <2>3, <1>2, <1>3, <1>4 DEF LossInv, Behind
  <2> QED
    BY <2>2, <2>3
<1>9. Cardinality(casualties) <= stops
  BY <1>1 DEF LossInv, TypeOK
<1> QED
  BY <1>1, <1>2, <1>6, <1>7, <1>8, <1>9 DEF LossInv, TypeOK, Up

\* The two steps that make a casualty of the message in hand.
LEMMA LossAdds ==
    ASSUME TypeOK, LossInv, ProcessFails \/ (ProcessEnds /\ pc = "handle")
    PROVE  LossInv'
<1>1. /\ pc = "handle" /\ casualties' = casualties \cup {hand} /\ handled' = handled
      /\ \A f \in {committed', queued', position'} : f \in {committed, queued, position}
      /\ pc' \in {"read", "stopped"}
  BY DEF ProcessFails, ProcessEnds, BackToLoop, brokerVars, readerVars
<1>2. ASSUME NEW place \in Places, Covered(place) PROVE Covered(place)'
  BY <1>1, <1>2 DEF Covered
<1>3. ASSUME NEW f \in {committed', queued', position'}, NEW place \in Places,
             place[2] <= f[place[1]]
      PROVE  Covered(place)'
  BY <1>1, <1>2, <1>3 DEF LossInv, Behind
<1>4. Behind(committed)' /\ Behind(queued)' /\ Behind(position)'
  BY <1>3 DEF Behind
<1>5. /\ IsFiniteSet(casualties) /\ Cardinality(casualties) <= stops
      /\ stops \in Nat
  BY <1>1 DEF LossInv, TypeOK
<1>6. /\ IsFiniteSet(casualties') /\ Cardinality(casualties') \in Nat
      /\ Cardinality(casualties') <= stops + 1
  <2>1. Cardinality(casualties) \in Nat
    BY <1>5, FS_CardinalityType
  <2>2. /\ IsFiniteSet(casualties \cup {hand})
        /\ Cardinality(casualties \cup {hand}) =
              IF hand \in casualties THEN Cardinality(casualties) ELSE Cardinality(casualties) + 1
    BY <1>5, FS_AddElement
  <2> QED
    BY <1>1, <1>5, <2>1, <2>2
<1>7. CASE ProcessFails
  BY <1>1, <1>4, <1>5, <1>6, <1>7 DEF ProcessFails, mainVars, LossInv, Up
<1>8. CASE ProcessEnds
  BY <1>1, <1>4, <1>5, <1>6, <1>8 DEF ProcessEnds, LossInv, Up
<1> QED
  BY <1>7, <1>8

\* What is known of losses is inductive, given the types.
LEMMA LossNext == ASSUME TypeOK, LossInv, [Next]_vars PROVE LossInv'
<1> USE DEF brokerVars, readerVars, loopVars, mainVars, auxVars, BackToLoop
<1> DEFINE Spare == /\ Cardinality(casualties) <=
                          stops + (IF cancelled /\ Up /\ pc \in {"read", "stopped"} THEN 1 ELSE 0)
                    /\ pc = "handle" => Cardinality(casualties) <= stops
                    /\ stage = "down" => pc = "stopped"
<1>0. Spare /\ stops \in Nat /\ Cardinality(casualties) \in Nat
  BY FS_CardinalityType DEF LossInv, TypeOK
<1>1. ASSUME Losslessly, Spare' PROVE LossInv'
  BY <1>1, CoveredStays DEF LossInv
<1>2. UNCHANGED vars => Losslessly /\ Spare'
  BY <1>0 DEF vars, Losslessly, Up
<1>3. StopReading => Losslessly /\ Spare'
  BY <1>0 DEF StopReading, Losslessly, Up
<1>4. DropMalformed => Losslessly /\ Spare'
  BY <1>0 DEF DropMalformed, Losslessly, Up
<1>5. SkipDuplicate => Losslessly /\ Spare'
  BY <1>0 DEF SkipDuplicate, Losslessly, Up
<1>6. ProcessScores => Losslessly /\ Spare'
  BY <1>0 DEF ProcessScores, Losslessly, Up
<1>7. PublishAlert => Losslessly /\ Spare'
  BY <1>0 DEF PublishAlert, Losslessly, Up, TypeOK
<1>8. PublishFails => Losslessly /\ Spare'
  BY <1>0 DEF PublishFails, Losslessly, Up, TypeOK
<1>9. CommitLoop => Losslessly /\ Spare'
  BY <1>0 DEF CommitLoop, FlushCommits, Losslessly, Up
<1>10. Rebalance => Losslessly /\ Spare'
  BY <1>0 DEF Rebalance, Losslessly, Up
<1>11. Signal => Losslessly /\ Spare'
  BY <1>0 DEF Signal, Losslessly, Up
<1>12. CloseReader => Losslessly /\ Spare'
  BY <1>0 DEF CloseReader, FlushCommits, Losslessly, Up
<1>13. CloseWriter => Losslessly /\ Spare'
  BY <1>0 DEF CloseWriter, Losslessly, Up
<1>14. CancelContext => Losslessly /\ Spare'
  BY <1>0 DEF CancelContext, Losslessly, Up
<1>15. ProcessEnds /\ pc # "handle" => Losslessly /\ Spare'
  BY <1>0 DEF ProcessEnds, Losslessly, Up, TypeOK
<1>16. Restart => Losslessly /\ Spare'
  <2> SUFFICES ASSUME Restart PROVE Losslessly /\ Spare'
    OBVIOUS
  <2>1. stage = "down"
    BY DEF Restart
  <2> QED
    BY <1>0, <2>1 DEF Restart, NewConsumer, Losslessly, Up, TypeOK
<1> HIDE DEF Spare
<1>17. CASE UNCHANGED vars
  BY <1>1, <1>2, <1>17
<1>18. CASE Loop
  <2>1. ASSUME NEW p \in Partitions, ReadMessage(p) PROVE LossInv'
    BY <2>1, LossRead
  <2>2. CASE ProcessFails
    BY <2>2, LossAdds
  <2>3. CASE StopReading \/ DropMalformed \/ SkipDuplicate \/ ProcessScores
    BY <1>1, <1>3, <1>4, <1>5, <1>6, <2>3
  <2>4. CASE PublishAlert \/ PublishFails
    BY <1>1, <1>7, <1>8, <2>4
  <2> QED
    BY <1>18, <2>1, <2>2, <2>3, <2>4 DEF Loop, Handle
<1>19. CASE CommitLoop \/ Rebalance \/ Signal \/ Shutdown
  BY <1>1, <1>9, <1>10, <1>11, <1>12, <1>13, <1>14, <1>19 DEF Shutdown
<1>20. CASE ProcessEnds \/ Restart
  BY <1>1, <1>15, <1>16, <1>20, LossAdds
<1> QED
  BY <1>17, <1>18, <1>19, <1>20 DEF Next

\* Automatic commits lose messages, but only the one a process had in hand when
\* it ended or was told to stop, and so at most one for each process.
THEOREM LossTheorem == Spec => []LossIsInHand
<1>1. TypeOK /\ LossInv => LossIsInHand
  <2> SUFFICES ASSUME TypeOK, LossInv PROVE LossIsInHand
    OBVIOUS
  <2>1. Lost \subseteq casualties
    BY DEF LossInv, Behind, Covered, Lost
  <2>2. Cardinality(casualties) <= stops + (IF cancelled /\ Up THEN 1 ELSE 0)
    BY FS_CardinalityType DEF LossInv, TypeOK
  <2> QED
    BY <2>1, <2>2 DEF LossIsInHand
<1> QED
  BY <1>1, LossInit, LossNext, KafkaTypeTheorem, PTL DEF Spec

-----------------------------------------------------------------------------
(* What makes a message a duplicate. *)

\* An id is in the seen set only after a message was scored under it.
SkipInv ==
    /\ SkippedForAScoring
    /\ \A id \in seen : \E other \in Places, n \in 0..MaxStops :
          IDOf(other) = id /\ <<other, n>> \in scored

\* A message is skipped only because one was scored under its id.
THEOREM SkippedTheorem == Spec => []SkippedForAScoring
<1> USE DEF brokerVars, readerVars, loopVars, mainVars, auxVars
<1>1. Init => SkipInv
  BY DEF Init, SkipInv, SkippedForAScoring
<1>2. ASSUME TypeOK, SkipInv, [Next]_vars PROVE SkipInv'
  <2>1. ASSUME seen' \subseteq seen, UNCHANGED scored,
               \A place \in handled' \ handled : ~At(place).json \/ IDOf(place) \in seen
        PROVE  SkipInv'
    BY <1>2, <2>1 DEF SkipInv, SkippedForAScoring
  <2>2. CASE UNCHANGED vars
    BY <2>1, <2>2 DEF vars
  <2>3. ASSUME NEW p \in Partitions, ReadMessage(p) PROVE SkipInv'
    BY <2>1, <2>3 DEF ReadMessage
  <2>4. CASE DropMalformed
    BY <2>1, <2>4 DEF DropMalformed
  <2>5. CASE SkipDuplicate
    BY <2>1, <2>5 DEF SkipDuplicate
  <2>6. CASE ProcessScores
    <3>1. hand \in Places /\ stops \in 0..MaxStops
      BY <1>2, <2>6 DEF ProcessScores, TypeOK
    <3>2. /\ seen' = seen \cup {IDOf(hand)} /\ handled' = handled \cup {hand}
          /\ scored' = scored \cup {<<hand, stops>>}
      BY <2>6 DEF ProcessScores
    <3> QED
      BY <1>2, <3>1, <3>2 DEF SkipInv, SkippedForAScoring
  <2>7. CASE StopReading \/ ProcessFails \/ PublishAlert \/ PublishFails \/ CommitLoop \/ Rebalance
    BY <2>1, <2>7 DEF StopReading, ProcessFails, PublishAlert, PublishFails, CommitLoop, Rebalance
  <2>8. CASE Signal \/ Shutdown \/ ProcessEnds \/ Restart
    BY <2>1, <2>8 DEF Signal, Shutdown, CloseReader, CloseWriter, CancelContext, ProcessEnds,
                      Restart, NewConsumer
  <2> QED
    BY <1>2, <2>2, <2>3, <2>4, <2>5, <2>6, <2>7, <2>8 DEF Next, Loop, Handle
<1>3. SkipInv => SkippedForAScoring
  BY DEF SkipInv
<1> QED
  BY <1>1, <1>2, <1>3, KafkaTypeTheorem, PTL DEF Spec
=============================================================================

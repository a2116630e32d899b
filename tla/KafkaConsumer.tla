--------------------------- MODULE KafkaConsumer ---------------------------
(***************************************************************************)
(* The Kafka consumer (internal/kafka/kafka.go) over the life of several   *)
(* processes: reading with automatic commits, the message handler, the     *)
(* alert topic, the shutdown order of main.go, crashes and restarts.       *)
(*                                                                         *)
(* The broker and the kafka-go client are external.  What the code relies  *)
(* on: with a consumer group, ReadMessage enqueues the commit of the       *)
(* message it returns; the queue is flushed every CommitInterval and by    *)
(* Close; a rebalance resumes from the committed offsets.                  *)
(*                                                                         *)
(* Process (see ScoringPipeline) is one step here: one goroutine handles   *)
(* one message at a time, and only the seen set survives between messages. *)
(* Whether a transaction is flagged is left open.  A read error other than *)
(* the end of the context changes nothing: the loop tries again.           *)
(***************************************************************************)
EXTENDS Integers, Sequences, FiniteSets

CONSTANTS Partitions,
          Log,             \* partition -> sequence of the messages produced to it
          IDs,             \* the transaction ids of the messages
          NoID,            \* a message without an id
          GeneratedID,     \* offset -> "kafka-<offset>-<topic>"
          BrokerFails,     \* may a write to the alert topic fail?
          MayStop,         \* may the process be told to stop?
          MaxRebalances, MaxStops

Message == [id : IDs \cup {NoID}, json : BOOLEAN]

Offsets(p) == 1..Len(Log[p])
Places == {place \in Partitions \X UNION {Offsets(p) : p \in Partitions} : place[2] \in Offsets(place[1])}
Nowhere == <<>>

At(place) == Log[place[1]][place[2]]

ASSUME KafkaAssumption ==
    /\ Partitions # {}
    /\ Log \in [Partitions -> Seq(Message)]
    /\ NoID \notin IDs
    /\ \A place \in Places : GeneratedID[place[2]] \in IDs
    /\ BrokerFails \in BOOLEAN
    /\ MayStop \in BOOLEAN
    /\ MaxRebalances \in Nat
    /\ MaxStops \in Nat

VARIABLES committed,   \* broker: partition -> messages whose offsets are committed
          alerts,      \* broker: <<id, life>> -> alerts on the output topic
          position,    \* reader: partition -> messages handed out
          queued,      \* reader: partition -> commit waiting in the queue
          readerOpen, writerOpen,
          pc,          \* the consumer goroutine
          hand,        \* the message it is handling
          flaggedNow,  \* its transaction was scored and flagged
          seen,        \* the in-memory store's seen ids
          stage,       \* main's shutdown sequence
          cancelled,   \* kafkaCtx is done
          rebalances,
          stops,       \* processes that have ended, by a crash or an exit
          handled,     \* auxiliary: places dropped as not JSON, duplicate, or scored
          scored,      \* auxiliary: <<place, process>> of every scoring
          failed,      \* auxiliary: places whose Process returned an error
          unpublished, \* auxiliary: flagged places whose alert could not be written
          casualties   \* auxiliary: places in hand when a process ended, or failed

brokerVars == <<committed, alerts>>
readerVars == <<position, queued, readerOpen, writerOpen>>
loopVars == <<pc, hand, flaggedNow, seen>>
mainVars == <<stage, cancelled, stops>>
auxVars == <<handled, scored, failed, unpublished, casualties>>
vars == <<brokerVars, readerVars, loopVars, mainVars, rebalances, auxVars>>

Up == stage # "down"

\* The id the handler gives a message: its own, or one made of offset and topic.
IDOf(place) == IF At(place).id # NoID THEN At(place).id ELSE GeneratedID[place[2]]

-----------------------------------------------------------------------------
NewConsumer ==
    /\ position' = committed
    /\ queued' = committed
    /\ readerOpen' = TRUE
    /\ writerOpen' = TRUE
    /\ pc' = "read"
    /\ hand' = Nowhere
    /\ flaggedNow' = FALSE
    /\ seen' = {}
    /\ cancelled' = FALSE

Init ==
    /\ committed = [p \in Partitions |-> 0]
    /\ alerts = [a \in IDs \X (0..MaxStops) |-> 0]
    /\ position = [p \in Partitions |-> 0]
    /\ queued = [p \in Partitions |-> 0]
    /\ readerOpen = TRUE /\ writerOpen = TRUE
    /\ pc = "read" /\ hand = Nowhere /\ flaggedNow = FALSE /\ seen = {}
    /\ stage = "serving" /\ cancelled = FALSE /\ stops = 0 /\ rebalances = 0
    /\ handled = {} /\ scored = {} /\ failed = {} /\ unpublished = {} /\ casualties = {}

-----------------------------------------------------------------------------
(* The loop of Start. *)

\* A fault: the next message is fetched before the last one is done with.
ReadAhead(p) ==
    /\ Up /\ pc \in {"read", "handle"} /\ ~cancelled /\ readerOpen
    /\ position[p] < Len(Log[p])
    /\ position' = [position EXCEPT ![p] = @ + 1]
    /\ queued' = [queued EXCEPT ![p] = position[p] + 1]
    /\ hand' = <<p, position[p] + 1>>
    /\ pc' = "handle"
    /\ UNCHANGED <<brokerVars, readerOpen, writerOpen, flaggedNow, seen, mainVars, rebalances,
                   auxVars>>

\* ReadMessage returns a message; its offset is on its way to the broker.
ReadMessage(p) ==
    /\ Up /\ pc = "read" /\ ~cancelled /\ readerOpen
    /\ position[p] < Len(Log[p])
    /\ position' = [position EXCEPT ![p] = @ + 1]
    /\ queued' = [queued EXCEPT ![p] = position[p] + 1]
    /\ hand' = <<p, position[p] + 1>>
    /\ pc' = "handle"
    /\ UNCHANGED <<brokerVars, readerOpen, writerOpen, flaggedNow, seen, mainVars, rebalances,
                   auxVars>>

\* The context is done: the goroutine returns.
StopReading ==
    /\ Up /\ pc = "read" /\ cancelled
    /\ pc' = "stopped"
    /\ UNCHANGED <<brokerVars, readerVars, hand, flaggedNow, seen, mainVars, rebalances, auxVars>>

\* processMessage is through with the message in hand.
BackToLoop == pc' = "read" /\ hand' = Nowhere /\ flaggedNow' = FALSE

DropMalformed ==
    /\ Up /\ pc = "handle" /\ ~At(hand).json
    /\ BackToLoop
    /\ handled' = handled \cup {hand}
    /\ UNCHANGED <<brokerVars, readerVars, seen, mainVars, rebalances, scored, failed,
                   unpublished, casualties>>

\* A fault: a message without an id is looked up before it is given one.
SkipUnnamed ==
    /\ Up /\ pc = "handle" /\ At(hand).json
    /\ IDOf(hand) \in seen \/ At(hand).id = NoID
    /\ BackToLoop
    /\ handled' = handled \cup {hand}
    /\ UNCHANGED <<brokerVars, readerVars, seen, mainVars, rebalances, scored, failed,
                   unpublished, casualties>>

\* Process answers a duplicate, which is never flagged.
SkipDuplicate ==
    /\ Up /\ pc = "handle" /\ At(hand).json
    /\ IDOf(hand) \in seen
    /\ BackToLoop
    /\ handled' = handled \cup {hand}
    /\ UNCHANGED <<brokerVars, readerVars, seen, mainVars, rebalances, scored, failed,
                   unpublished, casualties>>

\* Process returns the context's error: the message is logged and dropped.
ProcessFails ==
    /\ Up /\ pc = "handle" /\ At(hand).json
    /\ IDOf(hand) \notin seen /\ cancelled
    /\ BackToLoop
    /\ failed' = failed \cup {hand}
    /\ casualties' = casualties \cup {hand}
    /\ UNCHANGED <<brokerVars, readerVars, seen, mainVars, rebalances, handled, scored,
                   unpublished>>

\* A fault: the seen set is not consulted.
ProcessScoresAgain ==
    /\ Up /\ pc = "handle" /\ At(hand).json
    /\ ~cancelled
    /\ seen' = seen \cup {IDOf(hand)}
    /\ handled' = handled \cup {hand}
    /\ scored' = scored \cup {<<hand, stops>>}
    /\ \/ pc' = "publish" /\ flaggedNow' = TRUE /\ UNCHANGED hand
       \/ BackToLoop
    /\ UNCHANGED <<brokerVars, readerVars, mainVars, rebalances, failed, unpublished, casualties>>

\* Process scores the transaction; only a flagged one has an alert to publish.
ProcessScores ==
    /\ Up /\ pc = "handle" /\ At(hand).json
    /\ IDOf(hand) \notin seen /\ ~cancelled
    /\ seen' = seen \cup {IDOf(hand)}
    /\ handled' = handled \cup {hand}
    /\ scored' = scored \cup {<<hand, stops>>}
    /\ \/ pc' = "publish" /\ flaggedNow' = TRUE /\ UNCHANGED hand
       \/ BackToLoop
    /\ UNCHANGED <<brokerVars, readerVars, mainVars, rebalances, failed, unpublished, casualties>>

PublishAlert ==
    /\ Up /\ pc = "publish" /\ writerOpen /\ ~cancelled
    /\ alerts' = [alerts EXCEPT ![<<IDOf(hand), stops>>] = @ + 1]
    /\ BackToLoop
    /\ UNCHANGED <<committed, readerVars, seen, mainVars, rebalances, auxVars>>

\* WriteMessages fails (broker, closed writer, finished context): logged only.
PublishFails ==
    /\ Up /\ pc = "publish"
    /\ BrokerFails \/ ~writerOpen \/ cancelled
    /\ BackToLoop
    /\ unpublished' = unpublished \cup {hand}
    /\ UNCHANGED <<brokerVars, readerVars, seen, mainVars, rebalances, handled, scored, failed,
                   casualties>>

-----------------------------------------------------------------------------
(* The client library and the broker. *)

\* A fault: what was fetched into the client's buffer is committed.
FlushFetched == committed' = [p \in Partitions |-> Len(Log[p])]

FlushCommits == committed' = queued

CommitLoop ==
    /\ Up /\ readerOpen
    /\ committed # queued
    /\ FlushCommits
    /\ UNCHANGED <<alerts, readerVars, loopVars, mainVars, rebalances, auxVars>>

\* The group is rebalanced and the queue of commits is lost with the generation.
Rebalance ==
    /\ Up /\ readerOpen /\ rebalances < MaxRebalances
    /\ rebalances' = rebalances + 1
    /\ position' = committed
    /\ queued' = committed
    /\ UNCHANGED <<brokerVars, readerOpen, writerOpen, loopVars, mainVars, auxVars>>

-----------------------------------------------------------------------------
(* main: signal, Close, Shutdown, and the deferred cancel when it returns. *)

Signal ==
    /\ MayStop /\ stage = "serving" /\ stops < MaxStops
    /\ stage' = "closeReader"
    /\ UNCHANGED <<brokerVars, readerVars, loopVars, cancelled, stops, rebalances, auxVars>>

\* reader.Close flushes the commits; when it fails Close returns at once and
\* the writer stays open.
CloseReader ==
    /\ stage = "closeReader"
    /\ readerOpen' = FALSE
    /\ \/ FlushCommits /\ stage' = "closeWriter"
       \/ UNCHANGED committed /\ stage' = "shutdown"
    /\ UNCHANGED <<alerts, position, queued, writerOpen, loopVars, cancelled, stops, rebalances,
                   auxVars>>

CloseWriter ==
    /\ stage = "closeWriter"
    /\ writerOpen' = FALSE
    /\ stage' = "shutdown"
    /\ UNCHANGED <<brokerVars, position, queued, readerOpen, loopVars, cancelled, stops,
                   rebalances, auxVars>>

\* httpSrv.Shutdown returns and so does main, whose defers cancel kafkaCtx.
CancelContext ==
    /\ stage = "shutdown"
    /\ stage' = "exiting"
    /\ cancelled' = TRUE
    /\ UNCHANGED <<brokerVars, readerVars, loopVars, stops, rebalances, auxVars>>

\* The process ends: a crash at any time, or the exit after main has returned.
\* Nothing waits for the consumer goroutine.
ProcessEnds ==
    /\ Up /\ stops < MaxStops
    /\ stage' = "down"
    /\ stops' = stops + 1
    /\ pc' = "stopped" /\ hand' = Nowhere /\ flaggedNow' = FALSE /\ seen' = {}
    /\ position' = committed /\ queued' = committed
    /\ casualties' = IF pc = "handle" THEN casualties \cup {hand} ELSE casualties
    /\ UNCHANGED <<brokerVars, readerOpen, writerOpen, cancelled, rebalances, handled, scored,
                   failed, unpublished>>

\* The service is started again: everything in memory is new.
Restart ==
    /\ stage = "down"
    /\ stage' = "serving"
    /\ NewConsumer
    /\ UNCHANGED <<brokerVars, stops, rebalances, auxVars>>

-----------------------------------------------------------------------------
Handle == \/ DropMalformed \/ SkipDuplicate \/ ProcessFails \/ ProcessScores
          \/ PublishAlert \/ PublishFails
Loop == (\E p \in Partitions : ReadMessage(p)) \/ StopReading \/ Handle
Shutdown == CloseReader \/ CloseWriter \/ CancelContext

Next == Loop \/ CommitLoop \/ Rebalance \/ Signal \/ Shutdown \/ ProcessEnds \/ Restart

Spec == Init /\ [][Next]_vars

\* The goroutine is scheduled, every partition with messages is fetched from,
\* the commit timer fires, main goes through its shutdown and exits, and a
\* stopped service is started again.
Fairness == /\ \A p \in Partitions : WF_vars(ReadMessage(p))
            /\ WF_vars(Handle)
            /\ WF_vars(StopReading)
            /\ WF_vars(CommitLoop)
            /\ WF_vars(Shutdown)
            /\ WF_vars(stage = "exiting" /\ ProcessEnds)
            /\ WF_vars(Restart)

FairSpec == Spec /\ Fairness

-----------------------------------------------------------------------------
TypeOK ==
    /\ committed \in [Partitions -> Nat]
    /\ alerts \in [IDs \X (0..MaxStops) -> Nat]
    /\ position \in [Partitions -> Nat]
    /\ queued \in [Partitions -> Nat]
    /\ readerOpen \in BOOLEAN /\ writerOpen \in BOOLEAN
    /\ pc \in {"read", "handle", "publish", "stopped"}
    /\ hand \in Places \cup {Nowhere}
    /\ (hand = Nowhere) <=> pc \in {"read", "stopped"}
    /\ flaggedNow = (pc = "publish")
    /\ pc = "publish" => hand \in handled
    /\ seen \subseteq IDs
    /\ stage \in {"serving", "closeReader", "closeWriter", "shutdown", "exiting", "down"}
    /\ cancelled \in BOOLEAN
    /\ rebalances \in 0..MaxRebalances
    /\ stops \in 0..MaxStops
    /\ handled \subseteq Places /\ scored \subseteq handled \X (0..MaxStops)
    /\ failed \subseteq casualties /\ unpublished \subseteq handled
    /\ casualties \subseteq Places

\* Messages the reader has passed without anything having been done with them.
Lost == {place \in Places : /\ place[2] <= position[place[1]]
                            /\ place \notin handled
                            /\ place # hand}

\* Automatic commits lose messages, but only the one that a process had in hand
\* when it ended or was told to stop, never one that was merely fetched: so no
\* process loses more than one, whatever crashes, rebalances and shutdowns happen
\* (kafka.go:94-101: one message read, one handled).
LossIsInHand ==
    /\ Lost \subseteq casualties
    /\ Cardinality(casualties) <= stops + (IF cancelled /\ Up THEN 1 ELSE 0)

\* One process publishes at most one alert for a transaction id, and only for
\* one it has scored, although a rebalance hands it messages again
\* (kafka.go:140-163 with the seen set).
OneAlertPerProcess ==
    \A id \in IDs, n \in 0..MaxStops :
        /\ alerts[<<id, n>>] <= 1
        /\ alerts[<<id, n>>] > 0 => \E place \in Places : IDOf(place) = id /\ <<place, n>> \in scored

\* Whatever crashes, rebalances and stops happen, the group's offsets reach the
\* end of every partition, and what is not handled by then is a casualty.
CaughtUp == <>[](/\ \A p \in Partitions : committed[p] = Len(Log[p])
                 /\ Places \ handled \subseteq casualties)

\* A message is skipped only because one was scored under its id: no malformed,
\* failed or lost message makes a good one a duplicate.
\* The other one may be a different transaction, since a generated id is made of
\* the offset and not of the partition (kafka.go:133-135).
SkippedForAScoring ==
    \A place \in handled :
        At(place).json => \E other \in Places, n \in 0..MaxStops :
            IDOf(other) = IDOf(place) /\ <<other, n>> \in scored
=============================================================================

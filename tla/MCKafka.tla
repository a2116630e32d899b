------------------------------ MODULE MCKafka ------------------------------
(* Small topics for KafkaConsumer. *)
EXTENDS KafkaConsumer

Unnamed == [id |-> NoID, json |-> TRUE]
Malformed == [id |-> NoID, json |-> FALSE]

\* Two messages whose generated ids collide, and a malformed one.
MCLog == [p \in Partitions |->
    IF p = "p1" THEN <<Unnamed, Malformed>> ELSE <<Unnamed>>]

MCGeneratedID == <<"kafka-0", "kafka-1">>
=============================================================================

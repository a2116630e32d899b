---------------------------- MODULE MCNotifier ----------------------------
(* Two alerts, two phone numbers, every subset of the channels.            *)
EXTENDS Notifier

MCNumbers == <<"n1", "n2">>
=============================================================================

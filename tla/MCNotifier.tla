------------------------------ MODULE MCNotifier ------------------------------
(* Notifier with two requests, r1 and r2, on two channels, and main, which *)
(* closes it.                                                              *)
EXTENDS Notifier

CONSTANTS r1, r2, main, a, b

MCClients == {r1, r2, main}
MCClosers == {main}
MCChannels == {a, b}
===============================================================================

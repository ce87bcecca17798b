------------------------------ MODULE MCDaemon ------------------------------
(* Commands that find no daemon, one of them a shutdown. *)
EXTENDS Daemon

CONSTANTS c1, c2, c3

MCClients == {c1, c2, c3}
MCShutdowns == {c3}
=============================================================================

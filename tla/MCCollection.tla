---------------------------- MODULE MCCollection ----------------------------
(* Clients that store, delete and read under two short keys and a long one. *)
EXTENDS Collection

CONSTANTS k1, k2, k3, c1, c2

MCKeys == {k1, k2, k3}
MCVersions == {1}
MCClients == {c1, c2}
TwoShort == {k1, k2}
=============================================================================

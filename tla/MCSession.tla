----------------------------- MODULE MCSession -----------------------------
(* The session with one client, one trigger, one id and two manifests. *)
EXTENDS Session

CONSTANTS m1, m2, i1, c1, t1

MCIds == {i1}
MCManifests == {m1, m2}
MCClients == {c1}
MCTriggers == {t1}
============================================================================

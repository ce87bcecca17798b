-------------------------- MODULE SupervisorGuards --------------------------
(***************************************************************************)
(* When the decisions of Supervisor can be made.  It stands apart because  *)
(* a job has as many workers as it creates, and the prover cannot take     *)
(* ENABLED through an instance with a parameter.                           *)
(***************************************************************************)
EXTENDS Supervisor

\* Only a permission can be used or withdrawn, only an idle worker decides.
DecisionGuards ==
    /\ ENABLED <<Launch \/ Withdraw>>_vars => phase = "ready"
    /\ ENABLED <<Grant \/ Finish>>_vars => phase = "idle"
=============================================================================

----------------------------- MODULE Supervisor -----------------------------
(***************************************************************************)
(* What a worker with retries promises to the job that owns it.            *)
(*                                                                         *)
(* It runs one attempt at a time.  Each attempt needs a permission; the    *)
(* first one is there from the start, and every later one is granted after *)
(* the previous attempt ended and only while retries are not disabled.     *)
(* Disabling them is for good and takes effect on the next decision: a     *)
(* permission already granted may still be used, so that one attempt may   *)
(* start after retries were disabled, and never two.                       *)
(***************************************************************************)

VARIABLES phase,     \* what the worker is doing
          disabled   \* whether retries were disabled

vars == <<phase, disabled>>

Phases == {"ready",    \* permitted to start an attempt
           "attempt",  \* an attempt is live
           "idle",     \* the last attempt ended, nothing is decided yet
           "ended"}    \* the worker's context is done

TypeOK == phase \in Phases /\ disabled \in BOOLEAN

Init == phase = "ready" /\ disabled = FALSE

Step(from, to) == phase \in from /\ phase' = to /\ UNCHANGED disabled

Launch     == Step({"ready"}, "attempt")
AttemptEnd == Step({"attempt"}, "idle")
Grant      == ~disabled /\ Step({"idle"}, "ready")
Withdraw   == disabled /\ Step({"ready"}, "idle")
Finish     == Step({"idle"}, "ended")
Cancel     == Step({"ready", "attempt", "idle"}, "ended")
Disable    == ~disabled /\ disabled' = TRUE /\ UNCHANGED phase

Next == Launch \/ AttemptEnd \/ Grant \/ Withdraw \/ Finish \/ Cancel \/ Disable

\* A decision is always made; an attempt may last for ever.
Spec == /\ Init
        /\ [][Next]_vars
        /\ WF_vars(Launch \/ Withdraw)
        /\ WF_vars(Grant \/ Finish)

\* Retries that were disabled after the last attempt ended are the end of it.
DisabledIsFinal ==
    [][disabled /\ phase \in {"idle", "ended"} => phase' \in {"idle", "ended"}]_vars
=============================================================================

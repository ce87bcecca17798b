------------------------------- MODULE Attempt -------------------------------
(***************************************************************************)
(* What one attempt at running a task promises to whoever supervises it:   *)
(* it ends at most once and with a cause, a stop that was signalled ends   *)
(* it in bounded time whatever its task does, and an attempt that ended    *)
(* for any reason tells its task to stop.  A stop timeout is only ever the *)
(* cause of an attempt that had been told to stop, unless it is inherited  *)
(* from the parent context.                                                *)
(*                                                                         *)
(* MustWorker implements this module; RetryWorker is built on it.          *)
(***************************************************************************)
EXTENDS Causes

CONSTANT ParentCauses  \* why the parent context may be cancelled

VARIABLES cause,      \* Nil while the attempt is live, else why it ended
          stopping    \* whether the task has been told to stop

vars == <<cause, stopping>>

TypeOK == cause \in Errors \cup {Nil} /\ stopping \in BOOLEAN

Init == cause = Nil /\ stopping = FALSE

Signal == ~stopping /\ stopping' = TRUE /\ UNCHANGED cause

\* An end and the signal it causes may be seen as one step.
End == /\ ~IsDone(cause)
       /\ cause' \in Errors
       /\ cause' = "timeoutStop" => stopping \/ "timeoutStop" \in ParentCauses
       /\ stopping' \in {stopping, TRUE}

Next == Signal \/ End

Spec == /\ Init
        /\ [][Next]_vars
        /\ WF_vars(stopping /\ End)
        /\ WF_vars(IsDone(cause) /\ Signal)
==============================================================================

--------------------------- MODULE MCMustWorker ---------------------------
(* MustWorker with two concurrent callers of Stop. *)
EXTENDS MustWorker

CONSTANTS c1, c2

MCCallers == {c1, c2}

\* Options only enable timers and guards: none of them, or all of them.
MCOptionSets == {[startTimeout |-> b, minUptime |-> b, execTimeout |-> b, maxMemory |-> b] :
                    b \in BOOLEAN}

\* A clean exit, a plain failure, and a failure that is a status
\* (the error of a subtask of a pipe).
MCExitReasons == {Nil, "failure", "timeoutExec"}

\* A subtask's parent may end well; a job's context is cancelled plainly.
MCParentCauses == {ErrOk, "contextCanceled"}
===========================================================================

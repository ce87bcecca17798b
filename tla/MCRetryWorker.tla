--------------------------- MODULE MCRetryWorker ---------------------------
(* RetryWorker with a caller of Stop and one of Kill, one retry per tick. *)
EXTENDS RetryWorker

CONSTANTS s1, k1

MCStoppers == {s1}
MCKillers == {k1}

\* A task that completes, fails, forbids retries, or is stopped by force.
MCAttemptCauses == {ErrOk, "failure", "nonRetriable", "timeoutStop"}
MCRunResults == {Nil, "failure"}
MCParentCauses == {"contextCanceled"}
============================================================================

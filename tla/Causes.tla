------------------------------- MODULE Causes -------------------------------
(***************************************************************************)
(* Errors, statuses and cancellation causes of gosu: pkg/util/ok.go and    *)
(* pkg/task/status.go.                                                     *)
(*                                                                         *)
(* A Go error is a member of Errors, with Nil for the nil error.  Every    *)
(* context of the task package is created by util.WithCancelOrOk, whose    *)
(* Cancel replaces nil by the sentinel ErrOk; context.Cause of a context   *)
(* is therefore Nil exactly while the context is live, and a context is    *)
(* modelled by that one value.                                             *)
(***************************************************************************)

Nil == "nil"
ErrOk == "done"

(***************************************************************************)
(* Status values are errors too (Status implements error).                 *)
(***************************************************************************)
AliveStatuses == {"starting", "stopping", "running", "retrying"}
ErrorStatuses == {"errored", "timeoutStop", "timeoutStart", "timeoutExec"}
Statuses == {"idle", "complete", "cancelled"} \cup AliveStatuses \cup ErrorStatuses

(***************************************************************************)
(* Errors that are not statuses: the sentinel of ok.go, context.Canceled,  *)
(* the memory guard's error, "errored: quit too early" (it wraps Errored), *)
(* an error wrapping ErrNonRetriable and any other failure of a task.      *)
(***************************************************************************)
Errors == Statuses \cup
    {ErrOk, "contextCanceled", "memoryLimit", "tooEarly", "nonRetriable", "failure"}

OrOk(e) == IF e = Nil THEN ErrOk ELSE e
NotOk(e) == IF e = ErrOk THEN Nil ELSE e

\* context.CancelCauseFunc: only the first cancellation sets the cause.
Cancel(cause, e) == IF cause = Nil THEN OrOk(e) ELSE cause

IsDone(cause) == cause # Nil

\* util.Cause: Nil both for a live context and for one that ended well.
Cause(cause) == NotOk(cause)

IsAlive(s) == s \in AliveStatuses
IsError(s) == s \in ErrorStatuses

\* errors.Is against every status; the default is Errored.
StatusFromErr(e) ==
    IF e = Nil THEN "complete" ELSE IF e \in Statuses THEN e ELSE "errored"

\* What mustWorker.Run makes of a non-nil error of the task: an error that
\* is some status other than Errored is hidden behind a wrapped Errored.
Wrapped(e) == IF e # Nil /\ StatusFromErr(e) # "errored" THEN "errored" ELSE e
=============================================================================

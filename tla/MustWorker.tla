----------------------------- MODULE MustWorker -----------------------------
(***************************************************************************)
(* One attempt at running a task: mustWorker, pkg/task/work_must.go.       *)
(*                                                                         *)
(* Goroutines: Run itself, the start timer and the memory guard it spawns, *)
(* the AfterFunc callback of the context, and any number of callers of     *)
(* Stop.  The task is the environment: it may hang in Launch, never exit,  *)
(* and ignore the stop channel.  options.StopTimeout is positive, which    *)
(* Options.WithDefaults guarantees (pkg/task/options.go:35-39), so the     *)
(* branches of signalStop for a zero stop timeout are never taken.         *)
(***************************************************************************)
EXTENDS Causes

CONSTANTS Callers,       \* goroutines that call Stop
          OptionSets,    \* the combinations of options an attempt may have
          ExitReasons,   \* what the task may send on its exit channel
          ParentCauses   \* why the parent context may be cancelled

\* Which of the options that concern an attempt are positive.
Options == [startTimeout : BOOLEAN, minUptime : BOOLEAN,
            execTimeout : BOOLEAN, maxMemory : BOOLEAN]

ASSUME OptionSetsAssumption == OptionSets \subseteq Options
\* A task never reports the sentinel: util.Cause turns it back into nil.
ASSUME ExitReasonsAssumption == ExitReasons \subseteq (Errors \ {ErrOk}) \cup {Nil}
ASSUME ParentCausesAssumption == ParentCauses \subseteq Errors

VARIABLES opt,       \* which options are set; never changes
          cause,     \* the cause of the worker's context, Nil while it is live
          stopUsed,  \* stopChannelUsed, and whether stopChannel is closed
          status,    \* the status field
          run,       \* where Run is
          ret,       \* what Run returned
          exit,      \* the exit channel: the empty sequence or <<reason>>
          timer,     \* the start timer goroutine is waiting
          guard,     \* the memory guard goroutine is running
          after,     \* where the AfterFunc callback is
          pc,        \* where each caller of Stop is
          parent     \* the cause of the parent context

vars == <<opt, cause, stopUsed, status, run, ret, exit, timer, guard, after, pc, parent>>

RunPCs == {"new", "launching", "started", "up", "returned"}
StopPCs == {"idle", "checked", "marked", "enforce", "returned"}

TypeOK ==
    /\ opt \in OptionSets
    /\ cause \in Errors \cup {Nil}
    /\ stopUsed \in BOOLEAN
    /\ status \in {"idle"} \cup AliveStatuses
    /\ run \in RunPCs
    /\ ret \in Errors \cup {Nil}
    /\ exit \in {<<>>} \cup {<<e>> : e \in ExitReasons}
    /\ timer \in BOOLEAN
    /\ guard \in BOOLEAN
    /\ after \in {"armed", "marked", "returned"}
    /\ pc \in [Callers -> StopPCs]
    /\ parent \in Errors \cup {Nil}

\* newMustWorker: a live child context with the AfterFunc callback registered.
Init ==
    /\ opt \in OptionSets
    /\ cause = Nil /\ parent = Nil
    /\ stopUsed = FALSE
    /\ status = "idle"
    /\ run = "new" /\ ret = Nil
    /\ exit = <<>>
    /\ timer = FALSE /\ guard = FALSE
    /\ after = "armed"
    /\ pc = [c \in Callers |-> "idle"]

-----------------------------------------------------------------------------
(* Run *)

RunBegin ==
    /\ run = "new"
    /\ run' = "launching"
    /\ timer' = opt.startTimeout
    /\ guard' = opt.maxMemory
    /\ status' = "starting"
    /\ UNCHANGED <<opt, cause, stopUsed, ret, exit, after, pc, parent>>

\* task.Launch returns its exit channel.
LaunchReturns ==
    /\ run = "launching"
    /\ run' = "started"
    /\ UNCHANGED <<opt, cause, stopUsed, status, ret, exit, timer, guard, after, pc, parent>>

\* The task sends its exit reason, once, on its exit channel.
TaskExits(e) ==
    /\ run # "new" /\ exit = <<>>
    /\ exit' = <<e>>
    /\ UNCHANGED <<opt, cause, stopUsed, status, run, ret, timer, guard, after, pc, parent>>

Return(e) == run' = "returned" /\ ret' = e

\* Faulty variant: the inner select does not watch the context.
RunDoneOuter ==
    /\ run = "started" /\ IsDone(cause)
    /\ Return(Cause(cause))
    /\ UNCHANGED <<opt, cause, stopUsed, status, exit, timer, guard, after, pc, parent>>

\* case <-work.Done(), of either select.
RunDone ==
    /\ run \in {"started", "up"} /\ IsDone(cause)
    /\ Return(Cause(cause))
    /\ UNCHANGED <<opt, cause, stopUsed, status, exit, timer, guard, after, pc, parent>>

\* case <-options.MinUptime.After(): the channel of a zero duration is closed.
RunUp ==
    /\ run = "started"
    /\ run' = "up"
    /\ status' = "running"
    /\ UNCHANGED <<opt, cause, stopUsed, ret, exit, timer, guard, after, pc, parent>>

\* case err := <-exitReason of the outer select.
EarlyResult(e) == IF e = Nil THEN "tooEarly" ELSE Wrapped(e)

RunExitsEarly ==
    /\ run = "started" /\ exit # <<>>
    /\ cause' = Cancel(cause, EarlyResult(exit[1]))
    /\ Return(EarlyResult(exit[1]))
    /\ UNCHANGED <<opt, stopUsed, status, exit, timer, guard, after, pc, parent>>

\* Faulty variant: the error is wrapped only after it became the cause.
RunExitsRawCause ==
    /\ run = "up" /\ exit # <<>>
    /\ cause' = Cancel(cause, exit[1])
    /\ Return(Wrapped(exit[1]))
    /\ UNCHANGED <<opt, stopUsed, status, exit, timer, guard, after, pc, parent>>

\* case err := <-exitReason of the inner select.
RunExits ==
    /\ run = "up" /\ exit # <<>>
    /\ cause' = Cancel(cause, Wrapped(exit[1]))
    /\ Return(Wrapped(exit[1]))
    /\ UNCHANGED <<opt, stopUsed, status, exit, timer, guard, after, pc, parent>>

\* case <-options.ExecTimeout.AfterIf(): nil, so never ready, when not positive.
RunTimesOut ==
    /\ run = "up" /\ opt.execTimeout
    /\ cause' = Cancel(cause, "timeoutExec")
    /\ Return("timeoutExec")
    /\ UNCHANGED <<opt, stopUsed, status, exit, timer, guard, after, pc, parent>>

RunReturns == RunDone \/ RunExitsEarly \/ RunExits \/ RunTimesOut

-----------------------------------------------------------------------------
(* The goroutines Run spawns *)

\* The timer's select may still pick the timeout after launchTimeout is closed.
StartTimerFires ==
    /\ timer
    /\ timer' = FALSE
    /\ cause' = Cancel(cause, "timeoutStart")
    /\ UNCHANGED <<opt, stopUsed, status, run, ret, exit, guard, after, pc, parent>>

StartTimerEnds ==
    /\ timer /\ (IsDone(cause) \/ run # "launching")
    /\ timer' = FALSE
    /\ UNCHANGED <<opt, cause, stopUsed, status, run, ret, exit, guard, after, pc, parent>>

\* The task's report, which the environment chooses, exceeds the limit.
MemoryGuardFires ==
    /\ guard
    /\ guard' = FALSE
    /\ cause' = Cancel(cause, "memoryLimit")
    /\ UNCHANGED <<opt, stopUsed, status, run, ret, exit, timer, after, pc, parent>>

\* Faulty variant: the guard waits for Run instead of the context.
MemoryGuardEndsWithRun ==
    /\ guard /\ run = "returned"
    /\ guard' = FALSE
    /\ UNCHANGED <<opt, cause, stopUsed, status, run, ret, exit, timer, after, pc, parent>>

MemoryGuardEnds ==
    /\ guard /\ IsDone(cause)
    /\ guard' = FALSE
    /\ UNCHANGED <<opt, cause, stopUsed, status, run, ret, exit, timer, after, pc, parent>>

-----------------------------------------------------------------------------
(* Stop, Kill and the contexts *)

\* Stop looks at the context first.
StopCheck(c) ==
    /\ pc[c] = "idle"
    /\ pc' = [pc EXCEPT ![c] = IF IsDone(cause) THEN "returned" ELSE "checked"]
    /\ UNCHANGED <<opt, cause, stopUsed, status, run, ret, exit, timer, guard, after, parent>>

\* signalStop(true) overwrites the status before it knows whether it is first.
StopMark(c) ==
    /\ pc[c] = "checked"
    /\ pc' = [pc EXCEPT ![c] = "marked"]
    /\ status' = "stopping"
    /\ UNCHANGED <<opt, cause, stopUsed, run, ret, exit, timer, guard, after, parent>>

\* Faulty variant: the caller that finds the channel used is the one to wait.
StopSwapInverted(c) ==
    /\ pc[c] = "marked"
    /\ pc' = [pc EXCEPT ![c] = IF stopUsed THEN "enforce" ELSE "returned"]
    /\ stopUsed' = TRUE
    /\ UNCHANGED <<opt, cause, status, run, ret, exit, timer, guard, after, parent>>

\* Only the first to swap closes the channel and waits; others return at once.
StopSwap(c) ==
    /\ pc[c] = "marked"
    /\ pc' = [pc EXCEPT ![c] = IF stopUsed THEN "returned" ELSE "enforce"]
    /\ stopUsed' = TRUE
    /\ UNCHANGED <<opt, cause, status, run, ret, exit, timer, guard, after, parent>>

\* enforceOrCancel: the stop timeout, or the end of the context.
StopTimesOut(c) ==
    /\ pc[c] = "enforce"
    /\ pc' = [pc EXCEPT ![c] = "returned"]
    /\ cause' = Cancel(cause, "timeoutStop")
    /\ UNCHANGED <<opt, stopUsed, status, run, ret, exit, timer, guard, after, parent>>

StopWaited(c) ==
    /\ pc[c] = "enforce" /\ IsDone(cause)
    /\ pc' = [pc EXCEPT ![c] = "returned"]
    /\ UNCHANGED <<opt, cause, stopUsed, status, run, ret, exit, timer, guard, after, parent>>

Kill ==
    /\ cause' = Cancel(cause, "cancelled")
    /\ UNCHANGED <<opt, stopUsed, status, run, ret, exit, timer, guard, after, pc, parent>>

\* The parent context is cancelled, and this one with it.
ParentCancel(e) ==
    /\ ~IsDone(parent)
    /\ parent' = e
    /\ cause' = Cancel(cause, e)
    /\ UNCHANGED <<opt, stopUsed, status, run, ret, exit, timer, guard, after, pc>>

\* context.AfterFunc runs signalStop(false) once the context is done; what the
\* goroutine of enforceOrCancel could do then no longer has an effect.
AfterMark ==
    /\ after = "armed" /\ IsDone(cause)
    /\ after' = "marked"
    /\ status' = "stopping"
    /\ UNCHANGED <<opt, cause, stopUsed, run, ret, exit, timer, guard, pc, parent>>

\* Faulty variant: the stop channel is left open when nobody called Stop.
AfterSwapNoClose ==
    /\ after = "marked"
    /\ after' = "returned"
    /\ UNCHANGED <<opt, cause, stopUsed, status, run, ret, exit, timer, guard, pc, parent>>

AfterSwap ==
    /\ after = "marked"
    /\ after' = "returned"
    /\ stopUsed' = TRUE
    /\ UNCHANGED <<opt, cause, status, run, ret, exit, timer, guard, pc, parent>>

-----------------------------------------------------------------------------
Run == RunBegin \/ LaunchReturns \/ RunUp \/ RunReturns
Timers == StartTimerFires \/ StartTimerEnds \/ MemoryGuardFires \/ MemoryGuardEnds
After == AfterMark \/ AfterSwap
Stop(c) == StopCheck(c) \/ StopMark(c) \/ StopSwap(c) \/ StopTimesOut(c) \/ StopWaited(c)
Environment == \/ \E e \in ExitReasons : TaskExits(e)
               \/ Kill
               \/ \E e \in ParentCauses : ParentCancel(e)

\* Everything is over once Run, the goroutines and the callers have returned.
Next == Run \/ Timers \/ After \/ Environment \/ \E c \in Callers : Stop(c)

(***************************************************************************)
(* Fairness: goroutines that can run do, and timers expire.  Nothing is    *)
(* assumed of the task (LaunchReturns, TaskExits), of the memory report,   *)
(* of callers deciding to call Stop or Kill, or of the parent context.     *)
(***************************************************************************)
Fairness ==
    /\ WF_vars(RunBegin)
    /\ WF_vars(RunUp \/ RunReturns)
    /\ WF_vars(StartTimerFires \/ StartTimerEnds)
    /\ WF_vars(MemoryGuardEnds)
    /\ WF_vars(After)
    /\ \A c \in Callers :
         WF_vars(StopMark(c) \/ StopSwap(c) \/ StopTimesOut(c) \/ StopWaited(c))

Spec == Init /\ [][Next]_vars /\ Fairness

-----------------------------------------------------------------------------
(* Properties *)

\* Whoever waits on Done() after Run has returned does not wait forever: every
\* way out of Run leaves the context cancelled (work_must.go:157-185).
RunReturnsDone == run = "returned" => IsDone(cause)

\* Run's result and the cause of the context are read by different observers
\* (retryWorker.Run takes whichever is ready first).  They may differ only
\* when somebody other than Run ended the attempt at the same time.
OutsideCauses ==
    {"cancelled", "timeoutStart", "timeoutStop", "memoryLimit"} \cup ParentCauses

ResultAgreesWithCause ==
    run = "returned" => ret = Cause(cause) \/ cause \in OutsideCauses

\* Success is never reported, by Run or by the context, unless the task exited
\* without an error or the parent context ended well: a kill, a timeout or the
\* memory guard never looks like a completed task.
NoFalseSuccess ==
    cause = ErrOk \/ (run = "returned" /\ ret = Nil)
        => exit = <<Nil>> \/ parent = ErrOk

\* However an attempt ends, what Run returns, what the context says and what
\* the task did fit together.
EndIsTrue == RunReturnsDone /\ ResultAgreesWithCause /\ NoFalseSuccess

\* Concurrent calls of Stop: one that returns while the attempt is still live
\* leaves another caller that enforces the stop timeout, so no stop is lost
\* between the swap of stopChannelUsed and the wait (work_must.go:90-98).
StopIsEnforced ==
    ~IsDone(cause) /\ (stopUsed \/ \E c \in Callers : pc[c] = "returned")
        => \E c \in Callers : pc[c] = "enforce"

\* The end of the context, whoever caused it, gets Run out of its selects and
\* back to its caller; only the task's own Launch can still hold it.
DoneEndsRun == IsDone(cause) /\ run \in {"started", "up"} ~> run = "returned"

\* No goroutine of an attempt outlives it: the start timer, the memory guard
\* and the AfterFunc callback all end, even when the task hangs in Launch.
GoroutinesLeave == IsDone(cause) ~> [](~timer /\ ~guard /\ after = "returned")

\* The end of the context ends everything that belongs to the attempt.
DoneEndsAll == DoneEndsRun /\ GoroutinesLeave

\* The attempt keeps the promises its supervisor is written against.
A == INSTANCE Attempt WITH stopping <- stopUsed
ImplementsAttempt == A!Spec

\* Nothing but the task can hold a goroutine of an attempt: each waits for the
\* end of the context besides what it waits for, so that once it is there every
\* one of them can go on (work_must.go:90-185), and so can, at any time, the
\* caller that enforces the stop timeout.  Attempt's steps, too, are possible
\* only where it means them to be.  The proofs of what must happen start from it.
NothingBlocks ==
    /\ run = "new" => ENABLED <<RunBegin>>_vars
    /\ IsDone(cause) =>
         /\ run \in {"started", "up"} => ENABLED <<RunUp \/ RunReturns>>_vars
         /\ timer => ENABLED <<StartTimerFires \/ StartTimerEnds>>_vars
         /\ guard => ENABLED <<MemoryGuardEnds>>_vars
         /\ after # "returned" => ENABLED <<After>>_vars
    /\ \A c \in Callers : pc[c] = "enforce" =>
         ENABLED <<StopMark(c) \/ StopSwap(c) \/ StopTimesOut(c) \/ StopWaited(c)>>_vars
    /\ ENABLED <<stopUsed /\ A!End>>_(A!vars) => stopUsed /\ ~IsDone(cause)
    /\ ENABLED <<A!IsDone(cause) /\ A!Signal>>_(A!vars) => IsDone(cause) /\ ~stopUsed
=============================================================================

-------------------------------- MODULE Pipe --------------------------------
(***************************************************************************)
(* A task made of subtasks: Pipe.Launch of pkg/task/task_pipe.go with the  *)
(* modes of task_pipe_mode.go, and the cluster of N processes that         *)
(* TaskRun.Launch of task_run.go builds on the same controller.            *)
(*                                                                         *)
(* Goroutines: the loop that launches the subtasks and waits for the end,  *)
(* and one helper per subtask.  A subtask is a worker whose context is a   *)
(* child of the pipe's; what it does is the environment's choice.  An      *)
(* empty pipe is not launched through this loop: its channel is nil.       *)
(***************************************************************************)
EXTENDS Causes, Integers, FiniteSets

CONSTANTS N,             \* the number of subtasks
          Modes,         \* the modes a pipe may have
          ExitReasons,   \* what a subtask's worker may return
          ParentCauses   \* why the context of the pipe's attempt may end

AllModes == {"parallel", "ordered", "race", "any", "cluster"}

ASSUME NAssumption == N \in Nat \ {0}
ASSUME ModesAssumption == Modes \subseteq AllModes
\* Worker.Run ends with util.Cause or an error of the task, never ErrOk.
ASSUME ExitReasonsAssumption == ExitReasons \subseteq (Errors \ {ErrOk}) \cup {Nil}
ASSUME ParentCausesAssumption == ParentCauses \subseteq Errors

Subtasks == 1..N

VARIABLES mode,    \* the pipe's mode; never changes
          ctx,     \* the cause of the pipe's context, Nil while it is live
          left,    \* the counter of subtasks that have not been counted
          loop,    \* where the loop is
          next,    \* the subtask the loop is at
          helper,  \* where the helper goroutine of each subtask is
          exit,    \* the channel of each subtask: empty or <<result>>
          ret,     \* what Launch's channel delivers
          parent   \* the cause of the context of the pipe's attempt

vars == <<mode, ctx, left, loop, next, helper, exit, ret, parent>>

LoopPCs == {"check", "serialize", "wait", "spawn", "await", "returned"}
HelperPCs == {"none", "launch", "select", "count", "last", "counted", "left"}

TypeOK ==
    /\ mode \in Modes
    /\ ctx \in Errors \cup {Nil}
    /\ left \in 0..N
    /\ loop \in LoopPCs
    /\ next \in 1..(N + 1)
    /\ helper \in [Subtasks -> HelperPCs]
    /\ exit \in [Subtasks -> {<<>>} \cup {<<e>> : e \in ExitReasons}]
    /\ ret \in Errors \cup {Nil}
    /\ parent \in Errors \cup {Nil}

Init ==
    /\ mode \in Modes
    /\ ctx = Nil /\ parent = Nil
    /\ left = N
    /\ loop = "check" /\ next = 1
    /\ helper = [i \in Subtasks |-> "none"]
    /\ exit = [i \in Subtasks |-> <<>>]
    /\ ret = Nil

-----------------------------------------------------------------------------
(* The loop *)

LoopCheck ==
    /\ loop = "check"
    /\ loop' = IF next > N \/ IsDone(ctx) THEN "await"
               ELSE IF mode = "cluster" THEN "spawn" ELSE "serialize"
    /\ UNCHANGED <<mode, ctx, left, next, helper, exit, ret, parent>>

\* PipeMode.serialize.
Serialize(m) == m = "ordered"

LoopSerialize ==
    /\ loop = "serialize"
    /\ loop' = IF Serialize(mode) THEN "wait" ELSE "spawn"
    /\ UNCHANGED <<mode, ctx, left, next, helper, exit, ret, parent>>

\* Faulty variant: wg.Done is not deferred, and is skipped by the early return.
HelpersCounted == \A i \in Subtasks : helper[i] \in {"none", "counted"}

\* wg.Wait: every helper added so far has called wg.Done.
HelpersDone == \A i \in Subtasks : helper[i] \in {"none", "counted", "left"}

LoopWait ==
    /\ loop = "wait" /\ HelpersDone
    /\ loop' = "spawn"
    /\ UNCHANGED <<mode, ctx, left, next, helper, exit, ret, parent>>

\* Faulty variant: the context is not looked at again after the wait.
LoopSpawnAnyway ==
    /\ loop = "spawn"
    /\ helper' = [helper EXCEPT ![next] = "launch"]
    /\ next' = next + 1
    /\ loop' = "check"
    /\ UNCHANGED <<mode, ctx, left, exit, ret, parent>>

\* The context may have ended during the wait; a cluster does not look again.
LoopSpawn ==
    /\ loop = "spawn"
    /\ helper' = IF IsDone(ctx) /\ mode # "cluster" THEN helper
                 ELSE [helper EXCEPT ![next] = "launch"]
    /\ next' = next + 1
    /\ loop' = "check"
    /\ UNCHANGED <<mode, ctx, left, exit, ret, parent>>

\* A failure of a parallel pipe or of a cluster is not retried.
Verdict ==
    IF mode \in {"parallel", "cluster"} /\ Cause(ctx) # Nil
    THEN "nonRetriable" ELSE Cause(ctx)

LoopReturn ==
    /\ loop = "await" /\ IsDone(ctx)
    /\ ret' = Verdict
    /\ loop' = "returned"
    /\ UNCHANGED <<mode, ctx, left, next, helper, exit, parent>>

-----------------------------------------------------------------------------
(* The helper of subtask i *)

\* Both channels of the select are evaluated before it waits, so the subtask
\* is launched even under a context that is already done.
Launch(i) ==
    /\ helper[i] = "launch"
    /\ helper' = [helper EXCEPT ![i] = "select"]
    /\ UNCHANGED <<mode, ctx, left, loop, next, exit, ret, parent>>

\* case <-pipe.Done().
HelperLeaves(i) ==
    /\ helper[i] = "select" /\ IsDone(ctx)
    /\ helper' = [helper EXCEPT ![i] = "left"]
    /\ UNCHANGED <<mode, ctx, left, loop, next, exit, ret, parent>>

\* PipeMode.end: what the result e of a subtask does to the context.
End(c, e) ==
    CASE mode \in {"parallel", "ordered"} -> IF e # Nil THEN Cancel(c, e) ELSE c
      [] mode = "race" -> Cancel(c, e)
      [] mode = "any" -> IF e = Nil THEN Cancel(c, e) ELSE c

\* Faulty variant: the subtask is counted before its error is looked at.
HelperReceivesCountingFirst(i) ==
    /\ mode # "cluster"
    /\ helper[i] = "select" /\ exit[i] # <<>>
    /\ left' = left - 1
    /\ ctx' = End(IF left = 1 THEN Cancel(ctx, Nil) ELSE ctx, exit[i][1])
    /\ helper' = [helper EXCEPT ![i] = "counted"]
    /\ UNCHANGED <<mode, loop, next, exit, ret, parent>>

\* case err := <-pipe.launch(task).
HelperReceives(i) ==
    /\ mode # "cluster"
    /\ helper[i] = "select" /\ exit[i] # <<>>
    /\ ctx' = End(ctx, exit[i][1])
    /\ helper' = [helper EXCEPT ![i] = "count"]
    /\ UNCHANGED <<mode, left, loop, next, exit, ret, parent>>

\* The same of a cluster, which counts only the processes that ended well.
ClusterReceives(i) ==
    /\ mode = "cluster"
    /\ helper[i] = "select" /\ exit[i] # <<>>
    /\ helper' = [helper EXCEPT ![i] = IF exit[i][1] = Nil THEN "count" ELSE "left"]
    /\ ctx' = IF exit[i][1] = Nil THEN ctx ELSE Cancel(ctx, exit[i][1])
    /\ UNCHANGED <<mode, left, loop, next, exit, ret, parent>>

\* left.Add(-1) == 0 makes this helper the one that ends the pipe.
Count(i) ==
    /\ helper[i] = "count"
    /\ left' = left - 1
    /\ helper' = [helper EXCEPT ![i] = IF left = 1 THEN "last" ELSE "counted"]
    /\ UNCHANGED <<mode, ctx, loop, next, exit, ret, parent>>

Last(i) ==
    /\ helper[i] = "last"
    /\ ctx' = Cancel(ctx, Nil)
    /\ helper' = [helper EXCEPT ![i] = "counted"]
    /\ UNCHANGED <<mode, left, loop, next, exit, ret, parent>>

-----------------------------------------------------------------------------
(* The environment *)

Launched(i) == helper[i] \notin {"none", "launch"}

\* A subtask ends by itself, or because the pipe's context ended.
SubtaskEnds(i, e) ==
    /\ Launched(i) /\ exit[i] = <<>>
    /\ exit' = [exit EXCEPT ![i] = <<e>>]
    /\ UNCHANGED <<mode, ctx, left, loop, next, helper, ret, parent>>

ParentCancel(e) ==
    /\ ~IsDone(parent)
    /\ parent' = e
    /\ ctx' = Cancel(ctx, e)
    /\ UNCHANGED <<mode, left, loop, next, helper, exit, ret>>

-----------------------------------------------------------------------------
Loop == LoopCheck \/ LoopSerialize \/ LoopWait \/ LoopSpawn \/ LoopReturn
Helper(i) == \/ Launch(i) \/ HelperLeaves(i)
             \/ HelperReceives(i) \/ ClusterReceives(i) \/ Count(i) \/ Last(i)

\* Everything is over once the loop, the helpers and the subtasks have ended.
Next ==
    \/ Loop
    \/ \E i \in Subtasks : Helper(i) \/ \E e \in ExitReasons : SubtaskEnds(i, e)
    \/ \E e \in ParentCauses : ParentCancel(e)

(***************************************************************************)
(* Fairness: the loop and the helpers run when they can.  Nothing is       *)
(* assumed of the subtasks, not even that they end with their context.     *)
(***************************************************************************)
Fairness == WF_vars(Loop) /\ \A i \in Subtasks : WF_vars(Helper(i))

Spec == Init /\ [][Next]_vars /\ Fairness

-----------------------------------------------------------------------------
(* Properties *)

Ended(i, e) == exit[i] = <<e>>

\* pipe:ordered "runs all subtasks one after another": no subtask is so much
\* as given a helper before all those that come before it have ended well and
\* been counted, even when the pipe is cancelled during a wait.
OneAfterAnother ==
    mode = "ordered" =>
        \A j \in Subtasks : helper[j] # "none" =>
            \A i \in 1..(j - 1) : helper[i] = "counted" /\ Ended(i, Nil)

NeedsAll == mode \in {"parallel", "ordered", "cluster"}

\* In the modes that need every subtask, success is reported only after each
\* has ended well: the failure of one is not masked by the last of the others
\* counting down to zero, nor by a subtask the loop has skipped.
SuccessNeedsAll ==
    NeedsAll /\ (ctx = ErrOk \/ (loop = "returned" /\ ret = Nil)) =>
        parent = ErrOk \/ \A i \in Subtasks : Ended(i, Nil)

\* A race has the outcome of one of its subtasks; a pipe of mode any has no
\* error of its own, and without a success it waits for all of its subtasks.
FirstDecides ==
    loop = "returned" /\ ~IsDone(parent) =>
        /\ mode = "race" => \E i \in Subtasks : Ended(i, ret)
        /\ mode = "any" => /\ ret = Nil
                           /\ \/ \E i \in Subtasks : Ended(i, Nil)
                              \/ \A i \in Subtasks : exit[i] # <<>>

\* In every mode the pipe's outcome is one its subtasks have earned.
OutcomeIsRight == SuccessNeedsAll /\ FirstDecides

\* The counter never ends the pipe early: while it is positive an end by
\* success comes from a subtask's success or from the parent, and when it is
\* zero somebody is there to end the pipe (task_pipe.go:61-63).
Uncounted == {i \in Subtasks : helper[i] \notin {"last", "counted"}}

CounterEndsPipe ==
    /\ left = Cardinality(Uncounted)
    /\ left = 0 => IsDone(ctx) \/ \E i \in Subtasks : helper[i] = "last"

\* A pipe whose subtasks all end comes to its own end, whatever its mode.
SubtasksEndPipe ==
    (\A i \in Subtasks : Launched(i) ~> exit[i] # <<>>) => <>(loop = "returned")

\* A pipe that is cancelled returns even if its subtasks do not, and an ordered
\* one that waits for such a subtask is not held by the wait group.
DoneEndsPipe == IsDone(ctx) ~> loop = "returned"

\* A pipe ends when its subtasks do, and when it is cancelled.
PipeEnds == SubtasksEndPipe /\ DoneEndsPipe
=============================================================================

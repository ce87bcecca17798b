----------------------------- MODULE RetryWorker -----------------------------
(***************************************************************************)
(* A worker with retries: retryWorker, pkg/task/work_retry.go.             *)
(*                                                                         *)
(* The goroutine in Run creates one mustWorker after the other; any number *)
(* of callers of Stop and Kill race with it through the packed retryState, *)
(* the retryCancel channel and the must pointer.  An attempt is the record *)
(* [cause, stopping] of module Attempt, which MustWorker implements; the   *)
(* must pointer is the last one of attempts, and nil when there is none.   *)
(*                                                                         *)
(* Time is the value of TimerRate.Ticks(), the number of the current       *)
(* period of RetryLimit.                                                   *)
(***************************************************************************)
EXTENDS Causes, Naturals, Sequences

CONSTANTS Stoppers, Killers,  \* goroutines that call Stop, and Kill
          Count,              \* options.RetryLimit.Count
          RetrySuccess,       \* options.RetrySuccess
          RetryTickDead,      \* 0xffffffff, which is no period's number
          MaxTick,            \* bound on time
          AttemptCauses,      \* what an attempt may end with by itself
          RunResults,         \* what mustWorker.Run may return by itself
          ParentCauses        \* why the parent context may be cancelled

Callers == Stoppers \cup Killers
OutsideCauses ==
    {"cancelled", "timeoutStart", "timeoutStop", "memoryLimit"} \cup ParentCauses

ASSUME CallersAssumption == Stoppers \cap Killers = {}
ASSUME CountAssumption == Count \in Nat
ASSUME RetrySuccessAssumption == RetrySuccess \in BOOLEAN
ASSUME TicksAssumption == MaxTick \in Nat \ {0} /\ RetryTickDead \notin Nat
ASSUME CausesAssumption ==
    /\ AttemptCauses \subseteq Errors
    /\ RunResults \subseteq Errors \cup {Nil}
    /\ ParentCauses \subseteq Errors

VARIABLES attempts,  \* the mustWorkers created so far, each [cause, stopping]
          runner,    \* where Run is
          err,       \* Run's local err
          state,     \* retryState, unpacked: [tick, counter]
          seen,      \* tryRetry's locals: expected and the current tick
          closes,    \* how many times retryCancel was closed
          now,       \* the current tick
          rctx,      \* the cause of the worker's context
          parent,    \* the cause of the parent context
          status,    \* the status field
          pc,        \* where each caller is
          expected,  \* disableRetries' local expected, per caller
          target,    \* the attempt each caller found in must, 0 for nil
          granted    \* history: retries granted per tick

runnerVars == <<runner, err, seen, granted>>
callerVars == <<pc, expected, target>>
vars == <<attempts, runner, err, state, seen, closes, now, rctx, parent, status,
          pc, expected, target, granted>>

Ticks == 1..MaxTick
AttemptRecords == [cause : Errors \cup {Nil}, stopping : BOOLEAN]
RetryStates == [tick : Nat \cup {RetryTickDead}, counter : Nat]
RunnerPCs == {"new", "select", "retry", "load", "cas", "wait", "return", "returned"}
CallerPCs == {"idle", "load", "cas", "close", "must", "act", "wait", "returned"}

TypeOK ==
    /\ attempts \in Seq(AttemptRecords)
    /\ runner \in RunnerPCs
    /\ err \in Errors \cup {Nil}
    /\ state \in RetryStates
    /\ seen \in [state : RetryStates, tick : Ticks]
    /\ closes \in Nat
    /\ now \in Ticks
    /\ rctx \in Errors \cup {Nil}
    /\ parent \in Errors \cup {Nil}
    /\ status \in {"idle"} \cup AliveStatuses
    /\ pc \in [Callers -> CallerPCs]
    /\ expected \in [Callers -> RetryStates]
    /\ target \in [Callers -> Nat]
    /\ granted \in [Ticks -> Nat]

NoState == [tick |-> 0, counter |-> 0]

Init ==
    /\ attempts = <<>>
    /\ runner = "new"
    /\ err = Nil
    /\ state = NoState
    /\ seen = [state |-> NoState, tick |-> 1]
    /\ closes = 0
    /\ now = 1
    /\ rctx = Nil /\ parent = Nil
    /\ status = "idle"
    /\ pc = [c \in Callers |-> "idle"]
    /\ expected = [c \in Callers |-> NoState]
    /\ target = [c \in Callers |-> 0]
    /\ granted = [t \in Ticks |-> 0]

Current == Len(attempts)
Dead(s) == s.tick = RetryTickDead

-----------------------------------------------------------------------------
(* Attempts *)

Live(i) == i \in 1..Current /\ ~IsDone(attempts[i].cause)

\* An attempt that ends tells its task to stop, whatever ended it.
Ended(a, e) == [cause |-> Cancel(a.cause, e), stopping |-> TRUE]
Signalled(a) == [a EXCEPT !.stopping = TRUE]

AttemptEnds(i, e) ==
    /\ Live(i)
    /\ e = "timeoutStop" => attempts[i].stopping
    /\ attempts' = [attempts EXCEPT ![i] = Ended(@, e)]
    /\ UNCHANGED <<runnerVars, callerVars, state, closes, now, rctx, parent, status>>

\* Attempts and the worker's own context are children of the same parent.
ParentCancel(e) ==
    /\ ~IsDone(parent)
    /\ parent' = e
    /\ rctx' = Cancel(rctx, e)
    /\ attempts' = [i \in 1..Current |-> Ended(attempts[i], e)]
    /\ UNCHANGED <<runnerVars, callerVars, state, closes, now, status>>

Tick ==
    /\ now < MaxTick
    /\ now' = now + 1
    /\ UNCHANGED <<attempts, runnerVars, callerVars, state, closes, rctx, parent, status>>

-----------------------------------------------------------------------------
(* Run and tryRetry *)

\* Faulty variant: the attempt is not a child of the parent context.
NewAttemptDetached ==
    /\ runner = "new"
    /\ runner' = "select"
    /\ attempts' = Append(attempts, [cause |-> Nil, stopping |-> FALSE])
    /\ status' = "running"
    /\ UNCHANGED <<callerVars, err, state, seen, closes, now, rctx, parent, granted>>

\* newMustWorker, must.Store, and the Run of the attempt.
NewAttempt ==
    /\ runner = "new"
    /\ runner' = "select"
    /\ attempts' = Append(attempts, [cause |-> parent, stopping |-> IsDone(parent)])
    /\ status' = "running"
    /\ UNCHANGED <<callerVars, err, state, seen, closes, now, rctx, parent, granted>>

\* case <-retry.Done(): Run returns without a look at the attempt.
SelectRetryDone ==
    /\ runner = "select" /\ IsDone(rctx)
    /\ runner' = "return"
    /\ err' = Cause(rctx)
    /\ UNCHANGED <<callerVars, attempts, state, seen, closes, now, rctx, parent, status, granted>>

\* The attempt's context is done, or its Run has returned, which implies the
\* former; the two may disagree when somebody else ended the attempt.
AttemptResults(a) ==
    {Cause(a.cause)} \cup IF a.cause \in OutsideCauses THEN RunResults ELSE {}

SelectAttemptDone ==
    /\ runner = "select" /\ IsDone(attempts[Current].cause)
    /\ runner' = "retry"
    /\ err' \in AttemptResults(attempts[Current])
    /\ status' \in {"idle", "starting", "running", "stopping"}
    /\ UNCHANGED <<callerVars, attempts, state, seen, closes, now, rctx, parent, granted>>

\* The loop is left: Run returns err.
Exit == runner' = "return" /\ status' = "idle"

Retriable(e) ==
    /\ IF e = Nil THEN RetrySuccess ELSE e # "nonRetriable"
    /\ ~Dead(state)

TryRetry ==
    /\ runner = "retry"
    /\ IF ~IsDone(rctx) /\ Retriable(err)
         THEN runner' = "load" /\ UNCHANGED status
         ELSE Exit
    /\ UNCHANGED <<callerVars, attempts, err, state, seen, closes, now, rctx, parent, granted>>

\* Faulty variant: a dead state is not recognised.
LoadStateUnchecked ==
    /\ runner = "load"
    /\ runner' = "cas"
    /\ seen' = [state |-> state, tick |-> now]
    /\ UNCHANGED <<callerVars, attempts, err, state, closes, now, rctx, parent, status, granted>>

LoadState ==
    /\ runner = "load"
    /\ IF Dead(state)
         THEN Exit /\ UNCHANGED seen
         ELSE /\ runner' = "cas" /\ UNCHANGED status
              /\ seen' = [state |-> state, tick |-> now]
    /\ UNCHANGED <<callerVars, attempts, err, state, closes, now, rctx, parent, granted>>

\* The counter restarts in a new tick.
NextState ==
    [tick |-> seen.tick,
     counter |-> 1 + IF seen.state.tick = seen.tick THEN seen.state.counter ELSE 0]

\* Faulty variant: the limit is compared with the counter of the last failure.
CompareAndSwapLate ==
    /\ runner = "cas"
    /\ IF state # seen.state
         THEN runner' = "load" /\ UNCHANGED <<state, status, granted>>
         ELSE /\ state' = NextState
              /\ IF seen.state.counter > Count
                   THEN Exit /\ UNCHANGED granted
                   ELSE /\ runner' = "wait" /\ status' = "retrying"
                        /\ granted' = [granted EXCEPT ![seen.tick] = @ + 1]
    /\ UNCHANGED <<callerVars, attempts, err, seen, closes, now, rctx, parent>>

\* Faulty variant: a swap that was lost is not tried again.
CompareAndSwapOnce ==
    /\ runner = "cas" /\ state = seen.state
    /\ state' = NextState
    /\ IF NextState.counter > Count
         THEN Exit /\ UNCHANGED granted
         ELSE /\ runner' = "wait" /\ status' = "retrying"
              /\ granted' = [granted EXCEPT ![seen.tick] = @ + 1]
    /\ UNCHANGED <<callerVars, attempts, err, seen, closes, now, rctx, parent>>

CompareAndSwap ==
    /\ runner = "cas"
    /\ IF state # seen.state
         THEN runner' = "load" /\ UNCHANGED <<state, status, granted>>
         ELSE /\ state' = NextState
              /\ IF NextState.counter > Count
                   THEN Exit /\ UNCHANGED granted
                   ELSE /\ runner' = "wait" /\ status' = "retrying"
                        /\ granted' = [granted EXCEPT ![seen.tick] = @ + 1]
    /\ UNCHANGED <<callerVars, attempts, err, seen, closes, now, rctx, parent>>

\* case <-retry.Done(), case <-retry.retryCancel.
WaitCancelled ==
    /\ runner = "wait" /\ (IsDone(rctx) \/ closes > 0)
    /\ Exit
    /\ UNCHANGED <<callerVars, attempts, err, state, seen, closes, now, rctx, parent, granted>>

\* case <-time.After(wait): select may pick it although another case is ready.
WaitElapsed ==
    /\ runner = "wait"
    /\ runner' = "new"
    /\ UNCHANGED <<callerVars, attempts, err, state, seen, closes, now, rctx, parent, status, granted>>

\* Faulty variant: Run returns and leaves the worker's context live.
ReturnNoCancel ==
    /\ runner = "return"
    /\ runner' = "returned"
    /\ UNCHANGED <<callerVars, attempts, err, state, seen, closes, now, rctx, parent, status, granted>>

\* The deferred retry.cancel(err).
Return ==
    /\ runner = "return"
    /\ runner' = "returned"
    /\ rctx' = Cancel(rctx, err)
    /\ UNCHANGED <<callerVars, attempts, err, state, seen, closes, now, parent, status, granted>>

-----------------------------------------------------------------------------
(* Stop and Kill: disableRetries, then the attempt found in must *)

Goto(c, l) == pc' = [pc EXCEPT ![c] = l]

DisableLoad(c) ==
    /\ pc[c] \in {"idle", "load"}
    /\ IF Dead(state)
         THEN Goto(c, "must") /\ UNCHANGED expected
         ELSE Goto(c, "cas") /\ expected' = [expected EXCEPT ![c] = state]
    /\ UNCHANGED <<runnerVars, attempts, state, closes, now, rctx, parent, status, target>>

DisableCompareAndSwap(c) ==
    /\ pc[c] = "cas"
    /\ IF state = expected[c]
         THEN Goto(c, "close") /\ state' = [expected[c] EXCEPT !.tick = RetryTickDead]
         ELSE Goto(c, "load") /\ UNCHANGED state
    /\ UNCHANGED <<runnerVars, attempts, closes, now, rctx, parent, status, expected, target>>

CloseRetryCancel(c) ==
    /\ pc[c] = "close"
    /\ Goto(c, "must")
    /\ closes' = closes + 1
    /\ UNCHANGED <<runnerVars, attempts, state, now, rctx, parent, status, expected, target>>

LoadMust(c) ==
    /\ pc[c] = "must"
    /\ Goto(c, IF Current = 0 THEN "returned" ELSE "act")
    /\ target' = [target EXCEPT ![c] = Current]
    /\ UNCHANGED <<runnerVars, attempts, state, closes, now, rctx, parent, status, expected>>

\* mustWorker.Stop: waits for the attempt, unless it is over or being stopped.
StopAttempt(c) ==
    /\ c \in Stoppers /\ pc[c] = "act"
    /\ IF IsDone(attempts[target[c]].cause) \/ attempts[target[c]].stopping
         THEN Goto(c, "returned") /\ UNCHANGED attempts
         ELSE Goto(c, "wait") /\ attempts' = [attempts EXCEPT ![target[c]] = Signalled(@)]
    /\ UNCHANGED <<runnerVars, state, closes, now, rctx, parent, status, expected, target>>

StopReturns(c) ==
    /\ pc[c] = "wait" /\ IsDone(attempts[target[c]].cause)
    /\ Goto(c, "returned")
    /\ UNCHANGED <<runnerVars, attempts, state, closes, now, rctx, parent, status, expected, target>>

\* Faulty variant: the cause of an attempt that ended is overwritten.
KillAttemptAgain(c) ==
    /\ c \in Killers /\ pc[c] = "act"
    /\ attempts' = [attempts EXCEPT ![target[c]] = [cause |-> "cancelled", stopping |-> TRUE]]
    /\ Goto(c, "returned")
    /\ UNCHANGED <<runnerVars, state, closes, now, rctx, parent, status, expected, target>>

\* mustWorker.Kill: does not wait.
KillAttempt(c) ==
    /\ c \in Killers /\ pc[c] = "act"
    /\ attempts' = [attempts EXCEPT ![target[c]] = Ended(@, "cancelled")]
    /\ Goto(c, "returned")
    /\ UNCHANGED <<runnerVars, state, closes, now, rctx, parent, status, expected, target>>

-----------------------------------------------------------------------------
Run == \/ NewAttempt \/ SelectRetryDone \/ SelectAttemptDone \/ TryRetry
       \/ LoadState \/ CompareAndSwap \/ WaitCancelled \/ WaitElapsed \/ Return

Call(c) == \/ DisableLoad(c) \/ DisableCompareAndSwap(c) \/ CloseRetryCancel(c)
           \/ LoadMust(c) \/ StopAttempt(c) \/ StopReturns(c) \/ KillAttempt(c)

Environment == \/ \E i \in 1..Current, e \in AttemptCauses : AttemptEnds(i, e)
               \/ \E e \in ParentCauses : ParentCancel(e)
               \/ Tick

\* Run and every caller have returned.
Terminated ==
    /\ runner = "returned" /\ \A c \in Callers : pc[c] = "returned"
    /\ UNCHANGED vars

Next == Run \/ (\E c \in Callers : Call(c)) \/ Environment \/ Terminated

(***************************************************************************)
(* Fairness: Run proceeds, a call once begun proceeds, and an attempt that *)
(* is being stopped ends (Attempt).  An attempt nobody stops may last for  *)
(* ever, and nobody has to call Stop or Kill.                              *)
(***************************************************************************)
Fairness ==
    /\ WF_vars(Run)
    /\ \A c \in Callers : WF_vars(pc[c] # "idle" /\ Call(c))
    /\ WF_vars(\E i \in 1..Current, e \in AttemptCauses :
                  attempts[i].stopping /\ AttemptEnds(i, e))

Spec == Init /\ [][Next]_vars /\ Fairness

-----------------------------------------------------------------------------
(* Properties *)

\* Run never leaves an attempt behind: there is at most one live attempt, it is
\* the one in must, and Run is waiting for it (work_retry.go:176-188).
NoOrphanAttempt ==
    \A i \in 1..Current : Live(i) => i = Current /\ runner = "select"

\* retryCancel is closed at most once however many callers race in Stop and
\* Kill; a second close would panic (work_retry.go:78-79).
RetryCancelClosedOnce == closes <= 1

\* No more retries than RetryLimit.Count are granted in one period, although
\* the period may change between the read of the clock and the swap.
RetryLimitHolds == \A t \in Ticks : granted[t] <= Count

\* What the lock-free retry state is there for.
RetryStateHolds == RetryCancelClosedOnce /\ RetryLimitHolds

\* Once a caller has marked the retry state dead, no swap of a stale state by
\* tryRetry brings it back (work_retry.go:122).
DeadForGood == [][Dead(state) => Dead(state')]_vars

\* A stop or kill that reached a live attempt ends the whole worker, and with
\* it everybody who waits for the worker's context.
Reached(c) == pc[c] = "wait" /\ target[c] = Current /\ runner = "select"
ReachedStopEndsWorker == (\E c \in Stoppers : Reached(c)) ~> IsDone(rctx)

\* The worker keeps the promises its job is written against.
Phase == IF IsDone(rctx) THEN "ended"
         ELSE IF \E i \in 1..Current : Live(i) THEN "attempt"
         ELSE IF runner \in {"new", "wait"} THEN "ready" ELSE "idle"
S == INSTANCE SupervisorGuards WITH phase <- Phase, disabled <- Dead(state)
ImplementsSupervisor == S!Spec

\* Run waits for its attempt and for nothing else: at every other place it can
\* go on (work_retry.go:90-190), and an attempt that was told to stop can end.
\* Of Supervisor's decisions, only a permission can be used or withdrawn, and only
\* an idle worker can be granted one or finish.
WorkerGoesOn ==
    /\ runner # "returned" /\ (runner = "select" => ~Live(Current) \/ IsDone(rctx))
          => ENABLED <<Run>>_vars
    /\ (\E i \in 1..Current : Live(i) /\ attempts[i].stopping)
          => ENABLED <<\E i \in 1..Current, e \in AttemptCauses :
                          attempts[i].stopping /\ AttemptEnds(i, e)>>_vars
    /\ S!DecisionGuards

\* Every attempt, as callers and Run see it, takes only steps module Attempt
\* allows: in particular it keeps the cause that was set first, when a kill, a
\* stop, its own end and the parent's cancellation race.
At(i) == INSTANCE Attempt WITH
             ParentCauses <- ParentCauses,
             cause <- IF i <= Current THEN attempts[i].cause ELSE Nil,
             stopping <- i <= Current /\ attempts[i].stopping
AttemptsConform == [][\A i \in 1..Current' : [At(i)!Next]_(At(i)!vars)]_vars

(***************************************************************************)
(* What the code's comments and documentation say, and the code does not   *)
(* do.                                                                     *)
(***************************************************************************)

\* README.md documents "gosu stop" as stopping an application: a stop that
\* disabled the retries is followed by the end of the worker.
StopEndsWorker == Dead(state) ~> IsDone(rctx)
=============================================================================

---------------------------- MODULE RetryProofs ----------------------------
(***************************************************************************)
(* What is proved of retries: of retryWorker for any number of callers of  *)
(* Stop and Kill, any retry limit and any bound on time, and of the limits *)
(* and the backoff it works with for whatever a manifest says.             *)
(*                                                                         *)
(* The inductive invariant of the worker has four parts beside the types:  *)
(* where the locals of Run and of the callers stand to the shared state    *)
(* (Locals), how the contexts are nested (Contexts), who may close         *)
(* retryCancel (Closing), and how the counter bounds the retries granted   *)
(* (Counting).  That of the options says that what a worker has is within  *)
(* the thresholds of WithDefaults (Defaulted).                             *)
(***************************************************************************)
EXTENDS RetryWorker, RetryOptions, SequenceTheorems, TLAPS

\* A state somebody is about to swap for a new one was loaded alive, and no
\* clock was read ahead of time.
Locals ==
    /\ runner = "cas" => /\ ~Dead(seen.state)
                         /\ seen.state.tick <= seen.tick
                         /\ seen.tick <= now
    /\ \A c \in Callers : pc[c] = "cas" => ~Dead(expected[c])
    /\ \A c \in Callers : pc[c] \in {"act", "wait"} => target[c] \in 1..Current

\* The worker's context and its attempts are children of the parent.
Contexts ==
    /\ runner # "new" => Current > 0
    /\ IsDone(parent) => IsDone(rctx) /\ \A i \in 1..Current : ~Live(i)
    /\ IsDone(rctx) => IsDone(parent) \/ runner = "returned"

\* Only the caller that turned the state dead closes the channel.
Closing ==
    /\ closes <= 1
    /\ closes > 0 => Dead(state)
    /\ \A c \in Callers : pc[c] = "close" => Dead(state) /\ closes = 0
    /\ \A c, d \in Callers : pc[c] = "close" /\ pc[d] = "close" => c = d

\* While the state is alive its counter bounds what was granted in its tick,
\* and nothing was granted in a later one.
Counting ==
    ~Dead(state) =>
        /\ state.tick <= now
        /\ \A t \in Ticks : t > state.tick => granted[t] = 0
        /\ \A t \in Ticks : t = state.tick => granted[t] <= state.counter

IInv == TypeOK /\ Locals /\ Contexts /\ NoOrphanAttempt /\ Closing /\ Counting /\ RetryLimitHolds

-----------------------------------------------------------------------------
(* Lemmas *)

\* A cancellation leaves a cause behind, and the first one (ok.go:28-33).
LEMMA CancelFacts ==
    ASSUME NEW c \in Errors \cup {Nil}, NEW e \in Errors \cup {Nil}
    PROVE  /\ Cancel(c, e) \in Errors
           /\ IsDone(Cancel(c, e))
           /\ IsDone(c) => Cancel(c, e) = c
BY DEF Cancel, OrOk, IsDone, Errors, Statuses, AliveStatuses, ErrorStatuses, Nil, ErrOk

\* An attempt that was ended, by whatever cause, is an attempt that is done.
LEMMA EndedFacts ==
    ASSUME NEW a \in AttemptRecords, NEW e \in Errors \cup {Nil}
    PROVE  Ended(a, e) \in AttemptRecords /\ IsDone(Ended(a, e).cause)
<1>1. a.cause \in Errors \cup {Nil}
  BY DEF AttemptRecords
<1>2. Cancel(a.cause, e) \in Errors /\ IsDone(Cancel(a.cause, e))
  BY <1>1, CancelFacts
<1>3. QED
  BY <1>2 DEF Ended, AttemptRecords

LEMMA NilIsNoError == Nil \notin Errors /\ "cancelled" \in Errors /\ ErrOk \in Errors
BY DEF Errors, Statuses, AliveStatuses, ErrorStatuses, Nil, ErrOk

\* Types of the shared state after an attempt is replaced by an ended one.
LEMMA ReplaceFacts ==
    ASSUME attempts \in Seq(AttemptRecords), NEW i \in 1..Current, NEW a \in AttemptRecords
    PROVE  /\ [attempts EXCEPT ![i] = a] \in Seq(AttemptRecords)
           /\ Len([attempts EXCEPT ![i] = a]) = Current
BY DEF Current

\* The same when every attempt is ended by the parent.
LEMMA EndAllFacts ==
    ASSUME attempts \in Seq(AttemptRecords), NEW e \in Errors
    PROVE  LET all == [i \in 1..Current |-> Ended(attempts[i], e)]
           IN  /\ all \in Seq(AttemptRecords)
               /\ Len(all) = Current
               /\ \A i \in 1..Current : IsDone(all[i].cause)
<1> DEFINE all == [i \in 1..Current |-> Ended(attempts[i], e)]
<1>1. \A i \in 1..Current : attempts[i] \in AttemptRecords
  BY DEF Current
<1>2. \A i \in 1..Current : all[i] \in AttemptRecords /\ IsDone(all[i].cause)
  BY <1>1, EndedFacts
<1>3. Current \in Nat /\ all \in [1..Current -> AttemptRecords]
  BY <1>2 DEF Current
<1>4. all \in Seq(AttemptRecords) /\ Len(all) = Current
  BY <1>3, SeqDef, LenProperties
<1>5. QED
  BY <1>2, <1>4

-----------------------------------------------------------------------------
(* Types *)

\* The values the actions assign have the types of their variables.
LEMMA Constants ==
    /\ {"idle", "starting", "running", "stopping", "retrying"} \subseteq {"idle"} \cup AliveStatuses
    /\ {"new", "select", "retry", "load", "cas", "wait", "return", "returned"} \subseteq RunnerPCs
    /\ {"idle", "load", "cas", "close", "must", "act", "wait", "returned"} \subseteq CallerPCs
    /\ NoState \in RetryStates /\ 1 \in Ticks
BY TicksAssumption DEF AliveStatuses, RunnerPCs, CallerPCs, NoState, RetryStates, Ticks

LEMMA InitType == Init => TypeOK
<1> SUFFICES ASSUME Init PROVE TypeOK
  OBVIOUS
<1>1. attempts \in Seq(AttemptRecords)
  BY DEF Init
<1>2. QED
  BY <1>1, Constants, NilIsNoError DEF Init, TypeOK

\* The environment's steps.
LEMMA EnvironmentType == TypeOK /\ Environment => TypeOK'
<1> SUFFICES ASSUME TypeOK, Environment PROVE TypeOK'
  OBVIOUS
<1>1. ASSUME NEW i \in 1..Current, NEW e \in AttemptCauses, AttemptEnds(i, e) PROVE TypeOK'
  <2>1. e \in Errors \cup {Nil} /\ attempts[i] \in AttemptRecords
    BY CausesAssumption DEF TypeOK, Current
  <2>2. attempts' = [attempts EXCEPT ![i] = Ended(attempts[i], e)]
    BY <1>1 DEF AttemptEnds
  <2>3. attempts' \in Seq(AttemptRecords)
    BY <2>1, <2>2, EndedFacts, ReplaceFacts DEF TypeOK
  <2>4. QED
    BY <1>1, <2>3 DEF AttemptEnds, runnerVars, callerVars, TypeOK
<1>2. ASSUME NEW e \in ParentCauses, ParentCancel(e) PROVE TypeOK'
  <2>1. e \in Errors /\ Cancel(rctx, e) \in Errors
    BY CausesAssumption, CancelFacts DEF TypeOK
  <2>2. attempts' \in Seq(AttemptRecords)
    BY <1>2, <2>1, EndAllFacts DEF ParentCancel, TypeOK
  <2>3. QED
    BY <1>2, <2>1, <2>2 DEF ParentCancel, runnerVars, callerVars, TypeOK
<1>3. CASE Tick
  <2>1. now' \in Ticks
    BY <1>3, TicksAssumption DEF Tick, TypeOK, Ticks
  <2>2. QED
    BY <1>3, <2>1 DEF Tick, runnerVars, callerVars, TypeOK
<1>4. QED
  BY <1>1, <1>2, <1>3 DEF Environment

\* The steps of Run.
LEMMA RunType == TypeOK /\ Contexts /\ Run => TypeOK'
<1> SUFFICES ASSUME TypeOK, Contexts, Run PROVE TypeOK'
  OBVIOUS
<1> USE Constants DEF callerVars
<1>0. /\ Cause(rctx) \in Errors \cup {Nil}
      /\ Cancel(rctx, err) \in Errors
  BY CancelFacts DEF Cause, NotOk, TypeOK
<1>1. CASE NewAttempt
  <2>1. [cause |-> parent, stopping |-> IsDone(parent)] \in AttemptRecords
    BY DEF TypeOK, AttemptRecords, IsDone
  <2>2. attempts' \in Seq(AttemptRecords)
    BY <1>1, <2>1 DEF NewAttempt, TypeOK
  <2>3. QED
    BY <1>1, <2>2 DEF NewAttempt, TypeOK
<1>2. CASE SelectRetryDone
  BY <1>2, <1>0 DEF SelectRetryDone, TypeOK
<1>3. CASE SelectAttemptDone
  <2>1. attempts[Current] \in AttemptRecords
    BY <1>3 DEF SelectAttemptDone, Contexts, Current, TypeOK
  <2>2. AttemptResults(attempts[Current]) \subseteq Errors \cup {Nil}
    BY <2>1, CausesAssumption DEF AttemptResults, AttemptRecords, Cause, NotOk
  <2>3. QED
    BY <1>3, <2>2 DEF SelectAttemptDone, TypeOK
<1>4. CASE TryRetry
  BY <1>4 DEF TryRetry, Exit, TypeOK
<1>5. CASE LoadState
  <2>1. [state |-> state, tick |-> now] \in [state : RetryStates, tick : Ticks]
    BY DEF TypeOK
  <2>2. QED
    BY <1>5, <2>1 DEF LoadState, Exit, TypeOK
<1>6. CASE CompareAndSwap
  <2>1. NextState \in RetryStates
    BY DEF TypeOK, NextState, RetryStates, Ticks
  <2>2. [granted EXCEPT ![seen.tick] = @ + 1] \in [Ticks -> Nat]
    BY DEF TypeOK
  <2>3. QED
    BY <1>6, <2>1, <2>2 DEF CompareAndSwap, Exit, TypeOK
<1>7. CASE WaitCancelled
  BY <1>7 DEF WaitCancelled, Exit, TypeOK
<1>8. CASE WaitElapsed
  BY <1>8 DEF WaitElapsed, TypeOK
<1>9. CASE Return
  BY <1>9, <1>0 DEF Return, TypeOK
<1>10. QED
  BY <1>1, <1>2, <1>3, <1>4, <1>5, <1>6, <1>7, <1>8, <1>9 DEF Run

\* The steps of a caller of Stop or Kill.
LEMMA CallType == ASSUME TypeOK, Locals, NEW c \in Callers, Call(c) PROVE TypeOK'
<1> USE Constants DEF runnerVars
<1>1. CASE DisableLoad(c)
  BY <1>1 DEF DisableLoad, Goto, TypeOK
<1>2. CASE DisableCompareAndSwap(c)
  <2>1. [expected[c] EXCEPT !.tick = RetryTickDead] \in RetryStates
    BY DEF TypeOK, RetryStates
  <2>2. QED
    BY <1>2, <2>1 DEF DisableCompareAndSwap, Goto, TypeOK
<1>3. CASE CloseRetryCancel(c)
  BY <1>3 DEF CloseRetryCancel, Goto, TypeOK
<1>4. CASE LoadMust(c)
  BY <1>4 DEF LoadMust, Goto, Current, TypeOK
<1>5. CASE StopAttempt(c)
  <2>1. target[c] \in 1..Current
    BY <1>5 DEF StopAttempt, Locals
  <2>2. attempts[target[c]] \in AttemptRecords
    BY <2>1 DEF TypeOK, Current
  <2>3. Signalled(attempts[target[c]]) \in AttemptRecords
    BY <2>2 DEF Signalled, AttemptRecords
  <2>4. attempts' \in Seq(AttemptRecords)
    <3>1. \/ attempts' = attempts
          \/ attempts' = [attempts EXCEPT ![target[c]] = Signalled(attempts[target[c]])]
      BY <1>5 DEF StopAttempt
    <3>2. attempts \in Seq(AttemptRecords)
      BY DEF TypeOK
    <3>3. QED
      BY <2>1, <2>3, <3>1, <3>2, ReplaceFacts
  <2>5. QED
    BY <1>5, <2>4 DEF StopAttempt, Goto, TypeOK
<1>6. CASE StopReturns(c)
  BY <1>6 DEF StopReturns, Goto, TypeOK
<1>7. CASE KillAttempt(c)
  <2>1. target[c] \in 1..Current
    BY <1>7 DEF KillAttempt, Locals
  <2>2. attempts[target[c]] \in AttemptRecords
    BY <2>1 DEF TypeOK, Current
  <2>3. Ended(attempts[target[c]], "cancelled") \in AttemptRecords
    BY <2>2, EndedFacts, NilIsNoError
  <2>4. attempts' \in Seq(AttemptRecords)
    BY <1>7, <2>1, <2>3, ReplaceFacts DEF KillAttempt, TypeOK
  <2>5. QED
    BY <1>7, <2>4 DEF KillAttempt, Goto, TypeOK
<1>8. QED
  BY <1>1, <1>2, <1>3, <1>4, <1>5, <1>6, <1>7 DEF Call

\* Every step preserves the types.
LEMMA TypeStep == TypeOK /\ Locals /\ Contexts /\ [Next]_vars => TypeOK'
<1>1. TypeOK /\ UNCHANGED vars => TypeOK'
  BY DEF vars, TypeOK
<1>2. QED
  BY <1>1, EnvironmentType, RunType, CallType DEF Next, Terminated

-----------------------------------------------------------------------------
(* Attempts and contexts *)

\* Which attempts are live after a step: a new one, or some of those before it.
LEMMA LiveStep ==
    ASSUME TypeOK, Locals, [Next]_vars
    PROVE  IF NewAttempt
             THEN /\ Current' = Current + 1
                  /\ \A i \in 1..Current : Live(i)' => Live(i)
                  /\ \A i \in 1..Current' : i > Current /\ Live(i)' => ~IsDone(parent)
             ELSE Current' = Current /\ \A i \in 1..Current : Live(i)' => Live(i)
<1> DEFINE Fewer == Current' = Current /\ \A i \in 1..Current : Live(i)' => Live(i)
<1>0. attempts \in Seq(AttemptRecords) /\ Current \in Nat
  BY DEF TypeOK, Current
<1>1. CASE NewAttempt
  <2>1. attempts' = Append(attempts, [cause |-> parent, stopping |-> IsDone(parent)])
    BY <1>1 DEF NewAttempt
  <2>2. /\ Len(attempts') = Len(attempts) + 1
        /\ \A i \in 1..Len(attempts) : attempts'[i] = attempts[i]
        /\ attempts'[Len(attempts) + 1] = [cause |-> parent, stopping |-> IsDone(parent)]
    BY <1>0, <2>1
  <2>3. QED
    BY <1>0, <1>1, <2>2 DEF Live, Current
<1>2. ASSUME NEW i \in 1..Current, NEW a, IsDone(a.cause) \/ a.cause = attempts[i].cause,
             attempts' = [attempts EXCEPT ![i] = a]
      PROVE  Fewer
  <2>1. Len(attempts') = Len(attempts)
    BY <1>0, <1>2 DEF Current
  <2>2. \A j \in 1..Current : attempts'[j] = IF j = i THEN a ELSE attempts[j]
    BY <1>0, <1>2 DEF Current
  <2>3. QED
    BY <1>2, <2>1, <2>2 DEF Live, Current
<1>3. ASSUME NEW i \in 1..Current, NEW e \in AttemptCauses, AttemptEnds(i, e) PROVE Fewer
  <2>1. attempts[i] \in AttemptRecords /\ e \in Errors
    BY <1>0, CausesAssumption DEF Current
  <2>2. IsDone(Ended(attempts[i], e).cause)
    BY <2>1, EndedFacts
  <2>3. attempts' = [attempts EXCEPT ![i] = Ended(attempts[i], e)]
    BY <1>3 DEF AttemptEnds
  <2>4. QED
    BY <1>2, <2>2, <2>3
<1>4. ASSUME NEW e \in ParentCauses, ParentCancel(e) PROVE Fewer
  <2>1. /\ Len(attempts') = Current
        /\ \A i \in 1..Current : IsDone(attempts'[i].cause)
    BY <1>0, <1>4, CausesAssumption, EndAllFacts DEF ParentCancel
  <2>2. QED
    BY <2>1 DEF Live, Current
<1>5. ASSUME NEW c \in Callers, StopAttempt(c) PROVE Fewer
  <2>1. target[c] \in 1..Current
    BY <1>5 DEF StopAttempt, Locals
  <2>2. \/ attempts' = attempts
        \/ attempts' = [attempts EXCEPT ![target[c]] = Signalled(attempts[target[c]])]
    BY <1>5 DEF StopAttempt
  <2>3. Signalled(attempts[target[c]]).cause = attempts[target[c]].cause
    BY <1>0, <2>1 DEF Signalled, AttemptRecords, Current
  <2>4. QED
    BY <1>2, <2>1, <2>2, <2>3 DEF Live, Current
<1>6. ASSUME NEW c \in Callers, KillAttempt(c) PROVE Fewer
  <2>1. target[c] \in 1..Current
    BY <1>6 DEF KillAttempt, Locals
  <2>2. attempts[target[c]] \in AttemptRecords
    BY <1>0, <2>1 DEF Current
  <2>3. IsDone(Ended(attempts[target[c]], "cancelled").cause)
    BY <2>2, EndedFacts, NilIsNoError
  <2>4. attempts' = [attempts EXCEPT ![target[c]] = Ended(attempts[target[c]], "cancelled")]
    BY <1>6 DEF KillAttempt
  <2>5. QED
    BY <1>2, <2>1, <2>3, <2>4
<1>7. ASSUME UNCHANGED attempts PROVE Fewer
  BY <1>7 DEF Live, Current
<1>8. \/ NewAttempt
      \/ \E i \in 1..Current, e \in AttemptCauses : AttemptEnds(i, e)
      \/ \E e \in ParentCauses : ParentCancel(e)
      \/ \E c \in Callers : StopAttempt(c) \/ KillAttempt(c)
      \/ UNCHANGED attempts
  BY DEF Next, Run, Call, Environment, Terminated, vars,
         SelectRetryDone, SelectAttemptDone, TryRetry, LoadState, CompareAndSwap,
         WaitCancelled, WaitElapsed, Return, DisableLoad, DisableCompareAndSwap,
         CloseRetryCancel, LoadMust, StopReturns, Tick
<1>9. NewAttempt => Current' # Current
  BY <1>0, <1>1
<1>10. QED
  BY <1>1, <1>3, <1>4, <1>5, <1>6, <1>7, <1>8, <1>9

\* What a step does to Run and to the contexts.
LEMMA RunnerStep ==
    ASSUME TypeOK, [Next]_vars
    PROVE  /\ runner = "select" /\ runner' # "select" =>
                IsDone(rctx) \/ IsDone(attempts[Current].cause)
           /\ runner # "new" /\ runner' = "new" => runner = "wait"
           /\ NewAttempt => runner = "new" /\ runner' = "select" /\ UNCHANGED <<parent, rctx>>
           /\ runner = "new" /\ runner' # "new" => NewAttempt
           /\ runner' = "returned" /\ runner # "returned" => Return
           /\ runner = "returned" => runner' = "returned"
           /\ \/ UNCHANGED <<parent, rctx>>
              \/ Return /\ runner' = "returned" /\ UNCHANGED parent
                 /\ IsDone(rctx') /\ (IsDone(rctx) => rctx' = rctx)
              \/ \E e \in ParentCauses : ParentCancel(e) /\ IsDone(rctx')
<1>1. ASSUME NEW e \in ParentCauses, ParentCancel(e)
      PROVE  IsDone(rctx') /\ UNCHANGED runner
  BY <1>1, CausesAssumption, CancelFacts DEF ParentCancel, runnerVars, TypeOK
<1>2. Return => /\ runner = "return" /\ runner' = "returned" /\ UNCHANGED parent
                /\ IsDone(rctx') /\ (IsDone(rctx) => rctx' = rctx)
  <2>1. rctx \in Errors \cup {Nil} /\ err \in Errors \cup {Nil}
    BY DEF TypeOK
  <2>2. IsDone(Cancel(rctx, err)) /\ (IsDone(rctx) => Cancel(rctx, err) = rctx)
    BY <2>1, CancelFacts
  <2>3. QED
    BY <2>2 DEF Return
<1>3. CASE Run
  BY <1>2, <1>3 DEF Run, NewAttempt, SelectRetryDone, SelectAttemptDone, TryRetry, LoadState,
         CompareAndSwap, WaitCancelled, WaitElapsed, Exit
<1>4. CASE \E e \in ParentCauses : ParentCancel(e)
  BY <1>1, <1>4 DEF NewAttempt
<1>5. ASSUME UNCHANGED <<runner, parent, rctx>>
      PROVE  NewAttempt => FALSE
  BY <1>5 DEF NewAttempt
<1>6. CASE UNCHANGED <<runner, parent, rctx>>
  BY <1>5, <1>6
<1>7. Run \/ (\E e \in ParentCauses : ParentCancel(e)) \/ UNCHANGED <<runner, parent, rctx>>
  BY DEF Next, Call, Environment, Terminated, vars, AttemptEnds, Tick, DisableLoad,
         DisableCompareAndSwap, CloseRetryCancel, LoadMust, StopAttempt, StopReturns,
         KillAttempt, runnerVars
<1>8. QED
  BY <1>3, <1>4, <1>6, <1>7

\* The nesting of the contexts is preserved.
LEMMA ContextsStep == IInv /\ [Next]_vars => Contexts'
<1> SUFFICES ASSUME IInv, [Next]_vars PROVE Contexts'
  OBVIOUS
<1>0. TypeOK /\ Locals /\ Contexts /\ Current \in Nat
  BY DEF IInv, TypeOK, Current
<1>1. (runner # "new" => Current > 0)'
  BY <1>0, LiveStep, RunnerStep DEF Contexts
<1>2. IsDone(parent') => IsDone(rctx') /\ \A i \in 1..Current' : ~Live(i)'
  <2>1. ASSUME NEW e \in ParentCauses, ParentCancel(e) PROVE \A i \in 1..Current' : ~Live(i)'
    <3>1. /\ Len(attempts') = Current
          /\ \A i \in 1..Current : IsDone(attempts'[i].cause)
      BY <1>0, <2>1, CausesAssumption, EndAllFacts DEF ParentCancel, TypeOK
    <3>2. QED
      BY <3>1 DEF Live, Current
  <2>2. CASE UNCHANGED parent /\ ~NewAttempt
    BY <1>0, <2>2, LiveStep, RunnerStep, <2>1 DEF Contexts
  <2>3. CASE NewAttempt
    <3>1. ASSUME IsDone(parent), NEW i \in 1..Current' PROVE ~Live(i)'
      <4>1. i \in 1..Current \/ i > Current
        BY <1>0, <2>3, LiveStep
      <4>2. QED
        BY <1>0, <2>3, <3>1, <4>1, LiveStep DEF Contexts
    <3>2. QED
      BY <1>0, <2>3, <3>1, RunnerStep DEF Contexts
  <2>4. QED
    BY <1>0, <2>1, <2>2, <2>3, RunnerStep
<1>3. (IsDone(rctx) => IsDone(parent) \/ runner = "returned")'
  <2>1. ASSUME NEW e \in ParentCauses, ParentCancel(e) PROVE IsDone(parent')
    BY <2>1, CausesAssumption, NilIsNoError DEF ParentCancel, IsDone
  <2>2. QED
    BY <1>0, <2>1, RunnerStep DEF Contexts
<1>4. QED
  BY <1>1, <1>2, <1>3 DEF Contexts

\* No step leaves an attempt behind.
LEMMA NoOrphanStep == IInv /\ [Next]_vars => NoOrphanAttempt'
<1> SUFFICES ASSUME IInv, [Next]_vars, NEW i \in 1..Current', Live(i)'
             PROVE  i = Current' /\ runner' = "select"
  BY DEF NoOrphanAttempt
<1>0. TypeOK /\ Locals /\ Contexts /\ NoOrphanAttempt /\ Current \in Nat
  BY DEF IInv, TypeOK, Current
<1>1. CASE NewAttempt
  <2>1. runner = "new" /\ runner' = "select" /\ Current' = Current + 1
    BY <1>0, <1>1, RunnerStep, LiveStep
  <2>2. CASE i \in 1..Current
    <3>1. Live(i)
      BY <1>0, <1>1, <2>2, LiveStep
    <3>2. QED
      BY <1>0, <2>1, <2>2, <3>1 DEF NoOrphanAttempt
  <2>3. QED
    BY <1>0, <2>1, <2>2
<1>2. CASE ~NewAttempt
  <2>1. Current' = Current /\ Live(i)
    BY <1>0, <1>2, LiveStep
  <2>2. i = Current /\ runner = "select"
    BY <1>0, <2>1 DEF NoOrphanAttempt
  <2>3. ~IsDone(rctx) /\ ~IsDone(attempts[Current].cause)
    BY <1>0, <2>1, <2>2 DEF Contexts, Live
  <2>4. runner' = "select"
    BY <1>0, <2>2, <2>3, RunnerStep
  <2>5. QED
    BY <2>1, <2>2, <2>4
<1>3. QED
  BY <1>1, <1>2

-----------------------------------------------------------------------------
(* The retry state *)

\* The three ways a step treats the retry state.
LEMMA StateStep ==
    ASSUME TypeOK, Locals, [Next]_vars
    PROVE  \/ UNCHANGED <<state, granted>>
           \/ CompareAndSwap /\ state = seen.state /\ ~Dead(state)
           \/ \E c \in Callers : /\ DisableCompareAndSwap(c) /\ state = expected[c]
                                 /\ ~Dead(state) /\ Dead(state')
                                 /\ UNCHANGED granted
<1>1. CASE CompareAndSwap
  BY <1>1 DEF CompareAndSwap, Locals
<1>2. ASSUME NEW c \in Callers, DisableCompareAndSwap(c), state = expected[c]
      PROVE  ~Dead(state) /\ Dead(state') /\ UNCHANGED granted
  <2>1. state' = [expected[c] EXCEPT !.tick = RetryTickDead] /\ expected[c] \in RetryStates
    BY <1>2 DEF DisableCompareAndSwap, TypeOK
  <2>2. QED
    BY <1>2, <2>1 DEF DisableCompareAndSwap, Locals, Dead, RetryStates, runnerVars
<1>3. ASSUME NEW c \in Callers, DisableCompareAndSwap(c), state # expected[c]
      PROVE  UNCHANGED <<state, granted>>
  BY <1>3 DEF DisableCompareAndSwap, runnerVars
<1>4. \/ CompareAndSwap
      \/ \E c \in Callers : DisableCompareAndSwap(c)
      \/ UNCHANGED <<state, granted>>
  BY DEF Next, Run, Call, Environment, Terminated, vars, NewAttempt, SelectRetryDone,
         SelectAttemptDone, TryRetry, LoadState, WaitCancelled, WaitElapsed, Return,
         AttemptEnds, ParentCancel, Tick, DisableLoad, CloseRetryCancel, LoadMust,
         StopAttempt, StopReturns, KillAttempt, runnerVars
<1>5. QED
  BY <1>1, <1>2, <1>3, <1>4

\* A successful swap by tryRetry leaves the state alive, in a tick not after now.
LEMMA SwapFacts ==
    ASSUME TypeOK, Locals, CompareAndSwap, state = seen.state
    PROVE  /\ state' = NextState /\ ~Dead(state')
           /\ state'.tick = seen.tick /\ seen.tick \in Ticks
           /\ state.tick <= seen.tick /\ seen.tick <= now /\ now' = now
           /\ state'.counter = IF state.tick = seen.tick THEN state.counter + 1 ELSE 1
           /\ state'.counter > Count => UNCHANGED granted
           /\ state'.counter <= Count => granted' = [granted EXCEPT ![seen.tick] = @ + 1]
<1>1. state' = NextState /\ runner = "cas"
  BY DEF CompareAndSwap
<1>2. /\ seen.tick \in Ticks /\ seen.tick \in Nat
      /\ seen.state.counter \in Nat
  BY DEF TypeOK, Ticks, RetryStates
<1>3. /\ NextState.tick = seen.tick
      /\ NextState.counter = IF state.tick = seen.tick THEN state.counter + 1 ELSE 1
  BY <1>2 DEF NextState
<1>4. state'.counter \in Nat
  BY <1>1, <1>2, <1>3
<1>5. QED
  BY <1>1, <1>2, <1>3, <1>4, TicksAssumption, CountAssumption DEF CompareAndSwap, Locals, Dead

\* The counter goes on bounding what is granted.
LEMMA CountingStep == IInv /\ [Next]_vars => Counting' /\ RetryLimitHolds'
<1> SUFFICES ASSUME IInv, [Next]_vars PROVE Counting' /\ RetryLimitHolds'
  OBVIOUS
<1>0. TypeOK /\ Locals /\ Counting /\ RetryLimitHolds
  BY DEF IInv
<1>1. CASE UNCHANGED <<state, granted>>
  <2>1. now <= now' /\ now \in Nat /\ now' \in Nat
    BY <1>0 DEF Next, Run, Call, Environment, Terminated, vars, NewAttempt, SelectRetryDone,
         SelectAttemptDone, TryRetry, LoadState, CompareAndSwap, WaitCancelled, WaitElapsed,
         Return, AttemptEnds, ParentCancel, Tick, DisableLoad, DisableCompareAndSwap,
         CloseRetryCancel, LoadMust, StopAttempt, StopReturns, KillAttempt, TypeOK, Ticks
  <2>2. ~Dead(state) => state.tick \in Nat
    BY <1>0 DEF Dead, TypeOK, RetryStates
  <2>3. QED
    BY <1>0, <1>1, <2>1, <2>2 DEF Counting, RetryLimitHolds, Dead
<1>2. CASE CompareAndSwap /\ state = seen.state /\ ~Dead(state)
  <2>1. /\ state'.tick = seen.tick /\ seen.tick \in Ticks
        /\ state.tick <= seen.tick /\ seen.tick <= now /\ now' = now
        /\ state'.counter = IF state.tick = seen.tick THEN state.counter + 1 ELSE 1
        /\ state'.counter > Count => UNCHANGED granted
        /\ state'.counter <= Count => granted' = [granted EXCEPT ![seen.tick] = @ + 1]
    BY <1>0, <1>2, SwapFacts
  <2>2. /\ granted \in [Ticks -> Nat] /\ Ticks \subseteq Nat
        /\ state.tick \in Nat /\ state.counter \in Nat /\ Count \in Nat
    BY <1>0, <1>2, CountAssumption DEF TypeOK, Ticks, RetryStates, Dead
  <2>a. /\ \A t \in Ticks : t > state.tick => granted[t] = 0
        /\ \A t \in Ticks : t = state.tick => granted[t] <= state.counter
    BY <1>0, <1>2 DEF Counting
  <2>b. seen.tick \in Nat
    BY <2>1, <2>2
  <2>3. granted[seen.tick] + 1 <= state'.counter
    <3>1. CASE state.tick = seen.tick
      BY <2>1, <2>2, <2>a, <3>1
    <3>2. CASE state.tick # seen.tick
      <4>1. seen.tick > state.tick
        BY <2>1, <2>2, <2>b, <3>2
      <4>2. granted[seen.tick] = 0 /\ state'.counter = 1
        BY <2>1, <2>a, <3>2, <4>1
      <4>3. QED
        BY <4>2
    <3>3. QED
      BY <3>1, <3>2
  <2>4. ASSUME NEW t \in Ticks, t > seen.tick PROVE granted[t] = 0
    <3>1. t > state.tick
      BY <2>1, <2>2, <2>b, <2>4
    <3>2. QED
      BY <2>a, <3>1
  <2>5. CASE state'.counter > Count
    BY <1>0, <2>1, <2>2, <2>3, <2>4, <2>5 DEF Counting, RetryLimitHolds
  <2>6. CASE state'.counter <= Count
    <3>1. \A t \in Ticks : granted'[t] = IF t = seen.tick THEN granted[t] + 1 ELSE granted[t]
      BY <2>1, <2>2, <2>6
    <3>2. Counting'
      BY <2>1, <2>2, <2>3, <2>4, <3>1 DEF Counting
    <3>3. RetryLimitHolds'
      BY <1>0, <2>1, <2>2, <2>3, <2>6, <3>1 DEF RetryLimitHolds
    <3>4. QED
      BY <3>2, <3>3
  <2>7. state'.counter \in Nat
    BY <2>1, <2>2
  <2>8. QED
    BY <2>2, <2>5, <2>6, <2>7
<1>3. CASE Dead(state') /\ UNCHANGED granted
  BY <1>0, <1>3 DEF Counting, RetryLimitHolds
<1>4. QED
  BY <1>0, <1>1, <1>2, <1>3, StateStep

-----------------------------------------------------------------------------
(* Locals, and the channel *)

\* A step moves the clock forward only, and no attempt is forgotten.
LEMMA MonotoneStep ==
    ASSUME TypeOK, Locals, [Next]_vars
    PROVE  now \in Nat /\ now' \in Nat /\ now <= now' /\ Current \in Nat /\ Current <= Current'
<1>1. now \in Nat /\ now' \in Nat /\ now <= now'
  BY DEF Next, Run, Call, Environment, Terminated, vars, NewAttempt, SelectRetryDone,
         SelectAttemptDone, TryRetry, LoadState, CompareAndSwap, WaitCancelled, WaitElapsed,
         Return, AttemptEnds, ParentCancel, Tick, DisableLoad, DisableCompareAndSwap,
         CloseRetryCancel, LoadMust, StopAttempt, StopReturns, KillAttempt, TypeOK, Ticks
<1>2. Current \in Nat
  BY DEF TypeOK, Current
<1>3. QED
  BY <1>1, <1>2, LiveStep

\* A caller's target remains one of the attempts.
LEMMA WithinStep ==
    ASSUME TypeOK, Locals, [Next]_vars
    PROVE  \A i : i \in 1..Current => i \in 1..Current'
<1>1. Current \in Nat /\ Current' \in Nat /\ Current <= Current'
  BY MonotoneStep, LiveStep
<1>2. QED
  BY <1>1

\* Run: what tryRetry loaded stays as good as it was.
LEMMA SeenStep ==
    ASSUME IInv, [Next]_vars
    PROVE  runner' = "cas" => /\ ~Dead(seen'.state)
                              /\ seen'.state.tick <= seen'.tick
                              /\ seen'.tick <= now'
<1>0. TypeOK /\ Locals /\ Counting
  BY DEF IInv
<1>1. CASE LoadState
  <2>1. ASSUME runner' = "cas"
        PROVE  ~Dead(state) /\ seen' = [state |-> state, tick |-> now] /\ now' = now
    BY <1>1, <2>1 DEF LoadState, Exit
  <2>2. ASSUME runner' = "cas" PROVE state.tick <= now
    BY <1>0, <2>1, <2>2 DEF Counting
  <2>3. now <= now
    BY <1>0 DEF TypeOK, Ticks
  <2>4. QED
    BY <2>1, <2>2, <2>3
<1>2. CASE UNCHANGED seen /\ (runner' = "cas" => runner = "cas")
  <2>1. seen.tick \in Nat
    BY <1>0 DEF TypeOK, Ticks
  <2>2. QED
    BY <1>0, <1>2, <2>1, MonotoneStep DEF Locals
<1>3. LoadState \/ (UNCHANGED seen /\ (runner' = "cas" => runner = "cas"))
  BY DEF Next, Run, Call, Environment, Terminated, vars, NewAttempt, SelectRetryDone,
         SelectAttemptDone, TryRetry, CompareAndSwap, WaitCancelled, WaitElapsed, Exit,
         Return, AttemptEnds, ParentCancel, Tick, DisableLoad, DisableCompareAndSwap,
         CloseRetryCancel, LoadMust, StopAttempt, StopReturns, KillAttempt, runnerVars
<1>4. QED
  BY <1>1, <1>2, <1>3

\* A step is a step of one caller at most, and leaves the others where they are.
LEMMA CallerStep ==
    ASSUME TypeOK, [Next]_vars
    PROVE  \/ UNCHANGED <<pc, expected, target, closes>>
           \/ \E c \in Callers :
                /\ Call(c)
                /\ \A d \in Callers \ {c} : /\ pc'[d] = pc[d]
                                            /\ expected'[d] = expected[d]
                                            /\ target'[d] = target[d]
<1>1. ASSUME NEW c \in Callers, Call(c)
      PROVE  \A d \in Callers \ {c} : /\ pc'[d] = pc[d]
                                      /\ expected'[d] = expected[d]
                                      /\ target'[d] = target[d]
  BY <1>1 DEF Call, TypeOK, Goto, DisableLoad, DisableCompareAndSwap, CloseRetryCancel,
              LoadMust, StopAttempt, StopReturns, KillAttempt
<1>2. (\E c \in Callers : Call(c)) \/ UNCHANGED <<pc, expected, target, closes>>
  BY DEF Next, Run, Environment, Terminated, vars, NewAttempt, SelectRetryDone,
         SelectAttemptDone, TryRetry, LoadState, CompareAndSwap, WaitCancelled,
         WaitElapsed, Return, AttemptEnds, ParentCancel, Tick, callerVars
<1>3. QED
  BY <1>1, <1>2

LEMMA LocalsStep == IInv /\ [Next]_vars => Locals'
<1> SUFFICES ASSUME IInv, [Next]_vars PROVE Locals'
  OBVIOUS
<1>0. TypeOK /\ Locals
  BY DEF IInv
<1> DEFINE Mine(c) == /\ pc'[c] = "cas" => ~Dead(expected'[c])
                      /\ pc'[c] \in {"act", "wait"} => target'[c] \in 1..Current'
<1>1. ASSUME NEW c \in Callers, pc'[c] = pc[c], expected'[c] = expected[c], target'[c] = target[c]
      PROVE  Mine(c)
  <2>1. pc'[c] = "cas" => ~Dead(expected'[c])
    BY <1>0, <1>1 DEF Locals
  <2>2. pc'[c] \in {"act", "wait"} => target'[c] \in 1..Current'
    BY <1>0, <1>1, WithinStep DEF Locals
  <2>3. QED
    BY <2>1, <2>2
<1>2. ASSUME NEW c \in Callers, Call(c) PROVE Mine(c)
  <2>1. CASE DisableLoad(c)
    BY <1>0, <2>1 DEF DisableLoad, Goto, TypeOK
  <2>2. CASE DisableCompareAndSwap(c) \/ CloseRetryCancel(c)
    BY <1>0, <2>2 DEF DisableCompareAndSwap, CloseRetryCancel, Goto, TypeOK
  <2>3. CASE LoadMust(c)
    <3>1. Current' = Current /\ Current \in Nat
      BY <1>0, <2>3 DEF LoadMust, Current, TypeOK
    <3>2. QED
      BY <1>0, <2>3, <3>1 DEF LoadMust, Goto, TypeOK
  <2>4. CASE StopAttempt(c) \/ StopReturns(c) \/ KillAttempt(c)
    <3>1. pc[c] \in {"act", "wait"} /\ pc'[c] # "cas" /\ target'[c] = target[c]
      BY <1>0, <2>4 DEF StopAttempt, StopReturns, KillAttempt, Goto, TypeOK
    <3>2. target'[c] \in 1..Current'
      BY <1>0, <3>1, WithinStep DEF Locals
    <3>3. QED
      BY <3>1, <3>2
  <2>5. QED
    BY <1>2, <2>1, <2>2, <2>3, <2>4 DEF Call
<1>3. \A c \in Callers : Mine(c)
  BY <1>0, <1>1, <1>2, CallerStep
<1>4. QED
  BY <1>3, SeenStep DEF Locals

\* Only the caller whose swap succeeded closes retryCancel.
LEMMA ClosingStep == IInv /\ [Next]_vars => Closing'
<1> SUFFICES ASSUME IInv, [Next]_vars PROVE Closing'
  OBVIOUS
<1>0. TypeOK /\ Locals /\ Closing
  BY DEF IInv
<1>1. Dead(state) => Dead(state')
  <2>1. ASSUME Dead(state), NEW c \in Callers, DisableCompareAndSwap(c) PROVE Dead(state')
    BY <1>0, <2>1 DEF DisableCompareAndSwap, Dead, Locals
  <2>2. QED
    BY <1>0, <2>1, StateStep
<1>2. CASE UNCHANGED <<pc, expected, target, closes>>
  BY <1>0, <1>1, <1>2 DEF Closing
<1>3. ASSUME NEW c \in Callers, Call(c),
             \A d \in Callers \ {c} : /\ pc'[d] = pc[d]
                                      /\ expected'[d] = expected[d]
                                      /\ target'[d] = target[d]
      PROVE  Closing'
  <2>1. CASE DisableCompareAndSwap(c) /\ state = expected[c]
    <3>1. ~Dead(state) /\ pc[c] = "cas" /\ closes' = closes
      BY <1>0, <2>1 DEF DisableCompareAndSwap, Locals
    <3>2. closes = 0 /\ \A d \in Callers : pc[d] # "close"
      BY <1>0, <3>1 DEF Closing, TypeOK
    <3>3. Dead(state')
      <4>1. expected[c] \in RetryStates /\ state' = [expected[c] EXCEPT !.tick = RetryTickDead]
        BY <1>0, <2>1 DEF DisableCompareAndSwap, TypeOK
      <4>2. QED
        BY <4>1 DEF Dead, RetryStates
    <3>4. QED
      BY <1>3, <3>1, <3>2, <3>3 DEF Closing
  <2>2. CASE CloseRetryCancel(c)
    <3>1. closes = 0 /\ Dead(state) /\ closes' = 1 /\ pc'[c] = "must" /\ pc[c] = "close"
      BY <1>0, <2>2 DEF CloseRetryCancel, Closing, Goto, TypeOK
    <3>2. \A d \in Callers : pc'[d] # "close"
      BY <1>0, <1>3, <3>1 DEF Closing
    <3>3. QED
      BY <1>1, <3>1, <3>2 DEF Closing
  <2>3. CASE pc'[c] # "close" /\ closes' = closes
    BY <1>0, <1>1, <1>3, <2>3 DEF Closing
  <2>4. \/ DisableCompareAndSwap(c) /\ state = expected[c]
        \/ CloseRetryCancel(c)
        \/ pc'[c] # "close" /\ closes' = closes
    BY <1>0, <1>3 DEF Call, TypeOK, Goto, DisableLoad, DisableCompareAndSwap,
                      LoadMust, StopAttempt, StopReturns, KillAttempt
  <2>5. QED
    BY <2>1, <2>2, <2>3, <2>4
<1>4. QED
  BY <1>0, <1>2, <1>3, CallerStep

-----------------------------------------------------------------------------
(* Theorems *)

LEMMA InitInv == Init => IInv
<1> SUFFICES ASSUME Init PROVE IInv
  OBVIOUS
<1>1. TypeOK
  BY InitType
<1>2. Current = 0
  BY DEF Init, Current
<1>3. Locals /\ Closing
  BY DEF Init, Locals, Closing
<1>4. Contexts /\ NoOrphanAttempt
  BY <1>2 DEF Init, Contexts, NoOrphanAttempt, IsDone
<1>5. Counting /\ RetryLimitHolds
  BY CountAssumption DEF Init, Counting, RetryLimitHolds, NoState, Ticks
<1>6. QED
  BY <1>1, <1>3, <1>4, <1>5 DEF IInv

\* The invariant is inductive (work_retry.go:70-198, the whole of Run, Stop and Kill).
THEOREM Invariance == Spec => []IInv
<1>1. IInv /\ [Next]_vars => IInv'
  <2>1. IInv /\ [Next]_vars => TypeOK'
    BY TypeStep DEF IInv
  <2>2. QED
    BY <2>1, LocalsStep, ContextsStep, NoOrphanStep, ClosingStep, CountingStep DEF IInv
<1>2. QED
  BY <1>1, InitInv, PTL DEF Spec

\* The variables keep their types: Run's and the callers' locals included.
THEOREM TypeCorrect == Spec => []TypeOK
<1>1. IInv => TypeOK
  BY DEF IInv
<1>2. QED
  BY <1>1, Invariance, PTL

\* Run never leaves a live attempt behind when it starts another or returns
\* (work_retry.go:173-197).
THEOREM NoAttemptIsOrphaned == Spec => []NoOrphanAttempt
<1>1. IInv => NoOrphanAttempt
  BY DEF IInv
<1>2. QED
  BY <1>1, Invariance, PTL

\* Callers of Stop and Kill never close retryCancel twice (work_retry.go:70-83).
THEOREM CloseIsSafe == Spec => []RetryCancelClosedOnce
<1>1. IInv => RetryCancelClosedOnce
  BY DEF IInv, Closing, RetryCancelClosedOnce
<1>2. QED
  BY <1>1, Invariance, PTL

\* At most RetryLimit.Count retries are granted per period (work_retry.go:106-128).
THEOREM LimitIsEnforced == Spec => []RetryLimitHolds
<1>1. IInv => RetryLimitHolds
  BY DEF IInv
<1>2. QED
  BY <1>1, Invariance, PTL

\* The two facts about the retry state together.
THEOREM RetryStateIsSound == Spec => []RetryStateHolds
BY CloseIsSafe, LimitIsEnforced, PTL DEF RetryStateHolds

\* A dead retry state stays dead (work_retry.go:70-83, 106-128).
THEOREM DeadStaysDead == Spec => DeadForGood
<1>1. IInv /\ [Next]_vars => [Dead(state) => Dead(state')]_vars
  <2> SUFFICES ASSUME IInv, [Next]_vars, Dead(state) PROVE Dead(state')
    OBVIOUS
  <2>1. TypeOK /\ Locals
    BY DEF IInv
  <2>2. UNCHANGED state \/ ~Dead(state)
    BY <2>1, StateStep
  <2>3. QED
    BY <2>2 DEF Dead
<1>2. QED
  BY <1>1, Invariance, PTL DEF Spec, DeadForGood

-----------------------------------------------------------------------------
(* The worker implements the safety part of Supervisor. *)

SomeLive == \E i \in 1..Current : Live(i)

\* A live attempt is the one Run waits for, under a live context.
LEMMA LiveFacts ==
    ASSUME IInv
    PROVE  /\ SomeLive => runner = "select" /\ ~IsDone(rctx)
           /\ runner = "select" /\ SomeLive => ~IsDone(attempts[Current].cause)
<1>1. ASSUME NEW i \in 1..Current, Live(i)
      PROVE  runner = "select" /\ i = Current /\ ~IsDone(rctx)
  BY <1>1 DEF IInv, NoOrphanAttempt, Contexts
<1>2. QED
  BY <1>1 DEF SomeLive, Live

\* Disabling retries touches nothing else, and nothing else disables them.
LEMMA DisabledStep ==
    ASSUME IInv, [Next]_vars
    PROVE  \/ Dead(state') = Dead(state)
           \/ ~Dead(state) /\ Dead(state') /\ UNCHANGED <<attempts, runner, rctx>>
<1>0. TypeOK /\ Locals
  BY DEF IInv
<1>1. CASE CompareAndSwap /\ state = seen.state /\ ~Dead(state)
  BY <1>0, <1>1, SwapFacts DEF Dead
<1>2. ASSUME NEW c \in Callers, DisableCompareAndSwap(c), ~Dead(state), Dead(state')
      PROVE  UNCHANGED <<attempts, runner, rctx>>
  BY <1>2 DEF DisableCompareAndSwap, runnerVars
<1>3. UNCHANGED state => Dead(state') = Dead(state)
  BY DEF Dead
<1>4. QED
  BY <1>0, <1>1, <1>2, <1>3, StateStep

\* What a step does to the parts Phase is made of.
LEMMA PhaseStep ==
    ASSUME IInv, [Next]_vars
    PROVE  \/ UNCHANGED <<runner, rctx>> /\ (SomeLive' => SomeLive)
           \/ IsDone(rctx')
           \/ /\ NewAttempt /\ UNCHANGED rctx
              /\ runner = "new" /\ runner' = "select"
              /\ IsDone(rctx) \/ SomeLive'
           \/ /\ runner \in {"select", "retry", "load", "cas", "wait"} /\ ~SomeLive
              /\ runner' \in {"retry", "load", "cas", "return"}
              /\ UNCHANGED rctx /\ ~SomeLive'
              /\ runner = "wait" => IsDone(rctx) \/ Dead(state)
           \/ /\ runner = "cas" /\ runner' = "wait" /\ UNCHANGED rctx
              /\ ~Dead(state) /\ ~SomeLive /\ ~SomeLive'
           \/ /\ runner = "wait" /\ runner' = "new" /\ UNCHANGED rctx
              /\ ~SomeLive /\ ~SomeLive'
<1>0. TypeOK /\ Locals /\ Contexts /\ Closing /\ Current \in Nat
  BY DEF IInv, TypeOK, Current
<1> DEFINE Quiet == UNCHANGED <<attempts, rctx>> /\ (SomeLive' <=> SomeLive)
<1>1. UNCHANGED <<attempts, rctx>> => Quiet
  BY DEF SomeLive, Live, Current
<1>2. ~NewAttempt => (SomeLive' => SomeLive)
  BY <1>0, LiveStep DEF SomeLive
<1>3. NewAttempt => IsDone(rctx) \/ SomeLive'
  <2> SUFFICES ASSUME NewAttempt, ~IsDone(rctx) PROVE SomeLive'
    OBVIOUS
  <2>1. ~IsDone(parent)
    BY <1>0 DEF Contexts
  <2>2. attempts' = Append(attempts, [cause |-> parent, stopping |-> IsDone(parent)])
    BY DEF NewAttempt
  <2>3. Len(attempts') = Current + 1 /\ attempts'[Current + 1].cause = parent
    BY <1>0, <2>2 DEF TypeOK, Current
  <2>4. QED
    BY <1>0, <2>1, <2>3 DEF SomeLive, Live, Current
<1>4. CASE NewAttempt
  BY <1>3, <1>4, <1>0, RunnerStep
<1>5. CASE SelectRetryDone
  BY <1>5 DEF SelectRetryDone
<1>6. CASE SelectAttemptDone
  <2>1. ~SomeLive
    BY <1>6, LiveFacts DEF SelectAttemptDone
  <2>2. QED
    BY <1>1, <1>6, <2>1 DEF SelectAttemptDone
<1>7. CASE TryRetry \/ LoadState \/ CompareAndSwap \/ WaitCancelled \/ WaitElapsed
  <2>1. /\ UNCHANGED <<attempts, rctx>>
        /\ runner \in {"retry", "load", "cas", "wait"}
    BY <1>7 DEF TryRetry, LoadState, CompareAndSwap, WaitCancelled, WaitElapsed
  <2>2. ~SomeLive /\ ~SomeLive'
    BY <1>1, <2>1, LiveFacts
  <2>3. CASE TryRetry \/ LoadState
    BY <2>1, <2>2, <2>3 DEF TryRetry, LoadState, Exit
  <2>4. CASE CompareAndSwap
    <3>1. \/ runner' \in {"load", "return"}
          \/ runner' = "wait" /\ state = seen.state
      BY <2>4 DEF CompareAndSwap, Exit
    <3>2. runner = "cas" /\ (state = seen.state => ~Dead(state))
      BY <1>0, <2>4 DEF CompareAndSwap, Locals
    <3>3. QED
      BY <2>1, <2>2, <3>1, <3>2
  <2>5. CASE WaitCancelled
    BY <1>0, <2>1, <2>2, <2>5 DEF WaitCancelled, Exit, Closing
  <2>6. CASE WaitElapsed
    BY <2>1, <2>2, <2>6 DEF WaitElapsed
  <2>7. QED
    BY <1>7, <2>3, <2>4, <2>5, <2>6
<1>8. CASE Return
  BY <1>0, <1>8, CancelFacts DEF Return, TypeOK
<1>9. ASSUME NEW e \in ParentCauses, ParentCancel(e) PROVE IsDone(rctx')
  BY <1>0, <1>9, CausesAssumption, CancelFacts DEF ParentCancel, TypeOK
<1>10. CASE UNCHANGED <<runner, rctx>>
  <2>1. ~NewAttempt
    BY <1>10 DEF NewAttempt
  <2>2. QED
    BY <1>2, <1>10, <2>1
<1>11. Run \/ (\E e \in ParentCauses : ParentCancel(e)) \/ UNCHANGED <<runner, rctx>>
  BY DEF Next, Call, Environment, Terminated, vars, AttemptEnds, Tick, DisableLoad,
         DisableCompareAndSwap, CloseRetryCancel, LoadMust, StopAttempt, StopReturns,
         KillAttempt, runnerVars
<1>12. QED
  BY <1>4, <1>5, <1>6, <1>7, <1>8, <1>9, <1>10, <1>11 DEF Run

\* A worker whose context ended stays ended (context.CancelCauseFunc).
LEMMA EndedStep == ASSUME IInv, [Next]_vars PROVE IsDone(rctx) => IsDone(rctx')
BY RunnerStep DEF IInv

\* One attempt at a time, each with a permission, and at most one after retries
\* were disabled: what job.go is written against (work_retry.go:45-56, 98-198).
THEOREM SupervisorSafety == Spec => S!Init /\ [][S!Next]_(S!vars)
<1>1. Init => S!Init
  <2> SUFFICES ASSUME Init PROVE S!Init
    OBVIOUS
  <2>1. Current = 0 /\ runner = "new" /\ ~IsDone(rctx)
    BY DEF Init, Current, IsDone
  <2>2. Phase = "ready"
    BY <2>1 DEF Phase
  <2>3. Dead(state) = FALSE
    BY TicksAssumption DEF Init, Dead, NoState
  <2>4. QED
    BY <2>2, <2>3 DEF S!Init
<1>2. IInv /\ [Next]_vars => [S!Next]_(S!vars)
  <2> SUFFICES ASSUME IInv, [Next]_vars PROVE [S!Next]_(S!vars)
    OBVIOUS
  <2>0. /\ Phase = IF IsDone(rctx) THEN "ended" ELSE IF SomeLive THEN "attempt"
                   ELSE IF runner \in {"new", "wait"} THEN "ready" ELSE "idle"
        /\ Phase' = IF IsDone(rctx') THEN "ended" ELSE IF SomeLive' THEN "attempt"
                    ELSE IF runner' \in {"new", "wait"} THEN "ready" ELSE "idle"
    BY DEF Phase, SomeLive
  <2> USE DEF S!Next, S!vars, S!Launch, S!AttemptEnd, S!Grant, S!Withdraw, S!Finish,
              S!Cancel, S!Disable, S!Step
  <2>1. CASE UNCHANGED <<attempts, runner, rctx>> /\ ~Dead(state) /\ Dead(state')
    <3>1. Phase' = Phase
      BY <2>1 DEF Phase, Live, Current
    <3>2. Dead(state)' = TRUE
      BY <2>1 DEF Dead
    <3>3. QED
      BY <2>1, <3>1, <3>2
  <2>2. CASE Dead(state') = Dead(state)
    <3>1. UNCHANGED (Dead(state))
      BY <2>2 DEF Dead
    <3>2. CASE UNCHANGED <<runner, rctx>> /\ (SomeLive' => SomeLive)
      BY <2>0, <3>1, <3>2, LiveFacts
    <3>3. CASE IsDone(rctx')
      BY <2>0, <3>1, <3>3
    <3>4. CASE IsDone(rctx) /\ ~IsDone(rctx')
      BY <3>4, EndedStep
    <3>5. CASE /\ ~IsDone(rctx) /\ ~IsDone(rctx')
               /\ ~(UNCHANGED <<runner, rctx>> /\ (SomeLive' => SomeLive))
      <4>1. CASE runner = "new" /\ runner' = "select" /\ SomeLive'
        <5>1. ~SomeLive
          BY <4>1, LiveFacts
        <5>2. QED
          BY <2>0, <3>1, <3>5, <4>1, <5>1
      <4>2. CASE /\ runner \in {"select", "retry", "load", "cas", "wait"} /\ ~SomeLive
                 /\ runner' \in {"retry", "load", "cas", "return"} /\ ~SomeLive'
                 /\ runner = "wait" => Dead(state)
        BY <2>0, <3>1, <3>5, <4>2
      <4>3. CASE runner = "cas" /\ runner' = "wait" /\ ~Dead(state) /\ ~SomeLive /\ ~SomeLive'
        BY <2>0, <3>1, <3>5, <4>3
      <4>4. CASE runner = "wait" /\ runner' = "new" /\ ~SomeLive /\ ~SomeLive'
        BY <2>0, <3>1, <3>5, <4>4
      <4>5. QED
        BY <3>5, <4>1, <4>2, <4>3, <4>4, PhaseStep
    <3>6. QED
      BY <3>2, <3>3, <3>4, <3>5
  <2>3. QED
    BY <2>1, <2>2, DisabledStep
<1>3. QED
  BY <1>1, <1>2, Invariance, PTL DEF Spec

\* Once retries are disabled with no attempt live and none permitted, there is
\* never another attempt, whatever Run had loaded before (work_retry.go:84-128).
THEOREM DisabledIsTheEnd == Spec => S!DisabledIsFinal
<1>1. [S!Next]_(S!vars) =>
          [Dead(state) /\ Phase \in {"idle", "ended"} => Phase' \in {"idle", "ended"}]_(S!vars)
  BY DEF S!Next, S!vars, S!Launch, S!AttemptEnd, S!Grant, S!Withdraw, S!Finish,
         S!Cancel, S!Disable, S!Step
<1>2. QED
  BY <1>1, SupervisorSafety, PTL DEF S!DisabledIsFinal

-----------------------------------------------------------------------------
(* The attempts of the worker are attempts. *)

ParentKnown == parent \in ParentCauses \cup {Nil}

\* What module Attempt lets a step make of the record of an attempt.
Allowed(a, b) ==
    /\ b.stopping \in {a.stopping, TRUE}
    /\ b.cause # a.cause =>
         /\ ~IsDone(a.cause)
         /\ b.cause \in Errors
         /\ b.cause = "timeoutStop" => a.stopping \/ "timeoutStop" \in ParentCauses

NewRecord == [cause |-> Nil, stopping |-> FALSE]

LEMMA ParentStep == ParentKnown /\ [Next]_vars => ParentKnown'
<1> SUFFICES ASSUME ParentKnown, [Next]_vars PROVE ParentKnown'
  OBVIOUS
<1>1. ASSUME NEW e \in ParentCauses, ParentCancel(e) PROVE ParentKnown'
  BY <1>1 DEF ParentCancel, ParentKnown
<1>2. CASE UNCHANGED parent
  BY <1>2 DEF ParentKnown
<1>3. QED
  BY <1>1, <1>2
     DEF Next, Run, Call, Environment, Terminated, vars, AttemptEnds, Tick, NewAttempt,
         SelectRetryDone, SelectAttemptDone, TryRetry, LoadState, CompareAndSwap,
         WaitCancelled, WaitElapsed, Return, DisableLoad, DisableCompareAndSwap,
         CloseRetryCancel, LoadMust, StopAttempt, StopReturns, KillAttempt

\* An attempt that is ended keeps the cause it has, or takes the new one.
LEMMA EndedAllowed ==
    ASSUME NEW a \in AttemptRecords, NEW e \in Errors,
           e = "timeoutStop" => a.stopping \/ "timeoutStop" \in ParentCauses
    PROVE  Allowed(a, Ended(a, e))
<1>1. a.cause \in Errors \cup {Nil} /\ e # Nil
  BY NilIsNoError DEF AttemptRecords
<1>2. Cancel(a.cause, e) = IF IsDone(a.cause) THEN a.cause ELSE e
  BY <1>1 DEF Cancel, OrOk, IsDone
<1>3. QED
  BY <1>1, <1>2 DEF Ended, Allowed

\* What any step does to an attempt there was before, and to one it adds.
LEMMA RecordStep ==
    ASSUME TypeOK, Locals, ParentKnown, [Next]_vars, NEW i \in 1..Current'
    PROVE  /\ i <= Current => Allowed(attempts[i], attempts'[i])
           /\ i > Current => Allowed(NewRecord, attempts'[i])
<1> DEFINE Goal == /\ i <= Current => Allowed(attempts[i], attempts'[i])
                   /\ i > Current => Allowed(NewRecord, attempts'[i])
<1>0. /\ Current \in Nat
      /\ \A j \in 1..Current : attempts[j] \in AttemptRecords /\ Allowed(attempts[j], attempts[j])
  <2>1. Current \in Nat /\ \A j \in 1..Current : attempts[j] \in AttemptRecords
    BY DEF TypeOK, Current
  <2>2. \A a \in AttemptRecords : Allowed(a, a)
    BY DEF Allowed
  <2>3. QED
    BY <2>1, <2>2
<1>1. ASSUME NEW j \in 1..Current, NEW a \in AttemptRecords, Allowed(attempts[j], a),
             attempts' = [attempts EXCEPT ![j] = a]
      PROVE  Goal
  <2>1. Current' = Current
    BY <1>1, ReplaceFacts DEF TypeOK, Current
  <2>2. i \in 1..Current
    BY <1>0, <2>1
  <2>3. attempts'[i] = IF i = j THEN a ELSE attempts[i]
    BY <1>1, <2>2 DEF TypeOK, Current
  <2>4. QED
    BY <1>0, <1>1, <2>2, <2>3
<1>2. CASE UNCHANGED attempts
  BY <1>0, <1>2 DEF Current
<1>3. CASE NewAttempt
  <2> DEFINE new == [cause |-> parent, stopping |-> IsDone(parent)]
  <2>1. attempts' = Append(attempts, new)
    BY <1>3 DEF NewAttempt
  <2>2. Current' = Current + 1 /\ \A j \in 1..Current : attempts'[j] = attempts[j]
    BY <1>0, <2>1 DEF TypeOK, Current
  <2>3. attempts'[Current + 1] = new
    BY <1>0, <2>1 DEF TypeOK, Current
  <2>4. Allowed(NewRecord, new)
    <3>1. IsDone(parent) \in BOOLEAN /\ ~IsDone(Nil)
      BY DEF IsDone
    <3>2. parent # Nil => parent \in ParentCauses /\ parent \in Errors
      BY CausesAssumption DEF ParentKnown
    <3>3. QED
      BY <3>1, <3>2 DEF Allowed, NewRecord
  <2> HIDE DEF new
  <2>5. QED
    BY <1>0, <2>2, <2>3, <2>4
<1>4. ASSUME NEW e \in ParentCauses, ParentCancel(e) PROVE Goal
  <2>1. e \in Errors /\ attempts \in Seq(AttemptRecords)
    BY CausesAssumption DEF TypeOK
  <2>2. attempts' = [j \in 1..Current |-> Ended(attempts[j], e)]
    BY <1>4 DEF ParentCancel
  <2>3. Current' = Current
    BY <2>1, <2>2, EndAllFacts DEF Current
  <2>4. i \in 1..Current /\ attempts'[i] = Ended(attempts[i], e)
    BY <1>0, <2>2, <2>3
  <2>5. QED
    BY <1>0, <2>1, <2>4, EndedAllowed
<1>5. ASSUME NEW j \in 1..Current, NEW e \in AttemptCauses, AttemptEnds(j, e) PROVE Goal
  <2>1. e \in Errors
    BY CausesAssumption
  <2>2. Allowed(attempts[j], Ended(attempts[j], e)) /\ Ended(attempts[j], e) \in AttemptRecords
    BY <1>0, <1>5, <2>1, EndedAllowed, EndedFacts DEF AttemptEnds
  <2>3. attempts' = [attempts EXCEPT ![j] = Ended(attempts[j], e)]
    BY <1>5 DEF AttemptEnds
  <2>4. QED
    BY <1>1, <2>2, <2>3
<1>6. ASSUME NEW c \in Callers, StopAttempt(c) PROVE Goal
  <2>1. target[c] \in 1..Current
    BY <1>6 DEF StopAttempt, Locals
  <2> DEFINE a == Signalled(attempts[target[c]])
  <2>2. a \in AttemptRecords /\ Allowed(attempts[target[c]], a)
    BY <1>0, <2>1 DEF Signalled, AttemptRecords, Allowed
  <2>3. UNCHANGED attempts \/ attempts' = [attempts EXCEPT ![target[c]] = a]
    BY <1>6 DEF StopAttempt
  <2> HIDE DEF a
  <2>4. QED
    BY <1>1, <1>2, <2>1, <2>2, <2>3
<1>7. ASSUME NEW c \in Callers, KillAttempt(c) PROVE Goal
  <2>1. target[c] \in 1..Current
    BY <1>7 DEF KillAttempt, Locals
  <2> DEFINE a == Ended(attempts[target[c]], "cancelled")
  <2>2. a \in AttemptRecords /\ Allowed(attempts[target[c]], a)
    BY <1>0, <2>1, NilIsNoError, EndedFacts, EndedAllowed
  <2>3. attempts' = [attempts EXCEPT ![target[c]] = a]
    BY <1>7 DEF KillAttempt
  <2> HIDE DEF a
  <2>4. QED
    BY <1>1, <2>1, <2>2, <2>3
<1>8. QED
  BY <1>2, <1>3, <1>4, <1>5, <1>6, <1>7
     DEF Next, Run, Call, Environment, Terminated, vars, Tick, SelectRetryDone,
         SelectAttemptDone, TryRetry, LoadState, CompareAndSwap, WaitCancelled, WaitElapsed,
         Return, DisableLoad, DisableCompareAndSwap, CloseRetryCancel, LoadMust, StopReturns

\* Each attempt keeps the cause that was set first, is told to stop when it
\* ends, and ends for a stop timeout only after it was told to stop, however
\* kills, stops and the parent's cancellation race (work_must.go:88-200).
THEOREM AttemptsAlwaysConform == Spec => AttemptsConform
<1>1. IInv /\ ParentKnown /\ [Next]_vars => [\A i \in 1..Current' : [At(i)!Next]_(At(i)!vars)]_vars
  <2> SUFFICES ASSUME IInv, ParentKnown, [Next]_vars, NEW i \in 1..Current'
               PROVE  [At(i)!Next]_(At(i)!vars)
    OBVIOUS
  <2> DEFINE old == IF i <= Current THEN attempts[i] ELSE NewRecord
             new == attempts'[i]
  <2>1. TypeOK /\ Locals /\ TypeOK'
    BY TypeStep DEF IInv
  <2>2. Current \in Nat /\ Current' \in Nat /\ i \in Nat /\ i >= 1
    BY <2>1 DEF TypeOK, Current
  <2>3. old \in AttemptRecords
    <3>1. NewRecord \in AttemptRecords
      BY DEF NewRecord, AttemptRecords
    <3>2. i <= Current => attempts[i] \in AttemptRecords
      BY <2>1, <2>2 DEF TypeOK, Current
    <3>3. QED
      BY <3>1, <3>2
  <2>4. Allowed(old, new)
    BY <2>1, <2>2, RecordStep
  <2>5. /\ (IF i <= Current THEN attempts[i].cause ELSE Nil) = old.cause
        /\ (i <= Current /\ attempts[i].stopping) = old.stopping
    BY <2>2, <2>3 DEF NewRecord, AttemptRecords
  <2>6. /\ (IF i <= Current' THEN attempts'[i].cause ELSE Nil) = new.cause
        /\ (i <= Current' /\ attempts'[i].stopping) = new.stopping
    <3>1. i <= Current' /\ new \in AttemptRecords
      BY <2>1, <2>2 DEF TypeOK, Current
    <3>2. new.stopping \in BOOLEAN
      BY <3>1 DEF AttemptRecords
    <3>3. (i <= Current') = TRUE
      BY <3>1
    <3>4. QED
      BY <3>2, <3>3, Zenon
  <2> HIDE DEF old, new
  <2>7. new.stopping \in {old.stopping, TRUE} /\ old.stopping \in BOOLEAN
    BY <2>3, <2>4 DEF Allowed, AttemptRecords
  <2>8. CASE new.cause = old.cause
    BY <2>5, <2>6, <2>7, <2>8 DEF At!Next, At!Signal, At!vars
  <2>9. CASE new.cause # old.cause
    BY <2>4, <2>5, <2>6, <2>7, <2>9
       DEF At!Next, At!End, At!IsDone, At!Errors, At!Statuses, At!AliveStatuses, At!ErrorStatuses,
           At!ErrOk, At!Nil, Allowed, IsDone, Errors, Statuses, AliveStatuses, ErrorStatuses, ErrOk, Nil
  <2>10. QED
    BY <2>8, <2>9
<1>2. Init => ParentKnown
  BY DEF Init, ParentKnown
<1>3. Spec => []ParentKnown
  BY <1>2, ParentStep, PTL DEF Spec
<1>4. QED
  BY <1>1, <1>3, Invariance, PTL DEF Spec, AttemptsConform

-----------------------------------------------------------------------------
(* What must happen.  That the guards enable the steps is the hypothesis
   WorkerGoesOn, which TLC checks as an invariant. *)

\* The retry state Run is about to swap is the one it loaded, or retries are disabled.
Fresh == runner = "cas" => state = seen.state \/ Dead(state)

\* Where Run goes, and what it finds decided.
LEMMA RunMoves ==
    ASSUME IInv, Run
    PROVE  /\ runner = "new" => runner' = "select"
           /\ runner = "select" => runner' \in {"retry", "return"}
           /\ runner = "retry" => runner' \in {"load", "return"}
           /\ runner = "retry" /\ Dead(state) => runner' = "return"
           /\ runner = "load" => \/ runner' = "return"
                                \/ /\ runner' = "cas" /\ ~Dead(state)
                                   /\ seen'.state = state /\ UNCHANGED state
           /\ runner = "cas" => \/ runner' \in {"wait", "return"} /\ ~Dead(state)
                                \/ runner' = "load" /\ state # seen.state /\ UNCHANGED state
           /\ runner = "wait" => runner' \in {"new", "return"}
           /\ runner = "return" => runner' = "returned" /\ IsDone(rctx')
           /\ runner # "returned"
<1>1. Return => IsDone(rctx')
  <2>1. IsDone(Cancel(rctx, err))
    BY CancelFacts DEF IInv, TypeOK
  <2>2. QED
    BY <2>1 DEF Return
<1>2. CASE NewAttempt \/ SelectRetryDone \/ SelectAttemptDone
  BY <1>2 DEF NewAttempt, SelectRetryDone, SelectAttemptDone
<1>3. CASE TryRetry \/ LoadState
  BY <1>3 DEF TryRetry, LoadState, Retriable, Exit
<1>4. CASE CompareAndSwap
  <2>1. runner = "cas" /\ ~Dead(seen.state)
    BY <1>4 DEF IInv, Locals, CompareAndSwap
  <2>2. \/ runner' \in {"wait", "return"} /\ state = seen.state
        \/ runner' = "load" /\ state # seen.state /\ UNCHANGED state
    BY <1>4 DEF CompareAndSwap, Exit
  <2>3. QED
    BY <2>1, <2>2
<1>5. CASE WaitCancelled \/ WaitElapsed \/ Return
  BY <1>1, <1>5 DEF WaitCancelled, WaitElapsed, Return, Exit
<1>6. QED
  BY <1>2, <1>3, <1>4, <1>5 DEF Run

\* Only Run moves Run.
LEMMA OthersWait ==
    ASSUME [Next]_vars PROVE Run \/ UNCHANGED <<runner, seen>>
BY DEF Next, Call, Environment, Terminated, vars, AttemptEnds, ParentCancel, Tick, DisableLoad,
       DisableCompareAndSwap, CloseRetryCancel, LoadMust, StopAttempt, StopReturns, KillAttempt,
       runnerVars

\* A state that is not the one Run loaded is dead: nobody else but Run swaps in
\* a live one, so that Run goes round tryRetry's loop once at most.
LEMMA FreshStep == IInv /\ Fresh /\ [Next]_vars => Fresh'
<1> SUFFICES ASSUME IInv, Fresh, [Next]_vars, runner' = "cas"
             PROVE  state' = seen'.state \/ Dead(state')
  BY DEF Fresh, Dead
<1>1. CASE Run
  <2>1. runner \in {"new", "select", "retry", "load", "cas", "wait", "return"}
    BY <1>1, RunMoves DEF IInv, TypeOK, RunnerPCs
  <2>2. runner = "load"
    BY <1>1, <2>1, RunMoves
  <2>3. QED
    BY <1>1, <2>2, RunMoves
<1>2. CASE UNCHANGED <<runner, seen>>
  <2>1. \/ UNCHANGED state
        \/ Dead(state')
        \/ CompareAndSwap
    BY StateStep DEF IInv
  <2>2. CompareAndSwap => runner' # "cas"
    BY DEF CompareAndSwap, Exit
  <2>3. QED
    BY <1>2, <2>1, <2>2 DEF Fresh, Dead
<1>3. QED
  BY <1>1, <1>2, OthersWait

\* Run has returned only after it ended the worker's context (work_retry.go:146).
LEMMA ReturnedStep ==
    IInv /\ (runner = "returned" => IsDone(rctx)) /\ [Next]_vars
        => (runner' = "returned" => IsDone(rctx'))
<1> SUFFICES ASSUME IInv, runner = "returned" => IsDone(rctx), [Next]_vars, runner' = "returned"
             PROVE  IsDone(rctx')
  OBVIOUS
<1>1. CASE runner = "returned"
  BY <1>1, EndedStep
<1>2. CASE runner # "returned"
  BY <1>2, OthersWait, RunMoves DEF IInv, TypeOK, RunnerPCs
<1>3. QED
  BY <1>1, <1>2

WInv == IInv /\ Fresh /\ (runner = "returned" => IsDone(rctx))

\* Run's own view of the state is fresh, and its end is that of the worker.
THEOREM WorkerInv == Spec => []WInv
<1>1. Init => Fresh /\ (runner = "returned" => IsDone(rctx))
  BY DEF Init, Fresh
<1> DEFINE R == runner = "returned" => IsDone(rctx)
<1>2. IInv /\ R /\ [Next]_vars => R'
  BY ReturnedStep
<1> HIDE DEF R
<1>3. Init => Fresh /\ R
  BY <1>1 DEF R
<1>4. IInv /\ Fresh /\ R => WInv
  BY DEF R, WInv
<1>5. QED
  BY <1>2, <1>3, <1>4, FreshStep, Invariance, PTL DEF Spec

\* With a permission the worker launches an attempt or ends, without one it
\* obtains it or ends (work_retry.go:112-146).
LEMMA DecisionsAreMade ==
    Spec /\ []WorkerGoesOn =>
        /\ [](Phase = "ready" => <>(Phase # "ready"))
        /\ [](Phase = "idle" => <>(Phase # "idle"))
<1> DEFINE N == runner = "new"
           W == runner = "wait"
           Se == runner = "select"
           Re == runner = "retry"
           L == runner = "load"
           C == runner = "cas"
           Rt == runner = "return"
           Rd == runner = "returned"
           D == Dead(state)
           Lv == SomeLive
           Ov == IsDone(rctx)
           LD == L /\ D
<1>1. WInv /\ [Next]_vars =>
                            /\ D => D'
                            /\ Ov => Ov'
                            /\ Lv' => Lv \/ N
                            /\ N => N' \/ Se'
                            /\ W => W' \/ N' \/ Rt'
                            /\ Se => Se' \/ Re' \/ Rt'
                            /\ Re => Re' \/ L' \/ Rt'
                            /\ L => L' \/ C' \/ Rt'
                            /\ LD => LD' \/ Rt'
                            /\ C => C' \/ W' \/ Rt' \/ LD'
                            /\ Rt => Rt' \/ Ov'
  <2> SUFFICES ASSUME WInv, [Next]_vars
               PROVE  /\ D => D'
                      /\ Ov => Ov'
                      /\ Lv' => Lv \/ N
                      /\ N => N' \/ Se'
                      /\ W => W' \/ N' \/ Rt'
                      /\ Se => Se' \/ Re' \/ Rt'
                      /\ Re => Re' \/ L' \/ Rt'
                      /\ L => L' \/ C' \/ Rt'
                      /\ LD => LD' \/ Rt'
                      /\ C => C' \/ W' \/ Rt' \/ LD'
                      /\ Rt => Rt' \/ Ov'
    OBVIOUS
  <2>1. D => D'
    BY DisabledStep DEF WInv, Dead
  <2>2. Ov => Ov'
    BY EndedStep DEF WInv
  <2>3. Lv' => Lv \/ N
    BY PhaseStep, RunnerStep, LiveFacts, LiveStep DEF WInv, IInv, SomeLive, NewAttempt
  <2>4. CASE UNCHANGED <<runner, seen>>
    BY <2>1, <2>2, <2>3, <2>4
  <2>5. CASE Run
    <3>1. runner = "cas" /\ runner' = "load" => Dead(state')
      BY <2>5, RunMoves DEF WInv, Fresh, Dead
    <3>2. QED
      BY <2>1, <2>2, <2>3, <2>5, <3>1, RunMoves DEF WInv
  <2>6. QED
    BY <2>4, <2>5, OthersWait
<1>2. WInv /\ [Next]_vars /\ <<Run>>_vars =>
                            /\ N => Se'
                            /\ W => N' \/ Rt'
                            /\ Se => Re' \/ Rt'
                            /\ Re => L' \/ Rt'
                            /\ L => C' \/ Rt'
                            /\ LD => Rt'
                            /\ C => W' \/ Rt' \/ LD'
                            /\ Rt => Ov'
  <2> SUFFICES ASSUME WInv, [Next]_vars, Run
               PROVE  /\ N => Se'
                      /\ W => N' \/ Rt'
                      /\ Se => Re' \/ Rt'
                      /\ Re => L' \/ Rt'
                      /\ L => C' \/ Rt'
                      /\ LD => Rt'
                      /\ C => W' \/ Rt' \/ LD'
                      /\ Rt => Ov'
    OBVIOUS
  <2>1. runner = "cas" /\ runner' = "load" => Dead(state')
    BY RunMoves DEF WInv, Fresh, Dead
  <2>2. QED
    BY <2>1, RunMoves DEF WInv
<1>3. WInv /\ WorkerGoesOn /\ (N \/ W \/ (Se /\ ~Lv) \/ Re \/ L \/ C \/ Rt) => ENABLED <<Run>>_vars
  <2>1. WInv /\ Se /\ ~Lv => ~Live(Current)
    BY DEF SomeLive, Live
  <2>2. QED
    BY <2>1 DEF WorkerGoesOn
<1>4. WInv => (Rd => Ov)
  BY DEF WInv
<1>5. WInv => N \/ W \/ Se \/ Re \/ L \/ C \/ Rt \/ Rd
  BY DEF WInv, IInv, TypeOK, RunnerPCs
<1>6. Phase = "ready" <=> ~Ov /\ ~Lv /\ (N \/ W)
  BY DEF Phase, SomeLive
<1>7. Phase = "idle" <=> ~Ov /\ ~Lv /\ ~N /\ ~W
  BY DEF Phase, SomeLive
<1>8. /\ N => ~W /\ ~Se /\ ~Rt
      /\ W => ~N /\ ~Se /\ ~Rt
      /\ Se => ~N /\ ~W
      /\ Rt => ~N /\ ~W
      /\ LD => L
  OBVIOUS
<1> DEFINE Ready == Phase = "ready"
           Idle == Phase = "idle"
<1>9. (Ready <=> ~Ov /\ ~Lv /\ (N \/ W)) /\ (Idle <=> ~Ov /\ ~Lv /\ ~N /\ ~W)
  BY <1>6, <1>7
<1>17. /\ Phase = "ready" <=> Ready
       /\ Phase # "ready" <=> ~Ready
       /\ Phase = "idle" <=> Idle
       /\ Phase # "idle" <=> ~Idle
  OBVIOUS
<1> HIDE DEF N, W, Se, Re, L, C, Rt, Rd, D, Lv, Ov, LD, Ready, Idle
<1>10. Spec /\ []WorkerGoesOn => [](N => <>Se) /\ [](W => <>(N \/ Rt))
  BY <1>1, <1>2, <1>3, WorkerInv, PTL DEF Spec, Fairness
<1>11. Spec /\ []WorkerGoesOn => [](Rt => <>Ov) /\ [](LD => <>Rt)
  BY <1>1, <1>2, <1>3, <1>8, WorkerInv, PTL DEF Spec, Fairness
<1>12. Spec /\ []WorkerGoesOn => [](Re => <>(L \/ Rt)) /\ [](L => <>(C \/ Rt))
  BY <1>1, <1>2, <1>3, WorkerInv, PTL DEF Spec, Fairness
<1>13. Spec /\ []WorkerGoesOn => [](C => <>(W \/ Rt \/ LD))
  BY <1>1, <1>2, <1>3, WorkerInv, PTL DEF Spec, Fairness
<1>14. Spec /\ []WorkerGoesOn => [](Se /\ ~Lv => <>(Re \/ Rt))
  BY <1>1, <1>2, <1>3, <1>8, WorkerInv, PTL DEF Spec, Fairness
<1>15. Spec /\ []WorkerGoesOn => [](Ready => <>~Ready)
  BY <1>8, <1>9, <1>10, PTL
<1>16. Spec /\ []WorkerGoesOn => [](Idle => <>~Idle)
  BY <1>4, <1>5, <1>8, <1>9, <1>11, <1>12, <1>13, <1>14, WorkerInv, PTL
<1>18. QED
  BY <1>15, <1>16, <1>17, PTL

\* retryWorker implements Supervisor, promises and all: it does not only decide
\* rightly, it always decides.
THEOREM WorkerIsSupervisor == Spec /\ []WorkerGoesOn => ImplementsSupervisor
<1> DEFINE E1 == ENABLED <<S!Launch \/ S!Withdraw>>_(S!vars)
           E2 == ENABLED <<S!Grant \/ S!Finish>>_(S!vars)
<1>1. WorkerGoesOn => (E1 => Phase = "ready") /\ (E2 => Phase = "idle")
  BY DEF WorkerGoesOn, S!DecisionGuards
<1>2. (Phase = "ready" <=> ~(Phase # "ready")) /\ (Phase = "idle" <=> ~(Phase # "idle"))
  OBVIOUS
<1>3. Spec /\ []WorkerGoesOn => WF_(S!vars)(S!Launch \/ S!Withdraw)
  BY <1>1, <1>2, DecisionsAreMade, PTL
<1>4. Spec /\ []WorkerGoesOn => WF_(S!vars)(S!Grant \/ S!Finish)
  BY <1>1, <1>2, DecisionsAreMade, PTL
<1>5. QED
  BY <1>3, <1>4, SupervisorSafety, PTL DEF ImplementsSupervisor, S!Spec

\* Whoever waits for an attempt signalled it, after retries were disabled.
Signalling ==
    /\ \A c \in Callers : pc[c] \in {"must", "act", "wait"} => Dead(state)
    /\ \A c \in Callers : pc[c] = "wait" => attempts[target[c]].stopping

\* Nobody takes back the signal to stop.
LEMMA StoppingStays ==
    ASSUME TypeOK, Locals, ParentKnown, [Next]_vars, NEW i \in 1..Current
    PROVE  i \in 1..Current' /\ (attempts[i].stopping => attempts'[i].stopping)
<1>1. Current \in Nat
  BY DEF TypeOK, Current
<1>2. Current' = Current \/ Current' = Current + 1
  BY LiveStep
<1>3. i \in 1..Current'
  BY <1>1, <1>2
<1>4. Allowed(attempts[i], attempts'[i])
  BY <1>1, <1>3, RecordStep
<1>5. QED
  BY <1>3, <1>4, Zenon DEF Allowed

\* Retries are disabled before an attempt is told to stop (work_retry.go:60-88).
LEMMA SignallingStep ==
    IInv /\ ParentKnown /\ Signalling /\ [Next]_vars => Signalling'
<1> SUFFICES ASSUME IInv, ParentKnown, Signalling, [Next]_vars,
                    NEW c \in Callers, pc'[c] \in {"must", "act", "wait"}
             PROVE  Dead(state') /\ (pc'[c] = "wait" => attempts'[target'[c]].stopping)
  BY DEF Signalling, Dead
<1>0. TypeOK /\ Locals
  BY DEF IInv
<1>1. Dead(state) => Dead(state')
  BY DisabledStep
<1>2. CASE pc'[c] = pc[c] /\ target'[c] = target[c]
  <2>1. pc[c] = "wait" => target[c] \in 1..Current
    BY <1>0 DEF Locals
  <2>2. QED
    BY <1>0, <1>1, <1>2, <2>1, StoppingStays DEF Signalling
<1>3. CASE Call(c)
  <2>1. pc \in [Callers -> CallerPCs]
    BY <1>0 DEF TypeOK
  <2>2. CASE DisableLoad(c) \/ DisableCompareAndSwap(c)
    BY <1>1, <2>1, <2>2 DEF DisableLoad, DisableCompareAndSwap, Goto
  <2>3. CASE CloseRetryCancel(c) \/ LoadMust(c)
    BY <1>0, <1>1, <2>1, <2>3 DEF CloseRetryCancel, LoadMust, Goto, Signalling, IInv, Closing
  <2>4. CASE StopAttempt(c)
    <3>1. Dead(state')
      BY <1>1, <2>4 DEF StopAttempt, Signalling
    <3>2. target[c] \in 1..Current /\ target' = target
      BY <1>0, <2>4 DEF StopAttempt, Locals
    <3>3. pc'[c] = "wait" =>
              attempts' = [attempts EXCEPT ![target[c]] = Signalled(attempts[target[c]])]
      BY <2>1, <2>4 DEF StopAttempt, Goto
    <3>4. attempts[target[c]] \in AttemptRecords
      BY <1>0, <3>2 DEF TypeOK, Current
    <3>5. Signalled(attempts[target[c]]).stopping
      BY <3>4 DEF Signalled, AttemptRecords
    <3>6. QED
      BY <1>0, <3>1, <3>2, <3>3, <3>5 DEF TypeOK, Current
  <2>5. CASE StopReturns(c) \/ KillAttempt(c)
    BY <2>1, <2>5 DEF StopReturns, KillAttempt, Goto
  <2>6. QED
    BY <1>3, <2>2, <2>3, <2>4, <2>5 DEF Call
<1>4. ASSUME NEW d \in Callers, d # c, Call(d)
      PROVE  pc'[c] = pc[c] /\ target'[c] = target[c]
  BY <1>0, <1>4 DEF TypeOK, Call, DisableLoad, DisableCompareAndSwap, CloseRetryCancel, LoadMust,
     StopAttempt, StopReturns, KillAttempt, Goto
<1>5. Run \/ Environment \/ Terminated \/ UNCHANGED vars => UNCHANGED <<pc, target>>
  BY DEF Run, Environment, Terminated, vars, NewAttempt, SelectRetryDone, SelectAttemptDone,
     TryRetry, LoadState, CompareAndSwap, WaitCancelled, WaitElapsed, Return, AttemptEnds,
     ParentCancel, Tick, callerVars
<1>6. QED
  BY <1>2, <1>3, <1>4, <1>5 DEF Next

\* Whoever waits for an attempt found retries disabled and told it to stop.
THEOREM SignalInv == Spec => [](WInv /\ ParentKnown /\ Signalling)
<1>1. Init => ParentKnown /\ Signalling
  BY DEF Init, ParentKnown, Signalling
<1>2. WInv => IInv
  BY DEF WInv
<1>3. QED
  BY <1>1, <1>2, ParentStep, SignallingStep, WorkerInv, PTL DEF Spec

\* The end of an attempt that was told to stop.
EndStopped == \E i \in 1..Current, e \in AttemptCauses : attempts[i].stopping /\ AttemptEnds(i, e)

\* An attempt that ends was the only one.
LEMMA EndStoppedStep == IInv /\ [Next]_vars /\ EndStopped => ~SomeLive'
<1> SUFFICES ASSUME IInv, [Next]_vars, NEW i \in 1..Current, NEW e \in AttemptCauses,
                    AttemptEnds(i, e)
             PROVE  ~SomeLive'
  BY DEF EndStopped
<1>1. attempts[i] \in AttemptRecords /\ e \in Errors /\ TypeOK /\ Locals
  BY CausesAssumption DEF IInv, TypeOK, Current
<1>2. Live(i) /\ runner = "select" /\ i = Current
  BY DEF AttemptEnds, IInv, NoOrphanAttempt
<1>3. attempts' = [attempts EXCEPT ![i] = Ended(attempts[i], e)]
  BY DEF AttemptEnds
<1>4. ~Live(i)' 
  BY <1>1, <1>3, EndedFacts DEF Live, TypeOK, Current
<1>5. ~NewAttempt
  BY <1>2 DEF NewAttempt
<1>6. Current' = Current /\ \A j \in 1..Current : Live(j)' => Live(j)
  BY <1>1, <1>5, LiveStep
<1>7. QED
  BY <1>2, <1>4, <1>6 DEF SomeLive, Live, IInv, NoOrphanAttempt

\* A stop that reached the attempt Run waits for ends the worker: the attempt
\* ends, retries stay disabled, and the next decision of tryRetry is the end.
THEOREM StopEndsTheWorker == Spec /\ []WorkerGoesOn => ReachedStopEndsWorker
<1> DEFINE Se == runner = "select"
           Re == runner = "retry"
           Rt == runner = "return"
           D == Dead(state)
           Lv == SomeLive
           St == Se /\ attempts[Current].stopping
           Ov == IsDone(rctx)
           Fin == EndStopped
<1>1. WInv /\ ParentKnown /\ [Next]_vars =>
         /\ D => D'
         /\ Se /\ ~Lv => (Se' /\ ~Lv') \/ Re' \/ Rt'
         /\ St => St' \/ Re' \/ Rt'
         /\ Re => Re' \/ Rt' \/ ~D
         /\ Rt => Rt' \/ Ov'
  <2> SUFFICES ASSUME WInv, ParentKnown, [Next]_vars
               PROVE  /\ D => D'
                      /\ Se /\ ~Lv => (Se' /\ ~Lv') \/ Re' \/ Rt'
                      /\ St => St' \/ Re' \/ Rt'
                      /\ Re => Re' \/ Rt' \/ ~D
                      /\ Rt => Rt' \/ Ov'
    OBVIOUS
  <2>0. IInv /\ TypeOK /\ Locals
    BY DEF WInv, IInv
  <2>1. D => D'
    BY <2>0, DisabledStep DEF Dead
  <2>2. runner' = runner \/ Run
    BY OthersWait
  <2>3. Se /\ Lv' => Lv
    <3>1. Se => ~NewAttempt
      BY DEF NewAttempt
    <3>2. QED
      BY <2>0, <3>1, LiveStep DEF SomeLive
  <2>4. St /\ Se' => St'
    <3>1. Se => ~NewAttempt /\ Current \in 1..Current
      BY <2>0 DEF NewAttempt, IInv, Contexts, TypeOK, Current
    <3>2. Se => Current' = Current
      BY <2>0, <3>1, LiveStep
    <3>3. QED
      BY <2>0, <3>1, <3>2, StoppingStays
  <2>5. QED
    BY <2>0, <2>1, <2>2, <2>3, <2>4, RunMoves
<1>2. WInv /\ [Next]_vars /\ <<Run>>_vars =>
         /\ Se => Re' \/ Rt'
         /\ Re => Rt' \/ ~D
         /\ Rt => Ov'
  BY RunMoves DEF WInv
<1>3. WInv /\ [Next]_vars /\ <<Fin>>_vars => ~Lv'
  BY EndStoppedStep DEF WInv
<1>4. WInv /\ WorkerGoesOn =>
         /\ (Se /\ ~Lv) \/ Re \/ Rt => ENABLED <<Run>>_vars
         /\ Lv /\ St => ENABLED <<Fin>>_vars
  <2>1. WInv /\ Se /\ ~Lv => ~Live(Current)
    BY DEF SomeLive, Live
  <2>2. WInv /\ Lv /\ St => \E i \in 1..Current : Live(i) /\ attempts[i].stopping
    BY DEF SomeLive, WInv, IInv, NoOrphanAttempt
  <2>3. QED
    BY <2>1, <2>2 DEF WorkerGoesOn, EndStopped
<1>5. Signalling /\ (\E c \in Stoppers : Reached(c)) => D /\ St
  BY DEF Reached, Signalling, Callers
<1>6. St => Se
  OBVIOUS
<1>7. WInv => (Se => ~Re /\ ~Rt)
  OBVIOUS
<1> DEFINE Stopped == \E c \in Stoppers : Reached(c)
<1>8. Spec /\ []WorkerGoesOn => [](Stopped => D /\ St) /\ []WInv /\ []ParentKnown
  BY <1>5, SignalInv, PTL
<1> HIDE DEF Se, Re, Rt, D, Lv, St, Ov, Stopped
<1>9. Spec /\ []WorkerGoesOn => [](Rt => <>Ov) /\ [](D /\ Re => <>Rt)
  BY <1>1, <1>2, <1>4, <1>8, PTL DEF Spec, Fairness
<1>10. Spec /\ []WorkerGoesOn => [](D /\ Se /\ ~Lv => <>(D /\ (Re \/ Rt)))
  BY <1>1, <1>2, <1>4, <1>8, PTL DEF Spec, Fairness
<1>11. Spec /\ []WorkerGoesOn => [](D /\ St => <>(D /\ ((Se /\ ~Lv) \/ Re \/ Rt)))
  BY <1>1, <1>3, <1>4, <1>6, <1>8, PTL DEF Spec, Fairness, EndStopped
<1>12. Spec /\ []WorkerGoesOn => [](Stopped => <>Ov)
  BY <1>8, <1>9, <1>10, <1>11, PTL
<1>13. QED
  BY <1>12, PTL DEF ReachedStopEndsWorker, Stopped, Ov

-----------------------------------------------------------------------------
(***************************************************************************)
(* The arithmetic of retries, for whatever a manifest says.  Options are   *)
(* defaulted when WithDefaults has nothing to change in them any more;     *)
(* what it returns is defaulted, whatever it is given.                     *)
(***************************************************************************)

\* Options as a manifest has them, and as a worker has them.
Declared(o) ==
    /\ o = [limit |-> o.limit, scale |-> o.scale, backoff |-> o.backoff,
            stopTimeout |-> o.stopTimeout, minUptime |-> o.minUptime]
    /\ o.limit = Rate(o.limit.count, o.limit.period)
    /\ o.limit.count \in Nat /\ o.limit.period \in Nat
    /\ o.scale \in Int /\ o.backoff \in Int /\ o.stopTimeout \in Int /\ o.minUptime \in Int

Defaulted(o) ==
    /\ Declared(o)
    /\ o.limit.period \in 30 * Second .. Hour
    /\ o.limit.count \in 0 .. ((MaxRate.count * MaxRate.period) \div o.limit.period)
    /\ o.scale > 0 /\ o.backoff >= 500
    /\ o.stopTimeout \in 250 .. 30 * Second /\ o.minUptime >= 0

OptionsInv == Declared(opts) /\ depth \in Nat /\ (depth > 0 => Defaulted(opts))

\* A quotient is how often the divisor fits.
LEMMA QuotientFits ==
    ASSUME NEW a \in Nat, NEW b \in Nat \ {0}
    PROVE  /\ a \div b \in Nat
           /\ (a \div b) * b <= a
           /\ a < ((a \div b) + 1) * b
OBVIOUS

LEMMA FactorCancels ==
    ASSUME NEW x \in Int, NEW y \in Int, NEW k \in Nat \ {0}
    PROVE  /\ x * k <= y * k => x <= y
           /\ x * k < y * k => x < y
OBVIOUS

LEMMA QuotientGrows ==
    ASSUME NEW a \in Nat, NEW b \in Nat, NEW d \in Nat \ {0}, a <= b
    PROVE  a \div d <= b \div d
<1>1. (a \div d) * d < ((b \div d) + 1) * d
  BY QuotientFits
<1>2. a \div d \in Int /\ (b \div d) + 1 \in Int
  BY QuotientFits
<1>3. a \div d < (b \div d) + 1
  BY <1>1, <1>2, FactorCancels
<1>4. QED
  BY <1>2, <1>3

\* The thresholds of WithDefaults, in milliseconds.
LEMMA Thresholds ==
    /\ Second \in Nat /\ Hour \in Nat /\ 30 * Second \in Nat \ {0} /\ 5 * Second \in 250 .. 30 * Second
    /\ 30 * Second <= Hour
    /\ MaxRate = Rate(10, 30 * Second) /\ MaxRate.count = 10 /\ MaxRate.period = 30 * Second
BY SMT DEF Second, Minute, Hour, MaxRate, Rate

\* A limit of the right period, as Clamp makes it.
LEMMA ClampFacts ==
    ASSUME NEW c \in Nat, NEW p \in 30 * Second .. Hour
    PROVE  LET m == (MaxRate.count * MaxRate.period) \div p
           IN  /\ m \in Nat
               /\ Clamp(Rate(c, p), Rate(0, Second), MaxRate) = Rate(Clamped(c, 0, m), p)
               /\ Clamped(c, 0, m) \in 0 .. m
               /\ c <= m => Clamped(c, 0, m) = c
<1> DEFINE m == (MaxRate.count * MaxRate.period) \div p
<1>1. p \in Nat \ {0} /\ MaxRate.count * MaxRate.period \in Nat
  BY Thresholds
<1>2. m \in Nat /\ 0 \div p = 0
  BY <1>1, QuotientFits
<1>3. Rescale(Rate(0, Second), p).count = 0 /\ Rescale(MaxRate, p).count = m
  BY <1>2, Thresholds DEF Rescale, Rate
<1> HIDE DEF m
<1>4. Clamp(Rate(c, p), Rate(0, Second), MaxRate) = Rate(Clamped(c, 0, m), p)
  BY <1>3 DEF Clamp, Rate
<1>5. Clamped(c, 0, m) \in 0 .. m /\ (c <= m => Clamped(c, 0, m) = c)
  BY <1>2 DEF Clamped, AtLeast, AtMost
<1>6. QED
  BY <1>2, <1>4, <1>5 DEF m

\* The limit of a worker, and one that is kept as it is.
LEMMA LimitFacts ==
    ASSUME NEW c \in Nat, NEW p \in Nat
    PROVE  \E q \in 30 * Second .. Hour :
             \E n \in 0 .. ((MaxRate.count * MaxRate.period) \div q) :
                DefaultLimit(Rate(c, p)) = Rate(n, q)
<1>1. CASE p = 0
  <2>1. DefaultLimit(Rate(c, p)) = Rate(10, 30 * Second)
    BY <1>1, Thresholds DEF DefaultLimit, Rate
  <2>2. 10 <= (MaxRate.count * MaxRate.period) \div (30 * Second)
    <3> DEFINE k == 30 * Second
    <3>1. k \in Nat \ {0} /\ 10 * k \in Nat
      BY Thresholds
    <3> HIDE DEF k
    <3>2. 10 * k < (((10 * k) \div k) + 1) * k /\ (10 * k) \div k \in Nat
      BY <3>1, QuotientFits
    <3>3. 10 < ((10 * k) \div k) + 1
      BY <3>1, <3>2, FactorCancels
    <3>4. QED
      BY <3>1, <3>2, <3>3, Thresholds DEF k
  <2>3. 30 * Second \in 30 * Second .. Hour
    BY Thresholds
  <2>4. (MaxRate.count * MaxRate.period) \div (30 * Second) \in Nat
    BY Thresholds, QuotientFits
  <2>5. QED
    BY <2>1, <2>2, <2>3, <2>4
<1>2. CASE p # 0
  <2> DEFINE q == Clamped(p, 30 * Second, Hour)
  <2>1. q \in 30 * Second .. Hour
    BY Thresholds DEF Clamped, AtLeast, AtMost
  <2>2. DefaultLimit(Rate(c, p)) = Clamp(Rate(c, q), Rate(0, Second), MaxRate)
    BY <1>2 DEF DefaultLimit, ClampPeriod, Rate
  <2> HIDE DEF q
  <2>3. QED
    BY <2>1, <2>2, ClampFacts
<1>3. QED
  BY <1>1, <1>2

LEMMA LimitStays ==
    ASSUME NEW p \in 30 * Second .. Hour, NEW c \in 0 .. ((MaxRate.count * MaxRate.period) \div p)
    PROVE  DefaultLimit(Rate(c, p)) = Rate(c, p)
<1>1. p \in Nat \ {0} /\ (MaxRate.count * MaxRate.period) \div p \in Nat
  BY Thresholds, QuotientFits
<1>2. Clamped(p, 30 * Second, Hour) = p
  BY Thresholds DEF Clamped, AtLeast, AtMost
<1>3. DefaultLimit(Rate(c, p)) = Clamp(Rate(c, p), Rate(0, Second), MaxRate)
  BY <1>1, <1>2 DEF DefaultLimit, ClampPeriod, Rate
<1>4. QED
  BY <1>1, <1>3, ClampFacts

LEMMA DefaultsAreGiven == ASSUME NEW o, Declared(o) PROVE Defaulted(WithDefaults(o))
<1> DEFINE d == WithDefaults(o)
           c == o.limit.count
           p == o.limit.period
<1>1. c \in Nat /\ p \in Nat /\ o.limit = Rate(c, p)
  BY DEF Declared
<1>2. d.limit = DefaultLimit(Rate(c, p))
  BY <1>1 DEF WithDefaults
<1>3. /\ d.scale \in Int /\ d.scale > 0
      /\ d.backoff \in Int /\ d.backoff >= 500
      /\ d.stopTimeout \in 250 .. 30 * Second
      /\ d.minUptime \in Int /\ d.minUptime >= 0
  BY Thresholds DEF Declared, WithDefaults, AtLeast, AtMost, Clamped
<1>4. d = [limit |-> d.limit, scale |-> d.scale, backoff |-> d.backoff,
           stopTimeout |-> d.stopTimeout, minUptime |-> d.minUptime]
  BY DEF WithDefaults
<1> HIDE DEF d, c, p
<1>5. PICK q \in 30 * Second .. Hour :
        \E n \in 0 .. ((MaxRate.count * MaxRate.period) \div q) : DefaultLimit(Rate(c, p)) = Rate(n, q)
  BY <1>1, LimitFacts
<1>6. PICK n \in 0 .. ((MaxRate.count * MaxRate.period) \div q) : d.limit = Rate(n, q)
  BY <1>2, <1>5
<1>7. d.limit.period = q /\ d.limit.count = n /\ q \in Nat /\ n \in Nat
  BY <1>6, Thresholds, QuotientFits DEF Rate
<1>8. Defaulted(d)
  BY <1>3, <1>4, <1>5, <1>6, <1>7, Thresholds DEF Defaulted, Declared
<1>9. QED
  BY <1>8 DEF d

LEMMA DefaultsStay == ASSUME NEW o, Defaulted(o) PROVE WithDefaults(o) = o
<1>1. DefaultLimit(o.limit) = o.limit
  BY LimitStays DEF Defaulted, Declared
<1>2. /\ (IF o.scale <= 0 THEN 20 ELSE o.scale) = o.scale
      /\ AtLeast(o.backoff, 500) = o.backoff
      /\ (IF o.stopTimeout > 0 THEN Clamped(o.stopTimeout, 250, 30 * Second)
                               ELSE 5 * Second) = o.stopTimeout
      /\ AtLeast(o.minUptime, 0) = o.minUptime
  BY Thresholds DEF Defaulted, Declared, AtLeast, AtMost, Clamped
<1>3. QED
  BY <1>1, <1>2 DEF WithDefaults, Defaulted, Declared

LEMMA OptionsInitInv == OptionsInit => OptionsInv
BY ManifestAssumption DEF OptionsInit, Options, OptionsInv, Declared, Rate

LEMMA OptionsNextInv == OptionsInv /\ [OptionsNext]_optionsVars => OptionsInv'
<1> SUFFICES ASSUME OptionsInv, [OptionsNext]_optionsVars PROVE OptionsInv'
  OBVIOUS
<1>1. CASE NewWorker
  BY <1>1, DefaultsAreGiven DEF OptionsInv, NewWorker, Defaulted
<1>2. CASE UNCHANGED optionsVars
  BY <1>2 DEF OptionsInv, optionsVars
<1>3. QED
  BY <1>1, <1>2 DEF OptionsNext, Done

THEOREM OptionsInvariance == OptionsSpec => []OptionsInv
BY OptionsInitInv, OptionsNextInv, PTL DEF OptionsSpec

\* Whatever a manifest says, the stop timeout of a worker, its retry period and
\* the rate of its retries are within bounds (options.go, rate.go).
THEOREM WorkersAlwaysBounded == OptionsSpec => []WorkersAreBounded
<1>1. OptionsInv => WorkersAreBounded
  <2> SUFFICES ASSUME Defaulted(opts)
               PROVE  /\ opts.stopTimeout \in 250 .. 30 * Second
                      /\ opts.limit.period \in 30 * Second .. Hour
                      /\ opts.limit.count * MaxRate.period <= MaxRate.count * opts.limit.period
    BY DEF OptionsInv, WorkersAreBounded
  <2> DEFINE p == opts.limit.period
             c == opts.limit.count
             k == 30 * Second
             q == (10 * k) \div p
  <2>1. p \in k .. Hour /\ p \in Nat \ {0} /\ c \in 0 .. q /\ k \in Nat /\ Hour \in Nat
    BY Thresholds DEF Defaulted
  <2>2. q \in Nat /\ q * p <= 10 * k
    BY <2>1, QuotientFits
  <2> HIDE DEF p, q, c, k
  <2>3. q * k <= 10 * k
    <3>1. q * k <= q * p
      BY <2>1, <2>2
    <3>2. QED
      BY <2>1, <2>2, <3>1
  <2>4. c * k <= q * k /\ 10 * k <= 10 * p
    BY <2>1, <2>2
  <2>5. c * k <= 10 * p
    BY <2>1, <2>2, <2>3, <2>4
  <2>6. QED
    BY <2>5, Thresholds DEF Defaulted, c, p, k
<1>2. QED
  BY <1>1, OptionsInvariance, PTL

\* The backoff of a retry, as a quotient.
LEMMA BackoffFacts ==
    ASSUME Defaulted(opts), NEW n \in 1 .. opts.limit.count
    PROVE  LET c == opts.limit.count
               b == opts.backoff * opts.scale
           IN  /\ c \in Nat \ {0} /\ b \in Nat \ {0} /\ c * c \in Nat \ {0}
               /\ Backoff(opts, n) = (b * (c * c + 2 * (n - 1) * (n - 1))) \div (20 * c * c)
               /\ (n - 1) * (n - 1) \in Nat /\ (n - 1) * (n - 1) <= c * c
<1> DEFINE c == opts.limit.count
           b == opts.backoff * opts.scale
<1>1. c \in Nat \ {0} /\ n \in Nat /\ n - 1 \in Nat /\ n - 1 <= c
  BY DEF Defaulted, Declared
<1>2. b \in Nat \ {0}
  BY DEF Defaulted, Declared
<1>3. c * c \in Nat \ {0} /\ (n - 1) * (n - 1) \in Nat /\ (n - 1) * (n - 1) <= c * c
  BY <1>1
<1>4. Clamped(n - 1, 0, c) = n - 1
  BY <1>1 DEF Clamped, AtLeast, AtMost
<1>5. Backoff(opts, n) = (b * (c * c + 2 * (n - 1) * (n - 1))) \div (20 * c * c)
  BY <1>4 DEF Backoff
<1>6. QED
  BY <1>1, <1>2, <1>3, <1>5

\* Retries wait longer and longer within a period, from half to one and a half
\* times the scaled backoff, whatever the limit (work_retry.go:130-135).
THEOREM BackoffAlwaysGrows == OptionsSpec => []BackoffGrows
<1>1. OptionsInv => BackoffGrows
  <2> SUFFICES ASSUME Defaulted(opts), NEW n \in 1 .. opts.limit.count
               PROVE  /\ Backoff(opts, n) * 20 <= 3 * opts.backoff * opts.scale
                      /\ (Backoff(opts, n) + 1) * 20 > opts.backoff * opts.scale
                      /\ n > 1 => Backoff(opts, n) >= Backoff(opts, n - 1)
    BY DEF OptionsInv, BackoffGrows
  <2> DEFINE c == opts.limit.count
             b == opts.backoff * opts.scale
             k == c * c
             s == (n - 1) * (n - 1)
             x == Backoff(opts, n)
             top == b * (k + 2 * s)
  <2>1. b \in Nat \ {0} /\ k \in Nat \ {0} /\ s \in Nat /\ s <= k
    BY BackoffFacts
  <2>2. x = top \div (20 * k)
    <3>1. b * (c * c + 2 * (n - 1) * (n - 1)) = top /\ 20 * c * c = 20 * k
      BY DEF Defaulted, Declared
    <3>2. QED
      BY <3>1, BackoffFacts
  <2>3. top \in Nat /\ 20 * k \in Nat \ {0}
    BY <2>1
  <2>4. x \in Nat /\ x * (20 * k) <= top /\ top < (x + 1) * (20 * k)
    BY <2>2, <2>3, QuotientFits
  <2>5. 3 * opts.backoff * opts.scale = 3 * b
    BY DEF Defaulted, Declared
  <2>6. x * 20 <= 3 * b
    <3> HIDE DEF x, b, k, s
    <3>1. k + 2 * s <= 3 * k
      BY <2>1
    <3>2. b * (k + 2 * s) <= b * (3 * k)
      BY <2>1, <3>1
    <3>3. (x * 20) * k <= (3 * b) * k
      BY <2>1, <2>4, <3>2
    <3>4. QED
      BY <2>1, <2>4, <3>3, FactorCancels
  <2>7. (x + 1) * 20 > b
    <3> HIDE DEF x, b, k, s
    <3>1. b * k <= b * (k + 2 * s)
      BY <2>1
    <3>2. b * k < ((x + 1) * 20) * k
      BY <2>1, <2>4, <3>1
    <3>3. QED
      BY <2>1, <2>4, <3>2, FactorCancels
  <2>8. n > 1 => x >= Backoff(opts, n - 1)
    <3> SUFFICES ASSUME n > 1 PROVE x >= Backoff(opts, n - 1)
      OBVIOUS
    <3> DEFINE m == n - 1
               r == (m - 1) * (m - 1)
    <3>1. m \in 1 .. c /\ n \in Nat /\ m \in Nat /\ m - 1 \in Nat
      BY DEF Defaulted, Declared
    <3>2. r \in Nat /\ r <= s
      <4>1. r = m * m - 2 * m + 1 /\ s = m * m
        BY <3>1
      <4>2. QED
        BY <3>1, <4>1
    <3>3. Backoff(opts, m) = (b * (k + 2 * r)) \div (20 * k)
      <4>1. b * (c * c + 2 * (m - 1) * (m - 1)) = b * (k + 2 * r) /\ 20 * c * c = 20 * k
        BY <3>1 DEF Defaulted, Declared
      <4>2. QED
        BY <3>1, <4>1, BackoffFacts
    <3>4. b * (k + 2 * r) \in Nat /\ b * (k + 2 * r) <= top
      <4> HIDE DEF b, k, s, r
      <4>1. QED
        BY <2>1, <3>2
    <3>5. QED
      BY <2>2, <2>3, <3>3, <3>4, QuotientGrows
  <2>9. QED
    BY <2>5, <2>6, <2>7, <2>8
<1>2. QED
  BY <1>1, OptionsInvariance, PTL

\* What the defaults make of any manifest bounds the rate, the wait and the stop of
\* a worker's retries (options.go, rate.go, work_retry.go:130-135).
THEOREM RetriesAlwaysBounded == OptionsSpec => []RetriesAreBounded
BY WorkersAlwaysBounded, BackoffAlwaysGrows, PTL DEF RetriesAreBounded

\* A task deep inside pipes runs under the options of the main task: defaults
\* change nothing where they have been applied (work_must.go:53-57).
THEOREM DefaultsStayStable == OptionsSpec => DefaultsAreStable
<1>1. OptionsInv /\ [OptionsNext]_optionsVars => [depth > 0 => opts' = opts]_optionsVars
  BY DefaultsStay DEF OptionsInv, OptionsNext, NewWorker, Done, optionsVars
<1>2. QED
  BY <1>1, OptionsInvariance, PTL DEF OptionsSpec, DefaultsAreStable
=============================================================================

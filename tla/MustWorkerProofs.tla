-------------------------- MODULE MustWorkerProofs --------------------------
(***************************************************************************)
(* What is proved of mustWorker for any number of callers of Stop, any     *)
(* options, exit reasons and parent causes.  The inductive invariant adds  *)
(* two facts to the properties: while Run is inside only somebody else can *)
(* have ended the attempt, and the AfterFunc callback runs only after an   *)
(* end.                                                                    *)
(***************************************************************************)
EXTENDS MustWorker, TLAPS

EndedFromOutside == run # "returned" /\ IsDone(cause) => cause \in OutsideCauses

AfterEnd == after # "armed" => IsDone(cause)

IInv == /\ TypeOK
        /\ RunReturnsDone
        /\ EndedFromOutside
        /\ ResultAgreesWithCause
        /\ NoFalseSuccess
        /\ AfterEnd
        /\ StopIsEnforced

-----------------------------------------------------------------------------
(* Lemmas about causes *)

\* A cancellation leaves a cause behind, the first one, and never success
\* unless it was asked for (pkg/util/ok.go:28-33).
LEMMA CancelFacts ==
    ASSUME NEW c \in Errors \cup {Nil}, NEW e \in Errors \cup {Nil}
    PROVE  /\ Cancel(c, e) \in Errors
           /\ IsDone(Cancel(c, e))
           /\ IsDone(c) => Cancel(c, e) = c
           /\ ~IsDone(c) /\ e # Nil => Cancel(c, e) = e
           /\ ~IsDone(c) /\ e = Nil => Cancel(c, e) = ErrOk
BY DEF Cancel, OrOk, IsDone, Errors, Statuses, AliveStatuses, ErrorStatuses, Nil, ErrOk

\* Run's results are errors or nil, never the sentinel, and they are nil only
\* for a clean exit (work_must.go:169-183).
LEMMA ResultFacts ==
    ASSUME NEW e \in ExitReasons
    PROVE  /\ Wrapped(e) \in (Errors \ {ErrOk}) \cup {Nil}
           /\ EarlyResult(e) \in Errors \ {ErrOk}
           /\ Wrapped(e) = Nil => e = Nil
           /\ Wrapped(e) # "timeoutStop" /\ EarlyResult(e) # "timeoutStop"
BY ExitReasonsAssumption
   DEF Wrapped, EarlyResult, StatusFromErr, Errors, Statuses, AliveStatuses,
       ErrorStatuses, Nil, ErrOk

\* The causes that are named in actions are errors, and none of them is success.
LEMMA NamedCauses ==
    /\ {"cancelled", "timeoutStart", "timeoutStop", "timeoutExec", "memoryLimit"}
         \subseteq Errors \ {ErrOk, Nil}
    /\ ErrOk \in Errors /\ Nil \notin Errors /\ ErrOk # Nil
BY DEF Errors, Statuses, AliveStatuses, ErrorStatuses, Nil, ErrOk
-----------------------------------------------------------------------------
(* The invariant *)

\* A new attempt satisfies the invariant (newMustWorker, work_must.go:27-32).
LEMMA InitInv == Init => IInv
<1> SUFFICES ASSUME Init PROVE IInv
  OBVIOUS
<1>1. TypeOK
  BY DEF Init, TypeOK, AliveStatuses, RunPCs, StopPCs
<1>2. QED
  BY <1>1, NamedCauses
     DEF Init, IInv, RunReturnsDone, EndedFromOutside, ResultAgreesWithCause,
         NoFalseSuccess, AfterEnd, StopIsEnforced, IsDone

\* Steps that only set the cause, from outside Run: a timer, the memory guard,
\* Kill, the parent context.
LEMMA CauseStep ==
    ASSUME IInv, NEW e \in OutsideCauses \cap Errors,
           cause' = Cancel(cause, e),
           UNCHANGED <<stopUsed, run, ret, exit, after>>,
           e = ErrOk => parent' = ErrOk,
           parent = ErrOk => parent' = ErrOk,
           \A c \in Callers : pc'[c] = "returned" => pc[c] = "returned" \/ IsDone(cause')
    PROVE  /\ RunReturnsDone' /\ EndedFromOutside' /\ ResultAgreesWithCause'
           /\ NoFalseSuccess' /\ AfterEnd' /\ StopIsEnforced'
<1>1. cause \in Errors \cup {Nil} /\ e \in Errors \cup {Nil} /\ e # Nil
  BY NamedCauses DEF IInv, TypeOK
<1>2. IsDone(cause') /\ cause' \in Errors
  BY <1>1, CancelFacts
<1>3. IF IsDone(cause) THEN cause' = cause ELSE cause' = e
  BY <1>1, CancelFacts
<1>4. RunReturnsDone' /\ AfterEnd' /\ StopIsEnforced'
  BY <1>2 DEF RunReturnsDone, AfterEnd, StopIsEnforced
<1>5. EndedFromOutside' /\ ResultAgreesWithCause'
  BY <1>3 DEF IInv, EndedFromOutside, ResultAgreesWithCause, RunReturnsDone
<1>6. NoFalseSuccess'
  BY <1>3 DEF IInv, NoFalseSuccess
<1>7. QED
  BY <1>4, <1>5, <1>6

\* Types are preserved by every action.
LEMMA TypeStep == TypeOK /\ [Next]_vars => TypeOK'
<1> SUFFICES ASSUME TypeOK, [Next]_vars PROVE TypeOK'
  OBVIOUS
<1> USE CancelFacts, NamedCauses
<1>a. /\ {"starting", "running", "stopping"} \subseteq {"idle"} \cup AliveStatuses
      /\ {"new", "launching", "started", "up", "returned"} \subseteq RunPCs
      /\ {"idle", "checked", "marked", "enforce", "returned"} \subseteq StopPCs
  BY DEF AliveStatuses, RunPCs, StopPCs
<1>b. \A e \in ExitReasons :
        /\ Wrapped(e) \in Errors \cup {Nil}
        /\ EarlyResult(e) \in Errors \cup {Nil}
  BY ResultFacts
<1>c. Cause(cause) \in Errors \cup {Nil}
  BY DEF Cause, NotOk, TypeOK
<1>d. exit # <<>> => exit[1] \in ExitReasons
  BY DEF TypeOK
<1>1. CASE RunBegin
  <2>1. opt.startTimeout \in BOOLEAN /\ opt.maxMemory \in BOOLEAN
    BY OptionSetsAssumption DEF TypeOK, Options
  <2>2. QED
    BY <1>1, <1>a, <2>1 DEF RunBegin, TypeOK
<1>2. CASE LaunchReturns
  BY <1>2, <1>a DEF LaunchReturns, TypeOK
<1>3. CASE RunUp
  BY <1>3, <1>a DEF RunUp, TypeOK
<1>4. CASE RunDone
  BY <1>4, <1>a, <1>c DEF RunDone, Return, TypeOK
<1>5. CASE RunExitsEarly
  BY <1>5, <1>a, <1>b, <1>d DEF RunExitsEarly, Return, TypeOK
<1>6. CASE RunExits
  BY <1>6, <1>a, <1>b, <1>d DEF RunExits, Return, TypeOK
<1>7. CASE RunTimesOut
  BY <1>7, <1>a DEF RunTimesOut, Return, TypeOK
<1>8. CASE Timers
  <2>1. CASE StartTimerFires
    BY <2>1 DEF StartTimerFires, TypeOK
  <2>2. CASE StartTimerEnds
    BY <2>2 DEF StartTimerEnds, TypeOK
  <2>3. CASE MemoryGuardFires
    BY <2>3 DEF MemoryGuardFires, TypeOK
  <2>4. CASE MemoryGuardEnds
    BY <2>4 DEF MemoryGuardEnds, TypeOK
  <2>5. QED
    BY <1>8, <2>1, <2>2, <2>3, <2>4 DEF Timers
<1>9. CASE After
  <2>1. CASE AfterMark
    BY <2>1, <1>a, Zenon DEF AfterMark, TypeOK
  <2>2. CASE AfterSwap
    BY <2>2, <1>a DEF AfterSwap, TypeOK
  <2>3. QED
    BY <1>9, <2>1, <2>2 DEF After
<1>10. CASE \E e \in ExitReasons : TaskExits(e)
  BY <1>10 DEF TaskExits, TypeOK
<1>11. CASE Kill
  BY <1>11 DEF Kill, TypeOK
<1>12. CASE \E e \in ParentCauses : ParentCancel(e)
  BY <1>12, ParentCausesAssumption DEF ParentCancel, TypeOK
<1>13. ASSUME NEW c \in Callers, Stop(c) PROVE TypeOK'
  <2>1. CASE StopCheck(c)
    BY <2>1, <1>a DEF StopCheck, TypeOK
  <2>2. CASE StopMark(c)
    BY <2>2, <1>a DEF StopMark, TypeOK
  <2>3. CASE StopSwap(c)
    BY <2>3, <1>a DEF StopSwap, TypeOK
  <2>4. CASE StopTimesOut(c)
    BY <2>4, <1>a DEF StopTimesOut, TypeOK
  <2>5. CASE StopWaited(c)
    BY <2>5, <1>a DEF StopWaited, TypeOK
  <2>6. QED
    BY <1>13, <2>1, <2>2, <2>3, <2>4, <2>5 DEF Stop
<1>14. CASE UNCHANGED vars
  BY <1>14 DEF vars, TypeOK
<1>15. QED
  BY <1>1, <1>2, <1>3, <1>4, <1>5, <1>6, <1>7, <1>8, <1>9, <1>10, <1>11, <1>12,
     <1>13, <1>14 DEF Next, Run, RunReturns, Environment

\* The rest of the invariant, when Run returns with result r and cancels with r.
LEMMA ReturnStep ==
    ASSUME IInv, run # "returned", Return(ret'),
           ret' \in (Errors \ {ErrOk}) \cup {Nil},
           cause' = Cancel(cause, ret'),
           ret' = Nil => exit = <<Nil>>,
           UNCHANGED <<stopUsed, exit, after, pc, parent>>
    PROVE  /\ RunReturnsDone' /\ EndedFromOutside' /\ ResultAgreesWithCause'
           /\ NoFalseSuccess' /\ AfterEnd' /\ StopIsEnforced'
<1>1. cause \in Errors \cup {Nil} /\ ret' \in Errors \cup {Nil}
  BY DEF IInv, TypeOK
<1>2. IsDone(cause') /\ (IsDone(cause) => cause' = cause)
  BY <1>1, CancelFacts
<1>3. ~IsDone(cause) => cause' = IF ret' = Nil THEN ErrOk ELSE ret'
  BY <1>1, CancelFacts
<1>4. RunReturnsDone' /\ EndedFromOutside' /\ AfterEnd' /\ StopIsEnforced'
  BY <1>2 DEF Return, RunReturnsDone, EndedFromOutside, AfterEnd, StopIsEnforced
<1>5. ResultAgreesWithCause'
  <2>1. CASE IsDone(cause)
    BY <2>1, <1>2 DEF IInv, EndedFromOutside, ResultAgreesWithCause
  <2>2. CASE ~IsDone(cause)
    BY <2>2, <1>3, NamedCauses DEF ResultAgreesWithCause, Cause, NotOk
  <2>3. QED
    BY <2>1, <2>2
<1>6. NoFalseSuccess'
  BY <1>2, <1>3, NamedCauses DEF IInv, NoFalseSuccess
<1>7. QED
  BY <1>4, <1>5, <1>6

\* Steps of a goroutine that leave the context, Run and its channels alone.
LEMMA QuietStep ==
    ASSUME IInv, UNCHANGED <<cause, run, ret, parent>>,
           exit' = exit \/ exit = <<>>,
           after' # "armed" => IsDone(cause),
           StopIsEnforced'
    PROVE  /\ RunReturnsDone' /\ EndedFromOutside' /\ ResultAgreesWithCause'
           /\ NoFalseSuccess' /\ AfterEnd' /\ StopIsEnforced'
BY DEF IInv, RunReturnsDone, EndedFromOutside, ResultAgreesWithCause, NoFalseSuccess, AfterEnd

\* Every step preserves the invariant.
LEMMA NextInv == IInv /\ [Next]_vars => IInv'
<1> SUFFICES ASSUME IInv, [Next]_vars PROVE IInv'
  OBVIOUS
<1>0. TypeOK'
  BY TypeStep DEF IInv
<1> DEFINE Rest == /\ RunReturnsDone /\ EndedFromOutside /\ ResultAgreesWithCause
                   /\ NoFalseSuccess /\ AfterEnd /\ StopIsEnforced
<1> SUFFICES Rest'
  BY <1>0 DEF IInv
<1>a. {"cancelled", "timeoutStart", "timeoutStop", "memoryLimit"} \subseteq OutsideCauses \cap Errors
  BY NamedCauses DEF OutsideCauses
<1>1. CASE RunBegin \/ LaunchReturns \/ RunUp
  <2>1. /\ RunReturnsDone' /\ EndedFromOutside' /\ ResultAgreesWithCause'
        /\ NoFalseSuccess' /\ AfterEnd'
    BY <1>1 DEF RunBegin, LaunchReturns, RunUp, IInv, RunReturnsDone, EndedFromOutside,
                ResultAgreesWithCause, NoFalseSuccess, AfterEnd
  <2>2. StopIsEnforced'
    BY <1>1 DEF RunBegin, LaunchReturns, RunUp, IInv, StopIsEnforced
  <2>3. QED
    BY <2>1, <2>2
<1>2. CASE RunDone
  <2>1. /\ run' = "returned" /\ ret' = Cause(cause) /\ IsDone(cause)
        /\ UNCHANGED <<cause, stopUsed, exit, after, pc, parent>>
    BY <1>2 DEF RunDone, Return
  <2>2. RunReturnsDone' /\ EndedFromOutside' /\ ResultAgreesWithCause' /\ AfterEnd' /\ StopIsEnforced'
    BY <2>1 DEF IInv, RunReturnsDone, EndedFromOutside, ResultAgreesWithCause, AfterEnd, StopIsEnforced
  <2>3. NoFalseSuccess'
    BY <2>1, NamedCauses DEF IInv, NoFalseSuccess, Cause, NotOk, IsDone
  <2>4. QED
    BY <2>2, <2>3
<1>3. CASE RunExitsEarly
  <2>1. exit = <<exit[1]>> /\ exit[1] \in ExitReasons
    BY <1>3 DEF RunExitsEarly, IInv, TypeOK
  <2>2. ret' = EarlyResult(exit[1]) /\ ret' \in Errors \ {ErrOk} /\ ret' # Nil
    BY <1>3, <2>1, ResultFacts, NamedCauses DEF RunExitsEarly, Return
  <2>3. run # "returned"
    BY <1>3 DEF RunExitsEarly
  <2>4. QED
    BY <1>3, <2>2, <2>3, ReturnStep DEF RunExitsEarly, Return
<1>4. CASE RunExits
  <2>1. exit = <<exit[1]>> /\ exit[1] \in ExitReasons
    BY <1>4 DEF RunExits, IInv, TypeOK
  <2>2. /\ ret' = Wrapped(exit[1]) /\ ret' \in (Errors \ {ErrOk}) \cup {Nil}
        /\ ret' = Nil => exit = <<Nil>>
    BY <1>4, <2>1, ResultFacts DEF RunExits, Return
  <2>3. run # "returned"
    BY <1>4 DEF RunExits
  <2>4. QED
    BY <1>4, <2>2, <2>3, ReturnStep DEF RunExits, Return
<1>5. CASE RunTimesOut
  <2>1. ret' = "timeoutExec" /\ ret' \in Errors \ {ErrOk} /\ ret' # Nil
    BY <1>5, NamedCauses DEF RunTimesOut, Return
  <2>2. run # "returned"
    BY <1>5 DEF RunTimesOut
  <2>3. QED
    BY <1>5, <2>1, <2>2, ReturnStep DEF RunTimesOut, Return
<1>6. CASE StartTimerFires
  <2>1. "timeoutStart" # ErrOk
    BY NamedCauses
  <2>2. QED
    BY <1>6, <1>a, <2>1, CauseStep DEF StartTimerFires
<1>7. CASE MemoryGuardFires
  <2>1. "memoryLimit" # ErrOk
    BY NamedCauses
  <2>2. QED
    BY <1>7, <1>a, <2>1, CauseStep DEF MemoryGuardFires
<1>8. CASE StartTimerEnds \/ MemoryGuardEnds
  <2>1. StopIsEnforced'
    BY <1>8 DEF StartTimerEnds, MemoryGuardEnds, IInv, StopIsEnforced
  <2>2. QED
    BY <1>8, <2>1, QuietStep DEF StartTimerEnds, MemoryGuardEnds, IInv, AfterEnd
<1>9. CASE After
  <2>1. IsDone(cause) /\ UNCHANGED <<cause, run, ret, exit, parent>>
    BY <1>9 DEF After, AfterMark, AfterSwap, IInv, AfterEnd
  <2>2. StopIsEnforced'
    BY <2>1 DEF StopIsEnforced
  <2>3. QED
    BY <2>1, <2>2, QuietStep
<1>10. CASE \E e \in ExitReasons : TaskExits(e)
  <2>1. StopIsEnforced'
    BY <1>10 DEF TaskExits, IInv, StopIsEnforced
  <2>2. QED
    BY <1>10, <2>1, QuietStep DEF TaskExits, IInv, AfterEnd
<1>11. CASE Kill
  <2>1. "cancelled" # ErrOk
    BY NamedCauses
  <2>2. QED
    BY <1>11, <1>a, <2>1, CauseStep DEF Kill
<1>12. ASSUME NEW e \in ParentCauses, ParentCancel(e) PROVE Rest'
  <2>1. e \in OutsideCauses \cap Errors /\ parent = Nil /\ parent' = e
    BY <1>12, ParentCausesAssumption DEF ParentCancel, OutsideCauses, IsDone
  <2>2. QED
    BY <1>12, <2>1, CauseStep, NamedCauses DEF ParentCancel
<1>13. ASSUME NEW c \in Callers, Stop(c) PROVE Rest'
  <2>1. CASE StopCheck(c)
    <3>1. StopIsEnforced'
      BY <2>1 DEF StopCheck, IInv, TypeOK, StopIsEnforced
    <3>2. QED
      BY <2>1, <3>1, QuietStep DEF StopCheck, IInv, AfterEnd
  <2>2. CASE StopMark(c)
    <3>1. StopIsEnforced'
      BY <2>2 DEF StopMark, IInv, TypeOK, StopIsEnforced
    <3>2. QED
      BY <2>2, <3>1, QuietStep DEF StopMark, IInv, AfterEnd
  <2>3. CASE StopSwap(c)
    <3>1. StopIsEnforced'
      BY <2>3 DEF StopSwap, IInv, TypeOK, StopIsEnforced
    <3>2. QED
      BY <2>3, <3>1, QuietStep DEF StopSwap, IInv, AfterEnd
  <2>4. CASE StopTimesOut(c)
    <3>1. "timeoutStop" # ErrOk
      BY NamedCauses
    <3>2. IsDone(cause')
      BY <2>4, <1>a, CancelFacts DEF StopTimesOut, IInv, TypeOK
    <3>3. QED
      BY <2>4, <1>a, <3>1, <3>2, CauseStep DEF StopTimesOut
  <2>5. CASE StopWaited(c)
    <3>1. StopIsEnforced'
      BY <2>5 DEF StopWaited, StopIsEnforced
    <3>2. QED
      BY <2>5, <3>1, QuietStep DEF StopWaited, IInv, AfterEnd
  <2>6. QED
    BY <1>13, <2>1, <2>2, <2>3, <2>4, <2>5 DEF Stop
<1>14. CASE UNCHANGED vars
  <2>1. StopIsEnforced'
    BY <1>14 DEF vars, IInv, StopIsEnforced
  <2>2. QED
    BY <1>14, <2>1, QuietStep DEF vars, IInv, AfterEnd
<1>15. QED
  BY <1>1, <1>2, <1>3, <1>4, <1>5, <1>6, <1>7, <1>8, <1>9, <1>10, <1>11, <1>12,
     <1>13, <1>14 DEF Next, Run, RunReturns, Timers, Environment

\* The inductive invariant holds in every behaviour of an attempt.
THEOREM Invariance == Spec => []IInv
<1>1. Init => IInv
  BY InitInv
<1>2. IInv /\ [Next]_vars => IInv'
  BY NextInv
<1>3. QED
  BY <1>1, <1>2, PTL DEF Spec

-----------------------------------------------------------------------------
(* What follows *)

\* Type correctness of an attempt.
THEOREM TypeCorrect == Spec => []TypeOK
BY Invariance, PTL DEF IInv

\* However an attempt ends, Run has left its context done, Run's result differs
\* from the cause only when somebody else ended the attempt, and a kill, a
\* timeout, a stop or the memory guard never looks like success.
THEOREM EndIsAlwaysTrue == Spec => []EndIsTrue
BY Invariance, PTL DEF IInv, EndIsTrue

\* However many goroutines call Stop, one of them enforces the stop timeout.
THEOREM StopIsAlwaysEnforced == Spec => []StopIsEnforced
BY Invariance, PTL DEF IInv

-----------------------------------------------------------------------------
(* An attempt as its supervisor sees it *)

\* Whoever enforces the stop timeout has closed the stop channel.
EnforcerSignalled == \A c \in Callers : pc[c] = "enforce" => stopUsed

\* The stop channel is closed before anybody waits (work_must.go:90-95).
LEMMA EnforcerInv == Spec => []EnforcerSignalled
<1>1. Init => EnforcerSignalled
  BY DEF Init, EnforcerSignalled
<1>2. TypeOK /\ EnforcerSignalled /\ [Next]_vars => EnforcerSignalled'
  <2> SUFFICES ASSUME TypeOK, EnforcerSignalled, [Next]_vars PROVE EnforcerSignalled'
    OBVIOUS
  <2>1. stopUsed => stopUsed'
    BY DEF Next, Run, RunReturns, Timers, After, Environment, Stop, vars,
           RunBegin, LaunchReturns, RunUp, RunDone, RunExitsEarly, RunExits, RunTimesOut,
           StartTimerFires, StartTimerEnds, MemoryGuardFires, MemoryGuardEnds,
           AfterMark, AfterSwap, TaskExits, Kill, ParentCancel,
           StopCheck, StopMark, StopSwap, StopTimesOut, StopWaited
  <2>2. ASSUME NEW c \in Callers, Stop(c) PROVE EnforcerSignalled'
    BY <2>1, <2>2 DEF EnforcerSignalled, TypeOK, Stop, StopCheck, StopMark, StopSwap,
                      StopTimesOut, StopWaited
  <2>3. CASE pc' = pc
    BY <2>1, <2>3 DEF EnforcerSignalled
  <2>4. pc' = pc \/ \E c \in Callers : Stop(c)
    BY DEF Next, Run, RunReturns, Timers, After, Environment, vars,
           RunBegin, LaunchReturns, RunUp, RunDone, RunExitsEarly, RunExits, RunTimesOut,
           StartTimerFires, StartTimerEnds, MemoryGuardFires, MemoryGuardEnds,
           AfterMark, AfterSwap, TaskExits, Kill, ParentCancel
  <2>5. QED
    BY <2>2, <2>3, <2>4
<1>3. QED
  BY <1>1, <1>2, TypeCorrect, PTL DEF Spec

\* The instance of Attempt speaks of the same errors.
LEMMA SameErrors == A!Nil = Nil /\ A!Errors = Errors
BY DEF A!Nil, Nil, A!Errors, Errors, A!Statuses, Statuses, A!AliveStatuses, AliveStatuses,
       A!ErrorStatuses, ErrorStatuses, A!ErrOk, ErrOk

\* A step that cancels with e ends the attempt, or changes nothing.
LEMMA CancelIsEnd ==
    ASSUME TypeOK, NEW e \in Errors \cup {Nil}, cause' = Cancel(cause, e),
           UNCHANGED stopUsed,
           e = "timeoutStop" => stopUsed \/ e \in ParentCauses
    PROVE  [A!Next]_(A!vars)
<1>1. CASE IsDone(cause)
  BY <1>1, CancelFacts DEF TypeOK, A!vars
<1>2. CASE ~IsDone(cause)
  <2>1. cause' \in Errors /\ (cause' = e \/ cause' = ErrOk)
    BY <1>2, CancelFacts DEF TypeOK
  <2>2. ErrOk # "timeoutStop"
    BY DEF ErrOk
  <2>3. A!End
    BY <1>2, <2>1, <2>2, SameErrors DEF A!End, A!IsDone, IsDone
  <2>4. QED
    BY <2>3 DEF A!Next
<1>3. QED
  BY <1>1, <1>2

\* A step that leaves the context alone signals, or changes nothing.
LEMMA QuietIsSignal ==
    ASSUME TypeOK, UNCHANGED cause, stopUsed' = stopUsed \/ stopUsed' = TRUE
    PROVE  [A!Next]_(A!vars)
BY DEF TypeOK, A!Next, A!Signal, A!vars

\* mustWorker implements the safety part of Attempt: it ends once, with the
\* first cause, and times out only after its task was told to stop.
THEOREM AttemptSafety == Spec => A!Init /\ [][A!Next]_(A!vars)
<1>1. Init => A!Init
  BY DEF Init, A!Init, A!Nil, Nil
<1>2. TypeOK /\ EnforcerSignalled /\ [Next]_vars => [A!Next]_(A!vars)
  <2> SUFFICES ASSUME TypeOK, EnforcerSignalled, [Next]_vars PROVE [A!Next]_(A!vars)
    OBVIOUS
  <2>0. exit # <<>> => exit[1] \in ExitReasons
    BY DEF TypeOK
  <2>1. CASE RunExitsEarly
    BY <2>0, <2>1, ResultFacts, CancelIsEnd DEF RunExitsEarly
  <2>2. CASE RunExits
    BY <2>0, <2>2, ResultFacts, CancelIsEnd DEF RunExits
  <2>3. CASE RunTimesOut
    BY <2>3, NamedCauses, CancelIsEnd DEF RunTimesOut
  <2>4. CASE StartTimerFires
    BY <2>4, NamedCauses, CancelIsEnd DEF StartTimerFires
  <2>5. CASE MemoryGuardFires
    BY <2>5, NamedCauses, CancelIsEnd DEF MemoryGuardFires
  <2>6. CASE Kill
    BY <2>6, NamedCauses, CancelIsEnd DEF Kill
  <2>7. ASSUME NEW e \in ParentCauses, ParentCancel(e) PROVE [A!Next]_(A!vars)
    BY <2>7, ParentCausesAssumption, CancelIsEnd DEF ParentCancel
  <2>8. ASSUME NEW c \in Callers, StopTimesOut(c) PROVE [A!Next]_(A!vars)
    BY <2>8, NamedCauses, CancelIsEnd DEF StopTimesOut, EnforcerSignalled
  <2>9. ASSUME NEW c \in Callers, StopCheck(c) \/ StopMark(c) \/ StopSwap(c) \/ StopWaited(c)
        PROVE  [A!Next]_(A!vars)
    BY <2>9, QuietIsSignal DEF StopCheck, StopMark, StopSwap, StopWaited
  <2>10. CASE \/ RunBegin \/ LaunchReturns \/ RunUp \/ RunDone
              \/ StartTimerEnds \/ MemoryGuardEnds \/ After \/ UNCHANGED vars
              \/ \E e \in ExitReasons : TaskExits(e)
    BY <2>10, QuietIsSignal
       DEF RunBegin, LaunchReturns, RunUp, RunDone, StartTimerEnds, MemoryGuardEnds,
           After, AfterMark, AfterSwap, TaskExits, vars
  <2>11. QED
    BY <2>1, <2>2, <2>3, <2>4, <2>5, <2>6, <2>7, <2>8, <2>9, <2>10
       DEF Next, Run, RunReturns, Timers, Environment, Stop
<1>3. QED
  BY <1>1, <1>2, TypeCorrect, EnforcerInv, PTL DEF Spec

\* An end is for good.
LEMMA StaysDone == TypeOK /\ [Next]_vars => (IsDone(cause) => IsDone(cause'))
<1> SUFFICES ASSUME TypeOK, [Next]_vars, IsDone(cause) PROVE IsDone(cause')
  OBVIOUS
<1>1. \/ UNCHANGED cause
      \/ \E e : cause' = Cancel(cause, e)
  BY DEF Next, vars, Run, RunBegin, LaunchReturns, RunUp, RunReturns, RunDone, RunExitsEarly,
     RunExits, RunTimesOut, Timers, StartTimerFires, StartTimerEnds, MemoryGuardFires,
     MemoryGuardEnds, After, AfterMark, AfterSwap, Environment, TaskExits, Kill, ParentCancel,
     Stop, StopCheck, StopMark, StopSwap, StopTimesOut, StopWaited
<1>2. QED
  BY <1>1 DEF Cancel, IsDone


-----------------------------------------------------------------------------
(* What must happen.  The provers know nothing of ENABLED: that the guards
   enable the steps is the hypothesis NothingBlocks, which TLC checks as an
   invariant; what the fairness makes of it, round by round, is proved. *)

\* Once the context has ended, whoever ended it, Run leaves its selects and
\* returns (work_must.go:157-185).
THEOREM RunIsEnded == Spec /\ []NothingBlocks => DoneEndsRun
<1> DEFINE S == IsDone(cause) /\ run = "started"
           U == IsDone(cause) /\ run = "up"
           R == run = "returned"
<1>1. IInv /\ [Next]_vars => 
         /\ S => S' \/ U' \/ R'
         /\ U => U' \/ R'
  <2>1. IInv /\ [Next]_vars =>
         /\ run = "started" => run' \in {"started", "up", "returned"}
         /\ run = "up" => run' \in {"up", "returned"}
    BY DEF Next, vars, Run, RunBegin, LaunchReturns, RunUp, RunReturns, RunDone, RunExitsEarly,
     RunExits, RunTimesOut, Return, Timers, StartTimerFires, StartTimerEnds, MemoryGuardFires,
     MemoryGuardEnds, After, AfterMark, AfterSwap, Environment, TaskExits, Kill, ParentCancel,
     Stop, StopCheck, StopMark, StopSwap, StopTimesOut, StopWaited
  <2> QED
    BY <2>1, StaysDone DEF IInv
<1>3. IInv /\ [Next]_vars /\ <<RunUp \/ RunReturns>>_vars => (S => U' \/ R') /\ (U => R')
  <2>1. <<RunUp \/ RunReturns>>_vars =>
         /\ run = "started" => run' \in {"up", "returned"}
         /\ run = "up" => run' = "returned"
     BY DEF vars, RunUp, RunReturns, RunDone, RunExitsEarly, RunExits, RunTimesOut, Return
  <2> QED
    BY <2>1, StaysDone DEF IInv
<1>4. NothingBlocks /\ (S \/ U) => ENABLED <<RunUp \/ RunReturns>>_vars
  BY DEF NothingBlocks
<1>6. IsDone(cause) /\ run \in {"started", "up"} => S \/ U
  OBVIOUS
<1> HIDE DEF S, U, R
<1>7. Spec /\ []NothingBlocks => [](IsDone(cause) /\ run \in {"started", "up"} => <>R)
  BY <1>1, <1>3, <1>4, <1>6, Invariance, PTL DEF Spec, Fairness
<1>5. QED
  BY <1>7, PTL DEF Spec, Fairness, DoneEndsRun, R

\* Once the context has ended, the start timer, the memory guard and the
\* AfterFunc callback end, however the task hangs (work_must.go:103-155).
THEOREM GoroutinesEnd == Spec /\ []NothingBlocks => GoroutinesLeave
<1> DEFINE New == run = "new"
           Done == IsDone(cause)
           T == timer
           G == guard
           A0 == after = "armed"
           A1 == after = "marked"
           A2 == after = "returned"
<1>1. TypeOK /\ [Next]_vars =>
                              /\ Done => Done'
                              /\ ~New => ~New'
                              /\ (~New /\ ~T => ~T')
                              /\ (~New /\ ~G => ~G')
                              /\ A1 => A1' \/ A2'
                              /\ A2 => A2'
  <2>1. TypeOK /\ [Next]_vars =>
                                /\ ~New => ~New'
                                /\ (~New /\ ~T => ~T')
                                /\ (~New /\ ~G => ~G')
                                /\ A1 => A1' \/ A2'
                                /\ A2 => A2'
    BY DEF Next, vars, Run, RunBegin, LaunchReturns, RunUp, RunReturns, RunDone, RunExitsEarly,
         RunExits, RunTimesOut, Return, Timers, StartTimerFires, StartTimerEnds, MemoryGuardFires,
         MemoryGuardEnds, After, AfterMark, AfterSwap, Environment, TaskExits, Kill, ParentCancel,
         Stop, StopCheck, StopMark, StopSwap, StopTimesOut, StopWaited
  <2>2. QED
    BY <2>1, StaysDone
<1>2. /\ <<RunBegin>>_vars => ~New'
      /\ <<StartTimerFires \/ StartTimerEnds>>_vars => ~T'
      /\ <<MemoryGuardEnds>>_vars => ~G'
      /\ <<After>>_vars => (A0 => A1') /\ (A1 => A2')
  BY DEF RunBegin, StartTimerFires, StartTimerEnds, MemoryGuardEnds, After, AfterMark, AfterSwap
<1>3. NothingBlocks => /\ New => ENABLED <<RunBegin>>_vars
                       /\ Done /\ T => ENABLED <<StartTimerFires \/ StartTimerEnds>>_vars
                       /\ Done /\ G => ENABLED <<MemoryGuardEnds>>_vars
                       /\ Done /\ (A0 \/ A1) => ENABLED <<After>>_vars
  BY DEF NothingBlocks
<1>4. TypeOK => A0 \/ A1 \/ A2
  BY DEF TypeOK
<1>5. IsDone(cause) <=> Done
  OBVIOUS
<1>6. ~T /\ ~G /\ A2 <=> ~timer /\ ~guard /\ after = "returned"
  OBVIOUS
<1> HIDE DEF New, Done, T, G, A0, A1, A2
<1>7. Spec /\ []NothingBlocks => [](Done => <>[](Done /\ ~New))
  BY <1>1, <1>2, <1>3, TypeCorrect, PTL DEF Spec, Fairness
<1>8. Spec /\ []NothingBlocks => []([](Done /\ ~New) => <>[]~T)
  BY <1>1, <1>2, <1>3, TypeCorrect, PTL DEF Spec, Fairness
<1>9. Spec /\ []NothingBlocks => []([](Done /\ ~New) => <>[]~G)
  BY <1>1, <1>2, <1>3, TypeCorrect, PTL DEF Spec, Fairness
<1>10. Spec /\ []NothingBlocks => []([]Done => <>[]A2)
  BY <1>1, <1>2, <1>3, <1>4, TypeCorrect, PTL DEF Spec, Fairness
<1>11. QED
  BY <1>5, <1>6, <1>7, <1>8, <1>9, <1>10, PTL DEF GoroutinesLeave

\* The end of the context ends everything that belongs to the attempt.
THEOREM AttemptLeavesNothing == Spec /\ []NothingBlocks => DoneEndsAll
BY RunIsEnded, GoroutinesEnd, PTL DEF DoneEndsAll

\* A stop that was signalled is enforced by the caller that signalled it, which
\* ends the attempt after the stop timeout (work_must.go:90-110).
LEMMA EnforcedEnds ==
    Spec /\ []Fairness /\ []NothingBlocks => [](stopUsed /\ ~IsDone(cause) => <>IsDone(cause))
<1> DEFINE Done == IsDone(cause)
           Q == <>Done
           Call(c) == StopMark(c) \/ StopSwap(c) \/ StopTimesOut(c) \/ StopWaited(c)
           F(c) == WF_vars(Call(c))
           E(c) == ENABLED <<Call(c)>>_vars
<1> SUFFICES ASSUME [][Next]_vars, []IInv, []Fairness, []NothingBlocks
             PROVE  [](stopUsed /\ ~IsDone(cause) => Q)
  BY Invariance, PTL DEF Spec
<1>1. (\E c \in Callers : pc[c] = "enforce") => Q
  <2> SUFFICES ASSUME NEW q \in Callers PROVE pc[q] = "enforce" => Q
    <3> HIDE DEF Q
    <3> QED OBVIOUS
  <2> DEFINE P == pc[q] = "enforce"
  <2>1. F(q)
    <3>1. \A c \in Callers : F(c)
      BY PTL DEF Fairness
    <3>2. QED
      <4> HIDE DEF F
      <4> QED BY <3>1
  <2>2. E(q) \/ ~P
    <3>1. \A c \in Callers : pc[c] = "enforce" => E(c)
      BY PTL DEF NothingBlocks
    <3>2. QED
      <4> HIDE DEF E
      <4> QED BY <3>1
  <2>3. TypeOK /\ P /\ [Next]_vars => P' \/ Done'
    BY CancelFacts, NamedCauses
       DEF TypeOK, Next, vars, Run, RunBegin, LaunchReturns, RunUp, RunReturns, RunDone, RunExitsEarly,
         RunExits, RunTimesOut, Return, Timers, StartTimerFires, StartTimerEnds, MemoryGuardFires,
         MemoryGuardEnds, After, AfterMark, AfterSwap, Environment, TaskExits, Kill, ParentCancel,
         Stop, StopCheck, StopMark, StopSwap, StopTimesOut, StopWaited
  <2>4. TypeOK /\ P /\ [Next]_vars /\ <<Call(q)>>_vars => Done'
    <3>1. TypeOK /\ P /\ Call(q) => IsDone(cause')
      BY CancelFacts, NamedCauses DEF TypeOK, StopMark, StopSwap, StopTimesOut, StopWaited
    <3>2. QED
      BY <3>1
  <2>5. IInv => TypeOK
    BY DEF IInv
  <2> HIDE DEF P, Done
  <2>6. P => <>Done
    BY <2>1, <2>2, <2>3, <2>4, <2>5, PTL
  <2>7. QED
    BY <2>6 DEF P
<1>2. IInv /\ stopUsed /\ ~IsDone(cause) => \E c \in Callers : pc[c] = "enforce"
  BY DEF IInv, StopIsEnforced
<1>3. QED
  BY <1>1, <1>2, PTL

\* mustWorker implements Attempt, promises and all: a stop that was signalled
\* ends it, and one that ended for any reason tells its task to stop.  Its
\* fairness is that of Spec, for every caller at every time.
THEOREM MustWorkerIsAttempt ==
    Spec /\ []Fairness /\ []NothingBlocks => ImplementsAttempt
<1>1. Spec /\ []Fairness /\ []NothingBlocks => [](stopUsed /\ ~IsDone(cause) => <>IsDone(cause))
  BY EnforcedEnds
<1>2. Spec /\ []NothingBlocks => [](IsDone(cause) => <>[](after = "returned"))
  <2>1. ~timer /\ ~guard /\ after = "returned" => after = "returned"
    OBVIOUS
  <2>2. QED
    BY <2>1, GoroutinesEnd, PTL DEF GoroutinesLeave
<1>3. Spec => [](after = "returned" => stopUsed)
  <2>1. Init => (after = "returned" => stopUsed)
    BY DEF Init
  <2>2. (after = "returned" => stopUsed) /\ [Next]_vars => (after = "returned" => stopUsed)'
    BY DEF Next, vars, Run, RunBegin, LaunchReturns, RunUp, RunReturns, RunDone, RunExitsEarly, RunExits,
           RunTimesOut, Return, Timers, StartTimerFires, StartTimerEnds, MemoryGuardFires,
           MemoryGuardEnds, After, AfterMark, AfterSwap, Environment, TaskExits, Kill, ParentCancel,
           Stop, StopCheck, StopMark, StopSwap, StopTimesOut, StopWaited
  <2>3. QED
    BY <2>1, <2>2, PTL DEF Spec
<1> DEFINE E1 == ENABLED <<stopUsed /\ A!End>>_(A!vars)
           E2 == ENABLED <<A!IsDone(cause) /\ A!Signal>>_(A!vars)
<1>4. NothingBlocks => (E1 => stopUsed /\ ~IsDone(cause)) /\ (E2 => IsDone(cause) /\ ~stopUsed)
  BY DEF NothingBlocks
<1>5. Spec /\ []Fairness /\ []NothingBlocks => WF_(A!vars)(stopUsed /\ A!End)
  BY <1>1, <1>4, PTL
<1>6. Spec /\ []NothingBlocks => WF_(A!vars)(A!IsDone(cause) /\ A!Signal)
  BY <1>2, <1>3, <1>4, PTL
<1>7. QED
  BY <1>5, <1>6, AttemptSafety, PTL DEF ImplementsAttempt, A!Spec
=============================================================================

--------------------------- MODULE TaskRunProofs ---------------------------
(***************************************************************************)
(* What is proved of pkg/task/task_run.go and task_pipe.go: of pipes, for  *)
(* any number of subtasks, any exit reasons and any causes of the parent,  *)
(* and of the processes behind a proxy, for any number of attempts.        *)
(***************************************************************************)
EXTENDS Pipe, ProcessRunner, FiniteSetTheorems, TLAPS

(***************************************************************************)
(* Pipes.  The counter is the cardinality of the subtasks that have not    *)
(* been counted, so the helper that sees zero knows that every result has  *)
(* been received; and a result that ends the pipe has ended it before it   *)
(* was counted.                                                            *)
(***************************************************************************)
Received(i) == helper[i] \in {"count", "last", "counted"}

\* Whether the result of a subtask ends the pipe at once.
Decisive(i) == mode = "race" \/ (NeedsAll /\ ~Ended(i, Nil))

Counting == left = Cardinality(Uncounted)

Results ==
    \A i \in Subtasks :
        /\ Received(i) => exit[i] # <<>>
        /\ Received(i) /\ Decisive(i) => IsDone(ctx)
        /\ helper[i] = "left" => IsDone(ctx)
        /\ helper[i] = "last" => left = 0

SomebodyEnds == left = 0 => IsDone(ctx) \/ \E i \in Subtasks : helper[i] = "last"

AllAreNeeded ==
    NeedsAll /\ ctx = ErrOk => parent = ErrOk \/ \A i \in Subtasks : Ended(i, Nil)

RaceIsWon ==
    mode = "race" /\ ~IsDone(parent) /\ IsDone(ctx) =>
        \E i \in Subtasks : exit[i] # <<>> /\ ctx = OrOk(exit[i][1])

AnyIsEnough ==
    mode = "any" /\ ~IsDone(parent) /\ IsDone(ctx) =>
        /\ ctx = ErrOk
        /\ \/ \E i \in Subtasks : Ended(i, Nil)
           \/ \A i \in Subtasks : exit[i] # <<>>

Returned == loop = "returned" => IsDone(ctx) /\ ret = Verdict

Order ==
    /\ \A i \in Subtasks : helper[i] = "none" => i >= next \/ IsDone(ctx)
    /\ \A i \in Subtasks : i >= next => helper[i] = "none"
    /\ loop \in {"serialize", "wait", "spawn"} => next <= N
    /\ mode = "ordered" /\ loop = "spawn" => HelpersDone

IInv ==
    /\ TypeOK /\ Counting /\ Results /\ SomebodyEnds
    /\ AllAreNeeded /\ RaceIsWon /\ AnyIsEnough /\ Returned
    /\ Order /\ OneAfterAnother
-----------------------------------------------------------------------------
(* Lemmas *)

\* The first cancellation decides the cause, and nil is success (ok.go:28-33).
LEMMA CancelFacts ==
    ASSUME NEW c \in Errors \cup {Nil}, NEW e \in Errors \cup {Nil}
    PROVE  /\ Cancel(c, e) \in Errors
           /\ IsDone(Cancel(c, e))
           /\ IsDone(c) => Cancel(c, e) = c
           /\ ~IsDone(c) => Cancel(c, e) = OrOk(e)
           /\ OrOk(e) = ErrOk <=> e \in {Nil, ErrOk}
           /\ Nil \notin Errors /\ ErrOk \in Errors
BY DEF Cancel, OrOk, IsDone, Errors, Statuses, AliveStatuses, ErrorStatuses, Nil, ErrOk

\* The subtasks that have not been counted are a finite set
\* (task_pipe.go:61, left.Add).
LEMMA UncountedIsFinite == IsFiniteSet(Uncounted) /\ Uncounted \subseteq Subtasks
<1>1. IsFiniteSet(Subtasks)
  BY FS_Interval, NAssumption DEF Subtasks
<1>2. Uncounted \subseteq Subtasks
  BY DEF Uncounted
<1>3. QED
  BY <1>1, <1>2, FS_Subset

\* A counter at zero means that every result has been received.
LEMMA ZeroMeansAll ==
    ASSUME Counting, left = 0
    PROVE  \A i \in Subtasks : helper[i] \in {"last", "counted"}
<1>1. Uncounted = {}
  BY UncountedIsFinite, FS_EmptySet DEF Counting
<1>2. QED
  BY <1>1 DEF Uncounted

\* A pipe starts in the invariant (task_pipe.go:43-45).
LEMMA InitInv == Init => IInv
<1> SUFFICES ASSUME Init PROVE IInv
  OBVIOUS
<1>1. Nil \notin Errors
  BY CancelFacts
<1>2. TypeOK
  BY NAssumption DEF Init, TypeOK, LoopPCs, HelperPCs
<1>3. Counting
  <2>1. Uncounted = 1..N
    BY DEF Init, Uncounted, Subtasks
  <2>2. Cardinality(1..N) = N
    BY FS_Interval, NAssumption
  <2>3. QED
    BY <2>1, <2>2 DEF Init, Counting
<1>4. Results /\ AllAreNeeded /\ RaceIsWon /\ AnyIsEnough /\ Returned /\ OneAfterAnother
  BY DEF Init, Results, Received, AllAreNeeded, RaceIsWon, AnyIsEnough, Returned,
         OneAfterAnother, IsDone, Nil, ErrOk
<1>5. Order /\ SomebodyEnds
  BY NAssumption DEF Init, Order, SomebodyEnds, Subtasks
<1>6. QED
  BY <1>2, <1>3, <1>4, <1>5 DEF IInv

-----------------------------------------------------------------------------
(* Steps *)

\* What a result does to the context is one of the errors, or nothing.
LEMMA EndFacts ==
    ASSUME NEW c \in Errors \cup {Nil}, NEW e \in ExitReasons, mode \in AllModes \ {"cluster"}
    PROVE  End(c, e) \in {c, Cancel(c, e)}
BY DEF End, AllModes

\* Types are preserved by every step but Count, whose bound on the counter
\* needs the subtasks that are left.
LEMMA CountBounds ==
    ASSUME TypeOK, Counting, NEW i \in Subtasks, Count(i)
    PROVE  /\ left' \in 0..N
           /\ Uncounted' = Uncounted \ {i} /\ i \in Uncounted
           /\ Counting'
<1>1. i \in Uncounted
  BY DEF Count, Uncounted
<1>2. Uncounted' = Uncounted \ {i}
  BY DEF Count, Uncounted, TypeOK
<1>3. Cardinality(Uncounted \ {i}) = left - 1
  BY <1>1, UncountedIsFinite, FS_RemoveElement DEF Counting
<1>4. left # 0
  BY <1>1, ZeroMeansAll DEF Count
<1>5. QED
  BY <1>1, <1>2, <1>3, <1>4, NAssumption DEF Count, TypeOK, Counting

\* Nothing is counted by a step that leaves the counter alone.
LEMMA CountingKept ==
    ASSUME Counting, left' = left,
           \A i \in Subtasks :
             helper'[i] \in {"last", "counted"} <=> helper[i] \in {"last", "counted"}
    PROVE  Counting'
BY DEF Counting, Uncounted

\* The order is kept by steps that spawn no helper and lose no result.
LEMMA OrderKept ==
    ASSUME OneAfterAnother, mode' = mode,
           \A j \in Subtasks :
             /\ helper'[j] # "none" => helper[j] # "none"
             /\ helper[j] = "counted" => helper'[j] = "counted"
             /\ exit[j] # <<>> => exit'[j] = exit[j]
    PROVE  OneAfterAnother'
<1> SUFFICES ASSUME mode = "ordered", NEW j \in Subtasks, helper'[j] # "none",
                    NEW i \in 1..(j - 1)
             PROVE  helper'[i] = "counted" /\ Ended(i, Nil)'
  BY DEF OneAfterAnother
<1>1. i \in Subtasks
  BY NAssumption DEF Subtasks
<1>2. helper[i] = "counted" /\ exit[i] = <<Nil>>
  BY DEF OneAfterAnother, Ended
<1>3. QED
  BY <1>1, <1>2 DEF Ended

\* The loop between two subtasks (task_pipe.go:45-51).
LEMMA LoopStep == IInv /\ (LoopCheck \/ LoopSerialize \/ LoopWait) => IInv'
<1> SUFFICES ASSUME IInv, LoopCheck \/ LoopSerialize \/ LoopWait PROVE IInv'
  OBVIOUS
<1>1. /\ UNCHANGED <<mode, ctx, left, next, helper, exit, ret, parent>>
      /\ loop' \in {"serialize", "wait", "spawn", "await"}
      /\ loop' \in {"serialize", "wait", "spawn"} => next <= N
      /\ loop' = "spawn" => mode = "cluster" \/ (mode # "ordered") \/ HelpersDone
  BY NAssumption DEF LoopCheck, LoopSerialize, LoopWait, IInv, Order, TypeOK, Serialize
<1>2. TypeOK'
  BY <1>1 DEF IInv, TypeOK, LoopPCs
<1>3. Counting'
  BY <1>1, CountingKept DEF IInv
<1>4. Results' /\ SomebodyEnds'
  BY <1>1 DEF IInv, Results, Received, Decisive, NeedsAll, Ended, SomebodyEnds
<1>5. AllAreNeeded' /\ RaceIsWon' /\ AnyIsEnough' /\ OneAfterAnother' /\ Returned'
  BY <1>1 DEF IInv, AllAreNeeded, NeedsAll, RaceIsWon, AnyIsEnough, OneAfterAnother,
              Returned, Ended
<1>6. Order'
  BY <1>1 DEF IInv, Order, HelpersDone
<1>7. QED
  BY <1>2, <1>3, <1>4, <1>5, <1>6 DEF IInv

\* The helper of a subtask is spawned (task_pipe.go:52-54): what an ordered pipe
\* has waited for has ended well, or its context would be done.
LEMMA SpawnStep == IInv /\ LoopSpawn => IInv'
<1> SUFFICES ASSUME IInv, LoopSpawn PROVE IInv'
  OBVIOUS
<1> USE DEF LoopSpawn
<1>1. next \in Subtasks /\ next + 1 \in 1..(N + 1)
  BY NAssumption DEF IInv, TypeOK, Order, Subtasks
<1>2. helper[next] = "none"
  BY <1>1 DEF IInv, Order, TypeOK
<1>3. \A i \in Subtasks : helper'[i] # helper[i] => i = next /\ helper'[i] = "launch"
  BY <1>1 DEF IInv, TypeOK
<1>4. TypeOK'
  BY <1>1 DEF IInv, TypeOK, LoopPCs, HelperPCs
<1>5. Counting'
  BY <1>2, <1>3, CountingKept DEF IInv
<1>6. Results'
  BY <1>2, <1>3 DEF IInv, Results, Received, Decisive, NeedsAll, Ended
<1>7. SomebodyEnds' /\ AllAreNeeded' /\ RaceIsWon' /\ AnyIsEnough' /\ Returned'
  BY <1>2, <1>3 DEF IInv, SomebodyEnds, AllAreNeeded, NeedsAll, RaceIsWon, AnyIsEnough,
              Returned, Ended
<1>8. Order'
  <2>1. \A i \in Subtasks : i >= next + 1 => i >= next /\ i # next
    BY <1>1 DEF Subtasks
  <2>2. \A i \in Subtasks : helper'[i] = "none" => i >= next + 1 \/ IsDone(ctx)
    <3> SUFFICES ASSUME NEW i \in Subtasks, helper'[i] = "none", ~IsDone(ctx)
                 PROVE  i >= next + 1
      OBVIOUS
    <3>1. helper[i] = "none" /\ i # next
      BY <1>1, <1>2, <1>3 DEF IInv, TypeOK
    <3>2. i >= next
      BY <3>1 DEF IInv, Order
    <3>3. QED
      BY <3>1, <3>2, <1>1 DEF Subtasks
  <2>3. \A i \in Subtasks : i >= next + 1 => helper'[i] = "none"
    BY <2>1, <1>3 DEF IInv, Order
  <2>4. QED
    BY <2>2, <2>3 DEF Order, IInv
<1>9. OneAfterAnother'
  <2> SUFFICES ASSUME mode = "ordered", NEW j \in Subtasks, helper'[j] # "none",
                      NEW i \in 1..(j - 1)
               PROVE  helper'[i] = "counted" /\ Ended(i, Nil)
    BY DEF OneAfterAnother, Ended
  <2>1. i \in Subtasks /\ i < j
    BY NAssumption DEF Subtasks
  <2>2. CASE helper[j] # "none"
    BY <2>1, <2>2, <1>2, <1>3 DEF IInv, OneAfterAnother
  <2>3. CASE helper[j] = "none"
    <3>1. j = next /\ ~IsDone(ctx)
      BY <1>3, <2>3
    <3>2. helper[i] # "none"
      BY <2>1, <3>1 DEF IInv, Order, Subtasks
    <3>3. helper[i] = "counted"
      BY <2>1, <3>1, <3>2 DEF IInv, Order, HelpersDone, Results
    <3>4. Ended(i, Nil)
      BY <2>1, <3>1, <3>3 DEF IInv, Results, Received, Decisive, NeedsAll
    <3>5. helper'[i] = "counted"
      BY <2>1, <3>1, <3>3, <1>3 DEF Subtasks
    <3>6. QED
      BY <3>4, <3>5
  <2>4. QED
    BY <2>2, <2>3
<1>10. QED
  BY <1>4, <1>5, <1>6, <1>7, <1>8, <1>9 DEF IInv

\* The loop returns the cause of a context that is done (task_pipe.go:68-75).
LEMMA ReturnStep == IInv /\ LoopReturn => IInv'
<1> SUFFICES ASSUME IInv, LoopReturn PROVE IInv'
  OBVIOUS
<1> USE DEF LoopReturn
<1>1. TypeOK'
  <2>1. Verdict \in Errors \cup {Nil}
    BY DEF Verdict, Cause, NotOk, IInv, TypeOK, Errors
  <2>2. QED
    BY <2>1 DEF IInv, TypeOK, LoopPCs
<1>2. Counting'
  BY CountingKept DEF IInv
<1>3. Results' /\ SomebodyEnds' /\ AllAreNeeded' /\ RaceIsWon' /\ AnyIsEnough'
  BY DEF IInv, Results, Received, Decisive, NeedsAll, Ended, SomebodyEnds, AllAreNeeded,
         RaceIsWon, AnyIsEnough
<1>4. Returned' /\ Order' /\ OneAfterAnother'
  BY DEF IInv, Returned, Verdict, Order, OneAfterAnother, Ended
<1>5. QED
  BY <1>1, <1>2, <1>3, <1>4 DEF IInv

\* A helper launches its subtask, or leaves with the context
\* (task_pipe.go:56-59).
LEMMA LaunchStep ==
    ASSUME IInv, NEW i \in Subtasks, Launch(i) \/ HelperLeaves(i)
    PROVE  IInv'
<1>1. /\ UNCHANGED <<mode, ctx, left, loop, next, exit, ret, parent>>
      /\ helper[i] \in {"launch", "select"}
      /\ helper'[i] \in {"select", "left"}
      /\ helper'[i] = "left" => IsDone(ctx)
      /\ \A j \in Subtasks \ {i} : helper'[j] = helper[j]
      /\ helper' \in [Subtasks -> HelperPCs]
  BY DEF Launch, HelperLeaves, IInv, TypeOK, HelperPCs
<1>2. TypeOK'
  BY <1>1 DEF IInv, TypeOK
<1>3. Counting'
  BY <1>1, CountingKept DEF IInv
<1>4. Results'
  BY <1>1 DEF IInv, Results, Received, Decisive, NeedsAll, Ended
<1>5. SomebodyEnds'
  BY <1>1 DEF IInv, SomebodyEnds
<1>6. AllAreNeeded' /\ RaceIsWon' /\ AnyIsEnough' /\ Returned'
  BY <1>1 DEF IInv, AllAreNeeded, NeedsAll, RaceIsWon, AnyIsEnough, Returned, Ended, Verdict
<1>7. Order'
  BY <1>1 DEF IInv, Order, HelpersDone
<1>8. OneAfterAnother'
  BY <1>1, OrderKept DEF IInv
<1>9. QED
  BY <1>2, <1>3, <1>4, <1>5, <1>6, <1>7, <1>8 DEF IInv

\* A result ends the pipe, if it is to end it, in the step in which it is
\* received (task_pipe.go:59-60, task_run.go:207-209).
LEMMA ReceiveStep ==
    ASSUME IInv, NEW i \in Subtasks, HelperReceives(i) \/ ClusterReceives(i)
    PROVE  IInv'
<1> DEFINE e == exit[i][1]
<1>1. /\ UNCHANGED <<mode, left, loop, next, exit, ret, parent>>
      /\ helper[i] = "select" /\ exit[i] = <<e>> /\ e \in ExitReasons
      /\ helper'[i] \in {"count", "left"}
      /\ \A j \in Subtasks \ {i} : helper'[j] = helper[j]
      /\ helper' \in [Subtasks -> HelperPCs]
  BY DEF HelperReceives, ClusterReceives, IInv, TypeOK, HelperPCs
<1>2. e \in Errors \cup {Nil} /\ e # ErrOk
  BY <1>1, ExitReasonsAssumption, CancelFacts DEF Nil, ErrOk
<1>3. mode \in AllModes /\ ctx \in Errors \cup {Nil}
  BY ModesAssumption DEF IInv, TypeOK
<1>4. /\ ctx' \in {ctx, Cancel(ctx, e)}
      /\ Decisive(i) => ctx' = Cancel(ctx, e)
      /\ helper'[i] = "left" => ctx' = Cancel(ctx, e)
      /\ ctx' # ctx => \/ mode = "race"
                       \/ mode = "any" /\ e = Nil
                       \/ NeedsAll /\ e # Nil
  BY <1>1, <1>3 DEF HelperReceives, ClusterReceives, End, Decisive, NeedsAll, Ended, AllModes
<1>5. /\ IsDone(ctx) => ctx' = ctx
      /\ ctx' = Cancel(ctx, e) => IsDone(ctx')
      /\ ctx' # ctx => ~IsDone(ctx) /\ ctx' = OrOk(e)
      /\ ctx' \in Errors \cup {Nil}
  BY <1>2, <1>3, <1>4, CancelFacts
<1>6. TypeOK'
  BY <1>1, <1>5 DEF IInv, TypeOK
<1>7. Counting'
  BY <1>1, CountingKept DEF IInv
<1>8. Results'
  BY <1>1, <1>4, <1>5 DEF IInv, Results, Received, Decisive, NeedsAll, Ended
<1>9. SomebodyEnds'
  BY <1>1, <1>5 DEF IInv, SomebodyEnds
<1>10. AllAreNeeded'
  <2>1. ctx' # ctx /\ NeedsAll => ctx' # ErrOk
    BY <1>2, <1>4, <1>5, CancelFacts DEF NeedsAll
  <2>2. QED
    BY <1>1, <2>1 DEF IInv, AllAreNeeded, NeedsAll, Ended
<1>11. RaceIsWon'
  BY <1>1, <1>5 DEF IInv, RaceIsWon
<1>12. AnyIsEnough'
  BY <1>1, <1>4, <1>5, CancelFacts DEF IInv, AnyIsEnough, Ended, NeedsAll, OrOk
<1>13. Returned'
  BY <1>1, <1>5 DEF IInv, Returned, Verdict
<1>14. Order'
  BY <1>1, <1>5 DEF IInv, Order, HelpersDone
<1>15. OneAfterAnother'
  BY <1>1, OrderKept DEF IInv
<1>16. QED
  BY <1>6, <1>7, <1>8, <1>9, <1>10, <1>11, <1>12, <1>13, <1>14, <1>15 DEF IInv

\* The helper that counts down to zero has seen every result
\* (task_pipe.go:61).
LEMMA CountStep ==
    ASSUME IInv, NEW i \in Subtasks, Count(i)
    PROVE  IInv'
<1>1. /\ UNCHANGED <<mode, ctx, loop, next, exit, ret, parent>>
      /\ helper[i] = "count"
      /\ helper'[i] = IF left = 1 THEN "last" ELSE "counted"
      /\ left' = left - 1
      /\ \A j \in Subtasks \ {i} : helper'[j] = helper[j]
      /\ helper' \in [Subtasks -> HelperPCs]
  BY DEF Count, IInv, TypeOK, HelperPCs
<1>2. left' \in 0..N /\ Counting'
  BY CountBounds DEF IInv
<1>3. left \in 0..N /\ left # 0
  BY <1>1, <1>2, NAssumption DEF IInv, TypeOK
<1>4. TypeOK'
  BY <1>1, <1>2 DEF IInv, TypeOK
<1>5. Results'
  BY <1>1, <1>3 DEF IInv, Results, Received, Decisive, NeedsAll, Ended
<1>6. SomebodyEnds'
  BY <1>1, <1>3 DEF SomebodyEnds
<1>7. AllAreNeeded' /\ RaceIsWon' /\ AnyIsEnough' /\ Returned'
  BY <1>1 DEF IInv, AllAreNeeded, NeedsAll, RaceIsWon, AnyIsEnough, Returned, Ended, Verdict
<1>8. Order'
  BY <1>1 DEF IInv, Order, HelpersDone
<1>9. OneAfterAnother'
  BY <1>1, OrderKept DEF IInv
<1>10. QED
  BY <1>2, <1>4, <1>5, <1>6, <1>7, <1>8, <1>9 DEF IInv

\* ... and ends the pipe with success unless one of them was decisive
\* (task_pipe.go:62).
LEMMA LastStep ==
    ASSUME IInv, NEW i \in Subtasks, Last(i)
    PROVE  IInv'
<1>1. /\ UNCHANGED <<mode, left, loop, next, exit, ret, parent>>
      /\ helper[i] = "last" /\ helper'[i] = "counted"
      /\ ctx' = Cancel(ctx, Nil)
      /\ \A j \in Subtasks \ {i} : helper'[j] = helper[j]
      /\ helper' \in [Subtasks -> HelperPCs]
  BY DEF Last, IInv, TypeOK, HelperPCs
<1>2. /\ ctx' \in Errors /\ IsDone(ctx')
      /\ IsDone(ctx) => ctx' = ctx
      /\ ~IsDone(ctx) => ctx' = ErrOk
  BY <1>1, CancelFacts DEF IInv, TypeOK
<1>3. \A j \in Subtasks : Received(j) /\ exit[j] # <<>>
  <2>1. left = 0
    BY <1>1 DEF IInv, Results
  <2>2. QED
    BY <2>1, ZeroMeansAll DEF IInv, Results, Received
<1>4. ~IsDone(ctx) => \A j \in Subtasks : ~Decisive(j)
  BY <1>3 DEF IInv, Results
<1>5. TypeOK'
  BY <1>1, <1>2 DEF IInv, TypeOK
<1>6. Counting'
  BY <1>1, CountingKept DEF IInv
<1>7. Results' /\ SomebodyEnds'
  BY <1>1, <1>2 DEF IInv, Results, Received, Decisive, NeedsAll, Ended, SomebodyEnds
<1>8. AllAreNeeded'
  BY <1>1, <1>2, <1>4 DEF IInv, AllAreNeeded, NeedsAll, Decisive, Ended
<1>9. RaceIsWon'
  BY <1>1, <1>2, <1>4, NAssumption DEF IInv, RaceIsWon, Decisive
<1>10. AnyIsEnough'
  BY <1>1, <1>2, <1>3 DEF IInv, AnyIsEnough, Ended
<1>11. Returned' /\ Order'
  BY <1>1, <1>2 DEF IInv, Returned, Verdict, Order, HelpersDone
<1>12. OneAfterAnother'
  BY <1>1, OrderKept DEF IInv
<1>13. QED
  BY <1>5, <1>6, <1>7, <1>8, <1>9, <1>10, <1>11, <1>12 DEF IInv

\* A result appears on the channel of a subtask once (work_must.go:62-66).
LEMMA SubtaskStep ==
    ASSUME IInv, NEW i \in Subtasks, NEW e \in ExitReasons, SubtaskEnds(i, e)
    PROVE  IInv'
<1>1. /\ UNCHANGED <<mode, ctx, left, loop, next, helper, ret, parent>>
      /\ exit[i] = <<>> /\ exit'[i] = <<e>>
      /\ \A j \in Subtasks \ {i} : exit'[j] = exit[j]
      /\ exit' \in [Subtasks -> {<<>>} \cup {<<r>> : r \in ExitReasons}]
  BY DEF SubtaskEnds, IInv, TypeOK
<1>2. TypeOK'
  BY <1>1 DEF IInv, TypeOK
<1>3. Counting'
  BY <1>1, CountingKept DEF IInv
<1>4. \A j \in Subtasks : exit[j] # <<>> => exit'[j] = exit[j] /\ exit'[j] # <<>>
  BY <1>1
<1>5. Results'
  BY <1>1, <1>4 DEF IInv, Results, Received, Decisive, NeedsAll, Ended
<1>6. SomebodyEnds' /\ Returned' /\ Order'
  BY <1>1 DEF IInv, SomebodyEnds, Returned, Verdict, Order, HelpersDone
<1>7. AllAreNeeded' /\ RaceIsWon' /\ AnyIsEnough'
  BY <1>1, <1>4 DEF IInv, AllAreNeeded, NeedsAll, RaceIsWon, AnyIsEnough, Ended
<1>8. OneAfterAnother'
  BY <1>1, <1>4, OrderKept DEF IInv
<1>9. QED
  BY <1>2, <1>3, <1>5, <1>6, <1>7, <1>8 DEF IInv

\* The end of the attempt that runs the pipe ends the pipe.
LEMMA ParentStep ==
    ASSUME IInv, NEW e \in ParentCauses, ParentCancel(e)
    PROVE  IInv'
<1>1. /\ UNCHANGED <<mode, left, loop, next, helper, exit, ret>>
      /\ parent = Nil /\ parent' = e /\ ctx' = Cancel(ctx, e)
  BY DEF ParentCancel, IsDone
<1>2. e \in Errors /\ e # Nil
  BY ParentCausesAssumption, CancelFacts
<1>3. /\ ctx' \in Errors /\ IsDone(ctx')
      /\ IsDone(ctx) => ctx' = ctx
      /\ ctx' = ErrOk => ctx = ErrOk \/ e = ErrOk
  BY <1>1, <1>2, CancelFacts DEF IInv, TypeOK, Cancel
<1>4. TypeOK'
  BY <1>1, <1>2, <1>3 DEF IInv, TypeOK
<1>5. Counting'
  BY <1>1, CountingKept DEF IInv
<1>6. Results' /\ SomebodyEnds'
  BY <1>1, <1>3 DEF IInv, Results, Received, Decisive, NeedsAll, Ended, SomebodyEnds
<1>7. AllAreNeeded'
  BY <1>1, <1>3, CancelFacts DEF IInv, AllAreNeeded, NeedsAll, Ended, Nil, ErrOk
<1>8. RaceIsWon' /\ AnyIsEnough'
  BY <1>1, <1>2 DEF RaceIsWon, AnyIsEnough, IsDone
<1>9. Returned' /\ Order' /\ OneAfterAnother'
  BY <1>1, <1>3 DEF IInv, Returned, Verdict, Order, HelpersDone, OneAfterAnother, Ended
<1>10. QED
  BY <1>4, <1>5, <1>6, <1>7, <1>8, <1>9 DEF IInv

-----------------------------------------------------------------------------
(* Theorems *)

\* Every step of the loop, the helpers and the environment keeps the invariant.
LEMMA StepInv == IInv /\ [Next]_vars => IInv'
<1> SUFFICES ASSUME IInv, [Next]_vars PROVE IInv'
  OBVIOUS
<1>1. CASE Loop
  BY <1>1, LoopStep, SpawnStep, ReturnStep DEF Loop
<1>2. CASE \E i \in Subtasks : Helper(i)
  BY <1>2, LaunchStep, ReceiveStep, CountStep, LastStep DEF Helper
<1>3. CASE \E i \in Subtasks : \E e \in ExitReasons : SubtaskEnds(i, e)
  BY <1>3, SubtaskStep
<1>4. CASE \E e \in ParentCauses : ParentCancel(e)
  BY <1>4, ParentStep
<1>5. CASE UNCHANGED vars
  <2> USE <1>5 DEF vars
  <2>1. TypeOK' /\ Counting'
    BY CountingKept DEF IInv, TypeOK
  <2>2. Results' /\ SomebodyEnds' /\ Order' /\ OneAfterAnother'
    BY DEF IInv, Results, Received, Decisive, NeedsAll, Ended, SomebodyEnds, Order,
           HelpersDone, OneAfterAnother
  <2>3. AllAreNeeded' /\ RaceIsWon' /\ AnyIsEnough' /\ Returned'
    BY DEF IInv, AllAreNeeded, NeedsAll, RaceIsWon, AnyIsEnough, Returned, Verdict, Ended
  <2>4. QED
    BY <2>1, <2>2, <2>3 DEF IInv
<1>6. QED
  BY <1>1, <1>2, <1>3, <1>4, <1>5 DEF Next

\* The inductive invariant holds throughout every run of a pipe.
THEOREM Invariance == Spec => []IInv
<1>1. Init => IInv
  BY InitInv
<1>2. QED
  BY <1>1, StepInv, PTL DEF Spec

\* The counter, the channels and the program counters keep their types; the
\* counter of what is left never becomes negative (task_pipe.go:61).
THEOREM TypeCorrect == Spec => []TypeOK
<1>1. IInv => TypeOK
  BY DEF IInv
<1>2. QED
  BY <1>1, Invariance, PTL

\* pipe:ordered runs its subtasks one after another, however many they are
\* and whenever the pipe is cancelled (task_pipe_mode.go:28-39).
THEOREM OrderedIsSequential == Spec => []OneAfterAnother
<1>1. IInv => OneAfterAnother
  BY DEF IInv
<1>2. QED
  BY <1>1, Invariance, PTL

\* No failure of a subtask is masked by the others' success
\* (task_pipe.go:60-63, task_run.go:208-218).
THEOREM FailureIsNotMasked == Spec => []SuccessNeedsAll
<1>1. IInv => SuccessNeedsAll
  <2> SUFFICES ASSUME IInv, NeedsAll, loop = "returned", ret = Nil
               PROVE  ctx = ErrOk
    BY DEF SuccessNeedsAll, IInv, AllAreNeeded
  <2>1. IsDone(ctx) /\ Verdict = Nil
    BY DEF IInv, Returned
  <2>2. QED
    BY <2>1 DEF Verdict, Cause, NotOk, IsDone, Nil, ErrOk
<1>2. QED
  BY <1>1, Invariance, PTL

\* The counter ends the pipe exactly when all its subtasks have been counted
\* (task_pipe.go:61-63).
THEOREM CounterIsExact == Spec => []CounterEndsPipe
<1>1. IInv => CounterEndsPipe
  BY DEF IInv, CounterEndsPipe, Counting, SomebodyEnds
<1>2. QED
  BY <1>1, Invariance, PTL

\* A race has the outcome of one of its subtasks, and a pipe of mode any that
\* is left alone never fails (task_pipe_mode.go:41-63).
THEOREM FirstToEndDecides == Spec => []FirstDecides
<1>1. IInv => FirstDecides
  <2> SUFFICES ASSUME IInv, loop = "returned", ~IsDone(parent)
               PROVE  /\ mode = "race" => \E i \in Subtasks : Ended(i, ret)
                      /\ mode = "any" => /\ ret = Nil
                                         /\ \/ \E i \in Subtasks : Ended(i, Nil)
                                            \/ \A i \in Subtasks : exit[i] # <<>>
    BY DEF FirstDecides
  <2>1. IsDone(ctx) /\ ret = Verdict
    BY DEF IInv, Returned
  <2>2. CASE mode = "race"
    <3>1. PICK i \in Subtasks : exit[i] # <<>> /\ ctx = OrOk(exit[i][1])
      BY <2>1, <2>2 DEF IInv, RaceIsWon
    <3>2. PICK e \in ExitReasons : exit[i] = <<e>>
      BY <3>1 DEF IInv, TypeOK
    <3>3. e # ErrOk /\ ctx = OrOk(e)
      BY <3>1, <3>2, ExitReasonsAssumption DEF Nil, ErrOk
    <3>4. ret = e
      BY <2>1, <2>2, <3>3 DEF Verdict, Cause, NotOk, OrOk
    <3>5. QED
      BY <2>2, <3>2, <3>4 DEF Ended
  <2>3. CASE mode = "any"
    <3>1. ctx = ErrOk
      BY <2>1, <2>3 DEF IInv, AnyIsEnough
    <3>2. ret = Nil
      BY <2>1, <2>3, <3>1 DEF Verdict, Cause, NotOk
    <3>3. QED
      BY <2>1, <2>3, <3>2 DEF IInv, AnyIsEnough
  <2>4. QED
    BY <2>2, <2>3
<1>2. QED
  BY <1>1, Invariance, PTL

\* In every mode the outcome is one the subtasks have earned.
THEOREM OutcomeIsAlwaysRight == Spec => []OutcomeIsRight
BY FailureIsNotMasked, FirstToEndDecides, PTL DEF OutcomeIsRight

-----------------------------------------------------------------------------
(***************************************************************************)
(* What the proxy is given.  While h.ipc is the address of an attempt it   *)
(* has been so since the attempt made it up, so that whatever the attempt  *)
(* has read since then is its own address.                                 *)
(***************************************************************************)
\* An attempt whose process has not started has no check and no upstream.
Unstarted ==
    \A a \in Attempts :
        pc[a] \in {"prepare", "environ", "start"} => check[a] = "none" /\ a \notin listed

\* A check that has succeeded was one of an address that answers.
Succeeded == \A a \in Attempts : check[a] = "yes" => dialed[a] \in healthy

\* What an attempt knows whose address the runner still has.
Own ==
    \A a \in Attempts : ipc = a =>
        /\ check[a] \in {"dialing", "yes", "no"} => dialed[a] = a
        /\ pc[a] \in {"build", "add"} => a \in healthy
        /\ pc[a] = "add" => upstream[a] = a

RunnerInv == RunnerTypeOK /\ Unstarted /\ Succeeded /\ Own /\ ListedHasAnswered

-----------------------------------------------------------------------------
LEMMA RunnerInitInv == RunnerInit => RunnerInv
BY MaxAttemptsAssumption
   DEF RunnerInit, RunnerInv, RunnerTypeOK, Attempts, Addresses, PCs, Unstarted, Succeeded, Own,
       ListedHasAnswered

LEMMA AttemptsAreAddresses == \A a \in Attempts : a \in Addresses
BY MaxAttemptsAssumption DEF Attempts, Addresses

\* Steps that touch neither Launch, nor checks, nor the network.
LEMMA OtherStep ==
    ASSUME RunnerInv, RunnerTypeOK', UNCHANGED <<pc, ipc, checks, network>>
    PROVE  RunnerInv'
BY DEF RunnerInv, Unstarted, Succeeded, Own, ListedHasAnswered, checks, network

LEMMA WorkerStep ==
    ASSUME RunnerInv, NEW a \in Attempts,
           Stop(a) \/ EndAttempt(a) \/ Serves(a) \/ Exits(a) \/ WaitReturns(a)
           \/ Forks(a) \/ LetsGo(a)
    PROVE  RunnerInv'
<1>1. RunnerTypeOK'
  BY DEF RunnerInv, RunnerTypeOK, Stop, EndAttempt, Serves, Exits, WaitReturns, Forks, LetsGo, contexts, checks, network
<1>2. UNCHANGED <<pc, ipc, checks, network>>
  BY DEF Stop, EndAttempt, Serves, Exits, WaitReturns, Forks, LetsGo, checks, network
<1>3. QED
  BY <1>1, <1>2, OtherStep

LEMMA NewAddressStep ==
    ASSUME RunnerInv, NEW a \in Attempts, NewAddress(a) PROVE RunnerInv'
<1>1. RunnerTypeOK'
  BY AttemptsAreAddresses DEF RunnerInv, RunnerTypeOK, NewAddress, Goto, PCs, contexts, checks, network
<1>2. Unstarted' /\ Succeeded'
  BY DEF RunnerInv, RunnerTypeOK, Unstarted, Succeeded, NewAddress, Goto, checks, network
<1>3. Own' /\ ListedHasAnswered'
  BY DEF RunnerInv, RunnerTypeOK, Unstarted, Own, ListedHasAnswered, NewAddress, Goto, checks, network
<1>4. QED
  BY <1>1, <1>2, <1>3 DEF RunnerInv

\* Steps of Launch that read no address and go on to where none is needed.
LEMMA WaitingStep ==
    ASSUME RunnerInv, NEW a \in Attempts,
           \/ PrepareFails(a) \/ Environ(a) \/ StartFails(a) \/ StartProcess(a)
           \/ SelectDone(a) \/ Sleep(a)
    PROVE  RunnerInv'
<1>1. RunnerTypeOK'
  BY DEF RunnerInv, RunnerTypeOK, PrepareFails, Environ, StartFails, StartProcess, SelectDone, Sleep, Goto,
         PCs, contexts, checks, network
<1>2. PICK l \in {"start", "loop", "returned"} :
        /\ pc' = [pc EXCEPT ![a] = l] /\ (l = "start" => pc[a] = "environ")
        /\ UNCHANGED <<ipc, checks, network>>
  BY DEF PrepareFails, Environ, StartFails, StartProcess, SelectDone, Sleep, Goto, checks, network
<1>3. Unstarted' /\ Succeeded'
  BY <1>2 DEF RunnerInv, RunnerTypeOK, Unstarted, Succeeded, checks, network
<1>4. Own' /\ ListedHasAnswered'
  BY <1>2 DEF RunnerInv, RunnerTypeOK, Own, ListedHasAnswered, checks, network
<1>5. QED
  BY <1>1, <1>3, <1>4 DEF RunnerInv

LEMMA LaunchLoopStep ==
    ASSUME RunnerInv, NEW a \in Attempts, LaunchLoop(a) PROVE RunnerInv'
<1>1. RunnerTypeOK'
  BY DEF RunnerInv, RunnerTypeOK, LaunchLoop, Goto, PCs, contexts, network
<1>2. Unstarted' /\ Succeeded'
  BY DEF RunnerInv, RunnerTypeOK, Unstarted, Succeeded, LaunchLoop, Goto, network
<1>3. Own' /\ ListedHasAnswered'
  BY DEF RunnerInv, RunnerTypeOK, Own, ListedHasAnswered, LaunchLoop, Goto, network
<1>4. QED
  BY <1>1, <1>2, <1>3 DEF RunnerInv

LEMMA CheckStep ==
    ASSUME RunnerInv, NEW a \in Attempts, CheckReads(a) \/ CheckEnds(a) PROVE RunnerInv'
<1>1. RunnerTypeOK'
  BY DEF RunnerInv, RunnerTypeOK, CheckReads, CheckEnds, contexts, network
<1>2. Unstarted' /\ Succeeded'
  BY DEF RunnerInv, RunnerTypeOK, Unstarted, Succeeded, CheckReads, CheckEnds, network
<1>3. Own' /\ ListedHasAnswered'
  BY DEF RunnerInv, RunnerTypeOK, Own, ListedHasAnswered, CheckReads, CheckEnds, network
<1>4. QED
  BY <1>1, <1>2, <1>3 DEF RunnerInv

LEMMA SelectCheckStep ==
    ASSUME RunnerInv, NEW a \in Attempts, SelectCheck(a) PROVE RunnerInv'
<1>1. RunnerTypeOK'
  BY DEF RunnerInv, RunnerTypeOK, SelectCheck, Goto, PCs, contexts, checks, network
<1>2. Unstarted' /\ Succeeded'
  BY DEF RunnerInv, RunnerTypeOK, Unstarted, Succeeded, SelectCheck, Goto, checks, network
<1>3. Own' /\ ListedHasAnswered'
  BY DEF RunnerInv, RunnerTypeOK, Succeeded, Own, ListedHasAnswered, SelectCheck, Goto, checks, network
<1>4. QED
  BY <1>1, <1>2, <1>3 DEF RunnerInv

LEMMA UpstreamStep ==
    ASSUME RunnerInv, NEW a \in Attempts, Build(a) \/ AddUpstream(a) \/ RemoveUpstream(a)
    PROVE  RunnerInv'
<1>1. RunnerTypeOK'
  BY DEF RunnerInv, RunnerTypeOK, Build, AddUpstream, RemoveUpstream, Goto, PCs, contexts, checks
<1>2. Unstarted' /\ Succeeded'
  BY DEF RunnerInv, RunnerTypeOK, Unstarted, Succeeded, Build, AddUpstream, RemoveUpstream, Goto, checks
<1>3. Own'
  BY DEF RunnerInv, RunnerTypeOK, Own, Build, AddUpstream, RemoveUpstream, Goto, checks
<1>4. ListedHasAnswered'
  BY DEF RunnerInv, RunnerTypeOK, Own, ListedHasAnswered, Build, AddUpstream, RemoveUpstream, Goto, checks
<1>5. QED
  BY <1>1, <1>2, <1>3, <1>4 DEF RunnerInv

LEMMA RunnerNextInv == RunnerInv /\ [RunnerNext]_runnerVars => RunnerInv'
<1> SUFFICES ASSUME RunnerInv, [RunnerNext]_runnerVars PROVE RunnerInv'
  OBVIOUS
<1>1. CASE Begin
  <2>1. RunnerTypeOK'
    BY <1>1, MaxAttemptsAssumption DEF RunnerInv, RunnerTypeOK, Begin, checks, network
  <2>2. QED
    BY <1>1, <2>1, OtherStep DEF Begin
<1>2. ASSUME NEW a \in Attempts, Stop(a) \/ Interrupted(a) \/ RunReceives(a) \/ Process(a)
      PROVE  RunnerInv'
  BY <1>2, WorkerStep DEF Interrupted, RunReceives, Process
<1>3. ASSUME NEW a \in Attempts, RunnerLaunch(a) \/ Check(a) \/ RemoveUpstream(a) PROVE RunnerInv'
  BY <1>3, NewAddressStep, WaitingStep, LaunchLoopStep, CheckStep, SelectCheckStep, UpstreamStep
     DEF RunnerLaunch, Check
<1>4. CASE UNCHANGED runnerVars
  BY <1>4 DEF runnerVars, checks, network, RunnerInv, RunnerTypeOK, Unstarted, Succeeded, Own, ListedHasAnswered
<1>5. QED
  BY <1>1, <1>2, <1>3, <1>4 DEF RunnerNext

THEOREM RunnerInvariance == RunnerSpec => []RunnerInv
BY RunnerInitInv, RunnerNextInv, PTL DEF RunnerSpec

-----------------------------------------------------------------------------
\* The variables of the runner and of its attempts have their types (task_run.go:35-40).
THEOREM RunnerTypeCorrect == RunnerSpec => []RunnerTypeOK
<1>1. RunnerInv => RunnerTypeOK
  BY DEF RunnerInv
<1>2. QED
  BY <1>1, RunnerInvariance, PTL

\* However attempts, processes and health checks overlap, an upstream of the
\* attempt that h.ipc belongs to leads to an address of its own that has answered
\* (task_run.go:120-143).
THEOREM ListedAlwaysAnswered == RunnerSpec => []ListedHasAnswered
<1>1. RunnerInv => ListedHasAnswered
  BY DEF RunnerInv
<1>2. QED
  BY <1>1, RunnerInvariance, PTL
-----------------------------------------------------------------------------
(***************************************************************************)
(* What an attempt leaves behind.  An upstream that is listed has the      *)
(* goroutine that will take it off the list; and of the attempts that have *)
(* begun only the last may be live.                                        *)
(***************************************************************************)
Removers ==
    \A a \in Attempts : /\ a \in listed <=> remover[a] = "waiting"
                        /\ pc[a] # "returned" => remover[a] = "none"

Beginnings ==
    \A a \in Attempts : /\ a > begun => pc[a] = "prepare" /\ a \notin ended
                        /\ a < begun => a \in ended

RemovalInv == RunnerTypeOK /\ Removers /\ Beginnings

LEMMA RemovalInitInv == RunnerInit => RemovalInv
<1> SUFFICES ASSUME RunnerInit PROVE RemovalInv
  OBVIOUS
<1>1. RunnerTypeOK
  BY RunnerInitInv DEF RunnerInv
<1>2. Removers /\ Beginnings
  BY DEF RunnerInit, Removers, Beginnings, Attempts
<1>3. QED
  BY <1>1, <1>2 DEF RemovalInv

\* Launch reaches "returned" by one of its steps, and lists by the last.
LEMMA RemoversStep == RunnerTypeOK /\ Removers /\ [RunnerNext]_runnerVars => Removers'
<1> SUFFICES ASSUME RunnerTypeOK, Removers, [RunnerNext]_runnerVars PROVE Removers'
  OBVIOUS
<1>1. CASE UNCHANGED <<pc, network>>
  BY <1>1 DEF Removers, network
<1>2. ASSUME NEW a \in Attempts, NEW l \in PCs, pc[a] # "returned",
             pc' = [pc EXCEPT ![a] = l], UNCHANGED <<listed, remover>>
      PROVE  Removers'
  BY <1>2 DEF RunnerTypeOK, Removers
<1>3. ASSUME NEW a \in Attempts, AddUpstream(a) \/ RemoveUpstream(a) PROVE Removers'
  BY <1>3 DEF RunnerTypeOK, Removers, AddUpstream, RemoveUpstream, Goto
<1>4. ASSUME NEW a \in Attempts, RunnerLaunch(a), ~AddUpstream(a) PROVE Removers'
  <2>1. \E l \in PCs : pc' = [pc EXCEPT ![a] = l]
    BY <1>4 DEF RunnerLaunch, NewAddress, PrepareFails, Environ, StartFails, StartProcess, LaunchLoop,
                SelectDone, SelectCheck, Sleep, Build, Goto, PCs
  <2>2. pc[a] # "returned" /\ UNCHANGED <<listed, remover>>
    BY <1>4 DEF RunnerLaunch, NewAddress, PrepareFails, Environ, StartFails, StartProcess, LaunchLoop,
                SelectDone, SelectCheck, Sleep, Build, network
  <2>3. QED
    BY <1>2, <2>1, <2>2
<1>5. QED
  BY <1>1, <1>3, <1>4
     DEF RunnerNext, runnerVars, network, Begin, Stop, Interrupted, RunReceives, EndAttempt, Check,
         CheckReads, CheckEnds, Process, Serves, Exits, WaitReturns, Forks, LetsGo

LEMMA BeginningsStep == RunnerTypeOK /\ Beginnings /\ [RunnerNext]_runnerVars => Beginnings'
<1> SUFFICES ASSUME RunnerTypeOK, Beginnings, [RunnerNext]_runnerVars PROVE Beginnings'
  OBVIOUS
<1>0. begun \in Nat /\ ended \subseteq Attempts /\ Attempts \subseteq Nat
  BY MaxAttemptsAssumption DEF RunnerTypeOK, Attempts
<1>1. CASE UNCHANGED <<begun, ended, pc>>
  BY <1>1 DEF Beginnings
<1>2. CASE Begin
  <2>1. \A a \in Attempts : a \in Nat /\ a > 0
    BY MaxAttemptsAssumption DEF Attempts
  <2>2. QED
    BY <1>0, <1>2, <2>1 DEF Begin, Beginnings
<1>3. ASSUME NEW a \in Attempts, Interrupted(a) \/ RunReceives(a) PROVE Beginnings'
  <2>1. a <= begun
    BY <1>0, <1>3 DEF Interrupted, RunReceives, Beginnings
  <2>2. ended' = ended \cup {a} /\ UNCHANGED <<begun, pc>>
    BY <1>3 DEF Interrupted, RunReceives, EndAttempt
  <2>3. QED
    BY <1>0, <2>1, <2>2 DEF Beginnings
<1>4. ASSUME NEW a \in Attempts, RunnerLaunch(a) PROVE Beginnings'
  <2>1. a <= begun
    BY <1>0, <1>4 DEF RunnerLaunch, NewAddress, PrepareFails, Environ, StartFails, StartProcess,
                      LaunchLoop, SelectDone, SelectCheck, Sleep, Build, AddUpstream, Beginnings
  <2>2. \E l : pc' = [pc EXCEPT ![a] = l]
    BY <1>4 DEF RunnerLaunch, NewAddress, PrepareFails, Environ, StartFails, StartProcess, LaunchLoop,
                SelectDone, SelectCheck, Sleep, Build, AddUpstream, Goto
  <2>3. UNCHANGED <<begun, ended>>
    BY <1>4 DEF RunnerLaunch, NewAddress, PrepareFails, Environ, StartFails, StartProcess, LaunchLoop,
                SelectDone, SelectCheck, Sleep, Build, AddUpstream, contexts
  <2>4. QED
    BY <1>0, <2>1, <2>2, <2>3 DEF RunnerTypeOK, Beginnings
<1>5. QED
  BY <1>1, <1>2, <1>3, <1>4
     DEF RunnerNext, runnerVars, contexts, Stop, Check, CheckReads, CheckEnds, RemoveUpstream, Process,
         Serves, Exits, WaitReturns, Forks, LetsGo

LEMMA RemovalInvariance == RunnerSpec => []RemovalInv
<1>1. RunnerTypeOK /\ RunnerTypeOK' /\ RemovalInv /\ [RunnerNext]_runnerVars => RemovalInv'
  BY RemoversStep, BeginningsStep DEF RemovalInv
<1>2. QED
  BY <1>1, RemovalInitInv, RunnerTypeCorrect, PTL DEF RunnerSpec

\* The proxy lists the upstream of the last attempt, or of one that has ended and
\* either way its goroutine waits to remove it, whichever attempts overlap in the
\* runner: no listed upstream is forgotten
\* (task_run.go:141-149).
OnlyLiveOrLeaving ==
    \A a \in listed : /\ remover[a] = "waiting"
                      /\ a = begun \/ a \in ended

\* Every upstream of a runner in the proxy has the goroutine that removes it
\* (task_run.go:141-149).
THEOREM ListedIsLiveOrLeaving == RunnerSpec => []OnlyLiveOrLeaving
<1>1. RemovalInv => OnlyLiveOrLeaving
  <2> SUFFICES ASSUME RemovalInv, NEW a \in listed
               PROVE  remover[a] = "waiting" /\ (a = begun \/ a \in ended)
    BY DEF OnlyLiveOrLeaving
  <2>1. a \in Attempts /\ a \in Nat /\ begun \in Nat
    BY MaxAttemptsAssumption DEF RemovalInv, RunnerTypeOK, Attempts
  <2>2. remover[a] = "waiting" /\ pc[a] = "returned"
    BY <2>1 DEF RemovalInv, Removers
  <2>3. ~(a > begun)
    BY <2>1, <2>2 DEF RemovalInv, Beginnings
  <2>4. QED
    BY <2>1, <2>2, <2>3 DEF RemovalInv, Beginnings
<1>2. QED
  BY <1>1, RemovalInvariance, PTL

\* An attempt that has left nothing behind never does again: neither a late check
\* nor an overdue Launch lists its upstream or starts its process once more, which
\* is the safety half of EndLeavesNothing (task_run.go:83, 120-149).
LeftNothing(a) ==
    a \in ended /\ pc[a] = "returned" /\ a \notin listed /\ proc[a] \in {"none", "gone"}
NothingComesBack == [][\A a \in Attempts : LeftNothing(a) => LeftNothing(a)']_runnerVars

\* What an attempt's end has cleared stays clear (task_run.go:83, 120-149).
THEOREM NothingEverComesBack == RunnerSpec => NothingComesBack
<1>1. RunnerTypeOK /\ [RunnerNext]_runnerVars =>
        [\A a \in Attempts : LeftNothing(a) => LeftNothing(a)']_runnerVars
  <2> SUFFICES ASSUME RunnerTypeOK, [RunnerNext]_runnerVars, NEW a \in Attempts, LeftNothing(a)
               PROVE  LeftNothing(a)'
    OBVIOUS
  <2>1. CASE UNCHANGED <<pc, listed, proc>> /\ ended \subseteq ended'
    BY <2>1 DEF LeftNothing
  <2>2. ASSUME NEW b \in Attempts, RunnerLaunch(b) PROVE LeftNothing(a)'
    <3>1. b # a /\ UNCHANGED ended
      BY <2>2 DEF RunnerLaunch, NewAddress, PrepareFails, Environ, StartFails, StartProcess, LaunchLoop,
                  SelectDone, SelectCheck, Sleep, Build, AddUpstream, LeftNothing, contexts
    <3>2. \E l : pc' = [pc EXCEPT ![b] = l]
      BY <2>2 DEF RunnerLaunch, NewAddress, PrepareFails, Environ, StartFails, StartProcess, LaunchLoop,
                  SelectDone, SelectCheck, Sleep, Build, AddUpstream, Goto
    <3>3. proc' = [proc EXCEPT ![b] = "starting"] \/ UNCHANGED proc
      BY <2>2 DEF RunnerLaunch, NewAddress, PrepareFails, Environ, StartFails, StartProcess, LaunchLoop,
                  SelectDone, SelectCheck, Sleep, Build, AddUpstream
    <3>4. listed' = listed \cup {b} \/ UNCHANGED listed
      BY <2>2 DEF RunnerLaunch, NewAddress, PrepareFails, Environ, StartFails, StartProcess, LaunchLoop,
                  SelectDone, SelectCheck, Sleep, Build, AddUpstream, network
    <3>5. QED
      BY <3>1, <3>2, <3>3, <3>4 DEF LeftNothing, RunnerTypeOK
  <2>3. ASSUME NEW b \in Attempts, Process(b) PROVE LeftNothing(a)'
    BY <2>3 DEF Process, Serves, Exits, WaitReturns, Forks, LetsGo, LeftNothing, RunnerTypeOK, contexts, network
  <2>4. ASSUME NEW b \in Attempts, RemoveUpstream(b) PROVE LeftNothing(a)'
    BY <2>4 DEF RemoveUpstream, LeftNothing, contexts
  <2>5. QED
    BY <2>1, <2>2, <2>3, <2>4
       DEF RunnerNext, runnerVars, network, contexts, Begin, Stop, Interrupted, RunReceives,
           EndAttempt, Check, CheckReads, CheckEnds
<1>2. QED
  BY <1>1, RunnerTypeCorrect, PTL DEF RunnerSpec, NothingComesBack

\* The attempts of a runner are attempts: each ends once and is told to stop once,
\* by steps that Attempt has too.  The runner does not tell the causes apart, so
\* that one stands for all (work_must.go:16-35).
Seen(a) == INSTANCE Attempt WITH ParentCauses <- {},
                                 cause <- IF a \in ended THEN "cancelled" ELSE Nil,
                                 stopping <- a \in told
SeenConform == [][\A a \in Attempts : [Seen(a)!Next]_(Seen(a)!vars)]_runnerVars

\* The runner's contexts end and are told to stop as Attempt has it, and never
\* otherwise (task_run.go:98-118, work_must.go:16-35).
THEOREM SeenAlwaysConform == RunnerSpec => SeenConform
<1>1. [RunnerNext]_runnerVars => [\A a \in Attempts : [Seen(a)!Next]_(Seen(a)!vars)]_runnerVars
  <2> SUFFICES ASSUME [RunnerNext]_runnerVars, NEW a \in Attempts PROVE [Seen(a)!Next]_(Seen(a)!vars)
    OBVIOUS
  <2> USE DEF Seen!Next, Seen!vars, Seen!Signal, Seen!End, Seen!IsDone, Seen!Nil, Nil
  <2>1. CASE UNCHANGED <<ended, told>>
    BY <2>1
  <2>2. ASSUME NEW b \in Attempts, b \notin told, told' = told \cup {b}, UNCHANGED ended
        PROVE  [Seen(a)!Next]_(Seen(a)!vars)
    <3>1. CASE a = b
      <4>1. (a \in told) = FALSE /\ (a \in told') = TRUE
        BY <2>2, <3>1
      <4>2. QED
        BY <2>2, <4>1
    <3>2. CASE a # b
      <4>1. (a \in told') = (a \in told)
        BY <2>2, <3>2
      <4>2. QED
        BY <2>2, <4>1
    <3>3. QED
      BY <3>1, <3>2
  <2>3. ASSUME NEW b \in Attempts, b \notin ended, ended' = ended \cup {b}, UNCHANGED told
        PROVE  [Seen(a)!Next]_(Seen(a)!vars)
    <3>1. "cancelled" \in Seen(a)!Errors
      BY DEF Seen!Errors, Seen!Statuses, Seen!AliveStatuses, Seen!ErrorStatuses
    <3>2. QED
      BY <2>3, <3>1
  <2>4. QED
    BY <2>1, <2>2, <2>3
       DEF RunnerNext, runnerVars, contexts, Begin, Stop, Interrupted, RunReceives, EndAttempt,
           RunnerLaunch, NewAddress, PrepareFails, Environ, StartFails, StartProcess, LaunchLoop,
           SelectDone, SelectCheck, Sleep, Build, AddUpstream, RemoveUpstream, Check, CheckReads,
           CheckEnds, Process, Serves, Exits, WaitReturns, Forks, LetsGo
<1>2. QED
  BY <1>1, PTL DEF RunnerSpec, SeenConform

-----------------------------------------------------------------------------
\* What the goroutines of attempt a may do once it has ended.
LEMMA EndedMoves ==
    ASSUME NEW a \in Attempts, RunnerTypeOK, a \in ended, [RunnerNext]_runnerVars
    PROVE  /\ a \in ended'
           /\ a \in told => a \in told'
           /\ proc[a] \in {"none", "gone"} => proc'[a] \in {"none", "gone"}
           /\ pc[a] = "prepare" => pc'[a] \in {"prepare", "environ", "returned"}
           /\ pc[a] = "environ" => pc'[a] \in {"environ", "start"}
           /\ pc[a] = "start" => pc'[a] \in {"start", "returned"}
           /\ pc[a] = "loop" => pc'[a] \in {"loop", "select", "returned"}
           /\ pc[a] = "select" => pc'[a] \in {"select", "sleep", "build", "returned"}
           /\ pc[a] = "sleep" => pc'[a] \in {"sleep", "loop", "returned"}
           /\ pc[a] = "build" => pc'[a] \in {"build", "add"}
           /\ pc[a] = "add" => pc'[a] \in {"add", "returned"}
           /\ pc[a] = "returned" => pc'[a] = "returned" /\ (a \notin listed => a \notin listed')
<1> USE DEF RunnerTypeOK
<1>1. CASE UNCHANGED <<pc, listed, proc>> /\ ended \subseteq ended' /\ told \subseteq told'
  BY <1>1, Zenon DEF PCs
<1>2. ASSUME NEW b \in Attempts, RunnerLaunch(b), b # a PROVE
           /\ pc'[a] = pc[a] /\ proc'[a] = proc[a] /\ UNCHANGED <<ended, told>>
           /\ a \notin listed => a \notin listed'
  BY <1>2 DEF RunnerLaunch, NewAddress, PrepareFails, Environ, StartFails, StartProcess, LaunchLoop,
              SelectDone, SelectCheck, Sleep, Build, AddUpstream, Goto, contexts, network
<1>3. CASE RunnerLaunch(a)
  BY <1>3 DEF RunnerLaunch, NewAddress, PrepareFails, Environ, StartFails, StartProcess, LaunchLoop,
              SelectDone, SelectCheck, Sleep, Build, AddUpstream, Goto, contexts, network
<1>4. ASSUME NEW b \in Attempts, Process(b) \/ RemoveUpstream(b) PROVE
           /\ UNCHANGED <<pc, ended, told>> /\ listed' \subseteq listed
           /\ proc[a] \in {"none", "gone"} => proc'[a] \in {"none", "gone"}
  BY <1>4 DEF Process, Serves, Exits, WaitReturns, Forks, LetsGo, RemoveUpstream, contexts, network
<1>5. QED
  BY <1>1, <1>2, <1>3, <1>4
     DEF RunnerNext, runnerVars, network, contexts, Begin, Stop, Interrupted, RunReceives, EndAttempt,
         Check, CheckReads, CheckEnds

\* What its own goroutines bring about.
LEMMA EndedProgress ==
    ASSUME NEW a \in Attempts, RunnerTypeOK, a \in ended
    PROVE  /\ RunnerLaunch(a) =>
              /\ pc[a] = "prepare" => pc'[a] \in {"environ", "returned"}
              /\ pc[a] = "environ" => pc'[a] = "start"
              /\ pc[a] = "start" => pc'[a] = "returned"
              /\ pc[a] = "loop" => pc'[a] \in {"select", "returned"}
              /\ pc[a] = "select" => pc'[a] \in {"sleep", "build", "returned"}
              /\ pc[a] = "sleep" => pc'[a] \in {"loop", "returned"}
              /\ pc[a] = "build" => pc'[a] = "add"
              /\ pc[a] = "add" => pc'[a] = "returned"
           /\ SelectDone(a) => pc'[a] = "returned"
           /\ KilledByContext(a) => proc'[a] = "gone"
           /\ EndTells(a) => a \in told'
           /\ RemoveUpstream(a) => a \notin listed'
BY DEF RunnerTypeOK, RunnerLaunch, NewAddress, PrepareFails, Environ, StartFails, StartProcess, LaunchLoop,
       SelectDone, SelectCheck, Sleep, Build, AddUpstream, Goto, KilledByContext, Exits, EndTells, Stop,
       RemoveUpstream

\* Nothing of attempt a is left.
Left(a) == pc[a] = "returned" /\ a \notin listed /\ proc[a] \in {"none", "gone"}

\* The hypothesis RunnerGoesOn, which TLC checks as an invariant, for one attempt.
LEMMA AllGoOn == ASSUME NEW a \in Attempts PROVE RunnerGoesOn => GoesOn(a)
BY DEF RunnerGoesOn

\* An attempt that has ended is cleared away, each goroutine by itself.
LEMMA EndClears ==
    ASSUME NEW b \in Attempts PROVE RunnerSpec /\ []RunnerGoesOn => (b \in ended ~> []Left(b))
<1> DEFINE D == b \in ended
           At(l) == pc[b] = l
           P == At("prepare")
           E == At("environ")
           S == At("start")
           L == At("loop")
           Se == At("select")
           Sl == At("sleep")
           B == At("build")
           Ad == At("add")
           R == At("returned")
           K == proc[b] \in {"none", "gone"}
           T == b \in told
           Li == b \in listed
           TR == RunnerTypeOK /\ Removers /\ Beginnings
           WL(a) == WF_runnerVars(RunnerLaunch(a))
           WK(a) == WF_runnerVars(KilledByContext(a))
           WT(a) == WF_runnerVars(EndTells(a))
           WR(a) == WF_runnerVars(RemoveUpstream(a))
           FS(a) == SF_runnerVars(SelectDone(a))
           F(a) == /\ WF_runnerVars(RunnerLaunch(a)) /\ SF_runnerVars(SelectDone(a))
                   /\ WF_runnerVars(CheckReads(a)) /\ WF_runnerVars(~Answers(dialed[a]) /\ CheckEnds(a))
                   /\ WF_runnerVars(KilledByContext(a)) /\ WF_runnerVars(WaitReturns(a))
                   /\ WF_runnerVars(EndTells(a)) /\ WF_runnerVars(RunReceives(a))
                   /\ WF_runnerVars(RemoveUpstream(a))
           EL(a) == ENABLED <<RunnerLaunch(a)>>_runnerVars
           ES(a) == ENABLED <<SelectDone(a)>>_runnerVars
           EK(a) == ENABLED <<KilledByContext(a)>>_runnerVars
           ET(a) == ENABLED <<EndTells(a)>>_runnerVars
           ER(a) == ENABLED <<RemoveUpstream(a)>>_runnerVars
<1>1. TR /\ [RunnerNext]_runnerVars /\ D =>
        /\ D'
        /\ T => T'
        /\ K => K'
        /\ P => P' \/ E' \/ R'
        /\ E => E' \/ S'
        /\ S => S' \/ R'
        /\ L => L' \/ Se' \/ R'
        /\ Se => Se' \/ Sl' \/ B' \/ R'
        /\ Sl => Sl' \/ L' \/ R'
        /\ B => B' \/ Ad'
        /\ Ad => Ad' \/ R'
        /\ R => R' /\ (~Li => ~Li')
  BY EndedMoves
<1>2. TR /\ D /\ <<RunnerLaunch(b)>>_runnerVars =>
        /\ P => E' \/ R'
        /\ E => S'
        /\ S => R'
        /\ L => Se' \/ R'
        /\ Se => Sl' \/ B' \/ R'
        /\ Sl => L' \/ R'
        /\ B => Ad'
        /\ Ad => R'
  BY EndedProgress
<1>3. TR /\ D =>
        /\ <<SelectDone(b)>>_runnerVars => R'
        /\ <<KilledByContext(b)>>_runnerVars => K'
        /\ <<EndTells(b)>>_runnerVars => T'
        /\ <<RemoveUpstream(b)>>_runnerVars => ~Li'
  BY EndedProgress
<1>4. TR /\ RunnerGoesOn /\ D =>
        /\ ~R => EL(b)
        /\ Se \/ Sl => ES(b)
        /\ ~K => EK(b)
        /\ ~T => ET(b)
        /\ T /\ Li => ER(b)
  <2> SUFFICES ASSUME TR, RunnerGoesOn, D
               PROVE  /\ ~R => EL(b)
                      /\ Se \/ Sl => ES(b)
                      /\ ~K => EK(b)
                      /\ ~T => ET(b)
                      /\ T /\ Li => ER(b)
    OBVIOUS
  <2>1. /\ \A a \in Attempts : a \in listed => remover[a] = "waiting"
        /\ proc[b] \in {"none", "starting", "serving", "gone"}
        /\ b \in ended => b <= begun
    BY MaxAttemptsAssumption DEF RunnerTypeOK, Removers, Beginnings, Attempts
  <2>2. /\ b <= begun /\ pc[b] # "returned"
             /\ (pc[b] = "select" => b \in ended \/ check[b] \in {"yes", "no"}) => EL(b)
        /\ pc[b] \in {"select", "sleep"} /\ b \in ended => ES(b)
        /\ proc[b] \in {"starting", "serving"} /\ b \in ended => EK(b)
        /\ b \in ended /\ b \notin told => ET(b)
        /\ remover[b] = "waiting" /\ b \in told => ER(b)
    <3>1. GoesOn(b)
      BY AllGoOn
    <3>2. QED
      BY <3>1 DEF GoesOn
  <2>3. QED
    <3> HIDE DEF EL, ES, EK, ET, ER
    <3> QED BY <2>1, <2>2
<1>15. (E => ~R) /\ (B => ~R)
  OBVIOUS
<1>5. TR => P \/ E \/ S \/ L \/ Se \/ Sl \/ B \/ Ad \/ R
  BY DEF RunnerTypeOK, PCs
<1>6. RunnerSpec => WL(b) /\ WK(b) /\ WT(b) /\ WR(b) /\ FS(b)
  <2>1. (\A a \in Attempts : F(a)) => F(b)
    <3> HIDE DEF F
    <3> QED OBVIOUS
  <2>2. QED
    BY <2>1, PTL DEF RunnerSpec, RunnerFairness
<1>7. Left(b) <=> R /\ ~Li /\ K
  BY DEF Left
<1>8. RunnerSpec => []TR
  BY RunnerTypeCorrect, RemovalInvariance, PTL DEF RemovalInv
<1> HIDE DEF D, P, E, S, L, Se, Sl, B, Ad, R, K, T, Li, TR
<1>9. RunnerSpec /\ []RunnerGoesOn => [](D => <>[](D /\ R))
  <2>1. RunnerSpec /\ []RunnerGoesOn => [](D /\ P => <>(E \/ R))
    BY <1>1, <1>2, <1>4, <1>6, <1>8, PTL DEF RunnerSpec
  <2>2. RunnerSpec /\ []RunnerGoesOn => [](D /\ E => <>S)
    BY <1>15, <1>1, <1>2, <1>4, <1>6, <1>8, PTL DEF RunnerSpec
  <2>3. RunnerSpec /\ []RunnerGoesOn => [](D /\ S => <>R)
    BY <1>1, <1>2, <1>4, <1>6, <1>8, PTL DEF RunnerSpec
  <2>4. RunnerSpec /\ []RunnerGoesOn => [](D /\ B => <>Ad)
    BY <1>15, <1>1, <1>2, <1>4, <1>6, <1>8, PTL DEF RunnerSpec
  <2>5. RunnerSpec /\ []RunnerGoesOn => [](D /\ Ad => <>R)
    BY <1>1, <1>2, <1>4, <1>6, <1>8, PTL DEF RunnerSpec
  <2>6. RunnerSpec /\ []RunnerGoesOn => [](D /\ (L \/ Se \/ Sl) => <>(B \/ R))
    BY <1>1, <1>2, <1>3, <1>4, <1>6, <1>8, PTL DEF RunnerSpec
  <2>7. RunnerSpec => [](D => []D) /\ [](D /\ R => []R)
    BY <1>1, <1>8, PTL DEF RunnerSpec
  <2>8. RunnerSpec => [](P \/ E \/ S \/ L \/ Se \/ Sl \/ B \/ Ad \/ R)
    BY <1>5, <1>8, PTL
  <2>9. QED
    BY <2>1, <2>2, <2>3, <2>4, <2>5, <2>6, <2>7, <2>8, PTL
<1>10. RunnerSpec /\ []RunnerGoesOn => [](D => <>[]K)
  BY <1>1, <1>3, <1>4, <1>6, <1>8, PTL DEF RunnerSpec
<1>11. RunnerSpec /\ []RunnerGoesOn => [](D => <>[]T)
  BY <1>1, <1>3, <1>4, <1>6, <1>8, PTL DEF RunnerSpec
<1>12. RunnerSpec /\ []RunnerGoesOn => []([](D /\ R /\ T) => <>[]~Li)
  BY <1>1, <1>3, <1>4, <1>6, <1>8, PTL DEF RunnerSpec
<1>13. RunnerSpec /\ []RunnerGoesOn => [](D => <>[](R /\ ~Li /\ K))
  BY <1>9, <1>10, <1>11, <1>12, PTL
<1>14. QED
  BY <1>7, <1>13, PTL DEF D


\* An attempt that has ended, wherever its Launch was, leaves neither a
\* goroutine of Launch, nor an upstream, nor a process (task_run.go:60, 141-149).
THEOREM AttemptsLeaveNothing == RunnerSpec /\ []RunnerGoesOn => EndLeavesNothing
<1> DEFINE L(a) == a \in ended ~> [](pc[a] = "returned" /\ a \notin listed /\ proc[a] \in {"none", "gone"})
<1>1. ASSUME NEW b \in Attempts PROVE RunnerSpec /\ []RunnerGoesOn => L(b)
  <2>1. RunnerSpec /\ []RunnerGoesOn => (b \in ended ~> []Left(b))
    BY EndClears
  <2>2. Left(b) <=> pc[b] = "returned" /\ b \notin listed /\ proc[b] \in {"none", "gone"}
    BY DEF Left
  <2>3. QED
    BY <2>1, <2>2, PTL
<1>2. EndLeavesNothing <=> \A a \in Attempts : L(a)
  BY DEF EndLeavesNothing
<1> HIDE DEF L
<1>3. QED
  BY <1>1, <1>2

-----------------------------------------------------------------------------
(***************************************************************************)
(* Addresses.  An address is made up once, and only the last attempt, while*)
(* it lives, starts a process; so that no two processes of a runner were   *)
(* told to serve at the same address, although an attempt may use the one  *)
(* that another has made up.                                               *)
(***************************************************************************)
Places ==
    \A a \in Attempts : /\ pc[a] \in {"prepare", "environ", "start"} => proc[a] = "none"
                        /\ pc[a] = "select" => check[a] # "none"
                        /\ a \in held => proc[a] # "none"

MadeOnce ==
    \A a \in Attempts : pc[a] = "prepare" => ipc # a /\ \A b \in Attempts : serve[b] # a

\* There is a process of attempt b, or there may still be one.
MayRun(b) == proc[b] # "none" \/ (pc[b] = "start" /\ b \notin ended)

ServersDiffer ==
    /\ \A b, c \in Attempts : b # c /\ MayRun(b) /\ MayRun(c) => serve[b] # serve[c]
    /\ \A a, b \in Attempts :
          a # b /\ pc[a] = "environ" /\ a \notin ended /\ MayRun(b) => serve[b] # ipc

AddressInv == RemovalInv /\ Places /\ MadeOnce /\ ServersDiffer

\* Only the last attempt is live.
LEMMA OneLive ==
    ASSUME RunnerTypeOK, Beginnings, NEW a \in Attempts, NEW b \in Attempts,
           a \notin ended, b \notin ended, pc[a] # "prepare", pc[b] # "prepare"
    PROVE  a = b
BY MaxAttemptsAssumption DEF RunnerTypeOK, Beginnings, Attempts

LEMMA PlacesStep == RunnerTypeOK /\ Places /\ [RunnerNext]_runnerVars => Places'
<1> SUFFICES ASSUME RunnerTypeOK, Places, [RunnerNext]_runnerVars PROVE Places'
  OBVIOUS
<1>1. CASE UNCHANGED <<pc, proc, held, check>>
  BY <1>1 DEF Places
<1>2. ASSUME NEW a \in Attempts, RunnerLaunch(a) PROVE Places'
  BY <1>2 DEF RunnerTypeOK, Places, RunnerLaunch, NewAddress, PrepareFails, Environ, StartFails,
       StartProcess, LaunchLoop, SelectDone, SelectCheck, Sleep, Build, AddUpstream, Goto, checks
<1>3. ASSUME NEW a \in Attempts, Check(a) \/ Process(a) PROVE Places'
  BY <1>3 DEF RunnerTypeOK, Places, Check, CheckReads, CheckEnds, Process, Serves, Exits, WaitReturns, Forks, LetsGo,
       checks
<1>4. QED
  BY <1>1, <1>2, <1>3
     DEF RunnerNext, runnerVars, checks, Begin, Stop, Interrupted, RunReceives, EndAttempt, RemoveUpstream

LEMMA MadeOnceStep == RunnerTypeOK /\ MadeOnce /\ [RunnerNext]_runnerVars => MadeOnce'
<1> SUFFICES ASSUME RunnerTypeOK, MadeOnce, [RunnerNext]_runnerVars PROVE MadeOnce'
  OBVIOUS
<1>1. CASE UNCHANGED <<pc, ipc, serve>>
  BY <1>1 DEF MadeOnce
<1>2. ASSUME NEW a \in Attempts, RunnerLaunch(a) PROVE MadeOnce'
  <2>1. CASE NewAddress(a)
    BY <2>1 DEF RunnerTypeOK, MadeOnce, NewAddress, Goto
  <2>2. CASE Environ(a)
    BY <2>2 DEF RunnerTypeOK, MadeOnce, Environ, Goto
  <2>3. CASE ~NewAddress(a) /\ ~Environ(a)
    BY <1>2, <2>3 DEF RunnerTypeOK, MadeOnce, RunnerLaunch, PrepareFails, StartFails,
       StartProcess, LaunchLoop, SelectDone, SelectCheck, Sleep, Build, AddUpstream, Goto
  <2>4. QED
    BY <2>1, <2>2, <2>3
<1>3. QED
  BY <1>1, <1>2
     DEF RunnerNext, runnerVars, Begin, Stop, Interrupted, RunReceives, EndAttempt, RemoveUpstream, Check,
         CheckReads, CheckEnds, Process, Serves, Exits, WaitReturns, Forks, LetsGo

LEMMA ServersDifferStep == AddressInv /\ [RunnerNext]_runnerVars => ServersDiffer'
<1> SUFFICES ASSUME AddressInv, [RunnerNext]_runnerVars PROVE ServersDiffer'
  OBVIOUS
<1> USE DEF AddressInv, RemovalInv
<1>1. ASSUME UNCHANGED <<ipc, serve>>, \A b \in Attempts : MayRun(b)' => MayRun(b),
             \A b \in Attempts : pc'[b] = "environ" /\ b \notin ended' => pc[b] = "environ" /\ b \notin ended
      PROVE  ServersDiffer'
  BY <1>1, Zenon DEF ServersDiffer
<1>2. ASSUME NEW a \in Attempts, NewAddress(a) PROVE ServersDiffer'
  <2>1. /\ ipc' = a /\ UNCHANGED <<ended, serve, proc>>
        /\ pc[a] = "prepare" /\ pc' = [pc EXCEPT ![a] = "environ"]
    BY <1>2 DEF NewAddress, Goto, contexts
  <2>2. \A b \in Attempts : MayRun(b)' => MayRun(b)
    BY <2>1 DEF MayRun, RunnerTypeOK
  <2>3. \A b \in Attempts : serve[b] # a
    BY <2>1 DEF MadeOnce
  <2>4. QED
    BY <2>1, <2>2, <2>3 DEF ServersDiffer
<1>3. ASSUME NEW a \in Attempts, Environ(a) PROVE ServersDiffer'
  <2>1. /\ serve' = [serve EXCEPT ![a] = ipc] /\ UNCHANGED <<ipc, ended, proc>>
        /\ pc[a] = "environ" /\ pc' = [pc EXCEPT ![a] = "start"]
        /\ proc[a] = "none"
    BY <1>3 DEF Environ, Goto, contexts, Places
  <2>2. \A b \in Attempts : b # a => (MayRun(b)' <=> MayRun(b)) /\ serve'[b] = serve[b]
    BY <2>1 DEF MayRun, RunnerTypeOK
  <2>3. serve'[a] = ipc
    BY <2>1 DEF RunnerTypeOK
  <2>4. MayRun(a)' => a \notin ended
    BY <2>1 DEF MayRun, RunnerTypeOK
  <2>5. \A b \in Attempts : b # a /\ MayRun(a)' /\ MayRun(b) => serve[b] # ipc
    BY <2>1, <2>4 DEF ServersDiffer
  <2>6. \A b, c \in Attempts : b # c /\ MayRun(b)' /\ MayRun(c)' => serve'[b] # serve'[c]
    <3> SUFFICES ASSUME NEW b \in Attempts, NEW c \in Attempts, b # c, MayRun(b)', MayRun(c)'
                 PROVE  serve'[b] # serve'[c]
      OBVIOUS
    <3>1. CASE b # a /\ c # a
      BY <2>2, <3>1 DEF ServersDiffer
    <3>2. CASE b = a
      BY <2>2, <2>3, <2>5, <3>2
    <3>3. CASE c = a
      BY <2>2, <2>3, <2>5, <3>3
    <3>4. QED
      BY <3>1, <3>2, <3>3
  <2>7. ASSUME NEW d \in Attempts, NEW b \in Attempts, d # b, pc'[d] = "environ", d \notin ended', MayRun(b)'
        PROVE  serve'[b] # ipc'
    <3>1. d # a /\ pc[d] = "environ" /\ d \notin ended
      BY <2>1, <2>7 DEF RunnerTypeOK
    <3>2. b # a
      BY <2>1, <2>4, <2>7, <3>1, OneLive
    <3>3. QED
      BY <2>1, <2>2, <2>7, <3>1, <3>2 DEF ServersDiffer
  <2>8. QED
    BY <2>6, <2>7 DEF ServersDiffer
<1>4. ASSUME NEW a \in Attempts, RunnerLaunch(a), ~NewAddress(a), ~Environ(a) PROVE ServersDiffer'
  <2>1. UNCHANGED <<ipc, serve, ended>>
    BY <1>4 DEF RunnerLaunch, PrepareFails, StartFails, StartProcess, LaunchLoop, SelectDone, SelectCheck,
         Sleep, Build, AddUpstream, contexts
  <2>2. \E l \in PCs \ {"environ", "start"} : pc' = [pc EXCEPT ![a] = l]
    BY <1>4 DEF RunnerLaunch, PrepareFails, StartFails, StartProcess, LaunchLoop, SelectDone, SelectCheck,
         Sleep, Build, AddUpstream, Goto, PCs
  <2>3. UNCHANGED proc \/ (StartProcess(a) /\ MayRun(a) /\ \A b \in Attempts : b # a => proc'[b] = proc[b])
    BY <1>4 DEF RunnerLaunch, PrepareFails, StartFails, StartProcess, LaunchLoop, SelectDone, SelectCheck,
         Sleep, Build, AddUpstream, MayRun, RunnerTypeOK
  <2>4. \A b \in Attempts : MayRun(b)' => MayRun(b)
    BY <2>1, <2>2, <2>3 DEF MayRun, RunnerTypeOK
  <2>5. \A b \in Attempts : pc'[b] = "environ" => pc[b] = "environ"
    BY <2>2 DEF RunnerTypeOK
  <2>6. QED
    BY <1>1, <2>1, <2>4, <2>5
<1>5. ASSUME NEW a \in Attempts, Process(a) PROVE ServersDiffer'
  <2>1. /\ UNCHANGED <<ipc, serve, ended, pc>>
        /\ \A b \in Attempts : proc'[b] # "none" => proc[b] # "none"
    BY <1>5 DEF Process, Serves, Exits, WaitReturns, Forks, LetsGo, contexts, RunnerTypeOK
  <2>2. QED
    BY <1>1, <2>1 DEF MayRun
<1>6. CASE UNCHANGED <<ipc, serve, pc, proc>> /\ ended \subseteq ended'
  BY <1>1, <1>6 DEF MayRun
<1>7. QED
  BY <1>2, <1>3, <1>4, <1>5, <1>6
     DEF RunnerNext, runnerVars, network, Begin, Stop, Interrupted, RunReceives, EndAttempt, RemoveUpstream,
         Check, CheckReads, CheckEnds, contexts

LEMMA AddressInvariance == RunnerSpec => []AddressInv
<1>1. RunnerInit => Places /\ MadeOnce /\ ServersDiffer
  BY MaxAttemptsAssumption DEF RunnerInit, Places, MadeOnce, ServersDiffer, MayRun, Attempts
<1>2. RemovalInv => RunnerTypeOK
  BY DEF RemovalInv
<1>3. AddressInv <=> RemovalInv /\ Places /\ MadeOnce /\ ServersDiffer
  BY DEF AddressInv
<1>4. QED
  BY <1>1, <1>2, <1>3, RemovalInvariance, PlacesStep, MadeOnceStep, ServersDifferStep, PTL DEF RunnerSpec


\* A process of a runner has its address for itself.
AddressesDiffer ==
    \A b, c \in Attempts : b # c /\ proc[b] # "none" /\ proc[c] # "none" => serve[b] # serve[c]

\* No two processes of a runner are told to serve at one address, although its
\* attempts share h.ipc and change it under each other (task_run.go:76, 95-118).
THEOREM AddressesAlwaysDiffer == RunnerSpec => []AddressesDiffer
<1>1. AddressInv => AddressesDiffer
  BY DEF AddressInv, ServersDiffer, MayRun, AddressesDiffer
<1>2. QED
  BY <1>1, AddressInvariance, PTL

\* Where the Launch of an attempt goes once it has started a process.
LEMMA LaunchMoves ==
    ASSUME NEW a \in Attempts, RunnerTypeOK, Places, [RunnerNext]_runnerVars
    PROVE  /\ proc[a] = "gone" => proc'[a] = "gone"
           /\ a \in done => a \in done'
           /\ pc[a] = "loop" => pc'[a] \in {"loop", "select", "returned"}
           /\ pc[a] = "loop" /\ a \in done => pc'[a] \in {"loop", "returned"}
           /\ pc[a] = "select" => pc'[a] \in {"select", "sleep", "build", "returned"}
           /\ pc[a] = "sleep" => pc'[a] \in {"sleep", "loop", "returned"}
           /\ pc[a] = "build" => pc'[a] \in {"build", "add"}
           /\ pc[a] = "add" => pc'[a] \in {"add", "returned"}
           /\ pc[a] = "returned" => pc'[a] = "returned"
           /\ pc[a] = "select" /\ pc'[a] = "select" =>
                 /\ check[a] = "called" => check'[a] \in {"called", "dialing"}
                 /\ check[a] = "dialing" => check'[a] \in {"dialing", "yes", "no"}
                 /\ check[a] \in {"yes", "no"} => check'[a] \in {"yes", "no"}
           /\ check[a] = "dialing" => dialed'[a] = dialed[a]
<1> USE DEF RunnerTypeOK
<1>1. CASE UNCHANGED <<pc, check, dialed>> /\ done \subseteq done'
            /\ (proc[a] = "gone" => proc'[a] = "gone")
  <2>1. pc'[a] = pc[a] /\ check'[a] = check[a] /\ dialed'[a] = dialed[a] /\ (a \in done => a \in done')
    BY <1>1
  <2>2. QED
    BY <1>1, <2>1, Zenon
<1>2. ASSUME NEW b \in Attempts, RunnerLaunch(b), b # a PROVE
           /\ pc'[a] = pc[a] /\ proc'[a] = proc[a] /\ check'[a] = check[a] /\ UNCHANGED <<done, dialed>>
  BY <1>2 DEF RunnerLaunch, NewAddress, PrepareFails, Environ, StartFails, StartProcess, LaunchLoop,
              SelectDone, SelectCheck, Sleep, Build, AddUpstream, Goto, checks
<1>3. CASE RunnerLaunch(a)
  BY <1>3 DEF Places, RunnerLaunch, NewAddress, PrepareFails, Environ, StartFails, StartProcess, LaunchLoop,
              SelectDone, SelectCheck, Sleep, Build, AddUpstream, Goto, checks
<1>4. ASSUME NEW b \in Attempts, Check(b) PROVE
           /\ UNCHANGED <<pc, proc, done>>
           /\ check[a] = "called" => check'[a] \in {"called", "dialing"}
           /\ check[a] = "dialing" => check'[a] \in {"dialing", "yes", "no"}
           /\ check[a] \in {"yes", "no"} => check'[a] \in {"yes", "no"}
           /\ check[a] = "dialing" => dialed'[a] = dialed[a]
  BY <1>4 DEF Check, CheckReads, CheckEnds
<1>5. ASSUME NEW b \in Attempts, Process(b) PROVE
           /\ UNCHANGED <<pc, check, dialed>> /\ done \subseteq done'
           /\ proc[a] = "gone" => proc'[a] = "gone"
  BY <1>5 DEF Process, Serves, Exits, WaitReturns, Forks, LetsGo, checks
<1>7. [RunnerNext]_runnerVars => \/ \E b \in Attempts : RunnerLaunch(b) \/ Check(b) \/ Process(b)
                                 \/ UNCHANGED <<pc, check, dialed, done, proc>>
  BY DEF RunnerNext, runnerVars, checks, Begin, Stop, Interrupted, RunReceives, EndAttempt, RemoveUpstream
<1>8. ASSUME NEW b \in Attempts, RunnerLaunch(b), b # a PROVE
           /\ proc[a] = "gone" => proc'[a] = "gone"
           /\ a \in done => a \in done'
           /\ pc'[a] = pc[a] /\ check'[a] = check[a] /\ dialed'[a] = dialed[a]
  BY <1>2, <1>8
<1>9. QED
  BY <1>1, <1>3, <1>4, <1>5, <1>7, <1>8

\* A process that is gone gets no descendants any more.
LEMMA NoneIsForked ==
    ASSUME NEW a \in Attempts, [RunnerNext]_runnerVars, proc[a] = "gone"
    PROVE  a \in held' => a \in held
BY DEF RunnerNext, runnerVars, Begin, Stop, Interrupted, RunReceives, EndAttempt, RemoveUpstream, Check,
       CheckReads, CheckEnds, RunnerLaunch, NewAddress, PrepareFails, Environ, StartFails, StartProcess,
       LaunchLoop, SelectDone, SelectCheck, Sleep, Build, AddUpstream, Process, Serves, Exits, WaitReturns,
       Forks, LetsGo

\* What the steps that must happen do.
LEMMA LaunchProgress ==
    ASSUME NEW a \in Attempts, RunnerTypeOK
    PROVE  /\ RunnerLaunch(a) =>
              /\ pc[a] = "loop" => pc'[a] \in {"select", "returned"}
              /\ pc[a] = "select" => pc'[a] \in {"sleep", "build", "returned"}
              /\ pc[a] = "sleep" => pc'[a] \in {"loop", "returned"}
              /\ pc[a] = "build" => pc'[a] = "add"
              /\ pc[a] = "add" => pc'[a] = "returned"
           /\ CheckReads(a) => check'[a] = "dialing"
           /\ CheckEnds(a) => check'[a] \in {"yes", "no"}
           /\ WaitReturns(a) => a \in done'
           /\ RunReceives(a) => a \in ended'
           /\ KilledByContext(a) => proc'[a] = "gone"
BY DEF RunnerTypeOK, RunnerLaunch, NewAddress, PrepareFails, Environ, StartFails, StartProcess, LaunchLoop,
       SelectDone, SelectCheck, Sleep, Build, AddUpstream, Goto, CheckReads, CheckEnds, WaitReturns,
       RunReceives, EndAttempt, KilledByContext, Exits

\* Attempt b has, or had, the process that serves where a's health check dials.
Serving(a, b) == proc[b] # "none" /\ serve[b] = dialed[a]
NoneServes(a) == \A b \in Attempts : ~Serving(a, b)

\* While the check dials, no process comes that would serve there.
LEMMA ServingStep ==
    ASSUME AddressInv, [RunnerNext]_runnerVars, NEW a \in Attempts,
           proc[a] = "gone", a \notin ended, check[a] = "dialing"
    PROVE  /\ NoneServes(a) => NoneServes(a)'
           /\ \A b \in Attempts : Serving(a, b) => Serving(a, b)'
<1> USE DEF AddressInv, RemovalInv
<1>1. dialed'[a] = dialed[a]
  BY LaunchMoves
<1>2. pc[a] # "prepare" /\ pc[a] # "start"
  BY DEF Places
<1>3. CASE UNCHANGED <<proc, serve>>
  BY <1>1, <1>3, Zenon DEF Serving, NoneServes
<1>4. ASSUME NEW c \in Attempts, Environ(c) PROVE
         /\ proc[c] = "none" /\ UNCHANGED proc
         /\ \A b \in Attempts : b # c => serve'[b] = serve[b]
  BY <1>4 DEF Environ, Places, RunnerTypeOK
<1>5. ASSUME NEW c \in Attempts PROVE ~StartProcess(c)
  BY <1>2, OneLive DEF StartProcess, Places
<1>6. ASSUME NEW c \in Attempts, Process(c) PROVE
         /\ UNCHANGED serve
         /\ \A b \in Attempts : proc'[b] # "none" <=> proc[b] # "none"
  BY <1>6 DEF Process, Serves, Exits, WaitReturns, Forks, LetsGo, RunnerTypeOK
<1>7. \/ UNCHANGED <<proc, serve>>
      \/ \E c \in Attempts : Environ(c) \/ StartProcess(c) \/ Process(c)
  BY DEF RunnerNext, runnerVars, Begin, Stop, Interrupted, RunReceives, EndAttempt, RemoveUpstream, Check,
         CheckReads, CheckEnds, RunnerLaunch, NewAddress, PrepareFails, StartFails, LaunchLoop, SelectDone,
         SelectCheck, Sleep, Build, AddUpstream
<1>8. ASSUME NEW c \in Attempts, Environ(c) PROVE
         \A b \in Attempts : Serving(a, b)' <=> Serving(a, b)
  BY <1>1, <1>4, <1>8 DEF Serving
<1>9. ASSUME NEW c \in Attempts, Process(c) PROVE
         \A b \in Attempts : Serving(a, b)' <=> Serving(a, b)
  BY <1>1, <1>6, <1>9 DEF Serving
<1>10. QED
  BY <1>3, <1>5, <1>7, <1>8, <1>9 DEF NoneServes

\* Whoever answers has ended, and nobody else answers there; once its process is
\* gone, only a descendant of this may.
LEMMA ServerIsOver ==
    ASSUME AddressInv, NEW a \in Attempts, proc[a] = "gone", a \notin ended
    PROVE  /\ NoneServes(a) => ~Answers(dialed[a])
           /\ \A b \in Attempts : Serving(a, b) =>
                 /\ b \in ended \/ proc[b] = "gone"
                 /\ proc[b] = "gone" /\ b \notin held => ~Answers(dialed[a])
<1> USE DEF AddressInv, RemovalInv
<1>1. NoneServes(a) => ~Answers(dialed[a])
  BY DEF NoneServes, Serving, Answers, Places
<1>2. ASSUME NEW b \in Attempts, Serving(a, b) PROVE b \in ended \/ proc[b] = "gone"
  <2>1. pc[a] # "prepare" /\ pc[b] # "prepare"
    BY <1>2 DEF Places, Serving
  <2>2. QED
    BY <2>1, OneLive
<1>3. ASSUME NEW b \in Attempts, Serving(a, b), proc[b] = "gone", b \notin held
      PROVE  ~Answers(dialed[a])
  BY <1>3 DEF ServersDiffer, MayRun, Serving, Answers, Places
<1>4. QED
  BY <1>1, <1>2, <1>3


\* While the process of attempt p is gone and p lives, its health check ends:
\* whoever could answer it belongs to an attempt that has ended, and is killed,
\* or is a descendant of what was killed.
LEMMA ChecksEnd ==
    ASSUME NEW p \in Attempts
    PROVE  RunnerSpec /\ []RunnerFairness /\ []RunnerGoesOn =>
              [](proc[p] = "gone" /\ check[p] = "dialing" =>
                    <>(~(check[p] = "dialing") \/ p \in ended \/ []Withheld(p)))
<1> DEFINE G == proc[p] = "gone"
           E == p \in ended
           Di == check[p] = "dialing"
           Ns == NoneServes(p)
           As == Answers(dialed[p])
           Wt == Withheld(p)
           Q == <>(~Di \/ E \/ []Wt)
           FC(a) == WF_runnerVars(~Answers(dialed[a]) /\ CheckEnds(a))
           FK(a) == WF_runnerVars(KilledByContext(a))
           F(a) == /\ WF_runnerVars(RunnerLaunch(a)) /\ SF_runnerVars(SelectDone(a))
                   /\ WF_runnerVars(CheckReads(a)) /\ WF_runnerVars(~Answers(dialed[a]) /\ CheckEnds(a))
                   /\ WF_runnerVars(KilledByContext(a)) /\ WF_runnerVars(WaitReturns(a))
                   /\ WF_runnerVars(EndTells(a)) /\ WF_runnerVars(RunReceives(a))
                   /\ WF_runnerVars(RemoveUpstream(a))
           EC(a) == ENABLED <<~Answers(dialed[a]) /\ CheckEnds(a)>>_runnerVars
           EK(a) == ENABLED <<KilledByContext(a)>>_runnerVars
<1> SUFFICES ASSUME [][RunnerNext]_runnerVars, []AddressInv, []RunnerFairness, []RunnerGoesOn
             PROVE  [](G /\ Di => Q)
  BY AddressInvariance, PTL DEF RunnerSpec
<1>0. AddressInv => RunnerTypeOK /\ Places
  BY DEF AddressInv, RemovalInv
<1>1. ASSUME NEW q \in Attempts PROVE FC(q) /\ FK(q)
  <2>1. (\A a \in Attempts : F(a)) => F(q)
    <3> HIDE DEF F
    <3> QED OBVIOUS
  <2>2. QED
    BY <2>1, PTL DEF RunnerFairness
<1>2. ASSUME NEW q \in Attempts, RunnerGoesOn
      PROVE  /\ check[q] = "dialing" /\ ~Answers(dialed[q]) => EC(q)
             /\ proc[q] \in {"starting", "serving"} /\ q \in ended => EK(q)
  <2>1. GoesOn(q)
    BY <1>2, AllGoOn
  <2>2. QED
    BY <2>1 DEF GoesOn
<1>3. AddressInv /\ [RunnerNext]_runnerVars =>
        /\ G => G'
        /\ Di /\ G /\ ~E /\ Ns => Ns'
  BY <1>0, LaunchMoves, ServingStep
<1>4. AddressInv /\ G /\ ~E /\ Ns => ~As
  BY ServerIsOver
<1>5. AddressInv /\ <<~Answers(dialed[p]) /\ CheckEnds(p)>>_runnerVars => ~Di'
  BY <1>0, LaunchProgress
<1>6. RunnerGoesOn => (Di /\ ~As => EC(p))
  <2> HIDE DEF EC, EK
  <2> QED BY <1>2
<1>7. FC(p)
  <2> HIDE DEF FC, FK
  <2> QED BY <1>1
<1>8. G /\ Di /\ Ns => Q
  <2> HIDE DEF G, E, Di, Ns, As
  <2> QED BY <1>3, <1>4, <1>5, <1>6, <1>7, PTL
<1>9. (\E b \in Attempts : G /\ Di /\ Serving(p, b)) => Q
  <2> SUFFICES ASSUME NEW b \in Attempts PROVE G /\ Di /\ Serving(p, b) => Q
    <3> HIDE DEF Q
    <3> QED OBVIOUS
  <2> DEFINE O == Serving(p, b)
             K == proc[b] = "gone"
             Hb == b \in held
  <2>1. AddressInv /\ [RunnerNext]_runnerVars =>
          /\ G => G'
          /\ K => K' /\ (Hb' => Hb)
          /\ Di /\ G /\ ~E /\ O => O'
    BY <1>0, LaunchMoves, ServingStep, NoneIsForked
  <2>2. AddressInv /\ G /\ ~E /\ O => (b \in ended \/ K) /\ (K /\ ~Hb => ~As)
    BY ServerIsOver
  <2>3. AddressInv /\ RunnerGoesOn /\ G /\ ~E /\ O /\ ~K => EK(b)
    <3>1. AddressInv /\ O /\ ~K => proc[b] \in {"starting", "serving"}
      BY DEF AddressInv, RemovalInv, RunnerTypeOK, Serving
    <3>2. QED
      <4> HIDE DEF EC, EK
      <4> QED BY <1>2, <2>2, <3>1
  <2>4. AddressInv /\ <<KilledByContext(b)>>_runnerVars => K'
    BY <1>0, LaunchProgress
  <2>5. FK(b)
    <3> HIDE DEF FC, FK
    <3> QED BY <1>1
  <2>9. Di /\ O /\ Hb => Wt
    BY DEF Withheld, Serving
  <2> HIDE DEF G, E, Di, As, O, K, Hb, Wt
  <2>6. G /\ Di /\ O => <>(~Di \/ E \/ (G /\ Di /\ O /\ K))
    BY <2>1, <2>3, <2>4, <2>5, PTL
  <2>7. [](G /\ Di /\ O /\ K => <>(~Di \/ E \/ []Wt))
    BY <1>5, <1>6, <1>7, <2>1, <2>2, <2>9, PTL
  <2>8. QED
    BY <2>6, <2>7, PTL DEF O
<1>10. Ns \/ \E b \in Attempts : Serving(p, b)
  BY DEF NoneServes
<1>11. G /\ Di => (G /\ Di /\ Ns) \/ (\E b \in Attempts : G /\ Di /\ Serving(p, b))
  BY <1>10
<1>12. QED
  BY <1>8, <1>9, <1>11, PTL

\* A process that exits ends its attempt although Launch waits for its server,
\* whatever became of its address: cmd.Wait returns, the health check gets an
\* answer or none, and Launch, back at its loop, finds done (task_run.go:107-136);
\* unless a descendant of a process holds the output, or the connection, for ever.
THEOREM ExitsEndAttempts == RunnerSpec /\ []RunnerFairness /\ []RunnerGoesOn => ExitEndsAttempt
<1> DEFINE X(a) == proc[a] = "gone" ~> (a \in ended \/ []Withheld(a))
<1>1. ASSUME NEW p \in Attempts PROVE RunnerSpec /\ []RunnerFairness /\ []RunnerGoesOn => X(p)
  <2> DEFINE G == proc[p] = "gone"
             E == p \in ended
             Dn == p \in done
             Hp == p \in held
             Wt == Withheld(p)
             At(l) == pc[p] = l
             L == At("loop")
             Se == At("select")
             Sl == At("sleep")
             B == At("build")
             Ad == At("add")
             R == At("returned")
             Ca == check[p] = "called"
             Di == check[p] = "dialing"
             An == check[p] \in {"yes", "no"}
             EL == ENABLED <<RunnerLaunch(p)>>_runnerVars
             ER == ENABLED <<CheckReads(p)>>_runnerVars
             EW == ENABLED <<WaitReturns(p)>>_runnerVars
             EE == ENABLED <<RunReceives(p)>>_runnerVars
             F(a) == /\ WF_runnerVars(RunnerLaunch(a)) /\ SF_runnerVars(SelectDone(a))
                     /\ WF_runnerVars(CheckReads(a)) /\ WF_runnerVars(~Answers(dialed[a]) /\ CheckEnds(a))
                     /\ WF_runnerVars(KilledByContext(a)) /\ WF_runnerVars(WaitReturns(a))
                     /\ WF_runnerVars(EndTells(a)) /\ WF_runnerVars(RunReceives(a))
                     /\ WF_runnerVars(RemoveUpstream(a))
             FL == WF_runnerVars(RunnerLaunch(p))
             FR == WF_runnerVars(CheckReads(p))
             FW == WF_runnerVars(WaitReturns(p))
             FE == WF_runnerVars(RunReceives(p))
  <2>1. RunnerSpec => FL /\ FR /\ FW /\ FE
    <3>1. (\A a \in Attempts : F(a)) => F(p)
      <4> HIDE DEF F
      <4> QED OBVIOUS
    <3>2. QED
      BY <3>1, PTL DEF RunnerSpec, RunnerFairness
  <2>2. AddressInv => RunnerTypeOK /\ Places
    BY DEF AddressInv, RemovalInv
  <2>3. AddressInv /\ [RunnerNext]_runnerVars =>
          /\ G => G' /\ (Hp' => Hp)
          /\ Dn => Dn'
          /\ L /\ Dn => L' \/ R'
          /\ L => L' \/ Se' \/ R'
          /\ Se => Se' \/ Sl' \/ B' \/ R'
          /\ Sl => Sl' \/ L' \/ R'
          /\ B => B' \/ Ad'
          /\ Ad => Ad' \/ R'
          /\ R => R'
          /\ Se /\ Se' => (Ca => Ca' \/ Di') /\ (Di => Di' \/ An') /\ (An => An')
    BY <2>2, LaunchMoves, NoneIsForked
  <2>4. AddressInv =>
          /\ <<RunnerLaunch(p)>>_runnerVars =>
                /\ L => Se' \/ R'
                /\ Se => Sl' \/ B' \/ R'
                /\ Sl => L' \/ R'
                /\ B => Ad'
                /\ Ad => R'
          /\ <<CheckReads(p)>>_runnerVars => Di'
          /\ <<WaitReturns(p)>>_runnerVars => Dn'
          /\ <<RunReceives(p)>>_runnerVars => E'
    BY <2>2, LaunchProgress
  <2>5. AddressInv /\ G => /\ L \/ Se \/ Sl \/ B \/ Ad \/ R
                           /\ Se => Ca \/ Di \/ An
                           /\ p <= begun
    BY MaxAttemptsAssumption DEF AddressInv, RemovalInv, RunnerTypeOK, Beginnings, Places, PCs, Attempts
  <2>6. ASSUME AddressInv, RunnerGoesOn, G
        PROVE  /\ ~R /\ (Se => An) => EL
               /\ Ca => ER
               /\ ~Hp /\ ~Dn => EW
               /\ R /\ Dn /\ ~E => EE
    <3>1. GoesOn(p)
      BY <2>6, AllGoOn
    <3>2. QED
      BY <2>5, <2>6, <3>1 DEF GoesOn
  <2>7. RunnerSpec /\ []RunnerFairness /\ []RunnerGoesOn => [](G /\ Di => <>(~Di \/ E \/ []Wt))
    BY ChecksEnd
  <2>8. /\ Se => ~R /\ ~L /\ ~Sl /\ ~B /\ ~Ad
        /\ B => ~R
        /\ ~(Ca /\ Di) /\ ~(An /\ Di) /\ ~(An /\ Ca)
    OBVIOUS
  <2> DEFINE H == RunnerSpec /\ []RunnerFairness /\ []RunnerGoesOn
             Inv == AddressInv /\ RunnerGoesOn
  <2>9. H => []Inv /\ [][RunnerNext]_runnerVars
    BY AddressInvariance, PTL DEF RunnerSpec
  <2>20. Hp => Wt
    BY DEF Withheld
  <2> HIDE DEF G, E, Dn, Hp, Wt, L, Se, Sl, B, Ad, R, Ca, Di, An
  <2>10. H => [](G => <>([](G /\ Dn) \/ []Wt))
    BY <2>1, <2>3, <2>4, <2>6, <2>9, <2>20, PTL
  <2>11. H => [](G /\ Ad => <>R) /\ [](G /\ B => <>Ad)
    BY <2>1, <2>3, <2>4, <2>6, <2>8, <2>9, PTL
  <2>12. H => [](G /\ Sl => <>(L \/ R)) /\ [](G /\ Dn /\ L => <>R)
    BY <2>1, <2>3, <2>4, <2>6, <2>8, <2>9, PTL
  <2>13. H => [](G /\ Se /\ An => <>(Sl \/ B \/ R))
    BY <2>1, <2>3, <2>4, <2>6, <2>8, <2>9, PTL
  <2>14. H => [](G /\ Se /\ Ca => <>(Sl \/ B \/ R \/ (G /\ Se /\ Di)))
    BY <2>1, <2>3, <2>4, <2>6, <2>8, <2>9, PTL
  <2>15. H => [](G /\ Se /\ Di => <>(Sl \/ B \/ R \/ E \/ []Wt \/ (G /\ Se /\ An)))
    BY <2>3, <2>7, <2>8, <2>9, PTL
  <2>16. H => [](G /\ Dn => <>(R \/ E \/ []Wt))
    BY <2>3, <2>5, <2>9, <2>11, <2>12, <2>13, <2>14, <2>15, PTL
  <2>17. H => [](G /\ Dn /\ R => <>E)
    BY <2>1, <2>3, <2>4, <2>6, <2>9, PTL
  <2>18. H => [](G => <>(E \/ []Wt))
    BY <2>3, <2>9, <2>10, <2>16, <2>17, PTL
  <2>19. QED
    BY <2>18, PTL DEF G, E, Wt
<1>2. ExitEndsAttempt <=> \A a \in Attempts : X(a)
  BY DEF ExitEndsAttempt
<1> HIDE DEF X
<1>3. QED
  BY <1>1, <1>2
=============================================================================

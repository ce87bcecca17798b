--------------------------- MODULE TriggersProofs ---------------------------
(***************************************************************************)
(* A job with its triggers, for any number of requests, callbacks and      *)
(* workers.  Who is inside an operation holds the mutex, and what it knows *)
(* of the job's worker stays true until it leaves: a worker that the job   *)
(* has let go of is ended, killed, or being waited for.  At the end of the *)
(* module, what must happen: an operation that waits for an attempt        *)
(* returns, and "always" launches again a job that was stopped.            *)
(***************************************************************************)
EXTENDS Triggers, FiniteSetTheorems, TLAPS

Inside == {"start", "stop", "disable", "signal", "attempt", "done",
           "kill", "killDisable", "killAttempt"}
Waiting == {"disable", "signal", "attempt", "done"}
Killing == {"killDisable", "killAttempt"}
Told == {"signal", "attempt", "done", "killAttempt"}

\* The mutex is held by the thread that is inside an operation.
Mutex == \A t \in Threads : pc[t] \in Inside <=> mu = t

\* What the thread that holds the mutex knows.
Holding ==
    \A t \in Threads :
        /\ pc[t] \in Waiting => worker = 0 /\ mine[t] \in 1..Len(workers)
        /\ pc[t] \in Killing => worker # 0 /\ mine[t] = worker
        /\ pc[t] \in Told => workers[mine[t]].disabled

\* A worker that is not the job's any more.
Left(i) == i \in 1..Len(workers) /\ i # worker /\ workers[i].phase # "ended"
LeftIsHeld ==
    \A i \in 1..Len(workers) : Left(i) =>
        i \in killed \/ \E t \in Threads : pc[t] \in Waiting /\ mine[t] = i

LeftIsDisabled ==
    \A i \in 1..Len(workers) : Left(i) =>
        workers[i].disabled \/ \E t \in Threads : pc[t] = "disable" /\ mine[t] = i

\* Who shuts the session down has stopped the job before it joins it.
Draining == drain # "no" => pc[Closer] = "returned"

JobInv == TypeOK /\ Mutex /\ Holding /\ LeftIsHeld /\ LeftIsDisabled
IInv == JobInv /\ TriggersTypeOK /\ Draining

-----------------------------------------------------------------------------
(* Workers *)

Workers == [phase : Phases, disabled : BOOLEAN, told : BOOLEAN]

\* The sequence of workers with one of them replaced.
LEMMA Replaced ==
    ASSUME NEW s \in Seq(Workers), NEW i \in 1..Len(s), NEW w \in Workers
    PROVE  /\ [s EXCEPT ![i] = w] \in Seq(Workers)
           /\ Len([s EXCEPT ![i] = w]) = Len(s)
           /\ \A j \in 1..Len(s) : [s EXCEPT ![i] = w][j] = IF j = i THEN w ELSE s[j]
OBVIOUS

\* A step of a worker's goroutine changes the phase of a worker that has not
\* ended, and disables nothing.
LEMMA WorkerStep ==
    ASSUME TypeOK, NEW i \in 1..Len(workers), Worker(i)
    PROVE  /\ workers' \in Seq(Workers) /\ Len(workers') = Len(workers)
           /\ \A j \in 1..Len(workers) :
                /\ workers'[j].disabled = workers[j].disabled
                /\ workers[j].phase = "ended" => workers'[j].phase = "ended"
           /\ UNCHANGED <<worker, mu, pc, mine, jctx, killed>>
<1>1. PICK p \in Phases : Move(i, p) /\ workers[i].phase # "ended"
  BY DEF Worker, WorkerLaunches, WorkerWithdraws, WorkerGrants, WorkerFinishes, AttemptEnds,
         W!Launch, W!Withdraw, W!Grant, W!Finish, W!AttemptEnd, W!Step, Phases
<1> DEFINE w == [workers[i] EXCEPT !.phase = p, !.told = @ /\ p = "attempt"]
<1>2. workers \in Seq(Workers)
  BY DEF TypeOK, Workers
<1>3. workers[i] \in Workers
  BY <1>2
<1>4. w \in Workers /\ w.disabled = workers[i].disabled
  BY <1>3 DEF Workers
<1>5. workers' = [workers EXCEPT ![i] = w]
  BY <1>1, <1>3 DEF Move, Workers
<1>6. workers' \in Seq(Workers) /\ Len(workers') = Len(workers)
      /\ \A j \in 1..Len(workers) : workers'[j] = IF j = i THEN w ELSE workers[j]
  BY <1>2, <1>4, <1>5, Replaced
<1>7. \A j \in 1..Len(workers) : workers'[j].disabled = workers[j].disabled
                                  /\ (workers[j].phase = "ended" => workers'[j].phase = "ended")
  BY <1>1, <1>4, <1>6
<1>8. QED
  BY <1>1, <1>6, <1>7 DEF Move

-----------------------------------------------------------------------------
(* The mutex *)

\* Who is inside an operation is there alone.
LEMMA Alone ==
    ASSUME Mutex, NEW t \in Threads, pc[t] \in Inside
    PROVE  mu = t /\ \A s \in Threads \ {t} : pc[s] \notin Inside
BY DEF Mutex

\* The thread goes from one step of its operation to another.
LEMMA Stays ==
    ASSUME TypeOK, Mutex, NEW t \in Threads, pc[t] \in Inside, NEW l \in Inside,
           Goto(t, l), UNCHANGED mu
    PROVE  /\ pc' \in [Threads -> PCs] /\ mu' \in Threads \cup {NoThread} /\ Mutex'
           /\ pc'[t] = l
           /\ \A s \in Threads \ {t} : pc[s] \notin Inside /\ pc'[s] = pc[s]
<1>1. l \in PCs /\ pc \in [Threads -> PCs] /\ mu \in Threads \cup {NoThread}
  BY DEF TypeOK, PCs, Inside
<1>2. pc' = [pc EXCEPT ![t] = l] /\ mu' = mu
  BY DEF Goto
<1>3. mu = t /\ \A s \in Threads \ {t} : pc[s] \notin Inside
  BY Alone
<1>4. Mutex'
  BY <1>1, <1>2, <1>3 DEF Mutex
<1>5. QED
  BY <1>1, <1>2, <1>3, <1>4

\* The thread leaves its operation, and nobody is in one.
LEMMA Leaves ==
    ASSUME TypeOK, Mutex, NEW t \in Threads, pc[t] \in Inside, NEW l \in {"join", "returned"},
           Unlock(t, l)
    PROVE  /\ pc' \in [Threads -> PCs] /\ mu' \in Threads \cup {NoThread} /\ Mutex'
           /\ \A s \in Threads : pc'[s] \notin Inside
           /\ \A s \in Threads \ {t} : pc[s] \notin Inside /\ pc'[s] = pc[s]
<1>1. l \in PCs /\ l \notin Inside /\ pc \in [Threads -> PCs]
  BY DEF TypeOK, PCs, Inside
<1>2. pc' = [pc EXCEPT ![t] = l] /\ mu' = NoThread
  BY DEF Unlock, Goto
<1>3. \A s \in Threads \ {t} : pc[s] \notin Inside
  BY Alone
<1>4. \A s \in Threads : pc'[s] \notin Inside
  BY <1>1, <1>2, <1>3
<1>5. Mutex'
  BY <1>2, <1>4, ThreadsAssumption DEF Mutex
<1>6. QED
  BY <1>1, <1>2, <1>3, <1>4, <1>5

LEMMA InsideParts == Waiting \subseteq Inside /\ Killing \subseteq Inside /\ Told \subseteq Inside
BY DEF Inside, Waiting, Killing, Told

\* A thread that is inside an operation, but waits for no worker, need not be
\* reckoned with.
LEMMA NobodyWaits ==
    ASSUME JobInv, NEW t \in Threads, pc[t] \in Inside \ Waiting
    PROVE  \A i \in 1..Len(workers) : Left(i) => i \in killed /\ workers[i].disabled
<1>1. \A s \in Threads : pc[s] \notin Waiting
  BY Alone, InsideParts DEF JobInv
<1>2. \A s \in Threads : pc[s] # "disable"
  BY <1>1 DEF Waiting
<1>3. QED
  BY <1>1, <1>2 DEF JobInv, LeftIsHeld, LeftIsDisabled

-----------------------------------------------------------------------------
(* The job's operations *)

LEMMA InitInv == TriggersInit => IInv
<1> SUFFICES ASSUME TriggersInit PROVE IInv
  OBVIOUS
<1> USE DEF TriggersInit, Init
<1>1. Len(workers) = 0 /\ workers \in Seq(Workers)
  BY DEF Workers
<1>2. TypeOK
  <2>1. workers \in Seq(Workers) /\ worker \in 0..Len(workers) /\ killed \subseteq 1..Len(workers)
    BY <1>1
  <2>2. mine \in [Threads -> 0..Len(workers)] /\ pc \in [Threads -> PCs]
    BY <1>1 DEF PCs
  <2>3. QED
    BY <2>1, <2>2 DEF TypeOK, Workers
<1>3. Mutex /\ Draining
  BY ThreadsAssumption DEF Mutex, Inside, Draining
<1>4. Holding /\ LeftIsHeld /\ LeftIsDisabled
  BY <1>1 DEF Holding, Waiting, Killing, Told, LeftIsHeld, LeftIsDisabled
<1>5. Len(Sources) \in Nat
  BY SourcesAssumption
<1>6. TriggersTypeOK
  BY <1>2, <1>5 DEF TriggersTypeOK
<1>7. QED
  BY <1>2, <1>3, <1>4, <1>6 DEF IInv, JobInv

LEMMA LockStep ==
    ASSUME JobInv, NEW t \in Threads, Lock(t) PROVE JobInv'
<1>1. PICK l \in {"start", "stop", "kill"} : Goto(t, l)
  BY OpAssumption DEF Lock, Ops
<1>2. /\ pc' = [pc EXCEPT ![t] = l] /\ pc[t] = "idle" /\ mu = NoThread /\ mu' = t
      /\ UNCHANGED <<workers, worker, mine, jctx, killed>> /\ pc \in [Threads -> PCs]
  BY <1>1 DEF Goto, Lock, JobInv, TypeOK
<1>3. \A s \in Threads : pc[s] \notin Inside
  BY <1>2, ThreadsAssumption DEF JobInv, Mutex
<1>4. TypeOK'
  BY <1>2 DEF JobInv, TypeOK, PCs
<1>5. Mutex'
  BY <1>2, <1>3 DEF Mutex, Inside
<1>6. Holding'
  BY <1>2, <1>3, InsideParts DEF Holding, Waiting, Killing, Told
<1>7. LeftIsHeld' /\ LeftIsDisabled'
  <2>1. \A i \in 1..Len(workers) : Left(i) => i \in killed /\ workers[i].disabled
    BY <1>3, InsideParts DEF JobInv, LeftIsHeld, LeftIsDisabled, Waiting
  <2>2. QED
    BY <1>2, <2>1 DEF LeftIsHeld, LeftIsDisabled, Left
<1>8. QED
  BY <1>4, <1>5, <1>6, <1>7 DEF JobInv

LEMMA JoinStep ==
    ASSUME JobInv, NEW t \in Threads, Join(t) PROVE JobInv'
<1>1. /\ pc' = [pc EXCEPT ![t] = "returned"] /\ pc[t] = "join" /\ pc \in [Threads -> PCs]
      /\ UNCHANGED <<workers, worker, mu, mine, jctx, killed>>
  BY DEF Goto, Join, JobInv, TypeOK
<1>2. TypeOK'
  BY <1>1 DEF JobInv, TypeOK, PCs
<1>3. Mutex' /\ Holding'
  BY <1>1 DEF JobInv, Mutex, Holding, Inside, Waiting, Killing, Told
<1>4. LeftIsHeld' /\ LeftIsDisabled'
  BY <1>1 DEF JobInv, LeftIsHeld, LeftIsDisabled, Left, Waiting
<1>5. QED
  BY <1>2, <1>3, <1>4 DEF JobInv

LEMMA StartLockedStep ==
    ASSUME JobInv, NEW t \in Threads, StartLocked(t) PROVE JobInv'
<1>1. TypeOK /\ Mutex /\ pc[t] = "start" /\ UNCHANGED <<jctx, killed>>
      /\ mine' = [mine EXCEPT ![t] = worker']
  BY DEF JobInv, StartLocked
<1>2. /\ pc' \in [Threads -> PCs] /\ mu' \in Threads \cup {NoThread} /\ Mutex'
      /\ \A s \in Threads : pc'[s] \notin Inside
  BY <1>1, Leaves DEF StartLocked, Inside
<1>3. \A i \in 1..Len(workers) : Left(i) => i \in killed /\ workers[i].disabled
  BY <1>1, NobodyWaits DEF Inside, Waiting
<1>4. /\ workers \in Seq(Workers) /\ worker \in 0..Len(workers) /\ Len(workers) \in Nat
      /\ killed \subseteq 1..Len(workers) /\ mine \in [Threads -> 0..Len(workers)]
      /\ jctx \in BOOLEAN
  BY <1>1 DEF TypeOK, Workers
<1>5. \/ workers' = workers /\ worker' = worker
      \/ worker = 0 /\ workers' = Append(workers, Fresh) /\ worker' = Len(workers) + 1
  BY DEF StartLocked
<1>6. Fresh \in Workers
  BY DEF Fresh, Workers, Phases
<1>7. /\ workers' \in Seq(Workers) /\ worker' \in 0..Len(workers') /\ Len(workers') \in Nat
      /\ Len(workers) <= Len(workers')
      /\ \A i \in 1..Len(workers') :
           i # worker' => i \in 1..Len(workers) /\ workers'[i] = workers[i] /\ i # worker
  <2>1. CASE workers' = workers /\ worker' = worker
    BY <1>4, <2>1
  <2>2. CASE worker = 0 /\ workers' = Append(workers, Fresh) /\ worker' = Len(workers) + 1
    BY <1>4, <1>6, <2>2
  <2>3. QED
    BY <1>5, <2>1, <2>2
<1>8. TypeOK'
  <2>1. mine' \in [Threads -> 0..Len(workers')]
    BY <1>1, <1>4, <1>7
  <2>2. killed' \subseteq 1..Len(workers')
    BY <1>1, <1>4, <1>7
  <2>3. QED
    BY <1>1, <1>2, <1>4, <1>7, <2>1, <2>2 DEF TypeOK, Workers
<1>9. Holding'
  BY <1>2, InsideParts DEF Holding
<1>10. LeftIsHeld' /\ LeftIsDisabled'
  BY <1>1, <1>3, <1>7 DEF LeftIsHeld, LeftIsDisabled, Left
<1>11. QED
  BY <1>2, <1>8, <1>9, <1>10 DEF JobInv

\* What both ends of a stop without a worker, or with one that has ended, do.
LEMMA StopIsOverStep ==
    ASSUME JobInv, NEW t \in Threads, pc[t] \in {"stop", "done"}, StopIsOver(t),
           pc[t] = "done" => workers[mine[t]].phase = "ended",
           UNCHANGED <<workers, worker, mine, jctx, killed>>
    PROVE  JobInv'
<1>1. TypeOK /\ Mutex /\ pc[t] \in Inside
  BY DEF JobInv, Inside
<1>2. /\ pc' \in [Threads -> PCs] /\ mu' \in Threads \cup {NoThread} /\ Mutex'
      /\ \A s \in Threads : pc'[s] \notin Waiting \cup Killing \cup Told
      /\ \A s \in Threads \ {t} : pc[s] \notin Inside
  <2>1. CASE Op[t] = "restart"
    <3>1. /\ pc' \in [Threads -> PCs] /\ mu' \in Threads \cup {NoThread} /\ Mutex'
          /\ pc'[t] = "start"
          /\ \A s \in Threads \ {t} : pc[s] \notin Inside /\ pc'[s] = pc[s]
      BY <1>1, <2>1, Stays, "start" \in Inside DEF StopIsOver, Inside
    <3>2. QED
      BY <3>1, InsideParts DEF Waiting, Killing, Told
  <2>2. CASE Op[t] # "restart"
    BY <1>1, <2>2, Leaves, InsideParts DEF StopIsOver
  <2>3. QED
    BY <2>1, <2>2
<1>3. TypeOK'
  BY <1>1, <1>2 DEF TypeOK
<1>4. Holding'
  BY <1>2 DEF Holding
<1>5. \A i \in 1..Len(workers) : Left(i) => i \in killed /\ workers[i].disabled
  <2>1. CASE pc[t] = "stop"
    BY <2>1, NobodyWaits DEF Inside, Waiting
  <2>2. CASE pc[t] = "done"
    <3>1. \A s \in Threads : pc[s] # "disable"
      BY <1>2, <2>2 DEF Inside
    <3>2. \A i \in 1..Len(workers) : Left(i) => \A s \in Threads : pc[s] \in Waiting => mine[s] # i
      BY <1>2, <2>2, InsideParts DEF Left
    <3>3. QED
      BY <3>1, <3>2 DEF JobInv, LeftIsHeld, LeftIsDisabled
  <2>3. QED
    BY <2>1, <2>2
<1>6. LeftIsHeld' /\ LeftIsDisabled'
  BY <1>5 DEF LeftIsHeld, LeftIsDisabled, Left
<1>7. QED
  BY <1>2, <1>3, <1>4, <1>6 DEF JobInv

LEMMA StopLockedStep ==
    ASSUME JobInv, NEW t \in Threads, StopLocked(t) PROVE JobInv'
<1>1. TypeOK /\ Mutex /\ pc[t] = "stop" /\ pc[t] \in Inside
  BY DEF JobInv, StopLocked, Inside
<1>2. CASE worker = 0
  BY <1>1, <1>2, StopIsOverStep DEF StopLocked
<1>3. CASE worker # 0
  <2>1. /\ Goto(t, "disable") /\ mine' = [mine EXCEPT ![t] = worker] /\ worker' = 0
        /\ UNCHANGED <<mu, workers, jctx, killed>>
    BY <1>3 DEF StopLocked
  <2>2. /\ pc' \in [Threads -> PCs] /\ mu' \in Threads \cup {NoThread} /\ Mutex'
        /\ pc'[t] = "disable"
        /\ \A s \in Threads \ {t} : pc[s] \notin Inside /\ pc'[s] = pc[s]
    BY <1>1, <2>1, Stays, "disable" \in Inside DEF Inside
  <2>3. /\ worker \in 1..Len(workers) /\ mine' \in [Threads -> 0..Len(workers)]
        /\ mine'[t] = worker /\ 0 \in 0..Len(workers)
    BY <1>1, <1>3, <2>1 DEF TypeOK
  <2>4. TypeOK'
    BY <1>1, <2>1, <2>2, <2>3 DEF TypeOK
  <2>5. Holding'
    BY <2>1, <2>2, <2>3, InsideParts DEF Holding, Waiting, Killing, Told
  <2>6. \A i \in 1..Len(workers) : Left(i) => i \in killed /\ workers[i].disabled
    BY <1>1, NobodyWaits DEF Waiting
  <2>7. \A i \in 1..Len(workers) : Left(i)' => Left(i) \/ i = mine'[t]
    BY <2>1, <2>3 DEF Left
  <2>8. LeftIsHeld' /\ LeftIsDisabled'
    BY <2>1, <2>2, <2>6, <2>7 DEF LeftIsHeld, LeftIsDisabled, Waiting
  <2>9. QED
    BY <2>2, <2>4, <2>5, <2>8 DEF JobInv
<1>4. QED
  BY <1>2, <1>3

\* A step within a stop or a kill, which may disable or tell the worker.
LEMMA WithinStep ==
    ASSUME JobInv, NEW t \in Threads, NEW l \in Told, pc[t] \in Waiting \cup Killing, Goto(t, l),
           pc[t] \in Waiting <=> l \in Waiting,
           workers' \in Seq(Workers), Len(workers') = Len(workers),
           \A i \in 1..Len(workers) : /\ workers'[i].phase = workers[i].phase
                                      /\ workers[i].disabled => workers'[i].disabled,
           workers'[mine[t]].disabled,
           UNCHANGED <<worker, mu, mine, jctx, killed>>
    PROVE  JobInv'
<1>1. TypeOK /\ Mutex /\ pc[t] \in Inside /\ l \in Inside
  BY InsideParts DEF JobInv
<1>2. /\ pc' \in [Threads -> PCs] /\ mu' \in Threads \cup {NoThread} /\ Mutex' /\ pc'[t] = l
      /\ \A s \in Threads \ {t} : pc[s] \notin Inside /\ pc'[s] = pc[s]
  BY <1>1, Stays
<1>3. TypeOK'
  BY <1>1, <1>2 DEF TypeOK, Workers
<1>4. Holding'
  <2>1. \A s \in Threads \ {t} : pc'[s] \notin Waiting \cup Killing \cup Told
    BY <1>2, InsideParts
  <2>2. (l \in Waiting => worker = 0 /\ mine[t] \in 1..Len(workers))
        /\ (l \in Killing => worker # 0 /\ mine[t] = worker)
    BY DEF JobInv, Holding, Waiting, Killing, Told
  <2>3. QED
    BY <1>2, <2>1, <2>2 DEF Holding
<1>5. \A i \in 1..Len(workers) : Left(i)' => Left(i)
  BY DEF Left
<1>6. LeftIsHeld'
  BY <1>2, <1>5, InsideParts DEF JobInv, LeftIsHeld
<1>7. LeftIsDisabled'
  <2>1. \A s \in Threads : pc[s] = "disable" => s = t
    BY <1>2 DEF Inside
  <2>2. \A i \in 1..Len(workers) : Left(i)' => workers'[i].disabled
    BY <1>5, <2>1 DEF JobInv, LeftIsDisabled
  <2>3. QED
    BY <2>2 DEF LeftIsDisabled
<1>8. QED
  BY <1>2, <1>3, <1>4, <1>6, <1>7 DEF JobInv

\* A worker's flag is set.
LEMMA Flagged ==
    ASSUME TypeOK, NEW i \in 1..Len(workers),
           \/ workers' = [workers EXCEPT ![i].disabled = TRUE]
           \/ workers' = [workers EXCEPT ![i].told = TRUE]
    PROVE  /\ workers' \in Seq(Workers) /\ Len(workers') = Len(workers)
           /\ \A j \in 1..Len(workers) : /\ workers'[j].phase = workers[j].phase
                                         /\ workers[j].disabled => workers'[j].disabled
           /\ workers' = [workers EXCEPT ![i].disabled = TRUE] => workers'[i].disabled
<1>1. workers \in Seq(Workers)
  BY DEF TypeOK, Workers
<1>2. workers[i] \in Workers
  BY <1>1
<1> DEFINE d == [workers[i] EXCEPT !.disabled = TRUE]
           o == [workers[i] EXCEPT !.told = TRUE]
<1>3. d \in Workers /\ d.disabled /\ d.phase = workers[i].phase
  BY <1>2, Zenon DEF Workers
<1>4. o \in Workers /\ o.disabled = workers[i].disabled /\ o.phase = workers[i].phase
  BY <1>2, Zenon DEF Workers
<1>5. CASE workers' = [workers EXCEPT ![i].disabled = TRUE]
  <2>1. workers' = [workers EXCEPT ![i] = d]
    BY <1>5
  <2>2. workers' \in Seq(Workers) /\ Len(workers') = Len(workers)
        /\ \A j \in 1..Len(workers) : workers'[j] = IF j = i THEN d ELSE workers[j]
    BY <1>1, <1>3, <2>1, Replaced
  <2>3. QED
    BY <1>3, <2>2
<1>6. CASE workers' = [workers EXCEPT ![i].told = TRUE]
               /\ workers' # [workers EXCEPT ![i].disabled = TRUE]
  <2>1. workers' = [workers EXCEPT ![i] = o]
    BY <1>6
  <2>2. workers' \in Seq(Workers) /\ Len(workers') = Len(workers)
        /\ \A j \in 1..Len(workers) : workers'[j] = IF j = i THEN o ELSE workers[j]
    BY <1>1, <1>4, <2>1, Replaced
  <2>3. QED
    BY <1>4, <1>6, <2>2
<1>7. QED
  BY <1>5, <1>6

LEMMA StopStep ==
    ASSUME JobInv, NEW t \in Threads,
           StopDisable(t) \/ StopSignal(t) \/ StopAttemptOver(t) \/ KillDisable(t)
    PROVE  JobInv'
<1>1. TypeOK /\ pc[t] \in Waiting \cup Killing
  BY DEF JobInv, StopDisable, StopSignal, StopAttemptOver, KillDisable, Waiting, Killing
<1>2. mine[t] \in 1..Len(workers) /\ (pc[t] \in Told => workers[mine[t]].disabled)
  BY <1>1 DEF JobInv, Holding, TypeOK
<1>3. workers \in Seq(Workers)
  BY <1>1 DEF TypeOK, Workers
<1>4. CASE StopDisable(t) \/ KillDisable(t)
  <2>1. workers' = [workers EXCEPT ![mine[t]].disabled = TRUE]
    BY <1>4 DEF StopDisable, KillDisable
  <2>2. /\ workers' \in Seq(Workers) /\ Len(workers') = Len(workers)
        /\ \A j \in 1..Len(workers) : /\ workers'[j].phase = workers[j].phase
                                      /\ workers[j].disabled => workers'[j].disabled
        /\ workers'[mine[t]].disabled
    BY <1>1, <1>2, <2>1, Flagged
  <2>3. PICK l \in Told : Goto(t, l) /\ (pc[t] \in Waiting <=> l \in Waiting)
    BY <1>4, "signal" \in Told, "killAttempt" \in Told
      DEF StopDisable, KillDisable, Told, Waiting
  <2>4. UNCHANGED <<worker, mu, mine, jctx, killed>>
    BY <1>4 DEF StopDisable, KillDisable
  <2>5. QED
    BY <1>1, <2>2, <2>3, <2>4, WithinStep
<1>5. CASE StopSignal(t) \/ StopAttemptOver(t)
  <2>1. PICK l \in {"attempt", "done"} : Goto(t, l)
    BY <1>5 DEF StopSignal, StopAttemptOver
  <2>2. pc[t] \in Told \cap Waiting /\ l \in Told \cap Waiting
    BY <1>5 DEF StopSignal, StopAttemptOver, Told, Waiting
  <2>3. /\ workers' \in Seq(Workers) /\ Len(workers') = Len(workers)
        /\ \A j \in 1..Len(workers) : /\ workers'[j].phase = workers[j].phase
                                      /\ workers[j].disabled => workers'[j].disabled
    <3>1. CASE workers' = [workers EXCEPT ![mine[t]].told = TRUE]
      BY <1>1, <1>2, <3>1, Flagged
    <3>2. CASE workers' = workers
      BY <1>3, <3>2
    <3>3. QED
      BY <1>5, <3>1, <3>2 DEF StopSignal, StopAttemptOver
  <2>4. workers'[mine[t]].disabled
    BY <1>2, <2>2, <2>3
  <2>5. UNCHANGED <<worker, mu, mine, jctx, killed>>
    BY <1>5 DEF StopSignal, StopAttemptOver
  <2>6. QED
    BY <1>1, <2>1, <2>2, <2>3, <2>4, <2>5, WithinStep
<1>6. QED
  BY <1>4, <1>5

LEMMA KillLockedStep ==
    ASSUME JobInv, NEW t \in Threads, KillLocked(t) PROVE JobInv'
<1>1. TypeOK /\ Mutex /\ pc[t] = "kill" /\ pc[t] \in Inside
      /\ UNCHANGED <<workers, worker, jctx, killed>>
  BY DEF JobInv, KillLocked, Inside
<1>2. \A i \in 1..Len(workers) : Left(i) => i \in killed /\ workers[i].disabled
  BY <1>1, NobodyWaits DEF Waiting
<1>3. LeftIsHeld' /\ LeftIsDisabled'
  BY <1>1, <1>2 DEF LeftIsHeld, LeftIsDisabled, Left
<1>4. CASE worker = 0
  <2>1. /\ pc' \in [Threads -> PCs] /\ mu' \in Threads \cup {NoThread} /\ Mutex'
        /\ \A s \in Threads : pc'[s] \notin Inside
    BY <1>1, <1>4, Leaves DEF KillLocked
  <2>2. Holding'
    BY <2>1, InsideParts DEF Holding
  <2>3. TypeOK'
    BY <1>1, <1>4, <2>1 DEF TypeOK, KillLocked
  <2>4. QED
    BY <1>3, <2>1, <2>2, <2>3 DEF JobInv
<1>5. CASE worker # 0
  <2>1. Goto(t, "killDisable") /\ mine' = [mine EXCEPT ![t] = worker] /\ UNCHANGED mu
    BY <1>5 DEF KillLocked
  <2>2. /\ pc' \in [Threads -> PCs] /\ mu' \in Threads \cup {NoThread} /\ Mutex'
        /\ pc'[t] = "killDisable"
        /\ \A s \in Threads \ {t} : pc[s] \notin Inside /\ pc'[s] = pc[s]
    BY <1>1, <2>1, Stays, "killDisable" \in Inside DEF Inside
  <2>3. mine' \in [Threads -> 0..Len(workers)] /\ mine'[t] = worker
    BY <1>1, <2>1 DEF TypeOK
  <2>4. TypeOK'
    BY <1>1, <2>2, <2>3 DEF TypeOK
  <2>5. Holding'
    BY <1>1, <1>5, <2>2, <2>3, InsideParts DEF Holding, Waiting, Killing, Told
  <2>6. QED
    BY <1>3, <2>2, <2>4, <2>5 DEF JobInv
<1>6. QED
  BY <1>4, <1>5

LEMMA KillAttemptStep ==
    ASSUME JobInv, NEW t \in Threads, KillAttempt(t) PROVE JobInv'
<1>1. /\ TypeOK /\ Mutex /\ pc[t] = "killAttempt" /\ pc[t] \in Inside
      /\ Unlock(t, "returned") /\ worker' = 0 /\ killed' = killed \cup {mine[t]}
      /\ UNCHANGED <<mine, jctx>>
  BY DEF JobInv, KillAttempt, Inside
<1>2. worker \in 1..Len(workers) /\ mine[t] = worker /\ workers[worker].disabled
  BY <1>1 DEF JobInv, Holding, Killing, Told, TypeOK
<1>3. workers \in Seq(Workers) /\ 0 \in 0..Len(workers)
  BY <1>1 DEF TypeOK, Workers
<1>4. workers[worker] \in Workers
  BY <1>2, <1>3
<1> DEFINE w == [workers[worker] EXCEPT !.phase = IF @ = "attempt" THEN "idle" ELSE @,
                                        !.told = FALSE]
<1>5. w \in Workers /\ w.disabled = workers[worker].disabled
  BY <1>4 DEF Workers, Phases
<1>6. workers' = [workers EXCEPT ![worker] = w]
  BY <1>2, <1>4 DEF KillAttempt, Workers
<1>7. workers' \in Seq(Workers) /\ Len(workers') = Len(workers)
      /\ \A j \in 1..Len(workers) : workers'[j] = IF j = worker THEN w ELSE workers[j]
  BY <1>2, <1>3, <1>5, <1>6, Replaced
<1>8. /\ pc' \in [Threads -> PCs] /\ mu' \in Threads \cup {NoThread} /\ Mutex'
      /\ \A s \in Threads : pc'[s] \notin Inside
  BY <1>1, Leaves
<1>9. TypeOK'
  BY <1>1, <1>2, <1>3, <1>7, <1>8 DEF TypeOK, Workers
<1>10. Holding'
  BY <1>8, InsideParts DEF Holding
<1>11. \A i \in 1..Len(workers) : Left(i) => i \in killed /\ workers[i].disabled
  BY <1>1, NobodyWaits DEF Waiting
<1>12. LeftIsHeld' /\ LeftIsDisabled'
  <2>1. \A i \in 1..Len(workers) : Left(i)' => i \in killed' /\ workers'[i].disabled
    BY <1>1, <1>2, <1>5, <1>7, <1>11 DEF Left
  <2>2. QED
    BY <1>7, <2>1 DEF LeftIsHeld, LeftIsDisabled
<1>13. QED
  BY <1>8, <1>9, <1>10, <1>12 DEF JobInv

LEMMA OperationStep ==
    ASSUME JobInv, NEW t \in Threads, Locked(t) \/ Join(t) PROVE JobInv'
<1>1. CASE StopDone(t)
  BY <1>1, StopIsOverStep DEF StopDone
<1>2. CASE Join(t)
  BY <1>2, JoinStep
<1>3. CASE Locked(t) /\ ~StopDone(t)
  BY <1>3, StartLockedStep, StopLockedStep, StopStep, KillLockedStep, KillAttemptStep DEF Locked
<1>4. QED
  BY <1>1, <1>2, <1>3

\* What does not concern the job's operations: workers that make progress or
\* end, and a thread outside the operations that looks at another worker.
LEMMA OutsideStep ==
    ASSUME JobInv, workers' \in Seq(Workers), Len(workers') = Len(workers),
           \A i \in 1..Len(workers) :
               /\ workers'[i].disabled = workers[i].disabled
               /\ workers[i].phase = "ended" => workers'[i].phase = "ended",
           mine' \in [Threads -> 0..Len(workers)], pc' \in [Threads -> PCs], jctx' \in BOOLEAN,
           \A t \in Threads : \/ pc'[t] = pc[t] /\ mine'[t] = mine[t]
                              \/ pc[t] \notin Inside /\ pc'[t] \notin Inside,
           UNCHANGED <<worker, mu, killed>>
    PROVE  JobInv'
<1>1. TypeOK'
  BY DEF JobInv, TypeOK, Workers
<1>2. Mutex'
  BY DEF JobInv, Mutex
<1>3. \A t \in Threads : /\ pc'[t] \in Waiting <=> pc[t] \in Waiting
                         /\ pc'[t] \in Killing <=> pc[t] \in Killing
                         /\ pc'[t] \in Told <=> pc[t] \in Told
                         /\ pc'[t] = "disable" <=> pc[t] = "disable"
                         /\ pc[t] \in Inside => mine'[t] = mine[t]
  BY InsideParts DEF Inside
<1>4. Holding'
  <2>1. \A t \in Threads : pc[t] \in Waiting \cup Killing => mine[t] \in 1..Len(workers)
    BY DEF JobInv, Holding, TypeOK
  <2>2. Told \subseteq Waiting \cup Killing
    BY DEF Told, Waiting, Killing
  <2>3. QED
    BY <1>3, <2>1, <2>2, InsideParts DEF JobInv, Holding
<1>5. \A i \in 1..Len(workers) : Left(i)' => Left(i)
  BY DEF Left
<1>6. LeftIsHeld'
  BY <1>3, <1>5, InsideParts DEF JobInv, LeftIsHeld
<1>7. LeftIsDisabled'
  BY <1>3, <1>5, "disable" \in Inside DEF JobInv, LeftIsDisabled, Inside
<1>8. QED
  BY <1>1, <1>2, <1>4, <1>6, <1>7 DEF JobInv

LEMMA CancelContextStep ==
    ASSUME JobInv, CancelContext PROVE JobInv'
<1>1. workers \in Seq(Workers) /\ Len(workers) \in Nat
  BY DEF JobInv, TypeOK, Workers
<1>2. \A i \in 1..Len(workers) : workers[i] \in Workers
  BY <1>1
<1> DEFINE w(i) == [workers[i] EXCEPT !.phase = "ended", !.told = FALSE]
<1>3. \A i \in 1..Len(workers) : w(i) \in Workers /\ w(i).phase = "ended"
                                  /\ w(i).disabled = workers[i].disabled
  BY <1>2 DEF Workers, Phases
<1>4. workers' = [i \in 1..Len(workers) |-> w(i)]
      /\ UNCHANGED <<worker, mu, pc, mine, killed>> /\ jctx' \in BOOLEAN
  BY DEF CancelContext
<1>5. workers' \in Seq(Workers) /\ Len(workers') = Len(workers)
  <2> HIDE DEF w
  <2>1. QED
    BY <1>1, <1>3, <1>4
<1>6. \A i \in 1..Len(workers) : workers'[i] = w(i)
  BY <1>4
<1>7. mine \in [Threads -> 0..Len(workers)] /\ pc \in [Threads -> PCs]
  BY DEF JobInv, TypeOK
<1>8. QED
  BY <1>3, <1>4, <1>5, <1>6, <1>7, OutsideStep

-----------------------------------------------------------------------------
(* The triggers and the shutdown *)

Quiet == UNCHANGED <<workers, worker, mu, pc, mine, jctx, killed>>

LEMMA QuietStep ==
    ASSUME JobInv, Quiet PROVE JobInv'
BY DEF Quiet, JobInv, TypeOK, Mutex, Holding, LeftIsHeld, LeftIsDisabled, Left

\* A step that leaves the job alone and shows the types of its own variables.
OwnType ==
    /\ ready \in 0..(2 * Len(Sources))
    /\ removed \subseteq Roles
    /\ go \in [Callbacks -> {"none", "loop", "call", "in", "over"}]
    /\ drain \in {"no", "look", "wait", "close", "closed"}
    /\ up \in BOOLEAN

LEMMA OwnStep ==
    ASSUME IInv, Quiet, OwnType', drain' # "no" => pc[Closer] = "returned" PROVE IInv'
<1>1. JobInv'
  BY QuietStep DEF IInv
<1>2. Draining'
  BY DEF Draining, Quiet
<1>3. QED
  BY <1>1, <1>2 DEF IInv, JobInv, TriggersTypeOK, OwnType

\* A step of the job moves no trigger, and not the one who shuts it down either.
LEMMA JobStep ==
    ASSUME IInv, JobInv', UNCHANGED ownVars, pc[Closer] = "returned" => pc'[Closer] = "returned"
    PROVE  IInv'
<1>1. TriggersTypeOK'
  BY DEF IInv, JobInv, TriggersTypeOK, ownVars
<1>2. Draining'
  BY DEF IInv, Draining, ownVars
<1>3. QED
  BY <1>1, <1>2 DEF IInv

LEMMA ReadyStep ==
    ASSUME IInv, Ready PROVE IInv'
<1>1. PICK i \in 1..Len(Sources) : Listen(i) \/ ListenReturns(i)
  BY SourcesAssumption DEF Ready
<1>2. Len(Sources) \in Nat
  BY SourcesAssumption
<1>3. ready \in Nat /\ ready' = ready + 1 /\ ready <= 2 * i - 1
  BY <1>1, <1>2 DEF IInv, TriggersTypeOK, Listen, ListenReturns
<1>4. ready' \in 0..(2 * Len(Sources))
  BY <1>1, <1>2, <1>3
<1>5. go' \in [Callbacks -> {"none", "loop", "call", "in", "over"}]
  BY <1>1 DEF IInv, TriggersTypeOK, Listen, ListenReturns
<1>6. Quiet /\ UNCHANGED <<removed, drain, up>>
  BY <1>1 DEF Quiet, Listen, ListenReturns, vars
<1>7. OwnType'
  BY <1>4, <1>5, <1>6 DEF IInv, TriggersTypeOK, OwnType
<1>8. QED
  BY <1>6, <1>7, OwnStep DEF IInv, Draining

LEMMA RemoveStep ==
    ASSUME IInv, NEW role \in Roles, Remove(role) PROVE IInv'
<1>1. Quiet /\ OwnType' /\ UNCHANGED drain
  BY DEF Remove, vars, Quiet, IInv, TriggersTypeOK, OwnType
<1>2. QED
  BY <1>1, OwnStep DEF IInv, Draining

LEMMA PanicsStep ==
    ASSUME IInv, Panics PROVE IInv'
<1>1. Quiet /\ OwnType' /\ UNCHANGED drain
  BY DEF Panics, vars, Quiet, IInv, TriggersTypeOK, OwnType
<1>2. QED
  BY <1>1, OwnStep DEF IInv, Draining

LEMMA LoopStep ==
    ASSUME IInv, NEW t \in Callbacks, Signal(t) \/ LoopHead(t) PROVE IInv'
<1>1. Quiet /\ UNCHANGED <<ready, removed, drain, up>>
  BY DEF Signal, LoopHead, vars, Quiet
<1>2. go' \in [Callbacks -> {"none", "loop", "call", "in", "over"}]
  BY DEF Signal, LoopHead, IInv, TriggersTypeOK
<1>3. OwnType'
  BY <1>1, <1>2 DEF IInv, TriggersTypeOK, OwnType
<1>4. QED
  BY <1>1, <1>3, OwnStep DEF IInv, Draining

LEMMA CallbackLocksStep ==
    ASSUME IInv, NEW t \in Callbacks, CallbackLocks(t) PROVE IInv'
<1>1. t \in Threads /\ t # Closer
  BY CallbacksAssumption, CloserAssumption
<1>2. JobInv'
  BY <1>1, LockStep DEF CallbackLocks, IInv
<1>3. pc'[Closer] = pc[Closer]
  <2>1. \E l : Goto(t, l)
    BY DEF CallbackLocks, Lock
  <2>2. pc \in [Threads -> PCs]
    BY DEF IInv, JobInv, TypeOK
  <2>3. QED
    BY <1>1, <2>1, <2>2, CloserAssumption DEF Goto
<1>4. OwnType' /\ UNCHANGED drain
  BY DEF CallbackLocks, IInv, TriggersTypeOK, OwnType
<1>5. Draining'
  BY <1>1, <1>3, <1>4, CloserAssumption DEF IInv, Draining
<1>6. QED
  BY <1>2, <1>4, <1>5 DEF IInv, JobInv, TriggersTypeOK, OwnType

LEMMA CallbackReturnsStep ==
    ASSUME IInv, NEW t \in Callbacks, CallbackReturns(t) PROVE IInv'
<1>1. t \in Threads /\ t # Closer /\ Closer \in Threads
  BY CallbacksAssumption, CloserAssumption
<1>2. /\ pc' = [pc EXCEPT ![t] = "idle"] /\ pc[t] = "returned"
      /\ mine' = [mine EXCEPT ![t] = 0]
      /\ UNCHANGED <<workers, worker, mu, jctx, killed, ready, removed, drain, up>>
  BY DEF CallbackReturns, Goto
<1>3. /\ pc \in [Threads -> PCs] /\ mine \in [Threads -> 0..Len(workers)]
      /\ workers \in Seq(Workers) /\ jctx \in BOOLEAN
  BY DEF IInv, JobInv, TypeOK, Workers
<1>4. Len(workers) \in Nat
  BY <1>3
<1>5. /\ pc' \in [Threads -> PCs] /\ mine' \in [Threads -> 0..Len(workers)]
      /\ \A s \in Threads : \/ pc'[s] = pc[s] /\ mine'[s] = mine[s]
                            \/ pc[s] \notin Inside /\ pc'[s] \notin Inside
  BY <1>1, <1>2, <1>3, <1>4 DEF PCs, Inside
<1>6. JobInv'
  BY <1>2, <1>3, <1>5, OutsideStep DEF IInv
<1>7. go' \in [Callbacks -> {"none", "loop", "call", "in", "over"}]
  BY DEF CallbackReturns, IInv, TriggersTypeOK
<1>8. Draining'
  BY <1>1, <1>2, <1>3 DEF IInv, Draining
<1>9. QED
  BY <1>2, <1>6, <1>7, <1>8 DEF IInv, JobInv, TriggersTypeOK

LEMMA ShutdownStep ==
    ASSUME IInv, Shutdown PROVE IInv'
<1>1. CASE Panics
  BY <1>1, PanicsStep
<1>2. CASE Close
  <2>1. JobInv'
    BY <1>2, CancelContextStep DEF Close, IInv
  <2>2. OwnType' /\ pc' = pc /\ drain # "no"
    BY <1>2 DEF Close, CancelContext, IInv, TriggersTypeOK, OwnType
  <2>3. QED
    BY <2>1, <2>2 DEF IInv, JobInv, TriggersTypeOK, OwnType, Draining
<1>3. CASE JoinReads \/ (JoinEnds /\ ~Panics)
  <2>1. Quiet /\ OwnType' /\ (drain # "no" \/ pc[Closer] = "returned")
    BY <1>3 DEF JoinReads, JoinEnds, Quiet, vars, IInv, TriggersTypeOK, OwnType
  <2>2. QED
    BY <2>1, OwnStep DEF IInv, Draining
<1>4. CASE JoinLooks /\ ~Panics
  <2>1. /\ mine' = [mine EXCEPT ![Closer] = worker] /\ drain = "look" /\ drain' = "wait"
        /\ UNCHANGED <<workers, worker, mu, pc, jctx, killed, ready, removed, go, up>>
    BY <1>4 DEF JoinLooks
  <2>2. pc[Closer] = "returned" /\ Closer \in Threads
    BY <2>1, CloserAssumption DEF IInv, Draining
  <2>3. /\ pc \in [Threads -> PCs] /\ mine \in [Threads -> 0..Len(workers)]
        /\ workers \in Seq(Workers) /\ jctx \in BOOLEAN /\ worker \in 0..Len(workers)
    BY DEF IInv, JobInv, TypeOK, Workers
  <2>4. /\ mine' \in [Threads -> 0..Len(workers)]
        /\ \A s \in Threads : \/ pc'[s] = pc[s] /\ mine'[s] = mine[s]
                              \/ pc[s] \notin Inside /\ pc'[s] \notin Inside
    BY <2>1, <2>2, <2>3 DEF Inside
  <2>5. JobInv'
    BY <2>1, <2>3, <2>4, OutsideStep DEF IInv
  <2>6. QED
    BY <2>1, <2>2, <2>5 DEF IInv, JobInv, TriggersTypeOK, Draining
<1>5. QED
  BY <1>1, <1>2, <1>3, <1>4 DEF Shutdown

LEMMA OperationKeepsOthers ==
    ASSUME IInv, NEW t \in Threads, Locked(t) \/ Join(t)
    PROVE  pc[t] # "returned" /\ \A s \in Threads \ {t} : pc'[s] = pc[s]
<1>1. pc \in [Threads -> PCs]
  BY DEF IInv, JobInv, TypeOK
<1>2. \E l : Goto(t, l)
  BY DEF Locked, Join, StartLocked, StopLocked, StopDisable, StopSignal, StopAttemptOver, StopDone,
         KillLocked, KillDisable, KillAttempt, StopIsOver, Unlock
<1>3. pc[t] # "returned"
  BY DEF Locked, Join, StartLocked, StopLocked, StopDisable, StopSignal, StopAttemptOver, StopDone,
         KillLocked, KillDisable, KillAttempt
<1>4. QED
  BY <1>1, <1>2, <1>3 DEF Goto

LEMMA NextInv ==
    ASSUME IInv, [Next]_allVars PROVE IInv'
<1>1. CASE Ready \/ Shutdown \/ \E role \in Roles : Remove(role)
  BY <1>1, ReadyStep, ShutdownStep, RemoveStep
<1>2. ASSUME NEW t \in Threads \ Callbacks, Request(t) PROVE IInv'
  <2>1. JobInv' /\ UNCHANGED ownVars
    BY <1>2, LockStep DEF Request, IInv
  <2>2. pc[Closer] = "returned" => pc'[Closer] = "returned"
    BY <1>2, CloserAssumption DEF Request, Lock, Goto, IInv, JobInv, TypeOK
  <2>3. QED
    BY <2>1, <2>2, JobStep
<1>3. ASSUME NEW t \in Threads, Operation(t) PROVE IInv'
  <2>1. JobInv' /\ UNCHANGED ownVars
    BY <1>3, OperationStep DEF Operation, IInv
  <2>2. pc[Closer] = "returned" => pc'[Closer] = "returned"
    BY <1>3, OperationKeepsOthers, CloserAssumption DEF Operation
  <2>3. QED
    BY <2>1, <2>2, JobStep
<1>4. ASSUME NEW t \in Callbacks, Signal(t) \/ CallbackLocks(t) \/ Callback(t) PROVE IInv'
  BY <1>4, LoopStep, CallbackLocksStep, CallbackReturnsStep, PanicsStep DEF Callback, OncePanics
<1>5. ASSUME NEW i \in 1..Len(workers), JobWorker(i) PROVE IInv'
  <2>1. /\ workers' \in Seq(Workers) /\ Len(workers') = Len(workers)
        /\ \A j \in 1..Len(workers) :
             /\ workers'[j].disabled = workers[j].disabled
             /\ workers[j].phase = "ended" => workers'[j].phase = "ended"
        /\ UNCHANGED <<worker, mu, pc, mine, jctx, killed>> /\ UNCHANGED ownVars
    BY <1>5, WorkerStep DEF JobWorker, IInv, JobInv
  <2>2. mine \in [Threads -> 0..Len(workers)] /\ pc \in [Threads -> PCs] /\ jctx \in BOOLEAN
    BY DEF IInv, JobInv, TypeOK
  <2>3. JobInv'
    BY <2>1, <2>2, OutsideStep DEF IInv
  <2>4. QED
    BY <2>1, <2>3, JobStep
<1>6. CASE UNCHANGED allVars
  <2>1. Quiet /\ OwnType' /\ UNCHANGED drain
    BY <1>6 DEF allVars, vars, ownVars, Quiet, IInv, TriggersTypeOK, OwnType
  <2>2. QED
    BY <2>1, OwnStep DEF IInv, Draining
<1>7. CASE Terminated
  BY <1>6, <1>7 DEF Terminated
<1>8. QED
  BY <1>1, <1>2, <1>3, <1>4, <1>5, <1>6, <1>7 DEF Next

THEOREM Invariance == Spec => []IInv
BY InitInv, NextInv, PTL DEF Spec

-----------------------------------------------------------------------------
(* What follows *)

\* The variables have their types, whatever callbacks and requests do (job.go:32).
THEOREM TypeCorrect == Spec => []TriggersTypeOK
<1>1. IInv => TriggersTypeOK
  BY DEF IInv
<1>2. QED
  BY <1>1, Invariance, PTL

\* A worker the job has let go of has ended, was killed, or is being waited for
\* by the operation that holds the mutex: stopLocked (job.go:69-71) with Start,
\* Stop, Restart, Kill and the callbacks of any triggers.
THEOREM RestartIsAlwaysClean == Spec => []RestartIsClean
<1>1. IInv => RestartIsClean
  BY InsideParts DEF IInv, JobInv, Mutex, LeftIsHeld, Left, RestartIsClean
<1>2. QED
  BY <1>1, Invariance, PTL

\* A worker the job has let go of has its retries disabled, or the operation
\* that let it go is about to disable them (job.go:69-70, job.go:108-110).
THEOREM ForgottenStaysDisabled == Spec => []ForgottenIsDisabled
<1>1. IInv => ForgottenIsDisabled
  BY DEF IInv, JobInv, LeftIsDisabled, Left, ForgottenIsDisabled
<1>2. QED
  BY <1>1, Invariance, PTL

\* Of the workers a job has let go of, by Stop, Restart or Kill, only killed ones
\* may still run, and none that keeps on restarting (job.go:69-71, job.go:108-110).
THEOREM LetGoIsAlwaysStopped == Spec => []LetGoIsStopped
BY RestartIsAlwaysClean, ForgottenStaysDisabled, PTL DEF LetGoIsStopped

-----------------------------------------------------------------------------
(* The job drives its workers as Supervisor has them. *)

\* What Supervisor lets a step make of a worker's record.
Moved(a, b) ==
    \/ b.phase = a.phase /\ b.disabled = a.disabled
    \/ b.phase = a.phase /\ ~a.disabled /\ b.disabled = TRUE
    \/ /\ b.disabled = a.disabled
       /\ \/ a.phase = "ready" /\ b.phase = "attempt"
          \/ a.phase = "attempt" /\ b.phase = "idle"
          \/ a.phase = "idle" /\ b.phase = "ready" /\ ~a.disabled
          \/ a.phase = "ready" /\ b.phase = "idle" /\ a.disabled
          \/ a.phase \in {"ready", "attempt", "idle"} /\ b.phase = "ended"

MovedAll == /\ Len(workers') >= Len(workers)
            /\ \A i \in 1..Len(workers) : Moved(workers[i], workers'[i])

\* One worker is replaced by what it may become.
LEMMA MovedOne ==
    ASSUME TypeOK, NEW i \in 1..Len(workers), NEW w \in Workers, Moved(workers[i], w),
           workers' = [workers EXCEPT ![i] = w]
    PROVE  MovedAll
<1>1. workers \in Seq(Workers)
  BY DEF TypeOK, Workers
<1>2. Len(workers') = Len(workers) /\ Len(workers) \in Nat
      /\ \A j \in 1..Len(workers) : workers'[j] = IF j = i THEN w ELSE workers[j]
  BY <1>1, Replaced
<1>3. \A j \in 1..Len(workers) : Moved(workers[j], workers[j])
  BY DEF Moved
<1>4. QED
  BY <1>2, <1>3 DEF MovedAll

LEMMA MovedNone ==
    ASSUME TypeOK, UNCHANGED workers PROVE MovedAll
<1>1. Len(workers) \in Nat
  BY DEF TypeOK
<1>2. QED
  BY <1>1 DEF MovedAll, Moved

LEMMA WorkerMoves ==
    ASSUME TypeOK, NEW i \in 1..Len(workers), Worker(i) PROVE MovedAll
<1>0. workers \in Seq(Workers)
  BY DEF TypeOK, Workers
<1>1. workers[i] \in Workers
  BY <1>0
<1>2. PICK p \in Phases :
        /\ Move(i, p)
        /\ \/ workers[i].phase = "ready" /\ p = "attempt"
           \/ workers[i].phase = "attempt" /\ p = "idle"
           \/ workers[i].phase = "idle" /\ p = "ready" /\ ~workers[i].disabled
           \/ workers[i].phase = "ready" /\ p = "idle" /\ workers[i].disabled
           \/ workers[i].phase = "idle" /\ p = "ended"
  BY DEF Worker, WorkerLaunches, WorkerWithdraws, WorkerGrants, WorkerFinishes, AttemptEnds,
         W!Launch, W!Withdraw, W!Grant, W!Finish, W!AttemptEnd, W!Step, Phases
<1> DEFINE w == [workers[i] EXCEPT !.phase = p, !.told = @ /\ p = "attempt"]
<1>3. w \in Workers /\ w.phase = p /\ w.disabled = workers[i].disabled
  BY <1>1 DEF Workers
<1>4. workers' = [workers EXCEPT ![i] = w]
  BY <1>1, <1>2 DEF Move, Workers
<1> HIDE DEF w
<1>5. Moved(workers[i], w)
  BY <1>2, <1>3 DEF Moved
<1>6. QED
  BY <1>3, <1>4, <1>5, MovedOne

LEMMA OperationMoves ==
    ASSUME JobInv, NEW t \in Threads, Locked(t) \/ Join(t) PROVE MovedAll
<1>1. TypeOK
  BY DEF JobInv
<1>2. workers \in Seq(Workers) /\ Len(workers) \in Nat
  BY <1>1 DEF TypeOK, Workers
<1>3. CASE UNCHANGED workers
  BY <1>1, <1>3, MovedNone
<1>4. CASE workers' = Append(workers, Fresh)
  <2>1. Len(workers') >= Len(workers) /\ \A i \in 1..Len(workers) : workers'[i] = workers[i]
    BY <1>2, <1>4
  <2>2. QED
    BY <2>1 DEF MovedAll, Moved
<1>5. CASE StopDisable(t) \/ KillDisable(t)
  <2> DEFINE w == [workers[mine[t]] EXCEPT !.disabled = TRUE]
  <2>1. mine[t] \in 1..Len(workers)
    BY <1>1, <1>2, <1>5 DEF JobInv, Holding, StopDisable, KillDisable, Waiting, Killing, TypeOK
  <2>2. workers[mine[t]] \in Workers
    BY <1>2, <2>1
  <2>3. w \in Workers /\ w.phase = workers[mine[t]].phase /\ w.disabled = TRUE
    BY <2>2, Zenon DEF Workers
  <2>4. workers' = [workers EXCEPT ![mine[t]] = w]
    BY <1>5 DEF StopDisable, KillDisable
  <2>5. workers[mine[t]].disabled \in BOOLEAN
    BY <2>2 DEF Workers
  <2> HIDE DEF w
  <2>6. Moved(workers[mine[t]], w)
    BY <2>3, <2>5 DEF Moved
  <2>7. QED
    BY <1>1, <2>1, <2>3, <2>4, <2>6, MovedOne
<1>6. CASE StopSignal(t)
  <2> DEFINE w == [workers[mine[t]] EXCEPT !.told = TRUE]
  <2>1. mine[t] \in 1..Len(workers)
    BY <1>1, <1>2, <1>6 DEF JobInv, Holding, StopSignal, Waiting, TypeOK
  <2>2. workers[mine[t]] \in Workers
    BY <1>2, <2>1
  <2>3. w \in Workers /\ w.phase = workers[mine[t]].phase /\ w.disabled = workers[mine[t]].disabled
    BY <2>2, Zenon DEF Workers
  <2>4. workers' = [workers EXCEPT ![mine[t]] = w] \/ UNCHANGED workers
    BY <1>6 DEF StopSignal
  <2> HIDE DEF w
  <2>5. Moved(workers[mine[t]], w)
    BY <2>3 DEF Moved
  <2>6. QED
    BY <1>1, <1>3, <2>1, <2>3, <2>4, <2>5, MovedOne
<1>7. CASE KillAttempt(t)
  <2>1. mine[t] \in 1..Len(workers)
    BY <1>1, <1>2, <1>7 DEF JobInv, Holding, KillAttempt, Killing, TypeOK
  <2>2. workers[mine[t]] \in Workers
    BY <1>2, <2>1
  <2> DEFINE p == IF workers[mine[t]].phase = "attempt" THEN "idle" ELSE workers[mine[t]].phase
             w == [workers[mine[t]] EXCEPT !.phase = IF @ = "attempt" THEN "idle" ELSE @,
                                           !.told = FALSE]
  <2>3. w \in Workers /\ w.phase = p /\ w.disabled = workers[mine[t]].disabled
    BY <2>2 DEF Workers, Phases
  <2>4. workers' = [workers EXCEPT ![mine[t]] = w]
    BY <1>7, <2>2 DEF KillAttempt, Workers
  <2> HIDE DEF w
  <2>5. Moved(workers[mine[t]], w)
    BY <2>3 DEF Moved
  <2>6. QED
    BY <1>1, <2>1, <2>3, <2>4, <2>5, MovedOne
<1>8. QED
  BY <1>3, <1>4, <1>5, <1>6, <1>7
     DEF Locked, Join, StartLocked, StopLocked, StopAttemptOver, StopDone, KillLocked

LEMMA CloseMoves ==
    ASSUME TypeOK, CancelContext PROVE MovedAll
<1>1. workers \in Seq(Workers) /\ Len(workers) \in Nat
  BY DEF TypeOK, Workers
<1>2. workers' = [i \in 1..Len(workers) |->
                     [workers[i] EXCEPT !.phase = "ended", !.told = FALSE]]
  BY DEF CancelContext
<1>3. Len(workers') = Len(workers)
  <2>0. \A i \in 1..Len(workers) : workers[i] \in Workers
    BY <1>1
  <2>1. \A i \in 1..Len(workers) : [workers[i] EXCEPT !.phase = "ended", !.told = FALSE] \in Workers
    BY <2>0 DEF Workers, Phases
  <2> DEFINE w(i) == [workers[i] EXCEPT !.phase = "ended", !.told = FALSE]
  <2> HIDE DEF w
  <2>2. workers' = [i \in 1..Len(workers) |-> w(i)] /\ \A i \in 1..Len(workers) : w(i) \in Workers
    BY <1>2, <2>1 DEF w
  <2>3. QED
    BY <1>1, <2>2
<1>4. ASSUME NEW i \in 1..Len(workers) PROVE Moved(workers[i], workers'[i])
  <2>0. workers[i] \in Workers
    BY <1>1
  <2>1. workers[i].phase \in {"ready", "attempt", "idle", "ended"}
    BY <2>0 DEF Workers, Phases
  <2>2. workers'[i].phase = "ended" /\ workers'[i].disabled = workers[i].disabled
    BY <1>2, <2>0 DEF Workers
  <2>3. QED
    BY <2>1, <2>2 DEF Moved
<1>5. QED
  BY <1>1, <1>3, <1>4 DEF MovedAll

LEMMA NextMoves == ASSUME IInv, [Next]_allVars PROVE MovedAll
<1>1. JobInv /\ TypeOK
  BY DEF IInv, JobInv
<1>2. CASE UNCHANGED workers
  BY <1>1, <1>2, MovedNone
<1>3. ASSUME NEW t \in Threads, Operation(t) PROVE MovedAll
  BY <1>1, <1>3, OperationMoves DEF Operation
<1>4. ASSUME NEW i \in 1..Len(workers), JobWorker(i) PROVE MovedAll
  BY <1>1, <1>4, WorkerMoves DEF JobWorker
<1>5. CASE Close
  BY <1>1, <1>5, CloseMoves DEF Close
<1>6. QED
  BY <1>2, <1>3, <1>4, <1>5
     DEF Next, Ready, Listen, ListenReturns, Remove, Request, Lock, Signal, CallbackLocks, Callback,
         LoopHead, OncePanics, Panics, CallbackReturns, Shutdown, JoinReads, JoinLooks, JoinEnds,
         Terminated, allVars, vars

\* Every worker of a job takes only steps of Supervisor, whatever operations,
\* callbacks and the end of the session do to it, and the job only adds workers.
\* With SupervisorSafety of retryWorker this is what lets a job be checked
\* without the inside of its workers (job.go:54-112, work_retry.go).
WorkersConform == [][\A i \in 1..Len(workers) : [W(i)!Next]_(W(i)!vars)]_allVars

\* What the operations of a job make of its workers is what Supervisor allows
\* (job.go:54-112, work_retry.go).
THEOREM WorkersAlwaysConform == Spec => WorkersConform
<1>1. IInv /\ [Next]_allVars => [\A i \in 1..Len(workers) : [W(i)!Next]_(W(i)!vars)]_allVars
  <2> SUFFICES ASSUME IInv, [Next]_allVars, NEW i \in 1..Len(workers)
               PROVE  [W(i)!Next]_(W(i)!vars)
    OBVIOUS
  <2>1. Moved(workers[i], workers'[i])
    BY NextMoves DEF MovedAll
  <2>2. QED
    BY <2>1 DEF Moved, W!Next, W!vars, W!Launch, W!AttemptEnd, W!Grant, W!Withdraw, W!Finish,
                W!Cancel, W!Disable, W!Step
<1>2. QED
  BY <1>1, Invariance, PTL DEF Spec, WorkersConform

\* A worker that was stopped or killed and has come to rest never runs the task
\* again, whoever still waits for it or has let go of it (job.go:64-72, 104-112).
StoppedStaysStopped ==
    [][\A i \in 1..Len(workers) :
         workers[i].disabled /\ workers[i].phase \in {"idle", "ended"} =>
             workers[i]'.disabled /\ workers[i]'.phase \in {"idle", "ended"}]_allVars

\* No step of the job or of its triggers starts a stopped worker at rest again
\* (job.go:64-72, 104-112).
THEOREM StoppedNeverRunsAgain == Spec => StoppedStaysStopped
<1>1. IInv /\ [Next]_allVars =>
        [\A i \in 1..Len(workers) :
           workers[i].disabled /\ workers[i].phase \in {"idle", "ended"} =>
               workers[i]'.disabled /\ workers[i]'.phase \in {"idle", "ended"}]_allVars
  <2> SUFFICES ASSUME IInv, [Next]_allVars, NEW i \in 1..Len(workers),
                      workers[i].disabled, workers[i].phase \in {"idle", "ended"}
               PROVE  workers'[i].disabled /\ workers'[i].phase \in {"idle", "ended"}
    OBVIOUS
  <2>1. Moved(workers[i], workers'[i])
    BY NextMoves DEF MovedAll
  <2>2. QED
    BY <2>1 DEF Moved
<1>2. QED
  BY <1>1, Invariance, PTL DEF Spec, StoppedStaysStopped

-----------------------------------------------------------------------------
(* What a step changes of a thread and of its worker *)

\* While it is live, an attempt that was told to stop stays told.
KeepsTold == \A i \in 1..Len(workers) :
    workers[i].told /\ workers[i].phase = "attempt" /\ workers'[i].phase = "attempt" => workers'[i].told

LEMMA WorkerKeepsTold ==
    ASSUME TypeOK, NEW i \in 1..Len(workers), Worker(i) PROVE KeepsTold
<1>1. PICK p \in Phases : Move(i, p) /\ (p = "attempt" => workers[i].phase = "ready")
  <2>1. WorkerLaunches(i) => Move(i, "attempt") /\ workers[i].phase = "ready"
    BY DEF WorkerLaunches, W!Launch, W!Step
  <2>2. WorkerWithdraws(i) \/ WorkerGrants(i) \/ WorkerFinishes(i) \/ AttemptEnds(i) =>
          \E p \in {"idle", "ready", "ended"} : Move(i, p)
    BY DEF WorkerWithdraws, WorkerGrants, WorkerFinishes, AttemptEnds
  <2>3. "attempt" \in Phases /\ {"idle", "ready", "ended"} \subseteq Phases \ {"attempt"}
    BY DEF Phases
  <2>4. QED
    BY <2>1, <2>2, <2>3 DEF Worker
<1> DEFINE w == [workers[i] EXCEPT !.phase = p, !.told = @ /\ p = "attempt"]
<1>5. workers \in Seq(Workers)
  BY DEF TypeOK, Workers
<1>2. workers \in Seq(Workers) /\ workers[i] \in Workers
  BY <1>5
<1>3. w \in Workers /\ w.phase = p /\ workers' = [workers EXCEPT ![i] = w]
  BY <1>1, <1>2 DEF Move, Workers
<1>4. \A j \in 1..Len(workers) : workers'[j] = IF j = i THEN w ELSE workers[j]
  BY <1>2, <1>3, Replaced
<1>6. QED
  BY <1>1, <1>3, <1>4 DEF KeepsTold

\* While t is inside an operation nobody else touches what it relies on.
LEMMA HolderMoves ==
    ASSUME IInv, [Next]_allVars, NEW t \in Threads, pc[t] \in Inside
    PROVE  \/ Locked(t) /\ UNCHANGED ownVars
           \/ /\ pc'[t] = pc[t] /\ mine'[t] = mine[t] /\ UNCHANGED <<mu, worker>>
              /\ KeepsTold
<1> DEFINE Q == /\ pc'[t] = pc[t] /\ mine'[t] = mine[t] /\ UNCHANGED <<mu, worker>>
                /\ KeepsTold
<1>1. /\ TypeOK /\ Mutex /\ mu = t /\ mu # NoThread
      /\ pc \in [Threads -> PCs] /\ mine \in [Threads -> 0..Len(workers)]
      /\ \A s \in Threads \ {t} : pc[s] \notin Inside
  BY Alone, ThreadsAssumption DEF IInv, JobInv, TypeOK
<1>2. ASSUME UNCHANGED vars PROVE Q
  BY <1>2 DEF vars, KeepsTold
<1>3. ASSUME NEW s \in Threads PROVE ~Lock(s)
  BY <1>1 DEF Lock
<1>4. ASSUME NEW s \in Threads, Operation(s), s # t PROVE Q
  <2>1. Join(s)
    BY <1>1, <1>4 DEF Operation, Locked, StartLocked, StopLocked, StopDisable, StopSignal,
       StopAttemptOver, StopDone, KillLocked, KillDisable, KillAttempt, Inside
  <2>2. QED
    BY <1>1, <1>4, <2>1 DEF Join, Goto, KeepsTold
<1>5. Operation(t) => Locked(t) /\ UNCHANGED ownVars
  BY DEF Operation, Join, Inside
<1>6. ASSUME NEW s \in Callbacks, CallbackReturns(s) PROVE Q
  <2>1. s \in Threads /\ s # t
    BY <1>6, CallbacksAssumption DEF CallbackReturns, Inside
  <2>2. QED
    BY <1>1, <1>6, <2>1 DEF CallbackReturns, Goto, KeepsTold
<1>7. ASSUME NEW i \in 1..Len(workers), JobWorker(i) PROVE Q
  <2>1. Worker(i)
    BY <1>7 DEF JobWorker
  <2>2. UNCHANGED <<worker, mu, pc, mine, jctx, killed>> /\ KeepsTold
    BY <1>1, <2>1, WorkerStep, WorkerKeepsTold
  <2>3. QED
    BY <2>2
<1>8. ASSUME Shutdown PROVE Q
  <2>1. CASE Close
    <3>1. workers' = [i \in 1..Len(workers) |-> [workers[i] EXCEPT !.phase = "ended", !.told = FALSE]]
          /\ UNCHANGED <<worker, mu, pc, mine>>
      BY <2>1 DEF Close, CancelContext
    <3>0. workers \in Seq(Workers)
      BY <1>1 DEF TypeOK, Workers
    <3>2. \A i \in 1..Len(workers) : workers'[i].phase = "ended"
      <4> SUFFICES ASSUME NEW i \in 1..Len(workers) PROVE workers'[i].phase = "ended"
        OBVIOUS
      <4>1. workers[i] \in Workers
        BY <3>0
      <4>2. QED
        BY <3>1, <4>1 DEF Workers
    <3>3. QED
      BY <3>1, <3>2 DEF KeepsTold
  <2>2. CASE JoinLooks
    <3>1. t # Closer
      BY <2>2 DEF IInv, Draining, JoinLooks, Inside
    <3>2. QED
      BY <1>1, <1>2, <2>2, <3>1 DEF JoinLooks, Panics, KeepsTold
  <2>3. CASE JoinReads \/ JoinEnds
    BY <1>2, <2>3 DEF JoinReads, JoinEnds, Panics
  <2>4. QED
    BY <1>8, <2>1, <2>2, <2>3 DEF Shutdown
<1>9. QED
  BY <1>2, <1>3, <1>4, <1>5, <1>6, <1>7, <1>8, CallbacksAssumption
     DEF Next, Ready, Listen, ListenReturns, Remove, Request, Signal, CallbackLocks, Callback,
         LoopHead, OncePanics, Panics, Terminated, allVars


\* A thread that is in no operation begins one, has waited, or is called again.
LEMMA OutsideMoves ==
    ASSUME IInv, [Next]_allVars, NEW t \in Threads, pc[t] \notin Inside
    PROVE  \/ pc'[t] = pc[t] /\ (pc[t] = "join" => mine'[t] = mine[t])
           \/ pc[t] = "idle" /\ pc'[t] \in {"start", "stop", "kill"}
              /\ (Op[t] = "launch" => pc'[t] = "start")
              /\ (pc'[t] = "start" => Op[t] \in {"start", "launch"})
           \/ pc[t] = "join" /\ pc'[t] = "returned"
           \/ pc[t] = "returned" /\ pc'[t] = "idle"
<1> DEFINE Q == pc'[t] = pc[t] /\ (pc[t] = "join" => mine'[t] = mine[t])
<1>1. /\ pc \in [Threads -> PCs] /\ Callbacks \subseteq Threads
      /\ mine \in [Threads -> 0..Len(workers)]
  BY CallbacksAssumption DEF IInv, JobInv, TypeOK
<1>2. ASSUME NEW s \in Threads, Lock(s)
      PROVE  Q \/ (pc[t] = "idle" /\ pc'[t] \in {"start", "stop", "kill"}
                   /\ (Op[t] = "launch" => pc'[t] = "start")
                   /\ (pc'[t] = "start" => Op[t] \in {"start", "launch"}))
  <2>1. PICK l \in {"start", "stop", "kill"} :
          /\ Goto(s, l) /\ (Op[s] = "launch" => l = "start")
          /\ (l = "start" => Op[s] \in {"start", "launch"})
    BY <1>2, OpAssumption DEF Lock, Ops
  <2>2. QED
    BY <1>1, <1>2, <2>1 DEF Goto, Lock
<1>3. ASSUME NEW s \in Threads, Operation(s)
      PROVE  Q \/ (pc[t] = "join" /\ pc'[t] = "returned")
  <2>1. CASE s # t
    <3>1. mine' = mine \/ \E i : mine' = [mine EXCEPT ![s] = i]
      BY <1>3 DEF Operation, Locked, Join, StartLocked, StopLocked, StopDisable, StopSignal,
         StopAttemptOver, StopDone, KillLocked, KillDisable, KillAttempt
    <3>2. QED
      BY <1>1, <1>3, <2>1, <3>1, OperationKeepsOthers DEF Operation
  <2>2. CASE s = t
    <3>1. Join(t)
      BY <1>3, <2>2 DEF Operation, Locked, StartLocked, StopLocked, StopDisable, StopSignal,
         StopAttemptOver, StopDone, KillLocked, KillDisable, KillAttempt, Inside
    <3>2. QED
      BY <1>1, <3>1 DEF Join, Goto
  <2>3. QED
    BY <2>1, <2>2
<1>4. ASSUME NEW s \in Callbacks, CallbackReturns(s)
      PROVE  Q \/ (pc[t] = "returned" /\ pc'[t] = "idle")
  BY <1>1, <1>4 DEF CallbackReturns, Goto
<1>5. ASSUME \/ UNCHANGED vars
             \/ Shutdown
             \/ \E i \in 1..Len(workers) : JobWorker(i)
      PROVE  Q
  <2>1. CASE JoinLooks
    <3>1. pc[Closer] = "returned" /\ Closer \in Threads
      BY <2>1, CloserAssumption DEF IInv, Draining, JoinLooks
    <3>2. QED
      BY <1>1, <2>1, <3>1 DEF JoinLooks, Panics, vars
  <2>2. QED
    BY <1>5, <2>1 DEF vars, Shutdown, JoinReads, JoinEnds, Close, CancelContext, Panics, JobWorker,
       Worker, WorkerLaunches, WorkerWithdraws, WorkerGrants, WorkerFinishes, AttemptEnds, Move
<1>6. QED
  BY <1>1, <1>2, <1>3, <1>4, <1>5
     DEF Next, Ready, Listen, ListenReturns, Remove, Request, Signal, CallbackLocks, Callback,
         LoopHead, OncePanics, Panics, Terminated, allVars

\* Where the thread that is inside an operation goes from there.
LEMMA LockedMoves ==
    ASSUME IInv, NEW t \in Threads, Locked(t)
    PROVE  \/ pc[t] = "start" /\ mu' = NoThread /\ worker' # 0 /\ pc'[t] \in {"join", "returned"}
              /\ mine'[t] = worker'
           \/ pc[t] = "stop" /\ worker # 0 /\ pc'[t] = "disable"
           \/ pc[t] \in {"stop", "done"} /\ UNCHANGED <<workers, worker, mine>>
              /\ (pc[t] = "done" => workers[mine[t]].phase = "ended")
              /\ \/ Op[t] = "restart" /\ pc'[t] = "start" /\ mu' = mu
                 \/ pc'[t] = "returned" /\ mu' = NoThread
           \/ pc[t] = "disable" /\ pc'[t] = "signal" /\ mine' = mine
           \/ pc[t] = "signal" /\ pc'[t] = "done" /\ UNCHANGED <<mine, workers>>
           \/ /\ pc[t] = "signal" /\ pc'[t] = "attempt" /\ mine' = mine
              /\ workers[mine[t]].phase = "attempt" /\ workers'[mine[t]].phase = "attempt"
              /\ workers'[mine[t]].told
           \/ pc[t] = "attempt" /\ pc'[t] = "done" /\ UNCHANGED <<mine, workers>>
              /\ workers[mine[t]].phase # "attempt"
           \/ pc[t] = "kill" /\ worker # 0 /\ pc'[t] = "killDisable"
           \/ pc[t] = "kill" /\ pc'[t] = "returned" /\ mu' = NoThread
           \/ pc[t] = "killDisable" /\ pc'[t] = "killAttempt"
           \/ pc[t] = "killAttempt" /\ pc'[t] = "returned" /\ mu' = NoThread
<1>1. /\ pc \in [Threads -> PCs] /\ workers \in Seq(Workers) /\ Len(workers) \in Nat
      /\ worker \in 0..Len(workers) /\ mine \in [Threads -> 0..Len(workers)]
      /\ pc[t] \in Waiting => mine[t] \in 1..Len(workers)
  BY DEF IInv, JobInv, TypeOK, Holding, Workers
<1>2. CASE StartLocked(t)
  <2>1. pc[t] = "start" /\ worker' # 0 /\ mine'[t] = worker'
    BY <1>1, <1>2 DEF StartLocked
  <2>2. mu' = NoThread /\ pc'[t] = IF Op[t] = "launch" THEN "join" ELSE "returned"
    BY <1>1, <1>2 DEF StartLocked, Unlock, Goto
  <2>3. QED
    BY <2>1, <2>2
<1>3. CASE StopLocked(t) \/ StopDone(t)
  <2>1. StopIsOver(t) => \/ Op[t] = "restart" /\ pc'[t] = "start" /\ mu' = mu
                         \/ pc'[t] = "returned" /\ mu' = NoThread
    BY <1>1 DEF StopIsOver, Unlock, Goto
  <2>2. CASE StopLocked(t)
    <3>1. /\ pc[t] = "stop" /\ UNCHANGED workers
          /\ \/ StopIsOver(t) /\ UNCHANGED <<worker, mine>>
             \/ worker # 0 /\ Goto(t, "disable")
      BY <2>2 DEF StopLocked
    <3>2. QED
      BY <1>1, <2>1, <3>1 DEF Goto
  <2>3. CASE StopDone(t)
    <3>1. /\ pc[t] = "done" /\ workers[mine[t]].phase = "ended" /\ StopIsOver(t)
          /\ UNCHANGED <<workers, worker, mine>>
      BY <2>3 DEF StopDone
    <3>2. QED
      BY <2>1, <3>1
  <2>4. QED
    BY <1>3, <2>2, <2>3
<1>4. CASE StopDisable(t) \/ StopAttemptOver(t)
  BY <1>1, <1>4 DEF StopDisable, StopAttemptOver, Goto
<1>5. CASE StopSignal(t)
  <2>1. mine[t] \in 1..Len(workers) /\ pc[t] = "signal"
    BY <1>1, <1>5 DEF StopSignal, Waiting
  <2>2. workers[mine[t]] \in Workers /\ mine' = mine
    BY <1>1, <1>5, <2>1 DEF StopSignal
  <2>3. CASE workers[mine[t]].phase = "attempt"
    <3> DEFINE w == [workers[mine[t]] EXCEPT !.told = TRUE]
    <3>1. /\ workers' = [workers EXCEPT ![mine[t]].told = TRUE]
          /\ pc' = [pc EXCEPT ![t] = "attempt"]
      BY <1>5, <2>3 DEF StopSignal, Goto
    <3>0. w \in Workers /\ w.told /\ w.phase = workers[mine[t]].phase
      BY <2>2, Zenon DEF Workers
    <3>2. workers' = [workers EXCEPT ![mine[t]] = w]
      BY <3>1
    <3>4. \A j \in 1..Len(workers) : workers'[j] = IF j = mine[t] THEN w ELSE workers[j]
      BY <1>1, <2>1, <3>0, <3>2, Replaced
    <3>3. workers'[mine[t]] = w
      BY <2>1, <3>4
    <3>5. workers'[mine[t]].told /\ workers'[mine[t]].phase = "attempt"
      BY <2>3, <3>0, <3>3
    <3>6. QED
      BY <1>1, <2>1, <2>2, <2>3, <3>1, <3>5
  <2>4. CASE workers[mine[t]].phase # "attempt"
    <3>1. UNCHANGED workers /\ pc' = [pc EXCEPT ![t] = "done"]
      BY <1>5, <2>4 DEF StopSignal, Goto
    <3>2. QED
      BY <1>1, <2>1, <2>2, <3>1
  <2>5. QED
    BY <2>3, <2>4
<1>6. CASE KillLocked(t) \/ KillDisable(t) \/ KillAttempt(t)
  BY <1>1, <1>6 DEF KillLocked, KillDisable, KillAttempt, Unlock, Goto
<1>7. QED
  BY <1>2, <1>3, <1>4, <1>5, <1>6 DEF Locked

-----------------------------------------------------------------------------
(* What liveness needs to know *)

\* A launch does nothing but start; who joins a worker has one; an attempt that
\* an operation waits for was told to stop, and its worker starts no other.
JobFacts ==
    \A t \in Threads :
        /\ Op[t] = "launch" => pc[t] \in {"idle", "start", "join", "returned"}
        /\ pc[t] = "start" => t \in Starters
        /\ pc[t] = "join" => mine[t] \in 1..Len(workers)
        /\ pc[t] = "attempt" => /\ workers[mine[t]].phase # "ready"
                                /\ workers[mine[t]].phase = "attempt" => workers[mine[t]].told

LEMMA JobFactsNext ==
    ASSUME IInv, JobFacts, [Next]_allVars PROVE JobFacts'
<1>1. /\ pc \in [Threads -> PCs] /\ workers \in Seq(Workers) /\ Len(workers) \in Nat
      /\ worker \in 0..Len(workers) /\ mine \in [Threads -> 0..Len(workers)]
  BY DEF IInv, JobInv, TypeOK, Workers
<1>2. worker' \in 0..Len(workers') /\ Len(workers') \in Nat /\ MovedAll
  BY NextInv, NextMoves DEF IInv, JobInv, TypeOK
<1> SUFFICES ASSUME NEW t \in Threads
             PROVE  /\ Op[t] = "launch" => pc'[t] \in {"idle", "start", "join", "returned"}
                    /\ pc'[t] = "start" => t \in Starters
                    /\ pc'[t] = "join" => mine'[t] \in 1..Len(workers')
                    /\ pc'[t] = "attempt" =>
                         /\ workers'[mine'[t]].phase # "ready"
                         /\ workers'[mine'[t]].phase = "attempt" => workers'[mine'[t]].told
  BY DEF JobFacts
<1> USE DEF JobFacts
<1>3. CASE pc[t] \notin Inside
  <2>1. "attempt" \in Inside
    BY DEF Inside
  <2>2. pc[t] = "join" => mine[t] \in 1..Len(workers')
    BY <1>1, <1>2 DEF MovedAll
  <2>3. pc[t] # "attempt"
    BY <1>3, <2>1
  <2>4. QED
    BY <1>3, <2>2, <2>3, OutsideMoves DEF Starters
<1>4. CASE pc[t] \in Inside /\ Locked(t)
  <2>1. pc'[t] = "join" => worker' # 0 /\ mine'[t] = worker'
    BY <1>4, LockedMoves
  <2>2. Op[t] = "launch" => pc'[t] \in {"idle", "start", "join", "returned"}
    BY <1>4, LockedMoves
  <2>3. pc'[t] = "attempt" => workers'[mine'[t]].phase = "attempt" /\ workers'[mine'[t]].told
    BY <1>4, LockedMoves
  <2>5. pc'[t] = "start" => t \in Starters
    BY <1>4, LockedMoves DEF Starters
  <2>4. QED
    BY <1>2, <2>1, <2>2, <2>3, <2>5
<1>5. CASE /\ pc[t] \in Inside /\ pc'[t] = pc[t] /\ mine'[t] = mine[t] /\ KeepsTold
  <2>1. pc'[t] # "join"
    BY <1>5 DEF Inside
  <2>2. ASSUME pc[t] = "attempt"
        PROVE  /\ workers'[mine[t]].phase # "ready"
               /\ workers'[mine[t]].phase = "attempt" => workers'[mine[t]].told
    <3>1. mine[t] \in 1..Len(workers) /\ workers[mine[t]].disabled
      BY <2>2 DEF IInv, JobInv, Holding, Waiting, Told
    <3>2. Moved(workers[mine[t]], workers'[mine[t]])
      BY <1>2, <3>1 DEF MovedAll
    <3>3. QED
      BY <1>5, <2>2, <3>1, <3>2 DEF KeepsTold, Moved
  <2>3. QED
    BY <1>5, <2>1, <2>2
<1>6. QED
  BY <1>3, <1>4, <1>5, HolderMoves

\* A goroutine that runs a callback is in an operation while the callback runs;
\* the loop of "always" begins with Listen, and is over once it was removed.
CallbackFacts ==
    /\ removed # {} => jctx
    /\ \A t \in Callbacks :
         /\ go[t] = "in" <=> pc[t] # "idle"
         /\ ~Subscribed(Of[t]) => go[t] = "none"
         /\ Kind(t) = "always" /\ Subscribed(Of[t]) => go[t] # "none"
         /\ Kind(t) = "always" /\ go[t] = "over" => removed # {}

LEMMA CallbackFactsInit == TriggersInit => CallbackFacts
<1>1. \A t \in Callbacks : Of[t] \in DOMAIN Sources
  BY CallbacksAssumption
<1>2. \A i \in DOMAIN Sources : i \in Nat /\ i >= 1
  BY SourcesAssumption
<1>3. SUFFICES ASSUME TriggersInit PROVE CallbackFacts
  OBVIOUS
<1>4. \A t \in Callbacks : ~Subscribed(Of[t])
  BY <1>1, <1>2, <1>3 DEF TriggersInit, Subscribed
<1>5. QED
  BY <1>3, <1>4, CallbacksAssumption DEF TriggersInit, Init, CallbackFacts

LEMMA CallbackFactsNext ==
    ASSUME IInv, CallbackFacts, [Next]_allVars PROVE CallbackFacts'
<1>1. /\ pc \in [Threads -> PCs] /\ mine \in [Threads -> 0..Len(workers)]
      /\ go \in [Callbacks -> {"none", "loop", "call", "in", "over"}]
      /\ ready \in Nat /\ Callbacks \subseteq Threads /\ Closer \notin Callbacks
      /\ \A t \in Callbacks : Of[t] \in DOMAIN Sources
  BY CallbacksAssumption, CloserAssumption, SourcesAssumption DEF IInv, JobInv, TypeOK, TriggersTypeOK
<1>2. \A i \in DOMAIN Sources : i \in Nat /\ i >= 1
  BY SourcesAssumption
<1>3. CASE UNCHANGED <<pc, go, ready, removed>> /\ (jctx => jctx')
  BY <1>3 DEF CallbackFacts, Subscribed
<1>4. ASSUME NEW i \in DOMAIN Sources, Listen(i) PROVE CallbackFacts'
  <2>1. /\ \A t \in Callbacks : Subscribed(Of[t])' <=> Subscribed(Of[t]) \/ Of[t] = i
        /\ ~Subscribed(i)
    BY <1>1, <1>2, <1>4 DEF Listen, Subscribed
  <2>2. \A t \in Callbacks : Of[t] # i => go'[t] = go[t]
    BY <1>1, <1>4 DEF Listen
  <2>3. \A t \in Callbacks : Of[t] = i => /\ go'[t] \in {"none", "loop", "call"}
                                          /\ Kind(t) = "always" => go'[t] = "loop"
    BY <1>1, <1>4, <2>1 DEF Listen, CallbackFacts
  <2>4. UNCHANGED <<pc, jctx, removed>>
    BY <1>4 DEF Listen, vars
  <2>5. QED
    BY <2>1, <2>2, <2>3, <2>4 DEF CallbackFacts, Kind
<1>5. ASSUME NEW i \in DOMAIN Sources, ListenReturns(i) PROVE CallbackFacts'
  <2>1. \A t \in Callbacks : Subscribed(Of[t])' <=> Subscribed(Of[t])
    BY <1>1, <1>2, <1>5 DEF ListenReturns, Subscribed
  <2>2. QED
    BY <1>5, <2>1 DEF ListenReturns, vars, CallbackFacts
<1>6. ASSUME NEW role \in Roles, Remove(role) PROVE CallbackFacts'
  BY <1>6 DEF Remove, vars, CallbackFacts, Subscribed
<1>7. ASSUME NEW s \in Threads \ Callbacks, Request(s) PROVE CallbackFacts'
  <2>1. UNCHANGED <<go, ready, removed, jctx>> /\ \E l : Goto(s, l)
    BY <1>7 DEF Request, ownVars, Lock
  <2>2. \A t \in Callbacks : pc'[t] = pc[t]
    BY <1>1, <2>1 DEF Goto
  <2>3. QED
    BY <2>1, <2>2 DEF CallbackFacts, Subscribed
<1>8. ASSUME NEW s \in Threads, Operation(s) PROVE CallbackFacts'
  <2>1. UNCHANGED <<go, ready, removed, jctx>>
    BY <1>8 DEF Operation, ownVars, Locked, Join, StartLocked, StopLocked, StopDisable, StopSignal,
       StopAttemptOver, StopDone, KillLocked, KillDisable, KillAttempt
  <2>2. \A t \in Threads \ {s} : pc'[t] = pc[t]
    BY <1>8, OperationKeepsOthers DEF Operation
  <2>3. pc[s] # "idle" /\ pc'[s] # "idle"
    <3>1. CASE Locked(s)
      <4>1. pc'[s] # "idle"
        BY <3>1, LockedMoves
      <4>2. QED
        BY <3>1, <4>1 DEF Locked, StartLocked, StopLocked, StopDisable, StopSignal,
           StopAttemptOver, StopDone, KillLocked, KillDisable, KillAttempt
    <3>2. CASE Join(s)
      BY <1>1, <3>2 DEF Join, Goto
    <3>3. QED
      BY <1>8, <3>1, <3>2 DEF Operation
  <2>4. QED
    BY <1>1, <2>1, <2>2, <2>3 DEF CallbackFacts, Subscribed
<1>9. ASSUME NEW s \in Callbacks, Signal(s) \/ LoopHead(s) PROVE CallbackFacts'
  <2>1. UNCHANGED <<pc, jctx, ready, removed>> /\ Subscribed(Of[s])
    BY <1>9 DEF Signal, LoopHead, vars, CallbackFacts
  <2>2. PICK g \in {"call", "over"} : go' = [go EXCEPT ![s] = g] /\ go[s] \in {"none", "loop"}
                                      /\ (g = "over" => removed # {})
    BY <1>9 DEF Signal, LoopHead
  <2>3. QED
    BY <1>1, <2>1, <2>2 DEF CallbackFacts, Subscribed
<1>10. ASSUME NEW s \in Callbacks, CallbackLocks(s) PROVE CallbackFacts'
  <2>1. /\ UNCHANGED <<jctx, ready, removed>> /\ Subscribed(Of[s]) /\ pc[s] = "idle" /\ go[s] = "call"
        /\ go' = [go EXCEPT ![s] = "in"]
    BY <1>10 DEF CallbackLocks, Lock, CallbackFacts
  <2>2. PICK l \in {"start", "stop", "kill"} : Goto(s, l)
    BY <1>1, <1>10, OpAssumption DEF CallbackLocks, Lock, Ops
  <2>3. QED
    BY <1>1, <2>1, <2>2 DEF CallbackFacts, Subscribed, Goto
<1>11. ASSUME NEW s \in Callbacks, CallbackReturns(s) PROVE CallbackFacts'
  <2>1. /\ UNCHANGED <<jctx, ready, removed>> /\ Subscribed(Of[s]) /\ go[s] = "in"
        /\ pc' = [pc EXCEPT ![s] = "idle"]
    BY <1>11 DEF CallbackReturns, CallbackFacts, Goto
  <2>2. PICK g \in {"loop", "over", "none"} : /\ go' = [go EXCEPT ![s] = g]
                                              /\ Kind(s) = "always" => g = "loop"
    BY <1>11 DEF CallbackReturns
  <2>3. QED
    BY <1>1, <2>1, <2>2 DEF CallbackFacts, Subscribed
<1>12. ASSUME Shutdown PROVE CallbackFacts'
  <2>1. UNCHANGED <<pc, go, ready, removed>> /\ (jctx => jctx')
    <3>1. CASE Close
      BY <3>1 DEF Close, CancelContext
    <3>2. CASE JoinReads \/ JoinLooks \/ JoinEnds
      BY <3>2 DEF JoinReads, JoinLooks, JoinEnds, Panics, vars
    <3>3. QED
      BY <1>12, <3>1, <3>2 DEF Shutdown
  <2>2. QED
    BY <1>3, <2>1
<1>13. ASSUME NEW i \in 1..Len(workers), JobWorker(i) PROVE CallbackFacts'
  <2>1. UNCHANGED <<pc, go, ready, removed, jctx>>
    BY <1>13 DEF JobWorker, ownVars, Worker, WorkerLaunches, WorkerWithdraws, WorkerGrants,
       WorkerFinishes, AttemptEnds, Move
  <2>2. QED
    BY <1>3, <2>1
<1>14. CASE UNCHANGED allVars \/ Terminated \/ \E t \in Callbacks : OncePanics(t)
  BY <1>3, <1>14 DEF allVars, vars, ownVars, Terminated, OncePanics, Panics
<1>15. QED
  BY <1>4, <1>5, <1>6, <1>7, <1>8, <1>9, <1>10, <1>11, <1>12, <1>13, <1>14
     DEF Next, Ready, Callback

-----------------------------------------------------------------------------
(* Fairness reaches every worker *)

\* Who may still create a worker.
Pending ==
    {t \in Starters :
        IF t \in Callbacks
          THEN go[t] = "call" \/ pc[t] = "start" \/ (Kind(t) = "boot" /\ go[t] = "none")
          ELSE pc[t] \notin {"join", "returned"}}

SlotsSuffice == Len(workers) + Cardinality(Pending) <= MaxWorkers + Cardinality(Starters)

Facts == IInv /\ JobFacts /\ CallbackFacts

\* Sequences of workers with the same indices.
LEMMA SameLength ==
    ASSUME NEW s \in Seq(Workers), NEW r \in Seq(Workers), DOMAIN s = DOMAIN r
    PROVE  Len(s) = Len(r)
<1>1. Len(s) \in Nat /\ Len(r) \in Nat /\ 1..Len(s) = 1..Len(r)
  OBVIOUS
<1>2. QED
  BY <1>1

LEMMA PendingMoves ==
    ASSUME Facts, [Next]_allVars
    PROVE  \/ Len(workers') = Len(workers) /\ Pending' \subseteq Pending
           \/ /\ Len(workers') = Len(workers) + 1 /\ worker' # 0
              /\ \E t \in Pending : Pending' \subseteq Pending \ {t}
           \/ Len(workers') = Len(workers) /\ Len(workers) < MaxWorkers
<1> DEFINE Q == Len(workers') = Len(workers) /\ Pending' \subseteq Pending
<1>1. /\ pc \in [Threads -> PCs] /\ workers \in Seq(Workers) /\ Len(workers) \in Nat
      /\ go \in [Callbacks -> {"none", "loop", "call", "in", "over"}]
      /\ ready \in Nat /\ Callbacks \subseteq Threads /\ Closer \notin Callbacks
      /\ \A t \in Callbacks : Of[t] \in DOMAIN Sources
  BY CallbacksAssumption, CloserAssumption, SourcesAssumption
     DEF Facts, IInv, JobInv, TypeOK, TriggersTypeOK, Workers
<1>0. workers' \in Seq(Workers)
  BY NextInv DEF Facts, IInv, JobInv, TypeOK, Workers
<1>2. \A t \in Callbacks : Op[t] = "launch" \/ Op[t] = "stop"
  BY CallbacksAssumption
<1>3. ASSUME UNCHANGED <<pc, go>>, Len(workers') = Len(workers) PROVE Q
  BY <1>3 DEF Pending
<1>4. ASSUME NEW i \in DOMAIN Sources, Listen(i) PROVE Q
  <2>1. i \in Nat /\ i >= 1
    BY SourcesAssumption
  <2>2. \A t \in Callbacks : Of[t] = i => go[t] = "none"
    BY <1>1, <1>4, <2>1 DEF Listen, Facts, CallbackFacts, Subscribed
  <2>3. \A t \in Callbacks : go'[t] = go[t] \/ (Of[t] = i /\ go'[t] = "loop")
                                            \/ (Of[t] = i /\ go'[t] = "call" /\ Kind(t) = "boot")
    BY <1>1, <1>4 DEF Listen
  <2>4. UNCHANGED <<pc, workers>>
    BY <1>4 DEF Listen, vars
  <2>5. QED
    BY <2>2, <2>3, <2>4 DEF Pending
<1>5. ASSUME NEW s \in Threads \ Callbacks, Request(s) PROVE Q
  <2>1. UNCHANGED <<go, workers>> /\ pc[s] = "idle" /\ \E l : Goto(s, l)
    BY <1>5 DEF Request, ownVars, Lock
  <2>2. \A t \in Threads : pc'[t] = pc[t] \/ (t = s /\ pc[t] = "idle")
    BY <1>1, <2>1 DEF Goto
  <2>3. Starters \subseteq Threads
    BY DEF Starters
  <2>4. QED
    BY <2>1, <2>2, <2>3 DEF Pending
<1>6. ASSUME NEW s \in Threads, Operation(s), ~StartLocked(s) PROVE Q
  <2>1. UNCHANGED go /\ Len(workers') = Len(workers)
    <3>1. UNCHANGED go
      BY <1>6 DEF Operation, ownVars
    <3>2. DOMAIN workers' = DOMAIN workers
      BY <1>6 DEF Operation, Locked, Join, StopLocked, StopDisable, StopSignal,
         StopAttemptOver, StopDone, KillLocked, KillDisable, KillAttempt
    <3>3. QED
      BY <1>0, <1>1, <3>1, <3>2, SameLength
  <2>2. \A t \in Threads \ {s} : pc'[t] = pc[t]
    BY <1>6, OperationKeepsOthers DEF Operation, Facts
  <2>3. CASE s \in Callbacks /\ s \in Starters
    <3>1. Op[s] = "launch"
      BY <1>2, <2>3 DEF Starters
    <3>2. pc[s] \in {"idle", "start", "join", "returned"}
      BY <3>1 DEF Facts, JobFacts
    <3>3. Join(s)
      BY <1>6, <3>2 DEF Operation, Locked, StopLocked, StopDisable, StopSignal,
         StopAttemptOver, StopDone, KillLocked, KillDisable, KillAttempt
    <3>4. pc[s] = "join" /\ pc'[s] = "returned"
      BY <1>1, <3>3 DEF Join, Goto
    <3>5. QED
      BY <2>1, <2>2, <3>4 DEF Pending, Starters
  <2>4. CASE s \notin Callbacks
    <3>1. pc[s] \in {"join", "returned"} => pc'[s] \in {"join", "returned"}
      <4>1. CASE pc[s] = "join"
        <5>1. Join(s)
          BY <1>6, <4>1 DEF Operation, Locked, StartLocked, StopLocked, StopDisable, StopSignal,
             StopAttemptOver, StopDone, KillLocked, KillDisable, KillAttempt
        <5>2. QED
          BY <1>1, <5>1 DEF Join, Goto
      <4>2. pc[s] # "returned"
        BY <1>6, OperationKeepsOthers DEF Operation, Facts
      <4>3. QED
        BY <4>1, <4>2
    <3>2. QED
      BY <2>1, <2>2, <2>4, <3>1 DEF Pending, Starters
  <2>5. CASE s \notin Starters
    BY <2>1, <2>2, <2>5 DEF Pending, Starters
  <2>6. QED
    BY <2>3, <2>4, <2>5
<1>7. ASSUME NEW s \in Threads, StartLocked(s), UNCHANGED ownVars
      PROVE  \/ Q
             \/ /\ Len(workers') = Len(workers) + 1 /\ worker' # 0
                /\ \E t \in Pending : Pending' \subseteq Pending \ {t}
  <2>1. /\ pc[s] = "start" /\ s \in Starters /\ UNCHANGED go
        /\ s \in Callbacks => go[s] = "in"
    BY <1>1, <1>7 DEF StartLocked, Facts, JobFacts, CallbackFacts, ownVars
  <2>2. s \in Pending
    BY <2>1 DEF Pending
  <2>3. pc' = [pc EXCEPT ![s] = IF Op[s] = "launch" THEN "join" ELSE "returned"]
    BY <1>7 DEF StartLocked, Unlock, Goto
  <2>4. Pending' \subseteq Pending \ {s}
    <3>1. s \notin Pending'
      BY <1>1, <2>1, <2>3 DEF Pending
    <3>2. \A t \in Threads \ {s} : pc'[t] = pc[t]
      BY <1>1, <2>3
    <3>3. QED
      BY <2>1, <3>1, <3>2 DEF Pending, Starters
  <2>5. UNCHANGED workers \/ workers' = Append(workers, Fresh)
    BY <1>7 DEF StartLocked
  <2>6. Len(workers') = Len(workers) \/ Len(workers') = Len(workers) + 1
    BY <1>1, <2>5
  <2>7. worker' # 0
    BY <1>1, <1>7 DEF StartLocked
  <2>8. QED
    BY <2>2, <2>4, <2>6, <2>7
<1>8. ASSUME NEW s \in Callbacks, Signal(s) \/ LoopHead(s)
      PROVE  Q \/ (Len(workers') = Len(workers) /\ Len(workers) < MaxWorkers)
  <2>1. UNCHANGED <<workers, pc>>
    BY <1>8 DEF Signal, LoopHead, vars
  <2>2. (go' = [go EXCEPT ![s] = "over"]) \/ Len(workers) < MaxWorkers
    BY <1>8 DEF Signal, LoopHead
  <2>3. QED
    BY <1>1, <2>1, <2>2 DEF Pending
<1>9. ASSUME NEW s \in Callbacks, CallbackLocks(s) PROVE Q
  <2>1. UNCHANGED workers /\ go[s] = "call" /\ go' = [go EXCEPT ![s] = "in"] /\ \E l : Goto(s, l)
    BY <1>9 DEF CallbackLocks, Lock
  <2>2. \A t \in Threads \ {s} : pc'[t] = pc[t]
    BY <1>1, <2>1 DEF Goto
  <2>3. QED
    BY <1>1, <2>1, <2>2 DEF Pending, Starters
<1>10. ASSUME NEW s \in Callbacks, CallbackReturns(s) PROVE Q
  <2>1. UNCHANGED workers /\ pc' = [pc EXCEPT ![s] = "idle"]
    BY <1>10 DEF CallbackReturns, Goto
  <2>2. \E g \in {"loop", "over", "none"} : /\ go' = [go EXCEPT ![s] = g]
                                            /\ Kind(s) = "boot" => g # "none"
    BY <1>10 DEF CallbackReturns
  <2>3. QED
    BY <1>1, <2>1, <2>2 DEF Pending, Starters
<1>11. ASSUME Shutdown PROVE Q
  <2>1. CASE Close
    <3>1. workers' = [i \in 1..Len(workers) |-> [workers[i] EXCEPT !.phase = "ended", !.told = FALSE]]
          /\ UNCHANGED <<pc, go>>
      BY <2>1 DEF Close, CancelContext
    <3>5. DOMAIN workers' = 1..Len(workers)
      BY <3>1, Zenon
    <3>6. DOMAIN workers = 1..Len(workers)
      BY <1>1
    <3>2. DOMAIN workers' = DOMAIN workers
      BY <3>5, <3>6
    <3>4. Len(workers') = Len(workers)
      BY <1>0, <1>1, <3>2, SameLength
    <3>3. QED
      BY <1>3, <3>1, <3>4
  <2>2. CASE JoinReads \/ JoinLooks \/ JoinEnds
    BY <1>3, <2>2 DEF JoinReads, JoinLooks, JoinEnds, Panics, vars
  <2>3. QED
    BY <1>11, <2>1, <2>2 DEF Shutdown
<1>12. ASSUME NEW i \in 1..Len(workers), JobWorker(i) PROVE Q
  <2>1. UNCHANGED <<pc, go>> /\ Len(workers') = Len(workers)
    BY <1>12, WorkerStep DEF JobWorker, ownVars, Facts, IInv, JobInv
  <2>2. QED
    BY <1>3, <2>1
<1>13. CASE \/ UNCHANGED allVars \/ Terminated \/ \E t \in Callbacks : OncePanics(t)
            \/ \E i \in DOMAIN Sources : ListenReturns(i)
            \/ \E role \in Roles : Remove(role)
  BY <1>3, <1>13 DEF allVars, vars, ownVars, Terminated, OncePanics, Panics, ListenReturns, Remove
<1>14. ASSUME NEW s \in Threads, Operation(s)
       PROVE  \/ Q
              \/ /\ Len(workers') = Len(workers) + 1 /\ worker' # 0
                 /\ \E t \in Pending : Pending' \subseteq Pending \ {t}
  BY <1>6, <1>7, <1>14 DEF Operation
<1>15. QED
  BY <1>4, <1>5, <1>8, <1>9, <1>10, <1>11, <1>12, <1>13, <1>14 DEF Next, Ready, Callback

LEMMA FactsInit == TriggersInit => Facts /\ SlotsSuffice
<1> SUFFICES ASSUME TriggersInit PROVE Facts /\ SlotsSuffice
  OBVIOUS
<1>1. IInv /\ CallbackFacts
  BY InitInv, CallbackFactsInit
<1>2. JobFacts
  BY DEF TriggersInit, Init, JobFacts
<1>3. Pending \subseteq Starters
  BY DEF Pending
<1>4. Cardinality(Pending) <= Cardinality(Starters)
  BY <1>3, StartersAssumption, FS_Subset
<1>5. Cardinality(Pending) \in Nat /\ Cardinality(Starters) \in Nat
  BY <1>3, StartersAssumption, FS_Subset, FS_CardinalityType
<1>6. Len(workers) = 0
  BY DEF TriggersInit, Init
<1>7. SlotsSuffice
  BY <1>4, <1>5, <1>6, MaxWorkersAssumption DEF SlotsSuffice
<1>8. QED
  BY <1>1, <1>2, <1>7 DEF Facts

LEMMA FactsNext == Facts /\ SlotsSuffice /\ [Next]_allVars => Facts' /\ SlotsSuffice'
<1> SUFFICES ASSUME Facts, SlotsSuffice, [Next]_allVars PROVE Facts' /\ SlotsSuffice'
  OBVIOUS
<1>1. Facts'
  BY NextInv, JobFactsNext, CallbackFactsNext DEF Facts
<1>2. Pending \subseteq Starters /\ Pending' \subseteq Starters
  BY DEF Pending
<1>3. IsFiniteSet(Pending) /\ IsFiniteSet(Pending')
  BY <1>2, StartersAssumption, FS_Subset
<1>4. /\ Cardinality(Pending) \in Nat /\ Cardinality(Pending') \in Nat
      /\ Cardinality(Starters) \in Nat /\ Cardinality(Pending') <= Cardinality(Starters)
      /\ Cardinality(Pending') \in Nat
  BY <1>2, <1>3, StartersAssumption, FS_Subset, FS_CardinalityType
<1>5. Len(workers) \in Nat /\ MaxWorkers \in Nat
  BY MaxWorkersAssumption DEF Facts, IInv, JobInv, TypeOK
<1>6. CASE Len(workers') = Len(workers) /\ Pending' \subseteq Pending
  <2>1. Cardinality(Pending') <= Cardinality(Pending)
    BY <1>3, <1>6, FS_Subset
  <2>2. QED
    BY <1>1, <1>4, <1>5, <1>6, <2>1 DEF SlotsSuffice
<1>7. ASSUME Len(workers') = Len(workers) + 1, NEW t \in Pending, Pending' \subseteq Pending \ {t}
      PROVE  SlotsSuffice'
  <2>1. IsFiniteSet(Pending \ {t}) /\ Cardinality(Pending \ {t}) = Cardinality(Pending) - 1
    BY <1>3, FS_RemoveElement
  <2>2. Cardinality(Pending') <= Cardinality(Pending) - 1
    BY <1>7, <2>1, FS_Subset
  <2>3. QED
    BY <1>4, <1>5, <1>7, <2>2 DEF SlotsSuffice
<1>8. CASE Len(workers') = Len(workers) /\ Len(workers) < MaxWorkers
  BY <1>1, <1>4, <1>5, <1>8 DEF SlotsSuffice
<1>9. QED
  BY <1>1, <1>6, <1>7, <1>8, PendingMoves

LEMMA FactsAlways == Spec => []Facts /\ []SlotsSuffice
BY FactsInit, FactsNext, PTL DEF Spec

\* There are never more workers than fairness names.
LEMMA WorkersHaveSlots ==
    ASSUME Facts, SlotsSuffice, NEW i \in 1..Len(workers) PROVE i \in Slots
<1>1. Pending \subseteq Starters
  BY DEF Pending
<1>2. Cardinality(Pending) \in Nat /\ Cardinality(Starters) \in Nat
  BY <1>1, StartersAssumption, FS_Subset, FS_CardinalityType
<1>3. Len(workers) \in Nat
  BY DEF Facts, IInv, JobInv, TypeOK
<1>4. QED
  BY <1>2, <1>3, MaxWorkersAssumption DEF SlotsSuffice, Slots

-----------------------------------------------------------------------------
(* An operation that waits for an attempt *)

\* The worker that t is stopping goes its way, and t goes on when it may.
LEMMA StopMoves ==
    ASSUME Facts, [Next]_allVars, NEW p \in Threads, NEW i \in 1..Len(workers), mine[p] = i
    PROVE  /\ pc[p] = "attempt" =>
                \/ pc'[p] = "attempt" /\ mine'[p] = i /\ Moved(workers[i], workers'[i])
                \/ /\ pc'[p] = "done" /\ mine'[p] = i /\ workers[i].phase # "attempt"
                   /\ workers'[i] = workers[i]
           /\ pc[p] = "done" =>
                \/ pc'[p] = "done" /\ mine'[p] = i /\ Moved(workers[i], workers'[i])
                \/ workers[i].phase = "ended" /\ pc'[p] = "returned"
                \/ workers[i].phase = "ended" /\ pc'[p] = "start" /\ Op[p] = "restart"
           /\ pc[p] \in {"attempt", "done"} => workers[i].disabled
           /\ pc[p] = "attempt" => /\ workers[i].phase # "ready"
                                   /\ workers[i].phase = "attempt" => workers[i].told
<1>1. Moved(workers[i], workers'[i]) /\ Len(workers') >= Len(workers) /\ IInv
  BY NextMoves DEF MovedAll, Facts
<1>2. CASE pc[p] = "attempt"
  <2>1. pc[p] \in Inside /\ workers[i].disabled
    BY <1>1, <1>2 DEF Inside, IInv, JobInv, Holding, Told
  <2>2. CASE Locked(p)
    BY <1>1, <1>2, <2>1, <2>2, LockedMoves DEF Facts, JobFacts
  <2>3. CASE pc'[p] = pc[p] /\ mine'[p] = mine[p]
    BY <1>1, <1>2, <2>1, <2>3 DEF Facts, JobFacts
  <2>4. QED
    BY <1>1, <2>1, <2>2, <2>3, HolderMoves
<1>3. CASE pc[p] = "done"
  <2>1. pc[p] \in Inside /\ workers[i].disabled
    BY <1>1, <1>3 DEF Inside, IInv, JobInv, Holding, Told
  <2>2. CASE Locked(p)
    BY <1>1, <1>3, <2>1, <2>2, LockedMoves
  <2>3. CASE pc'[p] = pc[p] /\ mine'[p] = mine[p]
    BY <1>1, <1>3, <2>1, <2>3
  <2>4. QED
    BY <1>1, <2>1, <2>2, <2>3, HolderMoves
<1>4. QED
  BY <1>2, <1>3

\* The mutex is held: t starts a new worker, or nothing happens to t.
LEMMA StartMoves ==
    ASSUME Facts, [Next]_allVars, NEW p \in Threads, pc[p] = "start"
    PROVE  \/ pc'[p] = "start"
           \/ pc'[p] = "join" /\ Op[p] = "launch" /\ worker' # 0
           \/ pc'[p] = "returned" /\ Op[p] # "launch" /\ worker' # 0
<1>1. IInv /\ pc[p] \in Inside /\ pc \in [Threads -> PCs]
  BY DEF Facts, Inside, IInv, JobInv, TypeOK
<1>2. CASE Locked(p)
  <2>1. StartLocked(p)
    BY <1>2 DEF Locked, StopLocked, StopDisable, StopSignal, StopAttemptOver, StopDone,
       KillLocked, KillDisable, KillAttempt
  <2>2. pc'[p] = IF Op[p] = "launch" THEN "join" ELSE "returned"
    BY <1>1, <2>1 DEF StartLocked, Unlock, Goto
  <2>3. worker' # 0
    BY <1>1, <1>2, LockedMoves
  <2>4. QED
    BY <2>2, <2>3
<1>3. CASE pc'[p] = pc[p]
  BY <1>3
<1>4. QED
  BY <1>1, <1>2, <1>3, HolderMoves

\* What a step of t's operation does there.
LEMMA OperationProgress ==
    ASSUME Facts, NEW p \in Threads, Operation(p)
    PROVE  pc'[p] # pc[p]
<1>1. pc \in [Threads -> PCs]
  BY DEF Facts, IInv, JobInv, TypeOK
<1>2. CASE Locked(p)
  BY <1>2, LockedMoves DEF Facts
<1>3. CASE Join(p)
  BY <1>1, <1>3 DEF Join, Goto
<1>4. QED
  BY <1>2, <1>3 DEF Operation

LEMMA WorkerProgress ==
    ASSUME Facts, NEW i \in 1..Len(workers)
    PROVE  /\ AttemptEnds(i) => workers'[i].phase = "idle"
           /\ (WorkerGrants(i) \/ WorkerFinishes(i)) /\ workers[i].disabled =>
                 workers'[i].phase = "ended"
<1>1. workers \in Seq(Workers)
  BY DEF Facts, IInv, JobInv, TypeOK, Workers
<1>2. workers[i] \in Workers
  BY <1>1
<1>3. ASSUME NEW ph \in Phases, Move(i, ph) PROVE workers'[i].phase = ph
  <2> DEFINE w == [workers[i] EXCEPT !.phase = ph, !.told = @ /\ ph = "attempt"]
  <2>1. w \in Workers /\ w.phase = ph
    BY <1>2 DEF Workers
  <2>2. workers' = [workers EXCEPT ![i] = w]
    BY <1>2, <1>3 DEF Move, Workers
  <2>3. \A j \in 1..Len(workers) : workers'[j] = IF j = i THEN w ELSE workers[j]
    BY <1>1, <2>1, <2>2, Replaced
  <2>4. QED
    BY <2>1, <2>3
<1>4. "idle" \in Phases /\ "ended" \in Phases
  BY DEF Phases
<1>5. QED
  BY <1>3, <1>4 DEF AttemptEnds, WorkerGrants, WorkerFinishes, W!Grant

\* The hypothesis JobGoesOn, which TLC checks as an invariant, part by part.
LEMMA AllGoOn ==
    ASSUME JobGoesOn
    PROVE  /\ \A t \in Threads : OperationGoesOn(t)
           /\ \A t \in Callbacks : CallbackGoesOn(t)
           /\ \A i \in Slots : WorkerGoesOn(i)
BY DEF JobGoesOn

\* A Stop, a Restart or a drop that found a live attempt returns: the attempt was
\* told, and ends; its worker, whose retries are disabled, ends then, and the
\* operation has the mutex until it has seen that (job.go:55-71).
THEOREM ReachedStopAlwaysReturns == Spec /\ []Fairness /\ []JobGoesOn => ReachedStopReturns
<1> DEFINE X(t) == pc[t] = "attempt" ~> pc[t] \in {"returned", "idle"} \/ ~up
           H == Spec /\ []Fairness /\ []JobGoesOn
<1>1. ASSUME NEW p \in Threads PROVE H => X(p)
  <2> DEFINE R == pc[p] = "attempt"
             U == up
             Gl == pc[p] \in {"returned", "idle"}
             St == pc[p] = "start" /\ Op[p] = "restart"
             Q == <>(Gl \/ ~U)
             On(q) == mine[p] = q /\ q \in 1..Len(workers)
             EO == ENABLED <<up /\ Operation(p)>>_allVars
             Inv == Facts /\ SlotsSuffice
  <2> SUFFICES ASSUME [][Next]_allVars, []Facts, []SlotsSuffice, []Fairness, []JobGoesOn
               PROVE  [](R => Q)
    BY FactsAlways, PTL DEF Spec
  <2>1. WF_allVars(up /\ Operation(p))
    <3> DEFINE F(t) == WF_allVars(up /\ Operation(t))
    <3>1. (\A t \in Threads : F(t)) => F(p)
      <4> HIDE DEF F
      <4> QED OBVIOUS
    <3>2. QED
      BY <3>1, PTL DEF Fairness
  <2>2. Inv /\ JobGoesOn => OperationGoesOn(p)
    BY AllGoOn
  <2>3. Inv /\ [Next]_allVars => (St => St' \/ Gl')
    BY StartMoves
  <2>4. Inv /\ <<up /\ Operation(p)>>_allVars => (St => Gl')
    <3> SUFFICES ASSUME Inv, Operation(p), up, St, [Next]_allVars PROVE Gl'
      BY DEF Next
    <3> QED
      BY OperationProgress, StartMoves
  <2>5. Inv /\ JobGoesOn /\ St /\ U => EO
    <3> SUFFICES ASSUME OperationGoesOn(p), St, U PROVE EO
      BY <2>2
    <3> QED
      BY DEF OperationGoesOn
  <2>6. (\E q \in Slots : R /\ On(q)) => Q
    <3> SUFFICES ASSUME NEW q \in Slots PROVE R /\ On(q) => Q
      <4> HIDE DEF Q
      <4> QED OBVIOUS
    <3> DEFINE Ph(s) == workers[q].phase \in s
               A1 == R /\ On(q) /\ Ph({"attempt"})
               A2 == R /\ On(q) /\ Ph({"idle", "ended"})
               D1 == pc[p] = "done" /\ On(q) /\ Ph({"idle"})
               D2 == pc[p] = "done" /\ On(q) /\ Ph({"ended"})
               EF == ENABLED <<up /\ q <= Len(workers) /\ (WorkerGrants(q) \/ WorkerFinishes(q))
                              /\ UNCHANGED ownVars>>_allVars
               EA == ENABLED <<up /\ q <= Len(workers) /\ workers[q].told /\ AttemptEnds(q)
                              /\ UNCHANGED ownVars>>_allVars
               F(i) ==
                 /\ WF_allVars(up /\ i <= Len(workers) /\ (WorkerLaunches(i) \/ WorkerWithdraws(i))
                               /\ UNCHANGED ownVars)
                 /\ WF_allVars(up /\ i <= Len(workers) /\ (WorkerGrants(i) \/ WorkerFinishes(i))
                               /\ UNCHANGED ownVars)
                 /\ WF_allVars(up /\ i <= Len(workers) /\ workers[i].told /\ AttemptEnds(i)
                               /\ UNCHANGED ownVars)
    <3>1. F(q)
      <4>1. (\A i \in Slots : F(i)) => F(q)
        <5> HIDE DEF F
        <5> QED OBVIOUS
      <4>2. QED
        BY <4>1, PTL DEF Fairness
    <3>2. Inv /\ R /\ On(q) => A1 \/ A2
      <4> SUFFICES ASSUME Inv, R, On(q) PROVE Ph({"attempt"}) \/ Ph({"idle", "ended"})
        OBVIOUS
      <4>1. workers \in Seq(Workers)
        BY DEF Facts, IInv, JobInv, TypeOK, Workers
      <4>2. workers[q] \in Workers
        BY <4>1
      <4>3. QED
        BY <4>2 DEF Facts, JobFacts, Workers, Phases
    <3>3. Inv /\ [Next]_allVars =>
            /\ A1 => A1' \/ A2'
            /\ A2 => A2' \/ D1' \/ D2'
            /\ D1 => D1' \/ D2'
            /\ D2 => D2' \/ St' \/ Gl'
      <4> SUFFICES ASSUME Inv, [Next]_allVars, On(q)
                   PROVE  /\ A1 => A1' \/ A2'
                          /\ A2 => A2' \/ D1' \/ D2'
                          /\ D1 => D1' \/ D2'
                          /\ D2 => D2' \/ St' \/ Gl'
        OBVIOUS
      <4>1. q \in 1..Len(workers')
        <5>1. Len(workers) \in Nat /\ Len(workers') \in Nat /\ Len(workers') >= Len(workers)
          BY NextInv, NextMoves DEF Facts, IInv, JobInv, TypeOK, MovedAll
        <5>2. QED
          BY <5>1
      <4>2. q \in 1..Len(workers) /\ mine[p] = q
        OBVIOUS
      <4>3. QED
        BY <4>1, <4>2, StopMoves DEF Moved
    <3>4. Inv /\ <<up /\ Operation(p)>>_allVars =>
            /\ A2 => ~A2'
            /\ D2 => ~D2'
      BY OperationProgress
    <3>5. Inv /\ <<up /\ q <= Len(workers) /\ (WorkerGrants(q) \/ WorkerFinishes(q))
                  /\ UNCHANGED ownVars>>_allVars => (D1 => ~D1')
      <4> SUFFICES ASSUME Inv, WorkerGrants(q) \/ WorkerFinishes(q), D1 PROVE ~D1'
        OBVIOUS
      <4>1. workers[q].disabled
        BY DEF Facts, IInv, JobInv, Holding, Told
      <4>2. QED
        BY <4>1, WorkerProgress
    <3>6. Inv /\ <<up /\ q <= Len(workers) /\ workers[q].told /\ AttemptEnds(q)
                  /\ UNCHANGED ownVars>>_allVars => (A1 => ~A1')
      <4> SUFFICES ASSUME Inv, AttemptEnds(q), A1 PROVE ~A1'
        OBVIOUS
      <4>1. QED
        BY WorkerProgress
    <3>7. Inv /\ JobGoesOn /\ U =>
            /\ A1 => EA
            /\ A2 => EO
            /\ D1 => EF
            /\ D2 => EO
      <4> SUFFICES ASSUME Inv, JobGoesOn, U, On(q)
                   PROVE  /\ A1 => EA
                          /\ A2 => EO
                          /\ D1 => EF
                          /\ D2 => EO
        OBVIOUS
      <4>1. OperationGoesOn(p) /\ WorkerGoesOn(q)
        BY AllGoOn
      <4>2. R => (workers[q].phase = "attempt" => workers[q].told)
        BY DEF Facts, JobFacts
      <4>3. q <= Len(workers)
        BY DEF Facts, IInv, JobInv, TypeOK
      <4>4. A1 => EA
        BY <4>1, <4>2, <4>3 DEF WorkerGoesOn
      <4>5. D1 => EF
        BY <4>1, <4>3 DEF WorkerGoesOn
      <4>6. A2 \/ D2 => EO
        BY <4>1 DEF OperationGoesOn
      <4>7. QED
        BY <4>4, <4>5, <4>6
    <3> HIDE DEF A1, A2, D1, D2, U, Gl, St, R, On, Inv
    <3>8. [](St => Q)
      BY <2>1, <2>3, <2>4, <2>5, PTL DEF Inv
    <3>9. [](D2 => <>(St \/ Gl \/ ~U))
      BY <2>1, <3>3, <3>4, <3>7, PTL DEF Inv
    <3>10. [](D1 => <>(D2 \/ ~U))
      BY <3>1, <3>3, <3>5, <3>7, PTL DEF Inv
    <3>11. [](A2 => <>(D1 \/ D2 \/ ~U))
      BY <2>1, <3>3, <3>4, <3>7, PTL DEF Inv
    <3>12. [](A1 => <>(A2 \/ ~U))
      BY <3>1, <3>3, <3>6, <3>7, PTL DEF Inv
    <3>13. QED
      BY <3>2, <3>8, <3>9, <3>10, <3>11, <3>12, PTL DEF Inv
  <2>7. Inv => (R => \E q \in Slots : R /\ On(q))
    <3> SUFFICES ASSUME Inv, R PROVE \E q \in Slots : On(q)
      OBVIOUS
    <3>1. mine[p] \in 1..Len(workers)
      BY DEF Facts, IInv, JobInv, Holding, Waiting
    <3>2. mine[p] \in Slots
      BY <3>1, WorkersHaveSlots
    <3>3. QED
      BY <3>1, <3>2
  <2> HIDE DEF R, On, Gl, U
  <2>8. QED
    BY <2>6, <2>7, PTL
<1>2. ReachedStopReturns <=> \A t \in Threads : X(t)
  BY DEF ReachedStopReturns
<1> HIDE DEF X
<1>3. QED
  BY <1>1, <1>2

-----------------------------------------------------------------------------
(* "always" undoes a stop *)

\* All workers have ended, and the job has none: so it stays until it is launched.
LEMMA OverStays ==
    ASSUME Facts, [Next]_allVars, AllOver, worker' = 0
    PROVE  AllOver' /\ Len(workers') = Len(workers)
<1>1. Len(workers) \in Nat
  BY DEF Facts, IInv, JobInv, TypeOK
<1>2. MovedAll
  BY NextMoves DEF Facts
<1>3. Len(workers') = Len(workers)
  BY PendingMoves
<1>4. \A i \in 1..Len(workers) : workers'[i].phase = "ended"
  BY <1>2 DEF AllOver, MovedAll, Moved
<1>5. QED
  BY <1>3, <1>4 DEF AllOver

\* Ready never goes back.
LEMMA StaysSubscribed ==
    ASSUME Facts, [Next]_allVars, NEW i \in DOMAIN Sources, Subscribed(i) PROVE Subscribed(i)'
<1>1. ready \in Nat /\ i \in Nat
  BY SourcesAssumption DEF Facts, IInv, TriggersTypeOK
<1>2. UNCHANGED ready \/ ready' = ready + 1
  BY DEF Next, Ready, Listen, ListenReturns, Remove, Request, Operation, Signal, CallbackLocks,
     Callback, LoopHead, OncePanics, CallbackReturns, JobWorker, Shutdown, JoinReads, JoinLooks,
     JoinEnds, Close, Panics, Terminated, allVars, ownVars
<1>3. QED
  BY <1>1, <1>2 DEF Subscribed

\* The goroutine of "always", until its context is cancelled.
LEMMA AlwaysMoves ==
    ASSUME Facts, [Next]_allVars, NEW c \in Callbacks, Kind(c) = "always", Subscribed(Of[c]), ~jctx
    PROVE  /\ go[c] \in {"loop", "call", "in"}
           /\ go[c] = "loop" => go'[c] \in {"loop", "call"}
           /\ go[c] = "call" => go'[c] = "call" \/ (go'[c] = "in" /\ pc[c] = "idle")
           /\ go[c] = "in" => go'[c] = "in" \/ (pc[c] = "returned" /\ go'[c] = "loop")
<1>1. /\ go \in [Callbacks -> {"none", "loop", "call", "in", "over"}]
      /\ ready \in Nat /\ Of[c] \in DOMAIN Sources
      /\ removed = {} /\ go[c] \in {"loop", "call", "in"}
  BY CallbacksAssumption, SourcesAssumption DEF Facts, IInv, TriggersTypeOK, CallbackFacts
<1>2. \A i \in DOMAIN Sources : i \in Nat /\ i >= 1
  BY SourcesAssumption
<1>3. CASE go'[c] = go[c]
  BY <1>1, <1>3
<1>4. ASSUME NEW i \in DOMAIN Sources, Listen(i) PROVE go'[c] = go[c]
  <2>1. Of[c] # i
    BY <1>1, <1>2, <1>4 DEF Listen, Subscribed
  <2>2. QED
    BY <1>1, <1>4, <2>1 DEF Listen
<1>5. ASSUME NEW s \in Callbacks, LoopHead(s)
      PROVE  go'[c] = go[c] \/ (go[c] = "loop" /\ go'[c] = "call")
  BY <1>1, <1>5 DEF LoopHead
<1>6. ASSUME NEW s \in Callbacks, Signal(s) PROVE go'[c] = go[c]
  BY <1>1, <1>6 DEF Signal
<1>7. ASSUME NEW s \in Callbacks, CallbackLocks(s)
      PROVE  go'[c] = go[c] \/ (go[c] = "call" /\ go'[c] = "in" /\ pc[c] = "idle")
  BY <1>1, <1>7 DEF CallbackLocks, Lock
<1>8. ASSUME NEW s \in Callbacks, CallbackReturns(s)
      PROVE  go'[c] = go[c] \/ (go[c] = "in" /\ go'[c] = "loop" /\ pc[c] = "returned")
  BY <1>1, <1>8 DEF CallbackReturns
<1>9. CASE \/ \E i \in DOMAIN Sources : ListenReturns(i)
           \/ \E role \in Roles : Remove(role)
           \/ \E t \in Threads : Request(t) \/ Operation(t)
           \/ \E t \in Callbacks : OncePanics(t)
           \/ \E i \in 1..Len(workers) : JobWorker(i)
           \/ Shutdown \/ Terminated \/ UNCHANGED allVars
  BY <1>3, <1>9 DEF ListenReturns, Remove, Request, Operation, OncePanics, JobWorker, Shutdown,
     JoinReads, JoinLooks, JoinEnds, Close, Panics, Terminated, allVars, ownVars
<1>10. QED
  BY <1>1, <1>4, <1>5, <1>6, <1>7, <1>8, <1>9 DEF Next, Ready, Callback

\* What "always" undoes, and what ends the obligation.
Undone == worker # 0 \/ jctx \/ ~up \/ Len(workers) >= MaxWorkers
Stopped(i) == Subscribed(i) /\ AllOver /\ ~Undone

LEMMA StoppedStays ==
    ASSUME Facts, [Next]_allVars, NEW i \in DOMAIN Sources, Stopped(i) PROVE Stopped(i)' \/ Undone'
BY OverStays, StaysSubscribed DEF Stopped, Undone

\* Nobody has to be waited for: who holds the mutex of a job without a live worker
\* goes through its operation.
LEMMA StoppedHolder ==
    ASSUME Facts, [Next]_allVars, NEW p \in Threads, mu = p, AllOver
    PROVE  /\ pc[p] \in {"start", "stop", "disable", "signal", "attempt", "done", "kill"}
           /\ pc'[p] # pc[p] => \/ mu' = NoThread
                                \/ pc[p] \in {"stop", "done"} /\ pc'[p] = "start"
                                \/ pc[p] = "disable" /\ pc'[p] = "signal"
                                \/ pc[p] = "signal" /\ pc'[p] \in {"attempt", "done"}
                                \/ pc[p] = "attempt" /\ pc'[p] = "done"
           /\ mu' = p \/ mu' = NoThread
<1>1. IInv /\ pc[p] \in Inside /\ worker = 0 /\ pc \in [Threads -> PCs]
  BY DEF Facts, IInv, JobInv, Mutex, TypeOK, AllOver
<1>2. pc[p] \notin Killing
  BY <1>1 DEF IInv, JobInv, Holding
<1>3. CASE pc'[p] = pc[p] /\ mu' = mu
  BY <1>1, <1>2, <1>3 DEF Inside, Killing
<1>4. CASE Locked(p)
  <2>1. pc'[p] # pc[p] => \/ mu' = NoThread
                          \/ pc[p] \in {"stop", "done"} /\ pc'[p] = "start"
                          \/ pc[p] = "disable" /\ pc'[p] = "signal"
                          \/ pc[p] = "signal" /\ pc'[p] \in {"attempt", "done"}
                          \/ pc[p] = "attempt" /\ pc'[p] = "done"
    BY <1>1, <1>2, <1>4, LockedMoves DEF Killing
  <2>2. mu' = p \/ mu' = NoThread
    BY <1>4 DEF Locked, StartLocked, StopLocked, StopDisable, StopSignal, StopAttemptOver, StopDone,
       KillLocked, KillDisable, KillAttempt, StopIsOver, Unlock
  <2>3. QED
    BY <1>1, <1>2, <2>1, <2>2 DEF Inside, Killing
<1>5. QED
  BY <1>1, <1>3, <1>4, HolderMoves

LEMMA StoppedJobIsFree ==
    ASSUME NEW i \in DOMAIN Sources
    PROVE  Spec /\ []Fairness /\ []JobGoesOn =>
              [](Stopped(i) => <>(Undone \/ (Stopped(i) /\ mu = NoThread)))
<1> DEFINE S == Stopped(i)
           G == Undone
           Fr == mu = NoThread
           Q == <>(G \/ (S /\ Fr))
           Inv == Facts
<1> SUFFICES ASSUME [][Next]_allVars, []Facts, []Fairness, []JobGoesOn PROVE [](S => Q)
  BY FactsAlways, PTL DEF Spec
<1>1. (\E q \in Threads : S /\ mu = q) => Q
  <2> SUFFICES ASSUME NEW q \in Threads PROVE S /\ mu = q => Q
    <3> HIDE DEF Q
    <3> QED OBVIOUS
  <2> DEFINE At(l) == S /\ mu = q /\ pc[q] = l
             Sp == At("stop")
             Di == At("disable")
             Si == At("signal")
             A == At("attempt")
             D == At("done")
             St == At("start")
             K == At("kill")
             EO == ENABLED <<up /\ Operation(q)>>_allVars
  <2>1. WF_allVars(up /\ Operation(q))
    <3> DEFINE F(t) == WF_allVars(up /\ Operation(t))
    <3>1. (\A t \in Threads : F(t)) => F(q)
      <4> HIDE DEF F
      <4> QED OBVIOUS
    <3>2. QED
      BY <3>1, PTL DEF Fairness
  <2>2. Facts /\ S /\ mu = q => Sp \/ Di \/ Si \/ A \/ D \/ St \/ K
    <3> SUFFICES ASSUME Facts, S, mu = q
                 PROVE  pc[q] \in {"start", "stop", "disable", "signal", "attempt", "done", "kill"}
      OBVIOUS
    <3>1. pc[q] \in Inside /\ worker = 0
      BY DEF Facts, IInv, JobInv, Mutex, Stopped, AllOver
    <3>2. pc[q] \notin Killing
      BY <3>1 DEF Facts, IInv, JobInv, Holding
    <3>3. QED
      BY <3>1, <3>2 DEF Inside, Killing
  <2>3. Facts /\ [Next]_allVars =>
          /\ Sp => Sp' \/ St' \/ G' \/ (S' /\ Fr')
          /\ Di => Di' \/ Si' \/ G' \/ (S' /\ Fr')
          /\ Si => Si' \/ A' \/ D' \/ G' \/ (S' /\ Fr')
          /\ A => A' \/ D' \/ G' \/ (S' /\ Fr')
          /\ D => D' \/ St' \/ G' \/ (S' /\ Fr')
          /\ St => St' \/ G' \/ (S' /\ Fr')
          /\ K => K' \/ G' \/ (S' /\ Fr')
    <3> SUFFICES ASSUME Facts, [Next]_allVars, S, mu = q, ~G', ~Fr'
                 PROVE  /\ Sp => Sp' \/ St'
                        /\ Di => Di' \/ Si'
                        /\ Si => Si' \/ A' \/ D'
                        /\ A => A' \/ D'
                        /\ D => D' \/ St'
                        /\ St => St'
                        /\ K => K'
      <4>1. Facts /\ [Next]_allVars /\ S => S' \/ G'
        BY StoppedStays
      <4>2. QED
        BY <4>1
    <3>1. S' /\ AllOver
      BY StoppedStays DEF Stopped
    <3>2. QED
      BY <3>1, StoppedHolder
  <2>4. Facts /\ <<up /\ Operation(q)>>_allVars =>
          /\ Sp => ~Sp'
          /\ Di => ~Di'
          /\ Si => ~Si'
          /\ A => ~A'
          /\ D => ~D'
          /\ St => ~St'
          /\ K => ~K'
    BY OperationProgress
  <2>5. Facts /\ JobGoesOn /\ (Sp \/ Di \/ Si \/ A \/ D \/ St \/ K) => EO
    <3> SUFFICES ASSUME Facts, JobGoesOn, Sp \/ Di \/ Si \/ A \/ D \/ St \/ K PROVE EO
      OBVIOUS
    <3>1. OperationGoesOn(q)
      BY AllGoOn
    <3>2. up /\ pc[q] \notin {"idle", "returned", "join"}
      BY DEF Stopped, Undone
    <3>3. pc[q] \in {"attempt", "done"} => workers[mine[q]].phase = "ended"
      BY DEF Stopped, AllOver, Facts, IInv, JobInv, Holding, Waiting
    <3>4. QED
      BY <3>1, <3>2, <3>3 DEF OperationGoesOn
  <2> HIDE DEF S, G, Fr, Sp, Di, Si, A, D, St, K
  <2>6. [](St => Q) /\ [](K => Q)
    BY <2>1, <2>3, <2>4, <2>5, PTL
  <2>7. [](D => <>(St \/ G \/ (S /\ Fr))) /\ [](Sp => <>(St \/ G \/ (S /\ Fr)))
    BY <2>1, <2>3, <2>4, <2>5, PTL
  <2>8. [](A => <>(D \/ G \/ (S /\ Fr)))
    BY <2>1, <2>3, <2>4, <2>5, PTL
  <2>9. [](Si => <>(A \/ D \/ G \/ (S /\ Fr)))
    BY <2>1, <2>3, <2>4, <2>5, PTL
  <2>10. [](Di => <>(Si \/ G \/ (S /\ Fr)))
    BY <2>1, <2>3, <2>4, <2>5, PTL
  <2>11. QED
    BY <2>2, <2>6, <2>7, <2>8, <2>9, <2>10, PTL
<1>2. Facts => (S => (S /\ Fr) \/ \E q \in Threads : S /\ mu = q)
  BY DEF Facts, IInv, JobInv, TypeOK
<1> HIDE DEF S, G, Fr
<1>3. QED
  BY <1>1, <1>2, PTL

\* "always" undoes a stop: the goroutine of its Listen finds done open, calls Start
\* once the mutex is free, and a job without a worker has one again, unless the
\* context of all jobs is over (trigger_always.go:14-18, job.go:84-98).
THEOREM AlwaysUndoesStops == Spec /\ []Fairness /\ []JobGoesOn => AlwaysRelaunches
<1> DEFINE Y(j) == Subscribed(j) /\ AllOver ~> worker # 0 \/ jctx \/ ~up \/ Len(workers) >= MaxWorkers
           X(j) == Sources[j].role = "launch" /\ Sources[j].kind = "always" => Y(j)
           H == Spec /\ []Fairness /\ []JobGoesOn
<1>1. ASSUME NEW i \in DOMAIN Sources, Sources[i].role = "launch" /\ Sources[i].kind = "always"
      PROVE  H => Y(i)
  <2>1. PICK c \in Callbacks : Of[c] = i
    BY CallbacksAssumption
  <2>2. c \in Threads /\ Kind(c) = "always" /\ Op[c] = "launch"
    BY <1>1, <2>1, CallbacksAssumption DEF Kind
  <2> DEFINE S == Stopped(i)
             G == Undone
             Fr == mu = NoThread
             Lo == S /\ go[c] = "loop"
             Ca == S /\ go[c] = "call"
             St == S /\ go[c] = "in" /\ pc[c] = "start"
             Jo == S /\ go[c] = "in" /\ pc[c] = "join"
             Re == S /\ go[c] = "in" /\ pc[c] = "returned"
             EO == ENABLED <<up /\ Operation(c)>>_allVars
             EL == ENABLED <<up /\ CallbackLocks(c)>>_allVars
             EC == ENABLED <<up /\ Callback(c)>>_allVars
             A == Subscribed(i) /\ AllOver
  <2>3. H => WF_allVars(up /\ Operation(c))
    <3> DEFINE F(t) == WF_allVars(up /\ Operation(t))
    <3>1. (\A t \in Threads : F(t)) => F(c)
      <4> HIDE DEF F
      <4> QED BY <2>2
    <3>2. QED
      BY <3>1, PTL DEF Spec, Fairness
  <2>4. H => SF_allVars(up /\ CallbackLocks(c)) /\ WF_allVars(up /\ Callback(c))
    <3> DEFINE F(t) == SF_allVars(up /\ CallbackLocks(t)) /\ WF_allVars(up /\ Callback(t))
    <3>1. (\A t \in Callbacks : F(t)) => F(c)
      <4> HIDE DEF F
      <4> QED OBVIOUS
    <3>2. QED
      BY <3>1, PTL DEF Spec, Fairness
  <2>5. Facts /\ S => Lo \/ Ca \/ St \/ Jo \/ Re
    <3> SUFFICES ASSUME Facts, S
                 PROVE  go[c] = "loop" \/ go[c] = "call"
                          \/ (go[c] = "in" /\ pc[c] \in {"start", "join", "returned"})
      OBVIOUS
    <3>1. /\ go[c] \in {"none", "loop", "call", "in", "over"} /\ go[c] # "none"
          /\ go[c] # "over" /\ (go[c] = "in" => pc[c] # "idle")
      BY <2>1, <2>2 DEF Facts, IInv, TriggersTypeOK, CallbackFacts, Stopped, Undone
    <3>2. pc[c] \in {"idle", "start", "join", "returned"}
      BY <2>2 DEF Facts, JobFacts
    <3>3. QED
      BY <3>1, <3>2
  <2>6. Facts /\ [Next]_allVars =>
          /\ Lo => Lo' \/ Ca' \/ G'
          /\ Ca => Ca' \/ St' \/ G'
          /\ St => St' \/ G'
          /\ Jo => Jo' \/ Re' \/ G'
          /\ Re => Re' \/ Lo' \/ G'
    <3> SUFFICES ASSUME Facts, [Next]_allVars, S, ~G'
                 PROVE  /\ Lo => Lo' \/ Ca'
                        /\ Ca => Ca' \/ St'
                        /\ St => St'
                        /\ Jo => Jo' \/ Re'
                        /\ Re => Re' \/ Lo'
      OBVIOUS
    <3>1. S' /\ Facts'
      <4>1. Facts'
        BY NextInv, JobFactsNext, CallbackFactsNext DEF Facts
      <4>2. QED
        BY <4>1, StoppedStays
    <3>2. /\ go[c] \in {"loop", "call", "in"}
          /\ go[c] = "loop" => go'[c] \in {"loop", "call"}
          /\ go[c] = "call" => go'[c] = "call" \/ (go'[c] = "in" /\ pc[c] = "idle")
          /\ go[c] = "in" => go'[c] = "in" \/ (pc[c] = "returned" /\ go'[c] = "loop")
      BY <2>1, <2>2, AlwaysMoves DEF Stopped, Undone
    <3>3. /\ go[c] = "in" <=> pc[c] # "idle"
          /\ go'[c] = "in" <=> pc'[c] # "idle"
      BY <3>1 DEF Facts, CallbackFacts
    <3>4. pc[c] \notin Inside =>
             \/ pc'[c] = pc[c]
             \/ pc[c] = "idle" /\ pc'[c] = "start"
             \/ pc[c] = "join" /\ pc'[c] = "returned"
             \/ pc[c] = "returned" /\ pc'[c] = "idle"
      BY <2>2, OutsideMoves DEF Facts
    <3>5. pc[c] = "start" => pc'[c] = "start"
      BY <2>2, StartMoves DEF Undone
    <3>6. "idle" \notin Inside /\ "join" \notin Inside /\ "returned" \notin Inside
      BY DEF Inside
    <3>7. QED
      BY <3>1, <3>2, <3>3, <3>4, <3>5, <3>6
  <2>7. Facts /\ <<up /\ Operation(c)>>_allVars => (St => ~St') /\ (Jo => ~Jo')
    BY <2>2, OperationProgress
  <2>8. Facts /\ <<up /\ CallbackLocks(c)>>_allVars => (Ca => ~Ca')
    BY DEF CallbackLocks, Facts, IInv, TriggersTypeOK
  <2>9. Facts /\ <<up /\ Callback(c)>>_allVars => (Lo => ~Lo') /\ (Re => ~Re')
    <3> SUFFICES ASSUME Facts, Callback(c) PROVE (Lo => ~Lo') /\ (Re => ~Re')
      OBVIOUS
    <3>1. /\ go \in [Callbacks -> {"none", "loop", "call", "in", "over"}]
          /\ pc \in [Threads -> PCs]
      BY DEF Facts, IInv, JobInv, TypeOK, TriggersTypeOK
    <3>2. Lo => ~Lo'
      BY <3>1 DEF Callback, LoopHead, OncePanics, CallbackReturns
    <3>3. Re => ~Re'
      BY <2>2, <3>1 DEF Callback, LoopHead, OncePanics, CallbackReturns, Goto
    <3>4. QED
      BY <3>2, <3>3
  <2>10. Facts /\ JobGoesOn =>
          /\ Lo => EC
          /\ Re => EC
          /\ Ca /\ Fr => EL
          /\ St => EO
          /\ Jo => EO
    <3> SUFFICES ASSUME Facts, JobGoesOn, S
                 PROVE  /\ Lo => EC
                        /\ Re => EC
                        /\ Ca /\ Fr => EL
                        /\ St => EO
                        /\ Jo => EO
      OBVIOUS
    <3>1. OperationGoesOn(c) /\ CallbackGoesOn(c)
      BY <2>2, AllGoOn
    <3>2. up /\ Len(workers) < MaxWorkers
      BY MaxWorkersAssumption DEF Stopped, Undone, Facts, IInv, JobInv, TypeOK
    <3>3. (Lo => EC) /\ (Re => EC)
      BY <3>1, <3>2 DEF CallbackGoesOn
    <3>4. Ca /\ Fr => EL
      BY <2>2, <3>1, <3>2 DEF CallbackGoesOn
    <3>5. St => EO
      BY <3>1, <3>2 DEF OperationGoesOn
    <3>6. Jo => EO
      <4>1. Jo => workers[mine[c]].phase = "ended"
        BY <2>2 DEF Facts, JobFacts, Stopped, AllOver
      <4>2. QED
        BY <3>1, <3>2, <4>1 DEF OperationGoesOn
    <3>7. QED
      BY <3>3, <3>4, <3>5, <3>6
  <2>11. Spec /\ []Fairness /\ []JobGoesOn =>
            [](Stopped(i) => <>(Undone \/ (Stopped(i) /\ mu = NoThread)))
    BY StoppedJobIsFree
  <2>12. H => [](S => <>(G \/ (S /\ Fr)))
    BY <2>11, PTL
  <2>13. H => []Facts /\ [][Next]_allVars /\ []JobGoesOn
    BY FactsAlways, PTL DEF Spec
  <2>14. /\ A => S \/ G
         /\ Ca => S
         /\ S => ~G
         /\ G <=> worker # 0 \/ jctx \/ ~up \/ Len(workers) >= MaxWorkers
    BY DEF Stopped, Undone
  <2> HIDE DEF S, G, Fr, Lo, Ca, St, Jo, Re, A, H
  <2>15. H => [](St => <>G)
    BY <2>3, <2>6, <2>7, <2>10, <2>13, PTL
  <2>16. H => [](Jo => <>(Re \/ G))
    BY <2>3, <2>6, <2>7, <2>10, <2>13, PTL
  <2>17. H => [](Re => <>(Lo \/ G)) /\ [](Lo => <>(Ca \/ G))
    BY <2>4, <2>6, <2>9, <2>10, <2>13, PTL
  <2>18. H => [](Ca => <>(St \/ G))
    BY <2>4, <2>6, <2>8, <2>10, <2>12, <2>13, <2>14, PTL
  <2>19. H => [](A => <>G)
    BY <2>5, <2>13, <2>14, <2>15, <2>16, <2>17, <2>18, PTL
  <2>20. QED
    BY <2>14, <2>19, PTL DEF A
<1>2. ASSUME NEW i \in DOMAIN Sources PROVE H => X(i)
  <2> HIDE DEF H, Y
  <2>1. QED
    BY <1>1
<1>3. AlwaysRelaunches <=> \A i \in DOMAIN Sources : X(i)
  BY DEF AlwaysRelaunches
<1> HIDE DEF X
<1>4. QED
  BY <1>2, <1>3
=============================================================================

--------------------------------- MODULE Job ---------------------------------
(***************************************************************************)
(* A job and the workers it creates: pkg/job/job.go.                       *)
(*                                                                         *)
(* Threads are RPC handlers and trigger callbacks; each performs one       *)
(* operation under the job's mutex.  Workers follow module Supervisor,     *)
(* which RetryWorker implements: job.go sees no more of a worker than      *)
(* that.  A call of the worker's Stop is two steps here, because the       *)
(* worker's goroutine runs between them: retries are disabled, then the    *)
(* attempt that is live, if any, is told to stop.                          *)
(***************************************************************************)
EXTENDS Naturals, Sequences, FiniteSets

CONSTANTS Threads,
          NoThread,
          Op        \* what each thread does

\* "launch" is the callback of the Launch trigger: Start, then wait.
Ops == {"start", "launch", "stop", "restart", "kill"}

ASSUME ThreadsAssumption == NoThread \notin Threads
ASSUME OpAssumption == Op \in [Threads -> Ops]

VARIABLES workers,   \* every worker created, each [phase, disabled, told]
          worker,    \* s.worker: the last one, or 0 for nil
          mu,        \* who holds the mutex
          pc,        \* where each thread is
          mine,      \* the thread's local w
          jctx,      \* whether the job's context is cancelled
          killed     \* history: the workers dropped by Kill

vars == <<workers, worker, mu, pc, mine, jctx, killed>>

W(i) == INSTANCE Supervisor WITH phase <- workers[i].phase, disabled <- workers[i].disabled

Phases == {"ready", "attempt", "idle", "ended"}
PCs == {"idle", "start", "stop", "disable", "signal", "attempt", "done",
        "kill", "killDisable", "killAttempt", "join", "returned"}

TypeOK ==
    /\ workers \in Seq([phase : Phases, disabled : BOOLEAN, told : BOOLEAN])
    /\ worker \in 0..Len(workers)
    /\ mu \in Threads \cup {NoThread}
    /\ pc \in [Threads -> PCs]
    /\ mine \in [Threads -> 0..Len(workers)]
    /\ jctx \in BOOLEAN
    /\ killed \subseteq 1..Len(workers)

Init ==
    /\ workers = <<>> /\ worker = 0
    /\ mu = NoThread
    /\ pc = [t \in Threads |-> "idle"]
    /\ mine = [t \in Threads |-> 0]
    /\ jctx = FALSE
    /\ killed = {}

Goto(t, l) == pc' = [pc EXCEPT ![t] = l]

-----------------------------------------------------------------------------
(* The job's operations.  Every one begins with mu.Lock. *)

Lock(t) ==
    /\ pc[t] = "idle" /\ mu = NoThread
    /\ mu' = t
    /\ Goto(t, CASE Op[t] \in {"start", "launch"}  -> "start"
                 [] Op[t] \in {"stop", "restart"}  -> "stop"
                 [] Op[t] = "kill"                 -> "kill")
    /\ UNCHANGED <<workers, worker, mine, jctx, killed>>

\* The deferred mu.Unlock.
Unlock(t, l) == mu' = NoThread /\ Goto(t, l)

\* NewWorker, under a context that may be over already.
Fresh == [phase |-> IF jctx THEN "ended" ELSE "ready", disabled |-> FALSE, told |-> FALSE]

\* A worker that has ended still counts: only nil is replaced.
StartLocked(t) ==
    /\ pc[t] = "start"
    /\ IF worker = 0
         THEN workers' = Append(workers, Fresh) /\ worker' = Len(workers) + 1
         ELSE UNCHANGED <<workers, worker>>
    /\ mine' = [mine EXCEPT ![t] = worker']
    /\ Unlock(t, IF Op[t] = "launch" THEN "join" ELSE "returned")
    /\ UNCHANGED <<jctx, killed>>

\* startOrJoin waits for the worker, or for the job's context, unlocked.
Join(t) ==
    /\ pc[t] = "join"
    /\ workers[mine[t]].phase = "ended" \/ jctx
    /\ Goto(t, "returned")
    /\ UNCHANGED <<workers, worker, mu, mine, jctx, killed>>

\* stopLocked is over: Stop returns, Restart goes on with startLocked.
StopIsOver(t) ==
    IF Op[t] = "restart" THEN Goto(t, "start") /\ UNCHANGED mu ELSE Unlock(t, "returned")

\* Faulty variant: the test for nil is missing, and a stop waits for a worker.
StopLockedAwaits(t) ==
    /\ pc[t] = "stop" /\ worker # 0
    /\ mine' = [mine EXCEPT ![t] = worker]
    /\ worker' = 0
    /\ Goto(t, "disable")
    /\ UNCHANGED <<workers, mu, jctx, killed>>

\* stopLocked: s.worker is nil from here on, whatever becomes of the worker.
StopLocked(t) ==
    /\ pc[t] = "stop"
    /\ IF worker = 0
         THEN StopIsOver(t) /\ UNCHANGED <<worker, mine>>
         ELSE /\ mine' = [mine EXCEPT ![t] = worker]
              /\ worker' = 0
              /\ Goto(t, "disable") /\ UNCHANGED mu
    /\ UNCHANGED <<workers, jctx, killed>>

\* w.Stop(): disableRetries.
StopDisable(t) ==
    /\ pc[t] = "disable"
    /\ workers' = [workers EXCEPT ![mine[t]].disabled = TRUE]
    /\ Goto(t, "signal")
    /\ UNCHANGED <<worker, mu, mine, jctx, killed>>

\* Faulty variant: Stop waits for the attempt without closing its stop channel.
StopSignalNotSent(t) ==
    /\ pc[t] = "signal"
    /\ Goto(t, IF workers[mine[t]].phase = "attempt" THEN "attempt" ELSE "done")
    /\ UNCHANGED <<workers, worker, mu, mine, jctx, killed>>

\* w.Stop(): the attempt in must, which is of no use when it is over.
StopSignal(t) ==
    /\ pc[t] = "signal"
    /\ IF workers[mine[t]].phase = "attempt"
         THEN workers' = [workers EXCEPT ![mine[t]].told = TRUE] /\ Goto(t, "attempt")
         ELSE Goto(t, "done") /\ UNCHANGED workers
    /\ UNCHANGED <<worker, mu, mine, jctx, killed>>

StopAttemptOver(t) ==
    /\ pc[t] = "attempt" /\ workers[mine[t]].phase # "attempt"
    /\ Goto(t, "done")
    /\ UNCHANGED <<workers, worker, mu, mine, jctx, killed>>

\* <-w.Done(), with the mutex held.
StopDone(t) ==
    /\ pc[t] = "done" /\ workers[mine[t]].phase = "ended"
    /\ StopIsOver(t)
    /\ UNCHANGED <<workers, worker, mine, jctx, killed>>

KillLocked(t) ==
    /\ pc[t] = "kill"
    /\ IF worker = 0
         THEN Unlock(t, "returned") /\ UNCHANGED mine
         ELSE /\ mine' = [mine EXCEPT ![t] = worker]
              /\ Goto(t, "killDisable") /\ UNCHANGED mu
    /\ UNCHANGED <<workers, worker, jctx, killed>>

\* Faulty variant: Kill cancels the attempt and leaves retries enabled.
KillKeepsRetries(t) ==
    /\ pc[t] = "killDisable"
    /\ Goto(t, "killAttempt")
    /\ UNCHANGED <<workers, worker, mu, mine, jctx, killed>>

\* worker.Kill(): disableRetries.
KillDisable(t) ==
    /\ pc[t] = "killDisable"
    /\ workers' = [workers EXCEPT ![mine[t]].disabled = TRUE]
    /\ Goto(t, "killAttempt")
    /\ UNCHANGED <<worker, mu, mine, jctx, killed>>

\* worker.Kill(): the attempt in must is cancelled; nobody waits for the worker.
KillAttempt(t) ==
    /\ pc[t] = "killAttempt"
    /\ workers' = [workers EXCEPT ![mine[t]].phase = IF @ = "attempt" THEN "idle" ELSE @,
                                  ![mine[t]].told = FALSE]
    /\ worker' = 0
    /\ killed' = killed \cup {mine[t]}
    /\ Unlock(t, "returned")
    /\ UNCHANGED <<mine, jctx>>

-----------------------------------------------------------------------------
(* The workers' goroutines, and the session's context *)

Move(i, p) ==
    /\ workers' = [workers EXCEPT ![i].phase = p, ![i].told = @ /\ p = "attempt"]
    /\ UNCHANGED <<worker, mu, pc, mine, jctx, killed>>

WorkerLaunches(i)  == Move(i, "attempt") /\ W(i)!Launch
WorkerWithdraws(i) == Move(i, "idle") /\ W(i)!Withdraw
WorkerGrants(i)    == Move(i, "ready") /\ W(i)!Grant
WorkerFinishes(i)  == Move(i, "ended") /\ W(i)!Finish
AttemptEnds(i)     == Move(i, "idle") /\ W(i)!AttemptEnd

CancelContext ==
    /\ ~jctx
    /\ jctx' = TRUE
    /\ workers' = [i \in 1..Len(workers) |->
                      [workers[i] EXCEPT !.phase = "ended", !.told = FALSE]]
    /\ UNCHANGED <<worker, mu, pc, mine, killed>>

-----------------------------------------------------------------------------
Locked(t) == \/ StartLocked(t) \/ StopLocked(t) \/ StopDisable(t) \/ StopSignal(t)
             \/ StopAttemptOver(t) \/ StopDone(t)
             \/ KillLocked(t) \/ KillDisable(t) \/ KillAttempt(t)

Worker(i) == \/ WorkerLaunches(i) \/ WorkerWithdraws(i)
             \/ WorkerGrants(i) \/ WorkerFinishes(i) \/ AttemptEnds(i)

-----------------------------------------------------------------------------
(* Properties *)

\* Stop and Restart return with the old worker over: except after Kill, a job
\* never has two workers that may both be running its task (job.go:69-71).
RestartIsClean ==
    \A i \in 1..Len(workers) :
        workers[i].phase # "ended" /\ i # worker =>
            i \in killed \/ \E t \in Threads : mu = t /\ mine[t] = i

\* A worker the job has let go of, by Stop, Restart or Kill, has its retries
\* disabled: it may still run, at most once more, and then nobody can stop it,
\* but it does not keep on restarting behind the job's back (job.go:108-110).
ForgottenIsDisabled ==
    \A i \in 1..Len(workers) :
        workers[i].phase # "ended" /\ i # worker =>
            workers[i].disabled \/ \E t \in Threads : mine[t] = i /\ pc[t] = "disable"

\* What becomes of the workers a job has let go of (job.go:69-71, job.go:108-110).
LetGoIsStopped == RestartIsClean /\ ForgottenIsDisabled
=============================================================================

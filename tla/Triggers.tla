------------------------------ MODULE Triggers ------------------------------
(***************************************************************************)
(* A job with its triggers, from Ready to the end of the session:          *)
(* pkg/job/trigger*.go, Ready and Join of job.go, StopAll and Close of     *)
(* session.go.                                                             *)
(*                                                                         *)
(* A source is one trigger of the job's Launch or Drop, in the order in    *)
(* which Ready (and the list of an "any" trigger) listens to them; a       *)
(* "never" is no source.  Each callback thread is a goroutine that a       *)
(* source has started, and may start again.  The other threads are RPC     *)
(* handlers of one operation each, except Closer, which shuts the session  *)
(* down: it stops the job, joins it, and cancels the context of all jobs.  *)
(* A panic in a goroutine is the end of the daemon.                        *)
(***************************************************************************)
EXTENDS Job

CONSTANTS Sources,     \* a sequence of [role, kind]
          Callbacks,   \* the threads that run callbacks,
          Of,          \* and the number of the source of each
          Closer,
          MaxWorkers   \* bound: callbacks begin while there are fewer workers

Roles == {"launch", "drop"}
Kinds == {"boot", "always", "every", "on", "once"}

ASSUME SourcesAssumption == Sources \in Seq([role : Roles, kind : Kinds])
ASSUME CallbacksAssumption ==
    /\ Callbacks \subseteq Threads /\ Of \in [Callbacks -> DOMAIN Sources]
    /\ \A i \in DOMAIN Sources : \E t \in Callbacks : Of[t] = i
    /\ \A t \in Callbacks :
         Op[t] = IF Sources[Of[t]].role = "launch" THEN "launch" ELSE "stop"
ASSUME CloserAssumption == Closer \in Threads \ Callbacks /\ Op[Closer] = "stop"
ASSUME MaxWorkersAssumption == MaxWorkers \in Nat

VARIABLES ready,     \* how many steps Ready has made, two for each source
          removed,   \* the roles whose remove function has been called
          go,        \* where each callback's goroutine is
          drain,     \* where the shutdown is, once Stop has returned
          up         \* whether the daemon lives

ownVars == <<ready, removed, go, drain, up>>
allVars == <<vars, ownVars>>

TriggersTypeOK ==
    /\ TypeOK
    /\ ready \in 0..(2 * Len(Sources))
    /\ removed \subseteq Roles
    /\ go \in [Callbacks -> {"none", "loop", "call", "in", "over"}]
    /\ drain \in {"no", "look", "wait", "close", "closed"}
    /\ up \in BOOLEAN

TriggersInit ==
    /\ Init
    /\ ready = 0 /\ removed = {}
    /\ go = [t \in Callbacks |-> "none"]
    /\ drain = "no"
    /\ up = TRUE

Kind(t) == Sources[Of[t]].kind
Role(t) == Sources[Of[t]].role
Subscribed(i) == ready >= 2 * i - 1
Returned(i) == ready >= 2 * i

Panics == up' = FALSE /\ UNCHANGED <<vars, ready, removed, go, drain>>

-----------------------------------------------------------------------------
(* Ready listens to one source after another *)

Listen(i) ==
    /\ ready = 2 * i - 2
    /\ ready' = ready + 1
    /\ go' = [t \in Callbacks |->
                CASE Of[t] = i /\ Kind(t) \in {"always", "every"} -> "loop"
                  [] Of[t] = i /\ Kind(t) = "boot"                -> "call"
                  [] OTHER                                        -> go[t]]
    /\ UNCHANGED <<vars, removed, drain, up>>

\* Listen returns its remove function, and "once" can use it from now on.
ListenReturns(i) ==
    /\ ready = 2 * i - 1
    /\ ready' = ready + 1
    /\ UNCHANGED <<vars, removed, go, drain, up>>

\* Faulty variant: the function does nothing, as that of a subscription does.
RemoveNothing(role) ==
    /\ jctx /\ \A i \in DOMAIN Sources : Sources[i].role = role => Returned(i)
    /\ UNCHANGED allVars

\* AfterFunc of the job's context.  The subscription of an event stays: Remove
\* finds no event in it.
Remove(role) ==
    /\ jctx /\ role \notin removed
    /\ \A i \in DOMAIN Sources : Sources[i].role = role => Returned(i)
    /\ removed' = removed \cup {role}
    /\ UNCHANGED <<vars, ready, go, drain, up>>

-----------------------------------------------------------------------------
(* Goroutines that run callbacks *)

\* An event is signalled: a goroutine runs the callback, even after Remove.
Signal(t) ==
    /\ Kind(t) \in {"on", "once"} /\ Subscribed(Of[t])
    /\ go[t] = "none" /\ Len(workers) < MaxWorkers
    /\ go' = [go EXCEPT ![t] = "call"]
    /\ UNCHANGED <<vars, ready, removed, drain, up>>

\* The loops of "always" and "every" look at done, the second after a sleep.
LoopHead(t) ==
    /\ go[t] = "loop"
    /\ IF Role(t) \in removed
         THEN go' = [go EXCEPT ![t] = "over"]
         ELSE Len(workers) < MaxWorkers /\ go' = [go EXCEPT ![t] = "call"]
    /\ UNCHANGED <<vars, ready, removed, drain, up>>

\* The callback of "once" calls remove, which Listen may not have returned yet.
OncePanics(t) ==
    /\ go[t] = "call" /\ Kind(t) = "once" /\ ~Returned(Of[t])
    /\ Panics

CallbackLocks(t) ==
    /\ go[t] = "call" /\ (Kind(t) = "once" => Returned(Of[t]))
    /\ Lock(t)
    /\ go' = [go EXCEPT ![t] = "in"]
    /\ UNCHANGED <<ready, removed, drain, up>>

\* Faulty variant: the goroutine makes one call only.
CallbackEnds(t) ==
    /\ go[t] = "in" /\ pc[t] = "returned"
    /\ Goto(t, "idle")
    /\ mine' = [mine EXCEPT ![t] = 0]
    /\ go' = [go EXCEPT ![t] = "over"]
    /\ UNCHANGED <<workers, worker, mu, jctx, killed, ready, removed, drain, up>>

CallbackReturns(t) ==
    /\ go[t] = "in" /\ pc[t] = "returned"
    /\ Goto(t, "idle")
    /\ mine' = [mine EXCEPT ![t] = 0]
    /\ go' = [go EXCEPT ![t] = CASE Kind(t) \in {"always", "every"} -> "loop"
                                 [] Kind(t) = "boot"                -> "over"
                                 [] OTHER                           -> "none"]
    /\ UNCHANGED <<workers, worker, mu, jctx, killed, ready, removed, drain, up>>

-----------------------------------------------------------------------------
(* The end of the session *)

\* StopAll: Stop has returned, and Join begins.
JoinReads ==
    /\ drain = "no" /\ pc[Closer] = "returned" /\ mu = NoThread
    /\ drain' = IF worker = 0 THEN "close" ELSE "look"
    /\ UNCHANGED <<vars, ready, removed, go, up>>

\* Join reads s.worker again, without the mutex: it may be nil by now.
JoinLooks ==
    /\ drain = "look"
    /\ IF worker = 0
         THEN Panics
         ELSE /\ mine' = [mine EXCEPT ![Closer] = worker] /\ drain' = "wait"
              /\ UNCHANGED <<workers, worker, mu, pc, jctx, killed, ready, removed, go, up>>

\* The time is over, or the worker has ended and s.worker is read once more.
JoinEnds ==
    /\ drain = "wait"
    /\ \/ drain' = "close" /\ UNCHANGED <<vars, ready, removed, go, up>>
       \/ workers[mine[Closer]].phase = "ended" /\ worker = 0 /\ Panics

Close ==
    /\ drain = "close"
    /\ drain' = "closed"
    /\ CancelContext
    /\ UNCHANGED <<ready, removed, go, up>>

-----------------------------------------------------------------------------
Ready == \E i \in DOMAIN Sources : Listen(i) \/ ListenReturns(i)
Request(t) == Lock(t) /\ UNCHANGED ownVars
Operation(t) == (Locked(t) \/ Join(t)) /\ UNCHANGED ownVars
Callback(t) == LoopHead(t) \/ OncePanics(t) \/ CallbackReturns(t)
Shutdown == JoinReads \/ JoinLooks \/ JoinEnds \/ Close
JobWorker(i) == i <= Len(workers) /\ Worker(i) /\ UNCHANGED ownVars

\* The session is closed, or the daemon dead, and nothing is left to do.
Terminated ==
    /\ ~up \/ /\ drain = "closed" /\ removed = Roles
              /\ \A t \in Threads : pc[t] \in {"idle", "returned"}
    /\ UNCHANGED allVars

Next ==
    \/ up /\ \/ Ready
             \/ \E role \in Roles : Remove(role)
             \/ \E t \in Threads \ Callbacks : Request(t)
             \/ \E t \in Threads : Operation(t)
             \/ \E t \in Callbacks : Signal(t) \/ CallbackLocks(t) \/ Callback(t)
             \/ \E i \in 1..Len(workers) : JobWorker(i)
             \/ Shutdown
    \/ Terminated

(***************************************************************************)
(* Fairness: goroutines that can run do, and a callback that waits for the *)
(* mutex gets it (Go hands it to the one that has waited too long); a      *)
(* worker's goroutine makes its decisions, and an attempt told to stop     *)
(* ends.  Nobody is assumed to signal an event, to send a request or to    *)
(* shut the session down.                                                  *)
(***************************************************************************)
Starters == {t \in Threads : Op[t] \in {"start", "launch", "restart"}}
ASSUME StartersAssumption == IsFiniteSet(Starters)
Slots == 1..(MaxWorkers + Cardinality(Starters))
Fairness ==
    /\ WF_allVars(up /\ Ready)
    /\ \A role \in Roles : WF_allVars(up /\ Remove(role))
    /\ \A t \in Threads : WF_allVars(up /\ Operation(t))
    /\ \A t \in Callbacks : SF_allVars(up /\ CallbackLocks(t)) /\ WF_allVars(up /\ Callback(t))
    /\ SF_allVars(up /\ JoinReads) /\ WF_allVars(up /\ (JoinLooks \/ JoinEnds \/ Close))
    /\ \A i \in Slots :
         /\ WF_allVars(up /\ i <= Len(workers) /\ (WorkerLaunches(i) \/ WorkerWithdraws(i))
                       /\ UNCHANGED ownVars)
         /\ WF_allVars(up /\ i <= Len(workers) /\ (WorkerGrants(i) \/ WorkerFinishes(i))
                       /\ UNCHANGED ownVars)
         /\ WF_allVars(up /\ i <= Len(workers) /\ workers[i].told /\ AttemptEnds(i)
                       /\ UNCHANGED ownVars)

Spec == TriggersInit /\ [][Next]_allVars /\ Fairness

-----------------------------------------------------------------------------
(* Properties *)

\* A Stop, a Restart or a drop that found a live attempt returns, and with it
\* the mutex is released for every other operation and the listing of jobs.
ReachedStopReturns ==
    \A t \in Threads : pc[t] = "attempt" ~> pc[t] \in {"returned", "idle"} \/ ~up

\* "always" undoes a stop: a job whose worker somebody has stopped or killed,
\* and which has no other left, is launched again (trigger_always.go:14-18).
AllOver == worker = 0 /\ \A i \in 1..Len(workers) : workers[i].phase = "ended"
AlwaysRelaunches ==
    \A i \in DOMAIN Sources : Sources[i].role = "launch" /\ Sources[i].kind = "always" =>
        (Subscribed(i) /\ AllOver
            ~> worker # 0 \/ jctx \/ ~up \/ Len(workers) >= MaxWorkers)

\* The end of the session ends the loops of the triggers, whatever their
\* callbacks are waiting for (trigger_always.go:15, trigger_time.go:19).
CancelEndsLoops ==
    jctx ~> ~up \/ \A t \in Callbacks : Kind(t) \in {"always", "every"} => go[t] = "over"

\* An operation waits for the end of an attempt or of a worker and for nothing
\* else once it has the mutex (job.go:55-120); a callback waits for the mutex; a
\* worker's goroutine can always make its decision, and a told attempt can end.
OperationGoesOn(t) ==
    up /\ pc[t] \notin {"idle", "returned"}
       /\ (pc[t] = "attempt" => workers[mine[t]].phase # "attempt")
       /\ (pc[t] \in {"done", "join"} => workers[mine[t]].phase = "ended")
        => ENABLED <<up /\ Operation(t)>>_allVars
CallbackGoesOn(t) ==
    /\ up /\ go[t] = "call" /\ mu = NoThread /\ Kind(t) # "once"
          => ENABLED <<up /\ CallbackLocks(t)>>_allVars
    /\ up /\ \/ go[t] = "loop" /\ Len(workers) < MaxWorkers
             \/ go[t] = "in" /\ pc[t] = "returned"
          => ENABLED <<up /\ Callback(t)>>_allVars
WorkerGoesOn(i) ==
    up /\ i <= Len(workers) =>
        /\ workers[i].phase = "idle" =>
             ENABLED <<up /\ i <= Len(workers) /\ (WorkerGrants(i) \/ WorkerFinishes(i))
                       /\ UNCHANGED ownVars>>_allVars
        /\ workers[i].phase = "attempt" /\ workers[i].told =>
             ENABLED <<up /\ i <= Len(workers) /\ workers[i].told /\ AttemptEnds(i)
                       /\ UNCHANGED ownVars>>_allVars
JobGoesOn ==
    /\ \A t \in Threads : OperationGoesOn(t)
    /\ \A t \in Callbacks : CallbackGoesOn(t)
    /\ \A i \in Slots : WorkerGoesOn(i)
=============================================================================

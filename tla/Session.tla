------------------------------ MODULE Session ------------------------------
(***************************************************************************)
(* The daemon's jobs in memory and on disk: pkg/session/session.go and the *)
(* handlers of service_job.go.                                             *)
(*                                                                         *)
(* A session keeps a job object per id in a map and its manifest in a      *)
(* database; an update or a deletion changes the two one after the other,  *)
(* and a crash between two steps leaves what the database has.  Clients    *)
(* are the goroutines that serve a request, one at a time each; a request  *)
(* addresses one id.  A job object is seen here only as far as its mutex,  *)
(* its worker and its readiness go; module Job has the details.            *)
(***************************************************************************)
EXTENDS Naturals, Sequences

CONSTANTS Ids, Manifests,
          None,          \* no manifest, no job, nobody
          Clients,       \* goroutines that serve requests
          Triggers,      \* goroutines that run the callbacks of triggers
          MaxJobs,       \* bound: job objects per life of the daemon
          MaxLives       \* bound: how often the daemon is started

ASSUME NoneAssumption == None \notin Manifests \cup Clients \cup Triggers \cup Nat
ASSUME ThreadsAssumption == Clients \cap Triggers = {}
ASSUME BoundsAssumption == MaxJobs \in Nat /\ MaxLives \in Nat

VARIABLES daemon,    \* whether the daemon is down, reviving its jobs, or up
          lives,     \* how often it has been started
          db,        \* JobCollection: the manifest stored under each id
          jobs,      \* Jobs: the index of the job object of each id
          job,       \* the job objects of this life, in the order of creation;
                     \* fired is whether a trigger has started the worker, which
                     \* is missed when a Stop has, for all it will do, not
                     \* reached its attempt (StopEndsWorker of RetryWorker)
          toRevive,  \* the ids Range has not come to
          lost,      \* the ids whose manifest could not be spawned
          req,       \* the request each goroutine serves and where it is
          expected   \* what the answers so far entitle the clients to find in db

vars == <<daemon, lives, db, jobs, job, toRevive, lost, req, expected>>

Threads == Clients \cup Triggers
Kinds == {"update", "launch", "delete", "start", "stop", "restart", "kill"}
PCs == {"idle", "swap", "replace", "ready", "dbdelete", "mapdelete",
        "start", "stop", "stopping", "kill", "answer"}

Objects == 1..MaxJobs
JobObjects == [id : Ids, manifest : Manifests, ready : BOOLEAN,
               worker : {"none", "alive", "stopping", "missed", "over"}, fired : BOOLEAN,
               lock : Threads \cup {None}]
Requests == [pc : PCs, kind : Kinds, id : Ids \cup {None}, manifest : Manifests \cup {None},
             cur : Objects \cup {None}, new : Objects \cup {None}]
Quiet == [pc |-> "idle", kind |-> "stop", id |-> None, manifest |-> None, cur |-> None, new |-> None]

TypeOK ==
    /\ daemon \in {"down", "reviving", "up"}
    /\ lives \in 0..MaxLives
    /\ db \in [Ids -> Manifests \cup {None}]
    /\ jobs \in [Ids -> Objects \cup {None}]
    /\ job \in Seq(JobObjects) /\ Len(job) <= MaxJobs
    /\ toRevive \subseteq Ids /\ lost \subseteq Ids
    /\ req \in [Threads -> Requests]
    /\ expected \in [Ids -> SUBSET (Manifests \cup {None})]

Init ==
    /\ daemon = "down" /\ lives = 0
    /\ db = [i \in Ids |-> None]
    /\ jobs = [i \in Ids |-> None]
    /\ job = <<>>
    /\ toRevive = {} /\ lost = {}
    /\ req = [t \in Threads |-> Quiet]
    /\ expected = [i \in Ids |-> {None}]

-----------------------------------------------------------------------------
(* Open, the revival of jobs, crashes *)

\* Open also kills what processes a daemon that crashed has left behind.
Open ==
    /\ daemon = "down" /\ lives < MaxLives
    /\ daemon' = "reviving"
    /\ lives' = lives + 1
    /\ toRevive' = {i \in Ids : db[i] # None}
    /\ UNCHANGED <<db, jobs, job, lost, req, expected>>

Spawn(i, m) == [id |-> i, manifest |-> m, ready |-> FALSE, worker |-> "none",
                fired |-> FALSE, lock |-> None]

Revive(i) ==
    /\ daemon = "reviving" /\ i \in toRevive /\ Len(job) < MaxJobs
    /\ toRevive' = toRevive \ {i}
    /\ job' = Append(job, Spawn(i, db[i]))
    /\ jobs' = [jobs EXCEPT ![i] = Len(job) + 1]
    /\ UNCHANGED <<daemon, lives, db, lost, req, expected>>

\* recipe.Spawn fails: the error is logged and the manifest stays stored.
ReviveFails(i) ==
    /\ daemon = "reviving" /\ i \in toRevive
    /\ toRevive' = toRevive \ {i}
    /\ lost' = lost \cup {i}
    /\ UNCHANGED <<daemon, lives, db, jobs, job, req, expected>>

\* The RPC server listens only when Range is through.
Listen ==
    /\ daemon = "reviving" /\ toRevive = {}
    /\ daemon' = "up"
    /\ UNCHANGED <<lives, db, jobs, job, toRevive, lost, req, expected>>

\* go j.Ready(s.ctx): the goroutine may be late, after the first requests.
ReadyRevived(o) ==
    /\ daemon # "down" /\ o \in DOMAIN job /\ ~job[o].ready
    /\ \A t \in Clients : req[t].new # o
    /\ job' = [job EXCEPT ![o].ready = TRUE]
    /\ UNCHANGED <<daemon, lives, db, jobs, toRevive, lost, req, expected>>

\* What the request of t, if it is answered, makes of the manifest of its id.
Target(t) == IF req[t].kind = "delete" THEN None ELSE req[t].manifest
Changes(t) == req[t].pc # "idle" /\ req[t].kind \in {"update", "launch", "delete"}

\* A request cut off by a crash may have been carried out or not.
Crash ==
    /\ daemon # "down"
    /\ daemon' = "down"
    /\ jobs' = [i \in Ids |-> None]
    /\ job' = <<>>
    /\ toRevive' = {} /\ lost' = {}
    /\ req' = [t \in Threads |-> Quiet]
    /\ expected' = [i \in Ids |-> expected[i] \cup
                      {Target(t) : t \in {u \in Clients : Changes(u) /\ req[u].id = i}}]
    /\ UNCHANGED <<lives, db>>

-----------------------------------------------------------------------------
(* Requests; each goes through the steps its handler makes *)

Goto(t, pc) == req' = [req EXCEPT ![t].pc = pc]

\* Update and Launch spawn a job object that nobody else knows yet.
BeginChange(t, kind, i, m) ==
    /\ daemon = "up" /\ req[t].pc = "idle" /\ Len(job) < MaxJobs
    /\ kind \in {"update", "launch"}
    /\ job' = Append(job, Spawn(i, m))
    /\ req' = [req EXCEPT ![t] = [Quiet EXCEPT !.pc = "swap", !.kind = kind, !.id = i,
                                               !.manifest = m, !.new = Len(job) + 1]]
    /\ UNCHANGED <<daemon, lives, db, jobs, toRevive, lost, expected>>

\* Every other request finds its jobs by ranging over the map.
FirstStep(kind) ==
    CASE kind = "delete" -> "dbdelete" [] kind = "start" -> "start"
      [] kind \in {"stop", "restart"} -> "stop" [] kind = "kill" -> "kill"

BeginOther(t, kind, i) ==
    /\ daemon = "up" /\ req[t].pc = "idle" /\ jobs[i] # None
    /\ kind \in Kinds \ {"update", "launch"}
    /\ req' = [req EXCEPT ![t] = [Quiet EXCEPT !.pc = FirstStep(kind), !.kind = kind,
                                               !.id = i, !.cur = jobs[i]]]
    /\ UNCHANGED <<daemon, lives, db, jobs, job, toRevive, lost, expected>>

\* A trigger calls Start or Stop of the job object it was armed for; nothing
\* ever calls Job.Cancel, so it stays armed when that object is replaced.
Fire(t, kind, o) ==
    /\ daemon # "down" /\ req[t].pc = "idle"
    /\ o \in DOMAIN job /\ job[o].ready /\ kind \in {"start", "stop"}
    /\ req' = [req EXCEPT ![t] = [Quiet EXCEPT !.pc = kind, !.kind = kind, !.cur = o]]
    /\ UNCHANGED <<daemon, lives, db, jobs, job, toRevive, lost, expected>>

\* Faulty variant: the job that is replaced goes on.
SwapNoStop(t) ==
    /\ req[t].pc = "swap"
    /\ jobs' = [jobs EXCEPT ![req[t].id] = req[t].new]
    /\ Goto(t, "replace")
    /\ UNCHANGED <<daemon, lives, db, job, toRevive, lost, expected>>

\* UpdateJob: s.Jobs.Swap.
Swap(t) ==
    /\ req[t].pc = "swap"
    /\ jobs' = [jobs EXCEPT ![req[t].id] = req[t].new]
    /\ req' = [req EXCEPT ![t].cur = jobs[req[t].id],
                          ![t].pc = IF jobs[req[t].id] = None THEN "replace" ELSE "stop"]
    /\ UNCHANGED <<daemon, lives, db, job, toRevive, lost, expected>>

\* Faulty variant: only a new id is stored, as Collection.Insert would.
ReplaceInserts(t) ==
    /\ req[t].pc = "replace"
    /\ db' = [db EXCEPT ![req[t].id] = IF @ = None THEN req[t].manifest ELSE @]
    /\ Goto(t, "ready")
    /\ UNCHANGED <<daemon, lives, jobs, job, toRevive, lost, expected>>

\* UpdateJob: s.JobCollection.Replace.
Replace(t) ==
    /\ req[t].pc = "replace"
    /\ db' = [db EXCEPT ![req[t].id] = req[t].manifest]
    /\ Goto(t, "ready")
    /\ UNCHANGED <<daemon, lives, jobs, job, toRevive, lost, expected>>

\* UpdateJob: j.Ready; Launch then starts the job.
Ready(t) ==
    /\ req[t].pc = "ready"
    /\ job' = [job EXCEPT ![req[t].new].ready = TRUE]
    /\ req' = [req EXCEPT ![t].cur = req[t].new,
                          ![t].pc = IF req[t].kind = "launch" THEN "start" ELSE "answer"]
    /\ UNCHANGED <<daemon, lives, db, jobs, toRevive, lost, expected>>

\* Faulty variant: a job is deleted from the map only.
DbKeeps(t) ==
    /\ req[t].pc = "dbdelete"
    /\ Goto(t, "mapdelete")
    /\ UNCHANGED <<daemon, lives, db, jobs, job, toRevive, lost, expected>>

\* DeleteJob: the manifest goes first.
DbDelete(t) ==
    /\ req[t].pc = "dbdelete"
    /\ db' = [db EXCEPT ![req[t].id] = None]
    /\ Goto(t, "mapdelete")
    /\ UNCHANGED <<daemon, lives, jobs, job, toRevive, lost, expected>>

\* DeleteJob: s.Jobs.LoadAndDelete, which may find another job by now.
MapDelete(t) ==
    /\ req[t].pc = "mapdelete"
    /\ jobs' = [jobs EXCEPT ![req[t].id] = None]
    /\ req' = [req EXCEPT ![t].cur = jobs[req[t].id],
                          ![t].pc = IF jobs[req[t].id] = None THEN "answer" ELSE "stop"]
    /\ UNCHANGED <<daemon, lives, db, job, toRevive, lost, expected>>

\* The requester may count on the answer of a change.
Answer(t) ==
    /\ req[t].pc = "answer"
    /\ req' = [req EXCEPT ![t] = Quiet]
    /\ expected' = IF t \in Clients /\ Changes(t)
                   THEN [expected EXCEPT ![req[t].id] = {Target(t)}] ELSE expected
    /\ UNCHANGED <<daemon, lives, db, jobs, job, toRevive, lost>>

-----------------------------------------------------------------------------
(* Operations of a job object *)

Free(o) == job[o].lock = None

\* Start: a worker that is there, even one that is over, is left as it is.  A
\* job that is not ready has no context: the handler panics, the HTTP server
\* recovers, and the request fails.
StartJob(t) ==
    /\ req[t].pc = "start" /\ Free(req[t].cur)
    /\ job' = IF job[req[t].cur].ready /\ job[req[t].cur].worker = "none"
              THEN [job EXCEPT ![req[t].cur].worker = "alive",
                               ![req[t].cur].fired = t \in Triggers]
              ELSE job
    /\ Goto(t, "answer")
    /\ UNCHANGED <<daemon, lives, db, jobs, toRevive, lost, expected>>

AfterStop(kind) == IF kind \in {"update", "launch"} THEN "replace" ELSE "answer"
Restarts(t) == req[t].kind = "restart"

\* stopLocked waits, with the mutex held, for a worker that is still alive.  The
\* stop may miss it, while it puts one attempt in the place of another: then it
\* has lost its retries, but the attempt it has begun goes on.
StopWaits(t) ==
    LET o == req[t].cur IN
    /\ req[t].pc = "stop" /\ Free(o) /\ job[o].worker = "alive"
    /\ \E w \in {"stopping", "missed"} :
          job' = [job EXCEPT ![o].worker = w, ![o].lock = t]
    /\ Goto(t, "stopping")
    /\ UNCHANGED <<daemon, lives, db, jobs, toRevive, lost, expected>>

\* Faulty variant: a worker that ended by itself is waited for as well.
StopAtOnceNone(t) ==
    LET o == req[t].cur IN
    /\ req[t].pc = "stop" /\ Free(o) /\ job[o].worker = "none"
    /\ job' = [job EXCEPT ![o].worker = IF Restarts(t) /\ job[o].ready THEN "alive" ELSE "none",
                          ![o].fired = FALSE]
    /\ Goto(t, AfterStop(req[t].kind))
    /\ UNCHANGED <<daemon, lives, db, jobs, toRevive, lost, expected>>

\* There is no worker, or it is over; a restart that finds no context panics.
StopAtOnce(t) ==
    LET o == req[t].cur IN
    /\ req[t].pc = "stop" /\ Free(o) /\ job[o].worker \in {"none", "over"}
    /\ job' = [job EXCEPT ![o].worker = IF Restarts(t) /\ job[o].ready THEN "alive" ELSE "none",
                          ![o].fired = FALSE]
    /\ Goto(t, AfterStop(req[t].kind))
    /\ UNCHANGED <<daemon, lives, db, jobs, toRevive, lost, expected>>

\* Faulty variant: the mutex is not released when a restart has waited.
StopEndsLocked(t) ==
    LET o == req[t].cur IN
    /\ req[t].pc = "stopping" /\ job[o].worker = "stopping"
    /\ job' = [job EXCEPT ![o].worker = IF Restarts(t) THEN "alive" ELSE "none",
                          ![o].lock = IF Restarts(t) THEN t ELSE None]
    /\ Goto(t, AfterStop(req[t].kind))
    /\ UNCHANGED <<daemon, lives, db, jobs, toRevive, lost, expected>>

\* The worker's Done; Restart starts the next worker before it unlocks.
StopEnds(t) ==
    LET o == req[t].cur IN
    /\ req[t].pc = "stopping" /\ job[o].worker = "stopping"
    /\ job' = [job EXCEPT ![o].worker = IF Restarts(t) THEN "alive" ELSE "none",
                          ![o].fired = FALSE, ![o].lock = None]
    /\ Goto(t, AfterStop(req[t].kind))
    /\ UNCHANGED <<daemon, lives, db, jobs, toRevive, lost, expected>>

KillJob(t) ==
    /\ req[t].pc = "kill" /\ Free(req[t].cur)
    /\ job' = [job EXCEPT ![req[t].cur].worker = "none", ![req[t].cur].fired = FALSE]
    /\ Goto(t, "answer")
    /\ UNCHANGED <<daemon, lives, db, jobs, toRevive, lost, expected>>

\* A worker comes to its end by itself.
WorkerEnds(o) ==
    /\ o \in DOMAIN job /\ job[o].worker = "alive"
    /\ job' = [job EXCEPT ![o].worker = "over"]
    /\ UNCHANGED <<daemon, lives, db, jobs, toRevive, lost, req, expected>>

\* So does, one day or never, the attempt that has missed a Stop.
MissedEnds(o) ==
    /\ o \in DOMAIN job /\ job[o].worker = "missed"
    /\ job' = [job EXCEPT ![o].worker = "stopping"]
    /\ UNCHANGED <<daemon, lives, db, jobs, toRevive, lost, req, expected>>

-----------------------------------------------------------------------------
Serve(t) == \/ Swap(t) \/ Replace(t) \/ Ready(t) \/ DbDelete(t) \/ MapDelete(t)
            \/ StartJob(t) \/ StopWaits(t) \/ StopAtOnce(t) \/ StopEnds(t) \/ KillJob(t)
            \/ Answer(t)

Begin(t) == \E i \in Ids, kind \in Kinds :
               \/ \E m \in Manifests : BeginChange(t, kind, i, m)
               \/ BeginOther(t, kind, i)

Restarted == Open \/ Listen \/ \E i \in Ids : Revive(i) \/ ReviveFails(i)

Next ==
    \/ Restarted \/ Crash
    \/ \E t \in Clients : Begin(t)
    \/ \E t \in Triggers, kind \in {"start", "stop"}, o \in Objects : Fire(t, kind, o)
    \/ \E t \in Threads : Serve(t)
    \/ \E o \in Objects : ReadyRevived(o) \/ WorkerEnds(o) \/ MissedEnds(o)

(***************************************************************************)
(* Fairness: a request that is being served proceeds, and a mutex that is  *)
(* free again and again is obtained (sync.Mutex does not starve).  That a  *)
(* worker ends whose attempt the stop has reached is ReachedStopEndsWorker *)
(* of RetryWorker; nothing is assumed of one that has missed its stop, nor *)
(* that an attempt ever ends by itself.                                    *)
(***************************************************************************)
Fairness == /\ WF_vars(Restarted)
            /\ \A t \in Threads : SF_vars(Serve(t))

Spec == Init /\ [][Next]_vars /\ Fairness

-----------------------------------------------------------------------------
(* Properties *)

Idle(t) == req[t].pc = "idle"
Running(o) == job[o].worker \in {"alive", "stopping", "missed"}

\* When no request is being served, what runs is what is stored: the map and
\* the database have the same ids with the same manifests, but for manifests
\* that could not be spawned, also after crashes between any two steps.
StoresAgree ==
    daemon = "up" /\ (\A t \in Clients : Idle(t)) =>
        \A i \in Ids :
            IF jobs[i] = None THEN db[i] = None \/ i \in lost
            ELSE job[jobs[i]].id = i /\ job[jobs[i]].manifest = db[i]

\* A change that has been answered survives crashes until the next change of
\* the id; one that was cut off by a crash has either happened or not.
AnsweredIsStored ==
    \A i \in Ids : (\A t \in Clients : Changes(t) => req[t].id # i) => db[i] \in expected[i]

\* A job is replaced by a new one of the same id only when its worker has ended:
\* two job objects of an id never run at the same time (session.go:48-52), and
\* what runs while no request is being served is in the map, where it can be
\* listed and stopped; but for an old one that its own trigger has started again.
NewAfterOld ==
    \A o \in DOMAIN job : Running(o) /\ ~job[o].fired =>
        /\ \A p \in DOMAIN job : o < p /\ job[o].id = job[p].id => ~Running(p)
        /\ (\A t \in Threads : Idle(t)) => jobs[job[o].id] = o

\* The request waits, or waits for a mutex whose holder waits, for a worker that
\* has missed its stop.
Hung(t) == /\ req[t].pc \in {"start", "stop", "stopping", "kill"}
           /\ job[req[t].cur].worker = "missed"

\* Every request that has begun is answered, unless the daemon crashes, or the
\* request hangs from then on because a stop has missed its worker (job.go:71):
\* nothing else that clients and triggers do to one another holds one up for ever.
RequestsEnd == \A t \in Threads : ~Idle(t) ~> (Idle(t) \/ []Hung(t))

\* A handler waits for nothing but the mutex of the job object it has found and
\* the end of a worker that has missed its stop: whatever else that worker is
\* doing, and whether the object is ready, some step of the handler can be made
\* (job.go:55-114, session.go:47-63).
GoesOn(t) ==
    (/\ ~Idle(t)
     /\ req[t].pc \in {"start", "stop", "kill"} => Free(req[t].cur)
     /\ req[t].pc = "stopping" => job[req[t].cur].worker # "missed")
    => ENABLED <<Serve(t)>>_vars
RequestsGoOn == \A t \in Threads : GoesOn(t)
=============================================================================

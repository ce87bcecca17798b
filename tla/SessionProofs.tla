--------------------------- MODULE SessionProofs ---------------------------
(***************************************************************************)
(* The map of jobs and the database of a session, for any number of ids,   *)
(* clients, triggers, job objects and crashes.                             *)
(*                                                                         *)
(* That types are kept needs no hypothesis.  That map and database agree,  *)
(* and that an answered change is stored, is so as long as the changes of  *)
(* an id do not overlap (ChangesAlone); that a new job waits for the old,  *)
(* as long as nothing overlaps with a change of its id (RequestsAlone).    *)
(* Requests on different ids, and triggers, may overlap as they like.      *)
(***************************************************************************)
EXTENDS Session, SequenceTheorems, TLAPS

ChangesAlone ==
    \A t, u \in Clients : t # u /\ Changes(t) /\ Changes(u) => req[t].id # req[u].id

RequestsAlone ==
    \A t, u \in Clients : t # u /\ Changes(t) /\ ~Idle(u) => req[t].id # req[u].id

-----------------------------------------------------------------------------
(* The invariants *)

Spawns(t) == ~Idle(t) /\ req[t].kind \in {"update", "launch"}
Deletes(t) == ~Idle(t) /\ req[t].kind = "delete"

\* What a request knows of its job objects at each of its steps.
Served(t) ==
    /\ Spawns(t) => /\ t \in Clients
                    /\ req[t].id \in Ids /\ req[t].manifest \in Manifests
                    /\ req[t].new \in DOMAIN job
                    /\ job[req[t].new].id = req[t].id
                    /\ job[req[t].new].manifest = req[t].manifest
    /\ Deletes(t) => t \in Clients /\ req[t].id \in Ids
    /\ ~Idle(t) /\ ~Changes(t) /\ t \in Clients => req[t].id \in Ids
    /\ req[t].pc \in {"swap", "replace", "ready"} => Spawns(t)
    /\ req[t].pc \in {"dbdelete", "mapdelete"} => Deletes(t)
    /\ req[t].pc \in {"start", "stop", "stopping", "kill"} => req[t].cur \in DOMAIN job
    /\ req[t].pc = "start" => \/ req[t].kind = "start"
                              \/ req[t].kind = "launch" /\ req[t].cur = req[t].new
    /\ req[t].kind = "restart" => t \in Clients
    /\ req[t].pc = "kill" => req[t].kind = "kill"

\* Where job objects and stored manifests are known.
Mapped ==
    /\ \A i \in Ids : jobs[i] # None => jobs[i] \in DOMAIN job /\ job[jobs[i]].id = i
    /\ daemon # "up" => \A t \in Clients : Idle(t)
    /\ daemon = "down" => job = <<>> /\ \A t \in Threads : Idle(t)
    /\ daemon = "reviving" => \A i \in toRevive : db[i] # None /\ jobs[i] = None

TypeInv == TypeOK /\ (\A t \in Threads : Served(t)) /\ Mapped

\* Of what is not being changed, the map has what is stored.
Agree(i) == IF jobs[i] = None THEN db[i] = None \/ i \in lost
            ELSE job[jobs[i]].manifest = db[i]

\* A change of id i that has done one of its two halves.
Halfway(t) ==
    \/ req[t].pc \in {"replace", "stop", "stopping"} /\ Spawns(t)
    \/ req[t].pc = "mapdelete"

\* A change that has not come to the database, and one that has.
Before(t) ==
    \/ req[t].pc \in {"swap", "replace", "stop", "stopping"} /\ Spawns(t)
    \/ req[t].pc = "dbdelete"
After(t) == Changes(t) /\ ~Before(t)

Agreement ==
    /\ \A i \in Ids :
         \/ daemon = "down"
         \/ daemon = "reviving" /\ i \in toRevive
         \/ \E t \in Clients : Halfway(t) /\ req[t].id = i
         \/ Agree(i)
    /\ \A t \in Clients :
         /\ Spawns(t) /\ req[t].pc # "swap" => jobs[req[t].id] = req[t].new
         /\ After(t) => db[req[t].id] = Target(t)

Storing ==
    \A i \in Ids :
        \/ db[i] \in expected[i]
        \/ \E t \in Clients : After(t) /\ req[t].id = i

StoreInv == TypeInv /\ Agreement /\ Storing

\* A job object is its id's current one while it is in the map, and while the
\* change that has taken it out has not stopped it yet.
Stops(t, o) == Changes(t) /\ req[t].pc \in {"stop", "stopping"} /\ req[t].cur = o
               /\ req[t].id = job[o].id
Current(o) == jobs[job[o].id] = o \/ \E t \in Clients : Stops(t, o)

\* A job object whose predecessor may still be running.
Waits(t) == Spawns(t) /\ req[t].pc \in {"swap", "stop", "stopping"}

\* What is not ready has no context, and so no worker; what is being stopped is.
WorkersAreReady == \A o \in DOMAIN job : ~job[o].ready => job[o].worker = "none"
StoppedAreReady == \A t \in Threads : req[t].pc = "stopping" => job[req[t].cur].ready

\* The job object of a change is not ready while its predecessor may run, and
\* there is none after it.
NewIsUnready ==
    \A t \in Clients : Spawns(t) /\ req[t].pc \in {"swap", "stop", "stopping", "replace", "ready"}
                         => ~job[req[t].new].ready
NewIsLast ==
    \A t \in Clients : Spawns(t) =>
        \A q \in DOMAIN job : job[q].id = req[t].id => q <= req[t].new
NewWaits ==
    \A o, p \in DOMAIN job : Current(o) /\ o < p /\ job[o].id = job[p].id =>
        \E t \in Clients : Waits(t) /\ req[t].new = p

\* What runs is current, but for what a trigger has started again.
RunningIsCurrent == \A o \in DOMAIN job : Running(o) /\ ~job[o].fired => Current(o)

\* A request that is no change finds its job object in the map.
FoundInMap ==
    \A t \in Clients : ~Idle(t) /\ ~Changes(t) /\ req[t].pc # "answer" =>
        jobs[req[t].id] = req[t].cur

Order == /\ WorkersAreReady /\ StoppedAreReady
         /\ NewIsUnready /\ NewIsLast /\ NewWaits
         /\ RunningIsCurrent /\ FoundInMap

OrderInv == StoreInv /\ Order

-----------------------------------------------------------------------------
(* Job objects *)

\* Every object of before is still that of its id and manifest.
Grown ==
    /\ DOMAIN job \subseteq DOMAIN job'
    /\ \A o \in DOMAIN job : job'[o].id = job[o].id /\ job'[o].manifest = job[o].manifest

LEMMA Indices == TypeOK => DOMAIN job = 1..Len(job) /\ DOMAIN job \subseteq Objects /\ None \notin DOMAIN job
<1> SUFFICES ASSUME TypeOK
             PROVE  DOMAIN job = 1..Len(job) /\ DOMAIN job \subseteq Objects /\ None \notin DOMAIN job
  OBVIOUS
<1>1. job \in Seq(JobObjects) /\ Len(job) <= MaxJobs
  BY DEF TypeOK
<1>2. Len(job) \in Nat /\ DOMAIN job = 1..Len(job)
  BY <1>1
<1>3. QED
  BY <1>1, <1>2, BoundsAssumption, NoneAssumption DEF Objects

\* A step that changes one object, but neither its id nor its manifest.
LEMMA ObjectChanges ==
    ASSUME TypeOK, NEW o \in DOMAIN job, NEW x \in JobObjects,
           x.id = job[o].id, x.manifest = job[o].manifest,
           job' = [job EXCEPT ![o] = x]
    PROVE  /\ job' \in Seq(JobObjects) /\ Len(job') = Len(job) /\ DOMAIN job' = DOMAIN job
           /\ \A p \in DOMAIN job : job'[p] = IF p = o THEN x ELSE job[p]
           /\ Grown
<1>1. job \in Seq(JobObjects) /\ DOMAIN job = 1..Len(job)
  BY Indices DEF TypeOK
<1>2. job' \in Seq(JobObjects) /\ Len(job') = Len(job)
      /\ \A p \in 1..Len(job) : job'[p] = IF p = o THEN x ELSE job[p]
  BY <1>1, ExceptSeq
<1>3. DOMAIN job' = 1..Len(job')
  BY <1>2
<1>4. QED
  BY <1>1, <1>2, <1>3 DEF Grown

\* A new object comes last.
LEMMA ObjectComes ==
    ASSUME TypeOK, NEW i \in Ids, NEW m \in Manifests, Len(job) < MaxJobs,
           job' = Append(job, Spawn(i, m))
    PROVE  /\ job' \in Seq(JobObjects) /\ Len(job') <= MaxJobs
           /\ DOMAIN job' = DOMAIN job \cup {Len(job) + 1}
           /\ Len(job) + 1 \in Objects /\ Len(job) + 1 \notin DOMAIN job
           /\ \A p \in DOMAIN job : job'[p] = job[p] /\ p < Len(job) + 1
           /\ job'[Len(job) + 1] = Spawn(i, m)
           /\ Grown
<1>1. job \in Seq(JobObjects) /\ DOMAIN job = 1..Len(job) /\ Len(job) \in Nat
  BY Indices DEF TypeOK
<1>2. Spawn(i, m) \in JobObjects
  BY DEF Spawn, JobObjects
<1>3. /\ job' \in Seq(JobObjects) /\ Len(job') = Len(job) + 1
      /\ \A p \in 1..Len(job) : job'[p] = job[p]
      /\ job'[Len(job) + 1] = Spawn(i, m)
  BY <1>1, <1>2, AppendProperties
<1>4. DOMAIN job' = 1..(Len(job) + 1)
  BY <1>1, <1>3
<1>5. QED
  BY <1>1, <1>3, <1>4, BoundsAssumption DEF Grown, Objects

\* What the request of u knows stays true when others go on.
LEMMA ServedStays ==
    ASSUME Grown, NEW u \in Threads, Served(u), req'[u] = req[u]
    PROVE  Served(u)'
BY DEF Grown, Served, Spawns, Deletes, Changes, Idle

-----------------------------------------------------------------------------
(* Types *)

LEMMA InitType == Init => TypeInv
<1> SUFFICES ASSUME Init PROVE TypeInv
  OBVIOUS
<1>1. TypeOK
  BY BoundsAssumption DEF Init, TypeOK, Requests, Quiet, Kinds, PCs
<1>2. \A t \in Threads : Served(t)
  BY DEF Init, Quiet, Served, Spawns, Deletes, Changes, Idle, Threads
<1>3. Mapped
  BY DEF Init, Mapped, Idle, Quiet, Threads
<1>4. QED
  BY <1>1, <1>2, <1>3 DEF TypeInv

\* A request that is served goes on; only one of a client changes the stores.
LEMMA ServeType ==
    ASSUME TypeInv, NEW t \in Threads, ~Idle(t), TypeOK', Grown, Served(t)',
           \A u \in Threads \ {t} : req'[u] = req[u],
           UNCHANGED <<daemon, toRevive>>,
           t \notin Clients => UNCHANGED <<db, jobs>>,
           \A i \in Ids : \/ jobs'[i] = None
                          \/ jobs'[i] = jobs[i]
                          \/ jobs'[i] \in DOMAIN job' /\ job'[jobs'[i]].id = i
    PROVE  TypeInv'
<1>1. \A u \in Threads : Served(u)'
  BY ServedStays DEF TypeInv
<1>2. daemon # "down" /\ (t \in Clients => daemon = "up")
  BY DEF TypeInv, Mapped
<1>3. \A i \in Ids : jobs'[i] # None => jobs'[i] \in DOMAIN job' /\ job'[jobs'[i]].id = i
  BY DEF TypeInv, Mapped, Grown
<1>4. Mapped'
  BY <1>2, <1>3 DEF TypeInv, Mapped, Idle, Threads
<1>5. QED
  BY <1>1, <1>4 DEF TypeInv

LEMMA RequestTypes ==
    ASSUME TypeOK, NEW t \in Threads
    PROVE  /\ req[t] \in Requests
           /\ \A r \in Requests : [req EXCEPT ![t] = r] \in [Threads -> Requests]
           /\ \A l \in PCs : [req[t] EXCEPT !.pc = l] \in Requests
           /\ Quiet \in Requests
BY DEF TypeOK, Requests, Quiet, PCs, Kinds

LEMMA SwapType == ASSUME TypeInv, NEW t \in Threads, Swap(t) PROVE TypeInv'
<1>1. ~Idle(t) /\ Spawns(t) /\ t \in Clients /\ req[t].id \in Ids /\ req[t].new \in DOMAIN job
      /\ job[req[t].new].id = req[t].id
  BY DEF TypeInv, Served, Swap, Idle, Spawns
<1>2. TypeOK'
  BY <1>1, Indices DEF TypeInv, TypeOK, Requests, Swap, PCs
<1>3. Served(t)'
  BY <1>1 DEF TypeInv, TypeOK, Requests, Mapped, Served, Spawns, Deletes, Changes, Idle, Swap
<1>4. /\ \A u \in Threads \ {t} : req'[u] = req[u]
      /\ \A i \in Ids : jobs'[i] = IF i = req[t].id THEN req[t].new ELSE jobs[i]
      /\ UNCHANGED <<daemon, job, toRevive>>
  BY DEF TypeInv, TypeOK, Swap
<1>5. QED
  BY <1>1, <1>2, <1>3, <1>4, ServeType DEF Grown

LEMMA ReplaceType == ASSUME TypeInv, NEW t \in Threads, Replace(t) PROVE TypeInv'
<1>1. ~Idle(t) /\ Spawns(t) /\ t \in Clients /\ req[t].manifest \in Manifests
  BY DEF TypeInv, Served, Replace, Idle, Spawns
<1>2. TypeOK'
  BY <1>1 DEF TypeInv, TypeOK, Requests, Replace, Goto, PCs
<1>3. Served(t)'
  BY <1>1 DEF TypeInv, TypeOK, Requests, Served, Spawns, Deletes, Changes, Idle, Replace, Goto
<1>4. (\A u \in Threads \ {t} : req'[u] = req[u]) /\ UNCHANGED <<daemon, jobs, job, toRevive>>
  BY DEF TypeInv, TypeOK, Replace, Goto
<1>5. QED
  BY <1>1, <1>2, <1>3, <1>4, ServeType DEF Grown

LEMMA DbDeleteType == ASSUME TypeInv, NEW t \in Threads, DbDelete(t) PROVE TypeInv'
<1>1. ~Idle(t) /\ Deletes(t) /\ t \in Clients
  BY DEF TypeInv, Served, DbDelete, Idle, Deletes
<1>2. TypeOK'
  BY <1>1 DEF TypeInv, TypeOK, Requests, DbDelete, Goto, PCs
<1>3. Served(t)'
  BY <1>1 DEF TypeInv, TypeOK, Requests, Served, Spawns, Deletes, Changes, Idle, DbDelete, Goto
<1>4. (\A u \in Threads \ {t} : req'[u] = req[u]) /\ UNCHANGED <<daemon, jobs, job, toRevive>>
  BY DEF TypeInv, TypeOK, DbDelete, Goto
<1>5. QED
  BY <1>1, <1>2, <1>3, <1>4, ServeType DEF Grown

LEMMA MapDeleteType == ASSUME TypeInv, NEW t \in Threads, MapDelete(t) PROVE TypeInv'
<1>1. ~Idle(t) /\ Deletes(t) /\ t \in Clients /\ req[t].id \in Ids
  BY DEF TypeInv, Served, MapDelete, Idle, Deletes
<1>2. TypeOK'
  BY <1>1 DEF TypeInv, TypeOK, Requests, MapDelete, PCs
<1>3. Served(t)'
  <2> DEFINE r == [req[t] EXCEPT !.cur = jobs[req[t].id],
                                 !.pc = IF jobs[req[t].id] = None THEN "answer" ELSE "stop"]
  <2>1. req'[t] = r /\ req[t] \in Requests
    BY RequestTypes DEF TypeInv, TypeOK, MapDelete
  <2>2. r.kind = "delete" /\ r.id = req[t].id /\ r.pc # "idle"
        /\ (r.pc = "stop" => r.cur \in DOMAIN job) /\ r.pc \in {"answer", "stop"}
    BY <1>1, <2>1 DEF Requests, Deletes, TypeInv, Mapped
  <2>3. UNCHANGED job
    BY DEF MapDelete
  <2>4. QED
    BY <1>1, <2>1, <2>2, <2>3 DEF Served, Spawns, Deletes, Changes, Idle
<1>4. /\ \A u \in Threads \ {t} : req'[u] = req[u]
      /\ \A i \in Ids : jobs'[i] = IF i = req[t].id THEN None ELSE jobs[i]
      /\ UNCHANGED <<daemon, job, toRevive>>
  BY DEF TypeInv, TypeOK, MapDelete
<1>5. QED
  BY <1>1, <1>2, <1>3, <1>4, ServeType DEF Grown

LEMMA AnswerType == ASSUME TypeInv, NEW t \in Threads, Answer(t) PROVE TypeInv'
<1>1. ~Idle(t)
  BY DEF Answer, Idle
<1>2. req' = [req EXCEPT ![t] = Quiet] /\ req' \in [Threads -> Requests]
  BY RequestTypes DEF TypeInv, Answer
<1>3. expected' \in [Ids -> SUBSET (Manifests \cup {None})]
  <2>1. Target(t) \in Manifests \cup {None}
    BY RequestTypes DEF TypeInv, Target, Requests
  <2>2. QED
    BY <2>1 DEF TypeInv, TypeOK, Answer
<1>4. TypeOK'
  BY <1>2, <1>3 DEF TypeInv, TypeOK, Answer
<1>5. req'[t] = Quiet /\ (\A u \in Threads \ {t} : req'[u] = req[u])
      /\ UNCHANGED <<daemon, db, jobs, job, toRevive>>
  BY DEF TypeInv, TypeOK, Answer
<1>6. Served(t)'
  BY <1>5 DEF Served, Spawns, Deletes, Changes, Idle, Quiet
<1>7. QED
  BY <1>1, <1>4, <1>5, <1>6, ServeType DEF Grown

\* A step that changes a request, and perhaps one job object, but no store.
LEMMA RequestGoes ==
    ASSUME TypeInv, NEW t \in Threads, ~Idle(t), NEW r \in Requests,
           req' = [req EXCEPT ![t] = r],
           r.kind = req[t].kind, r.id = req[t].id, r.manifest = req[t].manifest, r.new = req[t].new,
           \/ r.pc = "answer"
           \/ r.pc = "start" /\ r.kind = "launch" /\ r.cur = r.new /\ r.cur \in DOMAIN job
           \/ r.pc = "stopping" /\ r.cur \in DOMAIN job
           \/ r.pc = "replace" /\ r.kind \in {"update", "launch"},
           \/ UNCHANGED job
           \/ \E o \in DOMAIN job, x \in JobObjects :
                /\ x.id = job[o].id /\ x.manifest = job[o].manifest
                /\ job' = [job EXCEPT ![o] = x],
           UNCHANGED <<daemon, lives, db, jobs, toRevive, lost, expected>>
    PROVE  TypeInv'
<1>1. job' \in Seq(JobObjects) /\ Len(job') = Len(job) /\ DOMAIN job' = DOMAIN job /\ Grown
  <2>1. CASE UNCHANGED job
    BY <2>1 DEF Grown, TypeInv, TypeOK
  <2>2. CASE ~UNCHANGED job
    BY <2>2, ObjectChanges DEF TypeInv
  <2>3. QED
    BY <2>1, <2>2
<1>2. req' \in [Threads -> Requests] /\ req'[t] = r /\ \A u \in Threads \ {t} : req'[u] = req[u]
  BY DEF TypeInv, TypeOK
<1>3. TypeOK'
  BY <1>1, <1>2 DEF TypeInv, TypeOK
<1>4. Served(t)
  BY DEF TypeInv
<1>5. Served(t)'
  BY <1>1, <1>2, <1>4 DEF Grown, Served, Spawns, Deletes, Changes, Idle
<1>6. QED
  BY <1>1, <1>2, <1>3, <1>5, ServeType

LEMMA ReadyType == ASSUME TypeInv, NEW t \in Threads, Ready(t) PROVE TypeInv'
<1>1. ~Idle(t) /\ Spawns(t) /\ req[t].new \in DOMAIN job /\ req[t] \in Requests
  BY RequestTypes DEF TypeInv, Served, Ready, Idle, Spawns
<1> DEFINE r == [req[t] EXCEPT !.cur = req[t].new,
                               !.pc = IF req[t].kind = "launch" THEN "start" ELSE "answer"]
           x == [job[req[t].new] EXCEPT !.ready = TRUE]
<1>2. r \in Requests /\ req' = [req EXCEPT ![t] = r]
      /\ r.kind = req[t].kind /\ r.id = req[t].id /\ r.manifest = req[t].manifest /\ r.new = req[t].new
      /\ \/ r.pc = "answer"
         \/ r.pc = "start" /\ r.kind = "launch" /\ r.cur = r.new /\ r.cur \in DOMAIN job
  BY <1>1 DEF Ready, Requests, PCs, TypeInv, TypeOK
<1>3. job[req[t].new] \in JobObjects
  BY <1>1, Indices DEF TypeInv, TypeOK
<1>4. /\ x \in JobObjects /\ x.id = job[req[t].new].id /\ x.manifest = job[req[t].new].manifest
      /\ job' = [job EXCEPT ![req[t].new] = x]
  BY <1>1, <1>3 DEF Ready, JobObjects
<1>5. UNCHANGED <<daemon, lives, db, jobs, toRevive, lost, expected>>
  BY DEF Ready
<1> HIDE DEF r, x
<1>6. QED
  BY <1>1, <1>2, <1>4, <1>5, RequestGoes

LEMMA StartJobType == ASSUME TypeInv, NEW t \in Threads, StartJob(t) PROVE TypeInv'
<1>1. ~Idle(t) /\ req[t].cur \in DOMAIN job /\ req[t] \in Requests
  BY RequestTypes DEF TypeInv, Served, StartJob, Idle
<1> DEFINE r == [req[t] EXCEPT !.pc = "answer"]
<1>2. r \in Requests /\ req' = [req EXCEPT ![t] = r] /\ r.pc = "answer"
      /\ r.kind = req[t].kind /\ r.id = req[t].id /\ r.manifest = req[t].manifest /\ r.new = req[t].new
  BY <1>1 DEF StartJob, Goto, Requests, PCs, TypeInv, TypeOK
<1>3. \/ job' = job
      \/ job' = [job EXCEPT ![req[t].cur].worker = "alive", ![req[t].cur].fired = (t \in Triggers)]
  BY DEF StartJob
<1>4. \/ UNCHANGED job
      \/ \E o \in DOMAIN job, x \in JobObjects :
           /\ x.id = job[o].id /\ x.manifest = job[o].manifest
           /\ job' = [job EXCEPT ![o] = x]
  <2>1. PICK b \in BOOLEAN :
          job' = job \/ job' = [job EXCEPT ![req[t].cur].worker = "alive", ![req[t].cur].fired = b]
    BY <1>3, (t \in Triggers) \in BOOLEAN, Zenon
  <2> DEFINE x == [job[req[t].cur] EXCEPT !.worker = "alive", !.fired = b]
  <2>2. job[req[t].cur] \in JobObjects
    BY <1>1, Indices DEF TypeInv, TypeOK
  <2>3. x \in JobObjects /\ x.id = job[req[t].cur].id /\ x.manifest = job[req[t].cur].manifest
    BY <2>2 DEF JobObjects
  <2>4. job' = job \/ job' = [job EXCEPT ![req[t].cur] = x]
    BY <1>1, <2>1, <2>2
  <2> HIDE DEF x
  <2>5. QED
    BY <1>1, <2>3, <2>4
<1>5. UNCHANGED <<daemon, lives, db, jobs, toRevive, lost, expected>>
  BY DEF StartJob
<1> HIDE DEF r
<1>6. QED
  BY <1>1, <1>2, <1>4, <1>5, RequestGoes

LEMMA StopWaitsType == ASSUME TypeInv, NEW t \in Threads, StopWaits(t) PROVE TypeInv'
<1> DEFINE o == req[t].cur
           r == [req[t] EXCEPT !.pc = "stopping"]
<1>0. PICK w \in {"stopping", "missed"} :
          job' = [job EXCEPT ![o].worker = w, ![o].lock = t]
  BY DEF StopWaits
<1> DEFINE x == [job[o] EXCEPT !.worker = w, !.lock = t]
<1>1. ~Idle(t) /\ o \in DOMAIN job /\ req[t] \in Requests
  BY RequestTypes DEF TypeInv, Served, StopWaits, Idle
<1>2. job[o] \in JobObjects
  BY <1>1, Indices DEF TypeInv, TypeOK
<1>3. r \in Requests /\ req' = [req EXCEPT ![t] = r] /\ r.pc = "stopping" /\ r.cur = o
      /\ r.kind = req[t].kind /\ r.id = req[t].id /\ r.manifest = req[t].manifest /\ r.new = req[t].new
  BY <1>1 DEF StopWaits, Goto, Requests, PCs, TypeInv, TypeOK
<1>4. x \in JobObjects /\ x.id = job[o].id /\ x.manifest = job[o].manifest
  BY <1>2 DEF JobObjects
<1>5. job' = [job EXCEPT ![o] = x]
  BY <1>0, <1>1, <1>2 DEF JobObjects
<1>6. UNCHANGED <<daemon, lives, db, jobs, toRevive, lost, expected>>
  BY DEF StopWaits
<1> HIDE DEF r, x, o
<1>7. QED
  BY <1>1, <1>3, <1>4, <1>5, <1>6, RequestGoes

\* Where a request goes when its job object is stopped.
LEMMA StopGoes ==
    ASSUME TypeInv, NEW t \in Threads, ~Idle(t), Goto(t, AfterStop(req[t].kind))
    PROVE  \E r \in Requests :
             /\ req' = [req EXCEPT ![t] = r]
             /\ r.kind = req[t].kind /\ r.id = req[t].id /\ r.manifest = req[t].manifest
             /\ r.cur = req[t].cur /\ r.new = req[t].new
             /\ IF req[t].kind \in {"update", "launch"} THEN r.pc = "replace" ELSE r.pc = "answer"
<1> DEFINE r == [req[t] EXCEPT !.pc = AfterStop(req[t].kind)]
<1>1. req[t] \in Requests /\ req' = [req EXCEPT ![t] = r]
  BY RequestTypes DEF TypeInv, TypeOK, Goto
<1>2. r \in Requests
  BY <1>1 DEF Requests, PCs, AfterStop
<1>3. QED
  BY <1>1, <1>2 DEF AfterStop, Requests

LEMMA StopAtOnceType == ASSUME TypeInv, NEW t \in Threads, StopAtOnce(t) PROVE TypeInv'
<1> DEFINE o == req[t].cur
           w == IF Restarts(t) /\ job[o].ready THEN "alive" ELSE "none"
           x == [job[o] EXCEPT !.worker = w, !.fired = FALSE]
<1>1. ~Idle(t) /\ o \in DOMAIN job
  BY DEF TypeInv, Served, StopAtOnce, Idle
<1>2. job[o] \in JobObjects
  BY <1>1, Indices DEF TypeInv, TypeOK
<1>3. PICK r \in Requests :
             /\ req' = [req EXCEPT ![t] = r]
             /\ r.kind = req[t].kind /\ r.id = req[t].id /\ r.manifest = req[t].manifest
             /\ r.cur = req[t].cur /\ r.new = req[t].new
             /\ IF req[t].kind \in {"update", "launch"} THEN r.pc = "replace" ELSE r.pc = "answer"
  BY <1>1, StopGoes DEF StopAtOnce
<1>4. x \in JobObjects /\ x.id = job[o].id /\ x.manifest = job[o].manifest
  BY <1>2 DEF JobObjects
<1>5. job' = [job EXCEPT ![o] = x]
  BY <1>1, <1>2 DEF StopAtOnce, JobObjects
<1>6. UNCHANGED <<daemon, lives, db, jobs, toRevive, lost, expected>>
  BY DEF StopAtOnce
<1> HIDE DEF x, o
<1>7. QED
  BY <1>1, <1>3, <1>4, <1>5, <1>6, RequestGoes

LEMMA StopEndsType == ASSUME TypeInv, NEW t \in Threads, StopEnds(t) PROVE TypeInv'
<1> DEFINE o == req[t].cur
           w == IF Restarts(t) THEN "alive" ELSE "none"
           x == [job[o] EXCEPT !.worker = w, !.fired = FALSE, !.lock = None]
<1>1. ~Idle(t) /\ o \in DOMAIN job
  BY DEF TypeInv, Served, StopEnds, Idle
<1>2. job[o] \in JobObjects
  BY <1>1, Indices DEF TypeInv, TypeOK
<1>3. PICK r \in Requests :
             /\ req' = [req EXCEPT ![t] = r]
             /\ r.kind = req[t].kind /\ r.id = req[t].id /\ r.manifest = req[t].manifest
             /\ r.cur = req[t].cur /\ r.new = req[t].new
             /\ IF req[t].kind \in {"update", "launch"} THEN r.pc = "replace" ELSE r.pc = "answer"
  BY <1>1, StopGoes DEF StopEnds
<1>4. x \in JobObjects /\ x.id = job[o].id /\ x.manifest = job[o].manifest
  BY <1>2 DEF JobObjects
<1>5. job' = [job EXCEPT ![o] = x]
  BY <1>1, <1>2 DEF StopEnds, JobObjects
<1>6. UNCHANGED <<daemon, lives, db, jobs, toRevive, lost, expected>>
  BY DEF StopEnds
<1> HIDE DEF x, o
<1>7. QED
  BY <1>1, <1>3, <1>4, <1>5, <1>6, RequestGoes

LEMMA KillJobType == ASSUME TypeInv, NEW t \in Threads, KillJob(t) PROVE TypeInv'
<1> DEFINE o == req[t].cur
           r == [req[t] EXCEPT !.pc = "answer"]
           x == [job[o] EXCEPT !.worker = "none", !.fired = FALSE]
<1>1. ~Idle(t) /\ o \in DOMAIN job /\ req[t] \in Requests
  BY RequestTypes DEF TypeInv, Served, KillJob, Idle
<1>2. job[o] \in JobObjects
  BY <1>1, Indices DEF TypeInv, TypeOK
<1>3. r \in Requests /\ req' = [req EXCEPT ![t] = r] /\ r.pc = "answer"
      /\ r.kind = req[t].kind /\ r.id = req[t].id /\ r.manifest = req[t].manifest /\ r.new = req[t].new
  BY <1>1 DEF KillJob, Goto, Requests, PCs, TypeInv, TypeOK
<1>4. x \in JobObjects /\ x.id = job[o].id /\ x.manifest = job[o].manifest
  BY <1>2 DEF JobObjects
<1>5. job' = [job EXCEPT ![o] = x]
  BY <1>1, <1>2 DEF KillJob, JobObjects
<1>6. UNCHANGED <<daemon, lives, db, jobs, toRevive, lost, expected>>
  BY DEF KillJob
<1> HIDE DEF r, x, o
<1>7. QED
  BY <1>1, <1>3, <1>4, <1>5, <1>6, RequestGoes

\* A request that begins.
LEMMA BeginType ==
    ASSUME TypeInv, NEW t \in Threads, Idle(t), TypeOK', Grown, Served(t)',
           \A u \in Threads \ {t} : req'[u] = req[u],
           daemon # "down", t \in Clients => daemon = "up",
           UNCHANGED <<daemon, db, jobs, toRevive>>
    PROVE  TypeInv'
<1>1. \A u \in Threads : Served(u)'
  BY ServedStays DEF TypeInv
<1>2. \A i \in Ids : jobs'[i] # None => jobs'[i] \in DOMAIN job' /\ job'[jobs'[i]].id = i
  BY DEF TypeInv, Mapped, Grown
<1>3. Mapped'
  BY <1>2 DEF TypeInv, Mapped, Idle, Threads
<1>4. QED
  BY <1>1, <1>3 DEF TypeInv

LEMMA BeginChangeType ==
    ASSUME TypeInv, NEW t \in Clients, NEW kind \in Kinds, NEW i \in Ids, NEW m \in Manifests,
           BeginChange(t, kind, i, m)
    PROVE  TypeInv'
<1> DEFINE o == Len(job) + 1
           r == [Quiet EXCEPT !.pc = "swap", !.kind = kind, !.id = i, !.manifest = m, !.new = o]
<1>1. /\ job' \in Seq(JobObjects) /\ Len(job') <= MaxJobs
      /\ DOMAIN job' = DOMAIN job \cup {o} /\ o \in Objects
      /\ job'[o] = Spawn(i, m) /\ Grown
  BY ObjectComes DEF BeginChange, TypeInv
<1>2. r \in Requests /\ t \in Threads
  BY <1>1 DEF Requests, Quiet, PCs, Threads
<1>3. req' \in [Threads -> Requests] /\ req'[t] = r /\ \A u \in Threads \ {t} : req'[u] = req[u]
  BY <1>2 DEF BeginChange, TypeInv, TypeOK
<1>4. TypeOK'
  BY <1>1, <1>3 DEF BeginChange, TypeInv, TypeOK
<1>5. Served(t)'
  BY <1>1, <1>3 DEF BeginChange, Served, Spawns, Deletes, Changes, Idle, Quiet, Spawn
<1>6. QED
  BY <1>1, <1>2, <1>3, <1>4, <1>5, BeginType DEF BeginChange, Idle

LEMMA BeginOtherType ==
    ASSUME TypeInv, NEW t \in Clients, NEW kind \in Kinds, NEW i \in Ids, BeginOther(t, kind, i)
    PROVE  TypeInv'
<1> DEFINE r == [Quiet EXCEPT !.pc = FirstStep(kind), !.kind = kind, !.id = i, !.cur = jobs[i]]
<1>1. jobs[i] \in DOMAIN job /\ jobs[i] \in Objects /\ t \in Threads
  BY DEF BeginOther, TypeInv, TypeOK, Mapped, Threads
<1>2. /\ kind \in {"delete", "start", "stop", "restart", "kill"}
      /\ kind = "delete" => FirstStep(kind) = "dbdelete"
      /\ kind = "start" => FirstStep(kind) = "start"
      /\ kind \in {"stop", "restart"} => FirstStep(kind) = "stop"
      /\ kind = "kill" => FirstStep(kind) = "kill"
  BY DEF BeginOther, Kinds, FirstStep
<1>3. r \in Requests
  BY <1>1, <1>2 DEF Requests, Quiet, PCs
<1>4. req' \in [Threads -> Requests] /\ req'[t] = r /\ \A u \in Threads \ {t} : req'[u] = req[u]
  BY <1>1, <1>3 DEF BeginOther, TypeInv, TypeOK
<1>5. TypeOK' /\ Grown
  BY <1>4 DEF BeginOther, TypeInv, TypeOK, Grown
<1>6. Served(t)'
  BY <1>1, <1>2, <1>4 DEF BeginOther, Served, Spawns, Deletes, Changes, Idle, Quiet
<1>7. QED
  BY <1>1, <1>4, <1>5, <1>6, BeginType DEF BeginOther, Idle

LEMMA FireType ==
    ASSUME TypeInv, NEW t \in Triggers, NEW kind \in {"start", "stop"}, NEW o \in Objects,
           Fire(t, kind, o)
    PROVE  TypeInv'
<1> DEFINE r == [Quiet EXCEPT !.pc = kind, !.kind = kind, !.cur = o]
<1>1. t \in Threads /\ t \notin Clients /\ o \in DOMAIN job
  BY ThreadsAssumption DEF Threads, Fire
<1>2. r \in Requests
  BY DEF Requests, Quiet, PCs, Kinds
<1>3. req' \in [Threads -> Requests] /\ req'[t] = r /\ \A u \in Threads \ {t} : req'[u] = req[u]
  BY <1>1, <1>2 DEF Fire, TypeInv, TypeOK
<1>4. TypeOK' /\ Grown
  BY <1>3 DEF Fire, TypeInv, TypeOK, Grown
<1>5. Served(t)'
  BY <1>1, <1>3 DEF Fire, Served, Spawns, Deletes, Changes, Idle, Quiet
<1>6. QED
  BY <1>1, <1>3, <1>4, <1>5, BeginType DEF Fire, Idle

\* A worker ends, a revived job object becomes ready.
LEMMA ObjectType ==
    ASSUME TypeInv, NEW o \in DOMAIN job, NEW x \in JobObjects,
           x.id = job[o].id, x.manifest = job[o].manifest, job' = [job EXCEPT ![o] = x],
           daemon # "down", UNCHANGED <<daemon, lives, db, jobs, toRevive, lost, req, expected>>
    PROVE  TypeInv'
<1>1. job' \in Seq(JobObjects) /\ Len(job') = Len(job) /\ DOMAIN job' = DOMAIN job /\ Grown
  BY ObjectChanges DEF TypeInv
<1>2. TypeOK'
  BY <1>1 DEF TypeInv, TypeOK
<1>3. \A u \in Threads : Served(u)'
  BY <1>1, ServedStays DEF TypeInv
<1>4. Mapped'
  BY <1>1 DEF TypeInv, Mapped, Grown, Idle
<1>5. QED
  BY <1>2, <1>3, <1>4 DEF TypeInv

LEMMA WorkerEndsType == ASSUME TypeInv, NEW o \in Objects, WorkerEnds(o) PROVE TypeInv'
<1> DEFINE x == [job[o] EXCEPT !.worker = "over"]
<1>1. o \in DOMAIN job /\ job[o] \in JobObjects /\ daemon # "down"
  BY Indices DEF TypeInv, TypeOK, WorkerEnds, Mapped
<1>2. x \in JobObjects /\ x.id = job[o].id /\ x.manifest = job[o].manifest
      /\ job' = [job EXCEPT ![o] = x]
  BY <1>1 DEF WorkerEnds, JobObjects
<1>3. UNCHANGED <<daemon, lives, db, jobs, toRevive, lost, req, expected>>
  BY DEF WorkerEnds
<1> HIDE DEF x
<1>4. QED
  BY <1>1, <1>2, <1>3, ObjectType

LEMMA MissedEndsType == ASSUME TypeInv, NEW o \in Objects, MissedEnds(o) PROVE TypeInv'
<1> DEFINE x == [job[o] EXCEPT !.worker = "stopping"]
<1>1. o \in DOMAIN job /\ job[o] \in JobObjects /\ daemon # "down"
  BY Indices DEF TypeInv, TypeOK, MissedEnds, Mapped
<1>2. x \in JobObjects /\ x.id = job[o].id /\ x.manifest = job[o].manifest
      /\ job' = [job EXCEPT ![o] = x]
  BY <1>1 DEF MissedEnds, JobObjects
<1>3. UNCHANGED <<daemon, lives, db, jobs, toRevive, lost, req, expected>>
  BY DEF MissedEnds
<1> HIDE DEF x
<1>4. QED
  BY <1>1, <1>2, <1>3, ObjectType

LEMMA ReadyRevivedType == ASSUME TypeInv, NEW o \in Objects, ReadyRevived(o) PROVE TypeInv'
<1> DEFINE x == [job[o] EXCEPT !.ready = TRUE]
<1>1. o \in DOMAIN job /\ job[o] \in JobObjects /\ daemon # "down"
  BY Indices DEF TypeInv, TypeOK, ReadyRevived
<1>2. x \in JobObjects /\ x.id = job[o].id /\ x.manifest = job[o].manifest
      /\ job' = [job EXCEPT ![o] = x]
  BY <1>1 DEF ReadyRevived, JobObjects
<1>3. UNCHANGED <<daemon, lives, db, jobs, toRevive, lost, req, expected>>
  BY DEF ReadyRevived
<1> HIDE DEF x
<1>4. QED
  BY <1>1, <1>2, <1>3, ObjectType

\* The daemon is started, revives its jobs and crashes.
LEMMA OpenType == ASSUME TypeInv, Open PROVE TypeInv'
<1>1. TypeOK'
  BY BoundsAssumption DEF TypeInv, TypeOK, Open
<1>2. \A u \in Threads : Served(u)'
  BY DEF TypeInv, Open, Served, Spawns, Deletes, Changes, Idle
<1>3. \A i \in Ids : jobs[i] = None
  BY DEF TypeInv, Mapped, Open
<1>4. Mapped'
  BY <1>3 DEF TypeInv, Mapped, Open, Idle
<1>5. QED
  BY <1>1, <1>2, <1>4 DEF TypeInv

LEMMA ReviveType == ASSUME TypeInv, NEW i \in Ids, Revive(i) PROVE TypeInv'
<1>1. db[i] \in Manifests
  BY DEF TypeInv, TypeOK, Mapped, Revive
<1>2. /\ job' \in Seq(JobObjects) /\ Len(job') <= MaxJobs
      /\ DOMAIN job' = DOMAIN job \cup {Len(job) + 1} /\ Len(job) + 1 \in Objects
      /\ job'[Len(job) + 1] = Spawn(i, db[i]) /\ Grown
  BY <1>1, ObjectComes DEF Revive, TypeInv
<1>3. TypeOK'
  BY <1>2 DEF Revive, TypeInv, TypeOK
<1>4. \A u \in Threads : Served(u)'
  BY <1>2, ServedStays DEF TypeInv, Revive
<1>5. \A j \in Ids : jobs'[j] = IF j = i THEN Len(job) + 1 ELSE jobs[j]
  BY DEF Revive, TypeInv, TypeOK
<1>6. Mapped'
  BY <1>2, <1>5 DEF TypeInv, Mapped, Revive, Grown, Spawn, Idle
<1>7. QED
  BY <1>3, <1>4, <1>6 DEF TypeInv

LEMMA RevivalType ==
    ASSUME TypeInv, Listen \/ \E i \in Ids : ReviveFails(i)
    PROVE  TypeInv'
<1>1. TypeOK'
  BY DEF TypeInv, TypeOK, Listen, ReviveFails
<1>2. UNCHANGED job /\ UNCHANGED req
  BY DEF Listen, ReviveFails
<1>3. \A u \in Threads : Served(u)'
  BY <1>2 DEF TypeInv, Served, Spawns, Deletes, Changes, Idle
<1>4. Mapped'
  BY DEF TypeInv, Mapped, Listen, ReviveFails, Idle
<1>5. QED
  BY <1>1, <1>3, <1>4 DEF TypeInv

LEMMA CrashType == ASSUME TypeInv, Crash PROVE TypeInv'
<1>1. /\ req' \in [Threads -> Requests] /\ \A t \in Threads : req'[t] = Quiet
      /\ \A t \in Clients : Target(t) \in Manifests \cup {None}
  BY DEF TypeInv, TypeOK, Crash, Requests, Quiet, PCs, Kinds, Target, Threads
<1>2. expected' \in [Ids -> SUBSET (Manifests \cup {None})]
  BY <1>1 DEF TypeInv, TypeOK, Crash
<1>3. job' \in Seq(JobObjects) /\ Len(job') <= MaxJobs
  BY BoundsAssumption DEF Crash
<1>4. TypeOK'
  BY <1>1, <1>2, <1>3 DEF TypeInv, TypeOK, Crash
<1>5. \A t \in Threads : Served(t)'
  BY <1>1 DEF Served, Spawns, Deletes, Changes, Idle, Quiet
<1>6. Mapped'
  BY <1>1 DEF Mapped, Crash, Idle, Quiet, Threads
<1>7. QED
  BY <1>4, <1>5, <1>6 DEF TypeInv

LEMMA StutterType == ASSUME TypeInv, UNCHANGED vars PROVE TypeInv'
<1>1. TypeOK'
  BY DEF TypeInv, TypeOK, vars
<1>2. \A u \in Threads : Served(u)'
  BY DEF TypeInv, Served, Spawns, Deletes, Changes, Idle, vars
<1>3. Mapped'
  BY DEF TypeInv, Mapped, Idle, vars
<1>4. QED
  BY <1>1, <1>2, <1>3 DEF TypeInv

LEMMA NextType == TypeInv /\ [Next]_vars => TypeInv'
<1> SUFFICES ASSUME TypeInv, [Next]_vars PROVE TypeInv'
  OBVIOUS
<1>1. CASE Restarted
  BY <1>1, OpenType, ReviveType, RevivalType DEF Restarted
<1>2. CASE Crash
  BY <1>2, CrashType
<1>3. CASE \E t \in Clients : Begin(t)
  BY <1>3, BeginChangeType, BeginOtherType DEF Begin
<1>4. CASE \E t \in Triggers, kind \in {"start", "stop"}, o \in Objects : Fire(t, kind, o)
  BY <1>4, FireType
<1>5. CASE \E t \in Threads : Serve(t)
  BY <1>5, SwapType, ReplaceType, ReadyType, DbDeleteType, MapDeleteType, StartJobType,
     StopWaitsType, StopAtOnceType, StopEndsType, KillJobType, AnswerType DEF Serve
<1>6. CASE \E o \in Objects : ReadyRevived(o) \/ WorkerEnds(o) \/ MissedEnds(o)
  BY <1>6, ReadyRevivedType, WorkerEndsType, MissedEndsType
<1>7. CASE UNCHANGED vars
  BY <1>7, StutterType
<1>8. QED
  BY <1>1, <1>2, <1>3, <1>4, <1>5, <1>6, <1>7 DEF Next

\* The daemon, the map, the job objects and the requests keep their types, and
\* every index a request or the map holds is that of a job object of this life.
THEOREM TypeCorrect == Spec => []TypeOK
<1>1. TypeInv => TypeOK
  BY DEF TypeInv
<1>2. QED
  BY <1>1, InitType, NextType, PTL DEF Spec

-----------------------------------------------------------------------------
(* What the map has and what is stored *)

LEMMA ChangesSplit == \A t \in Threads : Changes(t) <=> Spawns(t) \/ Deletes(t)
BY DEF Changes, Spawns, Deletes, Idle

\* A request goes on without a change of the stores.
LEMMA StoreStays ==
    ASSUME StoreInv, TypeInv', NEW t \in Threads, Grown,
           \A u \in Threads \ {t} : req'[u] = req[u],
           UNCHANGED <<daemon, db, jobs, toRevive, lost, expected>>,
           req'[t].kind = req[t].kind, req'[t].id = req[t].id,
           req'[t].manifest = req[t].manifest, req'[t].new = req[t].new,
           \/ req[t].pc \in {"ready", "start", "kill"} /\ req'[t].pc \in {"start", "answer"}
           \/ req[t].pc = "stop" /\ req'[t].pc = "stopping"
           \/ /\ req[t].pc \in {"stop", "stopping"}
              /\ req'[t].pc = IF req[t].kind \in {"update", "launch"} THEN "replace" ELSE "answer"
    PROVE  StoreInv'
<1>1. Agreement /\ Storing /\ TypeInv
  BY DEF StoreInv
<1>2. \A u \in Clients :
        /\ Changes(u)' <=> Changes(u)
        /\ Spawns(u)' <=> Spawns(u)
        /\ Halfway(u)' <=> Halfway(u)
        /\ After(u)' <=> After(u)
        /\ Spawns(u) /\ req'[u].pc # "swap" => req[u].pc # "swap"
        /\ req'[u].id = req[u].id /\ req'[u].new = req[u].new
        /\ Target(u)' = Target(u)
  <2> SUFFICES ASSUME NEW u \in Clients
               PROVE  /\ Changes(u)' <=> Changes(u)
                      /\ Spawns(u)' <=> Spawns(u)
                      /\ Halfway(u)' <=> Halfway(u)
                      /\ After(u)' <=> After(u)
                      /\ Spawns(u) /\ req'[u].pc # "swap" => req[u].pc # "swap"
                      /\ req'[u].id = req[u].id /\ req'[u].new = req[u].new
                      /\ Target(u)' = Target(u)
    OBVIOUS
  <2>1. CASE u = t
    BY <2>1 DEF Changes, Spawns, Halfway, After, Before, Idle, Target
  <2>2. CASE u # t
    <3>1. req'[u] = req[u]
      BY <2>2 DEF Threads
    <3>2. QED
      BY <3>1 DEF Changes, Spawns, Halfway, After, Before, Idle, Target
  <2>3. QED
    BY <2>1, <2>2
<1>3. \A i \in Ids : Agree(i) => Agree(i)'
  BY <1>1 DEF Agree, Grown, TypeInv, Mapped
<1>4. Agreement'
  BY <1>1, <1>2, <1>3 DEF Agreement
<1>5. Storing'
  BY <1>1, <1>2 DEF Storing
<1>6. QED
  BY <1>4, <1>5 DEF StoreInv

LEMMA GoesOnStore ==
    ASSUME StoreInv, TypeInv', NEW t \in Threads,
           Ready(t) \/ StartJob(t) \/ StopWaits(t) \/ StopAtOnce(t) \/ StopEnds(t) \/ KillJob(t)
    PROVE  StoreInv' /\ Grown
<1>1. TypeInv /\ TypeOK /\ TypeOK'
  BY DEF StoreInv, TypeInv
<1>2. Grown
  <2>1. job \in Seq(JobObjects) /\ DOMAIN job = 1..Len(job)
    BY <1>1, Indices DEF TypeOK
  <2>2. DOMAIN job' = DOMAIN job
    BY <2>1 DEF Ready, StartJob, StopWaits, StopAtOnce, StopEnds, KillJob
  <2>3. \A o \in DOMAIN job : job[o] \in JobObjects
    BY <2>1
  <2>4. \A o \in DOMAIN job : job'[o].id = job[o].id /\ job'[o].manifest = job[o].manifest
    <3> SUFFICES ASSUME NEW o \in DOMAIN job
                 PROVE  job'[o].id = job[o].id /\ job'[o].manifest = job[o].manifest
      OBVIOUS
    <3>1. job[o] \in JobObjects
      BY <2>3
    <3>2. CASE Ready(t)
      BY <2>1, <3>1, <3>2 DEF Ready, JobObjects
    <3>3. CASE StartJob(t)
      BY <2>1, <3>1, <3>3 DEF StartJob, JobObjects
    <3>4. CASE StopWaits(t)
      BY <2>1, <3>1, <3>4 DEF StopWaits, JobObjects
    <3>5. CASE StopAtOnce(t) \/ StopEnds(t)
      BY <2>1, <3>1, <3>5 DEF StopAtOnce, StopEnds, JobObjects
    <3>6. CASE KillJob(t)
      BY <2>1, <3>1, <3>6 DEF KillJob, JobObjects
    <3>7. QED
      BY <3>2, <3>3, <3>4, <3>5, <3>6
  <2>5. QED
    BY <2>2, <2>4 DEF Grown
<1>3. UNCHANGED <<daemon, db, jobs, toRevive, lost, expected>>
  BY DEF Ready, StartJob, StopWaits, StopAtOnce, StopEnds, KillJob
<1>4. req[t] \in Requests /\ \A u \in Threads \ {t} : req'[u] = req[u]
  BY <1>1, RequestTypes DEF TypeOK, Goto, Ready, StartJob, StopWaits, StopAtOnce, StopEnds, KillJob
<1>5. /\ req'[t].kind = req[t].kind /\ req'[t].id = req[t].id
      /\ req'[t].manifest = req[t].manifest /\ req'[t].new = req[t].new
      /\ \/ req[t].pc \in {"ready", "start", "kill"} /\ req'[t].pc \in {"start", "answer"}
         \/ req[t].pc = "stop" /\ req'[t].pc = "stopping"
         \/ /\ req[t].pc \in {"stop", "stopping"}
            /\ req'[t].pc = IF req[t].kind \in {"update", "launch"} THEN "replace" ELSE "answer"
  BY <1>1, <1>4 DEF TypeOK, Requests, Goto, AfterStop,
     Ready, StartJob, StopWaits, StopAtOnce, StopEnds, KillJob
<1>6. QED
  BY <1>2, <1>3, <1>4, <1>5, StoreStays

\* The changes of other ids are not concerned by what a change does.
LEMMA ChangeStore ==
    ASSUME StoreInv, TypeInv', ChangesAlone, NEW t \in Clients, Changes(t), NEW k \in Ids, k = req[t].id, Grown,
           \A u \in Threads \ {t} : req'[u] = req[u],
           \A i \in Ids \ {k} : db'[i] = db[i] /\ jobs'[i] = jobs[i]
                                        /\ expected'[i] = expected[i],
           UNCHANGED <<daemon, toRevive, lost>>,
           (Halfway(t)' /\ req'[t].id = k) \/ Agree(k)',
           Spawns(t)' /\ req'[t].pc # "swap" => jobs'[req'[t].id] = req'[t].new,
           After(t)' => db'[req'[t].id] = Target(t)',
           (After(t)' /\ req'[t].id = k) \/ db'[k] \in expected'[k]
    PROVE  StoreInv'
<1>1. Agreement /\ Storing /\ TypeInv
  BY DEF StoreInv
<1>2. \A u \in Clients \ {t} :
        /\ Changes(u)' <=> Changes(u)
        /\ Spawns(u)' <=> Spawns(u)
        /\ Halfway(u)' <=> Halfway(u)
        /\ After(u)' <=> After(u)
        /\ req'[u] = req[u] /\ Target(u)' = Target(u)
  BY DEF Threads, Changes, Spawns, Halfway, After, Before, Idle, Target
<1>3. \A u \in Clients \ {t} : Changes(u) => req[u].id \in Ids /\ req[u].id # req[t].id
  BY <1>1, ChangesSplit DEF ChangesAlone, TypeInv, Served, Threads
<1>4. \A u \in Clients : (Spawns(u) => Changes(u)) /\ (After(u) => Changes(u)) /\ (Halfway(u) => Changes(u))
  <2>1. \A u \in Clients : req[u].pc = "mapdelete" => Deletes(u)
    BY <1>1 DEF TypeInv, Served, Threads
  <2>2. QED
    BY <2>1, ChangesSplit DEF Spawns, After, Halfway, Threads
<1>5. Agreement'
  <2>1. \A i \in Ids : \/ daemon' = "down"
                       \/ daemon' = "reviving" /\ i \in toRevive'
                       \/ \E u \in Clients : Halfway(u)' /\ req'[u].id = i
                       \/ Agree(i)'
    <3> SUFFICES ASSUME NEW i \in Ids, i # k
                 PROVE  \/ daemon' = "down"
                        \/ daemon' = "reviving" /\ i \in toRevive'
                        \/ \E u \in Clients : Halfway(u)' /\ req'[u].id = i
                        \/ Agree(i)'
      OBVIOUS
    <3>1. Agree(i) => Agree(i)'
      BY <1>1 DEF Agree, Grown, TypeInv, Mapped
    <3>2. QED
      BY <1>1, <1>2, <3>1 DEF Agreement
  <2>2. \A u \in Clients : /\ Spawns(u)' /\ req'[u].pc # "swap" => jobs'[req'[u].id] = req'[u].new
                           /\ After(u)' => db'[req'[u].id] = Target(u)'
    <3> SUFFICES ASSUME NEW u \in Clients, u # t
                 PROVE  /\ Spawns(u)' /\ req'[u].pc # "swap" => jobs'[req'[u].id] = req'[u].new
                        /\ After(u)' => db'[req'[u].id] = Target(u)'
      OBVIOUS
    <3>1. QED
      BY <1>1, <1>2, <1>3, <1>4 DEF Agreement
  <2>3. QED
    BY <2>1, <2>2 DEF Agreement
<1>6. Storing'
  <2> SUFFICES ASSUME NEW i \in Ids, i # k
               PROVE  db'[i] \in expected'[i] \/ \E u \in Clients : After(u)' /\ req'[u].id = i
    BY DEF Storing
  <2>1. QED
    BY <1>1, <1>2 DEF Storing
<1>7. QED
  BY <1>5, <1>6 DEF StoreInv

LEMMA SwapStore ==
    ASSUME StoreInv, TypeInv', ChangesAlone, NEW t \in Threads, Swap(t)
    PROVE  StoreInv'
<1>1. TypeInv /\ Agreement /\ Storing /\ TypeOK
  BY DEF StoreInv, TypeInv
<1>2. Spawns(t) /\ Changes(t) /\ t \in Clients /\ req[t].id \in Ids /\ req[t] \in Requests
  BY <1>1, RequestTypes, ChangesSplit DEF TypeInv, Served, Swap
<1>3. /\ \A u \in Threads \ {t} : req'[u] = req[u]
      /\ req'[t].pc \in {"replace", "stop"}
      /\ req'[t].kind = req[t].kind /\ req'[t].id = req[t].id /\ req'[t].new = req[t].new
      /\ jobs' = [jobs EXCEPT ![req[t].id] = req[t].new]
      /\ UNCHANGED <<daemon, db, job, toRevive, lost, expected>>
  BY <1>1, <1>2 DEF Swap, TypeOK, Requests
<1>4. jobs'[req[t].id] = req[t].new /\ (\A i \in Ids \ {req[t].id} : jobs'[i] = jobs[i]) /\ Grown
  BY <1>1, <1>2, <1>3 DEF TypeOK, Grown
<1>5. Halfway(t)' /\ ~After(t)' /\ ~After(t)
  BY <1>2, <1>3 DEF Halfway, After, Before, Spawns, Idle, Swap, Changes
<1>6. db[req[t].id] \in expected[req[t].id]
  BY <1>1, <1>2, <1>5, ChangesSplit DEF Storing, ChangesAlone, After
<1>7. QED
  BY <1>2, <1>3, <1>4, <1>5, <1>6, ChangeStore

LEMMA ReplaceStore ==
    ASSUME StoreInv, TypeInv', ChangesAlone, NEW t \in Threads, Replace(t)
    PROVE  StoreInv'
<1>1. TypeInv /\ Agreement /\ TypeOK
  BY DEF StoreInv, TypeInv
<1>2. /\ Spawns(t) /\ Changes(t) /\ t \in Clients /\ req[t].id \in Ids /\ req[t] \in Requests
      /\ req[t].new \in DOMAIN job /\ job[req[t].new].manifest = req[t].manifest
  BY <1>1, RequestTypes, ChangesSplit DEF TypeInv, Served, Replace
<1>8. PICK k \in Ids : k = req[t].id
  BY <1>2
<1>3. /\ \A u \in Threads \ {t} : req'[u] = req[u]
      /\ req'[t].pc = "ready" /\ req'[t].manifest = req[t].manifest
      /\ req'[t].kind = req[t].kind /\ req'[t].id = k /\ req'[t].new = req[t].new
      /\ db' = [db EXCEPT ![k] = req[t].manifest]
      /\ UNCHANGED <<daemon, jobs, job, toRevive, lost, expected>>
  BY <1>1, <1>2, <1>8 DEF Replace, Goto, TypeOK, Requests
<1>4. db'[k] = req[t].manifest /\ (\A i \in Ids \ {k} : db'[i] = db[i]) /\ Grown
  BY <1>1, <1>2, <1>3 DEF TypeOK, Grown
<1>5. jobs[k] = req[t].new
  BY <1>1, <1>2, <1>8 DEF Agreement, Replace
<1>6. After(t)' /\ Target(t)' = req[t].manifest
  BY <1>2, <1>3 DEF After, Before, Changes, Target, Spawns, Idle
<1>7. jobs'[k] = req[t].new /\ req[t].new # None /\ job'[req[t].new].manifest = req[t].manifest
  BY <1>1, <1>2, <1>3, <1>5, Indices
<1>9. Agree(k)'
  BY <1>4, <1>7 DEF Agree
<1>10. QED
  BY <1>1, <1>2, <1>3, <1>4, <1>5, <1>6, <1>8, <1>9, ChangeStore

LEMMA DbDeleteStore ==
    ASSUME StoreInv, TypeInv', ChangesAlone, NEW t \in Threads, DbDelete(t)
    PROVE  StoreInv'
<1>1. TypeInv /\ Agreement /\ TypeOK
  BY DEF StoreInv, TypeInv
<1>2. Deletes(t) /\ Changes(t) /\ t \in Clients /\ req[t].id \in Ids /\ req[t] \in Requests
  BY <1>1, RequestTypes, ChangesSplit DEF TypeInv, Served, DbDelete
<1>3. /\ \A u \in Threads \ {t} : req'[u] = req[u]
      /\ req'[t].pc = "mapdelete" /\ req'[t].kind = "delete" /\ req'[t].id = req[t].id
      /\ db' = [db EXCEPT ![req[t].id] = None]
      /\ UNCHANGED <<daemon, jobs, job, toRevive, lost, expected>>
  BY <1>1, <1>2 DEF DbDelete, Goto, TypeOK, Requests, Deletes
<1>4. db'[req[t].id] = None /\ (\A i \in Ids \ {req[t].id} : db'[i] = db[i]) /\ Grown
  BY <1>1, <1>2, <1>3 DEF TypeOK, Grown
<1>5. Halfway(t)' /\ After(t)' /\ ~Spawns(t)' /\ Target(t)' = None
  BY <1>3 DEF Halfway, After, Before, Changes, Target, Spawns, Idle
<1>6. QED
  BY <1>1, <1>2, <1>3, <1>4, <1>5, ChangeStore

LEMMA MapDeleteStore ==
    ASSUME StoreInv, TypeInv', ChangesAlone, NEW t \in Threads, MapDelete(t)
    PROVE  StoreInv'
<1>1. TypeInv /\ Agreement /\ TypeOK
  BY DEF StoreInv, TypeInv
<1>2. Deletes(t) /\ Changes(t) /\ t \in Clients /\ req[t].id \in Ids /\ req[t] \in Requests
  BY <1>1, RequestTypes, ChangesSplit DEF TypeInv, Served, MapDelete
<1>3. /\ \A u \in Threads \ {t} : req'[u] = req[u]
      /\ req'[t].pc \in {"answer", "stop"} /\ req'[t].kind = "delete" /\ req'[t].id = req[t].id
      /\ jobs' = [jobs EXCEPT ![req[t].id] = None]
      /\ UNCHANGED <<daemon, db, job, toRevive, lost, expected>>
  BY <1>1, <1>2 DEF MapDelete, TypeOK, Requests, Deletes
<1>4. jobs'[req[t].id] = None /\ (\A i \in Ids \ {req[t].id} : jobs'[i] = jobs[i]) /\ Grown
  BY <1>1, <1>2, <1>3 DEF TypeOK, Grown
<1>5. After(t)' /\ ~Spawns(t)' /\ Target(t)' = None
  BY <1>3 DEF After, Before, Changes, Target, Spawns, Idle
<1>6. db[req[t].id] = None
  BY <1>1, <1>2 DEF Agreement, After, Before, Spawns, Deletes, Target, MapDelete
<1>7. PICK k \in Ids : k = req[t].id
  BY <1>2
<1>8. Agree(k)'
  BY <1>3, <1>4, <1>6, <1>7 DEF Agree
<1>9. QED
  BY <1>1, <1>2, <1>3, <1>4, <1>5, <1>6, <1>7, <1>8, ChangeStore

LEMMA AnswerStore ==
    ASSUME StoreInv, TypeInv', ChangesAlone, NEW t \in Threads, Answer(t)
    PROVE  StoreInv'
<1>1. TypeInv /\ Agreement /\ Storing /\ TypeOK
  BY DEF StoreInv, TypeInv
<1>2. /\ \A u \in Threads \ {t} : req'[u] = req[u]
      /\ req'[t] = Quiet
      /\ UNCHANGED <<daemon, db, jobs, job, toRevive, lost>> /\ Grown
  BY <1>1 DEF Answer, TypeOK, Grown
<1>3. ~Halfway(t)' /\ ~After(t)' /\ ~Spawns(t)'
  BY <1>2 DEF Halfway, After, Before, Changes, Spawns, Idle, Quiet
<1>4. CASE Changes(t)
  <2>1. t \in Clients /\ req[t].id \in Ids
    BY <1>1, <1>4, ChangesSplit DEF TypeInv, Served
  <2>2. expected' = [expected EXCEPT ![req[t].id] = {Target(t)}] /\ db[req[t].id] = Target(t)
    BY <1>1, <1>4, <2>1 DEF Answer, Agreement, After, Before
  <2>3. PICK k \in Ids : k = req[t].id
    BY <2>1
  <2>4. db'[k] \in expected'[k] /\ \A i \in Ids \ {k} : expected'[i] = expected[i]
    BY <1>1, <1>2, <2>2, <2>3 DEF TypeOK
  <2>5. Agree(k)' \/ daemon = "down" \/ daemon = "reviving"
    <3>1. \A u \in Clients : Halfway(u) => Changes(u)
      BY <1>1, ChangesSplit DEF TypeInv, Served, Halfway, Threads
    <3>2. ~Halfway(t)
      BY DEF Answer, Halfway
    <3>3. Agree(k) \/ daemon = "down" \/ daemon = "reviving"
      BY <1>1, <1>4, <2>1, <2>3, <3>1, <3>2 DEF Agreement, ChangesAlone
    <3>4. QED
      BY <1>2, <3>3 DEF Agree
  <2>6. daemon = "up"
    BY <1>1, <1>4, <2>1 DEF TypeInv, TypeOK, Mapped, Changes, Idle
  <2>7. QED
    BY <1>2, <1>3, <1>4, <2>1, <2>3, <2>4, <2>5, <2>6, ChangeStore
<1>5. CASE ~Changes(t)
  <2>1. expected' = expected
    BY <1>5 DEF Answer
  <2>2. \A u \in Clients :
          /\ Spawns(u)' => Spawns(u) /\ req'[u] = req[u]
          /\ After(u)' => After(u)
          /\ req'[u].pc # "idle" => req'[u] = req[u] /\ Target(u)' = Target(u)
          /\ Halfway(u) => Halfway(u)' /\ req'[u] = req[u]
          /\ After(u) => After(u)' /\ req'[u] = req[u]
    <3> SUFFICES ASSUME NEW u \in Clients
                 PROVE  /\ Spawns(u)' => Spawns(u) /\ req'[u] = req[u]
                        /\ After(u)' => After(u)
                        /\ req'[u].pc # "idle" => req'[u] = req[u] /\ Target(u)' = Target(u)
                        /\ Halfway(u) => Halfway(u)' /\ req'[u] = req[u]
                        /\ After(u) => After(u)' /\ req'[u] = req[u]
      OBVIOUS
    <3>1. CASE u = t
      BY <1>2, <1>3, <1>5, <3>1 DEF After, Halfway, Quiet, Answer
    <3>2. CASE u # t
      <4>1. req'[u] = req[u]
        BY <1>2, <3>2 DEF Threads
      <4>2. QED
        BY <4>1 DEF Spawns, After, Before, Changes, Halfway, Idle, Target
    <3>3. QED
      BY <3>1, <3>2
  <2>3. \A i \in Ids : Agree(i) => Agree(i)'
    BY <1>2 DEF Agree
  <2>4. Agreement'
    <3>1. \A u \in Clients : After(u)' => req'[u].pc # "idle"
      BY DEF After, Changes
    <3>2. QED
      BY <1>1, <1>2, <2>2, <2>3, <3>1 DEF Agreement
  <2>5. Storing'
    BY <1>1, <1>2, <2>1, <2>2 DEF Storing
  <2>6. QED
    BY <2>4, <2>5 DEF StoreInv
<1>6. QED
  BY <1>4, <1>5

\* A request that begins changes no store yet.
LEMMA BeginStore ==
    ASSUME StoreInv, TypeInv', Grown, NEW t \in Threads, Idle(t),
           \A u \in Threads \ {t} : req'[u] = req[u],
           Spawns(t)' => req'[t].pc = "swap", Deletes(t)' => req'[t].pc = "dbdelete",
           UNCHANGED <<daemon, db, jobs, toRevive, lost, expected>>
    PROVE  StoreInv'
<1>1. Agreement /\ Storing /\ TypeInv
  BY DEF StoreInv
<1>2. ~After(t)'
  BY DEF After, Before, Changes, Spawns, Deletes, Idle
<1>3. \A u \in Clients :
        /\ (After(u)' => After(u)) /\ (After(u) => After(u)')
        /\ Halfway(u) => Halfway(u)'
        /\ (After(u) \/ Halfway(u) \/ u # t) => req'[u] = req[u] /\ Target(u)' = Target(u)
        /\ Spawns(u)' /\ req'[u].pc # "swap" => Spawns(u) /\ req'[u] = req[u]
  <2> SUFFICES ASSUME NEW u \in Clients
               PROVE  /\ (After(u)' => After(u)) /\ (After(u) => After(u)')
                      /\ Halfway(u) => Halfway(u)'
                      /\ (After(u) \/ Halfway(u) \/ u # t) => req'[u] = req[u] /\ Target(u)' = Target(u)
                      /\ Spawns(u)' /\ req'[u].pc # "swap" => Spawns(u) /\ req'[u] = req[u]
    OBVIOUS
  <2>1. CASE u = t
    BY <1>2, <2>1 DEF Halfway, After, Changes, Idle, Spawns
  <2>2. CASE u # t
    <3>1. req'[u] = req[u]
      BY <2>2 DEF Threads
    <3>2. QED
      BY <2>2, <3>1 DEF Changes, Spawns, Halfway, After, Before, Idle, Target
  <2>3. QED
    BY <2>1, <2>2
<1>4. \A i \in Ids : Agree(i) => Agree(i)'
  BY <1>1 DEF Agree, Grown, TypeInv, Mapped
<1>5. Agreement'
  BY <1>1, <1>3, <1>4 DEF Agreement
<1>6. Storing'
  BY <1>1, <1>3 DEF Storing
<1>7. QED
  BY <1>5, <1>6 DEF StoreInv

LEMMA BeginChangeStore ==
    ASSUME StoreInv, TypeInv', NEW t \in Clients, NEW kind \in Kinds, NEW i \in Ids,
           NEW m \in Manifests, BeginChange(t, kind, i, m)
    PROVE  StoreInv'
<1>1. Grown /\ t \in Threads
  BY ObjectComes DEF StoreInv, TypeInv, BeginChange, Threads
<1>2. /\ \A u \in Threads \ {t} : req'[u] = req[u]
      /\ req'[t].pc = "swap" /\ req'[t].kind \in {"update", "launch"}
  BY <1>1 DEF StoreInv, TypeInv, TypeOK, BeginChange, Quiet
<1>3. QED
  BY <1>1, <1>2, BeginStore DEF BeginChange, Idle, Deletes

LEMMA BeginOtherStore ==
    ASSUME StoreInv, TypeInv', NEW t \in Clients, NEW kind \in Kinds, NEW i \in Ids,
           BeginOther(t, kind, i)
    PROVE  StoreInv'
<1>1. Grown /\ t \in Threads
  BY DEF BeginOther, Grown, Threads
<1>2. /\ \A u \in Threads \ {t} : req'[u] = req[u]
      /\ req'[t].kind \notin {"update", "launch"}
      /\ req'[t].kind = "delete" => req'[t].pc = "dbdelete"
  BY <1>1 DEF StoreInv, TypeInv, TypeOK, BeginOther, Quiet, Kinds, FirstStep
<1>3. QED
  BY <1>1, <1>2, BeginStore DEF BeginOther, Idle, Spawns, Deletes

LEMMA FireStore ==
    ASSUME StoreInv, TypeInv', NEW t \in Triggers, NEW kind \in {"start", "stop"},
           NEW o \in Objects, Fire(t, kind, o)
    PROVE  StoreInv'
<1>1. Grown /\ t \in Threads
  BY DEF Fire, Grown, Threads
<1>2. /\ \A u \in Threads \ {t} : req'[u] = req[u]
      /\ req'[t].kind \in {"start", "stop"}
  BY <1>1 DEF StoreInv, TypeInv, TypeOK, Fire, Quiet
<1>3. QED
  BY <1>1, <1>2, BeginStore DEF Fire, Idle, Spawns, Deletes

\* Nothing but job objects changes.
LEMMA ObjectStore ==
    ASSUME StoreInv, TypeInv', Grown,
           UNCHANGED <<daemon, db, jobs, toRevive, lost, req, expected>>
    PROVE  StoreInv'
<1>1. Agreement /\ Storing /\ TypeInv
  BY DEF StoreInv
<1>2. \A i \in Ids : Agree(i) => Agree(i)'
  BY <1>1 DEF Agree, Grown, TypeInv, Mapped
<1>3. \A u \in Clients :
        /\ (After(u)' <=> After(u)) /\ (Halfway(u)' <=> Halfway(u)) /\ (Spawns(u)' <=> Spawns(u))
        /\ Target(u)' = Target(u)
  BY DEF After, Before, Changes, Spawns, Halfway, Idle, Target
<1>4. Agreement'
  BY <1>1, <1>2, <1>3 DEF Agreement
<1>5. Storing'
  BY <1>1, <1>3 DEF Storing
<1>6. QED
  BY <1>4, <1>5 DEF StoreInv

LEMMA ObjectGrown ==
    ASSUME TypeOK, NEW o \in Objects, ReadyRevived(o) \/ WorkerEnds(o) \/ MissedEnds(o)
    PROVE  Grown
<1>1. job \in Seq(JobObjects) /\ DOMAIN job = 1..Len(job) /\ o \in DOMAIN job
  BY Indices DEF TypeOK, ReadyRevived, WorkerEnds, MissedEnds
<1>2. \A p \in DOMAIN job : job[p] \in JobObjects
  BY <1>1
<1>3. CASE ReadyRevived(o)
  BY <1>1, <1>2, <1>3 DEF ReadyRevived, Grown, JobObjects
<1>4. CASE WorkerEnds(o) \/ MissedEnds(o)
  BY <1>1, <1>2, <1>4 DEF WorkerEnds, MissedEnds, Grown, JobObjects
<1>5. QED
  BY <1>3, <1>4

\* While no client is served, only the map has to agree with what is stored.
LEMMA QuietStore ==
    ASSUME StoreInv, TypeInv', \A t \in Clients : Idle(t) /\ Idle(t)',
           UNCHANGED <<db, expected>>,
           \A i \in Ids : \/ daemon' = "down"
                          \/ daemon' = "reviving" /\ i \in toRevive'
                          \/ Agree(i)'
    PROVE  StoreInv'
<1>1. \A t \in Clients : ~Spawns(t)' /\ ~After(t)' /\ ~After(t)
  BY DEF Spawns, After, Changes, Idle
<1>2. Agreement'
  BY <1>1 DEF Agreement
<1>3. Storing'
  BY <1>1 DEF Storing, StoreInv
<1>4. QED
  BY <1>2, <1>3 DEF StoreInv

LEMMA RestartedStore == ASSUME StoreInv, TypeInv', Restarted PROVE StoreInv'
<1>1. TypeInv /\ Agreement /\ TypeOK /\ daemon # "up"
  BY DEF StoreInv, TypeInv, Restarted, Open, Listen, Revive, ReviveFails
<1>2. \A t \in Clients : Idle(t) /\ Idle(t)'
  BY <1>1 DEF TypeInv, Mapped, Idle, Restarted, Open, Listen, Revive, ReviveFails
<1>3. \A t \in Clients : ~Halfway(t)
  <2>1. \A t \in Clients : t \in Threads
    BY DEF Threads
  <2>2. QED
    BY <1>2, <2>1 DEF Halfway, Spawns, Idle
<1>4. UNCHANGED <<db, expected>>
  BY DEF Restarted, Open, Listen, Revive, ReviveFails
<1>5. \A i \in Ids : \/ daemon' = "down"
                     \/ daemon' = "reviving" /\ i \in toRevive'
                     \/ Agree(i)'
  <2> SUFFICES ASSUME NEW i \in Ids
               PROVE  \/ daemon' = "down"
                      \/ daemon' = "reviving" /\ i \in toRevive'
                      \/ Agree(i)'
    OBVIOUS
  <2>1. CASE Open
    BY <1>1, <2>1 DEF Open, Agree, TypeInv, Mapped
  <2>2. CASE Listen
    BY <1>1, <1>3, <2>2 DEF Listen, Agree, Agreement
  <2>3. ASSUME NEW j \in Ids, ReviveFails(j)
        PROVE  (daemon' = "reviving" /\ i \in toRevive') \/ Agree(i)'
    BY <1>1, <1>3, <2>3 DEF ReviveFails, Agree, Agreement, TypeInv, Mapped
  <2>4. ASSUME NEW j \in Ids, Revive(j)
        PROVE  (daemon' = "reviving" /\ i \in toRevive') \/ Agree(i)'
    <3>1. db[j] \in Manifests
      BY <1>1, <2>4 DEF TypeOK, TypeInv, Mapped, Revive
    <3>2. /\ Grown /\ job'[Len(job) + 1] = Spawn(j, db[j]) /\ Len(job) + 1 \in DOMAIN job'
          /\ Len(job) + 1 # None
      BY <1>1, <2>4, <3>1, ObjectComes, NoneAssumption DEF Revive, Objects
    <3>3. /\ jobs' = [jobs EXCEPT ![j] = Len(job) + 1] /\ db' = db /\ lost' = lost
          /\ daemon = "reviving" /\ daemon' = "reviving" /\ toRevive' = toRevive \ {j}
      BY <2>4 DEF Revive
    <3>4. CASE i = j
      BY <1>1, <3>2, <3>3, <3>4 DEF TypeOK, Agree, Spawn
    <3>5. CASE i # j
      <4>1. i \in toRevive \/ Agree(i)
        BY <1>1, <1>3, <3>3 DEF Agreement
      <4>2. Agree(i) => Agree(i)'
        BY <1>1, <3>2, <3>3, <3>5 DEF TypeOK, Agree, Grown, TypeInv, Mapped
      <4>3. QED
        BY <3>3, <3>5, <4>1, <4>2
    <3>6. QED
      BY <3>4, <3>5
  <2>5. QED
    BY <2>1, <2>2, <2>3, <2>4 DEF Restarted
<1>6. QED
  BY <1>2, <1>4, <1>5, QuietStore

LEMMA CrashStore == ASSUME StoreInv, TypeInv', Crash PROVE StoreInv'
<1>1. TypeInv /\ Agreement /\ Storing
  BY DEF StoreInv
<1>2. \A t \in Clients : ~Spawns(t)' /\ ~After(t)'
  BY DEF TypeInv, Mapped, Spawns, After, Changes, Idle, Crash
<1>3. Agreement'
  BY <1>2 DEF Agreement, Crash
<1>4. Storing'
  <2> SUFFICES ASSUME NEW i \in Ids PROVE db'[i] \in expected'[i]
    BY DEF Storing
  <2>1. db' = db /\ expected'[i] = expected[i] \cup
                      {Target(t) : t \in {u \in Clients : Changes(u) /\ req[u].id = i}}
    BY DEF Crash
  <2>2. CASE db[i] \in expected[i]
    BY <2>1, <2>2
  <2>3. CASE db[i] \notin expected[i]
    <3>1. PICK t \in Clients : After(t) /\ req[t].id = i
      BY <1>1, <2>3 DEF Storing
    <3>2. Changes(t) /\ db[i] = Target(t)
      BY <1>1, <3>1 DEF After, Agreement
    <3>3. QED
      BY <2>1, <3>1, <3>2
  <2>4. QED
    BY <2>2, <2>3
<1>5. QED
  BY <1>3, <1>4 DEF StoreInv

LEMMA NextStore == ChangesAlone /\ StoreInv /\ [Next]_vars => StoreInv'
<1> SUFFICES ASSUME ChangesAlone, StoreInv, [Next]_vars PROVE StoreInv'
  OBVIOUS
<1>0. TypeInv'
  BY NextType DEF StoreInv
<1>1. CASE Restarted
  BY <1>0, <1>1, RestartedStore
<1>2. CASE Crash
  BY <1>0, <1>2, CrashStore
<1>3. CASE \E t \in Clients : Begin(t)
  BY <1>0, <1>3, BeginChangeStore, BeginOtherStore DEF Begin
<1>4. CASE \E t \in Triggers, kind \in {"start", "stop"}, o \in Objects : Fire(t, kind, o)
  BY <1>0, <1>4, FireStore
<1>5. CASE \E t \in Threads : Serve(t)
  BY <1>0, <1>5, SwapStore, ReplaceStore, DbDeleteStore, MapDeleteStore, AnswerStore, GoesOnStore DEF Serve
<1>6. CASE \E o \in Objects : ReadyRevived(o) \/ WorkerEnds(o) \/ MissedEnds(o)
  <2>1. PICK o \in Objects : ReadyRevived(o) \/ WorkerEnds(o) \/ MissedEnds(o)
    BY <1>6
  <2>2. Grown
    BY <2>1, ObjectGrown DEF StoreInv, TypeInv
  <2>3. QED
    BY <1>0, <2>1, <2>2, ObjectStore DEF ReadyRevived, WorkerEnds, MissedEnds
<1>7. CASE UNCHANGED vars
  <2>1. Grown
    BY <1>7 DEF vars, Grown
  <2>2. QED
    BY <1>0, <1>7, <2>1, ObjectStore DEF vars
<1>8. QED
  BY <1>1, <1>2, <1>3, <1>4, <1>5, <1>6, <1>7 DEF Next

LEMMA InitStore == Init => StoreInv
<1> SUFFICES ASSUME Init PROVE StoreInv
  OBVIOUS
<1>1. TypeInv
  BY InitType
<1>2. \A t \in Clients : ~Spawns(t) /\ ~After(t)
  BY DEF Init, Spawns, After, Changes, Idle, Quiet, Threads
<1>3. Agreement /\ Storing
  BY <1>2 DEF Init, Agreement, Storing
<1>4. QED
  BY <1>1, <1>3 DEF StoreInv

LEMMA StoreHolds == StoreInv => StoresAgree /\ AnsweredIsStored
<1> SUFFICES ASSUME StoreInv PROVE StoresAgree /\ AnsweredIsStored
  OBVIOUS
<1>1. TypeInv /\ Agreement /\ Storing
  BY DEF StoreInv
<1>2. StoresAgree
  <2> SUFFICES ASSUME daemon = "up", \A t \in Clients : Idle(t), NEW i \in Ids
               PROVE  IF jobs[i] = None THEN db[i] = None \/ i \in lost
                      ELSE job[jobs[i]].id = i /\ job[jobs[i]].manifest = db[i]
    BY DEF StoresAgree
  <2>1. \A t \in Clients : ~Halfway(t)
    BY DEF Halfway, Spawns, Idle
  <2>2. Agree(i)
    BY <1>1, <2>1 DEF Agreement
  <2>3. QED
    BY <1>1, <2>2 DEF Agree, TypeInv, Mapped
<1>3. AnsweredIsStored
  BY <1>1 DEF AnsweredIsStored, Storing, After
<1>4. QED
  BY <1>2, <1>3

\* Map and database hold the same ids with the same manifests whenever no request
\* is being served, crashes between any two steps included, as long as no two
\* changes of an id overlap: UpdateJob and DeleteJob take no lock of their own.
THEOREM StoresAgreeAlways == Spec /\ []ChangesAlone => []StoresAgree
<1>1. StoreInv => StoresAgree
  BY StoreHolds
<1>2. QED
  BY <1>1, InitStore, NextStore, PTL DEF Spec

\* What an answered change has stored stays stored until the next change of its
\* id, also when the daemon dies and is started again, on the same condition.
THEOREM AnsweredStaysStored == Spec /\ []ChangesAlone => []AnsweredIsStored
<1>1. StoreInv => AnsweredIsStored
  BY StoreHolds
<1>2. QED
  BY <1>1, InitStore, NextStore, PTL DEF Spec

-----------------------------------------------------------------------------
(* Old job objects and new ones *)

\* A request goes on, perhaps changing the worker of its job object.
LEMMA OrderStays ==
    ASSUME OrderInv, RequestsAlone, StoreInv', NEW t \in Threads,
           \A u \in Threads \ {t} : req'[u] = req[u],
           UNCHANGED jobs, DOMAIN job' = DOMAIN job,
           \A q \in DOMAIN job : job'[q].id = job[q].id /\ job'[q].ready = job[q].ready,
           req'[t].kind = req[t].kind, req'[t].id = req[t].id,
           req'[t].new = req[t].new, req'[t].cur = req[t].cur,
           \/ req[t].pc = "replace" /\ req'[t].pc = "ready"
           \/ req[t].pc = "dbdelete" /\ req'[t].pc = "mapdelete"
           \/ req[t].pc \in {"start", "kill"} /\ req'[t].pc = "answer"
           \/ req[t].pc = "stop" /\ req'[t].pc = "stopping" /\ job[req[t].cur].ready
           \/ /\ req[t].pc \in {"stop", "stopping"}
              /\ req'[t].pc = IF req[t].kind \in {"update", "launch"} THEN "replace" ELSE "answer",
           WorkersAreReady',
           \A q \in DOMAIN job : Running(q)' /\ ~job'[q].fired =>
               \/ jobs[job[q].id] = q
               \/ /\ Running(q) /\ ~job[q].fired
                  /\ \/ q # req[t].cur \/ req'[t].pc = "stopping"
                     \/ req[t].pc \notin {"stop", "stopping"} \/ ~Changes(t)
    PROVE  OrderInv'
<1>1. TypeInv /\ Agreement /\ Order
  BY DEF OrderInv, StoreInv
<1>2. \A u \in Threads :
        /\ (Spawns(u)' <=> Spawns(u)) /\ (Changes(u)' <=> Changes(u)) /\ (Idle(u)' <=> Idle(u))
        /\ req'[u].id = req[u].id /\ req'[u].new = req[u].new /\ req'[u].cur = req[u].cur
        /\ u # t => req'[u] = req[u] /\ (Waits(u)' <=> Waits(u))
  <2> SUFFICES ASSUME NEW u \in Threads
               PROVE  /\ (Spawns(u)' <=> Spawns(u)) /\ (Changes(u)' <=> Changes(u)) /\ (Idle(u)' <=> Idle(u))
                      /\ req'[u].id = req[u].id /\ req'[u].new = req[u].new /\ req'[u].cur = req[u].cur
                      /\ u # t => req'[u] = req[u] /\ (Waits(u)' <=> Waits(u))
    OBVIOUS
  <2>1. CASE u = t
    BY <2>1 DEF Spawns, Changes, Idle
  <2>2. CASE u # t
    <3>1. req'[u] = req[u]
      BY <2>2
    <3>2. QED
      BY <2>2, <3>1 DEF Spawns, Changes, Idle, Waits
  <2>3. QED
    BY <2>1, <2>2
<1>3. \A u \in Clients : u \in Threads
  BY DEF Threads
<1>4. \A u \in Clients, q \in DOMAIN job :
        /\ Stops(u, q)' => Stops(u, q)
        /\ Stops(u, q) => \/ Stops(u, q)'
                          \/ /\ u = t /\ q = req[t].cur /\ req[t].pc \in {"stop", "stopping"}
                             /\ Changes(t) /\ req'[t].pc # "stopping"
  <2> SUFFICES ASSUME NEW u \in Clients, NEW q \in DOMAIN job
               PROVE  /\ Stops(u, q)' => Stops(u, q)
                      /\ Stops(u, q) => \/ Stops(u, q)'
                                        \/ /\ u = t /\ q = req[t].cur
                                           /\ req[t].pc \in {"stop", "stopping"}
                                           /\ Changes(t) /\ req'[t].pc # "stopping"
    OBVIOUS
  <2>1. job'[q].id = job[q].id
    OBVIOUS
  <2>2. CASE u = t
    BY <1>2, <2>1, <2>2 DEF Stops
  <2>3. CASE u # t
    BY <1>2, <1>3, <2>1, <2>3 DEF Stops
  <2>4. QED
    BY <2>2, <2>3
<1>5. StoppedAreReady'
  <2> SUFFICES ASSUME NEW u \in Threads, req'[u].pc = "stopping" PROVE job'[req'[u].cur].ready
    BY DEF StoppedAreReady
  <2>1. job[req[u].cur].ready
    BY <1>1, <1>2 DEF Order, StoppedAreReady
  <2>2. Served(u)'
    BY DEF StoreInv, TypeInv
  <2>3. req'[u].cur \in DOMAIN job
    BY <2>2 DEF Served
  <2>4. QED
    BY <1>2, <2>1, <2>3
<1>6. NewIsUnready'
  <2> SUFFICES ASSUME NEW u \in Clients, Spawns(u)',
                      req'[u].pc \in {"swap", "stop", "stopping", "replace", "ready"}
               PROVE  ~job'[req'[u].new].ready
    BY DEF NewIsUnready
  <2>1. req[u].pc \in {"swap", "stop", "stopping", "replace", "ready"} /\ Spawns(u)
    BY <1>2, <1>3
  <2>2. ~job[req[u].new].ready /\ req[u].new \in DOMAIN job
    BY <1>1, <1>3, <2>1 DEF Order, NewIsUnready, TypeInv, Served
  <2>3. QED
    BY <1>2, <1>3, <2>2
<1>7. NewIsLast'
  BY <1>1, <1>2, <1>3 DEF Order, NewIsLast
<1>8. NewWaits'
  <2> SUFFICES ASSUME NEW o \in DOMAIN job, NEW p \in DOMAIN job, Current(o)', o < p,
                      job[o].id = job[p].id
               PROVE  \E u \in Clients : Waits(u)' /\ req'[u].new = p
    BY DEF NewWaits
  <2>1. Current(o)
    BY <1>4 DEF Current
  <2>2. PICK u \in Clients : Waits(u) /\ req[u].new = p
    BY <1>1, <2>1 DEF Order, NewWaits
  <2>3. CASE u # t
    BY <1>2, <1>3, <2>2, <2>3
  <2>4. CASE u = t /\ req'[t].pc = "stopping"
    BY <1>2, <1>3, <2>2, <2>4 DEF Waits
  <2>5. CASE u = t /\ req'[t].pc # "stopping"
    <3>1. Spawns(t) /\ Changes(t) /\ t \in Clients /\ job[p].id = req[t].id /\ req[t].pc # "swap"
      BY <1>1, <1>3, <2>2, <2>5, ChangesSplit DEF Waits, TypeInv, Served
    <3>2. jobs[job[o].id] = p
      BY <1>1, <2>2, <2>5, <3>1 DEF Agreement
    <3>3. o # p
      <4>1. DOMAIN job = 1..Len(job) /\ Len(job) \in Nat
        BY <1>1, Indices DEF TypeInv, TypeOK
      <4>2. o \in Int
        BY <4>1
      <4>3. QED
        BY <4>2
    <3>4. PICK v \in Clients : Stops(v, o)'
      BY <3>2, <3>3 DEF Current
    <3>5. v = t
      BY <1>2, <1>3, <3>1, <3>4 DEF Stops, RequestsAlone, Changes, Idle
    <3>6. QED
      BY <2>2, <2>5, <3>4, <3>5 DEF Stops
  <2>6. QED
    BY <2>3, <2>4, <2>5
<1>9. RunningIsCurrent'
  <2> SUFFICES ASSUME NEW q \in DOMAIN job, Running(q)', ~job'[q].fired PROVE Current(q)'
    BY DEF RunningIsCurrent
  <2>1. CASE jobs[job[q].id] = q
    BY <2>1 DEF Current
  <2>2. CASE jobs[job[q].id] # q
    <3>1. /\ Current(q)
          /\ \/ q # req[t].cur \/ req'[t].pc = "stopping"
             \/ req[t].pc \notin {"stop", "stopping"} \/ ~Changes(t)
      BY <1>1, <2>2 DEF Order, RunningIsCurrent
    <3>2. QED
      BY <1>4, <2>2, <3>1 DEF Current
  <2>3. QED
    BY <2>1, <2>2
<1>10. FoundInMap'
  BY <1>1, <1>2, <1>3 DEF Order, FoundInMap
<1>11. QED
  BY <1>5, <1>6, <1>7, <1>8, <1>9, <1>10 DEF OrderInv, Order

LEMMA StoredOrder ==
    ASSUME OrderInv, RequestsAlone, StoreInv', NEW t \in Threads, Replace(t) \/ DbDelete(t)
    PROVE  OrderInv'
<1>1. TypeOK /\ Order
  BY DEF OrderInv, StoreInv, TypeInv
<1>2. /\ \A u \in Threads \ {t} : req'[u] = req[u]
      /\ req'[t].kind = req[t].kind /\ req'[t].id = req[t].id
      /\ req'[t].new = req[t].new /\ req'[t].cur = req[t].cur
      /\ \/ req[t].pc = "replace" /\ req'[t].pc = "ready"
         \/ req[t].pc = "dbdelete" /\ req'[t].pc = "mapdelete"
  <2>1. req[t] \in Requests
    BY <1>1, RequestTypes
  <2>2. QED
    BY <1>1, <2>1 DEF TypeOK, Requests, Replace, DbDelete, Goto
<1>3. UNCHANGED <<jobs, job>>
  BY DEF Replace, DbDelete
<1>4. WorkersAreReady' /\ \A q \in DOMAIN job : Running(q)' => Running(q)
  BY <1>1, <1>3 DEF Order, WorkersAreReady, Running
<1>5. QED
  BY <1>2, <1>3, <1>4, OrderStays

\* What the request of a client starts is in the map.
LEMMA StartedIsInMap ==
    ASSUME OrderInv, NEW t \in Clients,
           \/ req[t].pc = "start"
           \/ req[t].kind = "restart" /\ req[t].pc \in {"stop", "stopping"}
    PROVE  jobs[job[req[t].cur].id] = req[t].cur
<1>1. TypeInv /\ Agreement /\ Order /\ t \in Threads
  BY DEF OrderInv, StoreInv, Threads
<1>2. CASE Spawns(t)
  <2>1. req[t].pc = "start" /\ req[t].cur = req[t].new /\ job[req[t].new].id = req[t].id
    BY <1>1, <1>2 DEF TypeInv, Served, Spawns
  <2>2. QED
    BY <1>1, <1>2, <2>1 DEF Agreement
<1>3. CASE ~Spawns(t)
  <2>1. ~Idle(t) /\ req[t].kind \in {"start", "restart"}
    BY <1>1, <1>3 DEF TypeInv, Served, Spawns, Idle
  <2>2. ~Changes(t) /\ req[t].pc # "answer"
    BY <2>1 DEF Changes
  <2>3. jobs[req[t].id] = req[t].cur /\ req[t].id \in Ids
    BY <1>1, <2>1, <2>2 DEF Order, FoundInMap, TypeInv, Served
  <2>4. req[t].cur \in DOMAIN job /\ req[t].cur # None
    BY <1>1, Indices DEF TypeInv, Served
  <2>5. QED
    BY <1>1, <2>3, <2>4 DEF TypeInv, Mapped
<1>4. QED
  BY <1>2, <1>3

LEMMA StartJobOrder ==
    ASSUME OrderInv, RequestsAlone, StoreInv', NEW t \in Threads, StartJob(t)
    PROVE  OrderInv'
<1> DEFINE o == req[t].cur
<1>1. TypeInv /\ TypeOK /\ Order /\ req[t] \in Requests /\ o \in DOMAIN job
  BY RequestTypes DEF OrderInv, StoreInv, TypeInv, Served, StartJob
<1>2. /\ \A u \in Threads \ {t} : req'[u] = req[u]
      /\ req'[t].kind = req[t].kind /\ req'[t].id = req[t].id
      /\ req'[t].new = req[t].new /\ req'[t].cur = req[t].cur
      /\ req[t].pc = "start" /\ req'[t].pc = "answer" /\ UNCHANGED jobs
  BY <1>1 DEF TypeOK, Requests, StartJob, Goto
<1>3. /\ DOMAIN job' = DOMAIN job
      /\ \A q \in DOMAIN job : /\ job'[q].id = job[q].id /\ job'[q].ready = job[q].ready
                               /\ job'[q] # job[q] => q = o /\ job[q].ready
                               /\ job'[q] # job[q] /\ ~job'[q].fired => t \notin Triggers
  <2>1. job \in Seq(JobObjects) /\ DOMAIN job = 1..Len(job)
    BY <1>1, Indices DEF TypeOK
  <2>2. \A q \in DOMAIN job : job[q] \in JobObjects
    BY <2>1
  <2>3. DOMAIN job' = DOMAIN job
    BY <2>1 DEF StartJob
  <2>4. ASSUME NEW q \in DOMAIN job
        PROVE  /\ job'[q].id = job[q].id /\ job'[q].ready = job[q].ready
               /\ job'[q] # job[q] => q = o /\ job[q].ready
    BY <2>1, <2>2, <2>4 DEF StartJob, JobObjects
  <2>5. ASSUME NEW q \in DOMAIN job, job'[q] # job[q], ~job'[q].fired
        PROVE  t \notin Triggers
    BY <2>1, <2>2, <2>5 DEF StartJob, JobObjects
  <2>6. QED
    BY <2>3, <2>4, <2>5
<1>4. WorkersAreReady'
  BY <1>1, <1>3 DEF Order, WorkersAreReady
<1>5. \A q \in DOMAIN job : Running(q)' /\ ~job'[q].fired =>
        jobs[job[q].id] = q \/ (Running(q) /\ ~job[q].fired)
  <2> SUFFICES ASSUME NEW q \in DOMAIN job, Running(q)', ~job'[q].fired, job'[q] # job[q]
               PROVE  jobs[job[q].id] = q
    BY DEF Running
  <2>1. q = o /\ t \in Clients
    BY <1>3 DEF Threads
  <2>2. QED
    BY <1>2, <2>1, StartedIsInMap
<1>6. QED
  BY <1>2, <1>3, <1>4, <1>5, OrderStays

LEMMA StopWaitsOrder ==
    ASSUME OrderInv, RequestsAlone, StoreInv', NEW t \in Threads, StopWaits(t)
    PROVE  OrderInv'
<1> DEFINE o == req[t].cur
<1>1. TypeInv /\ TypeOK /\ Order /\ req[t] \in Requests /\ o \in DOMAIN job
  BY RequestTypes DEF OrderInv, StoreInv, TypeInv, Served, StopWaits
<1>2. job \in Seq(JobObjects) /\ DOMAIN job = 1..Len(job) /\ \A q \in DOMAIN job : job[q] \in JobObjects
  BY <1>1, Indices DEF TypeOK
<1>3. /\ \A u \in Threads \ {t} : req'[u] = req[u]
      /\ req'[t].kind = req[t].kind /\ req'[t].id = req[t].id
      /\ req'[t].new = req[t].new /\ req'[t].cur = o
      /\ req[t].pc = "stop" /\ req'[t].pc = "stopping" /\ UNCHANGED jobs
  BY <1>1 DEF TypeOK, Requests, StopWaits, Goto
<1>4. job[o].ready /\ job[o].worker = "alive"
  BY <1>1 DEF Order, WorkersAreReady, StopWaits
<1>5. /\ DOMAIN job' = DOMAIN job
      /\ \A q \in DOMAIN job : /\ job'[q].id = job[q].id /\ job'[q].ready = job[q].ready
                               /\ job'[q].fired = job[q].fired
                               /\ q # o => job'[q] = job[q]
  BY <1>1, <1>2 DEF StopWaits, JobObjects
<1>6. WorkersAreReady'
  BY <1>1, <1>4, <1>5 DEF Order, WorkersAreReady
<1>7. \A q \in DOMAIN job : Running(q)' => Running(q)
  BY <1>4, <1>5 DEF Running
<1>8. QED
  BY <1>3, <1>4, <1>5, <1>6, <1>7, OrderStays

\* A job object that is stopped, and started again only by a restart.
LEMMA StoppedOrder ==
    ASSUME OrderInv, RequestsAlone, StoreInv', NEW t \in Threads,
           StopAtOnce(t) \/ StopEnds(t) \/ KillJob(t)
    PROVE  OrderInv'
<1> DEFINE o == req[t].cur
<1>1. TypeInv /\ TypeOK /\ Order /\ req[t] \in Requests /\ o \in DOMAIN job
  BY RequestTypes DEF OrderInv, StoreInv, TypeInv, Served, StopAtOnce, StopEnds, KillJob
<1>2. job \in Seq(JobObjects) /\ DOMAIN job = 1..Len(job) /\ \A q \in DOMAIN job : job[q] \in JobObjects
  BY <1>1, Indices DEF TypeOK
<1>3. /\ \A u \in Threads \ {t} : req'[u] = req[u]
      /\ req'[t].kind = req[t].kind /\ req'[t].id = req[t].id
      /\ req'[t].new = req[t].new /\ req'[t].cur = o /\ UNCHANGED jobs
      /\ \/ req[t].pc = "kill" /\ req'[t].pc = "answer"
         \/ /\ req[t].pc \in {"stop", "stopping"}
            /\ req'[t].pc = IF req[t].kind \in {"update", "launch"} THEN "replace" ELSE "answer"
  BY <1>1 DEF TypeOK, Requests, StopAtOnce, StopEnds, KillJob, Goto, AfterStop
<1>4. req[t].pc = "stopping" => job[o].ready
  BY <1>1 DEF Order, StoppedAreReady
<1>5. /\ DOMAIN job' = DOMAIN job
      /\ \A q \in DOMAIN job : /\ job'[q].id = job[q].id /\ job'[q].ready = job[q].ready
                               /\ q # o => job'[q] = job[q]
      /\ \/ job'[o].worker = "none"
         \/ /\ job'[o].worker = "alive" /\ job[o].ready /\ Restarts(t)
            /\ req[t].pc \in {"stop", "stopping"}
  <2>1. CASE StopAtOnce(t)
    BY <1>1, <1>2, <2>1 DEF StopAtOnce, JobObjects
  <2>2. CASE StopEnds(t)
    BY <1>1, <1>2, <1>4, <2>2 DEF StopEnds, JobObjects
  <2>3. CASE KillJob(t)
    BY <1>1, <1>2, <2>3 DEF KillJob, JobObjects
  <2>4. QED
    BY <2>1, <2>2, <2>3
<1>6. WorkersAreReady'
  BY <1>1, <1>5 DEF Order, WorkersAreReady
<1>7. \A q \in DOMAIN job : Running(q)' =>
        \/ jobs[job[q].id] = q
        \/ Running(q) /\ job'[q] = job[q] /\ q # o
  <2> SUFFICES ASSUME NEW q \in DOMAIN job, Running(q)', q = o PROVE jobs[job[q].id] = q
    BY <1>5 DEF Running
  <2>1. Restarts(t) /\ req[t].pc \in {"stop", "stopping"}
    BY <1>5 DEF Running
  <2>2. t \in Clients /\ req[t].kind = "restart"
    BY <1>1, <2>1 DEF Restarts, TypeInv, Served
  <2>3. QED
    BY <2>1, <2>2, StartedIsInMap
<1>8. QED
  BY <1>3, <1>5, <1>6, <1>7, OrderStays

LEMMA AnswerOrder ==
    ASSUME OrderInv, StoreInv', NEW t \in Threads, Answer(t)
    PROVE  OrderInv'
<1>1. TypeInv /\ TypeOK /\ Order
  BY DEF OrderInv, StoreInv, TypeInv
<1>2. /\ \A u \in Threads \ {t} : req'[u] = req[u]
      /\ req'[t] = Quiet /\ UNCHANGED <<jobs, job>>
  BY <1>1 DEF Answer, TypeOK
<1>3. \A u \in Threads :
        /\ Spawns(u)' \/ req'[u].pc # "idle" => req'[u] = req[u]
        /\ Waits(u)' <=> Waits(u)
        /\ Waits(u) => req'[u] = req[u]
        /\ \A q \in DOMAIN job : Stops(u, q)' <=> Stops(u, q)
  <2> SUFFICES ASSUME NEW u \in Threads
               PROVE  /\ Spawns(u)' \/ req'[u].pc # "idle" => req'[u] = req[u]
                      /\ Waits(u)' <=> Waits(u)
                      /\ Waits(u) => req'[u] = req[u]
                      /\ \A q \in DOMAIN job : Stops(u, q)' <=> Stops(u, q)
    OBVIOUS
  <2>1. CASE u = t
    BY <1>2, <2>1 DEF Answer, Quiet, Spawns, Waits, Stops, Idle, Changes
  <2>2. CASE u # t
    <3>1. req'[u] = req[u]
      BY <1>2, <2>2
    <3>2. QED
      BY <1>2, <3>1 DEF Spawns, Waits, Stops, Idle, Changes
  <2>3. QED
    BY <2>1, <2>2
<1>4. \A u \in Clients : u \in Threads
  BY DEF Threads
<1>5. \A q \in DOMAIN job : Current(q)' <=> Current(q)
  BY <1>2, <1>3, <1>4 DEF Current
<1>6. WorkersAreReady'
  BY <1>1, <1>2 DEF Order, WorkersAreReady
<1>7. StoppedAreReady'
  BY <1>1, <1>2, <1>3 DEF Order, StoppedAreReady
<1>8. NewIsUnready' /\ NewIsLast'
  <2>1. \A u \in Clients : Spawns(u)' => Spawns(u) /\ req'[u] = req[u]
    BY <1>3, <1>4 DEF Spawns, Idle
  <2>2. QED
    BY <1>1, <1>2, <2>1 DEF Order, NewIsUnready, NewIsLast
<1>9. NewWaits'
  BY <1>1, <1>2, <1>3, <1>4, <1>5 DEF Order, NewWaits
<1>10. RunningIsCurrent'
  BY <1>1, <1>2, <1>5 DEF Order, RunningIsCurrent, Running
<1>11. FoundInMap'
  BY <1>1, <1>2, <1>3, <1>4 DEF Order, FoundInMap, Idle, Changes
<1>12. QED
  BY <1>6, <1>7, <1>8, <1>9, <1>10, <1>11 DEF OrderInv, Order

LEMMA ReadyOrder ==
    ASSUME OrderInv, RequestsAlone, StoreInv', NEW t \in Threads, Ready(t)
    PROVE  OrderInv'
<1>1. TypeInv /\ TypeOK /\ Order /\ req[t] \in Requests
  BY RequestTypes DEF OrderInv, StoreInv, TypeInv
<1>2. /\ t \in Clients /\ Spawns(t) /\ Changes(t) /\ req[t].new \in DOMAIN job
      /\ job[req[t].new].id = req[t].id /\ req[t].id \in Ids
  BY <1>1, ChangesSplit DEF TypeInv, Served, Ready
<1>3. /\ \A u \in Threads \ {t} : req'[u] = req[u]
      /\ req'[t].kind = req[t].kind /\ req'[t].id = req[t].id /\ req'[t].new = req[t].new
      /\ req[t].pc = "ready" /\ req'[t].pc \in {"start", "answer"} /\ UNCHANGED jobs
  BY <1>1 DEF TypeOK, Requests, Ready
<1>4. /\ DOMAIN job' = DOMAIN job
      /\ \A q \in DOMAIN job : /\ job'[q].id = job[q].id /\ job'[q].worker = job[q].worker
                               /\ job'[q].fired = job[q].fired
                               /\ q # req[t].new => job'[q] = job[q]
                               /\ job[q].ready => job'[q].ready
  <2>1. job \in Seq(JobObjects) /\ DOMAIN job = 1..Len(job) /\ \A q \in DOMAIN job : job[q] \in JobObjects
    BY <1>1, Indices DEF TypeOK
  <2>2. QED
    BY <1>2, <2>1 DEF Ready, JobObjects
<1>5. \A u \in Clients : u \in Threads
  BY DEF Threads
<1>6. \A u \in Clients :
        /\ Waits(u)' <=> Waits(u)
        /\ Waits(u) => req'[u] = req[u]
        /\ \A q \in DOMAIN job : Stops(u, q)' <=> Stops(u, q)
        /\ Spawns(u)' => Spawns(u) /\ req'[u].id = req[u].id /\ req'[u].new = req[u].new
        /\ req'[u] = req[u] \/ (u = t /\ Changes(u)')
  <2> SUFFICES ASSUME NEW u \in Clients
               PROVE  /\ Waits(u)' <=> Waits(u)
                      /\ Waits(u) => req'[u] = req[u]
                      /\ \A q \in DOMAIN job : Stops(u, q)' <=> Stops(u, q)
                      /\ Spawns(u)' => Spawns(u) /\ req'[u].id = req[u].id /\ req'[u].new = req[u].new
                      /\ req'[u] = req[u] \/ (u = t /\ Changes(u)')
    OBVIOUS
  <2>1. CASE u = t
    BY <1>2, <1>3, <2>1 DEF Spawns, Waits, Stops, Idle, Changes
  <2>2. CASE u # t
    <3>1. req'[u] = req[u]
      BY <1>3, <1>5, <2>2
    <3>2. QED
      BY <1>4, <3>1 DEF Spawns, Waits, Stops, Idle, Changes
  <2>3. QED
    BY <2>1, <2>2
<1>7. \A q \in DOMAIN job : Current(q)' <=> Current(q)
  BY <1>3, <1>4, <1>6 DEF Current
<1>8. WorkersAreReady'
  BY <1>1, <1>4 DEF Order, WorkersAreReady
<1>9. StoppedAreReady'
  <2> SUFFICES ASSUME NEW u \in Threads, req'[u].pc = "stopping" PROVE job'[req'[u].cur].ready
    BY DEF StoppedAreReady
  <2>1. req'[u] = req[u]
    BY <1>3
  <2>2. job[req[u].cur].ready /\ req[u].cur \in DOMAIN job
    BY <1>1, <2>1 DEF Order, StoppedAreReady, TypeInv, Served
  <2>3. QED
    BY <1>4, <2>1, <2>2
<1>10. NewIsUnready'
  <2> SUFFICES ASSUME NEW u \in Clients, Spawns(u)',
                      req'[u].pc \in {"swap", "stop", "stopping", "replace", "ready"}
               PROVE  ~job'[req'[u].new].ready
    BY DEF NewIsUnready
  <2>1. u # t /\ req'[u] = req[u] /\ Spawns(u)
    BY <1>3, <1>6
  <2>2. ~job[req[u].new].ready /\ req[u].new \in DOMAIN job /\ job[req[u].new].id = req[u].id
    BY <1>1, <1>5, <2>1 DEF Order, NewIsUnready, TypeInv, Served
  <2>3. req[u].id # req[t].id
    BY <1>2, <2>1 DEF RequestsAlone, Spawns
  <2>4. QED
    BY <1>2, <1>4, <2>1, <2>2, <2>3
<1>11. NewIsLast'
  BY <1>1, <1>4, <1>6 DEF Order, NewIsLast
<1>12. NewWaits'
  BY <1>1, <1>4, <1>6, <1>7 DEF Order, NewWaits
<1>13. RunningIsCurrent'
  BY <1>1, <1>4, <1>7 DEF Order, RunningIsCurrent, Running
<1>14. FoundInMap'
  BY <1>1, <1>3, <1>6 DEF Order, FoundInMap, Idle, Changes
<1>15. QED
  BY <1>8, <1>9, <1>10, <1>11, <1>12, <1>13, <1>14 DEF OrderInv, Order

\* A change takes the job object of its id out of the map and will stop it.
LEMMA TakenOutOrder ==
    ASSUME OrderInv, RequestsAlone, StoreInv', NEW t \in Threads, Swap(t) \/ MapDelete(t)
    PROVE  OrderInv'
<1>1. TypeInv /\ TypeOK /\ Order /\ Agreement /\ req[t] \in Requests
  BY RequestTypes DEF OrderInv, StoreInv, TypeInv
<1>2. t \in Clients /\ Changes(t) /\ req[t].id \in Ids /\ (req[t].pc = "swap" <=> Spawns(t))
  BY <1>1, ChangesSplit DEF TypeInv, Served, Swap, MapDelete, Spawns, Deletes
<1>3. PICK k \in Ids : k = req[t].id
  BY <1>2
<1> DEFINE old == jobs[k]
<1>4. /\ \A u \in Threads \ {t} : req'[u] = req[u]
      /\ req'[t].kind = req[t].kind /\ req'[t].id = k /\ req'[t].new = req[t].new
      /\ req'[t].cur = old
      /\ IF old = None THEN req'[t].pc \in {"replace", "answer"} ELSE req'[t].pc = "stop"
      /\ req[t].pc \in {"swap", "mapdelete"}
      /\ \A i \in Ids : i # k => jobs'[i] = jobs[i]
      /\ jobs'[k] = IF Spawns(t) THEN req[t].new ELSE None
      /\ UNCHANGED job
  BY <1>1, <1>2, <1>3 DEF TypeOK, Requests, Swap, MapDelete
<1>5. /\ \A u \in Clients : u \in Threads
      /\ \A u \in Clients : ~Idle(u) /\ u # t => req[u].id # k
      /\ \A o \in DOMAIN job : job[o].id \in Ids /\ o # None
      /\ Spawns(t) => req[t].new \in DOMAIN job /\ job[req[t].new].id = k
  <2>1. \A o \in DOMAIN job : job[o] \in JobObjects
    BY <1>1, Indices DEF TypeOK
  <2>2. QED
    BY <1>1, <1>2, <1>3, <2>1, Indices DEF Threads, RequestsAlone, JobObjects, TypeInv, Served
<1>6. \A u \in Clients :
        /\ Spawns(u)' <=> Spawns(u)
        /\ req'[u].id = req[u].id /\ req'[u].new = req[u].new /\ req'[u].kind = req[u].kind
        /\ u # t => req'[u] = req[u] /\ (Waits(u)' <=> Waits(u)) /\ (Idle(u)' <=> Idle(u))
        /\ Changes(u)' <=> Changes(u)
        /\ u # t => \A q \in DOMAIN job : Stops(u, q)' <=> Stops(u, q)
  <2> SUFFICES ASSUME NEW u \in Clients
               PROVE  /\ Spawns(u)' <=> Spawns(u)
                      /\ req'[u].id = req[u].id /\ req'[u].new = req[u].new /\ req'[u].kind = req[u].kind
                      /\ u # t => req'[u] = req[u] /\ (Waits(u)' <=> Waits(u)) /\ (Idle(u)' <=> Idle(u))
                      /\ Changes(u)' <=> Changes(u)
                      /\ u # t => \A q \in DOMAIN job : Stops(u, q)' <=> Stops(u, q)
    OBVIOUS
  <2>1. CASE u = t
    BY <1>3, <1>4, <2>1 DEF Spawns, Idle, Changes
  <2>2. CASE u # t
    <3>1. req'[u] = req[u]
      BY <1>4, <1>5, <2>2
    <3>2. QED
      BY <1>4, <2>2, <3>1 DEF Spawns, Waits, Stops, Idle, Changes
  <2>3. QED
    BY <2>1, <2>2
<1>7. \A q \in DOMAIN job : Stops(t, q)' <=> (q = old /\ job[q].id = k)
  BY <1>2, <1>4, <1>5, <1>6 DEF Stops
<1>8. \A q \in DOMAIN job : job[q].id # k => (Current(q)' <=> Current(q))
  <2> SUFFICES ASSUME NEW q \in DOMAIN job, job[q].id # k PROVE Current(q)' <=> Current(q)
    OBVIOUS
  <2>1. ~Stops(t, q) /\ ~Stops(t, q)'
    BY <1>3, <1>7 DEF Stops
  <2>2. \A u \in Clients : Stops(u, q)' <=> Stops(u, q)
    BY <1>6, <2>1
  <2>3. jobs'[job[q].id] = jobs[job[q].id] /\ job'[q] = job[q]
    BY <1>4, <1>5
  <2>4. QED
    BY <2>2, <2>3 DEF Current
<1>9. \A q \in DOMAIN job : job[q].id = k =>
        /\ Current(q) => q = old
        /\ q = old => Current(q) /\ Current(q)'
        /\ Current(q)' => q = old \/ (Spawns(t) /\ q = req[t].new)
  <2> SUFFICES ASSUME NEW q \in DOMAIN job, job[q].id = k
               PROVE  /\ Current(q) => q = old
                      /\ q = old => Current(q) /\ Current(q)'
                      /\ Current(q)' => q = old \/ (Spawns(t) /\ q = req[t].new)
    OBVIOUS
  <2>1. \A u \in Clients : ~Stops(u, q)
    BY <1>3, <1>4, <1>5 DEF Stops, Changes, Idle
  <2>2. \A u \in Clients : Stops(u, q)' => u = t
    BY <1>6, <2>1
  <2>3. Current(q) <=> q = old
    BY <2>1 DEF Current
  <2>4. Current(q)' => q = old \/ (Spawns(t) /\ q = req[t].new)
    BY <1>4, <1>5, <1>7, <2>2 DEF Current
  <2>5. q = old => Current(q)'
    BY <1>2, <1>7 DEF Current
  <2>6. QED
    BY <2>3, <2>4, <2>5
<1>10. WorkersAreReady'
  BY <1>1, <1>4 DEF Order, WorkersAreReady
<1>11. StoppedAreReady'
  BY <1>1, <1>4 DEF Order, StoppedAreReady
<1>12. NewIsUnready'
  <2> SUFFICES ASSUME NEW u \in Clients, Spawns(u)',
                      req'[u].pc \in {"swap", "stop", "stopping", "replace", "ready"}
               PROVE  ~job'[req'[u].new].ready
    BY DEF NewIsUnready
  <2>1. Spawns(u) /\ req[u].pc \in {"swap", "stop", "stopping", "replace", "ready"}
    BY <1>2, <1>6
  <2>2. QED
    BY <1>1, <1>4, <1>6, <2>1 DEF Order, NewIsUnready
<1>13. NewIsLast'
  BY <1>1, <1>4, <1>6 DEF Order, NewIsLast
<1>14. NewWaits'
  <2> SUFFICES ASSUME NEW o \in DOMAIN job, NEW p \in DOMAIN job, Current(o)', o < p,
                      job[o].id = job[p].id
               PROVE  \E u \in Clients : Waits(u)' /\ req'[u].new = p
    BY <1>4 DEF NewWaits
  <2>1. CASE job[o].id # k
    <3>1. PICK u \in Clients : Waits(u) /\ req[u].new = p
      BY <1>1, <1>8, <2>1 DEF Order, NewWaits
    <3>2. u # t
      BY <1>2, <1>5, <2>1, <3>1 DEF Waits
    <3>3. QED
      BY <1>6, <3>1, <3>2
  <2>2. CASE job[o].id = k /\ o = old
    <3>1. PICK u \in Clients : Waits(u) /\ req[u].new = p
      BY <1>1, <1>9, <2>2 DEF Order, NewWaits
    <3>2. job[p].id = req[u].id /\ ~Idle(u)
      BY <1>1, <1>5, <3>1 DEF TypeInv, Served, Waits, Spawns
    <3>3. u = t
      BY <1>5, <2>2, <3>2
    <3>4. req'[t].pc = "stop" /\ Spawns(t)'
      BY <1>4, <1>5, <1>6, <2>2, <3>1, <3>3 DEF Waits
    <3>5. QED
      BY <1>6, <3>1, <3>3, <3>4 DEF Waits
  <2>3. CASE job[o].id = k /\ Spawns(t) /\ o = req[t].new
    <3>1. p <= o
      BY <1>1, <1>2, <1>3, <2>3 DEF Order, NewIsLast
    <3>2. o \in Int /\ p \in Int
      <4>1. DOMAIN job = 1..Len(job) /\ Len(job) \in Nat
        BY <1>1, Indices DEF TypeOK
      <4>2. QED
        BY <4>1
    <3>3. QED
      BY <3>1, <3>2
  <2>4. QED
    BY <1>9, <2>1, <2>2, <2>3
<1>15. RunningIsCurrent'
  <2> SUFFICES ASSUME NEW q \in DOMAIN job, Running(q), ~job[q].fired PROVE Current(q)'
    BY <1>4 DEF RunningIsCurrent, Running
  <2>1. Current(q)
    BY <1>1 DEF Order, RunningIsCurrent
  <2>2. QED
    BY <1>8, <1>9, <2>1
<1>16. FoundInMap'
  <2> SUFFICES ASSUME NEW u \in Clients, ~Idle(u)', ~Changes(u)', req'[u].pc # "answer"
               PROVE  jobs'[req'[u].id] = req'[u].cur
    BY DEF FoundInMap
  <2>1. u # t /\ req'[u] = req[u] /\ ~Idle(u) /\ ~Changes(u)
    BY <1>2, <1>6
  <2>2. jobs[req[u].id] = req[u].cur /\ req[u].id \in Ids
    BY <1>1, <1>5, <2>1 DEF Order, FoundInMap, TypeInv, Served
  <2>3. QED
    BY <1>4, <1>5, <2>1, <2>2
<1>17. QED
  BY <1>10, <1>11, <1>12, <1>13, <1>14, <1>15, <1>16 DEF OrderInv, Order

\* A request that finds its job object begins.
LEMMA FindsOrder ==
    ASSUME OrderInv, StoreInv', NEW t \in Threads, Idle(t),
           \A u \in Threads \ {t} : req'[u] = req[u],
           req'[t].kind \notin {"update", "launch"}, req'[t].pc # "stopping",
           req'[t].kind = "delete" => req'[t].pc = "dbdelete",
           t \in Clients => jobs[req'[t].id] = req'[t].cur,
           UNCHANGED <<jobs, job>>
    PROVE  OrderInv'
<1>1. TypeInv /\ TypeOK /\ Order
  BY DEF OrderInv, StoreInv, TypeInv
<1>2. \A u \in Threads :
        /\ Spawns(u)' => Spawns(u) /\ req'[u] = req[u]
        /\ Waits(u)' <=> Waits(u)
        /\ Waits(u) => req'[u] = req[u]
        /\ \A q \in DOMAIN job : Stops(u, q)' <=> Stops(u, q)
  <2> SUFFICES ASSUME NEW u \in Threads
               PROVE  /\ Spawns(u)' => Spawns(u) /\ req'[u] = req[u]
                      /\ Waits(u)' <=> Waits(u)
                      /\ Waits(u) => req'[u] = req[u]
                      /\ \A q \in DOMAIN job : Stops(u, q)' <=> Stops(u, q)
    OBVIOUS
  <2>1. CASE u = t
    BY <2>1 DEF Spawns, Waits, Stops, Idle, Changes
  <2>2. CASE u # t
    <3>1. req'[u] = req[u]
      BY <2>2
    <3>2. QED
      BY <3>1 DEF Spawns, Waits, Stops, Idle, Changes
  <2>3. QED
    BY <2>1, <2>2
<1>3. \A u \in Clients : u \in Threads
  BY DEF Threads
<1>4. \A q \in DOMAIN job : Current(q)' <=> Current(q)
  BY <1>2, <1>3 DEF Current
<1>5. WorkersAreReady'
  BY <1>1 DEF Order, WorkersAreReady
<1>6. StoppedAreReady'
  BY <1>1 DEF Order, StoppedAreReady
<1>7. NewIsUnready' /\ NewIsLast'
  BY <1>1, <1>2, <1>3 DEF Order, NewIsUnready, NewIsLast
<1>8. NewWaits'
  BY <1>1, <1>2, <1>3, <1>4 DEF Order, NewWaits
<1>9. RunningIsCurrent'
  BY <1>1, <1>4 DEF Order, RunningIsCurrent, Running
<1>10. FoundInMap'
  <2> SUFFICES ASSUME NEW u \in Clients, ~Idle(u)', ~Changes(u)', req'[u].pc # "answer"
               PROVE  jobs[req'[u].id] = req'[u].cur
    BY DEF FoundInMap
  <2>1. CASE u # t
    <3>1. req'[u] = req[u]
      BY <1>3, <2>1
    <3>2. QED
      BY <1>1, <3>1 DEF Order, FoundInMap, Idle, Changes
  <2>2. QED
    BY <2>1
<1>11. QED
  BY <1>5, <1>6, <1>7, <1>8, <1>9, <1>10 DEF OrderInv, Order

LEMMA BeginOtherOrder ==
    ASSUME OrderInv, StoreInv', NEW t \in Clients, NEW kind \in Kinds, NEW i \in Ids,
           BeginOther(t, kind, i)
    PROVE  OrderInv'
<1>1. t \in Threads /\ TypeOK
  BY DEF Threads, OrderInv, StoreInv, TypeInv
<1>2. /\ \A u \in Threads \ {t} : req'[u] = req[u]
      /\ req'[t].kind = kind /\ req'[t].pc = FirstStep(kind)
      /\ req'[t].id = i /\ req'[t].cur = jobs[i]
  BY <1>1 DEF TypeOK, BeginOther, Quiet
<1>3. kind \notin {"update", "launch"} /\ FirstStep(kind) # "stopping"
      /\ (kind = "delete" => FirstStep(kind) = "dbdelete")
  BY DEF BeginOther, Kinds, FirstStep
<1>4. Idle(t) /\ UNCHANGED <<jobs, job>>
  BY DEF BeginOther, Idle
<1>5. QED
  BY <1>1, <1>2, <1>3, <1>4, FindsOrder

LEMMA FireOrder ==
    ASSUME OrderInv, StoreInv', NEW t \in Triggers, NEW kind \in {"start", "stop"},
           NEW o \in Objects, Fire(t, kind, o)
    PROVE  OrderInv'
<1>1. t \in Threads /\ t \notin Clients /\ TypeOK
  BY ThreadsAssumption DEF Threads, OrderInv, StoreInv, TypeInv
<1>2. /\ \A u \in Threads \ {t} : req'[u] = req[u]
      /\ req'[t].kind = kind /\ req'[t].pc = kind
  BY <1>1 DEF TypeOK, Fire, Quiet
<1>3. Idle(t) /\ UNCHANGED <<jobs, job>>
  BY DEF Fire, Idle
<1>4. QED
  BY <1>1, <1>2, <1>3, FindsOrder

\* A new job object of an id whose changes are no one else's.
LEMMA BeginChangeOrder ==
    ASSUME OrderInv, RequestsAlone', StoreInv', NEW t \in Clients, NEW kind \in Kinds, NEW i \in Ids,
           NEW m \in Manifests, BeginChange(t, kind, i, m)
    PROVE  OrderInv'
<1> DEFINE n == Len(job) + 1
<1>1. TypeInv /\ TypeOK /\ Order /\ t \in Threads /\ Idle(t)
  BY DEF OrderInv, StoreInv, TypeInv, Threads, BeginChange, Idle
<1>2. /\ DOMAIN job' = DOMAIN job \cup {n} /\ n \notin DOMAIN job /\ n \in Objects
      /\ \A p \in DOMAIN job : job'[p] = job[p] /\ p < n
      /\ job'[n] = Spawn(i, m)
  BY <1>1, ObjectComes DEF BeginChange
<1>3. /\ \A u \in Threads \ {t} : req'[u] = req[u]
      /\ req'[t].pc = "swap" /\ req'[t].kind \in {"update", "launch"}
      /\ req'[t].id = i /\ req'[t].new = n /\ req'[t].cur = None /\ UNCHANGED jobs
  BY <1>1 DEF TypeOK, BeginChange, Quiet
<1>4. Spawns(t)' /\ Waits(t)' /\ Changes(t)' /\ ~Spawns(t) /\ ~Waits(t)
  BY <1>1, <1>3 DEF Spawns, Waits, Changes, Idle
<1>5. \A u \in Clients : u \in Threads /\ (u # t => req'[u] = req[u])
  BY <1>3 DEF Threads
<1>6. \A u \in Clients : u # t =>
        /\ Spawns(u)' <=> Spawns(u)
        /\ Waits(u)' <=> Waits(u)
        /\ Idle(u)' <=> Idle(u)
        /\ Changes(u)' <=> Changes(u)
  BY <1>5 DEF Spawns, Waits, Idle, Changes
<1>7. \A u \in Clients : u # t /\ ~Idle(u) => req[u].id # i
  BY <1>3, <1>4, <1>5, <1>6 DEF RequestsAlone
<1>8. \A u \in Clients, q \in DOMAIN job : Stops(u, q)' <=> Stops(u, q)
  <2> SUFFICES ASSUME NEW u \in Clients, NEW q \in DOMAIN job PROVE Stops(u, q)' <=> Stops(u, q)
    OBVIOUS
  <2>1. CASE u = t
    BY <1>1, <1>3, <2>1 DEF Stops, Changes, Idle
  <2>2. CASE u # t
    BY <1>2, <1>5, <1>6, <2>2 DEF Stops
  <2>3. QED
    BY <2>1, <2>2
<1>9. \A q \in DOMAIN job : Current(q)' <=> Current(q)
  BY <1>2, <1>3, <1>8 DEF Current
<1>10. WorkersAreReady'
  BY <1>1, <1>2 DEF Order, WorkersAreReady, Spawn
<1>11. StoppedAreReady'
  <2> SUFFICES ASSUME NEW u \in Threads, req'[u].pc = "stopping" PROVE job'[req'[u].cur].ready
    BY DEF StoppedAreReady
  <2>1. u # t /\ req'[u] = req[u]
    BY <1>3
  <2>2. job[req[u].cur].ready /\ req[u].cur \in DOMAIN job
    BY <1>1, <2>1 DEF Order, StoppedAreReady, TypeInv, Served
  <2>3. QED
    BY <1>2, <2>1, <2>2
<1>12. NewIsUnready'
  <2> SUFFICES ASSUME NEW u \in Clients, Spawns(u)',
                      req'[u].pc \in {"swap", "stop", "stopping", "replace", "ready"}
               PROVE  ~job'[req'[u].new].ready
    BY DEF NewIsUnready
  <2>1. CASE u = t
    BY <1>2, <1>3, <2>1 DEF Spawn
  <2>2. CASE u # t
    <3>1. ~job[req[u].new].ready /\ req[u].new \in DOMAIN job
      BY <1>1, <1>5, <1>6, <2>2 DEF Order, NewIsUnready, TypeInv, Served
    <3>2. QED
      BY <1>2, <1>5, <2>2, <3>1
  <2>3. QED
    BY <2>1, <2>2
<1>13. NewIsLast'
  <2> SUFFICES ASSUME NEW u \in Clients, Spawns(u)', NEW q \in DOMAIN job', job'[q].id = req'[u].id
               PROVE  q <= req'[u].new
    BY DEF NewIsLast
  <2>1. CASE u = t
    <3>1. DOMAIN job = 1..Len(job) /\ Len(job) \in Nat
      BY <1>1, Indices DEF TypeOK
    <3>2. QED
      BY <1>2, <1>3, <2>1, <3>1
  <2>2. CASE u # t
    <3>1. Spawns(u) /\ ~Idle(u) /\ req'[u] = req[u]
      BY <1>5, <1>6, <2>2 DEF Spawns
    <3>2. q # n
      BY <1>2, <1>7, <2>2, <3>1 DEF Spawn
    <3>3. QED
      BY <1>1, <1>2, <3>1, <3>2 DEF Order, NewIsLast
  <2>3. QED
    BY <2>1, <2>2
<1>14. NewWaits'
  <2> SUFFICES ASSUME NEW o \in DOMAIN job', NEW p \in DOMAIN job', Current(o)', o < p,
                      job'[o].id = job'[p].id
               PROVE  \E u \in Clients : Waits(u)' /\ req'[u].new = p
    BY DEF NewWaits
  <2>1. o \in DOMAIN job
    <3>1. DOMAIN job = 1..Len(job) /\ Len(job) \in Nat
      BY <1>1, Indices DEF TypeOK
    <3>2. QED
      BY <1>2, <3>1
  <2>2. CASE p = n
    BY <1>3, <1>4, <2>2
  <2>3. CASE p \in DOMAIN job
    <3>1. PICK u \in Clients : Waits(u) /\ req[u].new = p
      BY <1>1, <1>2, <1>9, <2>1, <2>3 DEF Order, NewWaits
    <3>2. QED
      BY <1>4, <1>5, <1>6, <3>1
  <2>4. QED
    BY <1>2, <2>2, <2>3
<1>15. RunningIsCurrent'
  <2> SUFFICES ASSUME NEW q \in DOMAIN job', Running(q)', ~job'[q].fired PROVE Current(q)'
    BY DEF RunningIsCurrent
  <2>1. q \in DOMAIN job /\ job'[q] = job[q]
    BY <1>2 DEF Running, Spawn
  <2>2. QED
    BY <1>1, <1>9, <2>1 DEF Order, RunningIsCurrent, Running
<1>16. FoundInMap'
  BY <1>1, <1>3, <1>4, <1>5, <1>6 DEF Order, FoundInMap
<1>17. QED
  BY <1>10, <1>11, <1>12, <1>13, <1>14, <1>15, <1>16 DEF OrderInv, Order

\* Job objects change by themselves: a worker ends, a revived job gets ready.
LEMMA ObjectOrder ==
    ASSUME OrderInv, StoreInv', NEW o \in Objects, ReadyRevived(o) \/ WorkerEnds(o) \/ MissedEnds(o)
    PROVE  OrderInv'
<1>1. TypeInv /\ TypeOK /\ Order /\ o \in DOMAIN job
  BY DEF OrderInv, StoreInv, TypeInv, ReadyRevived, WorkerEnds, MissedEnds
<1>2. job \in Seq(JobObjects) /\ DOMAIN job = 1..Len(job) /\ \A q \in DOMAIN job : job[q] \in JobObjects
  BY <1>1, Indices DEF TypeOK
<1>3. /\ DOMAIN job' = DOMAIN job /\ UNCHANGED <<req, jobs>>
      /\ \A q \in DOMAIN job : /\ job'[q].id = job[q].id /\ job'[q].fired = job[q].fired
                               /\ job[q].ready => job'[q].ready
                               /\ Running(q)' => Running(q)
                               /\ ~job'[q].ready => job'[q].worker = job[q].worker \/ Running(q)
                               /\ job'[q].ready # job[q].ready => \A t \in Clients : req[t].new # q
  BY <1>1, <1>2 DEF ReadyRevived, WorkerEnds, MissedEnds, JobObjects, Running
<1>4. \A u \in Clients : u \in Threads /\ (Spawns(u)' <=> Spawns(u)) /\ (Waits(u)' <=> Waits(u))
                         /\ (Idle(u)' <=> Idle(u)) /\ (Changes(u)' <=> Changes(u))
  BY <1>3 DEF Threads, Spawns, Waits, Idle, Changes
<1>5. \A q \in DOMAIN job : Current(q)' <=> Current(q)
  BY <1>3, <1>4 DEF Current, Stops
<1>6. WorkersAreReady'
  <2> SUFFICES ASSUME NEW q \in DOMAIN job, ~job'[q].ready PROVE job'[q].worker = "none"
    BY <1>3 DEF WorkersAreReady
  <2>1. ~job[q].ready /\ job[q].worker = "none"
    BY <1>1, <1>3 DEF Order, WorkersAreReady
  <2>2. QED
    BY <1>3, <2>1 DEF Running
<1>7. StoppedAreReady'
  <2> SUFFICES ASSUME NEW u \in Threads, req[u].pc = "stopping" PROVE job'[req[u].cur].ready
    BY <1>3 DEF StoppedAreReady
  <2>1. job[req[u].cur].ready /\ req[u].cur \in DOMAIN job
    BY <1>1 DEF Order, StoppedAreReady, TypeInv, Served
  <2>2. QED
    BY <1>3, <2>1
<1>8. NewIsUnready'
  <2> SUFFICES ASSUME NEW u \in Clients, Spawns(u),
                      req[u].pc \in {"swap", "stop", "stopping", "replace", "ready"}
               PROVE  ~job'[req[u].new].ready
    BY <1>3, <1>4 DEF NewIsUnready
  <2>1. ~job[req[u].new].ready /\ req[u].new \in DOMAIN job
    BY <1>1, <1>4 DEF Order, NewIsUnready, TypeInv, Served
  <2>2. QED
    BY <1>3, <2>1
<1>9. NewIsLast'
  BY <1>1, <1>3, <1>4 DEF Order, NewIsLast
<1>10. NewWaits'
  BY <1>1, <1>3, <1>4, <1>5 DEF Order, NewWaits
<1>11. RunningIsCurrent'
  BY <1>1, <1>3, <1>5 DEF Order, RunningIsCurrent
<1>12. FoundInMap'
  BY <1>1, <1>3, <1>4 DEF Order, FoundInMap
<1>13. QED
  BY <1>6, <1>7, <1>8, <1>9, <1>10, <1>11, <1>12 DEF OrderInv, Order

LEMMA SameOrder ==
    ASSUME OrderInv, StoreInv', UNCHANGED <<jobs, job, req>>
    PROVE  OrderInv'
<1>1. Order
  BY DEF OrderInv
<1>2. \A u \in Clients : (Spawns(u)' <=> Spawns(u)) /\ (Waits(u)' <=> Waits(u))
                         /\ (Idle(u)' <=> Idle(u)) /\ (Changes(u)' <=> Changes(u))
  BY DEF Spawns, Waits, Idle, Changes
<1>3. \A q \in DOMAIN job : Current(q)' <=> Current(q)
  BY <1>2 DEF Current, Stops
<1>4. WorkersAreReady' /\ StoppedAreReady' /\ NewIsUnready' /\ NewIsLast' /\ FoundInMap'
  BY <1>1, <1>2 DEF Order, WorkersAreReady, StoppedAreReady, NewIsUnready, NewIsLast, FoundInMap
<1>5. NewWaits' /\ RunningIsCurrent'
  BY <1>1, <1>2, <1>3 DEF Order, NewWaits, RunningIsCurrent, Running
<1>6. QED
  BY <1>4, <1>5 DEF OrderInv, Order

LEMMA ReviveOrder ==
    ASSUME OrderInv, StoreInv', NEW i \in Ids, Revive(i)
    PROVE  OrderInv'
<1> DEFINE n == Len(job) + 1
<1>1. TypeInv /\ TypeOK /\ Order
  BY DEF OrderInv, StoreInv, TypeInv
<1>2. db[i] \in Manifests /\ jobs[i] = None /\ \A u \in Clients : Idle(u)
  BY <1>1 DEF Revive, TypeInv, TypeOK, Mapped
<1>3. /\ DOMAIN job' = DOMAIN job \cup {n} /\ n \notin DOMAIN job
      /\ \A p \in DOMAIN job : job'[p] = job[p] /\ p < n
      /\ job'[n] = Spawn(i, db[i])
  BY <1>1, <1>2, ObjectComes DEF Revive
<1>4. /\ \A j \in Ids : jobs'[j] = IF j = i THEN n ELSE jobs[j]
      /\ UNCHANGED req
  BY <1>1 DEF Revive, TypeOK
<1>5. DOMAIN job = 1..Len(job) /\ Len(job) \in Nat /\ None \notin DOMAIN job
      /\ \A q \in DOMAIN job : job[q].id \in Ids
  <2>1. \A q \in DOMAIN job : job[q] \in JobObjects
    BY <1>1, Indices DEF TypeOK
  <2>2. QED
    BY <1>1, <2>1, Indices DEF TypeOK, JobObjects
<1>6. \A u \in Clients : Idle(u)' /\ ~Spawns(u)' /\ ~Changes(u)' /\ ~Changes(u)
  BY <1>2, <1>4 DEF Idle, Spawns, Changes
<1>7. \A q \in DOMAIN job : /\ Current(q) <=> jobs[job[q].id] = q
                            /\ Current(q)' <=> jobs'[job[q].id] = q
  BY <1>3, <1>6 DEF Current, Stops
<1>8. \A q \in DOMAIN job : /\ Current(q) => job[q].id # i
                            /\ Current(q)' <=> Current(q)
  BY <1>2, <1>4, <1>5, <1>7, <1>3
<1>9. WorkersAreReady'
  BY <1>1, <1>3 DEF Order, WorkersAreReady, Spawn
<1>10. StoppedAreReady'
  <2> SUFFICES ASSUME NEW u \in Threads, req[u].pc = "stopping" PROVE job'[req[u].cur].ready
    BY <1>4 DEF StoppedAreReady
  <2>1. job[req[u].cur].ready /\ req[u].cur \in DOMAIN job
    BY <1>1 DEF Order, StoppedAreReady, TypeInv, Served
  <2>2. QED
    BY <1>3, <2>1
<1>11. NewIsUnready' /\ NewIsLast' /\ FoundInMap'
  BY <1>6 DEF NewIsUnready, NewIsLast, FoundInMap
<1>12. NewWaits'
  <2> SUFFICES ASSUME NEW o \in DOMAIN job', NEW p \in DOMAIN job', Current(o)', o < p,
                      job'[o].id = job'[p].id
               PROVE  FALSE
    BY DEF NewWaits
  <2>1. o \in DOMAIN job
    BY <1>3, <1>5
  <2>2. CASE p = n
    BY <1>3, <1>8, <2>1, <2>2 DEF Spawn
  <2>3. CASE p \in DOMAIN job
    <3>1. PICK u \in Clients : Waits(u) /\ req[u].new = p
      BY <1>1, <1>3, <1>8, <2>1, <2>3 DEF Order, NewWaits
    <3>2. QED
      BY <1>2, <3>1 DEF Waits, Spawns
  <2>4. QED
    BY <1>3, <2>2, <2>3
<1>13. RunningIsCurrent'
  <2> SUFFICES ASSUME NEW q \in DOMAIN job', Running(q)', ~job'[q].fired PROVE Current(q)'
    BY DEF RunningIsCurrent
  <2>1. q \in DOMAIN job /\ job'[q] = job[q]
    BY <1>3 DEF Running, Spawn
  <2>2. QED
    BY <1>1, <1>8, <2>1 DEF Order, RunningIsCurrent, Running
<1>14. QED
  BY <1>9, <1>10, <1>11, <1>12, <1>13 DEF OrderInv, Order

LEMMA CrashOrder ==
    ASSUME OrderInv, StoreInv', Crash
    PROVE  OrderInv'
<1>1. job' = <<>> /\ \A t \in Threads : req'[t] = Quiet
  BY DEF Crash
<1>2. \A t \in Clients : t \in Threads
  BY DEF Threads
<1>3. \A t \in Threads : req'[t].pc = "idle"
  BY <1>1 DEF Quiet
<1>4. \A t \in Clients : ~Spawns(t)' /\ Idle(t)'
  BY <1>2, <1>3 DEF Spawns, Idle
<1>5. DOMAIN job' = {}
  BY <1>1
<1>6. QED
  BY <1>3, <1>4, <1>5 DEF OrderInv, Order, WorkersAreReady, StoppedAreReady, NewIsUnready, NewIsLast,
     NewWaits, RunningIsCurrent, FoundInMap

LEMMA InitOrder == Init => OrderInv
<1> SUFFICES ASSUME Init PROVE OrderInv
  OBVIOUS
<1>1. DOMAIN job = {} /\ \A t \in Threads : req[t].pc = "idle"
  BY DEF Init, Quiet
<1>2. \A t \in Clients : ~Spawns(t) /\ Idle(t)
  BY <1>1 DEF Spawns, Idle, Threads
<1>3. QED
  BY <1>1, <1>2, InitStore DEF OrderInv, Order, WorkersAreReady, StoppedAreReady, NewIsUnready,
     NewIsLast, NewWaits, RunningIsCurrent, FoundInMap

LEMMA NextOrder == RequestsAlone /\ RequestsAlone' /\ OrderInv /\ [Next]_vars => OrderInv'
<1> SUFFICES ASSUME RequestsAlone, RequestsAlone', OrderInv, [Next]_vars PROVE OrderInv'
  OBVIOUS
<1>1. ChangesAlone
  BY DEF RequestsAlone, ChangesAlone, Changes, Idle
<1>2. StoreInv'
  BY <1>1, NextStore DEF OrderInv
<1>3. CASE Restarted
  <2>1. CASE Open \/ Listen \/ \E i \in Ids : ReviveFails(i)
    BY <1>2, <2>1, SameOrder DEF Open, Listen, ReviveFails
  <2>2. CASE \E i \in Ids : Revive(i)
    BY <1>2, <2>2, ReviveOrder
  <2>3. QED
    BY <1>3, <2>1, <2>2 DEF Restarted
<1>4. CASE Crash
  BY <1>2, <1>4, CrashOrder
<1>5. CASE \E t \in Clients : Begin(t)
  BY <1>2, <1>5, BeginChangeOrder, BeginOtherOrder DEF Begin
<1>6. CASE \E t \in Triggers, kind \in {"start", "stop"}, o \in Objects : Fire(t, kind, o)
  BY <1>2, <1>6, FireOrder
<1>7. CASE \E t \in Threads : Serve(t)
  BY <1>2, <1>7, TakenOutOrder, StoredOrder, ReadyOrder, StartJobOrder, StopWaitsOrder,
     StoppedOrder, AnswerOrder DEF Serve
<1>8. CASE \E o \in Objects : ReadyRevived(o) \/ WorkerEnds(o) \/ MissedEnds(o)
  BY <1>2, <1>8, ObjectOrder
<1>9. CASE UNCHANGED vars
  BY <1>2, <1>9, SameOrder DEF vars
<1>10. QED
  BY <1>3, <1>4, <1>5, <1>6, <1>7, <1>8, <1>9 DEF Next

LEMMA OrderHolds == OrderInv => NewAfterOld
<1> SUFFICES ASSUME OrderInv, NEW o \in DOMAIN job, Running(o), ~job[o].fired
             PROVE  /\ \A p \in DOMAIN job : o < p /\ job[o].id = job[p].id => ~Running(p)
                    /\ (\A t \in Threads : Idle(t)) => jobs[job[o].id] = o
  BY DEF NewAfterOld
<1>1. TypeInv /\ Order /\ Current(o)
  BY DEF OrderInv, StoreInv, Order, RunningIsCurrent
<1>2. ASSUME NEW p \in DOMAIN job, o < p, job[o].id = job[p].id
      PROVE  ~Running(p)
  <2>1. PICK t \in Clients : Waits(t) /\ req[t].new = p
    BY <1>1, <1>2 DEF Order, NewWaits
  <2>2. ~job[p].ready
    BY <1>1, <2>1 DEF Order, NewIsUnready, Waits
  <2>3. job[p].worker = "none"
    BY <1>1, <2>2 DEF Order, WorkersAreReady
  <2>4. QED
    BY <2>3 DEF Running
<1>3. ASSUME \A t \in Threads : Idle(t)
      PROVE  jobs[job[o].id] = o
  BY <1>1, <1>3 DEF Current, Stops, Changes, Idle, Threads
<1>4. QED
  BY <1>2, <1>3

\* A job's new object does not run while the one before it still does, unless a
\* trigger has started that again, and what runs is in the map, as long as no
\* client's request overlaps with a change of its id: UpdateJob waits for the
\* worker of the job it has swapped out before it makes the new one ready.
THEOREM NewRunsAfterOld == Spec /\ []RequestsAlone => []NewAfterOld
<1>1. OrderInv => NewAfterOld
  BY OrderHolds
<1>2. QED
  BY <1>1, InitOrder, NextOrder, PTL DEF Spec

\* With one client, whatever the triggers do, nothing overlaps with a change: a
\* user who waits for every answer has all three, crashes included.
COROLLARY OneClient ==
    ASSUME \A t, u \in Clients : t = u
    PROVE  Spec => [](StoresAgree /\ AnsweredIsStored /\ NewAfterOld)
<1>1. ChangesAlone /\ RequestsAlone
  BY DEF ChangesAlone, RequestsAlone
<1>2. QED
  BY <1>1, StoresAgreeAlways, AnsweredStaysStored, NewRunsAfterOld, PTL

-----------------------------------------------------------------------------
(***************************************************************************)
(* Every request is answered.  A request that waits for a mutex waits for  *)
(* another that waits for a worker, and for no mutex: HoldersWait.         *)
(***************************************************************************)
\* Whoever has the mutex of a job object waits for the worker of that object.
HoldersWait ==
    \A o \in DOMAIN job : job[o].lock # None =>
        req[job[o].lock].pc = "stopping" /\ req[job[o].lock].cur = o

\* Whoever waits for a worker has the mutex of its job object.
WaitersHold ==
    \A t \in Threads : req[t].pc = "stopping" => job[req[t].cur].lock = t

LockInv == TypeInv /\ HoldersWait /\ WaitersHold

\* Request u takes a mutex to wait with it, and lets go of it when it goes on; of
\* a job object whose mutex another has, it leaves the worker alone.
LEMMA LockStep ==
    ASSUME LockInv, NEW u \in Threads, Serve(u)
    PROVE  /\ DOMAIN job' = DOMAIN job
           /\ \A t \in Threads : t # u => req'[t] = req[t]
           /\ req'[u].pc = "stopping" => job'[req'[u].cur].lock = u
           /\ \A o \in DOMAIN job :
                \/ /\ job'[o].lock = job[o].lock /\ job[o].lock # u
                   /\ job[o].lock # None => job'[o].worker = job[o].worker
                \/ job[o].lock = u /\ job'[o].lock = None
                \/ job[o].lock = None /\ job'[o].lock = u /\ req'[u].pc = "stopping" /\ req'[u].cur = o
<1> USE DEF LockInv, TypeInv
<1>1. /\ req \in [Threads -> Requests] /\ u # None
      /\ \A o \in DOMAIN job : job[o] \in JobObjects
  BY Indices, NoneAssumption DEF TypeOK, Threads
<1>2. \A t \in Threads : t # u => req'[t] = req[t]
  BY <1>1 DEF Serve, Swap, Replace, Ready, DbDelete, MapDelete, StartJob, StopWaits, StopAtOnce, StopEnds,
     KillJob, Answer, Goto
<1>3. ASSUME req[u].pc # "stopping", NEW o \in DOMAIN job PROVE job[o].lock # u
  BY <1>1, <1>3 DEF HoldersWait
<1>4. CASE Swap(u) \/ Replace(u) \/ DbDelete(u) \/ MapDelete(u) \/ Answer(u)
  <2>1. req'[u].pc # "stopping" /\ req[u].pc # "stopping"
    BY <1>1, <1>4 DEF Swap, Replace, DbDelete, MapDelete, Answer, Goto, Quiet, Requests
  <2>2. QED
    BY <1>1, <1>2, <1>3, <1>4, <2>1 DEF Swap, Replace, DbDelete, MapDelete, Answer
<1>5. CASE Ready(u)
  <2>1. req'[u].pc # "stopping" /\ req[u].pc # "stopping"
    BY <1>1, <1>5 DEF Ready, Requests
  <2>2. QED
    BY <1>1, <1>2, <1>3, <1>5, <2>1 DEF Ready, JobObjects
<1>6. CASE StartJob(u) \/ StopAtOnce(u) \/ KillJob(u)
  <2>1. req'[u].pc # "stopping" /\ req[u].pc # "stopping"
    BY <1>1, <1>6 DEF StartJob, StopAtOnce, KillJob, Goto, AfterStop, Requests
  <2>2. \A o \in DOMAIN job : \/ job'[o] = job[o]
                              \/ job[o].lock = None /\ job'[o].lock = None
    BY <1>1, <1>6 DEF StartJob, StopAtOnce, KillJob, JobObjects, Free
  <2>3. DOMAIN job' = DOMAIN job
    BY <1>1, <1>6 DEF StartJob, StopAtOnce, KillJob
  <2>4. QED
    BY <1>1, <1>2, <1>3, <2>1, <2>2, <2>3
<1>7. CASE StopWaits(u)
  <2> DEFINE o == req[u].cur
  <2>1. req'[u].pc = "stopping" /\ req'[u].cur = o /\ req[u].pc = "stop"
    BY <1>1, <1>7 DEF StopWaits, Goto, Requests
  <2>2. PICK w \in {"stopping", "missed"} :
           job' = [job EXCEPT ![o].worker = w, ![o].lock = u]
    BY <1>7 DEF StopWaits
  <2>3. o \in DOMAIN job /\ job[o].lock = None
    BY <1>7, <2>1 DEF StopWaits, Free, Served
  <2>4. /\ DOMAIN job' = DOMAIN job /\ job'[o].lock = u
        /\ \A p \in DOMAIN job : p # o => job'[p] = job[p]
    BY <1>1, <2>2, <2>3 DEF JobObjects
  <2>5. QED
    BY <1>1, <1>2, <1>3, <2>1, <2>3, <2>4
<1>8. CASE StopEnds(u)
  <2> DEFINE o == req[u].cur
  <2>1. req'[u].pc # "stopping" /\ req[u].pc = "stopping"
    BY <1>1, <1>8 DEF StopEnds, Goto, AfterStop, Requests
  <2>2. o \in DOMAIN job /\ job[o].lock = u
    BY <2>1 DEF WaitersHold, Served
  <2>3. /\ DOMAIN job' = DOMAIN job /\ job'[o].lock = None
        /\ \A p \in DOMAIN job : p # o => job'[p] = job[p]
    <3>1. job' = [job EXCEPT ![o].worker = IF Restarts(u) THEN "alive" ELSE "none",
                             ![o].fired = FALSE, ![o].lock = None]
      BY <1>8 DEF StopEnds
    <3>2. PICK w : w = IF Restarts(u) THEN "alive" ELSE "none"
      OBVIOUS
    <3>3. job' = [job EXCEPT ![o].worker = w, ![o].fired = FALSE, ![o].lock = None]
      BY <3>1, <3>2
    <3>4. job[o] \in JobObjects
      BY <1>1, <2>2
    <3>5. QED
      BY <2>2, <3>3, <3>4 DEF JobObjects
  <2>4. \A p \in DOMAIN job : p # o => job[p].lock # u
    BY <1>1, <2>1 DEF HoldersWait
  <2>5. QED
    BY <1>1, <1>2, <2>1, <2>2, <2>3, <2>4
<1>9. QED
  BY <1>4, <1>5, <1>6, <1>7, <1>8 DEF Serve

\* What is so of a job object whose mutex is held: it is its holder's until it is
\* free, and the worker its holder waits for does not miss a stop any more.
Kept(o) ==
    /\ o \in DOMAIN job'
    /\ job[o].lock # None =>
         \/ job'[o].lock = None
         \/ job'[o].lock = job[o].lock /\ (job'[o].worker = "missed" => job[o].worker = "missed")

\* A step that takes no mutex and waits for no worker.
SameMutexes ==
    /\ \A o \in DOMAIN job : /\ o \in DOMAIN job' /\ job'[o].lock = job[o].lock
                             /\ job'[o].worker = "missed" => job[o].worker = "missed"
    /\ \A o \in DOMAIN job' : o \in DOMAIN job \/ job'[o].lock = None
SameWaiters ==
    \A t \in Threads : \/ req'[t] = req[t]
                       \/ req[t].pc = "idle" /\ req'[t].pc # "stopping"

LEMMA MutexesStay ==
    ASSUME LockInv, SameMutexes, SameWaiters
    PROVE  HoldersWait' /\ WaitersHold' /\ \A o \in DOMAIN job : Kept(o)
<1>1. /\ None \notin Threads
      /\ \A o \in DOMAIN job : job[o].lock \in Threads \cup {None}
      /\ \A t \in Threads : req[t].pc = "stopping" => req[t].cur \in DOMAIN job
  <2>1. TypeOK /\ \A o \in DOMAIN job : job[o] \in JobObjects
    BY Indices DEF LockInv, TypeInv, TypeOK
  <2>2. \A t \in Threads : req[t].pc = "stopping" => req[t].cur \in DOMAIN job
    BY DEF LockInv, TypeInv, Served
  <2>3. QED
    BY <2>1, <2>2, NoneAssumption DEF JobObjects, Threads
<1>2. HoldersWait /\ WaitersHold
  BY DEF LockInv
<1>3. HoldersWait'
  BY <1>1, <1>2 DEF HoldersWait, SameMutexes, SameWaiters
<1>4. WaitersHold'
  BY <1>1, <1>2 DEF WaitersHold, SameMutexes, SameWaiters
<1>5. QED
  BY <1>3, <1>4 DEF Kept, SameMutexes

LEMMA ComesFree ==
    ASSUME TypeOK, NEW i \in Ids, NEW m \in Manifests, Len(job) < MaxJobs, job' = Append(job, Spawn(i, m))
    PROVE  SameMutexes
BY ObjectComes DEF Spawn, SameMutexes

\* The mutex of o, once q has it, is q's until it is free, or the daemon crashes.
LEMMA LocksStep ==
    ASSUME LockInv, [Next]_vars
    PROVE  /\ HoldersWait' /\ WaitersHold'
           /\ \/ job' = <<>> /\ \A t \in Threads : req'[t].pc = "idle"
              \/ \A o \in DOMAIN job : Kept(o)
<1>1. /\ TypeInv /\ TypeOK /\ HoldersWait /\ WaitersHold
      /\ req \in [Threads -> Requests] /\ None \notin Threads
      /\ \A o \in DOMAIN job : job[o] \in JobObjects
      /\ \A t \in Threads : req[t].pc = "stopping" => req[t].cur \in DOMAIN job
  BY Indices, NoneAssumption DEF LockInv, TypeInv, TypeOK, Threads, Served
<1>2. UNCHANGED job => SameMutexes
  BY DEF SameMutexes
<1>3. UNCHANGED req => SameWaiters
  BY DEF SameWaiters
<1>5. CASE \E u \in Threads : Serve(u)
  <2>1. PICK u \in Threads : Serve(u)
    BY <1>5
  <2>2. /\ DOMAIN job' = DOMAIN job
        /\ \A t \in Threads : t # u => req'[t] = req[t]
        /\ req'[u].pc = "stopping" => job'[req'[u].cur].lock = u
        /\ \A o \in DOMAIN job :
             \/ /\ job'[o].lock = job[o].lock /\ job[o].lock # u
                /\ job[o].lock # None => job'[o].worker = job[o].worker
             \/ job[o].lock = u /\ job'[o].lock = None
             \/ job[o].lock = None /\ job'[o].lock = u /\ req'[u].pc = "stopping" /\ req'[u].cur = o
    BY <2>1, LockStep
  <2>3. HoldersWait'
    BY <1>1, <2>2 DEF HoldersWait, JobObjects
  <2>4. WaitersHold'
    BY <1>1, <2>1, <2>2 DEF WaitersHold
  <2>5. \A o \in DOMAIN job : Kept(o)
    BY <2>2 DEF Kept
  <2>6. QED
    BY <2>3, <2>4, <2>5
<1>6. CASE Crash
  <2>1. job' = <<>> /\ \A t \in Threads : req'[t].pc = "idle"
    BY <1>6 DEF Crash, Quiet
  <2>2. QED
    BY <2>1 DEF HoldersWait, WaitersHold
<1>7. ASSUME Restarted PROVE SameMutexes /\ SameWaiters
  <2>1. UNCHANGED req
    BY <1>7 DEF Restarted, Open, Listen, Revive, ReviveFails
  <2>2. CASE \E i \in Ids : Revive(i)
    <3>1. PICK i \in Ids : Revive(i)
      BY <2>2
    <3>2. db[i] \in Manifests /\ Len(job) < MaxJobs /\ job' = Append(job, Spawn(i, db[i]))
      BY <1>1, <3>1 DEF Revive, TypeInv, Mapped, TypeOK
    <3>3. QED
      BY <1>1, <1>3, <2>1, <3>2, ComesFree
  <2>3. QED
    BY <1>2, <1>3, <1>7, <2>1, <2>2 DEF Restarted, Open, Listen, ReviveFails
<1>8. ASSUME NEW t \in Clients, Begin(t) PROVE SameMutexes /\ SameWaiters
  <2>1. \A kind \in Kinds \ {"update", "launch"} : FirstStep(kind) # "stopping"
    BY DEF FirstStep, Kinds
  <2>2. PICK i \in Ids, kind \in Kinds :
           (\E m \in Manifests : BeginChange(t, kind, i, m)) \/ BeginOther(t, kind, i)
    BY <1>8 DEF Begin
  <2>3. /\ \A u \in Threads : u # t => req'[u] = req[u]
        /\ req[t].pc = "idle" /\ req'[t].pc # "stopping"
    BY <1>1, <2>1, <2>2 DEF BeginChange, BeginOther, Quiet, Threads
  <2>4. SameWaiters
    BY <2>3 DEF SameWaiters
  <2>5. CASE BeginOther(t, kind, i)
    BY <1>2, <2>4, <2>5 DEF BeginOther
  <2>6. CASE \E m \in Manifests : BeginChange(t, kind, i, m)
    BY <1>1, <2>4, <2>6, ComesFree DEF BeginChange
  <2>7. QED
    BY <2>2, <2>5, <2>6
<1>9. ASSUME NEW t \in Triggers, NEW kind \in {"start", "stop"}, NEW o \in Objects, Fire(t, kind, o)
      PROVE  SameMutexes /\ SameWaiters
  <2>1. /\ \A u \in Threads : u # t => req'[u] = req[u]
        /\ req[t].pc = "idle" /\ req'[t].pc # "stopping" /\ UNCHANGED job
    BY <1>1, <1>9 DEF Fire, Quiet, Threads
  <2>2. QED
    BY <1>2, <2>1 DEF SameWaiters
<1>10. ASSUME NEW o \in Objects, ReadyRevived(o) \/ WorkerEnds(o) \/ MissedEnds(o)
       PROVE  SameMutexes /\ SameWaiters
  <2>1. /\ DOMAIN job' = DOMAIN job /\ UNCHANGED req
        /\ \A p \in DOMAIN job : /\ job'[p].lock = job[p].lock
                                 /\ job'[p].worker = "missed" => job[p].worker = "missed"
    BY <1>1, <1>10 DEF ReadyRevived, WorkerEnds, MissedEnds, JobObjects
  <2>2. QED
    BY <1>3, <2>1 DEF SameMutexes
<1>11. UNCHANGED vars => SameMutexes /\ SameWaiters
  BY <1>2, <1>3 DEF vars
<1>12. SameMutexes /\ SameWaiters => HoldersWait' /\ WaitersHold' /\ \A o \in DOMAIN job : Kept(o)
  BY MutexesStay
<1>13. QED
  BY <1>5, <1>6, <1>7, <1>8, <1>9, <1>10, <1>11, <1>12 DEF Next


LEMMA LockInvariance == Spec => []LockInv
<1>1. Init => LockInv
  BY InitType DEF LockInv, HoldersWait, WaitersHold, Init, Quiet
<1>2. LockInv /\ [Next]_vars => LockInv'
  BY NextType, LocksStep DEF LockInv
<1>3. QED
  BY <1>1, <1>2, PTL DEF Spec

\* The steps of a handler, in their order.
Follows(l, m) ==
    CASE l = "swap" -> m \in {"stop", "replace"}
      [] l = "dbdelete" -> m = "mapdelete"
      [] l = "mapdelete" -> m \in {"stop", "answer"}
      [] l = "stop" -> m \in {"stopping", "replace", "answer"}
      [] l = "stopping" -> m \in {"replace", "answer"}
      [] l = "replace" -> m = "ready"
      [] l = "ready" -> m \in {"start", "answer"}
      [] l \in {"start", "kill"} -> m = "answer"
      [] l = "answer" -> m = "idle"

LEMMA HandlerStep ==
    ASSUME LockInv, NEW t \in Threads, ~Idle(t)
    PROVE  /\ Serve(t) => Follows(req[t].pc, req'[t].pc)
           /\ [Next]_vars => \/ Follows(req[t].pc, req'[t].pc)
                             \/ req'[t] = req[t]
                             \/ req'[t].pc = "idle"
<1> USE DEF LockInv, TypeInv
<1>1. req \in [Threads -> Requests] /\ req[t] \in Requests
  BY DEF TypeOK
<1>2. Serve(t) => Follows(req[t].pc, req'[t].pc)
  <2>1. Swap(t) => req[t].pc = "swap" /\ req'[t].pc \in {"stop", "replace"}
    BY <1>1 DEF Swap, Requests
  <2>2. /\ Replace(t) => req[t].pc = "replace" /\ req'[t].pc = "ready"
        /\ DbDelete(t) => req[t].pc = "dbdelete" /\ req'[t].pc = "mapdelete"
    BY <1>1 DEF Replace, DbDelete, Goto, Requests
  <2>3. Ready(t) => req[t].pc = "ready" /\ req'[t].pc \in {"start", "answer"}
    BY <1>1 DEF Ready, Requests
  <2>4. MapDelete(t) => req[t].pc = "mapdelete" /\ req'[t].pc \in {"stop", "answer"}
    BY <1>1 DEF MapDelete, Requests
  <2>5. StartJob(t) \/ KillJob(t) => req[t].pc \in {"start", "kill"} /\ req'[t].pc = "answer"
    BY <1>1 DEF StartJob, KillJob, Goto, Requests
  <2>6. StopWaits(t) => req[t].pc = "stop" /\ req'[t].pc = "stopping"
    BY <1>1 DEF StopWaits, Goto, Requests
  <2>7. /\ StopAtOnce(t) => req[t].pc = "stop" /\ req'[t].pc \in {"replace", "answer"}
        /\ StopEnds(t) => req[t].pc = "stopping" /\ req'[t].pc \in {"replace", "answer"}
    BY <1>1 DEF StopAtOnce, StopEnds, Goto, AfterStop, Requests
  <2>8. Answer(t) => req[t].pc = "answer" /\ req'[t].pc = "idle"
    BY <1>1 DEF Answer, Quiet
  <2>9. QED
    BY <2>1, <2>2, <2>3, <2>4, <2>5, <2>6, <2>7, <2>8 DEF Serve, Follows
<1>3. ASSUME NEW u \in Threads, Serve(u), u # t PROVE req'[t] = req[t]
  BY <1>3, LockStep
<1>4. Crash => req'[t].pc = "idle"
  BY DEF Crash, Quiet
<1>5. ASSUME \/ Restarted
             \/ \E u \in Clients : Begin(u)
             \/ \E u \in Triggers, kind \in {"start", "stop"}, o \in Objects : Fire(u, kind, o)
             \/ \E o \in Objects : ReadyRevived(o) \/ WorkerEnds(o) \/ MissedEnds(o)
             \/ UNCHANGED vars
      PROVE  req'[t] = req[t]
  BY <1>1, <1>5 DEF Restarted, Open, Listen, Revive, ReviveFails, Begin, BeginChange, BeginOther, Fire,
     ReadyRevived, WorkerEnds, MissedEnds, vars, Idle, Threads
<1>6. QED
  BY <1>2, <1>3, <1>4, <1>5 DEF Next


\* The hypothesis RequestsGoOn, which TLC checks as an invariant, for one request.
LEMMA AllRequestsGoOn == ASSUME NEW t \in Threads PROVE RequestsGoOn => GoesOn(t)
BY DEF RequestsGoOn

\* The handler wants the mutex of the job object it has found.
Contends(t) == req[t].pc \in {"start", "stop", "kill"}

\* The worker that the handler waits for, or whose end the holder of the mutex it
\* wants waits for, has missed its stop.
Missed(t) == job[req[t].cur].worker = "missed"

\* Whoever waits for a mutex finds it free one day, or is cut off, or hangs: its
\* holder waits for a worker and for no mutex, and lets go of it when that has ended.
LEMMA MutexIsFreed ==
    ASSUME NEW p \in Threads
    PROVE  Spec /\ []Fairness /\ []RequestsGoOn =>
              [](Contends(p) =>
                    <>((Contends(p) /\ Free(req[p].cur)) \/ ~Contends(p) \/ []Hung(p)))
<1> DEFINE A == Contends(p)
           Fr == Free(req[p].cur)
           Hu == Hung(p)
           Q == <>((A /\ Fr) \/ ~A \/ []Hu)
           FS(t) == SF_vars(Serve(t))
           ES(t) == ENABLED <<Serve(t)>>_vars
           Holds(o, q) == req[p].cur = o /\ o \in DOMAIN job /\ job[o].lock = q
<1> SUFFICES ASSUME [][Next]_vars, []LockInv, []Fairness, []RequestsGoOn
             PROVE  [](A => Q)
  BY LockInvariance, PTL DEF Spec
<1>0. LockInv => DOMAIN job \subseteq Objects /\ \A o \in DOMAIN job : job[o] \in JobObjects
  <2>1. LockInv => TypeOK
    BY DEF LockInv, TypeInv
  <2>2. QED
    BY <2>1, Indices DEF TypeOK
<1>1. (\E o \in Objects, q \in Threads : A /\ Holds(o, q)) => Q
  <2> SUFFICES ASSUME NEW o \in Objects, NEW q \in Threads PROVE A /\ Holds(o, q) => Q
    <3> HIDE DEF Q
    <3> QED OBVIOUS
  <2> DEFINE H == Holds(o, q)
             Mi == job[o].worker = "missed"
  <2>1. ASSUME LockInv, A, H
        PROVE  ~Idle(p) /\ req[q].pc = "stopping" /\ req[q].cur = o /\ q # p /\ q # None
    BY <2>1, NoneAssumption DEF LockInv, HoldersWait, Idle, Threads, Contends
  <2>2. LockInv /\ [Next]_vars /\ A /\ H => (H' /\ (Mi' => Mi)) \/ ~A' \/ Fr'
    <3> SUFFICES ASSUME LockInv, [Next]_vars, A, H, A' PROVE (H' /\ (Mi' => Mi)) \/ Fr'
      OBVIOUS
    <3>0. /\ req[p].pc \in {"start", "stop", "kill"} /\ req'[p].pc \in {"start", "stop", "kill"}
          /\ ~Follows(req[p].pc, req'[p].pc)
      BY DEF Follows, Contends
    <3>1. req'[p] = req[p]
      BY <2>1, <3>0, HandlerStep
    <3>2. Kept(o)
      BY <2>1, <3>0, LocksStep
    <3>3. QED
      BY <2>1, <3>1, <3>2 DEF Free, Kept
  <2>3. LockInv /\ <<Serve(q)>>_vars /\ A /\ H /\ ~Mi => A' /\ Fr'
    <3> SUFFICES ASSUME LockInv, Serve(q), A, H PROVE A' /\ Fr'
      OBVIOUS
    <3>1. req'[p] = req[p]
      BY <2>1, LockStep
    <3>2. job'[o].lock # q
      <4>1. Follows(req[q].pc, req'[q].pc)
        BY <2>1, HandlerStep DEF Idle
      <4>2. req'[q].pc # "stopping"
        BY <2>1, <4>1 DEF Follows
      <4>3. QED
        BY <2>1, <4>2, LockStep
    <3>3. job'[o].lock = None
      BY <2>1, <3>2, LockStep
    <3>4. QED
      BY <2>1, <3>1, <3>3 DEF Free, Contends
  <2>4. LockInv /\ RequestsGoOn /\ A /\ H /\ ~Mi => ES(q)
    <3> SUFFICES ASSUME LockInv, RequestsGoOn, A, H, ~Mi PROVE ES(q)
      OBVIOUS
    <3>1. GoesOn(q)
      BY AllRequestsGoOn
    <3>2. QED
      BY <2>1, <3>1 DEF GoesOn, Idle
  <2>5. FS(q)
    <3>1. (\A t \in Threads : FS(t)) => FS(q)
      <4> HIDE DEF FS
      <4> QED OBVIOUS
    <3>2. QED
      BY <3>1, PTL DEF Fairness
  <2>6. LockInv /\ A /\ H /\ Mi => Hu
    BY DEF Hung, Contends
  <2> HIDE DEF A, Fr, H, Mi, Hu
  <2>7. QED
    BY <2>2, <2>3, <2>4, <2>5, <2>6, PTL DEF H
<1>2. LockInv => (A => (A /\ Fr) \/ (\E o \in Objects, q \in Threads : A /\ Holds(o, q)))
  <2> SUFFICES ASSUME LockInv, A, ~Fr PROVE \E o \in Objects, q \in Threads : Holds(o, q)
    OBVIOUS
  <2>1. req[p].cur \in DOMAIN job
    BY DEF LockInv, TypeInv, Served, Contends
  <2>2. req[p].cur \in Objects /\ job[req[p].cur].lock \in Threads
    BY <1>0, <2>1 DEF JobObjects, Free
  <2>3. QED
    BY <2>1, <2>2
<1> HIDE DEF A, Fr, Hu, Holds
<1>3. QED
  BY <1>1, <1>2, PTL

\* While a handler waits for a worker, this one does not miss a stop any more.
LEMMA WaitsOn ==
    ASSUME LockInv, [Next]_vars, NEW p \in Threads, req[p].pc = "stopping", req'[p].pc = "stopping"
    PROVE  Missed(p)' => Missed(p)
<1>1. req'[p] = req[p]
  <2>1. ~Idle(p) /\ ~Follows(req[p].pc, req'[p].pc)
    BY DEF Idle, Follows
  <2>2. QED
    BY <2>1, HandlerStep
<1>2. p # None /\ req[p].cur \in DOMAIN job /\ job[req[p].cur].lock = p
  BY NoneAssumption DEF LockInv, TypeInv, Served, WaitersHold, Threads
<1>3. WaitersHold' /\ Kept(req[p].cur)
  BY <1>1, <1>2, LocksStep
<1>4. job'[req[p].cur].lock = p
  BY <1>1, <1>3 DEF WaitersHold
<1>5. QED
  BY <1>1, <1>2, <1>3, <1>4 DEF Kept, Missed

\* Every request that has begun is answered, or cut off by a crash, or hangs since
\* a stop has missed its worker: a handler goes through its steps once, and of
\* those that wait for a mutex with the mutex of another job object held there is
\* none (job.go:55-114, session.go:47-63).
THEOREM RequestsAreAnswered == Spec /\ []Fairness /\ []RequestsGoOn => RequestsEnd
<1> DEFINE X(t) == ~Idle(t) ~> (Idle(t) \/ []Hung(t))
<1>1. ASSUME NEW p \in Threads PROVE Spec /\ []Fairness /\ []RequestsGoOn => X(p)
  <2> DEFINE At(l) == req[p].pc = l
             I == At("idle")
             W == At("swap")
             P == At("replace")
             R == At("ready")
             D == At("dbdelete")
             M == At("mapdelete")
             A == At("start")
             S == At("stop")
             G == At("stopping")
             K == At("kill")
             Z == At("answer")
             C == Contends(p)
             Fr == Free(req[p].cur)
             Mi == Missed(p)
             Hu == Hung(p)
             ES == ENABLED <<Serve(p)>>_vars
             FS(t) == SF_vars(Serve(t))
             H == Spec /\ []Fairness /\ []RequestsGoOn
  <2>1. H => FS(p)
    <3>1. (\A t \in Threads : FS(t)) => FS(p)
      <4> HIDE DEF FS
      <4> QED OBVIOUS
    <3>2. QED
      BY <3>1, PTL DEF Spec, Fairness
  <2>2. H => []LockInv /\ [][Next]_vars /\ []RequestsGoOn
    BY LockInvariance, PTL DEF Spec
  <2>3. LockInv /\ [Next]_vars =>
          /\ W => W' \/ S' \/ P' \/ I'
          /\ D => D' \/ M' \/ I'
          /\ M => M' \/ S' \/ Z' \/ I'
          /\ S => S' \/ G' \/ P' \/ Z' \/ I'
          /\ G => G' \/ P' \/ Z' \/ I'
          /\ P => P' \/ R' \/ I'
          /\ R => R' \/ A' \/ Z' \/ I'
          /\ A => A' \/ Z' \/ I'
          /\ K => K' \/ Z' \/ I'
          /\ Z => Z' \/ I'
    BY HandlerStep DEF Follows, Idle
  <2>4. LockInv /\ <<Serve(p)>>_vars =>
          /\ W => ~W'
          /\ D => ~D'
          /\ M => ~M'
          /\ S => ~S'
          /\ G => ~G'
          /\ P => ~P'
          /\ R => ~R'
          /\ A => ~A'
          /\ K => ~K'
          /\ Z => ~Z'
    BY HandlerStep DEF Follows, Idle
  <2>5. LockInv => W \/ D \/ M \/ S \/ G \/ P \/ R \/ A \/ K \/ Z \/ I
    BY DEF LockInv, TypeInv, TypeOK, Requests, PCs
  <2>6. RequestsGoOn =>
          /\ W \/ D \/ M \/ P \/ R \/ Z => ES
          /\ (A \/ S \/ K) /\ Fr => ES
          /\ G /\ ~Mi => ES
    <3> SUFFICES ASSUME RequestsGoOn
                 PROVE  /\ W \/ D \/ M \/ P \/ R \/ Z => ES
                        /\ (A \/ S \/ K) /\ Fr => ES
                        /\ G /\ ~Mi => ES
      OBVIOUS
    <3>1. GoesOn(p)
      BY AllRequestsGoOn
    <3>2. QED
      BY <3>1 DEF GoesOn, Idle, Missed
  <2>7. H => [](C => <>((C /\ Fr) \/ ~C \/ []Hu))
    BY MutexIsFreed
  <2>17. C <=> A \/ S \/ K
    BY DEF Contends
  <2>18. LockInv /\ [Next]_vars /\ G /\ G' => (Mi' => Mi)
    BY WaitsOn
  <2>19. G /\ Mi => Hu
    BY DEF Hung, Missed
  <2> HIDE DEF I, W, P, R, D, M, A, S, G, K, Z, C, Fr, Mi, Hu, H
  <2>8. H => [](Z => <>I)
    BY <2>1, <2>2, <2>3, <2>4, <2>6, PTL
  <2>9. H => [](A => <>(Z \/ I \/ []Hu)) /\ [](K => <>(Z \/ I \/ []Hu))
    BY <2>1, <2>2, <2>3, <2>4, <2>6, <2>7, <2>17, PTL
  <2>10. H => [](R => <>(A \/ Z \/ I)) /\ [](P => <>(R \/ I))
    BY <2>1, <2>2, <2>3, <2>4, <2>6, PTL
  <2>11. H => [](G => <>(P \/ Z \/ I \/ []Hu))
    BY <2>1, <2>2, <2>3, <2>4, <2>6, <2>18, <2>19, PTL
  <2>12. H => [](S => <>(G \/ P \/ Z \/ I \/ []Hu))
    BY <2>1, <2>2, <2>3, <2>4, <2>6, <2>7, <2>17, PTL
  <2>13. H => [](M => <>(S \/ Z \/ I)) /\ [](D => <>(M \/ I))
    BY <2>1, <2>2, <2>3, <2>4, <2>6, PTL
  <2>14. H => [](W => <>(S \/ P \/ I))
    BY <2>1, <2>2, <2>3, <2>4, <2>6, PTL
  <2>15. H => [](~I => <>(I \/ []Hu))
    BY <2>2, <2>5, <2>8, <2>9, <2>10, <2>11, <2>12, <2>13, <2>14, PTL
  <2>16. QED
    BY <2>15, PTL DEF I, H, Hu, Idle
<1>2. RequestsEnd <=> \A t \in Threads : X(t)
  BY DEF RequestsEnd
<1> HIDE DEF X
<1>3. QED
  BY <1>1, <1>2
=============================================================================

------------------------------- MODULE Daemon -------------------------------
(***************************************************************************)
(* The processes of gosu and the lock they share: cmd/gosu/app.go,         *)
(* getClient of pkg/client/main.go, pkg/session/lock.go and                *)
(* service_daemon.go, Open, Wait and Close of session.go, pkg/surpc.       *)
(*                                                                         *)
(* A client is the process of one command; a daemon goes by the name of    *)
(* the client that started it.  The lock file is a library's: it is held   *)
(* by a live process or by none.  A client looks whether a daemon runs by  *)
(* taking the lock for an instant.  Module Session has what a daemon does  *)
(* with its jobs, Triggers what a shutdown does to one; a request is       *)
(* sent, executed and answered here.  What a handler still does while the  *)
(* daemon exits, and the secret of remote requests, are left out.          *)
(***************************************************************************)
EXTENDS Naturals

CONSTANTS Clients,
          Shutdowns,   \* the clients whose command is "shutdown"
          MaxPings,    \* bound: the pings of one client, 50 in the code
          MaxDeaths,   \* bound: processes that are killed or panic
          NoProc

ASSUME ClientsAssumption == NoProc \notin {"client", "daemon"} \X Clients
ASSUME ShutdownsAssumption == Shutdowns \subseteq Clients
ASSUME BoundsAssumption == MaxPings \in Nat \ {0} /\ MaxDeaths \in Nat

VARIABLES lock,      \* the process that holds the lock file
          client,    \* where each client is
          daemon,    \* where the daemon is that it has started
          pings,     \* the pings that have failed
          server,    \* who has got the client's request
          runs,      \* history: how often the command was executed
          deaths,
          stillborn  \* history: a daemon has died before it served, or a client
                     \* that has found none before it has started one

vars == <<lock, client, daemon, pings, server, runs, deaths, stillborn>>

TypeOK ==
    /\ lock \in {"client", "daemon"} \X Clients \cup {NoProc}
    /\ client \in [Clients -> {"start", "probed", "spawn", "ping", "call", "sent",
                               "executed", "answered", "failed"}]
    /\ daemon \in [Clients -> {"none", "main", "open", "serving", "stopping",
                               "closed", "over"}]
    /\ pings \in [Clients -> 0..MaxPings]
    /\ server \in [Clients -> Clients \cup {NoProc}]
    /\ runs \in [Clients -> Nat]
    /\ deaths \in 0..MaxDeaths
    /\ stillborn \in BOOLEAN

Init ==
    /\ lock = NoProc
    /\ client = [c \in Clients |-> "start"]
    /\ daemon = [c \in Clients |-> "none"]
    /\ pings = [c \in Clients |-> 0]
    /\ server = [c \in Clients |-> NoProc]
    /\ runs = [c \in Clients |-> 0]
    /\ deaths = 0 /\ stillborn = FALSE

Go(c, l) == client' = [client EXCEPT ![c] = l]
Move(d, l) == daemon' = [daemon EXCEPT ![d] = l]
Listening(d) == daemon[d] \in {"serving", "stopping"}
Requests(d) == {c \in Clients : server[c] = d /\ client[c] \in {"sent", "executed"}}

-----------------------------------------------------------------------------
(* A client, up to its request *)

\* Running: TryLock.  Whoever holds the lock is taken for a daemon.
Running(c) ==
    /\ client[c] = "start"
    /\ IF lock = NoProc
         THEN lock' = <<"client", c>> /\ Go(c, "probed")
         ELSE Go(c, "call") /\ UNCHANGED lock
    /\ UNCHANGED <<daemon, pings, server, runs, deaths, stillborn>>

\* Faulty variant: the lock file stays with the client.
RunningKeepsLock(c) ==
    /\ client[c] = "probed"
    /\ Go(c, "spawn")
    /\ UNCHANGED <<lock, daemon, pings, server, runs, deaths, stillborn>>

RunningUnlocks(c) ==
    /\ client[c] = "probed"
    /\ lock' = NoProc
    /\ Go(c, "spawn")
    /\ UNCHANGED <<daemon, pings, server, runs, deaths, stillborn>>

Spawn(c) ==
    /\ client[c] = "spawn"
    /\ Move(c, "main")
    /\ Go(c, "ping")
    /\ UNCHANGED <<lock, pings, server, runs, deaths, stillborn>>

\* Any daemon answers a ping; after the last one the client goes on without.
Ping(c) ==
    /\ client[c] = "ping"
    /\ IF \E d \in Clients : Listening(d)
         THEN Go(c, "call") /\ UNCHANGED pings
         ELSE /\ pings' = [pings EXCEPT ![c] = @ + 1]
              /\ IF pings'[c] = MaxPings THEN Go(c, "call") ELSE UNCHANGED client
    /\ UNCHANGED <<lock, daemon, server, runs, deaths, stillborn>>

\* Client.Call: one POST, whether or not a websocket could be opened; the branch
\* that would use the socket, and try again, asks for an error and a socket.
Call(c) ==
    /\ client[c] = "call"
    /\ \/ \E d \in Clients :
             /\ Listening(d)
             /\ server' = [server EXCEPT ![c] = d]
             /\ Go(c, "sent")
       \/ /\ \A d \in Clients : ~Listening(d)
          /\ Go(c, "failed") /\ UNCHANGED server
    /\ UNCHANGED <<lock, daemon, pings, runs, deaths, stillborn>>

\* A client dies, perhaps with the lock that it tests.  What becomes of a request
\* that has been sent does not depend on the client.
ClientDies(c) ==
    /\ client[c] \in {"start", "probed", "spawn", "ping", "call"} /\ deaths < MaxDeaths
    /\ deaths' = deaths + 1
    /\ stillborn' = (stillborn \/ client[c] \in {"probed", "spawn"})
    /\ lock' = IF client[c] = "probed" THEN NoProc ELSE lock
    /\ Go(c, "failed")
    /\ UNCHANGED <<daemon, pings, server, runs>>

-----------------------------------------------------------------------------
(* A daemon *)

\* Faulty variant: main asks Running, which does not keep the lock.
TryAcquireForgets(d) ==
    /\ daemon[d] = "main"
    /\ Move(d, IF lock = NoProc THEN "open" ELSE "over")
    /\ UNCHANGED <<lock, client, pings, server, runs, deaths, stillborn>>

\* main: without the lock, "daemon" is a command that no client knows.
TryAcquire(d) ==
    /\ daemon[d] = "main"
    /\ IF lock = NoProc
         THEN lock' = <<"daemon", d>> /\ Move(d, "open")
         ELSE Move(d, "over") /\ UNCHANGED lock
    /\ UNCHANGED <<client, pings, server, runs, deaths, stillborn>>

\* Open: the database, the jobs revived, and last the listeners.
Open(d) ==
    /\ daemon[d] = "open"
    /\ Move(d, "serving")
    /\ UNCHANGED <<lock, client, pings, server, runs, deaths, stillborn>>

\* RpcHandler: the service's method; Shutdown begins with StopAll.
Execute(c) ==
    /\ client[c] = "sent" /\ Listening(server[c])
    /\ runs' = [runs EXCEPT ![c] = @ + 1]
    /\ Go(c, "executed")
    /\ IF c \in Shutdowns THEN Move(server[c], "stopping") ELSE UNCHANGED daemon
    /\ UNCHANGED <<lock, pings, server, deaths, stillborn>>

\* The reply, or an error: the method's, or a panic that the server recovers.
Answer(c) ==
    /\ client[c] = "executed" /\ c \notin Shutdowns
    /\ Go(c, "answered") \/ Go(c, "failed")
    /\ UNCHANGED <<lock, daemon, pings, server, runs, deaths, stillborn>>

\* Wait: a signal.
Terminate(d) ==
    /\ daemon[d] = "serving"
    /\ Move(d, "stopping")
    /\ UNCHANGED <<lock, client, pings, server, runs, deaths, stillborn>>

\* Faulty variant: a command whose connection breaks is sent once more.
CutRetries(d) ==
    client' = [c \in Clients |-> IF c \notin Requests(d) THEN client[c]
                                 ELSE IF c \in Shutdowns THEN "answered" ELSE "call"]

\* The requests that have no answer yet fail; a shutdown takes that for its answer.
Cut(d) ==
    client' = [c \in Clients |-> IF c \notin Requests(d) THEN client[c]
                                 ELSE IF c \in Shutdowns THEN "answered" ELSE "failed"]

\* Close: the server, the database, and the context that Wait waits for.
Close(d) ==
    /\ daemon[d] = "stopping"
    /\ Move(d, "closed")
    /\ Cut(d)
    /\ UNCHANGED <<lock, pings, server, runs, deaths, stillborn>>

\* Only the end of its process gives the daemon's lock back.
Exit(d) ==
    /\ daemon[d] = "closed"
    /\ Move(d, "over")
    /\ lock' = NoProc
    /\ UNCHANGED <<client, pings, server, runs, deaths, stillborn>>

\* A daemon is killed, panics, or fails to open its database or listeners.
Dies(d) ==
    /\ daemon[d] \in {"open", "serving", "stopping", "closed"} /\ deaths < MaxDeaths
    /\ deaths' = deaths + 1
    /\ stillborn' = (stillborn \/ daemon[d] = "open")
    /\ Move(d, "over")
    /\ lock' = NoProc
    /\ Cut(d)
    /\ UNCHANGED <<pings, server, runs>>

-----------------------------------------------------------------------------
Client(c) == Running(c) \/ RunningUnlocks(c) \/ Spawn(c) \/ Ping(c) \/ Call(c)
Process(d) == TryAcquire(d) \/ Open(d) \/ Close(d) \/ Exit(d)

Next ==
    \/ \E c \in Clients : Client(c) \/ ClientDies(c) \/ Execute(c) \/ Answer(c)
    \/ \E d \in Clients : Process(d) \/ Terminate(d) \/ Dies(d)

(***************************************************************************)
(* Fairness: a process runs.  Nothing is assumed of what a request does,   *)
(* nor of StopAll, which waits for jobs.                                   *)
(***************************************************************************)
Fairness == \A p \in Clients :
    WF_vars(Client(p)) /\ WF_vars(TryAcquire(p) \/ Open(p) \/ Exit(p))

Spec == Init /\ [][Next]_vars /\ Fairness

-----------------------------------------------------------------------------
(* Properties *)

Holds(d) == daemon[d] \in {"open", "serving", "stopping", "closed"}

\* No two daemons use the database, however many clients start them, and none
\* is without the lock that makes the others go away (app.go:26, lock.go:26).
OneDaemon ==
    /\ \A d, e \in Clients : Holds(d) /\ Holds(e) => d = e
    /\ \A d \in Clients : Holds(d) <=> lock = <<"daemon", d>>

\* A command is executed at most once, and exactly once if it is answered: a
\* lost answer does not send a command again (surpc/client.go:113-125).  After a
\* shutdown the daemon is on its way out, whoever has caused it (main.go:144).
AtMostOnce ==
    \A c \in Clients :
        /\ runs[c] <= 1
        /\ client[c] = "answered" =>
             IF c \in Shutdowns THEN daemon[server[c]] \in {"closed", "over"} ELSE runs[c] = 1

\* A client that looks for a daemon may make another's new daemon give up.  A
\* daemon comes all the same, if there is not one that is about to leave: whoever
\* held the lock is a daemon, or starts one, if nothing kills it before (client/main.go:52,
\* lock.go:18-20).
SpawnServes ==
    \A d \in Clients :
        daemon[d] = "main" ~>
            stillborn \/ \E e \in Clients : daemon[e] \in {"serving", "stopping", "closed"}
=============================================================================

---------------------------- MODULE DaemonProofs ----------------------------
(***************************************************************************)
(* The safety of module Daemon for any number of clients, pings and        *)
(* deaths.  The lock is held by whoever thinks that it holds it, so there  *)
(* is one daemon; a request is with a daemon that listens, so the end of   *)
(* that daemon is the end of the request, and nobody executes it again.    *)
(***************************************************************************)
EXTENDS Daemon, TLAPS

\* The lock and those who act on it.
Locks ==
    /\ \A d \in Clients : Holds(d) <=> lock = <<"daemon", d>>
    /\ \A c \in Clients : client[c] = "probed" => lock = <<"client", c>>

\* A client starts one daemon at most.
Spawns ==
    \A c \in Clients : client[c] \in {"start", "probed", "spawn"} => daemon[c] = "none"

\* Where a request is, and how often its command was executed.
Early(c) == client[c] \in {"start", "probed", "spawn", "ping", "call"}
Leaves(c) == server[c] \in Clients /\ daemon[server[c]] \in {"closed", "over"}
Progress ==
    \A c \in Clients :
        /\ Early(c) => runs[c] = 0
        /\ client[c] = "sent" => runs[c] = 0 /\ server[c] \in Clients /\ Listening(server[c])
        /\ client[c] = "executed" => runs[c] = 1 /\ server[c] \in Clients /\ Listening(server[c])
        /\ client[c] = "answered" => IF c \in Shutdowns THEN Leaves(c) ELSE runs[c] = 1
        /\ runs[c] \in {0, 1}

\* A client that still pings has pings left.
Pinging ==
    \A c \in Clients :
        client[c] \in {"start", "probed", "spawn", "ping"} => pings[c] < MaxPings

IInv == TypeOK /\ Pinging /\ Locks /\ Spawns /\ Progress

LEMMA InitInv == Init => IInv
<1> SUFFICES ASSUME Init PROVE IInv
  OBVIOUS
<1>1. TypeOK /\ Pinging
  <2>1. 0 \in Nat /\ 0 \in 0..MaxPings /\ 0 \in 0..MaxDeaths /\ 0 < MaxPings
    BY BoundsAssumption
  <2>2. lock \in {"client", "daemon"} \X Clients \cup {NoProc}
    BY DEF Init
  <2>3. QED
    BY <2>1, <2>2, Zenon DEF Init, TypeOK, Pinging
<1>2. Locks
  <2>1. \A d \in Clients : NoProc # <<"daemon", d>>
    BY ClientsAssumption
  <2>2. QED
    BY <2>1 DEF Init, Locks, Holds
<1>3. Spawns /\ Progress
  BY DEF Init, Spawns, Progress, Early
<1>4. QED
  BY <1>1, <1>2, <1>3 DEF IInv

\* What keeps the types, and the pings in their bound.
LEMMA TypeStep == TypeOK /\ Pinging /\ [Next]_vars => TypeOK' /\ Pinging'
<1> SUFFICES ASSUME TypeOK, Pinging, [Next]_vars PROVE TypeOK' /\ Pinging'
  OBVIOUS
<1> USE DEF TypeOK, Pinging, Go, Move
<1>1. ASSUME NEW c \in Clients, Client(c) PROVE TypeOK' /\ Pinging'
  <2>1. CASE Running(c)
    <3>1. <<"client", c>> \in {"client", "daemon"} \X Clients
      OBVIOUS
    <3>2. QED
      BY <2>1, <3>1 DEF Running
  <2>5. CASE RunningUnlocks(c) \/ Spawn(c)
    BY <2>5 DEF RunningUnlocks, Spawn
  <2>2. CASE Ping(c)
    BY <2>2, BoundsAssumption DEF Ping
  <2>3. CASE Call(c)
    BY <2>3 DEF Call
  <2>4. QED
    BY <1>1, <2>1, <2>2, <2>3, <2>5 DEF Client
<1>2. ASSUME NEW c \in Clients, ClientDies(c) \/ Execute(c) \/ Answer(c) PROVE TypeOK' /\ Pinging'
  <2>1. CASE Execute(c)
    BY <2>1 DEF Execute, Listening
  <2>2. CASE Answer(c)
    BY <2>2 DEF Answer
  <2>3. CASE ClientDies(c)
    BY <2>3, BoundsAssumption DEF ClientDies
  <2>4. QED
    BY <1>2, <2>1, <2>2, <2>3
<1>3. ASSUME NEW d \in Clients, Process(d) \/ Terminate(d) \/ Dies(d) PROVE TypeOK' /\ Pinging'
  <2>1. CASE TryAcquire(d) \/ Open(d) \/ Exit(d) \/ Terminate(d)
    BY <2>1 DEF TryAcquire, Open, Exit, Terminate
  <2>2. CASE Close(d)
    BY <2>2 DEF Close, Cut
  <2>3. CASE Dies(d)
    BY <2>3, BoundsAssumption DEF Dies, Cut
  <2>4. QED
    BY <1>3, <2>1, <2>2, <2>3 DEF Process
<1>4. CASE UNCHANGED vars
  BY <1>4 DEF vars
<1>5. QED
  BY <1>1, <1>2, <1>3, <1>4 DEF Next

\* Of the steps of clients none but Running and RunningUnlocks touches the lock,
\* and none of them moves a daemon that holds it.
LEMMA ClientStep ==
    ASSUME IInv, NEW c \in Clients, Client(c) PROVE Locks' /\ Spawns' /\ Progress'
<1> USE DEF IInv, TypeOK, Locks, Spawns, Progress, Go, Move, Holds, Listening, Early, Leaves
<1>1. CASE Running(c)
  BY <1>1, ClientsAssumption DEF Running
<1>2. CASE RunningUnlocks(c)
  BY <1>2, ClientsAssumption DEF RunningUnlocks
<1>3. CASE Spawn(c)
  BY <1>3 DEF Spawn
<1>4. CASE Ping(c)
  BY <1>4 DEF Ping
<1>5. CASE Call(c)
  BY <1>5 DEF Call
<1>6. QED
  BY <1>1, <1>2, <1>3, <1>4, <1>5 DEF Client

\* A client that dies gives back the lock that it tests, and no other.
LEMMA ClientDeathStep ==
    ASSUME IInv, NEW c \in Clients, ClientDies(c) PROVE Locks' /\ Spawns' /\ Progress'
<1> USE DEF IInv, TypeOK, Go
<1>1. Locks'
  BY ClientsAssumption DEF ClientDies, Locks, Holds
<1>2. Spawns' /\ Progress'
  BY DEF ClientDies, Spawns, Progress, Listening, Early, Leaves
<1>3. QED
  BY <1>1, <1>2

\* The execution of a request by the daemon that has it.
LEMMA RequestStep ==
    ASSUME IInv, NEW c \in Clients, Execute(c) \/ Answer(c) PROVE Locks' /\ Spawns' /\ Progress'
<1> USE DEF IInv, TypeOK, Locks, Spawns, Progress, Go, Move, Holds, Listening, Early, Leaves
<1>1. CASE Execute(c)
  BY <1>1 DEF Execute
<1>2. CASE Answer(c)
  BY <1>2 DEF Answer
<1>3. QED
  BY <1>1, <1>2

\* A daemon that stops listening cuts the requests it has.
LEMMA ProcessStep ==
    ASSUME IInv, NEW d \in Clients, Process(d) \/ Terminate(d) \/ Dies(d)
    PROVE  Locks' /\ Spawns' /\ Progress'
<1> USE DEF IInv, TypeOK, Locks, Spawns, Progress, Move, Holds, Listening, Early, Leaves
<1>1. CASE TryAcquire(d)
  BY <1>1, ClientsAssumption DEF TryAcquire
<1>2. CASE Open(d) \/ Terminate(d)
  BY <1>2 DEF Open, Terminate
<1>3. CASE Close(d)
  BY <1>3 DEF Close, Cut, Requests
<1>4. CASE Exit(d)
  BY <1>4, ClientsAssumption DEF Exit
<1>5. CASE Dies(d)
  BY <1>5, ClientsAssumption DEF Dies, Cut, Requests
<1>6. QED
  BY <1>1, <1>2, <1>3, <1>4, <1>5 DEF Process

LEMMA NextInv == IInv /\ [Next]_vars => IInv'
<1> SUFFICES ASSUME IInv, [Next]_vars PROVE IInv'
  OBVIOUS
<1>1. TypeOK' /\ Pinging'
  BY TypeStep DEF IInv
<1>2. Locks' /\ Spawns' /\ Progress'
  <2>1. CASE UNCHANGED vars
    <3>1. Locks' /\ Spawns'
      BY <2>1 DEF vars, IInv, Locks, Spawns, Holds
    <3>2. Progress'
      BY <2>1 DEF vars, IInv, Progress, Listening, Early, Leaves
    <3>3. QED
      BY <3>1, <3>2
  <2>2. CASE Next
    BY <2>2, ClientStep, ClientDeathStep, RequestStep, ProcessStep DEF Next
  <2>3. QED
    BY <2>1, <2>2
<1>3. QED
  BY <1>1, <1>2 DEF IInv

\* The invariant holds of every reachable state.
THEOREM Invariance == Spec => []IInv
BY InitInv, NextInv, PTL DEF Spec

-----------------------------------------------------------------------------
\* Every variable keeps its type.
THEOREM TypeCorrect == Spec => []TypeOK
BY Invariance, PTL DEF IInv

\* However many clients start daemons, and whatever dies, no two daemons have
\* the database at once (app.go:26, lock.go:26).
THEOREM OneDaemonAtATime == Spec => []OneDaemon
<1>1. IInv => OneDaemon
  BY DEF IInv, Locks, OneDaemon
<1>2. QED
  BY <1>1, Invariance, PTL

\* A command is executed once, if it is answered, and never twice, whenever the
\* daemon that has it ends (surpc/client.go:113-173).
THEOREM CommandsAreNotRepeated == Spec => []AtMostOnce
<1>1. IInv => AtMostOnce
  <2> SUFFICES ASSUME IInv, NEW c \in Clients
               PROVE  /\ runs[c] <= 1
                      /\ client[c] = "answered" =>
                           IF c \in Shutdowns THEN daemon[server[c]] \in {"closed", "over"}
                                              ELSE runs[c] = 1
    BY DEF AtMostOnce
  <2>1. runs[c] = 0 \/ runs[c] = 1
    BY DEF IInv, Progress
  <2>2. runs[c] <= 1
    BY <2>1
  <2>3. QED
    BY <2>2 DEF IInv, Progress, Leaves
<1>2. QED
  BY <1>1, Invariance, PTL
=============================================================================
